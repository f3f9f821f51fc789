SPECIFICATION Spec
CONSTANTS
  p1 = p1
  p2 = p2
  a = a
  b = b
  Procs = {p1}
  NINODES = 3
  Names = {a, b}
  Calls <- DotDotCalls
  MaxCrash = 0
  None = None
INVARIANT NeverPanics
CHECK_DEADLOCK TRUE
