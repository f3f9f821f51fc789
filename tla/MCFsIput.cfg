SPECIFICATION Spec
CONSTANTS
  p1 = p1
  p2 = p2
  a = a
  b = b
  Procs = {p1, p2}
  NINODES = 2
  Names = {a, b}
  Calls <- IputCalls
  MaxCrash = 0
  None = None
INVARIANT UnlinkedFreed
CHECK_DEADLOCK TRUE
