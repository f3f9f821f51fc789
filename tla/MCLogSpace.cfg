SPECIFICATION Spec
CONSTANTS
  o1 = o1
  o2 = o2
  o3 = o3
  b1 = b1
  b2 = b2
  b3 = b3
  v1 = v1
  v2 = v2
  Ops = {o1, o2, o3}
  Blocks = {b1, b2, b3}
  Vals = {v1, v2}
  Torn = Torn
  Absent = Absent
  None = None
  MAXOPBLOCKS = 1
  LOGSIZE = 3
  NLOG = 3
SYMMETRY Symmetry
INVARIANT NeverPanics
CHECK_DEADLOCK TRUE
