SPECIFICATION Spec
CONSTANTS
  o1 = o1
  o2 = o2
  o3 = o3
  b1 = b1
  b2 = b2
  b3 = b3
  v1 = v1
  v2 = v2
  Ops = {o1, o2}
  Blocks = {b1, b2, b3}
  Vals = {v1, v2}
  Torn = Torn
  Absent = Absent
  None = None
  MAXOPBLOCKS = 2
  LOGSIZE = 4
  NLOG = 4
SYMMETRY Symmetry
INVARIANTS
  TypeOK
  DurableWhenIdle
  PinnedOnce
  NobodyStranded
PROPERTY AtomicCommit
CHECK_DEADLOCK TRUE
