SPECIFICATION MemtestSpec
CONSTANTS
  t1 = t1
  t2 = t2
  Threads = {t1, t2}
  Sizes = {2}
  HEAP_SIZE = 16
  HEADER_SIZE = 2
  ALIGNMENT_SIZE = 2
  UINT = 64
  Start = 8
INVARIANT NeverPanics
CHECK_DEADLOCK TRUE
