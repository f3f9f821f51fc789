SPECIFICATION Spec
CONSTANTS
  r1 = r1
  r2 = r2
  w1 = w1
  w2 = w2
  x = x
  y = y
  Readers = {r1}
  Writers = {w1, w2}
  Killable = {w1}
  Bytes = {x}
  Counts = {1, 3}
  PIPESIZE = 2
  UINT = 6
INVARIANT ReadersNotStranded
CHECK_DEADLOCK TRUE
