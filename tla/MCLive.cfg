SPECIFICATION FairSpec
CONSTANTS
  a1 = a1
  a2 = a2
  a3 = a3
  a4 = a4
  x = x
  y = y
  v1 = v1
  v2 = v2
  echoed = echoed
  Torn = Torn
  Absent = Absent
  nobody = nobody
INVARIANTS
  ProgramsSeeThree
PROPERTIES
  WaitersServed
  CallsReturn
  WorkCompletes
CHECK_DEADLOCK TRUE
