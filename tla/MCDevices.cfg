SPECIFICATION Spec
CONSTANTS
  p1 = p1
  p2 = p2
  p3 = p3
  n1 = n1
  n2 = n2
  n3 = n3
  d0 = d0
  d1 = d1
  ch = ch
  nl = nl
  eot = eot
  echo = echo
  None = None
INVARIANTS
  DescriptorsConserved
  BytesInOrder
  IoNotStranded
PROPERTIES
  RwIsAtomic
  LineDiscipline
CHECK_DEADLOCK TRUE
