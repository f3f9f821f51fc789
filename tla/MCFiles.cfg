SPECIFICATION Spec
CONSTANTS
  p1 = p1
  p2 = p2
  nameA = nameA
  nameB = nameB
  i1 = i1
  i2 = i2
  f1 = f1
  f2 = f2
  None = None
INVARIANTS
  FsNeverPanics
  ReferencesExact
  CrashSound
  ContentsRight
  WithinReservation
  PagesConserved
CHECK_DEADLOCK TRUE
