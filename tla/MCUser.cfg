CONSTANTS
  T1 = T1
  p1 = p1
  p2 = p2
  tickslock = tickslock
  nobody = nobody
SPECIFICATION Spec
INVARIANTS
  TextExact
  UserHeapExact
  ChunksDontMatter
  TreeIsTheGrammars
  ImageReadsBack
  UserCopiesExact
  TestsPass
  NoffCountsLocks
  InterruptsComeBack
PROPERTIES
  SleepsLongEnough
