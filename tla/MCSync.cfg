SPECIFICATION Spec
CONSTANTS
  a1 = a1
  a2 = a2
  b1 = b1
  b2 = b2
  x = x
  y = y
  z = z
  d0 = d0
  d1 = d1
  nobody = nobody
  Readers = {a1, a2}
  Writers = {b1, b2}
  Killable = {a1, a2, b1, b2}
  Bytes = {x, y}
  Counts = {3}
  PIPESIZE = 2
  PipeUINT = 4
  CPUs = {a1, a2}
  NPROC = 3
  MaxPid = 4
  KillPids = {2, 3, 4}
  Threads = {a1, a2}
  Sizes = {0, 1, 4, 5}
  HEAP_SIZE = 12
  HEADER_SIZE = 2
  ALIGNMENT_SIZE = 2
  HeapUINT = 64
  HeapStart = 8
  BufUsers = {a1, a2}
  BlockNos = {x, y, z}
  Bufs = {1, 2}
  Data = {d0, d1}
  Zero = d0
  MaxPins = 1
  Nobody = nobody
SYMMETRY Symmetry
INVARIANTS
  ExclusiveUse
  WritersNotStranded
  OneCpuPerStack
  NoMissedZombie
  GetprocsExact
  HeapTiled
  NullOnlyWhenFull
  CacheCoherent
  BufferRefsExact
PROPERTIES
  IsByteStream
CHECK_DEADLOCK TRUE
