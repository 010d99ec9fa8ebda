SPECIFICATION Spec
CONSTANTS
  PGSIZE = 2
  FANOUT = 8
  USER_END = 10
  NR_FRAMES = 25
  MaxTasks = 2
  MaxDropped = 2
  UserAddr = {2, 4}
  BrkArgs = {0, 1, 3, 6}
  START_BRK = 2
  Segments <- DataOnly
  Image <- MCImage
  Zero = Zero
  Kernel = Kernel
  f0 = f0
  f1 = f1
  d0 = d0
  WriteData = {d0}
INVARIANTS
  TypeOK
  RefCountExact
  FreeFramesZeroed
  TlbCoherent
  BrkFindsHeap
PROPERTIES
  RefinesPrivateMemory
