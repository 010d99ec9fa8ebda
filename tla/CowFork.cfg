SPECIFICATION Spec
CONSTANTS
  PGSIZE = 2
  FANOUT = 8
  USER_END = 12
  NR_FRAMES = 41
  MaxTasks = 3
  MaxDropped = 2
  UserAddr = {0, 2}
  BrkArgs = {0}
  START_BRK = 6
  Segments <- TextAndData
  Image <- MCImage
  Zero = Zero
  Kernel = Kernel
  f0 = f0
  f1 = f1
  d0 = d0
  WriteData = {d0}
INVARIANTS
  WritableIsPrivate
PROPERTIES
  RefinesPrivateMemory
