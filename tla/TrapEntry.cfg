SPECIFICATION FairSpec
CONSTANTS
  MaxTasks = 2
  Points = 2
  MaxFrames = 3
  BareCalls = FALSE
INVARIANTS
  ScratchIsKernelStack
  KernelUninterrupted
PROPERTIES
  ContextRestored
  KernelReturns
