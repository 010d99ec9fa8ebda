SPECIFICATION Spec
CONSTANTS
  MaxTasks = 1
  Points = 2
  MaxFrames = 3
  BareCalls = TRUE
PROPERTY ContextRestored
