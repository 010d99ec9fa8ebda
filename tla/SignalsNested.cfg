SPECIFICATION Spec
CONSTANTS
  NSIG = 3
  SIGKILL = 1
  SIGSTOP = 1
  SIG_DFL = SIG_DFL
  SIG_IGN = SIG_IGN
  Handlers = {handler}
  MaxTasks = 2
  Steps = 2
  CallDepth = 1
  BareCalls = FALSE
PROPERTY
  ResumesInterrupted
