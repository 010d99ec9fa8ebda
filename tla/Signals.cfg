SPECIFICATION Spec
CONSTANTS
  NSIG = 3
  SIGKILL = 1
  SIGSTOP = 1
  SIG_DFL = SIG_DFL
  SIG_IGN = SIG_IGN
  Handlers = {handler}
  MaxTasks = 2
  Steps = 2
  CallDepth = 0
  BareCalls = FALSE
INVARIANTS
  FlagTracksPending
PROPERTIES
  SignalsTaken
  ResumesInterrupted
  RefinesSignalService
