SPECIFICATION SchedulerSpec
CONSTANTS
  NR_TASKS = 5
  PRIORITY_MIN = 1
  PRIORITY_MAX = 3
  MaxTasks = 4
INVARIANTS
  RunnerHasTicks
  NoTicksSaved
PROPERTIES
  EveryTaskRuns
  RefinesWeightedRounds
