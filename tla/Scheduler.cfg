CONSTANTS
  APP_PROCESS_CAPACITY = 2
  ProcessIdMax = 3
  TaskIdMax = 4
  SCHEDULER_USER_QUANTUM_TICKS = 2
  APP_RUN_DISPATCH_BUDGET = 1
  KernelTasks = 2
  MayOverflow = TRUE
SPECIFICATION FairSpec
INVARIANTS
  NothingFreedIsUsed
  ContextIsOwn
  TasksMatchProcesses
PROPERTIES
  HistoryIsComplete
  EveryReadyTaskRuns
  EveryDeadTaskIsReaped
