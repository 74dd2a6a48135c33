CONSTANTS
  APP_PROCESS_CAPACITY = 2
  ProcessIdMax = 1
  TaskIdMax = 2
  SCHEDULER_USER_QUANTUM_TICKS = 5
  APP_RUN_DISPATCH_BUDGET = 8
  KernelTasks = 1
  MayOverflow = FALSE
SPECIFICATION Spec
INVARIANT BudgetSpentMeansRunnable
