SPECIFICATION QueueSpec
CONSTANTS
  ManagedTasks = {t1, t2}
  ExecTasks = {}
  Waiters = {}
  NoTask = NoTask
  MaxErrors = 0
PROPERTY QueuedMessageRuns
CHECK_DEADLOCK FALSE
