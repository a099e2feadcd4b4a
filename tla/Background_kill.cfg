SPECIFICATION QueueSpec
CONSTANTS
  ManagedTasks = {t1, t2}
  ExecTasks = {e1}
  Waiters = {}
  NoTask = NoTask
  MaxErrors = 0
INVARIANT KillStopsCommand
CHECK_DEADLOCK FALSE
