SPECIFICATION QueueSpec
CONSTANTS
  ManagedTasks = {t1}
  ExecTasks = {e1}
  Waiters = {w1}
  NoTask = NoTask
  MaxErrors = 1
INVARIANTS
  NobodySleepsOnEnded
PROPERTIES
  EndedCommandReported
CHECK_DEADLOCK FALSE
