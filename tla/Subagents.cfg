SPECIFICATION QueueSpec
CONSTANTS
  ManagedTasks = {t1, t2, t3}
  ExecTasks = {}
  Waiters = {}
  NoTask = NoTask
  MaxErrors = 1
INVARIANTS
  OneRequestAtATime
  SuccessorFindsSlot
  KillReachesRun
PROPERTIES
  QueuedMessageSettles
CHECK_DEADLOCK FALSE
