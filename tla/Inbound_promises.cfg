\* None of these holds: TLC stops at the first, so leave the one to look at.
SPECIFICATION MCInboundSpec
CONSTANTS
  Messages = {1, 2, 3}
  Workers = {w1, w2}
  InjectBuffer = 1
  InboxSize = 2
  NoMessage = 0
INVARIANTS
  BusyIsRedelivered
  InjectionKept
  QueueHasOwner
  StreamIsStoppable
CHECK_DEADLOCK FALSE
