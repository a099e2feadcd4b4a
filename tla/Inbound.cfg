SPECIFICATION MCInboundSpec
CONSTANTS
  Messages = {1, 2, 3}
  Workers = {w1, w2}
  InjectBuffer = 1
  InboxSize = 2
  NoMessage = 0
INVARIANTS
  OnePlace
  IdleHasNoInjection
PROPERTIES
  QueuedWhileActiveIsTaken
CHECK_DEADLOCK FALSE
