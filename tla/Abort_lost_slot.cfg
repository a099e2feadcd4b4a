SPECIFICATION HandshakeSpec
CONSTANTS
  Aborters = {a1, a2}
  Starter = starter
  MaxErrors = 1
PROPERTIES
  SlotReleased
CHECK_DEADLOCK FALSE
