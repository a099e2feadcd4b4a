SPECIFICATION HandshakeSpec
CONSTANTS
  Aborters = {a1, a2}
  Starter = starter
  MaxErrors = 0
PROPERTIES
  AckedEndsAborted
CHECK_DEADLOCK FALSE
