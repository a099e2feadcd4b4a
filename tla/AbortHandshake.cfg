SPECIFICATION HandshakeSpec
CONSTANTS
  Aborters = {a1, a2, a3}
  Starter = starter
  MaxErrors = 2
INVARIANTS
  OneFinalizer
  AckedNeverStarts
PROPERTIES
  SlotReleasedUnlessRefused
CHECK_DEADLOCK FALSE
