SPECIFICATION StreamSpec
CONSTANTS
  Forwarders = {f1, f2}
  NoForwarder = NoForwarder
  BufferSize = 1
  OutSize = 2
  MaxChanges = 3
  MaxEpochs = 2
  MaxErrors = 1
INVARIANTS
  ViewIsAuthentic
PROPERTIES
  ViewMovesForward
  ViewCatchesUpUnlessRefused
CHECK_DEADLOCK FALSE
