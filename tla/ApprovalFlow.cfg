CONSTANTS
  Calls = {f1, f2}
  Responders = {x1}
  Pool = Pool
  MaxErrors = 1
SPECIFICATION ApprovalSpec
INVARIANTS
  CallsFollowTheRow
  NoMissedDecision
PROPERTIES
  AnnouncedNotOrphaned
  RequestSettlesUnlessFailed
CHECK_DEADLOCK FALSE
