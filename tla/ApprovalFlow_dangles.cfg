CONSTANTS
  Calls = {f1, f2}
  Responders = {x1}
  Pool = Pool
  MaxErrors = 1
SPECIFICATION ApprovalSpec
PROPERTIES
  RequestSettles
CHECK_DEADLOCK FALSE
