SPECIFICATION FairRuntimeSpec
CONSTANTS
  Runs = {r1}
  Invocations = {r1}
  Sessions = {s1}
  Session = s1
  Owners = {p1}
  Generations = {1, 2}
  NoOwner = NoOwner
  NoGeneration = NoGeneration
  NoSession = NoSession
  NoInvocation = NoInvocation
  MaxToken = 3
  MaxPosition = 1
  Faults = {"expiry", "backend_loss", "slow"}
  MaxFaults = 2
PROPERTIES
  RunsSettle
CHECK_DEADLOCK FALSE
