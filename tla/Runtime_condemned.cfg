SPECIFICATION RuntimeSpec
CONSTANTS
  Runs = {r1, r2}
  Invocations = {r1, r2}
  Sessions = {s1}
  Session = s1
  Owners = {p1}
  Generations = {1}
  NoOwner = NoOwner
  NoGeneration = NoGeneration
  NoSession = NoSession
  NoInvocation = NoInvocation
  MaxToken = 2
  MaxPosition = 2
  Faults = {"expiry", "crash", "store_error"}
  MaxFaults = 1
SYMMETRY RuntimeSymmetry
INVARIANTS
  ReservedIsFound
PROPERTIES
  WritesFollowTokens
  LedgerContract
CHECK_DEADLOCK FALSE
