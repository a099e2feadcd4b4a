CONSTANTS
  Runs = {r1, r2}
  Sessions = {s1}
  Invocations = {i1, i2}
  Owners = {o1, o2}
  Generations = {g1, g2}
  NoOwner = NoOwner
  NoGeneration = NoGeneration
  NoSession = NoSession
  NoInvocation = NoInvocation
  MaxToken = 2
  MaxPosition = 3
  Callers = {c1, c2, c3}
  Payloads = {x, y}
  NoPayload = NoPayload
SPECIFICATION AdmissionSpec
SYMMETRY AdmissionSymmetry
INVARIANTS
  SingleActive
  TokensFollowAdmission
  LedgerInvariant
  InvocationHasOneInput
  NotFoundMeansDeleted
PROPERTIES
  TerminalIsFinal
  AdmissionContract
CHECK_DEADLOCK FALSE
