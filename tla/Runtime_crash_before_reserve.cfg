SPECIFICATION RuntimeSpec
CONSTANTS
  Runs = {r1}
  Invocations = {r1}
  Sessions = {s1}
  Session = s1
  Owners = {p1, p2}
  Generations = {1}
  NoOwner = NoOwner
  NoGeneration = NoGeneration
  NoSession = NoSession
  NoInvocation = NoInvocation
  MaxToken = 2
  MaxPosition = 1
  Faults = {"crash"}
  MaxFaults = 1
SYMMETRY RuntimeSymmetry
INVARIANTS
  Reapable
CHECK_DEADLOCK FALSE
