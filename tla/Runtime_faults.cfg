SPECIFICATION RuntimeSpec
CONSTANTS
  Runs = {r1}
  Invocations = {r1}
  Sessions = {s1}
  Session = s1
  Owners = {p1, p2}
  Generations = {1}
  NoOwner = NoOwner
  NoGeneration = NoGeneration
  NoSession = NoSession
  NoInvocation = NoInvocation
  MaxToken = 3
  MaxPosition = 1
  Faults = {"expiry", "crash", "shutdown", "slow", "store_error"}
  MaxFaults = 1
SYMMETRY RuntimeSymmetry
INVARIANTS
  OwnerNotFencedOut
  ExecutedOnce
  RoutedToOwner
  ReservationIndexed
  DecisionFollowsOwnership
  StoppedNeverCompletes
CHECK_DEADLOCK FALSE
