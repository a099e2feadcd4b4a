SPECIFICATION RoutingSpec
CONSTANTS
  Attempts = {a1, a2}
  yes = yes
  no = no
  other = other
  c1 = c1
  c2 = c2
  Answers <- MCAnswers
  Controls <- MCControls
  ControlOf <- MCControlOf
  NoAnswer = NoAnswer
  Closed = Closed
  Servers = {s1, s2}
  Home = s1
  NoServer = NoServer
  MaxRetries = 1
  MaxErrors = 1
  MaxToken = 2
SYMMETRY RoutingSymmetry
INVARIANTS
  OneExecution
PROPERTIES
  DecisionContract
CHECK_DEADLOCK FALSE
