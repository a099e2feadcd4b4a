SPECIFICATION RoutingSpec
CONSTANTS
  Attempts = {a1, a2}
  yes = yes
  no = no
  other = other
  c1 = c1
  c2 = c2
  Answers <- MCRivals
  Controls <- MCControls
  ControlOf <- MCControlOf
  NoAnswer = NoAnswer
  Closed = Closed
  Servers = {s1, s2}
  Home = s1
  NoServer = NoServer
  MaxRetries = 0
  MaxErrors = 1
  MaxToken = 1
PROPERTIES
  AnswerContinues
CHECK_DEADLOCK FALSE
