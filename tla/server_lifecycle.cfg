SPECIFICATION FairSpec
CONSTANTS
  Connections = {r1, r2}
  Clients = {c1}
  Sent <- MCSent
  Started <- MCStarted
  Full = 3
  Slack = 0
  MaxAge = 2
INVARIANTS
  TypeOK
  RulesHold
  CleanStop
PROPERTIES
  WaitSuffices
  StopsOnSignal
CHECK_DEADLOCK FALSE
