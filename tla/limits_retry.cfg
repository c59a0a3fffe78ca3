SPECIFICATION Spec
CONSTANTS
  Connections = {r1}
  Clients = {c1}
  Sent <- MCComment
  Started <- MCPlain
  Full = 4
  Slack = 0
  MaxAge = 0
PROPERTIES
  RetryAfterIsValid
CHECK_DEADLOCK FALSE
