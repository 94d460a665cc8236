\* The connection breaks, and nobody gives a command.
SPECIFICATION FairSpec
CONSTANTS
  Handler = {h1}
  Requester = {r1}
  Operator = {o1}
  Client = {c1, c2}
  Pow = Pow
  MaxCalls = 1
CHECK_DEADLOCK FALSE
PROPERTIES
  LostConnectionRetried
