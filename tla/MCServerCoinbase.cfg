\* An event whose fetch fails after one that succeeded.
SPECIFICATION Spec
CONSTANTS
  Handler = {h1}
  Requester = {r1}
  Operator = {o1}
  Client = {c1}
  Pow = Pow
  MaxCalls = 2
CHECK_DEADLOCK FALSE
INVARIANTS
  CoinbaseCoordinated
