\* Two event handlers and two operators, who may submit and reconnect, share the
\* pool's lock and its connection.
SPECIFICATION HistorySpec
CONSTANTS
  Handler = {h1, h2}
  Requester = {}
  Operator = {o1, o2}
  Client = {c1, c2, c3}
  Pow = Pow
  MaxCalls = 1
SYMMETRY Peers
CHECK_DEADLOCK FALSE
INVARIANTS
  TypeOK
  CoinbaseOfTemplate
  ClientKept
  LoopPerClient
  NoDeadlock
PROPERTIES
  OneAtATime
