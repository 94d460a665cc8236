\* Two callers and the receive loop share the connection, and the pool pushes a
\* message the loop ignores and one whose command does not fit the header.
SPECIFICATION Spec
CONSTANTS
  Client = {c1}
  Caller = {t1, t2}
  Asked = {"FetchCoinbaser", "SubmitPow"}
  Push = {"JobUpdate", "BlockNotify"}
  MaxCalls = 1
  InFlight = 1
  NonceSpace = 3
  FirstNonce = 2
  FirstKey <- MCFirstKey
  NoiseWord <- MCNoiseWord
  RequestLen <- MCRequestLen
  AnswerLen <- MCAnswerLen
SYMMETRY Callers
CHECK_DEADLOCK FALSE
INVARIANTS
  TypeOK
  NonceLockstep
  HeadersReadable
PROPERTIES
  ServesCallers
  GoodMessageAccepted
