\* Two tasks submit a proof of work at the same time (DatumPool::submit_pow only
\* takes the read lock of the pool).
SPECIFICATION Spec
CONSTANTS
  Client = {c1}
  Caller = {t1, t2}
  Asked = {"SubmitPow"}
  Push = {}
  MaxCalls = 1
  InFlight = 2
  NonceSpace = 3
  FirstNonce = 0
  FirstKey <- MCFirstKey
  NoiseWord <- MCNoiseWord
  RequestLen <- MCRequestLen
  AnswerLen <- MCAnswerLen
CHECK_DEADLOCK FALSE
INVARIANTS
  OwnReply
