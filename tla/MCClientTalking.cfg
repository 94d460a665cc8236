\* The pool keeps sending messages, so the receive loop keeps handing over the lock,
\* and it hangs up when it cannot read a request.
SPECIFICATION TalkingSpec
CONSTANTS
  Client = {c1}
  Caller = {t1}
  Asked = {"FetchCoinbaser", "SubmitPow"}
  Push = {"JobUpdate"}
  MaxCalls = 3
  InFlight = 2
  NonceSpace = 1
  FirstNonce = 0
  FirstKey <- MCFirstKey
  NoiseWord <- MCNoiseWord
  RequestLen <- MCRequestLen
  AnswerLen <- MCAnswerLen
CHECK_DEADLOCK FALSE
PROPERTIES
  EveryCallReturns
