\* The pool answers every request and sends nothing else.
SPECIFICATION FairSpec
CONSTANTS
  Client = {c1}
  Caller = {t1}
  Asked = {"FetchCoinbaser", "SubmitPow"}
  Push = {}
  MaxCalls = 1
  InFlight = 1
  NonceSpace = 2
  FirstNonce = 0
  FirstKey <- MCFirstKey
  NoiseWord <- MCNoiseWord
  RequestLen <- MCRequestLen
  AnswerLen <- MCAnswerLen
CHECK_DEADLOCK FALSE
PROPERTIES
  EveryCallReturns
