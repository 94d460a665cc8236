\* The pool announces a block.
SPECIFICATION Spec
CONSTANTS
  Client = {c1}
  Caller = {t1}
  Asked = {"FetchCoinbaser", "SubmitPow"}
  Push = {"BlockNotify"}
  MaxCalls = 0
  InFlight = 1
  NonceSpace = 2
  FirstNonce = 0
  FirstKey <- MCFirstKey
  NoiseWord <- MCNoiseWord
  RequestLen <- MCRequestLen
  AnswerLen <- MCAnswerLen
CHECK_DEADLOCK FALSE
PROPERTIES
  LoopOutlivesMessages
