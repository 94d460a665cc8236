\* One caller, which makes several requests, beside the receive loop; the
\* connection may break at any moment.
SPECIFICATION FairSpec
CONSTANTS
  Client = {c1}
  Caller = {t1}
  Asked = {"FetchCoinbaser", "SubmitPow"}
  Push = {}
  MaxCalls = 3
  InFlight = 1
  NonceSpace = 1
  FirstNonce = 0
  FirstKey <- MCFirstKey
  NoiseWord <- MCNoiseWord
  RequestLen <- MCRequestLen
  AnswerLen <- MCAnswerLen
CHECK_DEADLOCK FALSE
INVARIANTS
  OwnReply
PROPERTIES
  LinkDownReleases
