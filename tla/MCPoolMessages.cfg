\* Every sampled message, as it was sent and with one damage.
SPECIFICATION Spec
CONSTANTS
  Input <- MCInput
  Echo <- MCEcho
  BadKey <- MCBadKey
  UnknownError <- MCUnknownError
  UnknownStatus <- MCUnknownStatus
CHECK_DEADLOCK FALSE
INVARIANTS
  TypeOK
  PanicsUnterminated
  PayoutExact
  SentIsUnderstood
