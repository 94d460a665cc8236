\* Every sequence of three of the sampled headers, in either direction.
SPECIFICATION Spec
CONSTANTS
  ClientHeader <- MCClientHeader
  PeerHeader <- MCPeerHeader
  FirstKey <- MCFirstKey
  MaxMessages = 3
CHECK_DEADLOCK FALSE
INVARIANTS
  HeadersRead
  KeysAgree
  FrameEnds
