--------------------------- MODULE HeaderLinkProofs ---------------------------
(***************************************************************************)
(* Theorems about HeaderLink, for every set of headers and every key.      *)
(***************************************************************************)
EXTENDS HeaderLink, DatumHeaderProofs

LEMMA KeysAgreeNext == KeysAgree /\ [Next]_vars => KeysAgree'
<1> SUFFICES ASSUME KeysAgree, [Next]_vars
             PROVE  KeysAgree'
  OBVIOUS
<1>1. ASSUME NEW h \in ClientHeader, ClientSends(h)
      PROVE  KeysAgree'
  <2> DEFINE plain == WordOf(SerializeHeader(h))
  <2>1. /\ header_xor_key' = ApplyHeaderXor(plain, header_xor_key).key
        /\ peerKey' = Xor(ApplyHeaderXor(plain, header_xor_key).result, peerKey)
    BY <1>1, Zenon DEF ClientSends
  <2>2. ApplyHeaderXor(plain, header_xor_key).result = Xor(plain, header_xor_key)
    BY Zenon DEF ApplyHeaderXor
  <2> HIDE DEF plain
  <2>3. header_xor_key' = plain
    BY <2>1, FeedbackIsInput, Zenon
  <2>4. peerKey' = Xor(Xor(plain, header_xor_key), header_xor_key)
    BY <2>1, <2>2, Zenon DEF KeysAgree
  <2> QED BY <2>3, <2>4, XorCancels, Zenon DEF KeysAgree
<1>2. ASSUME NEW h \in PeerHeader, ClientReceives(h)
      PROVE  KeysAgree'
  BY <1>2, FeedbackIsInput, Zenon DEF ClientReceives, KeysAgree
<1>3. CASE UNCHANGED vars
  BY <1>3, Zenon DEF vars, KeysAgree
<1> QED BY <1>1, <1>2, <1>3, Zenon DEF Next

(***************************************************************************)
(* Whatever headers cross the connection in turn, the client's key and     *)
(* that of a peer which keeps the header that crosses the other way round  *)
(* never part.                                                             *)
(***************************************************************************)
THEOREM KeysNeverPart == Spec => []KeysAgree
<1>1. Init => KeysAgree
  BY Zenon DEF Init, KeysAgree
<1> QED BY <1>1, KeysAgreeNext, PTL DEF Spec

LEMMA PlainHeaderReads ==
  ASSUME NEW h \in Header
  PROVE  DeserializeHeader(BytesOf(WordOf(SerializeHeader(h)))) = Truncated(h)
BY HeaderBytes, BytesOfWord, HeaderRoundTrip, Zenon

LEMMA HeadersReadNext == KeysAgree /\ HeadersRead /\ [Next]_vars => HeadersRead'
<1> SUFFICES ASSUME KeysAgree, HeadersRead, [Next]_vars
             PROVE  HeadersRead'
  OBVIOUS
<1>1. ASSUME NEW h \in ClientHeader, header' = h, ClientSends(h)
      PROVE  HeadersRead'
  <2> DEFINE plain == WordOf(SerializeHeader(h))
  <2>1. /\ read' = DeserializeHeader(BytesOf(
                     Xor(ApplyHeaderXor(plain, header_xor_key).result, peerKey)))
        /\ h \in Header
    BY <1>1, HeaderAssumption, Zenon DEF ClientSends
  <2>2. ApplyHeaderXor(plain, header_xor_key).result = Xor(plain, header_xor_key)
    BY Zenon DEF ApplyHeaderXor
  <2>3. DeserializeHeader(BytesOf(plain)) = Truncated(h)
    BY <2>1, PlainHeaderReads
  <2> HIDE DEF plain
  <2>4. Xor(Xor(plain, header_xor_key), peerKey) = plain
    BY XorCancels, Zenon DEF KeysAgree
  <2> QED BY <1>1, <2>1, <2>2, <2>3, <2>4, Zenon DEF HeadersRead
<1>2. ASSUME NEW h \in PeerHeader, header' = h, ClientReceives(h)
      PROVE  HeadersRead'
  <2> DEFINE plain == WordOf(SerializeHeader(h))
  <2>1. /\ read' = DeserializeHeader(BytesOf(
                     ApplyHeaderXor(Xor(plain, peerKey), header_xor_key).result))
        /\ h \in Header
    BY <1>2, HeaderAssumption, Zenon DEF ClientReceives
  <2>2. ApplyHeaderXor(Xor(plain, peerKey), header_xor_key).result
          = Xor(Xor(plain, peerKey), header_xor_key)
    BY Zenon DEF ApplyHeaderXor
  <2>3. DeserializeHeader(BytesOf(plain)) = Truncated(h)
    BY <2>1, PlainHeaderReads
  <2> HIDE DEF plain
  <2>4. Xor(Xor(plain, peerKey), header_xor_key) = plain
    BY XorCancels, Zenon DEF KeysAgree
  <2> QED BY <1>2, <2>1, <2>2, <2>3, <2>4, Zenon DEF HeadersRead
<1>3. CASE UNCHANGED vars
  BY <1>3, Zenon DEF vars, HeadersRead
<1> QED BY <1>1, <1>2, <1>3, Zenon DEF Next

(***************************************************************************)
(* In every sequence of headers sent in turn, of any length and starting   *)
(* from any key, every header is read as it was sent, up to the width of   *)
(* its fields: the codec, the XOR on four bytes and the feedback of the    *)
(* key fit together.                                                       *)
(***************************************************************************)
THEOREM HeadersReadBack == Spec => []HeadersRead
<1>1. Init => HeadersRead
  BY Zenon DEF Init, HeadersRead
<1> QED BY <1>1, KeysNeverPart, HeadersReadNext, PTL DEF Spec

(***************************************************************************)
(* Frames: with its header read as it was sent, a frame ends where the     *)
(* reader expects it, or off by what send_message and the hello message    *)
(* leave out of their length.                                              *)
(***************************************************************************)
LEMMA HeaderSentNext == HeaderSent /\ [Next]_vars => HeaderSent'
<1> SUFFICES ASSUME HeaderSent, [Next]_vars
             PROVE  HeaderSent'
  OBVIOUS
<1>1. ASSUME NEW h \in ClientHeader, header' = h, sender' = "client"
      PROVE  HeaderSent'
  BY <1>1, Zenon DEF HeaderSent
<1>2. ASSUME NEW h \in PeerHeader, header' = h, sender' = "peer"
      PROVE  HeaderSent'
  BY <1>2, SMT DEF HeaderSent
<1>3. CASE UNCHANGED vars
  BY <1>3, Zenon DEF vars, HeaderSent
<1> QED BY <1>1, <1>2, <1>3, Zenon DEF Next

LEMMA FramesRead == HeadersRead /\ HeaderSent => FrameEnds
<1> SUFFICES ASSUME HeadersRead, HeaderSent, header.cmd_len < LenSpace
             PROVE  FrameEnds
  BY Zenon DEF FrameEnds
<1>1. header \in Header /\ (sender = "client" => header.is_signed)
  BY HeaderAssumption, SignedAssumption, Zenon DEF HeaderSent
<1>2. header.cmd_len \in Nat
  BY <1>1, SMT DEF Header
<1>3. header.cmd_len % 4194304 = header.cmd_len
  BY <1>2, SMT DEF LenSpace
<1>4. read.cmd_len = header.cmd_len /\ read.is_signed = header.is_signed
  BY <1>3, SMT DEF HeadersRead, Truncated
<1>5. ReaderTakes(read) = PeerWrites(header)
  BY <1>4, Zenon DEF ReaderTakes, PeerWrites, SignedLen
<1>6. CASE sender = "peer"
  BY <1>5, <1>6, Zenon DEF FrameEnds
<1>7. CASE sender = "client"
  <2>1. PeerWrites(header) = SignatureLen + header.cmd_len
    BY <1>1, <1>7, Zenon DEF PeerWrites, SignedLen
  <2>2. header.cmd_len = (SignatureLen + header.cmd_len) - SignatureLen
    BY <1>2, SMT DEF SignatureLen
  <2>3. CASE header.is_encrypted_channel
    BY <1>5, <1>7, <2>1, <2>3, SMT DEF FrameEnds, ClientWrites
  <2>4. CASE ~header.is_encrypted_channel
    <3>1. ClientWrites(header) = header.cmd_len
      BY <2>4, Zenon DEF ClientWrites
    <3>2. ClientWrites(header) = ReaderTakes(read) - SignatureLen
      BY <1>5, <2>1, <2>2, <3>1, Zenon
    <3> QED BY <1>7, <2>4, <3>2, SMT DEF FrameEnds
  <2> QED BY <2>3, <2>4
<1> QED BY <1>6, <1>7, Zenon DEF HeaderSent

(***************************************************************************)
(* For every sequence of messages: the client's reader stays at the        *)
(* boundaries of its peer's frames.                                        *)
(***************************************************************************)
THEOREM FramesEnd == Spec => []FrameEnds
<1>1. Init => HeaderSent
  BY Zenon DEF Init, HeaderSent
<1> QED BY <1>1, HeadersReadBack, HeaderSentNext, FramesRead, PTL DEF Spec
==============================================================================
