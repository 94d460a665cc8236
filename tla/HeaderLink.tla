------------------------------ MODULE HeaderLink ------------------------------
(***************************************************************************)
(* The headers of one connection when messages do not cross: the client    *)
(* (apply_header_xor in src/datum_protocol.rs, for what it sends and for   *)
(* what it reads) and a peer written for it.  The client calls the same    *)
(* function in both directions, and the function feeds its RESULT back     *)
(* into the key: the plain header when it reads, the enciphered one when   *)
(* it sends.  So a peer that runs this function itself would lose the key  *)
(* with the first message; the peer here keeps the header that crosses     *)
(* the other way round.                                                    *)
(***************************************************************************)
EXTENDS DatumHeader

CONSTANTS
  ClientHeader,  \* headers the client sends
  PeerHeader,    \* headers the peer sends
  FirstKey,      \* values of the random header key of the handshake
  MaxMessages    \* bound: headers sent over the connection

ASSUME HeaderAssumption ==
  ClientHeader \subseteq Header /\ PeerHeader \subseteq Header
\* perform_handshake and send_message mark everything as signed.
ASSUME SignedAssumption == \A h \in ClientHeader : h.is_signed
ASSUME LinkKeyAssumption == FirstKey \subseteq Word
ASSUME MessagesAssumption == MaxMessages \in Nat

VARIABLES
  header_xor_key,  \* the client's key
  peerKey,
  header,          \* the last header sent, as a record
  sender,          \* who sent it
  read,            \* the header its receiver deserialized
  sent             \* the number of headers sent

vars == <<header_xor_key, peerKey, header, sender, read, sent>>

Init ==
  /\ header_xor_key \in FirstKey
  /\ peerKey = header_xor_key
  /\ header \in ClientHeader
  /\ sender = "client"
  /\ read = Truncated(header)
  /\ sent = 0

\* perform_handshake and send_message: serialize_header, then apply_header_xor.
ClientSends(h) ==
  LET plain == WordOf(SerializeHeader(h))
      out   == ApplyHeaderXor(plain, header_xor_key)
      got   == Xor(out.result, peerKey) IN
  /\ header_xor_key' = out.key
  /\ read' = DeserializeHeader(BytesOf(got))
  /\ peerKey' = got

\* perform_handshake and receive_message_internal: apply_header_xor on the
\* four bytes read, then deserialize_header.
ClientReceives(h) ==
  LET wire == Xor(WordOf(SerializeHeader(h)), peerKey)
      in   == ApplyHeaderXor(wire, header_xor_key) IN
  /\ header_xor_key' = in.key
  /\ read' = DeserializeHeader(BytesOf(in.result))
  /\ peerKey' = wire

Next ==
  /\ sent < MaxMessages
  /\ sent' = sent + 1
  /\ \/ sender' = "client" /\ \E h \in ClientHeader : header' = h /\ ClientSends(h)
     \/ sender' = "peer" /\ \E h \in PeerHeader : header' = h /\ ClientReceives(h)

Spec == Init /\ [][Next]_vars

(***************************************************************************)
(* What follows a header.  send_message signs, and seals a body whose      *)
(* plain length is in the header (the tag comes on top); the hello message *)
(* is as long as its header says, and is marked as signed for a signature  *)
(* within.  The peer writes frames for receive_message_internal: it counts *)
(* what it sealed.                                                         *)
(***************************************************************************)
LenSpace     == 4194304
SignatureLen == 64
TagLen       == 16

SignedLen(h) == IF h.is_signed THEN SignatureLen ELSE 0

ClientWrites(h) ==
  IF h.is_encrypted_channel THEN SignatureLen + h.cmd_len + TagLen ELSE h.cmd_len

PeerWrites(h) == SignedLen(h) + h.cmd_len

\* A bug: the signature is left in the stream.
ReaderTakesBody(h) == h.cmd_len

\* receive_message_internal, after the header: the signature, then cmd_len bytes.
ReaderTakes(h) == SignedLen(h) + h.cmd_len

(***************************************************************************)
(* Whatever headers go before it in either direction, a header is read as  *)
(* it was sent, up to the fields the packed format cuts: the length to 22  *)
(* bits, the reserved bits to 2, the command to 5.                         *)
(***************************************************************************)
HeadersRead == read = Truncated(header)

(***************************************************************************)
(* The reader in this code ends where the frame of its peer ends, whatever *)
(* went before it on the connection.  On what this code WRITES it would    *)
(* not: it would stop a tag too early in every sealed message, and take a  *)
(* signature too much after the hello message, never anything else.        *)
(***************************************************************************)
FrameEnds ==
  header.cmd_len < LenSpace =>
    IF sender = "peer" THEN PeerWrites(header) = ReaderTakes(read)
    ELSE IF header.is_encrypted_channel
      THEN ClientWrites(header) = ReaderTakes(read) + TagLen
      ELSE ClientWrites(header) = ReaderTakes(read) - SignatureLen

\* What makes FrameEnds follow from HeadersRead.
HeaderSent ==
  \/ sender = "client" /\ header \in ClientHeader
  \/ sender = "peer" /\ header \in PeerHeader

\* The key of the client and that of such a peer never part.
KeysAgree == header_xor_key = peerKey
==============================================================================
