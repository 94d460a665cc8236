----------------------------- MODULE DatumHeader -----------------------------
(***************************************************************************)
(* The packed 4-byte message header of the DATUM protocol, the command     *)
(* bytes, and the XOR obfuscation of the header with key feedback          *)
(* (src/datum_protocol.rs, src/messages.rs).                               *)
(*                                                                         *)
(* Bytes are integers 0..255.  For the XOR a 32-bit word is the set of its *)
(* bits that are 1, so that exclusive or is symmetric difference.          *)
(***************************************************************************)
EXTENDS Integers, Sequences

(***************************************************************************)
(* The discriminants of the enum DatumCommand.                             *)
(***************************************************************************)
CommandCode ==
  [Handshake      |-> 0,   FetchCoinbaser |-> 17,  SubmitPow   |-> 2,
   JobUpdate      |-> 3,   ClientConfig   |-> 153, JobValidation |-> 80,
   ShareResponse  |-> 143, BlockNotify    |-> 249]

Command == {"Handshake", "FetchCoinbaser", "SubmitPow", "JobUpdate",
            "ClientConfig", "JobValidation", "ShareResponse", "BlockNotify"}

\* from_u8: the command with code v, as a set of at most one element (Option).
FromU8(v) == {cmd \in Command : CommandCode[cmd] = v}

U8 == 0 .. 255

\* DatumMessageHeader.  cmd_len is a u32 cast from a length; the 22-bit mask
\* below keeps nothing that this cast drops.
Header == [cmd_len : Nat, reserved : U8, is_signed : BOOLEAN,
           is_encrypted_pubkey : BOOLEAN, is_encrypted_channel : BOOLEAN,
           proto_cmd : U8]

(***************************************************************************)
(* serialize_header: [cmd_len:22][reserved:2][flags:3][proto_cmd:5].  Every *)
(* field is masked to its width, without an error; the u8 shift of         *)
(* proto_cmd drops its three high bits.                                    *)
(***************************************************************************)
Bit(b) == IF b THEN 1 ELSE 0

SerializeHeader(h) ==
  << h.cmd_len % 256,
     (h.cmd_len \div 256) % 256,
     ((h.cmd_len \div 65536) % 64) + 64 * (h.reserved % 4),
     Bit(h.is_signed) + 2 * Bit(h.is_encrypted_pubkey)
       + 4 * Bit(h.is_encrypted_channel) + 8 * (h.proto_cmd % 32) >>

\* A bug: the length is not masked to its six bits of the third byte.
DeserializeHeaderUnmasked(b) ==
  [cmd_len              |-> b[1] + 256 * b[2] + 65536 * b[3],
   reserved             |-> b[3] \div 64,
   is_signed            |-> b[4] % 2 = 1,
   is_encrypted_pubkey  |-> (b[4] \div 2) % 2 = 1,
   is_encrypted_channel |-> (b[4] \div 4) % 2 = 1,
   proto_cmd            |-> b[4] \div 8]

\* deserialize_header, for the 4 bytes that read_exact delivered.
DeserializeHeader(b) ==
  [cmd_len              |-> b[1] + 256 * b[2] + 65536 * (b[3] % 64),
   reserved             |-> b[3] \div 64,
   is_signed            |-> b[4] % 2 = 1,
   is_encrypted_pubkey  |-> (b[4] \div 2) % 2 = 1,
   is_encrypted_channel |-> (b[4] \div 4) % 2 = 1,
   proto_cmd            |-> b[4] \div 8]

\* What the wire format keeps of a header.
Truncated(h) ==
  [cmd_len              |-> h.cmd_len % 4194304,
   reserved             |-> h.reserved % 4,
   is_signed            |-> h.is_signed,
   is_encrypted_pubkey  |-> h.is_encrypted_pubkey,
   is_encrypted_channel |-> h.is_encrypted_channel,
   proto_cmd            |-> h.proto_cmd % 32]

Word == SUBSET (0 .. 31)

Xor(a, b) == (a \ b) \cup (b \ a)

\* A bug: the feedback is taken from the bytes before the XOR.
ApplyHeaderXorToArgument(header, key) ==
  [result |-> Xor(header, key), key |-> Xor(key, header)]

(***************************************************************************)
(* apply_header_xor: the header XORed with the key, and the key that       *)
(* replaces it: xor_key ^ header_as_u32, where header_as_u32 is read from  *)
(* the RESULT of the XOR.                                                  *)
(***************************************************************************)
ApplyHeaderXor(header, key) ==
  [result |-> Xor(header, key), key |-> Xor(key, Xor(header, key))]

\* The word (little endian) of four header bytes, and the bytes of a word.
Weight == <<1, 2, 4, 8, 16, 32, 64, 128>>

BitsOf(n) == {k \in 0 .. 7 : (n \div Weight[k + 1]) % 2 = 1}
WordOf(b) == {i \in 0 .. 31 : i % 8 \in BitsOf(b[(i \div 8) + 1])}

ByteOf(w, j) == LET bit(k) == IF 8 * j + k \in w THEN Weight[k + 1] ELSE 0 IN
  bit(0) + bit(1) + bit(2) + bit(3) + bit(4) + bit(5) + bit(6) + bit(7)
BytesOf(w)   == <<ByteOf(w, 0), ByteOf(w, 1), ByteOf(w, 2), ByteOf(w, 3)>>
==============================================================================
