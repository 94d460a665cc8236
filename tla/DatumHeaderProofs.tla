-------------------------- MODULE DatumHeaderProofs --------------------------
(***************************************************************************)
(* What the header codec and the XOR obfuscation do, for every header.     *)
(***************************************************************************)
EXTENDS DatumHeader, TLAPS

\* The third byte carries six bits of length and two reserved bits.
LEMMA SharedByte ==
  ASSUME NEW a \in 0 .. 63, NEW r \in U8
  PROVE  /\ (a + 64 * (r % 4)) % 64 = a
         /\ (a + 64 * (r % 4)) \div 64 = r % 4
BY SMTT(30) DEF U8

\* The fourth byte carries three flags and five bits of command.
LEMMA FlagByte ==
  ASSUME NEW a \in {0, 1}, NEW b \in {0, 1}, NEW c \in {0, 1}, NEW p \in U8,
         NEW x, x = a + 2 * b + 4 * c + 8 * (p % 32)
  PROVE  /\ x % 2 = a
         /\ (x \div 2) % 2 = b
         /\ (x \div 4) % 2 = c
         /\ x \div 8 = p % 32
BY SMTT(30) DEF U8

LEMMA BitValue == \A b \in BOOLEAN : Bit(b) \in {0, 1} /\ (Bit(b) = 1 <=> b)
BY SMT DEF Bit

(***************************************************************************)
(* Reading a written header gives every field modulo its width, and loses  *)
(* nothing else: serialize_header neither mixes two fields nor reports an  *)
(* error.                                                                  *)
(***************************************************************************)
THEOREM HeaderRoundTrip ==
  ASSUME NEW h \in Header
  PROVE  DeserializeHeader(SerializeHeader(h)) = Truncated(h)
<1> DEFINE b == SerializeHeader(h)
<1>1. /\ h.cmd_len \in Nat
      /\ h.reserved \in U8
      /\ h.proto_cmd \in U8
      /\ h.is_signed \in BOOLEAN
      /\ h.is_encrypted_pubkey \in BOOLEAN
      /\ h.is_encrypted_channel \in BOOLEAN
  <2>1. h.cmd_len \in Nat
    BY SMT DEF Header
  <2>2. h.reserved \in U8 /\ h.proto_cmd \in U8
    BY SMT DEF Header
  <2>3. h.is_signed \in BOOLEAN
    BY Zenon DEF Header
  <2>4. h.is_encrypted_pubkey \in BOOLEAN /\ h.is_encrypted_channel \in BOOLEAN
    BY Zenon DEF Header
  <2> QED BY <2>1, <2>2, <2>3, <2>4, Zenon
<1>2. /\ b[1] = h.cmd_len % 256
      /\ b[2] = (h.cmd_len \div 256) % 256
      /\ b[3] = ((h.cmd_len \div 65536) % 64) + 64 * (h.reserved % 4)
      /\ b[4] = Bit(h.is_signed) + 2 * Bit(h.is_encrypted_pubkey)
                  + 4 * Bit(h.is_encrypted_channel) + 8 * (h.proto_cmd % 32)
  BY SMT DEF SerializeHeader
<1>3. (h.cmd_len \div 65536) % 64 \in 0 .. 63
  BY <1>1, SMT
<1>4. b[3] % 64 = (h.cmd_len \div 65536) % 64 /\ b[3] \div 64 = h.reserved % 4
  BY <1>1, <1>2, <1>3, SharedByte, SMT
<1>5. b[1] + 256 * b[2] + 65536 * (b[3] % 64) = h.cmd_len % 4194304
  <2> DEFINE n == h.cmd_len
  <2>1. n \in Nat
    BY <1>1
  <2> HIDE DEF n
  <2>2. (n % 256) + 256 * ((n \div 256) % 256)
          + 65536 * ((n \div 65536) % 64) = n % 4194304
    BY <2>1, SMTT(60)
  <2> QED BY <1>2, <1>4, <2>2, SMT DEF n
<1>6. /\ b[4] % 2 = Bit(h.is_signed)
      /\ (b[4] \div 2) % 2 = Bit(h.is_encrypted_pubkey)
      /\ (b[4] \div 4) % 2 = Bit(h.is_encrypted_channel)
      /\ b[4] \div 8 = h.proto_cmd % 32
  BY <1>1, <1>2, FlagByte, BitValue, SMT
<1>7. /\ (b[4] % 2 = 1) = h.is_signed
      /\ ((b[4] \div 2) % 2 = 1) = h.is_encrypted_pubkey
      /\ ((b[4] \div 4) % 2 = 1) = h.is_encrypted_channel
  BY <1>1, <1>6, BitValue, SMT
<1> HIDE DEF b
<1>8. DeserializeHeader(b) = Truncated(h)
  BY <1>4, <1>5, <1>6, <1>7, SMT DEF DeserializeHeader, Truncated
<1> QED BY <1>8 DEF b

LEMMA XorWord == \A a, b \in Word : Xor(a, b) \in Word
BY SMT DEF Xor, Word

(***************************************************************************)
(* apply_header_xor replaces the key by the bytes it was given, whatever   *)
(* the old key: a sender's next key is the plain header it enciphers, a    *)
(* receiver's is the enciphered header that arrived.  (The comment in the  *)
(* code says "new_key = old_key XOR (header_bytes as u32)".)               *)
(***************************************************************************)
THEOREM FeedbackIsInput ==
  \A header, key : ApplyHeaderXor(header, key).key = header
<1> SUFFICES ASSUME NEW header, NEW key
             PROVE  Xor(key, Xor(header, key)) = header
  BY Zenon DEF ApplyHeaderXor
<1>1. \A x : x \in Xor(key, Xor(header, key)) <=> x \in header
  BY Zenon DEF Xor
<1> QED BY <1>1, Zenon

\* What was enciphered with a key is deciphered with the same key.
LEMMA XorCancels == \A a, key : Xor(Xor(a, key), key) = a
<1> SUFFICES ASSUME NEW a, NEW key
             PROVE  Xor(Xor(a, key), key) = a
  OBVIOUS
<1>1. \A x : x \in Xor(Xor(a, key), key) <=> x \in a
  BY Zenon DEF Xor
<1> QED BY <1>1, Zenon

LEMMA WordOfIsWord == \A b : WordOf(b) \in Word
BY SMT DEF WordOf, Word

\* A byte is the sum of the weights of its bits.
LEMMA Halves ==
  ASSUME NEW n \in 0 .. 255
  PROVE  /\ (n \div 2) \div 2 = n \div 4
         /\ (n \div 4) \div 2 = n \div 8
         /\ (n \div 8) \div 2 = n \div 16
         /\ (n \div 16) \div 2 = n \div 32
         /\ (n \div 32) \div 2 = n \div 64
         /\ (n \div 64) \div 2 = n \div 128
         /\ (n \div 128) \div 2 = 0
BY SMTT(30)

LEMMA ByteIsSum ==
  ASSUME NEW n \in U8
  PROVE  n = (n % 2) + 2 * ((n \div 2) % 2) + 4 * ((n \div 4) % 2)
             + 8 * ((n \div 8) % 2) + 16 * ((n \div 16) % 2)
             + 32 * ((n \div 32) % 2) + 64 * ((n \div 64) % 2)
             + 128 * ((n \div 128) % 2)
<1>1. n \in 0 .. 255
  BY Zenon DEF U8
<1>2. \A m \in Nat : m = 2 * (m \div 2) + (m % 2) /\ m \div 2 \in Nat
  BY SMT
<1>3. /\ n \div 2 \in Nat /\ n \div 4 \in Nat /\ n \div 8 \in Nat
      /\ n \div 16 \in Nat /\ n \div 32 \in Nat /\ n \div 64 \in Nat
      /\ n \div 128 \in Nat
  BY <1>1, SMT
<1>4. /\ n = 2 * (n \div 2) + (n % 2)
      /\ n \div 2 = 2 * (n \div 4) + ((n \div 2) % 2)
      /\ n \div 4 = 2 * (n \div 8) + ((n \div 4) % 2)
      /\ n \div 8 = 2 * (n \div 16) + ((n \div 8) % 2)
      /\ n \div 16 = 2 * (n \div 32) + ((n \div 16) % 2)
      /\ n \div 32 = 2 * (n \div 64) + ((n \div 32) % 2)
      /\ n \div 64 = 2 * (n \div 128) + ((n \div 64) % 2)
      /\ n \div 128 = (n \div 128) % 2
  BY <1>1, <1>2, <1>3, Halves, SMTT(30)
<1> QED BY <1>1, <1>3, <1>4, SMTT(30)

(***************************************************************************)
(* The XOR works on the bytes of the header as on one word: nothing is     *)
(* lost between the two views.                                             *)
(***************************************************************************)
LEMMA BytesOfWord ==
  ASSUME NEW b \in U8 \X U8 \X U8 \X U8
  PROVE  BytesOf(WordOf(b)) = b
<1>1. /\ b[1] \in U8 /\ b[2] \in U8 /\ b[3] \in U8 /\ b[4] \in U8
      /\ b = <<b[1], b[2], b[3], b[4]>>
  BY SMT
<1>2. ASSUME NEW j \in 0 .. 3, b[j + 1] \in U8
      PROVE  ByteOf(WordOf(b), j) = b[j + 1]
  <2> DEFINE n == b[j + 1]
  <2>1. ASSUME NEW k \in 0 .. 7
        PROVE  8 * j + k \in WordOf(b) <=> (n \div Weight[k + 1]) % 2 = 1
    <3>1. 8 * j + k \in 0 .. 31 /\ (8 * j + k) % 8 = k /\ (8 * j + k) \div 8 = j
      BY SMT
    <3>2. 8 * j + k \in WordOf(b) <=> k \in BitsOf(n)
      BY <3>1, Zenon DEF WordOf
    <3> QED BY <3>2, Zenon DEF BitsOf
  <2>2. /\ Weight[1] = 1 /\ Weight[2] = 2 /\ Weight[3] = 4 /\ Weight[4] = 8
        /\ Weight[5] = 16 /\ Weight[6] = 32 /\ Weight[7] = 64 /\ Weight[8] = 128
    BY SMT DEF Weight
  <2> DEFINE bit(k) == IF 8 * j + k \in WordOf(b) THEN Weight[k + 1] ELSE 0
  <2>3. ByteOf(WordOf(b), j) = bit(0) + bit(1) + bit(2) + bit(3) + bit(4) + bit(5)
                                 + bit(6) + bit(7)
    BY Zenon DEF ByteOf
  <2> HIDE DEF n, bit
  <2>4. n \in Nat /\ n \in U8
    BY <1>2, SMT DEF n, U8
  <2>6. /\ 8 * j + 0 \in WordOf(b) <=> (n \div 1) % 2 = 1
        /\ 8 * j + 1 \in WordOf(b) <=> (n \div 2) % 2 = 1
        /\ 8 * j + 2 \in WordOf(b) <=> (n \div 4) % 2 = 1
        /\ 8 * j + 3 \in WordOf(b) <=> (n \div 8) % 2 = 1
        /\ 8 * j + 4 \in WordOf(b) <=> (n \div 16) % 2 = 1
        /\ 8 * j + 5 \in WordOf(b) <=> (n \div 32) % 2 = 1
        /\ 8 * j + 6 \in WordOf(b) <=> (n \div 64) % 2 = 1
        /\ 8 * j + 7 \in WordOf(b) <=> (n \div 128) % 2 = 1
    BY <2>1, <2>2, SMTT(30)
  <2>7. /\ bit(0) = n % 2 /\ bit(1) = 2 * ((n \div 2) % 2)
        /\ bit(2) = 4 * ((n \div 4) % 2) /\ bit(3) = 8 * ((n \div 8) % 2)
        /\ bit(4) = 16 * ((n \div 16) % 2) /\ bit(5) = 32 * ((n \div 32) % 2)
        /\ bit(6) = 64 * ((n \div 64) % 2) /\ bit(7) = 128 * ((n \div 128) % 2)
    <3>0. bit(0) = ((n \div 1) % 2)
      <4>1. (n \div 1) % 2 \in {0, 1}
        BY <2>4, SMT
      <4> QED BY <2>2, <2>6, <4>1, SMT DEF bit
    <3>1. bit(1) = 2 * ((n \div 2) % 2)
      <4>1. (n \div 2) % 2 \in {0, 1}
        BY <2>4, SMT
      <4> QED BY <2>2, <2>6, <4>1, SMT DEF bit
    <3>2. bit(2) = 4 * ((n \div 4) % 2)
      <4>1. (n \div 4) % 2 \in {0, 1}
        BY <2>4, SMT
      <4> QED BY <2>2, <2>6, <4>1, SMT DEF bit
    <3>3. bit(3) = 8 * ((n \div 8) % 2)
      <4>1. (n \div 8) % 2 \in {0, 1}
        BY <2>4, SMT
      <4> QED BY <2>2, <2>6, <4>1, SMT DEF bit
    <3>4. bit(4) = 16 * ((n \div 16) % 2)
      <4>1. (n \div 16) % 2 \in {0, 1}
        BY <2>4, SMT
      <4> QED BY <2>2, <2>6, <4>1, SMT DEF bit
    <3>5. bit(5) = 32 * ((n \div 32) % 2)
      <4>1. (n \div 32) % 2 \in {0, 1}
        BY <2>4, SMT
      <4> QED BY <2>2, <2>6, <4>1, SMT DEF bit
    <3>6. bit(6) = 64 * ((n \div 64) % 2)
      <4>1. (n \div 64) % 2 \in {0, 1}
        BY <2>4, SMT
      <4> QED BY <2>2, <2>6, <4>1, SMT DEF bit
    <3>7. bit(7) = 128 * ((n \div 128) % 2)
      <4>1. (n \div 128) % 2 \in {0, 1}
        BY <2>4, SMT
      <4> QED BY <2>2, <2>6, <4>1, SMT DEF bit
    <3>8. n \div 1 = n
      BY <2>4, SMT
    <3> QED BY <3>0, <3>1, <3>2, <3>3, <3>4, <3>5, <3>6, <3>7, <3>8, Zenon
  <2>8. n = bit(0) + bit(1) + bit(2) + bit(3) + bit(4) + bit(5) + bit(6) + bit(7)
    <3>1. n = (n % 2) + 2 * ((n \div 2) % 2) + 4 * ((n \div 4) % 2)
              + 8 * ((n \div 8) % 2) + 16 * ((n \div 16) % 2)
              + 32 * ((n \div 32) % 2) + 64 * ((n \div 64) % 2)
              + 128 * ((n \div 128) % 2)
      BY <2>4, ByteIsSum
    <3> QED BY <2>7, <3>1, SMT
  <2>9. ByteOf(WordOf(b), j) = n
    BY <2>3, <2>8, Zenon
  <2> QED BY <2>9 DEF n
<1>3. /\ ByteOf(WordOf(b), 0) = b[1] /\ ByteOf(WordOf(b), 1) = b[2]
      /\ ByteOf(WordOf(b), 2) = b[3] /\ ByteOf(WordOf(b), 3) = b[4]
  BY <1>1, <1>2, SMT
<1> QED BY <1>1, <1>3, Zenon DEF BytesOf

LEMMA HeaderBytes ==
  ASSUME NEW h \in Header
  PROVE  SerializeHeader(h) \in U8 \X U8 \X U8 \X U8
<1>1. h.cmd_len \in Nat /\ h.reserved \in U8 /\ h.proto_cmd \in U8
  BY SMT DEF Header
<1>2. /\ Bit(h.is_signed) \in {0, 1} /\ Bit(h.is_encrypted_pubkey) \in {0, 1}
      /\ Bit(h.is_encrypted_channel) \in {0, 1}
  BY SMT DEF Bit
<1> DEFINE b1 == h.cmd_len % 256
           b2 == (h.cmd_len \div 256) % 256
           b3 == ((h.cmd_len \div 65536) % 64) + 64 * (h.reserved % 4)
           b4 == Bit(h.is_signed) + 2 * Bit(h.is_encrypted_pubkey)
                   + 4 * Bit(h.is_encrypted_channel) + 8 * (h.proto_cmd % 32)
<1>3. b1 \in U8
  BY <1>1, SMT DEF U8
<1>4. b2 \in U8
  <2>1. h.cmd_len \div 256 \in Nat
    BY <1>1, SMT
  <2> QED BY <2>1, SMT DEF U8
<1>5. b3 \in U8
  <2>1. h.cmd_len \div 65536 \in Nat /\ h.reserved % 4 \in 0 .. 3
    BY <1>1, SMT DEF U8
  <2>2. (h.cmd_len \div 65536) % 64 \in 0 .. 63
    BY <2>1, SMT
  <2> QED BY <2>1, <2>2, SMT DEF U8
<1>6. b4 \in U8
  <2>1. h.proto_cmd % 32 \in 0 .. 31
    BY <1>1, SMT DEF U8
  <2> QED BY <1>2, <2>1, SMT DEF U8
<1>7. SerializeHeader(h) = <<b1, b2, b3, b4>>
  BY SMT DEF SerializeHeader
<1> HIDE DEF b1, b2, b3, b4
<1> QED BY <1>3, <1>4, <1>5, <1>6, <1>7, SMT
==============================================================================
