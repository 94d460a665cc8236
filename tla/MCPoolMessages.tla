---------------------------- MODULE MCPoolMessages ----------------------------
(***************************************************************************)
(* Messages as a pool writes them (the layouts that the comments of the    *)
(* parsers give and the tests build), and those messages with one damage:  *)
(* cut short, one byte replaced, or bytes added.                           *)
(***************************************************************************)
EXTENDS PoolMessages, SequencesExt

\* "error" and "status", shorter; e with an accent; and half of it.
MCUnknownError  == <<101>>
MCUnknownStatus == <<115>>
Accented == <<195, 169>>
Half     == 195

Repeat(b, n) == [i \in 1 .. n |-> b]

LittleEndian4(n) == <<n % 256, (n \div 256) % 256, n \div 65536, 0>>

OutputBytes(o) == o.value \o <<Len(o.script)>> \o o.script

CoinbaseBytes(p) ==
  LET b == <<Len(p.primary_tag)>> \o p.primary_tag
             \o <<Len(p.unique_id)>> \o p.unique_id
             \o <<Len(p.outputs)>>
             \o FlattenSeq([i \in DOMAIN p.outputs |-> OutputBytes(p.outputs[i])])
  IN Repeat(7, 8) \o LittleEndian4(Len(b)) \o b \o <<Terminator>>

Paid   == [script |-> <<118, 169>>, value |-> <<1, 2, 3, 4, 5, 6, 7, 8>>]
Burned == [script |-> <<>>, value |-> Repeat(0, 8)]

Payouts == [primary_tag : {<<>>, <<79>> \o Accented}, unique_id : {<<>>, <<49>>},
            outputs : {<<>>, <<Paid>>, <<Burned, Paid>>}]

MCEcho  == [i \in 1 .. 128 |-> i]
PoolKey == [ed25519 |-> Repeat(9, 32), x25519 |-> Repeat(8, 32)]
MCBadKey == {<<0>> \o Repeat(9, 31)}

Sent(kind, bytes, meaning) == [kind |-> kind, data |-> bytes, sent |-> <<meaning>>]

Long == {
  Sent("Handshake", MCEcho \o PoolKey.ed25519 \o PoolKey.x25519 \o <<72, 0>>,
       PoolKey),
  Sent("BlockNotify", Repeat(1, 4) \o Repeat(2, 32) \o Repeat(3, 32) \o Repeat(0, 4),
       [height |-> Repeat(1, 4), hash |-> Repeat(2, 32),
        prev_hash |-> Repeat(3, 32)])}

Short ==
  {Sent("FetchCoinbaser", CoinbaseBytes(p), p) : p \in Payouts}
  \cup
  {Sent("ClientConfig", <<10>> \o Repeat(3, 4) \o Repeat(4, 8) \o params,
        [max_jobs |-> 10, job_timeout |-> Repeat(3, 4),
         share_difficulty |-> Repeat(4, 8), params |-> params])
     : params \in {<<>>, <<5, 6>>}}
  \cup
  {Sent("JobValidation", <<1>> \o status[1],
        [job_id |-> 1, verdict |-> [result |-> status[2], reason |-> status[3]]])
     : status \in {<<<<>>, "Valid", <<>>>>, <<<<0>>, "Valid", <<>>>>,
                   <<<<1, 84>>, "Invalid", <<84>>>>,
                   <<<<1>>, "Invalid", MCUnknownError>>,
                   <<<<1>> \o Accented, "Invalid", Accented>>,
                   <<<<2>>, "NeedsUpdate", <<>>>>}}
  \cup
  {Sent("ShareResponse", <<accepted[1]>> \o Repeat(4, 8) \o message,
        [accepted |-> accepted[2], difficulty |-> Repeat(4, 8),
         message |-> message])
     : accepted \in {<<0, FALSE>>, <<1, TRUE>>}, message \in {<<>>, <<65>>, Accented}}
  \cup
  {Sent("SubmitPow", <<code[1]>>, [accepted |-> code[2]])
     : code \in {<<80, TRUE>>, <<85, TRUE>>, <<102, FALSE>>}}

\* The last byte of the length stays small: its weight is 2^24.
Replaced(d, bytes) ==
  {[d EXCEPT ![i] = b] : i \in DOMAIN d \ {12}, b \in bytes}
    \cup {[d EXCEPT ![i] = 127] : i \in DOMAIN d \cap {12}}

Damaged(m, bytes) ==
  {[kind |-> m.kind, data |-> d, sent |-> <<>>] :
     d \in {SubSeq(m.data, 1, n) : n \in 0 .. Len(m.data) - 1}
             \cup Replaced(m.data, bytes)
             \cup {m.data \o <<b>> : b \in bytes}}

MCInput ==
  Long \cup Short
    \cup UNION {Damaged(m, {0}) : m \in Long}
    \cup UNION {Damaged(m, {0, 1, 2, 3, Half, Terminator}) : m \in Short}
==============================================================================
