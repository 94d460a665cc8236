----------------------------- MODULE PoolMessages -----------------------------
(***************************************************************************)
(* What the client makes of the payload of a message from the pool: the    *)
(* coinbase response (DatumPool::parse_coinbase_response, src/pool.rs),    *)
(* the four messages of src/handlers.rs, and the answers to the handshake  *)
(* and to a submission (src/datum_protocol.rs).                            *)
(*                                                                         *)
(* The coinbase response is the only one of variable layout.  Its parser   *)
(* is a cursor over the bytes: before each read it makes a check, and a    *)
(* read that leaves the slice all the same is a panic.  Offsets count from *)
(* 0, as in the code.  A u64 is its eight bytes, a String its UTF-8 bytes. *)
(***************************************************************************)
EXTENDS DatumHeader, Utf8

CONSTANTS
  Input,   \* the messages: [kind, data, sent], where sent is <<what the pool
           \* meant by it>>, or <<>> if the bytes are not what it sent
  Echo,    \* the four public keys the client put in its hello message
  BadKey,  \* 32 bytes that VerifyingKey::from_bytes refuses
  UnknownError,     \* "Unknown error"
  UnknownStatus     \* "Unknown status code"

Kind == Command \ {"JobUpdate"}

Slice(s, i, n) == SubSeq(s, i + 1, i + n)

U32(b) == b[1] + 256 * b[2] + 65536 * b[3] + 16777216 * b[4]

Terminator == 254

(***************************************************************************)
(* A payout p is read from the bytes b, from the first one on, and its     *)
(* outputs start at s.                                                     *)
(***************************************************************************)
Output == [script : Seq(U8), value : Seq(U8)]

IsPayout(p) ==
  /\ p = [primary_tag |-> p.primary_tag, unique_id |-> p.unique_id,
          outputs |-> p.outputs]
  /\ p.outputs \in Seq(Output)

TagBytes(b) == Slice(b, 1, b[1])
IdBytes(b)  == Slice(b, 2 + b[1], b[2 + b[1]])

TagRead(b, p) == 1 <= Len(b) /\ p.primary_tag = Utf8Lossy(TagBytes(b))

IdRead(b, p) == 2 + b[1] <= Len(b) /\ p.unique_id = Utf8Lossy(IdBytes(b))

OutputAt(b, i, o) ==
  /\ o.value = Slice(b, i, 8)
  /\ b[i + 9] = Len(o.script)
  /\ o.script = Slice(b, i + 9, Len(o.script))
  /\ i + 9 + Len(o.script) <= Len(b)

FirstOutput(b) == 3 + b[1] + b[2 + b[1]]

\* Where output i starts, if the ones before it are there.
StartOf(b, p, s, i) ==
  IF i = 1 THEN FirstOutput(b) ELSE s[i - 1] + 9 + Len(p.outputs[i - 1].script)

OutputsRead(b, p, s) ==
  \A i \in 1 .. Len(p.outputs) :
    /\ OutputAt(b, s[i], p.outputs[i])
    /\ s[i] = StartOf(b, p, s, i)

LaidOut(b, p, s) ==
  /\ TagRead(b, p) /\ IdRead(b, p)
  /\ FirstOutput(b) <= Len(b)
  /\ b[FirstOutput(b)] = Len(p.outputs)
  /\ OutputsRead(b, p, s)

(***************************************************************************)
(* The bytes d that the pool writes for what it means, p: the layouts that *)
(* the comments of the parsers give and the tests build.  The texts that   *)
(* it means are Unicode, written byte for byte.                            *)
(***************************************************************************)
IsText(t) == t \in Seq(U8) /\ Utf8Lossy(t) = t

WrittenCoinbase(d, p) ==
  LET b == Slice(d, 12, Len(d) - 13) IN
  /\ IsPayout(p) /\ IsText(p.primary_tag) /\ IsText(p.unique_id)
  /\ Len(d) > 13
  /\ U32(Slice(d, 8, 4)) = Len(b)
  /\ d[Len(d)] = Terminator
  /\ p.primary_tag = TagBytes(b) /\ p.unique_id = IdBytes(b)
  /\ \E s \in [1 .. Len(p.outputs) -> 0 .. Len(b)] : LaidOut(b, p, s)

WrittenConfig(d, p) ==
  /\ p \in [max_jobs : U8, job_timeout : Seq(U8), share_difficulty : Seq(U8),
            params : Seq(U8)]
  /\ Len(p.job_timeout) = 4 /\ Len(p.share_difficulty) = 8
  /\ d = <<p.max_jobs>> \o p.job_timeout \o p.share_difficulty \o p.params

\* A refusal without a reason is one for an unknown error.
WrittenValidation(d, p) ==
  /\ p \in [job_id : U8, verdict : [result : {"Valid", "Invalid", "NeedsUpdate"},
                                    reason : Seq(U8)]]
  /\ IsText(p.verdict.reason)
  /\ p.verdict.result # "Invalid" => p.verdict.reason = <<>>
  /\ CASE p.verdict.result = "Valid"   -> d \in {<<p.job_id>>, <<p.job_id, 0>>}
       [] p.verdict.result = "Invalid" ->
            \/ p.verdict.reason # <<>> /\ d = <<p.job_id, 1>> \o p.verdict.reason
            \/ p.verdict.reason = UnknownError /\ d = <<p.job_id, 1>>
       [] OTHER                        -> d = <<p.job_id, 2>>

WrittenShare(d, p) ==
  /\ p \in [accepted : BOOLEAN, difficulty : Seq(U8), message : Seq(U8)]
  /\ Len(p.difficulty) = 8 /\ IsText(p.message)
  /\ \E flag \in U8 : /\ p.accepted = (flag # 0)
                      /\ d = <<flag>> \o p.difficulty \o p.message

\* Four more bytes follow, which the parser asks for and does not read.
WrittenNotify(d, p) ==
  /\ p \in [height : Seq(U8), hash : Seq(U8), prev_hash : Seq(U8)]
  /\ Len(p.height) = 4 /\ Len(p.hash) = 32 /\ Len(p.prev_hash) = 32
  /\ Len(d) >= 72
  /\ d = p.height \o p.hash \o p.prev_hash \o Slice(d, 68, Len(d) - 68)

\* MOTD and signature follow.
WrittenHandshake(d, p) ==
  /\ p \in [ed25519 : Seq(U8) \ BadKey, x25519 : Seq(U8)]
  /\ Len(p.ed25519) = 32 /\ Len(p.x25519) = 32
  /\ Len(d) >= 192
  /\ d = Echo \o p.ed25519 \o p.x25519 \o Slice(d, 192, Len(d) - 192)

WrittenAnswer(d, p) ==
  /\ p \in [accepted : BOOLEAN]
  /\ d \in IF p.accepted THEN {<<80>>, <<85>>} ELSE {<<102>>}

Written(kind, d, p) ==
  CASE kind = "FetchCoinbaser" -> WrittenCoinbase(d, p)
    [] kind = "ClientConfig"   -> WrittenConfig(d, p)
    [] kind = "JobValidation"  -> WrittenValidation(d, p)
    [] kind = "ShareResponse"  -> WrittenShare(d, p)
    [] kind = "BlockNotify"    -> WrittenNotify(d, p)
    [] kind = "Handshake"      -> WrittenHandshake(d, p)
    [] kind = "SubmitPow"      -> WrittenAnswer(d, p)

ASSUME InputAssumption ==
  \A i \in Input : i.kind \in Kind /\ i.data \in Seq(U8)
ASSUME SentAssumption ==
  \A i \in Input : i.sent # <<>> => Written(i.kind, i.data, i.sent[1])
ASSUME EchoAssumption == Echo \in Seq(U8) /\ Len(Echo) = 128

VARIABLES
  input,   \* the message that is parsed
  state,   \* the field that is read next, or how parsing has ended
  body,    \* coinbase_data
  at,      \* data_offset
  want,    \* primary_tag_len, unique_id_len or script_len
  count,   \* output_count
  value,   \* the value of the output that is being read
  starts,  \* history: where in body each output starts
  result

vars == <<input, state, body, at, want, count, value, starts, result>>

data == input.data
Rest(n) == Slice(data, n, Len(data) - n)

EmptyPayout == [primary_tag |-> <<>>, unique_id |-> <<>>, outputs |-> <<>>]

Init ==
  /\ input \in Input
  /\ state = "start"
  /\ body = <<>>
  /\ at = 0
  /\ want = 0
  /\ count = 0
  /\ value = <<>>
  /\ starts = <<>>
  /\ result = EmptyPayout

Stop(how) ==
  state' = how /\ UNCHANGED <<input, body, at, want, count, value, starts, result>>

(***************************************************************************)
(* parse_coinbase_response: value(8), length(4), coinbase_data, 0xFE.  The *)
(* length is compared with what is there; the terminator comes after that. *)
(* (The checks for the value and the length cannot fail after the first.)  *)
(***************************************************************************)
End == 12 + U32(Slice(data, 8, 4))

OpenCoinbase ==
  /\ state = "start"
  /\ input.kind = "FetchCoinbaser"
  /\ \/ Len(data) < 13 /\ Stop("error")
     \/ Len(data) >= 13 /\ End > Len(data) /\ Stop("error")
     \/ Len(data) >= 13 /\ End = Len(data) /\ Stop("panic")
     \/ /\ Len(data) >= 13 /\ End < Len(data)
        /\ data[End + 1] # Terminator
        /\ Stop("error")
     \/ /\ Len(data) >= 13 /\ End < Len(data)
        /\ data[End + 1] = Terminator
        /\ body' = Slice(data, 12, End - 12)
        /\ state' = "tagLen"
        /\ UNCHANGED <<input, at, want, count, value, starts, result>>

\* A bug: off by one.
CheckedLoosely(n) == at + n <= Len(body) + 1

\* The check before n bytes are read ...
Checked(n) == at + n <= Len(body)

\* ... what the read itself needs, and what becomes of it when it has less.
InBounds(n) == at + n <= Len(body)

Fails(n) ==
  /\ ~(Checked(n) /\ InBounds(n))
  /\ Stop(IF Checked(n) THEN "panic" ELSE "error")

Reads(n) ==
  /\ Checked(n) /\ InBounds(n)
  /\ at' = at + n

\* A length byte, for the bytes of the field next.
ReadLength(field, next) ==
  /\ state = field
  /\ \/ Fails(1)
     \/ /\ Reads(1)
        /\ want' = body[at + 1]
        /\ state' = next
        /\ UNCHANGED <<input, body, count, value, starts, result>>

ReadTag ==
  /\ state = "tag"
  /\ \/ Fails(want)
     \/ /\ Reads(want)
        /\ result' = [result EXCEPT !.primary_tag = Utf8Lossy(Slice(body, at, want))]
        /\ state' = "idLen"
        /\ UNCHANGED <<input, body, want, count, value, starts>>

ReadId ==
  /\ state = "id"
  /\ \/ Fails(want)
     \/ /\ Reads(want)
        /\ result' = [result EXCEPT !.unique_id = Utf8Lossy(Slice(body, at, want))]
        /\ state' = "count"
        /\ UNCHANGED <<input, body, want, count, value, starts>>

\* A bug: the byte is taken as signed.
ReadCountSigned ==
  /\ state = "count"
  /\ \/ Fails(1)
     \/ /\ Reads(1)
        /\ count' = IF body[at + 1] < 128 THEN body[at + 1] ELSE body[at + 1] - 256
        /\ state' = IF count' <= 0 THEN "ok" ELSE "value"
        /\ UNCHANGED <<input, body, want, value, starts, result>>

ReadCount ==
  /\ state = "count"
  /\ \/ Fails(1)
     \/ /\ Reads(1)
        /\ count' = body[at + 1]
        /\ state' = IF count' = 0 THEN "ok" ELSE "value"
        /\ UNCHANGED <<input, body, want, value, starts, result>>

ReadValue ==
  /\ state = "value"
  /\ \/ Fails(8)
     \/ /\ Reads(8)
        /\ value' = Slice(body, at, 8)
        /\ starts' = Append(starts, at)
        /\ state' = "scriptLen"
        /\ UNCHANGED <<input, body, want, count, result>>

\* A bug: one output too few.
ReadScriptAndStopEarly ==
  /\ state = "script"
  /\ \/ Fails(want)
     \/ /\ Reads(want)
        /\ result' = [result EXCEPT !.outputs =
             Append(@, [script |-> Slice(body, at, want), value |-> value])]
        /\ state' = IF Len(result'.outputs) + 1 >= count THEN "ok" ELSE "value"
        /\ UNCHANGED <<input, body, want, count, value, starts>>

ReadScript ==
  /\ state = "script"
  /\ \/ Fails(want)
     \/ /\ Reads(want)
        /\ result' = [result EXCEPT !.outputs =
             Append(@, [script |-> Slice(body, at, want), value |-> value])]
        /\ state' = IF Len(result'.outputs) = count THEN "ok" ELSE "value"
        /\ UNCHANGED <<input, body, want, count, value, starts>>

(***************************************************************************)
(* The other messages have their fields at fixed places: one check on the  *)
(* length, then the reads.                                                 *)
(***************************************************************************)
Yield(meaning) ==
  /\ result' = meaning
  /\ state' = "ok"
  /\ UNCHANGED <<input, body, at, want, count, value, starts>>

\* least: the check; used: the bytes that are indexed after it.
Parse(kind, least, used, meaning) ==
  /\ state = "start"
  /\ input.kind = kind
  /\ \/ Len(data) < least /\ Stop("error")
     \/ Len(data) >= least /\ Len(data) < used /\ Stop("panic")
     \/ Len(data) >= least /\ Len(data) >= used /\ Yield(meaning)

ParseClientConfig ==
  Parse("ClientConfig", 13, 13,
        [max_jobs |-> data[1], job_timeout |-> Slice(data, 1, 4),
         share_difficulty |-> Slice(data, 5, 8), params |-> Rest(13)])

\* A job without a status is valid; an unknown status is not.
Verdict ==
  CASE Len(data) = 1 -> [result |-> "Valid", reason |-> <<>>]
    [] Len(data) > 1 /\ data[2] = 0 -> [result |-> "Valid", reason |-> <<>>]
    [] Len(data) > 2 /\ data[2] = 1 ->
         [result |-> "Invalid", reason |-> Utf8Lossy(Rest(2))]
    [] Len(data) = 2 /\ data[2] = 1 ->
         [result |-> "Invalid", reason |-> UnknownError]
    [] Len(data) > 1 /\ data[2] = 2 -> [result |-> "NeedsUpdate", reason |-> <<>>]
    [] OTHER -> [result |-> "Invalid", reason |-> UnknownStatus]

ParseJobValidation ==
  Parse("JobValidation", 1, 1, [job_id |-> data[1], verdict |-> Verdict])

ParseShareResponse ==
  Parse("ShareResponse", 9, 9,
        [accepted |-> data[1] # 0, difficulty |-> Slice(data, 1, 8),
         message |-> Utf8Lossy(Rest(9))])

\* 72 bytes are asked for, and 68 used.
ParseBlockNotify ==
  Parse("BlockNotify", 72, 68,
        [height |-> Slice(data, 0, 4), hash |-> Slice(data, 4, 32),
         prev_hash |-> Slice(data, 36, 32)])

(***************************************************************************)
(* The end of perform_handshake: four echoed keys, then the pool's two.    *)
(* (The MOTD behind them is only logged, the signature is not read.)       *)
(***************************************************************************)
ParseHandshake ==
  /\ state = "start"
  /\ input.kind = "Handshake"
  /\ \/ Len(data) < 192 /\ Stop("error")
     \/ Len(data) >= 192 /\ Slice(data, 0, 128) # Echo /\ Stop("error")
     \/ Len(data) >= 192 /\ Slice(data, 128, 32) \in BadKey /\ Stop("error")
     \/ /\ Len(data) >= 192 /\ Slice(data, 0, 128) = Echo
        /\ Slice(data, 128, 32) \notin BadKey
        /\ Yield([ed25519 |-> Slice(data, 128, 32),
                  x25519  |-> Slice(data, 160, 32)])

\* A bug: a share that is accepted tentatively is an unknown answer.
AcceptedFinally == {80}

\* The end of submit_pow: accepted, accepted tentatively, rejected.
AcceptedCodes == {80, 85}
RejectedCode  == 102

ParseSubmitPow ==
  /\ state = "start"
  /\ input.kind = "SubmitPow"
  /\ \/ data = <<>> /\ Stop("error")
     \/ /\ data # <<>>
        /\ data[1] \notin AcceptedCodes \cup {RejectedCode}
        /\ Stop("error")
     \/ /\ data # <<>>
        /\ data[1] \in AcceptedCodes \cup {RejectedCode}
        /\ Yield([accepted |-> data[1] \in AcceptedCodes])

Next ==
  \/ OpenCoinbase
  \/ ReadLength("tagLen", "tag") \/ ReadTag
  \/ ReadLength("idLen", "id") \/ ReadId
  \/ ReadCount \/ ReadValue
  \/ ReadLength("scriptLen", "script") \/ ReadScript
  \/ ParseClientConfig \/ ParseJobValidation
  \/ ParseShareResponse \/ ParseBlockNotify
  \/ ParseHandshake \/ ParseSubmitPow

Spec == Init /\ [][Next]_vars

(***************************************************************************)
(* Properties.                                                             *)
(***************************************************************************)
Fields == {"tagLen", "tag", "idLen", "id", "count", "value", "scriptLen",
           "script"}

\* Every variable has its type.
TypeOK ==
  /\ input.kind \in Kind /\ data \in Seq(U8)
  /\ state \in Fields \cup {"start", "ok", "error", "panic"}
  /\ body \in Seq(U8) /\ value \in Seq(U8)
  /\ at \in Nat /\ want \in U8 /\ count \in U8
  /\ starts \in Seq(Nat)
  /\ input.kind = "FetchCoinbaser" => IsPayout(result)

(***************************************************************************)
(* The parsers panic on one kind of message and always on that one: a      *)
(* coinbase response that ends with its coinbase data, where the           *)
(* terminator should be.  Every other read stays inside its slice.         *)
(***************************************************************************)
Unterminated ==
  input.kind = "FetchCoinbaser" /\ Len(data) >= 13 /\ Len(data) = End

PanicsUnterminated ==
  /\ state = "panic" => Unterminated
  /\ state # "start" /\ Unterminated => state = "panic"

(***************************************************************************)
(* A payout that parse_coinbase_response returns is the one written in the *)
(* coinbase data from its first byte on: tag and id, decoded, and as many  *)
(* outputs as announced, each where the one before it ends, nothing        *)
(* skipped or read twice, whatever bytes arrive.                           *)
(***************************************************************************)
PayoutExact ==
  state = "ok" /\ input.kind = "FetchCoinbaser" => LaidOut(body, result, starts)

(***************************************************************************)
(* A message that arrives as the pool sent it is understood: no parser     *)
(* refuses it, and what it returns is what was meant.  (It says nothing of *)
(* a text that is not UTF-8 or of a status the parsers do not know: the    *)
(* pool means neither.)                                                    *)
(***************************************************************************)
SentIsUnderstood ==
  input.sent # <<>> =>
    /\ state \notin {"error", "panic"}
    /\ state = "ok" => result = input.sent[1]
==============================================================================
