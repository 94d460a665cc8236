-------------------------- MODULE PoolMessagesProofs --------------------------
(***************************************************************************)
(* What the parsers of pool messages do, for every message.                *)
(***************************************************************************)
EXTENDS PoolMessages, SequenceTheorems, TLAPS

LEMMA SliceProperties ==
  ASSUME NEW s \in Seq(U8), NEW i \in Nat, NEW n \in Nat, i + n <= Len(s)
  PROVE  /\ Slice(s, i, n) \in Seq(U8)
         /\ Len(Slice(s, i, n)) = n
<1>1. \A j \in i + 1 .. i + n : s[j] \in U8
  BY SMT
<1>2. i + 1 \in Int /\ i + n \in Int
  BY SMT
<1>3. /\ SubSeq(s, i + 1, i + n) \in Seq(U8)
      /\ Len(SubSeq(s, i + 1, i + n)) =
           IF i + 1 <= i + n THEN (i + n) - (i + 1) + 1 ELSE 0
  BY <1>1, <1>2, SubSeqProperties, SMT
<1> QED BY <1>3, SMT DEF Slice

\* The byte at offset i.
LEMMA ByteAt ==
  ASSUME NEW s \in Seq(U8), NEW i \in Nat, i + 1 <= Len(s)
  PROVE  s[i + 1] \in U8
BY SMT

LEMMA WordIsNat ==
  ASSUME NEW a \in Nat, NEW b \in Nat, NEW c \in Nat, NEW d \in Nat
  PROVE  a + 256 * b + 65536 * c + 16777216 * d \in Nat
BY SMT

LEMMA U32Sum ==
  ASSUME NEW b, b[1] \in Nat, b[2] \in Nat, b[3] \in Nat, b[4] \in Nat
  PROVE  U32(b) \in Nat
BY WordIsNat, SMT DEF U32

LEMMA U32IsNat ==
  ASSUME NEW b \in Seq(U8), Len(b) = 4
  PROVE  U32(b) \in Nat
<1>1. \A i \in 1 .. 4 : b[i] \in Nat
  <2>1. \A i \in 1 .. 4 : b[i] \in U8
    BY SMT
  <2>2. \A n \in U8 : n \in Nat
    BY SMT DEF U8
  <2> QED BY <2>1, <2>2, Zenon
<1>2. 1 \in 1 .. 4 /\ 2 \in 1 .. 4 /\ 3 \in 1 .. 4 /\ 4 \in 1 .. 4
  BY SMT
<1>3. b[1] \in Nat /\ b[2] \in Nat /\ b[3] \in Nat /\ b[4] \in Nat
  BY <1>1, <1>2, Zenon
<1> QED BY <1>3, U32Sum, Zenon

\* The end of the coinbase data, as its length claims.
LEMMA EndProperties ==
  ASSUME data \in Seq(U8), Len(data) >= 13
  PROVE  End \in Nat /\ End >= 12
<1>1. Slice(data, 8, 4) \in Seq(U8) /\ Len(Slice(data, 8, 4)) = 4
  <2>1. 8 \in Nat /\ 4 \in Nat /\ 8 + 4 <= Len(data)
    BY SMT
  <2> QED BY <2>1, SliceProperties, Zenon
<1>2. U32(Slice(data, 8, 4)) \in Nat
  BY <1>1, U32IsNat, Zenon
<1> QED BY <1>2, SMT DEF End

LEMMA InitTypeOK == Init => TypeOK
<1> SUFFICES ASSUME Init PROVE TypeOK
  OBVIOUS
<1>1. input.kind \in Kind /\ data \in Seq(U8)
  BY InputAssumption, Zenon DEF Init, data
<1>2. IsPayout(EmptyPayout)
  BY SMT DEF EmptyPayout, IsPayout
<1> QED BY <1>1, <1>2, SMT DEF Init, TypeOK, Fields, U8

(***************************************************************************)
(* Each parser keeps the types.                                            *)
(***************************************************************************)
LEMMA StopType ==
  ASSUME TypeOK, NEW how \in {"error", "panic", "ok"}, Stop(how)
  PROVE  TypeOK'
BY SMT DEF TypeOK, Stop, data

LEMMA YieldType ==
  ASSUME TypeOK, input.kind # "FetchCoinbaser", NEW meaning, Yield(meaning)
  PROVE  TypeOK'
BY SMT DEF TypeOK, Yield, data

LEMMA OpenType ==
  ASSUME TypeOK, OpenCoinbase
  PROVE  TypeOK'
<1>1. CASE Stop("error") \/ Stop("panic")
  BY <1>1, StopType
<1>2. CASE /\ Len(data) >= 13 /\ End < Len(data)
           /\ body' = Slice(data, 12, End - 12)
           /\ state' = "tagLen"
           /\ UNCHANGED <<input, at, want, count, value, starts, result>>
  <2>1. data \in Seq(U8)
    BY DEF TypeOK
  <2>2. End - 12 \in Nat /\ 12 + (End - 12) <= Len(data)
    BY <1>2, <2>1, EndProperties, SMT
  <2>3. body' \in Seq(U8)
    BY <1>2, <2>1, <2>2, SliceProperties, SMT
  <2> QED BY <1>2, <2>3, SMT DEF TypeOK, Fields, data
<1> QED BY <1>1, <1>2, Zenon DEF OpenCoinbase

LEMMA FailsType ==
  ASSUME TypeOK, NEW n, Fails(n)
  PROVE  TypeOK'
<1> DEFINE how == IF Checked(n) THEN "panic" ELSE "error"
<1>1. how \in {"error", "panic", "ok"} /\ Stop(how)
  BY Zenon DEF Fails
<1> QED BY <1>1, StopType

LEMMA ReadLengthType ==
  ASSUME TypeOK, NEW field, NEW next \in Fields, ReadLength(field, next)
  PROVE  TypeOK'
<1>1. CASE Fails(1)
  BY <1>1, FailsType
<1>2. CASE /\ Reads(1) /\ want' = body[at + 1] /\ state' = next
           /\ UNCHANGED <<input, body, count, value, starts, result>>
  <2>1. want' \in U8 /\ at' \in Nat
    BY <1>2, ByteAt, SMT DEF TypeOK, Reads, InBounds
  <2> QED BY <1>2, <2>1, SMT DEF TypeOK, data
<1> QED BY <1>1, <1>2, Zenon DEF ReadLength

LEMMA WantedSlice ==
  ASSUME TypeOK, Reads(want)
  PROVE  /\ at' \in Nat /\ at' <= Len(body) /\ at' = at + want
         /\ Slice(body, at, want) \in Seq(U8)
         /\ Len(Slice(body, at, want)) = want
<1>1. body \in Seq(U8) /\ at \in Nat /\ want \in Nat
  BY SMT DEF TypeOK, U8
<1>2. at + want <= Len(body) /\ at' = at + want
  BY DEF Reads, InBounds
<1>3. at' \in Nat
  BY <1>1, <1>2, SMT
<1> QED BY <1>1, <1>2, <1>3, SliceProperties, Zenon

LEMMA WithTag ==
  ASSUME NEW r, IsPayout(r), NEW s, NEW q, q = [r EXCEPT !.primary_tag = s]
  PROVE  /\ IsPayout(q) /\ q.primary_tag = s /\ q.unique_id = r.unique_id
         /\ q.outputs = r.outputs
BY SMT DEF IsPayout

LEMMA WithId ==
  ASSUME NEW r, IsPayout(r), NEW s, NEW q, q = [r EXCEPT !.unique_id = s]
  PROVE  /\ IsPayout(q) /\ q.primary_tag = r.primary_tag /\ q.unique_id = s
         /\ q.outputs = r.outputs
BY SMT DEF IsPayout

LEMMA WithOutputs ==
  ASSUME NEW r, IsPayout(r), NEW s \in Seq(Output), NEW q,
         q = [r EXCEPT !.outputs = s]
  PROVE  /\ IsPayout(q) /\ q.primary_tag = r.primary_tag
         /\ q.unique_id = r.unique_id /\ q.outputs = s
BY SMT DEF IsPayout

LEMMA ReadTagType == ASSUME TypeOK, ReadTag, input.kind = "FetchCoinbaser"
                     PROVE  TypeOK'
<1>1. CASE Fails(want)
  BY <1>1, FailsType
<1>2. CASE /\ Reads(want)
           /\ result' = [result EXCEPT !.primary_tag = Utf8Lossy(Slice(body, at, want))]
           /\ state' = "idLen"
           /\ UNCHANGED <<input, body, want, count, value, starts>>
  <2>1. at' \in Nat
    BY <1>2, WantedSlice, SMT
  <2>2. IsPayout(result)
    BY Zenon DEF TypeOK
  <2>3. IsPayout(result')
    BY <1>2, <2>2, WithTag, Zenon
  <2> QED BY <1>2, <2>1, <2>3, SMT DEF TypeOK, data, Fields
<1> QED BY <1>1, <1>2, Zenon DEF ReadTag

LEMMA ReadIdType == ASSUME TypeOK, ReadId, input.kind = "FetchCoinbaser"
                    PROVE  TypeOK'
<1>1. CASE Fails(want)
  BY <1>1, FailsType
<1>2. CASE /\ Reads(want)
           /\ result' = [result EXCEPT !.unique_id = Utf8Lossy(Slice(body, at, want))]
           /\ state' = "count"
           /\ UNCHANGED <<input, body, want, count, value, starts>>
  <2>1. at' \in Nat
    BY <1>2, WantedSlice, SMT
  <2>2. IsPayout(result)
    BY Zenon DEF TypeOK
  <2>3. IsPayout(result')
    BY <1>2, <2>2, WithId, Zenon
  <2> QED BY <1>2, <2>1, <2>3, SMT DEF TypeOK, data, Fields
<1> QED BY <1>1, <1>2, Zenon DEF ReadId

LEMMA ReadCountType == ASSUME TypeOK, ReadCount PROVE TypeOK'
<1>1. CASE Fails(1)
  BY <1>1, FailsType
<1>2. CASE /\ Reads(1) /\ count' = body[at + 1]
           /\ state' = IF count' = 0 THEN "ok" ELSE "value"
           /\ UNCHANGED <<input, body, want, value, starts, result>>
  <2>1. count' \in U8 /\ at' \in Nat
    BY <1>2, ByteAt, SMT DEF TypeOK, Reads, InBounds
  <2> QED BY <1>2, <2>1, SMT DEF TypeOK, data, Fields
<1> QED BY <1>1, <1>2, Zenon DEF ReadCount

LEMMA ReadValueType == ASSUME TypeOK, ReadValue PROVE TypeOK'
<1>1. CASE Fails(8)
  BY <1>1, FailsType
<1>2. CASE /\ Reads(8) /\ value' = Slice(body, at, 8)
           /\ starts' = Append(starts, at) /\ state' = "scriptLen"
           /\ UNCHANGED <<input, body, want, count, result>>
  <2>1. value' \in Seq(U8) /\ at' \in Nat
    BY <1>2, SliceProperties, SMT DEF TypeOK, Reads, InBounds
  <2>2. starts' \in Seq(Nat)
    BY <1>2, AppendProperties, SMT DEF TypeOK
  <2> QED BY <1>2, <2>1, <2>2, SMT DEF TypeOK, data, Fields
<1> QED BY <1>1, <1>2, Zenon DEF ReadValue

LEMMA ReadScriptType == ASSUME TypeOK, ReadScript, input.kind = "FetchCoinbaser"
                        PROVE  TypeOK'
<1>1. CASE Fails(want)
  BY <1>1, FailsType
<1>2. CASE /\ Reads(want)
           /\ result' = [result EXCEPT !.outputs =
                Append(@, [script |-> Slice(body, at, want), value |-> value])]
           /\ state' = IF Len(result'.outputs) = count THEN "ok" ELSE "value"
           /\ UNCHANGED <<input, body, want, count, value, starts>>
  <2>1. at' \in Nat /\ Slice(body, at, want) \in Seq(U8)
    BY <1>2, WantedSlice, SMT
  <2> DEFINE o == [script |-> Slice(body, at, want), value |-> value]
  <2>2. o \in Output
    BY <2>1, SMT DEF Output, TypeOK
  <2>0. IsPayout(result)
    BY Zenon DEF TypeOK
  <2>3. result.outputs \in Seq(Output)
    BY <2>0, SMT DEF IsPayout
  <2>4. Append(result.outputs, o) \in Seq(Output)
    BY <2>2, <2>3, AppendProperties
  <2>5. result' = [result EXCEPT !.outputs = Append(result.outputs, o)]
    BY <1>2, Zenon
  <2>6. IsPayout(result')
    BY <2>0, <2>4, <2>5, <2>1, WithOutputs, Zenon
  <2> QED BY <1>2, <2>1, <2>6, SMT DEF TypeOK, data, Fields
<1> QED BY <1>1, <1>2, Zenon DEF ReadScript

LEMMA OtherType ==
  ASSUME TypeOK,
         \/ ParseClientConfig \/ ParseJobValidation \/ ParseShareResponse
         \/ ParseBlockNotify \/ ParseHandshake \/ ParseSubmitPow
  PROVE  TypeOK'
<1>1. /\ input.kind # "FetchCoinbaser"
      /\ \/ Stop("error") \/ Stop("panic")
         \/ \E meaning : Yield(meaning)
  BY Zenon DEF ParseClientConfig, ParseJobValidation, ParseShareResponse,
               ParseBlockNotify, ParseHandshake, ParseSubmitPow, Parse
<1> QED BY <1>1, StopType, YieldType, Zenon

(***************************************************************************)
(* What makes PayoutExact inductive: where the cursor is at each field,    *)
(* and what has been read by then.                                         *)
(***************************************************************************)
TagFields    == {"start", "tagLen", "tag"}
IdFields     == {"idLen", "id"}
OutputFields == {"value", "scriptLen", "script"}

Cursor ==
  /\ state \in {"start", "tagLen"} => at = 0
  /\ state = "tag" => at = 1 /\ body[1] = want
  /\ state = "idLen" => at = 1 + body[1]
  /\ state = "id" => at = 2 + body[1] /\ body[at] = want
  /\ state = "count" => at + 1 = FirstOutput(body)
  /\ state = "value" => at = StartOf(body, result, starts, Len(starts) + 1)
  /\ state = "scriptLen" => at = starts[Len(starts)] + 8
  /\ state = "script" => at = starts[Len(starts)] + 9 /\ body[at] = want

HeadRead ==
  /\ state \in TagFields \cup IdFields \cup {"count"} =>
       result.outputs = <<>> /\ starts = <<>>
  /\ state \in IdFields \cup OutputFields \cup {"count"} => TagRead(body, result)
  /\ state \in OutputFields \cup {"count"} => IdRead(body, result)
  /\ state \in OutputFields => FirstOutput(body) <= Len(body)
                             /\ body[FirstOutput(body)] = count

OutputsSoFar ==
  state \in OutputFields =>
    /\ Len(result.outputs) < count
    /\ OutputsRead(body, result, starts)
    /\ IF state = "value"
         THEN Len(starts) = Len(result.outputs)
         ELSE /\ Len(starts) = Len(result.outputs) + 1
              /\ starts[Len(starts)] = StartOf(body, result, starts, Len(starts))
              /\ value = Slice(body, starts[Len(starts)], 8)

CursorInv ==
  /\ state \in Fields => input.kind = "FetchCoinbaser" /\ at <= Len(body)
  /\ Cursor /\ HeadRead /\ OutputsSoFar /\ PayoutExact

LEMMA InitCursor == Init => CursorInv
<1> SUFFICES ASSUME Init PROVE CursorInv
  OBVIOUS
<1>1. state = "start" /\ at = 0 /\ starts = <<>>
  BY DEF Init
<1>2. result.outputs = <<>>
  BY DEF Init, EmptyPayout
<1>3. Cursor /\ OutputsSoFar /\ PayoutExact
  BY <1>1, Zenon DEF Cursor, OutputsSoFar, PayoutExact, OutputFields
<1>4. HeadRead
  BY <1>1, <1>2, Zenon DEF HeadRead, TagFields, IdFields, OutputFields
<1>5. state \notin Fields
  BY <1>1 DEF Fields
<1> QED BY <1>3, <1>4, <1>5, Zenon DEF CursorInv

LEMMA EndedCursor ==
  ASSUME state' \in {"error", "panic", "ok"},
         state' = "ok" => input'.kind # "FetchCoinbaser"
  PROVE  CursorInv'
<1>1. state' \notin Fields /\ state' \notin TagFields \cup IdFields
      /\ state' \notin OutputFields \cup {"count"}
  BY SMT DEF Fields, TagFields, IdFields, OutputFields
<1>2. Cursor' /\ OutputsSoFar'
  BY <1>1, SMT DEF Cursor, OutputsSoFar, Fields
<1>3. HeadRead'
  BY <1>1, SMT DEF HeadRead
<1>4. PayoutExact'
  BY SMT DEF PayoutExact
<1> QED BY <1>1, <1>2, <1>3, <1>4, Zenon DEF CursorInv

LEMMA OtherCursor ==
  ASSUME TypeOK,
         \/ ParseClientConfig \/ ParseJobValidation \/ ParseShareResponse
         \/ ParseBlockNotify \/ ParseHandshake \/ ParseSubmitPow
  PROVE  CursorInv'
<1>1. /\ input.kind # "FetchCoinbaser"
      /\ \/ Stop("error") \/ Stop("panic")
         \/ \E meaning : Yield(meaning)
  BY Zenon DEF ParseClientConfig, ParseJobValidation, ParseShareResponse,
               ParseBlockNotify, ParseHandshake, ParseSubmitPow, Parse
<1>2. input' = input /\ state' \in {"error", "panic", "ok"}
  BY <1>1, SMT DEF Stop, Yield
<1> QED BY <1>1, <1>2, EndedCursor, Zenon

LEMMA FailsCursor ==
  ASSUME NEW n, Fails(n)
  PROVE  CursorInv'
<1>1. state' \in {"error", "panic", "ok"} /\ state' # "ok"
  BY SMT DEF Fails, Stop
<1> QED BY <1>1, EndedCursor, Zenon

LEMMA OpenCursor ==
  ASSUME TypeOK, CursorInv, OpenCoinbase
  PROVE  CursorInv'
<1>1. CASE Stop("error") \/ Stop("panic")
  <2>1. state' \in {"error", "panic", "ok"} /\ state' # "ok"
    BY <1>1, SMT DEF Stop
  <2> QED BY <2>1, EndedCursor, Zenon
<1>2. CASE /\ Len(data) >= 13 /\ End < Len(data)
           /\ body' = Slice(data, 12, End - 12)
           /\ state' = "tagLen"
           /\ UNCHANGED <<input, at, want, count, value, starts, result>>
  <2>1. state = "start" /\ input.kind = "FetchCoinbaser"
    BY Zenon DEF OpenCoinbase
  <2>2. at = 0 /\ result.outputs = <<>> /\ starts = <<>>
    BY <2>1, SMT DEF CursorInv, Cursor, HeadRead, TagFields
  <2>3. Len(body') \in Nat
    <3>1. TypeOK'
      BY OpenType, Zenon
    <3> QED BY <3>1, SMT DEF TypeOK
  <2>4. Cursor' /\ HeadRead' /\ OutputsSoFar' /\ PayoutExact'
    BY <1>2, <2>2, SMT DEF Cursor, HeadRead, OutputsSoFar, PayoutExact,
                           IdFields, OutputFields
  <2> QED BY <1>2, <2>1, <2>2, <2>3, <2>4, SMT DEF CursorInv
<1> QED BY <1>1, <1>2, Zenon DEF OpenCoinbase
\* The bytes of the tag and of the id are read from body alone.
LEMMA TagLenCursor ==
  ASSUME TypeOK, CursorInv, ReadLength("tagLen", "tag")
  PROVE  CursorInv'
<1>1. CASE Fails(1)
  BY <1>1, FailsCursor
<1>2. CASE /\ Reads(1) /\ want' = body[at + 1] /\ state' = "tag"
           /\ UNCHANGED <<input, body, count, value, starts, result>>
  <2>1. state = "tagLen"
    BY DEF ReadLength
  <2>2. /\ at = 0 /\ result.outputs = <<>> /\ starts = <<>>
        /\ input.kind = "FetchCoinbaser"
    BY <2>1, SMT DEF CursorInv, Cursor, HeadRead, TagFields, Fields
  <2>3. at' = 1 /\ at' <= Len(body') /\ body'[1] = want'
    BY <1>2, <2>2, SMT DEF Reads, InBounds
  <2>4. Cursor' /\ HeadRead' /\ OutputsSoFar' /\ PayoutExact'
    BY <1>2, <2>2, <2>3, SMT DEF Cursor, HeadRead, OutputsSoFar, PayoutExact,
                                 IdFields, OutputFields
  <2> QED BY <1>2, <2>2, <2>3, <2>4, SMT DEF CursorInv
<1> QED BY <1>1, <1>2, Zenon DEF ReadLength

LEMMA TagCursor ==
  ASSUME TypeOK, CursorInv, ReadTag
  PROVE  CursorInv'
<1>1. CASE Fails(want)
  BY <1>1, FailsCursor
<1>2. CASE /\ Reads(want)
           /\ result' = [result EXCEPT !.primary_tag = Utf8Lossy(Slice(body, at, want))]
           /\ state' = "idLen"
           /\ UNCHANGED <<input, body, want, count, value, starts>>
  <2>1. state = "tag"
    BY DEF ReadTag
  <2>2. /\ at = 1 /\ body[1] = want /\ result.outputs = <<>> /\ starts = <<>>
        /\ input.kind = "FetchCoinbaser"
    BY <2>1, SMT DEF CursorInv, Cursor, HeadRead, TagFields, Fields
  <2>3. IsPayout(result)
    BY <2>2, Zenon DEF TypeOK
  <2>4. /\ result'.primary_tag = Utf8Lossy(Slice(body, 1, want))
        /\ result'.outputs = <<>>
    <3>1. /\ result'.primary_tag = Utf8Lossy(Slice(body, at, want))
          /\ result'.outputs = result.outputs
      <4>1. PICK s : s = Utf8Lossy(Slice(body, at, want))
        OBVIOUS
      <4>2. result' = [result EXCEPT !.primary_tag = s]
        BY <1>2, <4>1, Zenon
      <4>3. /\ IsPayout(result') /\ result'.primary_tag = s
            /\ result'.unique_id = result.unique_id
            /\ result'.outputs = result.outputs
        BY <2>3, <4>2, WithTag
      <4> QED BY <4>1, <4>3, Zenon
    <3> QED BY <2>2, <3>1, Zenon
  <2>5. at' \in Nat /\ at' <= Len(body) /\ at' = 1 + want /\ want \in Nat
    BY <1>2, <2>2, WantedSlice, SMT DEF TypeOK, U8
  <2>6. TagRead(body, result)'
    <3>1. 1 <= Len(body)
      BY <2>5, SMT DEF TypeOK
    <3> QED BY <1>2, <2>2, <2>4, <3>1, Zenon DEF TagRead, TagBytes
  <2>7. at' = 1 + body'[1]
    BY <1>2, <2>2, <2>5, Zenon
  <2>8. Cursor' /\ HeadRead' /\ OutputsSoFar' /\ PayoutExact'
    BY <1>2, <2>2, <2>4, <2>6, <2>7, SMT
       DEF Cursor, HeadRead, OutputsSoFar, PayoutExact, OutputFields
  <2> QED BY <1>2, <2>2, <2>5, <2>8, SMT DEF CursorInv
<1> QED BY <1>1, <1>2, Zenon DEF ReadTag

\* The length of the tag is a byte.
LEMMA TagLenIsNat ==
  ASSUME TypeOK, TagRead(body, result)
  PROVE  body[1] \in Nat
<1>1. body \in Seq(U8) /\ Len(body) \in Nat /\ 1 <= Len(body)
  BY SMT DEF TypeOK, TagRead
<1>2. body[1] \in U8
  BY <1>1, SMT
<1> QED BY <1>2, SMT DEF U8

LEMMA IdLenCursor ==
  ASSUME TypeOK, CursorInv, ReadLength("idLen", "id")
  PROVE  CursorInv'
<1>1. CASE Fails(1)
  BY <1>1, FailsCursor
<1>2. CASE /\ Reads(1) /\ want' = body[at + 1] /\ state' = "id"
           /\ UNCHANGED <<input, body, count, value, starts, result>>
  <2>1. state = "idLen"
    BY DEF ReadLength
  <2>2. /\ at = 1 + body[1] /\ TagRead(body, result)
        /\ result.outputs = <<>> /\ starts = <<>>
        /\ input.kind = "FetchCoinbaser"
    BY <2>1, SMT DEF CursorInv, Cursor, HeadRead, IdFields, Fields
  <2>3. body[1] \in Nat
    BY <2>2, TagLenIsNat, Zenon
  <2>4. /\ at' = 2 + body'[1] /\ at' <= Len(body')
        /\ body'[at'] = want'
    BY <1>2, <2>2, <2>3, SMT DEF Reads, InBounds
  <2>5. TagRead(body, result)'
    BY <1>2, <2>2, Zenon DEF TagRead
  <2>6. Cursor' /\ HeadRead' /\ OutputsSoFar' /\ PayoutExact'
    BY <1>2, <2>2, <2>4, <2>5, SMT
       DEF Cursor, HeadRead, OutputsSoFar, PayoutExact, OutputFields
  <2> QED BY <1>2, <2>2, <2>4, <2>6, SMT DEF CursorInv
<1> QED BY <1>1, <1>2, Zenon DEF ReadLength

LEMMA IdCursor ==
  ASSUME TypeOK, CursorInv, ReadId
  PROVE  CursorInv'
<1>1. CASE Fails(want)
  BY <1>1, FailsCursor
<1>2. CASE /\ Reads(want)
           /\ result' = [result EXCEPT !.unique_id = Utf8Lossy(Slice(body, at, want))]
           /\ state' = "count"
           /\ UNCHANGED <<input, body, want, count, value, starts>>
  <2>1. state = "id"
    BY DEF ReadId
  <2>2. /\ at = 2 + body[1] /\ body[at] = want
        /\ TagRead(body, result) /\ result.outputs = <<>> /\ starts = <<>>
        /\ input.kind = "FetchCoinbaser"
    BY <2>1, SMT DEF CursorInv, Cursor, HeadRead, IdFields, Fields
  <2>3. IsPayout(result)
    BY <2>2, Zenon DEF TypeOK
  <2>4. /\ result'.primary_tag = result.primary_tag
        /\ result'.unique_id = Utf8Lossy(Slice(body, at, want))
        /\ result'.outputs = <<>>
    <3>1. /\ result'.primary_tag = result.primary_tag
          /\ result'.unique_id = Utf8Lossy(Slice(body, at, want))
          /\ result'.outputs = result.outputs
      <4>1. PICK s : s = Utf8Lossy(Slice(body, at, want))
        OBVIOUS
      <4>2. result' = [result EXCEPT !.unique_id = s]
        BY <1>2, <4>1, Zenon
      <4>3. /\ IsPayout(result') /\ result'.primary_tag = result.primary_tag
            /\ result'.unique_id = s
            /\ result'.outputs = result.outputs
        BY <2>3, <4>2, WithId
      <4> QED BY <4>1, <4>3, Zenon
    <3> QED BY <2>2, <3>1, Zenon
  <2>5. /\ at' \in Nat /\ at' <= Len(body) /\ at' = at + want
        /\ want \in Nat /\ at \in Nat
    BY <1>2, WantedSlice, SMT DEF TypeOK, U8
  <2>6. TagRead(body, result)'
    BY <1>2, <2>2, <2>4, Zenon DEF TagRead, TagBytes
  <2>7. IdRead(body, result)'
    <3>1. at <= Len(body)
      BY <2>5, SMT DEF TypeOK
    <3> QED BY <1>2, <2>2, <2>4, <3>1, Zenon DEF IdRead, IdBytes
  <2>8. body[1] \in Nat
    BY <2>2, TagLenIsNat, Zenon
  <2>9. at' + 1 = FirstOutput(body)'
    <3>1. at' + 1 = 3 + body[1] + want
      BY <2>2, <2>5, <2>8, SMT
    <3> QED BY <1>2, <2>2, <3>1, Zenon DEF FirstOutput
  <2>10. Cursor' /\ HeadRead' /\ OutputsSoFar' /\ PayoutExact'
    BY <1>2, <2>2, <2>4, <2>6, <2>7, <2>9, SMT
       DEF Cursor, HeadRead, OutputsSoFar, PayoutExact, OutputFields
  <2> QED BY <1>2, <2>2, <2>5, <2>10, SMT DEF CursorInv
<1> QED BY <1>1, <1>2, Zenon DEF ReadId

LEMMA CountCursor ==
  ASSUME TypeOK, CursorInv, ReadCount
  PROVE  CursorInv'
<1>1. CASE Fails(1)
  BY <1>1, FailsCursor
<1>2. CASE /\ Reads(1) /\ count' = body[at + 1]
           /\ state' = IF count' = 0 THEN "ok" ELSE "value"
           /\ UNCHANGED <<input, body, want, value, starts, result>>
  <2>1. state = "count"
    BY DEF ReadCount
  <2>2. /\ at + 1 = FirstOutput(body)
        /\ TagRead(body, result) /\ IdRead(body, result)
        /\ result.outputs = <<>> /\ starts = <<>>
        /\ input.kind = "FetchCoinbaser"
    BY <2>1, SMT DEF CursorInv, Cursor, HeadRead, IdFields, Fields
  <2>3. /\ at' = FirstOutput(body)' /\ at' <= Len(body')
        /\ body'[FirstOutput(body)'] = count'
    <3>1. at' = at + 1 /\ at' <= Len(body)
      BY <1>2, SMT DEF Reads, InBounds
    <3>2. FirstOutput(body)' = FirstOutput(body)
      BY <1>2, Zenon DEF FirstOutput
    <3> QED BY <1>2, <2>2, <3>1, <3>2, Zenon
  <2>4. TagRead(body, result)' /\ IdRead(body, result)'
    BY <1>2, <2>2, Zenon DEF TagRead, IdRead, TagBytes, IdBytes
  <2>5. Len(result'.outputs) = 0 /\ Len(starts') = 0
    BY <1>2, <2>2, EmptySeq, SMT
  <2>6. count' \in Nat
    <3>1. TypeOK'
      BY ReadCountType, Zenon
    <3> QED BY <3>1, SMT DEF TypeOK, U8
  <2>7. OutputsRead(body, result, starts)'
    BY <2>5, SMT DEF OutputsRead
  <2>8. StartOf(body, result, starts, 1)' = FirstOutput(body)'
    BY Zenon DEF StartOf
  <2>9. CASE count' = 0
    <3>0. FirstOutput(body)' <= Len(body') /\ Len(result'.outputs) = count'
      BY <2>3, <2>5, <2>9, Zenon
    <3>1. PayoutExact'
      BY <2>3, <2>4, <2>5, <2>7, <2>9, <3>0, Zenon DEF PayoutExact, LaidOut
    <3>2. Cursor' /\ HeadRead' /\ OutputsSoFar'
      BY <1>2, <2>9, SMT DEF Cursor, HeadRead, OutputsSoFar, TagFields,
                             IdFields, OutputFields
    <3> QED BY <1>2, <2>2, <2>3, <3>1, <3>2, SMT DEF CursorInv
  <2>10. CASE count' # 0
    <3>1. state' = "value"
      BY <1>2, <2>10, Zenon
    <3>2. Cursor'
      <4>1. Len(starts') + 1 = 1
        BY <2>5, SMT
      <4> QED BY <2>3, <2>8, <3>1, <4>1, SMT DEF Cursor
    <3>3. HeadRead'
      <4>1. FirstOutput(body)' <= Len(body')
        BY <2>3, Zenon
      <4> QED BY <2>3, <2>4, <3>1, <4>1, SMT DEF HeadRead, TagFields, IdFields
    <3>4. OutputsSoFar'
      BY <2>5, <2>6, <2>7, <2>10, <3>1, SMT DEF OutputsSoFar
    <3>5. PayoutExact'
      BY <3>1, Zenon DEF PayoutExact
    <3> QED BY <1>2, <2>2, <2>3, <3>2, <3>3, <3>4, <3>5, Zenon DEF CursorInv
  <2> QED BY <2>9, <2>10
<1> QED BY <1>1, <1>2, Zenon DEF ReadCount
(***************************************************************************)
(* The outputs.  What is known of those already read is about starts,      *)
(* result and body up to there: a longer starts or a longer list of        *)
(* outputs leaves it true.                                                 *)
(***************************************************************************)
LEMMA OutputFacts ==
  ASSUME TypeOK, CursorInv, state \in OutputFields
  PROVE  /\ input.kind = "FetchCoinbaser" /\ IsPayout(result)
         /\ result.outputs \in Seq(Output)
         /\ Len(result.outputs) \in Nat /\ Len(starts) \in Nat
         /\ count \in Nat
         /\ TagRead(body, result) /\ IdRead(body, result)
         /\ FirstOutput(body) <= Len(body)
         /\ body[FirstOutput(body)] = count
         /\ Len(result.outputs) < count /\ OutputsRead(body, result, starts)
<1>1. state \in Fields
  BY SMT DEF OutputFields, Fields
<1>2. input.kind = "FetchCoinbaser" /\ IsPayout(result)
  BY <1>1, Zenon DEF CursorInv, TypeOK
<1>3. result.outputs \in Seq(Output) /\ Len(result.outputs) \in Nat
  BY <1>2, SMT DEF IsPayout
<1>4. Len(starts) \in Nat /\ count \in Nat
  BY SMT DEF TypeOK, U8
<1>5. /\ TagRead(body, result) /\ IdRead(body, result)
      /\ FirstOutput(body) <= Len(body)
      /\ body[FirstOutput(body)] = count
  BY Zenon DEF CursorInv, HeadRead
<1>6. Len(result.outputs) < count /\ OutputsRead(body, result, starts)
  BY Zenon DEF CursorInv, OutputsSoFar
<1> QED BY <1>2, <1>3, <1>4, <1>5, <1>6

LEMMA ValueCursor ==
  ASSUME TypeOK, CursorInv, ReadValue
  PROVE  CursorInv'
<1>1. CASE Fails(8)
  BY <1>1, FailsCursor
<1>2. CASE /\ Reads(8) /\ value' = Slice(body, at, 8)
           /\ starts' = Append(starts, at) /\ state' = "scriptLen"
           /\ UNCHANGED <<input, body, want, count, result>>
  <2>1. state = "value" /\ state \in OutputFields
    BY SMT DEF ReadValue, OutputFields
  <2>2. /\ at = StartOf(body, result, starts, Len(starts) + 1)
        /\ Len(starts) = Len(result.outputs)
    BY <2>1, SMT DEF CursorInv, Cursor, OutputsSoFar
  <2>3. /\ at \in Nat /\ starts \in Seq(Nat)
        /\ at' = at + 8 /\ at' <= Len(body)
    BY <1>2, SMT DEF Reads, InBounds, TypeOK
  <2>4. /\ Len(starts') = Len(starts) + 1
        /\ starts'[Len(starts) + 1] = at
        /\ \A i \in 1 .. Len(starts) : starts'[i] = starts[i]
    BY <1>2, <2>3, AppendProperties, SMT
  <2>5. FirstOutput(body)' = FirstOutput(body)
    BY <1>2, Zenon DEF FirstOutput
  <2>6. \A i \in 1 .. Len(starts) + 1 :
        StartOf(body, result, starts, i)' = StartOf(body, result, starts, i)
    <3> SUFFICES ASSUME NEW i \in 1 .. Len(starts) + 1
                 PROVE  StartOf(body, result, starts, i)' = StartOf(body, result, starts, i)
      OBVIOUS
    <3>1. CASE i = 1
      BY <3>1, <2>5, Zenon DEF StartOf
    <3>2. CASE i # 1
      <4>1. i - 1 \in 1 .. Len(starts)
        BY <3>2, OutputFacts, <2>1, SMT
      <4>2. starts'[i - 1] = starts[i - 1]
        BY <4>1, <2>4, Zenon
      <4> QED BY <3>2, <4>2, <1>2, Zenon DEF StartOf
    <3> QED BY <3>1, <3>2
  <2>7. TagRead(body, result)' /\ IdRead(body, result)'
    BY <1>2, <2>1, OutputFacts, Zenon DEF TagRead, IdRead, TagBytes, IdBytes
  <2>8. OutputsRead(body, result, starts)'
    <3> SUFFICES ASSUME NEW i \in 1 .. Len(result.outputs)
                 PROVE  /\ OutputAt(body, starts[i], result.outputs[i])'
                        /\ starts[i]' = StartOf(body, result, starts, i)'
      BY <1>2, Zenon DEF OutputsRead
    <3>1. /\ OutputAt(body, starts[i], result.outputs[i])
          /\ starts[i] = StartOf(body, result, starts, i)
      BY <2>1, OutputFacts, Zenon DEF OutputsRead
    <3>2. starts'[i] = starts[i]
      BY <2>2, <2>4, Zenon
    <3>3. StartOf(body, result, starts, i)' = StartOf(body, result, starts, i)
      <4>1. i \in 1 .. Len(starts) + 1
        BY <2>2, <2>1, OutputFacts, SMT
      <4> QED BY <4>1, <2>6
    <3> QED BY <1>2, <3>1, <3>2, <3>3, Zenon DEF OutputAt
  <2>9. PICK k : k = Len(starts) + 1
    OBVIOUS
  <2>10. (starts[Len(starts)])' = at /\ StartOf(body, result, starts, Len(starts))' = at
    <3>1. k \in 1 .. Len(starts) + 1
      BY <2>1, <2>9, OutputFacts, SMT
    <3>2. StartOf(body, result, starts, k) = at /\ Len(starts') = k /\ starts'[k] = at
      BY <2>2, <2>4, <2>9, Zenon
    <3>3. StartOf(body, result, starts, k)' = at
      BY <2>6, <3>1, <3>2, Zenon
    <3>4. StartOf(body, result, starts, Len(starts))' = StartOf(body, result, starts, k)'
      BY <3>2, Zenon DEF StartOf
    <3> QED BY <3>2, <3>3, <3>4, Zenon
  <2>11. /\ FirstOutput(body) <= Len(body)
         /\ body[FirstOutput(body)] = count /\ Len(result.outputs) < count
    BY <2>1, OutputFacts, Zenon
  <2>12. Cursor'
    BY <1>2, <2>3, <2>10, SMT DEF Cursor
  <2>13. HeadRead'
    BY <1>2, <2>5, <2>7, <2>11, SMT DEF HeadRead, TagFields, IdFields
  <2>14. OutputsSoFar'
    BY <1>2, <2>2, <2>4, <2>8, <2>10, <2>11, SMT DEF OutputsSoFar
  <2>15. PayoutExact'
    BY <1>2, Zenon DEF PayoutExact
  <2>16. input'.kind = "FetchCoinbaser"
    BY <1>2, <2>1, OutputFacts, Zenon
  <2> QED BY <1>2, <2>3, <2>12, <2>13, <2>14, <2>15, <2>16, Zenon DEF CursorInv
<1> QED BY <1>1, <1>2, Zenon DEF ReadValue

LEMMA ScriptLenCursor ==
  ASSUME TypeOK, CursorInv, ReadLength("scriptLen", "script")
  PROVE  CursorInv'
<1>1. CASE Fails(1)
  BY <1>1, FailsCursor
<1>2. CASE /\ Reads(1) /\ want' = body[at + 1] /\ state' = "script"
           /\ UNCHANGED <<input, body, count, value, starts, result>>
  <2>1. state = "scriptLen" /\ state \in OutputFields
    BY SMT DEF ReadLength, OutputFields
  <2>2. /\ at = starts[Len(starts)] + 8
        /\ Len(starts) = Len(result.outputs) + 1
        /\ starts[Len(starts)] = StartOf(body, result, starts, Len(starts))
        /\ value = Slice(body, starts[Len(starts)], 8)
    BY <2>1, SMT DEF CursorInv, Cursor, OutputsSoFar
  <2>3. starts[Len(starts)] \in Nat
    <3>1. Len(starts) \in 1 .. Len(starts)
      BY <2>1, <2>2, OutputFacts, SMT
    <3> QED BY <3>1, ElementOfSeq, SMT DEF TypeOK
  <2>4. /\ at' = starts'[Len(starts')] + 9 /\ at' <= Len(body')
        /\ body'[at'] = want'
    BY <1>2, <2>2, <2>3, SMT DEF Reads, InBounds
  <2>5. /\ FirstOutput(body)' = FirstOutput(body)
        /\ TagRead(body, result)' /\ IdRead(body, result)'
    BY <1>2, <2>1, OutputFacts, Zenon
       DEF FirstOutput, TagRead, IdRead, TagBytes, IdBytes
  <2>6. \A i : StartOf(body, result, starts, i)' = StartOf(body, result, starts, i)
    BY <1>2, <2>5, Zenon DEF StartOf
  <2>7. OutputsRead(body, result, starts)'
    BY <1>2, <2>1, <2>6, OutputFacts, Zenon DEF OutputsRead, OutputAt
  <2>8. /\ FirstOutput(body) <= Len(body)
        /\ body[FirstOutput(body)] = count /\ Len(result.outputs) < count
    BY <2>1, OutputFacts, Zenon
  <2>9. Cursor'
    BY <1>2, <2>4, SMT DEF Cursor
  <2>10. HeadRead'
    BY <1>2, <2>5, <2>8, SMT DEF HeadRead, TagFields, IdFields
  <2>11. OutputsSoFar'
    BY <1>2, <2>2, <2>6, <2>7, <2>8, SMT DEF OutputsSoFar
  <2>12. PayoutExact'
    BY <1>2, Zenon DEF PayoutExact
  <2>13. input'.kind = "FetchCoinbaser"
    BY <1>2, <2>1, OutputFacts, Zenon
  <2> QED BY <2>4, <2>9, <2>10, <2>11, <2>12, <2>13, Zenon DEF CursorInv
<1> QED BY <1>1, <1>2, Zenon DEF ReadLength

LEMMA ScriptCursor ==
  ASSUME TypeOK, CursorInv, ReadScript
  PROVE  CursorInv'
<1>1. CASE Fails(want)
  BY <1>1, FailsCursor
<1>2. CASE /\ Reads(want)
           /\ result' = [result EXCEPT !.outputs =
                Append(@, [script |-> Slice(body, at, want), value |-> value])]
           /\ state' = IF Len(result'.outputs) = count THEN "ok" ELSE "value"
           /\ UNCHANGED <<input, body, want, count, value, starts>>
  <2>0. PICK n : n = Len(starts)
    OBVIOUS
  <2>1. state = "script" /\ state \in OutputFields
    BY SMT DEF ReadScript, OutputFields
  <2>2. /\ at = starts[n] + 9 /\ body[at] = want
        /\ n = Len(result.outputs) + 1
        /\ starts[n] = StartOf(body, result, starts, n)
        /\ value = Slice(body, starts[n], 8)
    BY <2>0, <2>1, SMT DEF CursorInv, Cursor, OutputsSoFar
  <2>3. PICK o : o = [script |-> Slice(body, at, want), value |-> value]
    OBVIOUS
  <2>4. /\ at' = at + want /\ at' <= Len(body)
        /\ Slice(body, at, want) \in Seq(U8)
        /\ Len(Slice(body, at, want)) = want
    BY <1>2, WantedSlice, Zenon
  <2>5. o \in Output /\ o.script = Slice(body, at, want) /\ o.value = value
    BY <2>3, <2>4, SMT DEF TypeOK, Output
  <2>6. /\ result'.outputs = Append(result.outputs, o)
        /\ result'.primary_tag = result.primary_tag
        /\ result'.unique_id = result.unique_id
    <3>1. Append(result.outputs, o) \in Seq(Output)
      BY <2>1, <2>5, OutputFacts, AppendProperties
    <3>2. result' = [result EXCEPT !.outputs = Append(result.outputs, o)]
      BY <1>2, <2>3, Zenon
    <3>3. IsPayout(result)
      BY <2>1, OutputFacts, Zenon
    <3>4. PICK q : q = Append(result.outputs, o)
      OBVIOUS
    <3>5. q \in Seq(Output) /\ result' = [result EXCEPT !.outputs = q]
      BY <3>1, <3>2, <3>4, Zenon
    <3>6. /\ IsPayout(result') /\ result'.primary_tag = result.primary_tag
          /\ result'.unique_id = result.unique_id /\ result'.outputs = q
      BY <3>3, <3>5, WithOutputs
    <3> QED BY <3>4, <3>6, Zenon
  <2>7. /\ Len(result'.outputs) = n
        /\ result'.outputs[n] = o
        /\ \A i \in 1 .. n - 1 : result'.outputs[i] = result.outputs[i]
    <3>1. /\ Len(Append(result.outputs, o)) = Len(result.outputs) + 1
          /\ \A i \in 1 .. Len(result.outputs) :
               Append(result.outputs, o)[i] = result.outputs[i]
          /\ Append(result.outputs, o)[Len(result.outputs) + 1] = o
      BY <2>1, <2>5, OutputFacts, AppendProperties, SMT
    <3>2. Len(result.outputs) = n - 1
      BY <2>1, <2>2, OutputFacts, SMT
    <3> QED BY <2>2, <2>6, <3>1, <3>2, Zenon
  <2>8. n \in Nat /\ n >= 1
    BY <2>0, <2>1, <2>2, OutputFacts, SMT
  <2>9. FirstOutput(body)' = FirstOutput(body)
    BY <1>2, Zenon DEF FirstOutput
  <2>10. \A i \in 1 .. n : StartOf(body, result, starts, i)' = StartOf(body, result, starts, i)
    <3> SUFFICES ASSUME NEW i \in 1 .. n
                 PROVE  StartOf(body, result, starts, i)' = StartOf(body, result, starts, i)
      OBVIOUS
    <3>1. CASE i = 1
      BY <3>1, <2>9, Zenon DEF StartOf
    <3>2. CASE i # 1
      <4>1. i - 1 \in 1 .. n - 1
        BY <3>2, <2>8, SMT
      <4>2. result'.outputs[i - 1] = result.outputs[i - 1]
        BY <4>1, <2>7, Zenon
      <4>3. starts' = starts
        BY <1>2
      <4> QED BY <3>2, <4>2, <4>3, Zenon DEF StartOf
    <3> QED BY <3>1, <3>2
  <2>11. TagRead(body, result)' /\ IdRead(body, result)'
    BY <1>2, <2>1, <2>6, OutputFacts, Zenon DEF TagRead, IdRead, TagBytes, IdBytes
  <2>12. OutputAt(body, starts[n], o)'
    <3>1. starts[n] + 9 = at /\ o.value = Slice(body, starts[n], 8)
      BY <2>2, <2>5, Zenon
    <3>2. /\ body[starts[n] + 9] = Len(o.script)
          /\ o.script = Slice(body, starts[n] + 9, Len(o.script))
          /\ starts[n] + 9 + Len(o.script) <= Len(body)
      BY <2>2, <2>4, <2>5, <3>1, Zenon
    <3>3. o' = o
      OBVIOUS
    <3> QED BY <1>2, <3>1, <3>2, <3>3, Zenon DEF OutputAt
  <2>13. OutputsRead(body, result, starts)'
    <3> SUFFICES ASSUME NEW i \in 1 .. n
                 PROVE  /\ OutputAt(body, starts[i], result.outputs[i])'
                        /\ starts[i]' = StartOf(body, result, starts, i)'
      BY <2>7, Zenon DEF OutputsRead
    <3>1. /\ starts[i]' = starts[i]
          /\ StartOf(body, result, starts, i)' = StartOf(body, result, starts, i)
      BY <1>2, <2>10, Zenon
    <3>2. CASE i = n
      <4>1. result'.outputs[i] = o /\ starts'[i] = starts[n]
            /\ starts' = starts /\ starts[i] = StartOf(body, result, starts, i)
        BY <1>2, <3>2, <2>2, <2>7, Zenon
      <4>2. OutputAt(body, starts[i], result.outputs[i])'
        BY <4>1, <2>12, Zenon DEF OutputAt
      <4> QED BY <3>1, <4>1, <4>2, Zenon
    <3>3. CASE i # n
      <4>1. i \in 1 .. n - 1 /\ i \in 1 .. Len(result.outputs)
        BY <3>3, <2>8, <2>2, <2>1, OutputFacts, SMT
      <4>2. /\ OutputAt(body, starts[i], result.outputs[i])
            /\ starts[i] = StartOf(body, result, starts, i)
        BY <4>1, <2>1, OutputFacts, Zenon DEF OutputsRead
      <4>3. result'.outputs[i] = result.outputs[i]
        BY <4>1, <2>7, Zenon
      <4> QED BY <1>2, <3>1, <4>2, <4>3, Zenon DEF OutputAt
    <3> QED BY <3>2, <3>3
  <2>14. input'.kind = "FetchCoinbaser" /\ count' = count /\ count \in Nat
    BY <1>2, <2>1, OutputFacts, Zenon
  <2>15. FirstOutput(body)' <= Len(body') /\ body'[FirstOutput(body)'] = count
    BY <1>2, <2>1, <2>9, OutputFacts, Zenon
  <2>16. CASE n = count
    <3>1. state' = "ok"
      BY <1>2, <2>7, <2>16, Zenon
    <3>2. PayoutExact'
      BY <2>7, <2>11, <2>13, <2>15, <2>16, Zenon DEF PayoutExact, LaidOut
    <3>3. Cursor' /\ HeadRead' /\ OutputsSoFar' /\ state' \notin Fields
      BY <3>1, SMT DEF Cursor, HeadRead, OutputsSoFar, TagFields, IdFields,
                       OutputFields, Fields
    <3> QED BY <3>2, <3>3, Zenon DEF CursorInv
  <2>17. CASE n # count
    <3>1. state' = "value"
      BY <1>2, <2>7, <2>17, Zenon
    <3>2. at' = StartOf(body, result, starts, Len(starts) + 1)'
      <4>1. Len(starts') + 1 # 1 /\ (Len(starts') + 1) - 1 = n
        BY <1>2, <2>0, <2>8, SMT
      <4>2. result'.outputs[n] = o /\ Len(o.script) = want
        BY <2>4, <2>5, <2>7, Zenon
      <4>3. starts'[n] = starts[n]
        BY <1>2, Zenon
      <4>4. StartOf(body, result, starts, Len(starts) + 1)' = starts[n] + 9 + want
        BY <4>1, <4>2, <4>3, Zenon DEF StartOf
      <4> QED BY <2>2, <2>4, <4>4, Zenon
    <3>3. Len(result'.outputs) < count
      BY <2>1, <2>2, <2>7, <2>8, <2>17, OutputFacts, SMT
    <3>4. Cursor'
      BY <3>1, <3>2, SMT DEF Cursor
    <3>5. HeadRead'
      BY <1>2, <3>1, <2>11, <2>15, SMT DEF HeadRead, TagFields, IdFields
    <3>6. OutputsSoFar'
      BY <1>2, <2>0, <3>1, <3>3, <2>7, <2>13, SMT DEF OutputsSoFar
    <3>7. PayoutExact'
      BY <3>1, Zenon DEF PayoutExact
    <3> QED BY <1>2, <2>4, <2>14, <3>4, <3>5, <3>6, <3>7, Zenon DEF CursorInv
  <2> QED BY <2>16, <2>17
<1> QED BY <1>1, <1>2, Zenon DEF ReadScript
(***************************************************************************)
(* The theorems.                                                           *)
(***************************************************************************)
LEMMA NextTypeOK ==
  ASSUME TypeOK, CursorInv, [Next]_vars
  PROVE  TypeOK'
<1>1. CASE state \in Fields
  <2>1. input.kind = "FetchCoinbaser"
    BY <1>1, Zenon DEF CursorInv
  <2>2. "tag" \in Fields /\ "id" \in Fields /\ "script" \in Fields
    BY DEF Fields
  <2>3. CASE \/ ReadLength("tagLen", "tag") \/ ReadLength("idLen", "id")
            \/ ReadLength("scriptLen", "script")
    BY <2>2, <2>3, ReadLengthType, Zenon
  <2>4. CASE ReadTag \/ ReadId \/ ReadCount \/ ReadValue \/ ReadScript
    BY <2>1, <2>4, ReadTagType, ReadIdType, ReadCountType, ReadValueType,
       ReadScriptType, Zenon
  <2>5. CASE OpenCoinbase
    BY <2>5, OpenType, Zenon
  <2>6. CASE \/ ParseClientConfig \/ ParseJobValidation
            \/ ParseShareResponse \/ ParseBlockNotify
            \/ ParseHandshake \/ ParseSubmitPow
    BY <2>6, OtherType, Zenon
  <2>7. CASE UNCHANGED vars
    BY <2>7, SMT DEF vars, TypeOK, data
  <2> QED BY <2>3, <2>4, <2>5, <2>6, <2>7, Zenon DEF Next
<1>2. CASE state \notin Fields
  <2>1. CASE OpenCoinbase
    BY <2>1, OpenType, Zenon
  <2>2. CASE \/ ParseClientConfig \/ ParseJobValidation
            \/ ParseShareResponse \/ ParseBlockNotify
            \/ ParseHandshake \/ ParseSubmitPow
    BY <2>2, OtherType, Zenon
  <2>3. CASE UNCHANGED vars
    BY <2>3, SMT DEF vars, TypeOK, data
  <2>4. CASE \/ ReadLength("tagLen", "tag") \/ ReadLength("idLen", "id")
            \/ ReadLength("scriptLen", "script")
            \/ ReadTag \/ ReadId \/ ReadCount \/ ReadValue \/ ReadScript
    BY <1>2, <2>4, SMT DEF ReadLength, ReadTag, ReadId, ReadCount, ReadValue,
                           ReadScript, Fields
  <2> QED BY <2>1, <2>2, <2>3, <2>4, Zenon DEF Next
<1> QED BY <1>1, <1>2

LEMMA NextCursor ==
  ASSUME TypeOK, CursorInv, [Next]_vars
  PROVE  CursorInv'
<1>1. CASE OpenCoinbase
  BY <1>1, OpenCursor, Zenon
<1>2. CASE \/ ReadLength("tagLen", "tag") \/ ReadLength("idLen", "id")
          \/ ReadLength("scriptLen", "script")
  BY <1>2, TagLenCursor, IdLenCursor, ScriptLenCursor, Zenon
<1>3. CASE ReadTag \/ ReadId \/ ReadCount \/ ReadValue \/ ReadScript
  BY <1>3, TagCursor, IdCursor, CountCursor, ValueCursor, ScriptCursor, Zenon
<1>4. CASE \/ ParseClientConfig \/ ParseJobValidation
          \/ ParseShareResponse \/ ParseBlockNotify
          \/ ParseHandshake \/ ParseSubmitPow
  BY <1>4, OtherCursor, Zenon
<1>5. CASE UNCHANGED vars
  <2>1. Cursor' /\ HeadRead'
    BY <1>5, Zenon DEF vars, CursorInv, Cursor, HeadRead, TagRead, IdRead,
                       TagBytes, IdBytes, FirstOutput, StartOf
  <2>2. OutputsRead(body, result, starts)' <=> OutputsRead(body, result, starts)
    BY <1>5, Zenon DEF vars, OutputsRead, OutputAt, StartOf, FirstOutput
  <2>3. OutputsSoFar'
    BY <1>5, <2>2, Zenon DEF vars, CursorInv, OutputsSoFar, StartOf, FirstOutput
  <2>4. PayoutExact'
    BY <1>5, <2>2, Zenon DEF vars, CursorInv, PayoutExact, LaidOut, TagRead, IdRead,
                             TagBytes, IdBytes, FirstOutput
  <2> QED BY <1>5, <2>1, <2>3, <2>4, Zenon DEF vars, CursorInv
<1> QED BY <1>1, <1>2, <1>3, <1>4, <1>5, Zenon DEF Next

\* Every variable keeps its type, whatever bytes arrive.
THEOREM MessagesTypeCorrect == Spec => []TypeOK
<1>1. Init => TypeOK /\ CursorInv
  BY InitTypeOK, InitCursor, Zenon
<1>2. (TypeOK /\ CursorInv) /\ [Next]_vars => (TypeOK /\ CursorInv)'
  BY NextTypeOK, NextCursor, Zenon
<1> QED BY <1>1, <1>2, PTL DEF Spec

\* A payout that is returned is the one written in the coinbase data: the
\* cursor of parse_coinbase_response skips nothing and reads nothing twice.
THEOREM PayoutCorrect == Spec => []PayoutExact
<1>1. Init => TypeOK /\ CursorInv
  BY InitTypeOK, InitCursor, Zenon
<1>2. (TypeOK /\ CursorInv) /\ [Next]_vars => (TypeOK /\ CursorInv)'
  BY NextTypeOK, NextCursor, Zenon
<1>3. CursorInv => PayoutExact
  BY DEF CursorInv
<1> QED BY <1>1, <1>2, <1>3, PTL DEF Spec

(***************************************************************************)
(* Where the parsers panic.                                                *)
(***************************************************************************)
LEMMA ReadsPanicFree ==
  ASSUME PanicsUnterminated, state # "start", state # "panic",
         input' = input, state' # "panic"
  PROVE  PanicsUnterminated'
BY Zenon DEF PanicsUnterminated, Unterminated, data, End

LEMMA FieldPanicFree ==
  ASSUME PanicsUnterminated,
         \/ \E field \in Fields, next \in Fields : ReadLength(field, next)
         \/ ReadTag \/ ReadId \/ ReadCount \/ ReadValue \/ ReadScript
  PROVE  PanicsUnterminated'
<1>1. state \in Fields
  BY SMT DEF ReadLength, ReadTag, ReadId, ReadCount, ReadValue, ReadScript,
             Fields
<1>2. state # "start" /\ state # "panic"
  BY <1>1, SMT DEF Fields
<1>3. \A n : Fails(n) => input' = input /\ state' = "error"
  BY Zenon DEF Fails, Stop, Checked, InBounds
<1>4. input' = input /\ state' # "panic"
  BY <1>3, SMT DEF ReadLength, ReadTag, ReadId, ReadCount, ReadValue,
                   ReadScript, Fields
<1> QED BY <1>2, <1>4, ReadsPanicFree, Zenon

LEMMA OpenPanic ==
  ASSUME TypeOK, PanicsUnterminated, OpenCoinbase
  PROVE  PanicsUnterminated'
<1>1. Len(data) \in Nat
  BY SMT DEF TypeOK
<1>2. Len(data) >= 13 => End \in Nat
  BY EndProperties, Zenon DEF TypeOK
<1>3. input' = input /\ input.kind = "FetchCoinbaser"
  BY Zenon DEF OpenCoinbase, Stop
<1>4. state' = "panic" <=> Len(data) >= 13 /\ End = Len(data)
  BY <1>1, <1>2, SMT DEF OpenCoinbase, Stop
<1>5. Unterminated' <=> Len(data) >= 13 /\ Len(data) = End
  BY <1>3, Zenon DEF Unterminated, data, End
<1> QED BY <1>4, <1>5, Zenon DEF PanicsUnterminated

LEMMA OtherPanic ==
  ASSUME TypeOK,
         \/ ParseClientConfig \/ ParseJobValidation \/ ParseShareResponse
         \/ ParseBlockNotify \/ ParseHandshake \/ ParseSubmitPow
  PROVE  PanicsUnterminated'
<1>1. Len(data) \in Nat
  BY SMT DEF TypeOK
<1>2. /\ input' = input /\ input.kind # "FetchCoinbaser"
      /\ state' \in {"error", "ok"}
  <2>1. CASE ParseClientConfig
    BY <1>1, <2>1, SMT DEF ParseClientConfig, Parse, Stop, Yield
  <2>2. CASE ParseJobValidation
    BY <1>1, <2>2, SMT DEF ParseJobValidation, Parse, Stop, Yield
  <2>3. CASE ParseShareResponse
    BY <1>1, <2>3, SMT DEF ParseShareResponse, Parse, Stop, Yield
  <2>4. CASE ParseBlockNotify
    BY <1>1, <2>4, SMT DEF ParseBlockNotify, Parse, Stop, Yield
  <2>5. CASE ParseHandshake
    BY <2>5, SMT DEF ParseHandshake, Stop, Yield
  <2>6. CASE ParseSubmitPow
    BY <2>6, SMT DEF ParseSubmitPow, Stop, Yield
  <2> QED BY <2>1, <2>2, <2>3, <2>4, <2>5, <2>6
<1> QED BY <1>2, SMT DEF PanicsUnterminated, Unterminated

\* The parsers panic on a coinbase response that ends where its terminator
\* should be, and on no other message of any kind.
THEOREM PanicCorrect == Spec => []PanicsUnterminated
<1>1. Init => PanicsUnterminated
  BY SMT DEF Init, PanicsUnterminated
<1>2. TypeOK /\ PanicsUnterminated /\ [Next]_vars => PanicsUnterminated'
  <2> SUFFICES ASSUME TypeOK, PanicsUnterminated, [Next]_vars
               PROVE  PanicsUnterminated'
    OBVIOUS
  <2>1. CASE \/ ReadLength("tagLen", "tag") \/ ReadLength("idLen", "id")
            \/ ReadLength("scriptLen", "script")
            \/ ReadTag \/ ReadId \/ ReadCount \/ ReadValue \/ ReadScript
    <3>1. {"tagLen", "tag", "idLen", "id", "scriptLen", "script"} \subseteq Fields
      BY SMT DEF Fields
    <3>2. \/ \E field \in Fields, next \in Fields : ReadLength(field, next)
          \/ ReadTag \/ ReadId \/ ReadCount \/ ReadValue \/ ReadScript
      BY <2>1, <3>1, Zenon
    <3> QED BY <3>2, FieldPanicFree, Zenon
  <2>2. CASE OpenCoinbase
    BY <2>2, OpenPanic, Zenon
  <2>3. CASE \/ ParseClientConfig \/ ParseJobValidation
            \/ ParseShareResponse \/ ParseBlockNotify
            \/ ParseHandshake \/ ParseSubmitPow
    BY <2>3, OtherPanic, Zenon
  <2>4. CASE UNCHANGED vars
    BY <2>4, Zenon DEF vars, PanicsUnterminated, Unterminated, data, End
  <2> QED BY <2>1, <2>2, <2>3, <2>4, Zenon DEF Next
<1> QED BY <1>1, <1>2, MessagesTypeCorrect, PTL DEF Spec

(***************************************************************************)
(* SentIsUnderstood.  First the messages with their fields at fixed        *)
(* places: a slice of a concatenation is the part that was put there.      *)
(***************************************************************************)
LEMMA SliceOfFirst ==
  ASSUME NEW s \in Seq(U8), NEW t \in Seq(U8), NEW i \in Nat, NEW n \in Nat,
         i + n <= Len(s)
  PROVE  Slice(s \o t, i, n) = Slice(s, i, n)
<1> DEFINE u == s \o t
<1>1. /\ u \in Seq(U8) /\ Len(u) = Len(s) + Len(t)
      /\ \A j \in 1 .. Len(s) : u[j] = s[j]
  BY ConcatProperties, SMT
<1>2. Len(s) \in Nat /\ Len(t) \in Nat
  BY SMT
<1> HIDE DEF u
<1>3. i + n <= Len(u)
  BY <1>1, <1>2, SMT
<1>4. /\ Slice(u, i, n) \in Seq(U8) /\ Slice(s, i, n) \in Seq(U8)
      /\ Len(Slice(u, i, n)) = n /\ Len(Slice(s, i, n)) = n
  BY <1>1, <1>3, SliceProperties
<1>5. \A j \in 1 .. n : Slice(u, i, n)[j] = u[i + j] /\ Slice(s, i, n)[j] = s[i + j]
  BY SMT DEF Slice
<1>6. \A j \in 1 .. n : Slice(u, i, n)[j] = Slice(s, i, n)[j]
  <2> SUFFICES ASSUME NEW j \in 1 .. n
               PROVE  Slice(u, i, n)[j] = Slice(s, i, n)[j]
    OBVIOUS
  <2>1. i + j \in 1 .. Len(s)
    BY <1>2, SMT
  <2> QED BY <1>1, <1>5, <2>1, Zenon
<1>7. Slice(u, i, n) = Slice(s, i, n)
  BY <1>4, <1>6, SeqEqual
<1> QED BY <1>7 DEF u

LEMMA SliceOfSecond ==
  ASSUME NEW s \in Seq(U8), NEW t \in Seq(U8)
  PROVE  Slice(s \o t, Len(s), Len(t)) = t
<1> DEFINE u == s \o t
           i == Len(s)
           n == Len(t)
<1>1. /\ u \in Seq(U8) /\ Len(u) = Len(s) + Len(t)
      /\ \A j \in 1 .. Len(s) + Len(t) :
           u[j] = IF j <= Len(s) THEN s[j] ELSE t[j - Len(s)]
  BY ConcatProperties, SMT
<1>2. i \in Nat /\ n \in Nat
  BY SMT
<1> HIDE DEF u
<1>3. Slice(u, i, n) \in Seq(U8) /\ Len(Slice(u, i, n)) = n
  BY <1>1, <1>2, SliceProperties
<1>4. \A j \in 1 .. n : Slice(u, i, n)[j] = u[i + j]
  BY <1>2, SMT DEF Slice
<1>5. \A j \in 1 .. n : u[i + j] = t[j]
  BY <1>1, <1>2, SMT
<1>6. Slice(u, i, n) = t
  BY <1>3, <1>4, <1>5, SeqEqual
<1> QED BY <1>6 DEF u

LEMMA ByteOfFirst ==
  ASSUME NEW s \in Seq(U8), NEW t \in Seq(U8)
  PROVE  /\ s \o t \in Seq(U8) /\ Len(s \o t) = Len(s) + Len(t)
         /\ \A i \in 1 .. Len(s) : (s \o t)[i] = s[i]
<1>1. Len(s) \in Nat /\ Len(t) \in Nat
  BY SMT
<1> QED BY <1>1, ConcatProperties, SMT

LEMMA FirstByte ==
  ASSUME NEW b \in U8, NEW t \in Seq(U8)
  PROVE  /\ <<b>> \in Seq(U8) /\ Len(<<b>>) = 1
         /\ <<b>> \o t \in Seq(U8) /\ Len(<<b>> \o t) = 1 + Len(t)
         /\ (<<b>> \o t)[1] = b
<1>1. <<b>> \in Seq(U8) /\ Len(<<b>>) = 1 /\ <<b>>[1] = b
  BY SMT
<1>2. Len(t) \in Nat
  BY SMT
<1> QED BY <1>1, <1>2, ConcatProperties, SMT

\* A first byte x, then y, then z.
LEMMA ByteAndTwo ==
  \A x \in U8, y, z \in Seq(U8) :
    /\ <<x>> \o y \o z \in Seq(U8)
    /\ Len(<<x>> \o y \o z) = 1 + Len(y) + Len(z)
    /\ (<<x>> \o y \o z)[1] = x
    /\ Slice(<<x>> \o y \o z, 1, Len(y)) = y
    /\ Slice(<<x>> \o y \o z, 1 + Len(y), Len(z)) = z
<1> SUFFICES ASSUME NEW x \in U8, NEW y \in Seq(U8), NEW z \in Seq(U8)
             PROVE  /\ <<x>> \o y \o z \in Seq(U8)
                    /\ Len(<<x>> \o y \o z) = 1 + Len(y) + Len(z)
                    /\ (<<x>> \o y \o z)[1] = x
                    /\ Slice(<<x>> \o y \o z, 1, Len(y)) = y
                    /\ Slice(<<x>> \o y \o z, 1 + Len(y), Len(z)) = z
  OBVIOUS
<1>1. PICK b \in Seq(U8) : b = <<x>> /\ Len(b) = 1
  BY FirstByte, Zenon
<1>2. PICK xy \in Seq(U8) : xy = b \o y /\ Len(xy) = 1 + Len(y) /\ xy[1] = x
  <2>1. /\ <<x>> \o y \in Seq(U8) /\ Len(<<x>> \o y) = 1 + Len(y)
        /\ (<<x>> \o y)[1] = x
    BY FirstByte, Zenon
  <2> QED BY <1>1, <2>1, Zenon
<1>3. PICK d : d = xy \o z
  OBVIOUS
<1>4. Len(y) \in Nat /\ Len(z) \in Nat /\ 1 \in 1 .. Len(xy) /\ 1 + Len(y) <= Len(xy)
  BY <1>2, SMT
<1>5. d \in Seq(U8) /\ Len(d) = 1 + Len(y) + Len(z) /\ d[1] = x
  <2>1. xy \o z \in Seq(U8) /\ Len(xy \o z) = Len(xy) + Len(z)
        /\ \A i \in 1 .. Len(xy) : (xy \o z)[i] = xy[i]
    BY ByteOfFirst, Zenon
  <2> QED BY <1>2, <1>3, <1>4, <2>1, Zenon
<1>6. Slice(d, 1, Len(y)) = y
  <2>1. Slice(b \o y, Len(b), Len(y)) = y
    BY SliceOfSecond, Zenon
  <2>2. Slice(xy \o z, 1, Len(y)) = Slice(xy, 1, Len(y))
    <3>1. 1 \in Nat
      OBVIOUS
    <3> QED BY <1>4, <3>1, SliceOfFirst, Zenon
  <2> QED BY <1>1, <1>2, <1>3, <2>1, <2>2, Zenon
<1>7. Slice(d, 1 + Len(y), Len(z)) = z
  <2>1. Slice(xy \o z, Len(xy), Len(z)) = z
    BY SliceOfSecond, Zenon
  <2> QED BY <1>2, <1>3, <2>1, Zenon
<1>8. d = <<x>> \o y \o z
  BY <1>1, <1>2, <1>3, Zenon
<1> QED BY <1>5, <1>6, <1>7, <1>8, Zenon

\* x, then y, then z, and more.
LEMMA ThreeParts ==
  \A x, y, z, r \in Seq(U8) :
    /\ Slice(x \o y \o z \o r, 0, Len(x)) = x
    /\ Slice(x \o y \o z \o r, Len(x), Len(y)) = y
    /\ Slice(x \o y \o z \o r, Len(x) + Len(y), Len(z)) = z
<1> SUFFICES ASSUME NEW x \in Seq(U8), NEW y \in Seq(U8), NEW z \in Seq(U8),
                    NEW r \in Seq(U8)
             PROVE  /\ Slice(x \o y \o z \o r, 0, Len(x)) = x
                    /\ Slice(x \o y \o z \o r, Len(x), Len(y)) = y
                    /\ Slice(x \o y \o z \o r, Len(x) + Len(y), Len(z)) = z
  OBVIOUS
<1>0. PICK d : d = x \o y \o z \o r
  OBVIOUS
<1>1. PICK xy : xy = x \o y
  OBVIOUS
<1>2. PICK xyz : xyz = xy \o z
  OBVIOUS
<1>3. d = xyz \o r
  BY <1>0, <1>1, <1>2
<1>4. Len(x) \in Nat /\ Len(y) \in Nat /\ Len(z) \in Nat
  BY SMT
<1>5. xy \in Seq(U8) /\ Len(xy) = Len(x) + Len(y)
  BY <1>1, ConcatProperties, Zenon
<1>6. xyz \in Seq(U8) /\ Len(xyz) = Len(xy) + Len(z)
  BY <1>2, <1>5, ConcatProperties, Zenon
<1>7. Slice(d, 0, Len(x)) = x
  <2>1. Slice(d, 0, Len(x)) = Slice(xyz, 0, Len(x))
    BY <1>3, <1>4, <1>5, <1>6, SliceOfFirst, SMT
  <2>2. Slice(xyz, 0, Len(x)) = Slice(xy, 0, Len(x))
    BY <1>2, <1>4, <1>5, SliceOfFirst, SMT
  <2>3. Slice(xy, 0, Len(x)) = Slice(x, 0, Len(x))
    BY <1>1, <1>4, SliceOfFirst, SMT
  <2>4. Slice(x, 0, Len(x)) = SubSeq(x, 1, Len(x))
    BY <1>4, SMT DEF Slice
  <2> QED BY <2>1, <2>2, <2>3, <2>4, SubSeqFull, Zenon
<1>8. Slice(d, Len(x), Len(y)) = y
  <2>1. Slice(d, Len(x), Len(y)) = Slice(xyz, Len(x), Len(y))
    BY <1>3, <1>4, <1>5, <1>6, SliceOfFirst, SMT
  <2>2. Slice(xyz, Len(x), Len(y)) = Slice(xy, Len(x), Len(y))
    BY <1>2, <1>4, <1>5, SliceOfFirst, SMT
  <2>3. Slice(xy, Len(x), Len(y)) = y
    BY <1>1, SliceOfSecond, Zenon
  <2> QED BY <2>1, <2>2, <2>3, Zenon
<1>9. Slice(d, Len(x) + Len(y), Len(z)) = z
  <2>1. Slice(d, Len(xy), Len(z)) = Slice(xyz, Len(xy), Len(z))
    BY <1>3, <1>4, <1>5, <1>6, SliceOfFirst, SMT
  <2>2. Slice(xyz, Len(xy), Len(z)) = z
    BY <1>2, <1>5, SliceOfSecond, Zenon
  <2> QED BY <1>5, <2>1, <2>2, Zenon
<1> QED BY <1>0, <1>7, <1>8, <1>9, Zenon

\* The message is understood: parsing ends with what the pool meant.
Understood == state' = "ok" /\ result' = input.sent[1] /\ UNCHANGED input

LEMMA ParseUnderstood ==
  ASSUME NEW kind, NEW least \in Nat, NEW used \in Nat, NEW meaning,
         Parse(kind, least, used, meaning), Len(data) \in Nat,
         Len(data) >= least, Len(data) >= used, meaning = input.sent[1]
  PROVE  Understood
BY SMT DEF Parse, Yield, Understood

LEMMA SentIsWritten ==
  ASSUME input \in Input, input.sent # <<>>
  PROVE  data \in Seq(U8) /\ Written(input.kind, data, input.sent[1])
BY InputAssumption, SentAssumption, Zenon DEF data

LEMMA ConfigUnderstood ==
  ASSUME input \in Input, input.sent # <<>>, ParseClientConfig
  PROVE  Understood
<1> DEFINE p == input.sent[1]
<1>1. input.kind = "ClientConfig"
  BY Zenon DEF ParseClientConfig, Parse
<1>2. data \in Seq(U8) /\ WrittenConfig(data, p)
  BY <1>1, SentIsWritten, SMT DEF Written
<1>3. /\ p \in [max_jobs : U8, job_timeout : Seq(U8), share_difficulty : Seq(U8),
               params : Seq(U8)]
      /\ Len(p.job_timeout) = 4 /\ Len(p.share_difficulty) = 8
      /\ data = <<p.max_jobs>> \o p.job_timeout \o p.share_difficulty \o p.params
  BY <1>2, Zenon DEF WrittenConfig
<1> DEFINE m == [max_jobs |-> data[1], job_timeout |-> Slice(data, 1, 4),
                 share_difficulty |-> Slice(data, 5, 8), params |-> Rest(13)]
<1>4. Parse("ClientConfig", 13, 13, m)
  BY Zenon DEF ParseClientConfig
<1> HIDE DEF p, m
<1>5. /\ p.max_jobs \in U8 /\ p.job_timeout \in Seq(U8)
      /\ p.share_difficulty \in Seq(U8) /\ p.params \in Seq(U8)
      /\ p = [max_jobs |-> p.max_jobs, job_timeout |-> p.job_timeout,
              share_difficulty |-> p.share_difficulty, params |-> p.params]
  BY <1>3, SMT
<1>6. PICK x : x = <<p.max_jobs>> \o p.job_timeout \o p.share_difficulty
  OBVIOUS
<1>7. /\ x \in Seq(U8) /\ Len(x) = 1 + 4 + 8 /\ x[1] = p.max_jobs
      /\ Slice(x, 1, 4) = p.job_timeout
      /\ Slice(x, 1 + 4, 8) = p.share_difficulty
  <2>1. PICK j \in U8 : j = p.max_jobs
    BY <1>5
  <2>2. PICK y \in Seq(U8) : y = p.job_timeout
    BY <1>5
  <2>3. PICK z \in Seq(U8) : z = p.share_difficulty
    BY <1>5
  <2>4. x = <<j>> \o y \o z
    BY <1>6, <2>1, <2>2, <2>3, Zenon
  <2>5. /\ <<j>> \o y \o z \in Seq(U8)
        /\ Len(<<j>> \o y \o z) = 1 + Len(y) + Len(z)
        /\ (<<j>> \o y \o z)[1] = j
        /\ Slice(<<j>> \o y \o z, 1, Len(y)) = y
        /\ Slice(<<j>> \o y \o z, 1 + Len(y), Len(z)) = z
    BY ByteAndTwo, SMT
  <2>6. Len(y) = 4 /\ Len(z) = 8
    BY <1>3, <2>2, <2>3, Zenon
  <2> QED BY <2>1, <2>2, <2>3, <2>4, <2>5, <2>6, Zenon
<1>8. data = x \o p.params /\ Len(p.params) \in Nat
  BY <1>3, <1>5, <1>6, SMT
<1>9. Len(data) = 13 + Len(p.params) /\ data[1] = p.max_jobs
  <2>1. 1 \in 1 .. Len(x) /\ Len(x) = 13
    BY <1>7, SMT
  <2>2. PICK s \in Seq(U8) : s = x
    BY <1>7
  <2>3. PICK t \in Seq(U8) : t = p.params
    BY <1>5
  <2>4. Len(s \o t) = Len(s) + Len(t) /\ (s \o t)[1] = s[1]
    <3>1. /\ Len(s \o t) = Len(s) + Len(t)
          /\ \A i \in 1 .. Len(s) : (s \o t)[i] = s[i]
      BY ByteOfFirst, Zenon
    <3>2. 1 \in 1 .. Len(s)
      BY <2>1, <2>2, Zenon
    <3> QED BY <3>1, <3>2, Zenon
  <2>5. Len(data) = Len(x) + Len(p.params) /\ data[1] = x[1]
    BY <1>8, <2>2, <2>3, <2>4, Zenon
  <2> QED BY <1>7, <2>1, <2>5, Zenon
<1>10. Slice(data, 1, 4) = p.job_timeout
  <2>1. 1 \in Nat /\ 4 \in Nat /\ 1 + 4 <= Len(x)
    BY <1>7, SMT
  <2>2. Slice(data, 1, 4) = Slice(x, 1, 4)
    BY <1>5, <1>7, <1>8, <2>1, SliceOfFirst, Zenon
  <2> QED BY <1>7, <2>2, Zenon
<1>11. Slice(data, 5, 8) = p.share_difficulty
  <2>1. 5 \in Nat /\ 8 \in Nat /\ 5 + 8 <= Len(x) /\ 1 + 4 = 5
    BY <1>7, SMT
  <2>2. Slice(data, 5, 8) = Slice(x, 5, 8)
    BY <1>5, <1>7, <1>8, <2>1, SliceOfFirst, Zenon
  <2> QED BY <1>7, <2>1, <2>2, Zenon
<1>12. Rest(13) = p.params
  <2>1. Slice(data, Len(x), Len(p.params)) = p.params
    BY <1>5, <1>7, <1>8, SliceOfSecond, Zenon
  <2>2. Len(x) = 13 /\ Len(data) - 13 = Len(p.params)
    BY <1>7, <1>8, <1>9, SMT
  <2> QED BY <2>1, <2>2, Zenon DEF Rest
<1>13. m = p
  BY <1>5, <1>9, <1>10, <1>11, <1>12, Zenon DEF m
<1>14. Len(data) \in Nat /\ Len(data) >= 13 /\ 13 \in Nat
  BY <1>8, <1>9, SMT
<1> QED BY <1>4, <1>13, <1>14, ParseUnderstood, Zenon DEF p

LEMMA VerdictWithReason ==
  ASSUME Len(data) # 1, Len(data) # 2, Len(data) > 2, data[2] = 1
  PROVE  Verdict = [result |-> "Invalid", reason |-> Utf8Lossy(Rest(2))]
<1>1. \A n : n = 1 => n # 0 /\ n # 2
  BY SMT
<1>2. data[2] # 0 /\ data[2] # 2
  BY <1>1, Zenon
<1> DEFINE x == Utf8Lossy(Rest(2))
<1> HIDE DEF x
<1>3. Verdict = [result |-> "Invalid", reason |-> x]
  BY <1>2, Zenon DEF Verdict, x
<1> QED BY <1>3 DEF x

LEMMA VerdictWithoutReason ==
  ASSUME Len(data) = 2, data[2] = 1
  PROVE  Verdict = [result |-> "Invalid", reason |-> UnknownError]
<1>1. Len(data) # 1 /\ ~(Len(data) > 2) /\ data[2] # 0 /\ data[2] # 2
  BY SMT
<1> QED BY <1>1, Zenon DEF Verdict

LEMMA WrittenRefusal ==
  ASSUME NEW d, NEW p, WrittenValidation(d, p), p.verdict.result = "Invalid"
  PROVE  \/ p.verdict.reason # <<>> /\ d = <<p.job_id, 1>> \o p.verdict.reason
         \/ p.verdict.reason = UnknownError /\ d = <<p.job_id, 1>>
<1>1. p.verdict.result # "Valid"
  BY SMT
<1> QED BY <1>1, Zenon DEF WrittenValidation

LEMMA ValidationUnderstood ==
  ASSUME input \in Input, input.sent # <<>>, ParseJobValidation
  PROVE  Understood
<1> DEFINE p == input.sent[1]
<1>1. input.kind = "JobValidation"
  BY Zenon DEF ParseJobValidation, Parse
<1>2. data \in Seq(U8) /\ WrittenValidation(data, p)
  BY <1>1, SentIsWritten, SMT DEF Written
<1>3. /\ p \in [job_id : U8, verdict : [result : {"Valid", "Invalid", "NeedsUpdate"},
                                       reason : Seq(U8)]]
      /\ p.verdict.result # "Invalid" => p.verdict.reason = <<>>
      /\ Utf8Lossy(p.verdict.reason) = p.verdict.reason
  BY <1>2, Zenon DEF WrittenValidation, IsText
<1> DEFINE v == p.verdict
<1> HIDE DEF p
<1>4. /\ p.job_id \in U8 /\ v.reason \in Seq(U8)
      /\ v = [result |-> v.result, reason |-> v.reason]
      /\ v.result \in {"Valid", "Invalid", "NeedsUpdate"}
  BY <1>3, SMT
<1>5. /\ Len(data) \in Nat /\ Len(data) >= 1
      /\ data[1] = p.job_id /\ Verdict = v
  <2>1. CASE v.result = "Valid"
    <3>1. data = <<p.job_id>> \/ data = <<p.job_id, 0>>
      BY <1>2, <2>1, SMT DEF WrittenValidation
    <3>2. v = [result |-> "Valid", reason |-> <<>>]
      BY <1>3, <1>4, <2>1, SMT
    <3>3. CASE data = <<p.job_id>>
      <4>1. Len(data) = 1 /\ data[1] = p.job_id
        BY <3>3, SMT
      <4> QED BY <3>2, <4>1, SMT DEF Verdict
    <3>4. CASE data = <<p.job_id, 0>>
      <4>1. Len(data) = 2 /\ data[1] = p.job_id /\ data[2] = 0
        BY <3>4, SMT
      <4> QED BY <3>2, <4>1, SMT DEF Verdict
    <3> QED BY <3>1, <3>3, <3>4, Zenon
  <2>2. CASE v.result = "Invalid" /\ v.reason # <<>>
             /\ data = <<p.job_id, 1>> \o v.reason
    <3>0. PICK h : h = <<p.job_id, 1>>
      OBVIOUS
    <3>1. data = h \o v.reason
      BY <2>2, <3>0, Zenon
    <3>2. h \in Seq(U8) /\ Len(h) = 2 /\ h[1] = p.job_id /\ h[2] = 1
      BY <1>4, <3>0, SMT DEF U8
    <3>3. Len(v.reason) \in Nat /\ Len(v.reason) > 0
      BY <1>4, <2>2, SMT
    <3>4. Len(data) = 2 + Len(v.reason) /\ data[1] = p.job_id /\ data[2] = 1
      <4>1. 1 \in 1 .. Len(h) /\ 2 \in 1 .. Len(h)
        BY <3>2, SMT
      <4>2. v.reason \in Seq(U8)
        BY <1>4
      <4>3. PICK s \in Seq(U8) : s = h
        BY <3>2
      <4>4. PICK t \in Seq(U8) : t = v.reason
        BY <4>2
      <4>5. /\ Len(s \o t) = Len(s) + Len(t)
            /\ (s \o t)[1] = s[1] /\ (s \o t)[2] = s[2]
        BY <4>1, <4>3, ByteOfFirst, SMT
      <4> QED BY <3>1, <3>2, <4>3, <4>4, <4>5, Zenon
    <3>5. Rest(2) = v.reason
      <4>1. Len(data) - 2 = Len(v.reason)
        BY <3>3, <3>4, SMT
      <4>2. Slice(data, Len(h), Len(v.reason)) = v.reason
        BY <1>4, <3>1, <3>2, SliceOfSecond, Zenon
      <4> QED BY <3>2, <4>1, <4>2, Zenon DEF Rest
    <3>6. Verdict = [result |-> "Invalid", reason |-> Utf8Lossy(Rest(2))]
      <4>1. Len(data) # 1 /\ Len(data) > 2 /\ data[2] # 0 /\ data[2] = 1
        BY <3>3, <3>4, SMT
      <4>2. Len(data) # 2
        BY <3>3, <3>4, SMT
      <4> QED BY <4>1, <4>2, VerdictWithReason, Zenon
    <3>7. v = [result |-> "Invalid", reason |-> v.reason]
      BY <1>4, <2>2, Zenon
    <3>8. Utf8Lossy(Rest(2)) = v.reason
      BY <1>3, <3>5, Zenon
    <3>9. Verdict = v
      BY <3>6, <3>7, <3>8, Zenon
    <3> QED BY <3>3, <3>4, <3>9, SMT
  <2>3. CASE v.result = "Invalid" /\ v.reason = UnknownError
             /\ data = <<p.job_id, 1>>
    <3>1. Len(data) = 2 /\ data[1] = p.job_id /\ data[2] = 1
      BY <2>3, SMT
    <3>2. v = [result |-> "Invalid", reason |-> UnknownError]
      BY <1>4, <2>3, Zenon
    <3>3. Verdict = v
      BY <3>1, <3>2, VerdictWithoutReason, Zenon
    <3> QED BY <3>1, <3>3, SMT
  <2>4. CASE v.result = "NeedsUpdate"
    <3>1. data = <<p.job_id, 2>>
      BY <1>2, <2>4, SMT DEF WrittenValidation
    <3>2. v = [result |-> "NeedsUpdate", reason |-> <<>>]
      BY <1>3, <1>4, <2>4, SMT
    <3> QED BY <3>1, <3>2, SMT DEF Verdict
  <2>5. CASE v.result = "Invalid"
    <3>1. \/ v.reason # <<>> /\ data = <<p.job_id, 1>> \o v.reason
          \/ v.reason = UnknownError /\ data = <<p.job_id, 1>>
      BY <1>2, <2>5, WrittenRefusal, Zenon
    <3> QED BY <2>2, <2>3, <2>5, <3>1, Zenon
  <2> QED BY <1>4, <2>1, <2>4, <2>5, Zenon
<1> DEFINE m == [job_id |-> data[1], verdict |-> Verdict]
<1>6. m = p
  BY <1>3, <1>5, SMT
<1>7. Parse("JobValidation", 1, 1, m)
  BY Zenon DEF ParseJobValidation
<1> HIDE DEF m
<1>8. 1 \in Nat
  OBVIOUS
<1> QED BY <1>5, <1>6, <1>7, <1>8, ParseUnderstood, Zenon DEF p

LEMMA ShareUnderstood ==
  ASSUME input \in Input, input.sent # <<>>, ParseShareResponse
  PROVE  Understood
<1> DEFINE p == input.sent[1]
           m == [accepted |-> data[1] # 0, difficulty |-> Slice(data, 1, 8),
                 message |-> Utf8Lossy(Rest(9))]
<1>1. input.kind = "ShareResponse"
  BY Zenon DEF ParseShareResponse, Parse
<1>2. data \in Seq(U8) /\ WrittenShare(data, p)
  BY <1>1, SentIsWritten, SMT DEF Written
<1>3. Parse("ShareResponse", 9, 9, m)
  BY Zenon DEF ParseShareResponse
<1> HIDE DEF p, m
<1>4. /\ p \in [accepted : BOOLEAN, difficulty : Seq(U8), message : Seq(U8)]
      /\ Len(p.difficulty) = 8 /\ Utf8Lossy(p.message) = p.message
  BY <1>2, Zenon DEF WrittenShare, IsText
<1>5. PICK flag \in U8 : /\ p.accepted = (flag # 0)
                         /\ data = <<flag>> \o p.difficulty \o p.message
  BY <1>2, Zenon DEF WrittenShare
<1>6. /\ p.difficulty \in Seq(U8) /\ p.message \in Seq(U8)
      /\ Len(p.message) \in Nat
      /\ p = [accepted |-> p.accepted, difficulty |-> p.difficulty,
              message |-> p.message]
  BY <1>4, SMT
<1>7. /\ data[1] = flag /\ Len(data) = 1 + 8 + Len(p.message)
      /\ Slice(data, 1, 8) = p.difficulty
      /\ Slice(data, 1 + 8, Len(p.message)) = p.message
  <2>1. PICK y \in Seq(U8) : y = p.difficulty
    BY <1>6
  <2>2. PICK z \in Seq(U8) : z = p.message
    BY <1>6
  <2>3. data = <<flag>> \o y \o z
    BY <1>5, <2>1, <2>2, Zenon
  <2>4. /\ (<<flag>> \o y \o z)[1] = flag
        /\ Len(<<flag>> \o y \o z) = 1 + Len(y) + Len(z)
        /\ Slice(<<flag>> \o y \o z, 1, Len(y)) = y
        /\ Slice(<<flag>> \o y \o z, 1 + Len(y), Len(z)) = z
    BY ByteAndTwo, SMT
  <2> QED BY <1>4, <2>1, <2>2, <2>3, <2>4, Zenon
<1>8. /\ Len(data) \in Nat /\ Len(data) >= 9 /\ 9 \in Nat
      /\ Len(data) - 9 = Len(p.message) /\ 1 + 8 = 9
  BY <1>6, <1>7, SMT
<1>9. m = p
  BY <1>4, <1>5, <1>6, <1>7, <1>8, Zenon DEF m, Rest
<1> QED BY <1>3, <1>8, <1>9, ParseUnderstood, Zenon DEF p

LEMMA NotifyUnderstood ==
  ASSUME input \in Input, input.sent # <<>>, ParseBlockNotify
  PROVE  Understood
<1> DEFINE p == input.sent[1]
           r == Slice(data, 68, Len(data) - 68)
<1>1. input.kind = "BlockNotify"
  BY Zenon DEF ParseBlockNotify, Parse
<1>2. data \in Seq(U8) /\ WrittenNotify(data, p)
  BY <1>1, SentIsWritten, SMT DEF Written
<1>3. /\ p \in [height : Seq(U8), hash : Seq(U8), prev_hash : Seq(U8)]
      /\ p.height \in Seq(U8) /\ p.hash \in Seq(U8) /\ p.prev_hash \in Seq(U8)
      /\ Len(p.height) = 4 /\ Len(p.hash) = 32 /\ Len(p.prev_hash) = 32
      /\ Len(data) >= 72
      /\ data = p.height \o p.hash \o p.prev_hash \o r
  BY <1>2, Zenon DEF WrittenNotify
<1>4. Len(data) \in Nat /\ 72 \in Nat /\ 68 \in Nat /\ Len(data) >= 68
  BY <1>2, <1>3, SMT
<1>5. r \in Seq(U8)
  <2>1. Len(data) - 68 \in Nat /\ 68 + (Len(data) - 68) <= Len(data)
    BY <1>4, SMT
  <2> QED BY <1>2, <1>4, <2>1, SliceProperties
<1> HIDE DEF r, p
<1>6. /\ Slice(data, 0, 4) = p.height /\ Slice(data, 4, 32) = p.hash
      /\ Slice(data, 4 + 32, 32) = p.prev_hash
  <2>1. PICK h \in Seq(U8) : h = p.height
    BY <1>3
  <2>2. PICK s \in Seq(U8) : s = p.hash
    BY <1>3
  <2>3. PICK v \in Seq(U8) : v = p.prev_hash
    BY <1>3
  <2>4. PICK t \in Seq(U8) : t = r
    BY <1>5
  <2>5. data = h \o s \o v \o t
    BY <1>3, <2>1, <2>2, <2>3, <2>4, Zenon
  <2>6. /\ Slice(h \o s \o v \o t, 0, Len(h)) = h
        /\ Slice(h \o s \o v \o t, Len(h), Len(s)) = s
        /\ Slice(h \o s \o v \o t, Len(h) + Len(s), Len(v)) = v
    BY ThreeParts, SMT
  <2>7. Len(h) = 4 /\ Len(s) = 32 /\ Len(v) = 32
    BY <1>3, <2>1, <2>2, <2>3, Zenon
  <2> QED BY <2>1, <2>2, <2>3, <2>5, <2>6, <2>7, Zenon
<1> DEFINE m == [height |-> Slice(data, 0, 4), hash |-> Slice(data, 4, 32),
                 prev_hash |-> Slice(data, 36, 32)]
<1>7. m = p
  BY <1>3, <1>6, SMT
<1>8. Parse("BlockNotify", 72, 68, m)
  BY Zenon DEF ParseBlockNotify
<1> HIDE DEF m
<1> QED BY <1>3, <1>4, <1>7, <1>8, ParseUnderstood, Zenon DEF p

LEMMA HandshakeUnderstood ==
  ASSUME input \in Input, input.sent # <<>>, ParseHandshake
  PROVE  Understood
<1> DEFINE p == input.sent[1]
           r == Slice(data, 192, Len(data) - 192)
<1>1. input.kind = "Handshake"
  BY Zenon DEF ParseHandshake
<1>2. data \in Seq(U8) /\ WrittenHandshake(data, p)
  BY <1>1, SentIsWritten, SMT DEF Written
<1>3. /\ p \in [ed25519 : Seq(U8) \ BadKey, x25519 : Seq(U8)]
      /\ p.ed25519 \in Seq(U8) /\ p.ed25519 \notin BadKey /\ p.x25519 \in Seq(U8)
      /\ Len(p.ed25519) = 32 /\ Len(p.x25519) = 32
      /\ Len(data) >= 192
      /\ data = Echo \o p.ed25519 \o p.x25519 \o r
  BY <1>2, Zenon DEF WrittenHandshake
<1>4. Echo \in Seq(U8) /\ Len(Echo) = 128
  BY EchoAssumption
<1>5. r \in Seq(U8)
  <2>1. 192 \in Nat /\ Len(data) - 192 \in Nat
        /\ 192 + (Len(data) - 192) <= Len(data)
    BY <1>2, <1>3, SMT
  <2> QED BY <1>2, <2>1, SliceProperties
<1> HIDE DEF r, p
<1>6. /\ Slice(data, 0, 128) = Echo /\ Slice(data, 128, 32) = p.ed25519
      /\ Slice(data, 128 + 32, 32) = p.x25519
  <2>1. PICK h \in Seq(U8) : h = Echo
    BY <1>4
  <2>2. PICK s \in Seq(U8) : s = p.ed25519
    BY <1>3
  <2>3. PICK v \in Seq(U8) : v = p.x25519
    BY <1>3
  <2>4. PICK t \in Seq(U8) : t = r
    BY <1>5
  <2>5. data = h \o s \o v \o t
    BY <1>3, <2>1, <2>2, <2>3, <2>4, Zenon
  <2>6. /\ Slice(h \o s \o v \o t, 0, Len(h)) = h
        /\ Slice(h \o s \o v \o t, Len(h), Len(s)) = s
        /\ Slice(h \o s \o v \o t, Len(h) + Len(s), Len(v)) = v
    BY ThreeParts, SMT
  <2>7. Len(h) = 128 /\ Len(s) = 32 /\ Len(v) = 32
    BY <1>3, <1>4, <2>1, <2>2, <2>3, Zenon
  <2> QED BY <2>1, <2>2, <2>3, <2>5, <2>6, <2>7, Zenon
<1>7. Slice(data, 160, 32) = p.x25519
  BY <1>6, SMT
<1>8. ~(Len(data) < 192)
  <2>1. Len(data) \in Nat
    BY <1>2, SMT
  <2> QED BY <1>3, <2>1, SMT
<1> DEFINE m == [ed25519 |-> Slice(data, 128, 32), x25519 |-> Slice(data, 160, 32)]
<1>9. m = p
  BY <1>3, <1>6, <1>7, SMT
<1>10. Yield(m)
  BY <1>3, <1>6, <1>8, Zenon DEF ParseHandshake
<1> HIDE DEF m
<1> QED BY <1>9, <1>10, Zenon DEF Yield, Understood, p

LEMMA AnswerUnderstood ==
  ASSUME input \in Input, input.sent # <<>>, ParseSubmitPow
  PROVE  Understood
<1> DEFINE p == input.sent[1]
<1>1. input.kind = "SubmitPow"
  BY Zenon DEF ParseSubmitPow
<1>2. data \in Seq(U8) /\ WrittenAnswer(data, p)
  BY <1>1, SentIsWritten, SMT DEF Written
<1>3. PICK a \in BOOLEAN : /\ p = [accepted |-> a]
                           /\ data \in IF a THEN {<<80>>, <<85>>} ELSE {<<102>>}
  <2>1. p.accepted \in BOOLEAN /\ p = [accepted |-> p.accepted]
    BY <1>2, SMT DEF WrittenAnswer
  <2> QED BY <1>2, <2>1, Zenon DEF WrittenAnswer
<1>4. PICK b : data = <<b>> /\ b \in IF a THEN {80, 85} ELSE {102}
  BY <1>3, SMT
<1>5. data # <<>> /\ data[1] = b
  BY <1>4, SMT
<1>6. b \in AcceptedCodes \cup {RejectedCode}
  BY <1>4, SMT DEF AcceptedCodes, RejectedCode
<1>7. (b \in AcceptedCodes) = a
  <2>1. CASE a = TRUE
    <3>1. b \in {80, 85}
      BY <1>4, <2>1, Zenon
    <3> QED BY <2>1, <3>1, Zenon DEF AcceptedCodes
  <2>2. CASE a = FALSE
    BY <1>4, <2>2, SMT DEF AcceptedCodes
  <2> QED BY <2>1, <2>2, Zenon
<1> DEFINE m == [accepted |-> data[1] \in AcceptedCodes]
<1>8. m = p
  BY <1>3, <1>5, <1>7, Zenon
<1>9. Yield(m)
  BY <1>5, <1>6, Zenon DEF ParseSubmitPow
<1> HIDE DEF m
<1> QED BY <1>8, <1>9, Zenon DEF Yield, Understood

(***************************************************************************)
(* And the coinbase response.  Heard is what makes SentIsUnderstood        *)
(* inductive: what has been read so far is what the pool meant.            *)
(***************************************************************************)
SentCoinbase == input.kind = "FetchCoinbaser" /\ input.sent # <<>>

Meant == input.sent[1]

SentBody == Slice(data, 12, Len(data) - 13)

\* Where the outputs that the pool meant start.
Place ==
  CHOOSE s \in [1 .. Len(Meant.outputs) -> 0 .. Len(SentBody)] :
    LaidOut(SentBody, Meant, s)

OutputsHeard ==
  /\ count = Len(Meant.outputs)
  /\ \A i \in 1 .. Len(result.outputs) : result.outputs[i] = Meant.outputs[i]
  /\ \A i \in 1 .. Len(starts) : starts[i] = Place[i]

Heard ==
  /\ state \notin {"error", "panic"}
  /\ state = "ok" => result = Meant
  /\ state \in Fields => body = SentBody
  /\ state \in IdFields \cup OutputFields \cup {"count"} =>
       result.primary_tag = Meant.primary_tag
  /\ state \in OutputFields \cup {"count"} => result.unique_id = Meant.unique_id
  /\ state \in OutputFields => OutputsHeard

HeardInv == input \in Input /\ (SentCoinbase => Heard)

LEMMA MeantFacts ==
  ASSUME input \in Input, SentCoinbase
  PROVE  /\ data \in Seq(U8) /\ Len(data) \in Nat /\ Len(data) > 13
         /\ U32(Slice(data, 8, 4)) = Len(SentBody)
         /\ data[Len(data)] = Terminator
         /\ IsPayout(Meant)
         /\ Place \in [1 .. Len(Meant.outputs) -> 0 .. Len(SentBody)]
         /\ LaidOut(SentBody, Meant, Place)
<1>1. data \in Seq(U8) /\ WrittenCoinbase(data, Meant)
  BY SentIsWritten, SMT DEF SentCoinbase, Written, Meant
<1>2. Len(data) \in Nat
  BY <1>1, SMT
<1> DEFINE F == [1 .. Len(Meant.outputs) -> 0 .. Len(SentBody)]
<1>3. \E s \in F : LaidOut(SentBody, Meant, s)
  BY <1>1, Zenon DEF WrittenCoinbase, SentBody
<1> HIDE DEF F
<1>4. Place \in F /\ LaidOut(SentBody, Meant, Place)
  <2>1. Place = CHOOSE s \in F : LaidOut(SentBody, Meant, s)
    BY DEF Place, F
  <2> QED BY <1>3, <2>1, Zenon
<1> QED BY <1>1, <1>2, <1>4, Zenon DEF WrittenCoinbase, SentBody, F

\* Its length is that of the data without value, length and terminator.
LEMMA SentBodyFacts ==
  ASSUME input \in Input, SentCoinbase
  PROVE  /\ SentBody \in Seq(U8) /\ Len(SentBody) = Len(data) - 13
         /\ Len(SentBody) \in Nat
<1>1. data \in Seq(U8) /\ Len(data) \in Nat /\ Len(data) > 13
  BY MeantFacts, Zenon
<1>2. 12 \in Nat /\ Len(data) - 13 \in Nat /\ 12 + (Len(data) - 13) <= Len(data)
  BY <1>1, SMT
<1> QED BY <1>1, <1>2, SliceProperties, Zenon DEF SentBody

\* The head of the coinbase data, in numbers.
LEMMA HeadFacts ==
  ASSUME input \in Input, SentCoinbase
  PROVE  /\ SentBody[1] \in Nat /\ SentBody[2 + SentBody[1]] \in Nat
         /\ FirstOutput(SentBody) = 3 + SentBody[1] + SentBody[2 + SentBody[1]]
         /\ FirstOutput(SentBody) <= Len(SentBody) /\ Len(SentBody) \in Nat
         /\ SentBody[FirstOutput(SentBody)] = Len(Meant.outputs)
         /\ Utf8Lossy(TagBytes(SentBody)) = Meant.primary_tag
         /\ Utf8Lossy(IdBytes(SentBody)) = Meant.unique_id
<1>1. LaidOut(SentBody, Meant, Place)
  BY MeantFacts, Zenon
<1>2. 1 <= Len(SentBody) /\ 2 + SentBody[1] <= Len(SentBody)
  BY <1>1, Zenon DEF LaidOut, TagRead, IdRead
<1>3. SentBody \in Seq(U8) /\ Len(SentBody) \in Nat
  BY SentBodyFacts, Zenon
<1>4. SentBody[1] \in Nat
  <2>1. SentBody[1] \in U8
    BY <1>2, <1>3, SMT
  <2> QED BY <2>1, SMT DEF U8
<1>5. SentBody[2 + SentBody[1]] \in Nat
  <2>1. SentBody[2 + SentBody[1]] \in U8
    BY <1>2, <1>3, <1>4, SMT
  <2> QED BY <2>1, SMT DEF U8
<1> QED BY <1>1, <1>3, <1>4, <1>5, Zenon
       DEF LaidOut, TagRead, IdRead, FirstOutput

LEMMA HeadBounds ==
  ASSUME input \in Input, SentCoinbase
  PROVE  /\ 0 + 1 <= Len(SentBody)
         /\ 1 + SentBody[1] <= Len(SentBody)
         /\ 1 + SentBody[1] + 1 <= Len(SentBody)
         /\ 2 + SentBody[1] + SentBody[2 + SentBody[1]] <= Len(SentBody)
<1>1. PICK t \in Nat : t = SentBody[1]
  BY HeadFacts, Zenon
<1>2. PICK u \in Nat : u = SentBody[2 + SentBody[1]]
  BY HeadFacts, Zenon
<1>3. PICK l \in Nat : l = Len(SentBody)
  BY HeadFacts, Zenon
<1>4. 3 + t + u <= l
  BY <1>1, <1>2, <1>3, HeadFacts, Zenon
<1>5. 0 + 1 <= l /\ 1 + t <= l /\ 1 + t + 1 <= l /\ 2 + t + u <= l
  BY <1>4, SMT
<1> QED BY <1>1, <1>2, <1>3, <1>5, Zenon

\* An output that is meant lies in the coinbase data.
LEMMA PlaceFacts ==
  ASSUME input \in Input, SentCoinbase, NEW n \in 1 .. Len(Meant.outputs)
  PROVE  /\ Place[n] \in Nat /\ Place[n] = StartOf(SentBody, Meant, Place, n)
         /\ Meant.outputs[n] \in Output
         /\ Len(Meant.outputs[n].script) \in Nat
         /\ Meant.outputs[n].value = Slice(SentBody, Place[n], 8)
         /\ SentBody[Place[n] + 9] = Len(Meant.outputs[n].script)
         /\ Meant.outputs[n].script =
              Slice(SentBody, Place[n] + 9, Len(Meant.outputs[n].script))
         /\ Place[n] + 9 + Len(Meant.outputs[n].script) <= Len(SentBody)
<1>1. /\ IsPayout(Meant) /\ LaidOut(SentBody, Meant, Place)
      /\ Place \in [1 .. Len(Meant.outputs) -> 0 .. Len(SentBody)]
  BY MeantFacts, Zenon
<1>2. /\ OutputAt(SentBody, Place[n], Meant.outputs[n])
      /\ Place[n] = StartOf(SentBody, Meant, Place, n)
  BY <1>1, Zenon DEF LaidOut, OutputsRead
<1>3. Place[n] \in Nat
  <2>1. Place[n] \in 0 .. Len(SentBody)
    BY <1>1, Zenon
  <2> QED BY <2>1, SMT
<1>4. Meant.outputs \in Seq(Output)
  BY <1>1, SMT DEF IsPayout
<1>5. Meant.outputs[n] \in Output
  BY <1>4, SMT
<1>6. Meant.outputs[n].script \in Seq(U8)
  BY <1>5, SMT DEF Output
<1>7. Len(Meant.outputs[n].script) \in Nat
  BY <1>6, SMT
<1> QED BY <1>2, <1>3, <1>5, <1>7, Zenon DEF OutputAt

\* Bytes that are there are read.
LEMMA NoFail ==
  ASSUME NEW n, at + n <= Len(body)
  PROVE  ~Fails(n)
BY Zenon DEF Fails, Checked, InBounds

LEMMA SameSent ==
  ASSUME input' = input
  PROVE  Meant' = Meant /\ SentBody' = SentBody /\ Place' = Place
         /\ SentCoinbase' = SentCoinbase /\ data' = data
BY Zenon DEF Meant, SentBody, Place, SentCoinbase, data

LEMMA OpenHeard ==
  ASSUME input \in Input, SentCoinbase, OpenCoinbase
  PROVE  Heard'
<1>1. /\ data \in Seq(U8) /\ Len(data) \in Nat /\ Len(data) > 13
      /\ U32(Slice(data, 8, 4)) = Len(SentBody)
      /\ data[Len(data)] = Terminator
  BY MeantFacts, Zenon
<1>2. Len(SentBody) = Len(data) - 13
  BY SentBodyFacts, Zenon
<1>3. /\ End = 12 + (Len(data) - 13) /\ End + 1 = Len(data)
      /\ End - 12 = Len(data) - 13 /\ End < Len(data) /\ End # Len(data)
      /\ ~(End > Len(data)) /\ ~(Len(data) < 13)
  <2>1. End = 12 + (Len(data) - 13)
    BY <1>1, <1>2, Zenon DEF End
  <2> QED BY <1>1, <2>1, SMT
<1>4. /\ body' = Slice(data, 12, End - 12) /\ state' = "tagLen"
      /\ UNCHANGED input
  BY <1>1, <1>3, Zenon DEF OpenCoinbase
<1>5. body' = SentBody
  BY <1>3, <1>4, Zenon DEF SentBody
<1>6. SentBody' = SentBody
  BY <1>4, SameSent, Zenon
<1> QED BY <1>4, <1>5, <1>6, SMT DEF Heard, IdFields, OutputFields

LEMMA TagLenHeard ==
  ASSUME CursorInv, input \in Input, SentCoinbase, Heard, ReadLength("tagLen", "tag")
  PROVE  Heard'
<1>1. state = "tagLen"
  BY Zenon DEF ReadLength
<1>2. at = 0 /\ body = SentBody
  BY <1>1, SMT DEF CursorInv, Cursor, Heard, Fields
<1>3. at + 1 <= Len(body)
  BY <1>2, HeadBounds, Zenon
<1>4. state' = "tag" /\ UNCHANGED <<input, body>>
  BY <1>3, NoFail, Zenon DEF ReadLength
<1> QED BY <1>2, <1>4, SameSent, SMT DEF Heard, IdFields, OutputFields

LEMMA TagHeard ==
  ASSUME TypeOK, CursorInv, input \in Input, SentCoinbase, Heard, ReadTag
  PROVE  Heard'
<1>1. state = "tag"
  BY Zenon DEF ReadTag
<1>2. at = 1 /\ body = SentBody /\ body[1] = want
  BY <1>1, SMT DEF CursorInv, Cursor, Heard, Fields
<1>3. want = SentBody[1]
  BY <1>2, Zenon
<1>4. at + want <= Len(body)
  BY <1>2, <1>3, HeadBounds, Zenon
<1>5. /\ state' = "idLen" /\ UNCHANGED <<input, body>>
      /\ result' = [result EXCEPT !.primary_tag = Utf8Lossy(Slice(body, at, want))]
  BY <1>4, NoFail, Zenon DEF ReadTag
<1>6. IsPayout(result)
  BY Zenon DEF TypeOK, SentCoinbase
<1>7. result'.primary_tag = Utf8Lossy(Slice(body, at, want))
  <2>1. PICK s : s = Utf8Lossy(Slice(body, at, want))
    OBVIOUS
  <2>2. result' = [result EXCEPT !.primary_tag = s]
    BY <1>5, <2>1, Zenon
  <2>3. /\ IsPayout(result') /\ result'.primary_tag = s
        /\ result'.unique_id = result.unique_id
        /\ result'.outputs = result.outputs
    BY <1>6, <2>2, WithTag
  <2> QED BY <2>1, <2>3, Zenon
<1>8. result'.primary_tag = Meant.primary_tag
  BY <1>2, <1>3, <1>7, HeadFacts, Zenon DEF TagBytes
<1> QED BY <1>2, <1>5, <1>8, SameSent, SMT DEF Heard, IdFields, OutputFields

LEMMA IdLenHeard ==
  ASSUME CursorInv, input \in Input, SentCoinbase, Heard, ReadLength("idLen", "id")
  PROVE  Heard'
<1>1. state = "idLen"
  BY Zenon DEF ReadLength
<1>2. /\ at = 1 + body[1] /\ body = SentBody
      /\ result.primary_tag = Meant.primary_tag
  BY <1>1, SMT DEF CursorInv, Cursor, Heard, Fields, IdFields
<1>3. at + 1 <= Len(body)
  BY <1>2, HeadBounds, Zenon
<1>4. state' = "id" /\ UNCHANGED <<input, body, result>>
  BY <1>3, NoFail, Zenon DEF ReadLength
<1> QED BY <1>2, <1>4, SameSent, SMT DEF Heard, IdFields, OutputFields

LEMMA IdHeard ==
  ASSUME TypeOK, CursorInv, input \in Input, SentCoinbase, Heard, ReadId
  PROVE  Heard'
<1>1. state = "id"
  BY Zenon DEF ReadId
<1>2. /\ at = 2 + body[1] /\ body = SentBody /\ body[at] = want
      /\ result.primary_tag = Meant.primary_tag
  BY <1>1, SMT DEF CursorInv, Cursor, Heard, Fields, IdFields
<1>3. want = SentBody[2 + SentBody[1]]
  BY <1>2, Zenon
<1>4. at + want <= Len(body)
  BY <1>2, <1>3, HeadBounds, Zenon
<1>5. /\ state' = "count" /\ UNCHANGED <<input, body>>
      /\ result' = [result EXCEPT !.unique_id = Utf8Lossy(Slice(body, at, want))]
  BY <1>4, NoFail, Zenon DEF ReadId
<1>6. IsPayout(result)
  BY Zenon DEF TypeOK, SentCoinbase
<1>7. /\ result'.unique_id = Utf8Lossy(Slice(body, at, want))
      /\ result'.primary_tag = result.primary_tag
  <2>1. PICK s : s = Utf8Lossy(Slice(body, at, want))
    OBVIOUS
  <2>2. result' = [result EXCEPT !.unique_id = s]
    BY <1>5, <2>1, Zenon
  <2>3. /\ IsPayout(result') /\ result'.primary_tag = result.primary_tag
        /\ result'.unique_id = s
        /\ result'.outputs = result.outputs
    BY <1>6, <2>2, WithId
  <2> QED BY <2>1, <2>3, Zenon
<1>8. /\ result'.unique_id = Meant.unique_id
      /\ result'.primary_tag = Meant.primary_tag
  BY <1>2, <1>3, <1>7, HeadFacts, Zenon DEF IdBytes
<1> QED BY <1>2, <1>5, <1>8, SameSent, SMT DEF Heard, IdFields, OutputFields

LEMMA PayoutEqual ==
  ASSUME NEW p, IsPayout(p), NEW q, IsPayout(q), p.primary_tag = q.primary_tag,
         p.unique_id = q.unique_id, Len(p.outputs) = Len(q.outputs),
         \A i \in 1 .. Len(p.outputs) : p.outputs[i] = q.outputs[i]
  PROVE  p = q
<1>1. p.outputs \in Seq(Output) /\ q.outputs \in Seq(Output)
  BY SMT DEF IsPayout
<1>2. p.outputs = q.outputs
  BY <1>1, SeqEqual
<1>3. /\ p = [primary_tag |-> p.primary_tag, unique_id |-> p.unique_id,
              outputs |-> p.outputs]
      /\ q = [primary_tag |-> q.primary_tag, unique_id |-> q.unique_id,
              outputs |-> q.outputs]
  BY SMT DEF IsPayout
<1> QED BY <1>2, <1>3, Zenon

LEMMA CountHeard ==
  ASSUME TypeOK, CursorInv, input \in Input, SentCoinbase, Heard, ReadCount
  PROVE  Heard'
<1>1. state = "count"
  BY Zenon DEF ReadCount
<1>2. /\ at + 1 = FirstOutput(body) /\ body = SentBody
      /\ result.primary_tag = Meant.primary_tag
      /\ result.unique_id = Meant.unique_id
      /\ result.outputs = <<>> /\ starts = <<>>
  BY <1>1, SMT DEF CursorInv, Cursor, HeadRead, Heard, Fields, IdFields
<1>3. at + 1 = FirstOutput(SentBody)
  BY <1>2, Zenon DEF FirstOutput
<1>4. at + 1 <= Len(body)
  BY <1>2, <1>3, HeadFacts, Zenon
<1>5. /\ UNCHANGED <<input, body, starts, result>>
      /\ count' = body[at + 1]
      /\ state' = IF count' = 0 THEN "ok" ELSE "value"
  BY <1>4, NoFail, Zenon DEF ReadCount
<1>6. count' = Len(Meant.outputs)
  BY <1>2, <1>3, <1>5, HeadFacts, Zenon
<1>7. CASE count' = 0
  <2>1. IsPayout(result) /\ IsPayout(Meant)
    BY MeantFacts, Zenon DEF TypeOK, SentCoinbase
  <2>2. Len(result.outputs) = 0 /\ \A i \in 1 .. Len(result.outputs) : FALSE
    BY <1>2, SMT
  <2>3. result = Meant
    BY <1>2, <1>6, <1>7, <2>1, <2>2, PayoutEqual, Zenon
  <2> QED BY <1>5, <1>7, <2>3, SameSent, SMT
          DEF Heard, Fields, IdFields, OutputFields
<1>8. CASE count' # 0
  <2>1. OutputsHeard'
    BY <1>2, <1>5, <1>6, SameSent, SMT DEF OutputsHeard
  <2> QED BY <1>2, <1>5, <1>8, <2>1, SameSent, SMT
          DEF Heard, Fields, IdFields, OutputFields
<1> QED BY <1>7, <1>8

\* While outputs are read: the one that is read now is meant.
LEMMA InOutputs ==
  ASSUME TypeOK, CursorInv, Heard, SentCoinbase, input \in Input, state \in OutputFields
  PROVE  /\ body = SentBody /\ OutputsHeard
         /\ result.primary_tag = Meant.primary_tag
         /\ result.unique_id = Meant.unique_id
         /\ FirstOutput(body) = FirstOutput(SentBody)
         /\ Len(result.outputs) + 1 \in 1 .. Len(Meant.outputs)
         /\ Len(result.outputs) \in Nat /\ Len(starts) \in Nat
<1>1. state \in Fields
  BY SMT DEF OutputFields, Fields
<1>2. /\ body = SentBody /\ OutputsHeard
      /\ result.primary_tag = Meant.primary_tag
      /\ result.unique_id = Meant.unique_id
  BY <1>1, Zenon DEF Heard
<1>3. Len(result.outputs) < count
  BY Zenon DEF CursorInv, OutputsSoFar
<1>4. count = Len(Meant.outputs)
  BY <1>2, Zenon DEF OutputsHeard
<1>5. IsPayout(result) /\ IsPayout(Meant)
  BY MeantFacts, Zenon DEF TypeOK, SentCoinbase
<1>6. Len(result.outputs) \in Nat /\ Len(Meant.outputs) \in Nat
  BY <1>5, SMT DEF IsPayout
<1>7. Len(starts) \in Nat
  BY SMT DEF TypeOK
<1> QED BY <1>2, <1>3, <1>4, <1>6, <1>7, SMT DEF FirstOutput

LEMMA ValueHeard ==
  ASSUME TypeOK, CursorInv, input \in Input, SentCoinbase, Heard, ReadValue
  PROVE  Heard'
<1>1. state = "value" /\ state \in OutputFields
  BY Zenon DEF ReadValue, OutputFields
<1>2. PICK n : n = Len(starts) + 1
  OBVIOUS
<1>3. /\ at = StartOf(body, result, starts, n) /\ n = Len(result.outputs) + 1
  BY <1>1, <1>2, SMT DEF CursorInv, Cursor, OutputsSoFar
<1>4. n \in 1 .. Len(Meant.outputs) /\ Len(starts) \in Nat
  BY <1>1, <1>3, InOutputs, Zenon
<1>5. at = Place[n]
  <2>1. CASE n = 1
    BY <1>1, <1>3, <1>4, <2>1, InOutputs, PlaceFacts, Zenon DEF StartOf
  <2>2. CASE n # 1
    <3>1. n - 1 \in 1 .. Len(starts) /\ n - 1 \in 1 .. Len(result.outputs)
      BY <1>1, <1>2, <1>3, <1>4, <2>2, InOutputs, SMT
    <3>2. starts[n - 1] = Place[n - 1] /\ result.outputs[n - 1] = Meant.outputs[n - 1]
      BY <1>1, <3>1, InOutputs, Zenon DEF OutputsHeard
    <3> QED BY <1>3, <1>4, <2>2, <3>2, PlaceFacts, Zenon DEF StartOf
  <2> QED BY <2>1, <2>2
<1>6. at + 8 <= Len(body)
  <2>1. PICK l \in Nat : l = Len(Meant.outputs[n].script)
    BY <1>4, PlaceFacts, Zenon
  <2>2. PICK a \in Nat : a = Place[n]
    BY <1>4, PlaceFacts, Zenon
  <2>3. PICK m \in Nat : m = Len(SentBody)
    BY HeadFacts, Zenon
  <2>4. a + 9 + l <= m
    BY <1>4, <2>1, <2>2, <2>3, PlaceFacts, Zenon
  <2>5. a + 8 <= m
    BY <2>4, SMT
  <2> QED BY <1>1, <1>5, <2>2, <2>3, <2>5, InOutputs, Zenon
<1>7. /\ UNCHANGED <<input, body, count, result>>
      /\ starts' = Append(starts, at) /\ state' = "scriptLen"
  BY <1>6, NoFail, Zenon DEF ReadValue
<1>8. OutputsHeard'
  <2>1. starts \in Seq(Nat)
    BY Zenon DEF TypeOK
  <2>2. /\ Len(starts') = n /\ starts'[n] = at
        /\ \A i \in 1 .. n - 1 : starts'[i] = starts[i]
    BY <1>2, <1>4, <1>7, <2>1, SMT
  <2>3. \A i \in 1 .. Len(starts') : starts'[i] = Place[i]
    <3> SUFFICES ASSUME NEW i \in 1 .. n PROVE starts'[i] = Place[i]
      BY <2>2, Zenon
    <3>1. CASE i = n
      BY <1>5, <2>2, <3>1, Zenon
    <3>2. CASE i # n
      <4>1. i \in 1 .. n - 1 /\ i \in 1 .. Len(starts)
        BY <1>2, <1>4, <3>2, SMT
      <4> QED BY <1>1, <2>2, <4>1, InOutputs, Zenon DEF OutputsHeard
    <3> QED BY <3>1, <3>2
  <2>4. OutputsHeard
    BY <1>1, InOutputs, Zenon
  <2> QED BY <1>7, <2>3, <2>4, SameSent, Zenon DEF OutputsHeard
<1>9. /\ body' = SentBody /\ result'.primary_tag = Meant.primary_tag
      /\ result'.unique_id = Meant.unique_id
  BY <1>1, <1>7, InOutputs, Zenon
<1> QED BY <1>7, <1>8, <1>9, SameSent, SMT DEF Heard

LEMMA ScriptLenHeard ==
  ASSUME TypeOK, CursorInv, input \in Input, SentCoinbase, Heard,
         ReadLength("scriptLen", "script")
  PROVE  Heard'
<1>1. state = "scriptLen" /\ state \in OutputFields
  BY Zenon DEF ReadLength, OutputFields
<1>2. PICK n : n = Len(starts)
  OBVIOUS
<1>3. at = starts[n] + 8 /\ n = Len(result.outputs) + 1
  BY <1>1, <1>2, SMT DEF CursorInv, Cursor, OutputsSoFar
<1>4. n \in 1 .. Len(Meant.outputs) /\ n \in 1 .. Len(starts)
  BY <1>1, <1>2, <1>3, InOutputs, SMT
<1>5. at = Place[n] + 8
  BY <1>1, <1>3, <1>4, InOutputs, Zenon DEF OutputsHeard
<1>6. at + 1 <= Len(body)
  <2>1. PICK l \in Nat : l = Len(Meant.outputs[n].script)
    BY <1>4, PlaceFacts, Zenon
  <2>2. PICK a \in Nat : a = Place[n]
    BY <1>4, PlaceFacts, Zenon
  <2>3. PICK m \in Nat : m = Len(SentBody)
    BY HeadFacts, Zenon
  <2>4. a + 9 + l <= m
    BY <1>4, <2>1, <2>2, <2>3, PlaceFacts, Zenon
  <2>5. a + 8 + 1 <= m
    BY <2>4, SMT
  <2> QED BY <1>1, <1>5, <2>2, <2>3, <2>5, InOutputs, Zenon
<1>7. state' = "script" /\ UNCHANGED <<input, body, count, starts, result>>
  BY <1>6, NoFail, Zenon DEF ReadLength
<1>8. OutputsHeard'
  <2>1. OutputsHeard
    BY <1>1, InOutputs, Zenon
  <2> QED BY <1>7, <2>1, SameSent, Zenon DEF OutputsHeard
<1>9. /\ body' = SentBody /\ result'.primary_tag = Meant.primary_tag
      /\ result'.unique_id = Meant.unique_id
  BY <1>1, <1>7, InOutputs, Zenon
<1> QED BY <1>7, <1>8, <1>9, SameSent, SMT DEF Heard

LEMMA ScriptHeard ==
  ASSUME TypeOK, CursorInv, input \in Input, SentCoinbase, Heard, ReadScript
  PROVE  Heard'
<1>1. state = "script" /\ state \in OutputFields
  BY Zenon DEF ReadScript, OutputFields
<1>2. PICK n : n = Len(starts)
  OBVIOUS
<1>3. /\ at = starts[n] + 9 /\ body[at] = want /\ n = Len(result.outputs) + 1
      /\ value = Slice(body, starts[n], 8)
  BY <1>1, <1>2, SMT DEF CursorInv, Cursor, OutputsSoFar
<1>4. n \in 1 .. Len(Meant.outputs) /\ n \in 1 .. Len(starts)
  BY <1>1, <1>2, <1>3, InOutputs, SMT
<1>5. starts[n] = Place[n] /\ body = SentBody
  BY <1>1, <1>4, InOutputs, Zenon DEF OutputsHeard
<1>6. want = Len(Meant.outputs[n].script)
  BY <1>3, <1>4, <1>5, PlaceFacts, Zenon
<1>7. at + want <= Len(body)
  BY <1>3, <1>4, <1>5, <1>6, PlaceFacts, Zenon
<1>8. PICK o : o = [script |-> Slice(body, at, want), value |-> value]
  OBVIOUS
<1>9. /\ UNCHANGED <<input, body, count, starts>>
      /\ result' = [result EXCEPT !.outputs = Append(result.outputs, o)]
      /\ state' = IF Len(result'.outputs) = count THEN "ok" ELSE "value"
  BY <1>7, <1>8, NoFail, Zenon DEF ReadScript
<1>10. o = Meant.outputs[n]
  <2>1. /\ Slice(body, at, want) = Meant.outputs[n].script
        /\ value = Meant.outputs[n].value
    BY <1>3, <1>4, <1>5, <1>6, PlaceFacts, Zenon
  <2>2. Meant.outputs[n] \in Output
    BY <1>4, PlaceFacts, Zenon
  <2>3. Meant.outputs[n] = [script |-> Meant.outputs[n].script,
                            value |-> Meant.outputs[n].value]
    BY <2>2, SMT DEF Output
  <2> QED BY <1>8, <2>1, <2>3, Zenon
<1>11. IsPayout(result) /\ IsPayout(Meant) /\ result.outputs \in Seq(Output)
  <2>1. IsPayout(result) /\ IsPayout(Meant)
    BY MeantFacts, Zenon DEF TypeOK, SentCoinbase
  <2> QED BY <2>1, SMT DEF IsPayout
<1>12. /\ result'.outputs = Append(result.outputs, o)
       /\ result'.primary_tag = result.primary_tag
       /\ result'.unique_id = result.unique_id
  BY <1>9, <1>11, SMT DEF IsPayout
<1>13. o \in Output
  BY <1>4, <1>10, PlaceFacts, Zenon
<1>14. /\ Len(result'.outputs) = n /\ result'.outputs[n] = o
       /\ \A i \in 1 .. n - 1 : result'.outputs[i] = result.outputs[i]
  <2>1. /\ Len(Append(result.outputs, o)) = Len(result.outputs) + 1
        /\ \A i \in 1 .. Len(result.outputs) :
             Append(result.outputs, o)[i] = result.outputs[i]
        /\ Append(result.outputs, o)[Len(result.outputs) + 1] = o
    BY <1>11, <1>13, AppendProperties, SMT
  <2>2. Len(result.outputs) = n - 1
    BY <1>1, <1>3, InOutputs, SMT
  <2> QED BY <1>3, <1>12, <2>1, <2>2, Zenon
<1>15. \A i \in 1 .. Len(result'.outputs) : result'.outputs[i] = Meant.outputs[i]
  <2> SUFFICES ASSUME NEW i \in 1 .. n PROVE result'.outputs[i] = Meant.outputs[i]
    BY <1>14, Zenon
  <2>1. CASE i = n
    BY <1>10, <1>14, <2>1, Zenon
  <2>2. CASE i # n
    <3>1. i \in 1 .. n - 1 /\ i \in 1 .. Len(result.outputs)
      BY <1>1, <1>3, <1>4, <2>2, InOutputs, SMT
    <3> QED BY <1>1, <1>14, <3>1, InOutputs, Zenon DEF OutputsHeard
  <2> QED BY <2>1, <2>2
<1>16. /\ count = Len(Meant.outputs)
       /\ \A i \in 1 .. Len(starts) : starts[i] = Place[i]
       /\ result'.primary_tag = Meant.primary_tag
       /\ result'.unique_id = Meant.unique_id
  BY <1>1, <1>12, InOutputs, Zenon DEF OutputsHeard
<1>17. CASE Len(result'.outputs) = count
  <2>1. IsPayout(result')
    <3>1. Append(result.outputs, o) \in Seq(Output)
      BY <1>11, <1>13, AppendProperties
    <3> QED BY <1>9, <1>11, <3>1, WithOutputs, Zenon
  <2>2. Len(result'.outputs) = Len(Meant.outputs)
    BY <1>16, <1>17
  <2>3. result' = Meant
    BY <1>11, <1>15, <1>16, <2>1, <2>2, PayoutEqual, Zenon
  <2> QED BY <1>9, <1>17, <2>3, SameSent, SMT
          DEF Heard, Fields, IdFields, OutputFields
<1>18. CASE Len(result'.outputs) # count
  <2>1. OutputsHeard'
    BY <1>9, <1>15, <1>16, SameSent, Zenon DEF OutputsHeard
  <2> QED BY <1>5, <1>9, <1>16, <1>18, <2>1, SameSent, SMT
          DEF Heard, Fields, IdFields, OutputFields
<1> QED BY <1>17, <1>18

LEMMA InitHeard == Init => HeardInv
<1> SUFFICES ASSUME Init PROVE input \in Input /\ Heard
  BY DEF HeardInv
<1> QED BY SMT DEF Init, Heard, Fields, IdFields, OutputFields

LEMMA NextHeard ==
  ASSUME TypeOK, CursorInv, HeardInv, [Next]_vars
  PROVE  HeardInv'
<1>1. input' = input
  BY Zenon DEF Next, vars, OpenCoinbase, ReadLength, ReadTag, ReadId, ReadCount,
               ReadValue, ReadScript, ParseClientConfig, ParseJobValidation,
               ParseShareResponse, ParseBlockNotify, ParseHandshake,
               ParseSubmitPow, Parse, Fails, Stop, Yield
<1> SUFFICES ASSUME SentCoinbase, Heard, input \in Input PROVE Heard'
  <2>1. SentCoinbase' => SentCoinbase
    BY <1>1, Zenon DEF SentCoinbase
  <2>2. input \in Input /\ input' \in Input
    BY <1>1, Zenon DEF HeardInv
  <2> QED BY <2>1, <2>2, Zenon DEF HeardInv
<1>2. CASE OpenCoinbase
  BY <1>2, OpenHeard, Zenon
<1>3. CASE \/ ReadLength("tagLen", "tag") \/ ReadLength("idLen", "id")
          \/ ReadLength("scriptLen", "script")
  BY <1>3, TagLenHeard, IdLenHeard, ScriptLenHeard, Zenon
<1>4. CASE ReadTag \/ ReadId \/ ReadCount \/ ReadValue \/ ReadScript
  BY <1>4, TagHeard, IdHeard, CountHeard, ValueHeard, ScriptHeard, Zenon
<1>5. CASE \/ ParseClientConfig \/ ParseJobValidation
          \/ ParseShareResponse \/ ParseBlockNotify
          \/ ParseHandshake \/ ParseSubmitPow
  <2>1. input.kind # "FetchCoinbaser"
    BY <1>5, Zenon DEF ParseClientConfig, ParseJobValidation, ParseShareResponse,
                       ParseBlockNotify, ParseHandshake, ParseSubmitPow, Parse
  <2> QED BY <2>1 DEF SentCoinbase
<1>6. CASE UNCHANGED vars
  BY <1>6, SameSent, Zenon DEF vars, Heard, OutputsHeard
<1> QED BY <1>2, <1>3, <1>4, <1>5, <1>6, Zenon DEF Next

\* The messages of fixed layout are understood in one step.
LEMMA NextUnderstood ==
  ASSUME input \in Input, SentIsUnderstood, input.kind # "FetchCoinbaser",
         CursorInv, [Next]_vars
  PROVE  SentIsUnderstood'
<1>1. CASE \/ ParseClientConfig \/ ParseJobValidation
          \/ ParseShareResponse \/ ParseBlockNotify
          \/ ParseHandshake \/ ParseSubmitPow
  <2>1. input' = input
    BY <1>1, Zenon DEF ParseClientConfig, ParseJobValidation, ParseShareResponse,
                       ParseBlockNotify, ParseHandshake, ParseSubmitPow, Parse,
                       Stop, Yield
  <2>2. input.sent # <<>> => Understood
    BY <1>1, ConfigUnderstood, ValidationUnderstood, ShareUnderstood,
       NotifyUnderstood, HandshakeUnderstood, AnswerUnderstood, Zenon
  <2> QED BY <2>1, <2>2, SMT DEF Understood, SentIsUnderstood
<1>2. CASE UNCHANGED vars
  BY <1>2, Zenon DEF vars, SentIsUnderstood
<1>3. CASE \/ OpenCoinbase
          \/ ReadLength("tagLen", "tag") \/ ReadLength("idLen", "id")
          \/ ReadLength("scriptLen", "script")
          \/ ReadTag \/ ReadId \/ ReadCount \/ ReadValue \/ ReadScript
  <2>1. state \in Fields => input.kind = "FetchCoinbaser"
    BY Zenon DEF CursorInv
  <2>2. state \notin Fields
    BY <2>1
  <2> QED BY <1>3, <2>2, SMT DEF OpenCoinbase, ReadLength, ReadTag, ReadId,
                                 ReadCount, ReadValue, ReadScript, Fields
<1> QED BY <1>1, <1>2, <1>3, Zenon DEF Next

\* A message that arrives as the pool sent it is understood: no parser refuses
\* it, none panics on it, and the result is what the pool meant, for every list
\* of outputs, share, job and key that has the layout, and every tag, id, reason
\* and message that is Unicode text.  A refusal without a reason is read as one
\* for an unknown error.
THEOREM SentCorrect == Spec => []SentIsUnderstood
<1>1. Init => TypeOK /\ CursorInv /\ HeardInv /\ SentIsUnderstood
  BY InitTypeOK, InitCursor, InitHeard, SMT DEF Init, SentIsUnderstood
<1>2. (TypeOK /\ CursorInv /\ HeardInv /\ SentIsUnderstood) /\ [Next]_vars
        => (TypeOK /\ CursorInv /\ HeardInv /\ SentIsUnderstood)'
  <2> SUFFICES ASSUME TypeOK, CursorInv, HeardInv, SentIsUnderstood, [Next]_vars
               PROVE  TypeOK' /\ CursorInv' /\ HeardInv' /\ SentIsUnderstood'
    OBVIOUS
  <2>1. TypeOK' /\ CursorInv' /\ HeardInv'
    BY NextTypeOK, NextCursor, NextHeard, Zenon
  <2>2. CASE input.kind = "FetchCoinbaser"
    <3>1. input' = input
      BY Zenon DEF Next, vars, OpenCoinbase, ReadLength, ReadTag, ReadId,
                   ReadCount, ReadValue, ReadScript, ParseClientConfig,
                   ParseJobValidation, ParseShareResponse, ParseBlockNotify,
                   ParseHandshake, ParseSubmitPow, Parse, Fails, Stop, Yield
    <3>2. input'.sent # <<>> => Heard'
      BY <2>1, <2>2, <3>1, Zenon DEF HeardInv, SentCoinbase
    <3>3. SentIsUnderstood'
      BY <3>2, Zenon DEF Heard, Meant, SentIsUnderstood
    <3> QED BY <2>1, <3>3
  <2>3. CASE input.kind # "FetchCoinbaser"
    BY <2>1, <2>3, NextUnderstood, Zenon DEF HeardInv
  <2> QED BY <2>1, <2>2, <2>3
<1> QED BY <1>1, <1>2, PTL DEF Spec
==============================================================================
