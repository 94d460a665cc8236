-------------------------- MODULE DatumClientProofs --------------------------
(***************************************************************************)
(* Theorems about DatumClient, for any number of tasks, connections,       *)
(* pushed commands and calls.                                              *)
(***************************************************************************)
EXTENDS DatumClient, DatumHeaderProofs, SequenceTheorems

USE TaskAssumption, CallAssumption, BoundsAssumption, NonceAssumption

LEMMA WordTables ==
  /\ RequestWord \in [Command -> Word]
  /\ AnswerWord \in [Command -> Word]
  /\ \A cmd \in Command : \A len : HeaderWord(cmd, len) \in Word
BY WordOfIsWord, Zenon DEF RequestWord, AnswerWord, HeaderWord

LEMMA NextNonceType == \A n \in Nonce \cup {NoNonce} : NextNonce(n) \in Nonce
BY SMT DEF NextNonce, Nonce, NoNonce

LEMMA TypeInit == Init => TypeOK
<1> SUFFICES ASSUME Init PROVE TypeOK
  OBVIOUS
<1>1. (CHOOSE c \in Client : TRUE) \in Client
  BY Zenon
<1>2. using \in [Task -> Client]
  BY <1>1, Zenon DEF Init, Task
<1>3. 0 \in Nonce /\ {} \in Word /\ NoReply \in Reply /\ 0 \in 0 .. MaxCalls
  BY SMT DEF Nonce, Word, NoReply, Reply, RequestId
<1> QED BY <1>2, <1>3, SMT DEF Init, TypeOK, Pc, Calls, Frame

LEMMA FrameFields ==
  \A f \in Frame : /\ f.cmd \in Command /\ f.word \in Word
                   /\ f.nonce \in Nonce \cup {NoNonce}
                   /\ f.id \in RequestId /\ f.body \in {"ok", "malformed"}
BY SMT DEF Frame

LEMMA HeadAndTail ==
  ASSUME NEW S, NEW s \in Seq(S), s # <<>>
  PROVE  Head(s) \in S /\ Tail(s) \in Seq(S)
BY SMT

LEMMA CallCommands == Calls \subseteq Command /\ "Handshake" \in Command
BY SMT DEF Calls, Command

LEMMA PoolFrameType ==
  ASSUME NEW c, NEW key \in Word, NEW cmd \in Command,
         NEW nonce \in Nonce \cup {NoNonce}, NEW id \in RequestId,
         NEW body \in {"ok", "malformed"}
  PROVE  PoolFrame(c, key, cmd, nonce, id, body) \in Frame
<1>1. Xor(AnswerWord[cmd], key) \in Word
  BY WordTables, XorWord, Zenon
<1> QED BY <1>1, SMT DEF PoolFrame, Frame

LEMMA PoolWriteType ==
  ASSUME TypeOK, NEW c \in Client, NEW cmd \in Command,
         NEW id \in RequestId, NEW body \in {"ok", "malformed"},
         PoolWrite(c, cmd, id, body)
  PROVE  /\ fromPool' \in [Client -> Seq(Frame)]
         /\ poolKey' \in [Client -> Word]
         /\ poolSend' \in [Client -> Nonce \cup {NoNonce}]
         /\ crossed' \in [Client -> BOOLEAN]
<1>1. /\ fromPool \in [Client -> Seq(Frame)]
      /\ poolKey \in [Client -> Word]
      /\ poolSend \in [Client -> Nonce \cup {NoNonce}]
      /\ crossed \in [Client -> BOOLEAN]
  BY Zenon DEF TypeOK
<1> DEFINE f == PoolFrame(c, poolKey[c], cmd, poolSend[c], id, body)
<1>2. f \in Frame /\ f.word \in Word
  <2>1. poolKey[c] \in Word /\ poolSend[c] \in Nonce \cup {NoNonce}
    BY <1>1, Zenon
  <2>2. f \in Frame
    BY <2>1, PoolFrameType, Zenon
  <2> QED BY <2>2, FrameFields, Zenon
<1>3. /\ fromPool' = [fromPool EXCEPT ![c] = Append(fromPool[c], f)]
      /\ poolKey' = [poolKey EXCEPT ![c] = f.word]
      /\ poolSend' = [poolSend EXCEPT ![c] = NextNonce(poolSend[c])]
  BY Zenon DEF PoolWrite
<1> HIDE DEF f
<1>4. fromPool' \in [Client -> Seq(Frame)]
  BY <1>1, <1>2, <1>3, SMT
<1>5. poolKey' \in [Client -> Word]
  BY <1>1, <1>2, <1>3, Zenon
<1>6. poolSend' \in [Client -> Nonce \cup {NoNonce}]
  BY <1>1, <1>3, NextNonceType, Zenon
<1>7. crossed' \in [Client -> BOOLEAN]
  BY <1>1, Zenon DEF PoolWrite
<1> QED BY <1>4, <1>5, <1>6, <1>7

LEMMA TypeNext == TypeOK /\ [Next]_vars => TypeOK'
<1> SUFFICES ASSUME TypeOK, [Next]_vars PROVE TypeOK'
  OBVIOUS
<1> USE DEF clientVars, wireVars, poolVars, taskVars, ghostVars
<1>streamLock. streamLock \in [Client -> Seq(Task)]
  BY Zenon DEF TypeOK
<1>headerKey. headerKey \in [Client -> Word]
  BY Zenon DEF TypeOK
<1>sendNonce. sendNonce \in [Client -> Nonce]
  BY Zenon DEF TypeOK
<1>recvNonce. recvNonce \in [Client -> Nonce]
  BY Zenon DEF TypeOK
<1>cipher. cipher \in [Client -> BOOLEAN]
  BY Zenon DEF TypeOK
<1>connected. connected \in [Client -> BOOLEAN]
  BY Zenon DEF TypeOK
<1>outgoing. outgoing \in [Client -> Seq(Frame)]
  BY Zenon DEF TypeOK
<1>link. link \in [Client -> {"none", "up", "down"}]
  BY Zenon DEF TypeOK
<1>toPool. toPool \in [Client -> Seq(Frame)]
  BY Zenon DEF TypeOK
<1>fromPool. fromPool \in [Client -> Seq(Frame)]
  BY Zenon DEF TypeOK
<1>poolKey. poolKey \in [Client -> Word]
  BY Zenon DEF TypeOK
<1>poolSend. poolSend \in [Client -> Nonce \cup {NoNonce}]
  BY Zenon DEF TypeOK
<1>poolRecv. poolRecv \in [Client -> Nonce \cup {NoNonce}]
  BY Zenon DEF TypeOK
<1>poolTodo. poolTodo \in [Client -> Seq(Todo)]
  BY Zenon DEF TypeOK
<1>pc. pc \in [Task -> Pc]
  BY Zenon DEF TypeOK
<1>using. using \in [Task -> Client]
  BY Zenon DEF TypeOK
<1>op. op \in [Task -> Calls]
  BY Zenon DEF TypeOK
<1>reply. reply \in [Task -> Reply]
  BY Zenon DEF TypeOK
<1>calls. calls \in [Task -> 0 .. MaxCalls]
  BY Zenon DEF TypeOK
<1>lost. lost \in [Client -> BOOLEAN]
  BY Zenon DEF TypeOK
<1>crossed. crossed \in [Client -> BOOLEAN]
  BY Zenon DEF TypeOK
<1>1. ASSUME NEW t \in Caller, NEW c \in Client, Dial(t, c)
      PROVE  TypeOK'
  <2>1. headerKey' \in [Client -> Word]
    <3>1. RequestWord["Handshake"] \in Word
      BY WordTables, CallCommands, Zenon
    <3>2. headerKey' = [headerKey EXCEPT ![c] = RequestWord["Handshake"]]
      BY <1>1, FeedbackIsInput, Zenon DEF Dial
    <3> QED BY <1>headerKey, <3>1, <3>2, Zenon
  <2>2. toPool' \in [Client -> Seq(Frame)]
    <3> DEFINE w == Xor(RequestWord["Handshake"], FirstKey[c])
               f == [cmd |-> "Handshake", word |-> w, nonce |-> NoNonce,
                     id |-> <<>>, body |-> "ok"]
    <3>1. w \in Word
      BY WordTables, CallCommands, KeyAssumption, XorWord, Zenon
    <3>2. f \in Frame
      BY <3>1, CallCommands, SMT DEF Frame, RequestId
    <3>3. toPool' = [toPool EXCEPT ![c] = <<f>>]
      BY <1>1, Zenon DEF Dial, ApplyHeaderXor
    <3> HIDE DEF f
    <3> QED BY <1>toPool, <3>2, <3>3, SMT
  <2>3. link' \in [Client -> {"none", "up", "down"}]
    BY <1>1, <1>link, Zenon DEF Dial
  <2>4. poolKey' \in [Client -> Word]
    BY <1>1, <1>poolKey, KeyAssumption, SMT DEF Dial
  <2>5. using' \in [Task -> Client]
    BY <1>1, <1>using, Zenon DEF Dial
  <2>6. pc' \in [Task -> Pc]
    BY <1>1, <1>pc, SMT DEF Dial, Pc, Task, Goto
  <2> QED BY <1>1, <2>1, <2>2, <2>3, <2>4, <2>5, <2>6, Zenon DEF TypeOK, Dial,
        Goto
<1>2. ASSUME NEW t \in Caller, NEW c \in Client, DialFails(t, c)
      PROVE  TypeOK'
  <2>1. link' \in [Client -> {"none", "up", "down"}]
    BY <1>2, <1>link, Zenon DEF DialFails
  <2> QED BY <1>2, <2>1, Zenon DEF TypeOK, DialFails
<1>3. ASSUME NEW t \in Caller, NEW c \in Client, NEW cmd \in Calls, Request(t, c, cmd)
      PROVE  TypeOK'
  <2>1. using' \in [Task -> Client]
    BY <1>3, <1>using, Zenon DEF Request
  <2>2. op' \in [Task -> Calls]
    BY <1>3, <1>op, Zenon DEF Request
  <2>3. calls' \in [Task -> 0 .. MaxCalls]
    <3>1. calls[t] \in 0 .. MaxCalls /\ calls[t] < MaxCalls
      BY <1>3, <1>calls, SMT DEF Request, Task
    <3>2. calls[t] + 1 \in 0 .. MaxCalls
      BY <3>1, SMT
    <3>3. calls' = [calls EXCEPT ![t] = calls[t] + 1]
      BY <1>3, Zenon DEF Request
    <3> QED BY <1>calls, <3>2, <3>3, Zenon
  <2>4. reply' \in [Task -> Reply]
    BY <1>3, <1>reply, SMT DEF Request, Reply, Task, NoReply, RequestId
  <2>5. pc' \in [Task -> Pc]
    BY <1>3, <1>pc, SMT DEF Request, Pc, Task, Goto
  <2>6. streamLock' \in [Client -> Seq(Task)]
    BY <1>3, <1>streamLock, SMT DEF Request, Task, Enqueue
  <2> QED BY <1>3, <2>1, <2>2, <2>3, <2>4, <2>5, <2>6, Zenon DEF TypeOK,
        Request, Goto, Enqueue
<1>4. ASSUME NEW t \in Task, FinishHandshake(t)
      PROVE  TypeOK'
  <2> DEFINE c == using[t]
  <2>1. c \in Client
    BY <1>using, Zenon
  <2>2. /\ Head(fromPool[c]) \in Frame
        /\ Tail(fromPool[c]) \in Seq(Frame)
    BY <1>4, <2>1, <1>fromPool, HeadAndTail, Zenon DEF FinishHandshake
  <2>3. headerKey' \in [Client -> Word]
    BY <1>4, <2>1, <1>headerKey, FeedbackIsInput, <2>2, FrameFields, Zenon DEF
          FinishHandshake
  <2>4. fromPool' \in [Client -> Seq(Frame)]
    BY <1>4, <2>1, <1>fromPool, <2>2, SMT DEF FinishHandshake
  <2>5. cipher' \in [Client -> BOOLEAN]
    BY <1>4, <2>1, <1>cipher, Zenon DEF FinishHandshake
  <2>6. sendNonce' \in [Client -> Nonce]
    BY <1>4, <2>1, <1>sendNonce, SMT DEF FinishHandshake, Nonce
  <2>7. recvNonce' \in [Client -> Nonce]
    BY <1>4, <2>1, <1>recvNonce, SMT DEF FinishHandshake, Nonce
  <2>8. connected' \in [Client -> BOOLEAN]
    BY <1>4, <2>1, <1>connected, Zenon DEF FinishHandshake
  <2>9. pc' \in [Task -> Pc]
    BY <1>4, <2>1, <1>pc, SMT DEF FinishHandshake, Pc, Task, Goto
  <2> QED BY <1>4, <2>3, <2>4, <2>5, <2>6, <2>7, <2>8, <2>9, Zenon DEF TypeOK,
        FinishHandshake, Goto
<1>5. ASSUME NEW t \in Task, HandshakeFails(t)
      PROVE  TypeOK'
  <2> DEFINE c == using[t]
  <2>1. c \in Client
    BY <1>using, Zenon
  <2>2. link' \in [Client -> {"none", "up", "down"}]
    BY <1>5, <2>1, <1>link, Zenon DEF HandshakeFails
  <2>3. pc' \in [Task -> Pc]
    BY <1>5, <2>1, <1>pc, SMT DEF HandshakeFails, Pc, Task, Goto
  <2> QED BY <1>5, <2>2, <2>3, Zenon DEF TypeOK, HandshakeFails, Goto
<1>6. ASSUME NEW t \in Task, SendPrepare(t)
      PROVE  TypeOK'
  <2> DEFINE c == using[t]
  <2>1. c \in Client
    BY <1>using, Zenon
  <2>req. op[t] \in Command /\ RequestWord[op[t]] \in Word
    BY <1>op, CallCommands, WordTables, Zenon
  <2>2. headerKey' \in [Client -> Word]
    <3>1. headerKey' = [headerKey EXCEPT ![c] = RequestWord[op[t]]]
      BY <1>6, FeedbackIsInput, Zenon DEF SendPrepare
    <3> QED BY <1>headerKey, <2>req, <3>1, Zenon
  <2>3. sendNonce' \in [Client -> Nonce]
    BY <1>6, <2>1, <1>sendNonce, NextNonceType, SMT DEF SendPrepare, Nonce
  <2>4. outgoing' \in [Client -> Seq(Frame)]
    <3> DEFINE n == IF cipher[c] THEN sendNonce[c] ELSE NoNonce
               w == Xor(RequestWord[op[t]], headerKey[c])
               f == [cmd |-> op[t], word |-> w, nonce |-> n,
                     id |-> <<t, calls[t]>>, body |-> "ok"]
    <3>1. w \in Word
      BY <2>1, <2>req, <1>headerKey, XorWord, Zenon
    <3>2. n \in Nonce \cup {NoNonce}
      BY <2>1, <1>sendNonce, Zenon
    <3>3. <<t, calls[t]>> \in RequestId
      BY <1>calls, SMT DEF RequestId
    <3>4. outgoing' = [outgoing EXCEPT ![c] = <<f>>]
      BY <1>6, Zenon DEF SendPrepare, ApplyHeaderXor
    <3> HIDE DEF n, w
    <3>5. f \in Frame
      BY <2>req, <3>1, <3>2, <3>3, SMT DEF Frame
    <3> HIDE DEF f
    <3> QED BY <2>1, <1>outgoing, <3>4, <3>5, SMT
  <2>5. crossed' \in [Client -> BOOLEAN]
    BY <1>6, <2>1, <1>crossed, Zenon DEF SendPrepare
  <2>6. pc' \in [Task -> Pc]
    BY <1>6, <2>1, <1>pc, SMT DEF SendPrepare, Pc, Task, Goto
  <2> QED BY <1>6, <2>2, <2>3, <2>4, <2>5, <2>6, Zenon DEF TypeOK, SendPrepare,
        Goto
<1>7. ASSUME NEW t \in Task, SendWrite(t)
      PROVE  TypeOK'
  <2> DEFINE c == using[t]
  <2>1. c \in Client
    BY <1>using, Zenon
  <2>2. toPool' \in [Client -> Seq(Frame)]
    <3>1. toPool[c] \o outgoing[c] \in Seq(Frame)
      BY <2>1, <1>toPool, <1>outgoing, SMT
    <3>2. \/ toPool' = toPool
          \/ toPool' = [toPool EXCEPT ![c] = toPool[c] \o outgoing[c]]
      BY <1>7, Zenon DEF SendWrite
    <3> QED BY <1>toPool, <3>1, <3>2, Zenon
  <2>3. outgoing' \in [Client -> Seq(Frame)]
    BY <1>7, <2>1, <1>outgoing, SMT DEF SendWrite
  <2>4. streamLock' \in [Client -> Seq(Task)]
    BY <1>7, <2>1, <1>streamLock, SMT DEF SendWrite, Task, Release, Holds
  <2>5. pc' \in [Task -> Pc]
    BY <1>7, <2>1, <1>pc, SMT DEF SendWrite, Pc, Task, Goto
  <2> QED BY <1>7, <2>2, <2>3, <2>4, <2>5, Zenon DEF TypeOK, SendWrite, Goto,
        Release
<1>8. ASSUME NEW t \in Task, SendFails(t)
      PROVE  TypeOK'
  <2> DEFINE c == using[t]
  <2>1. c \in Client
    BY <1>using, Zenon
  <2>2. outgoing' \in [Client -> Seq(Frame)]
    BY <1>8, <2>1, <1>outgoing, SMT DEF SendFails
  <2>3. streamLock' \in [Client -> Seq(Task)]
    BY <1>8, <2>1, <1>streamLock, SMT DEF SendFails, Task, Release, Holds
  <2>4. pc' \in [Task -> Pc]
    BY <1>8, <2>1, <1>pc, SMT DEF SendFails, Pc, Task, Goto, Fail
  <2>5. reply' \in [Task -> Reply]
    BY <1>8, <2>1, <1>reply, SMT DEF SendFails, Reply, Task, RequestId, Fail
  <2> QED BY <1>8, <2>2, <2>3, <2>4, <2>5, Zenon DEF TypeOK, SendFails, Goto,
        Fail, Release
<1>9. ASSUME NEW t \in Task, RecvCall(t)
      PROVE  TypeOK'
  <2> DEFINE c == using[t]
  <2>1. c \in Client
    BY <1>using, Zenon
  <2>2. pc' \in [Task -> Pc]
    BY <1>9, <2>1, <1>pc, SMT DEF RecvCall, Pc, Task, Goto
  <2>3. streamLock' \in [Client -> Seq(Task)]
    BY <1>9, <2>1, <1>streamLock, SMT DEF RecvCall, Task, Enqueue
  <2> QED BY <1>9, <2>2, <2>3, Zenon DEF TypeOK, RecvCall, Goto, Enqueue
<1>10. ASSUME NEW t \in Task, Receive(t)
      PROVE  TypeOK'
  <2> DEFINE c == using[t]
  <2>1. c \in Client
    BY <1>using, Zenon
  <2>2. /\ Head(fromPool[c]) \in Frame
        /\ Tail(fromPool[c]) \in Seq(Frame)
    BY <1>10, <2>1, <1>fromPool, HeadAndTail, Zenon DEF Receive, Readable
  <2>3. headerKey' \in [Client -> Word]
    <3>1. headerKey' = [headerKey EXCEPT ![c] = Head(fromPool[c]).word]
      BY <1>10, FeedbackIsInput, Zenon DEF Receive
    <3> QED BY <1>headerKey, <2>2, <3>1, FrameFields, Zenon
  <2>4. recvNonce' \in [Client -> Nonce]
    BY <1>10, <2>1, <1>recvNonce, NextNonceType, SMT DEF Receive, Nonce
  <2>5. fromPool' \in [Client -> Seq(Frame)]
    BY <1>10, <2>1, <1>fromPool, <2>2, SMT DEF Receive
  <2>6. streamLock' \in [Client -> Seq(Task)]
    BY <1>10, <2>1, <1>streamLock, SMT DEF Receive, Task, Release, Holds
  <2>7. pc' \in [Task -> Pc]
    BY <1>10, <2>1, <1>pc, SMT DEF Receive, Pc, Task, Goto
  <2>8. reply' \in [Task -> Reply]
    BY <1>10, <2>1, <1>reply, <2>2, FrameFields, SMT DEF Receive, Reply, Task,
          Outcome, RequestId
  <2> QED BY <1>10, <2>3, <2>4, <2>5, <2>6, <2>7, <2>8, Zenon DEF TypeOK,
        Receive, Goto, Release
<1>11. ASSUME NEW t \in Task, ReceiveGarbled(t)
      PROVE  TypeOK'
  <2> DEFINE c == using[t]
  <2>1. c \in Client
    BY <1>using, Zenon
  <2>2. /\ Head(fromPool[c]) \in Frame
        /\ Tail(fromPool[c]) \in Seq(Frame)
    BY <1>11, <2>1, <1>fromPool, HeadAndTail, Zenon DEF ReceiveGarbled
  <2>3. headerKey' \in [Client -> Word]
    <3>1. PICK key \in IF lost[c] THEN {NoiseWord, Head(fromPool[c]).word}
                                  ELSE {Head(fromPool[c]).word} :
            headerKey' = [headerKey EXCEPT ![c] = ApplyHeaderXor(key, @).key]
      BY <1>11, Zenon DEF ReceiveGarbled
    <3>2. key \in Word
      BY <2>2, FrameFields, KeyAssumption, Zenon
    <3>3. headerKey' = [headerKey EXCEPT ![c] = key]
      BY <3>1, FeedbackIsInput, Zenon
    <3> QED BY <1>headerKey, <3>2, <3>3, Zenon
  <2>4. fromPool' \in [Client -> Seq(Frame)]
    BY <1>11, <2>1, <1>fromPool, <2>2, SMT DEF ReceiveGarbled
  <2>5. recvNonce' \in [Client -> Nonce]
    <3>1. \/ recvNonce' = [recvNonce EXCEPT ![c] = NextNonce(recvNonce[c])]
          \/ recvNonce' = [recvNonce EXCEPT ![c] = recvNonce[c]]
      BY <1>11, Zenon DEF ReceiveGarbled
    <3>2. recvNonce[c] \in Nonce /\ NextNonce(recvNonce[c]) \in Nonce
      BY <2>1, <1>recvNonce, NextNonceType, Zenon
    <3> HIDE DEF c
    <3> QED BY <1>recvNonce, <3>1, <3>2, SMT
  <2>6. lost' \in [Client -> BOOLEAN]
    BY <1>11, <2>1, <1>lost, Zenon DEF ReceiveGarbled
  <2>7. streamLock' \in [Client -> Seq(Task)]
    BY <1>11, <2>1, <1>streamLock, SMT DEF ReceiveGarbled, Task, Release, Holds
  <2>8. pc' \in [Task -> Pc]
    BY <1>11, <2>1, <1>pc, SMT DEF ReceiveGarbled, Pc, Task, Goto, Fail
  <2>9. reply' \in [Task -> Reply]
    BY <1>11, <2>1, <1>reply, SMT DEF ReceiveGarbled, Reply, Task, RequestId, Fail
  <2> QED BY <1>11, <2>3, <2>4, <2>5, <2>6, <2>7, <2>8, <2>9, Zenon DEF TypeOK,
        ReceiveGarbled, Goto, Fail, Release
<1>12. ASSUME NEW t \in Task, ReceiveEof(t)
      PROVE  TypeOK'
  <2> DEFINE c == using[t]
  <2>1. c \in Client
    BY <1>using, Zenon
  <2>2. streamLock' \in [Client -> Seq(Task)]
    BY <1>12, <2>1, <1>streamLock, SMT DEF ReceiveEof, Task, Release, Holds
  <2>3. pc' \in [Task -> Pc]
    BY <1>12, <2>1, <1>pc, SMT DEF ReceiveEof, Pc, Task, Goto, Fail
  <2>4. reply' \in [Task -> Reply]
    BY <1>12, <2>1, <1>reply, SMT DEF ReceiveEof, Reply, Task, RequestId, Fail
  <2> QED BY <1>12, <2>2, <2>3, <2>4, Zenon DEF TypeOK, ReceiveEof, Goto, Fail,
        Release
<1>13. ASSUME NEW t \in Task, Return(t)
      PROVE  TypeOK'
  <2> DEFINE c == using[t]
  <2>1. c \in Client
    BY <1>using, Zenon
  <2>2. pc' \in [Task -> Pc]
    BY <1>13, <2>1, <1>pc, SMT DEF Return, Pc, Task, Goto
  <2> QED BY <1>13, <2>2, Zenon DEF TypeOK, Return, Goto
<1>14. ASSUME NEW c \in Client, SpawnLoop(c)
      PROVE  TypeOK'
  <2>1. pc' \in [Task -> Pc]
    BY <1>14, <1>pc, SMT DEF SpawnLoop, Pc, Task, Goto
  <2> QED BY <1>14, <2>1, Zenon DEF TypeOK, SpawnLoop, Goto
<1>15. ASSUME NEW c \in Client, PoolGreet(c)
      PROVE  TypeOK'
  <2>1. /\ Head(toPool[c]) \in Frame
        /\ Tail(toPool[c]) \in Seq(Frame)
    BY <1>15, <1>toPool, HeadAndTail, Zenon DEF PoolGreet
  <2> DEFINE key == Xor(Head(toPool[c]).word, poolKey[c])
             f(body) == PoolFrame(c, key, "Handshake", NoNonce, <<>>, body)
  <2>2. PICK body \in {"ok", "malformed"} :
          /\ fromPool' = [fromPool EXCEPT ![c] = Append(@, f(body))]
          /\ poolKey' = [poolKey EXCEPT ![c] = f(body).word]
    BY <1>15, Zenon DEF PoolGreet
  <2>3. key \in Word
    BY <2>1, <1>poolKey, FrameFields, XorWord, Zenon
  <2>4. <<>> \in RequestId
    BY Zenon DEF RequestId
  <2>5. f(body) \in Frame
    BY <2>3, <2>4, PoolFrameType, CallCommands, Zenon
  <2> HIDE DEF key, f
  <2>6. fromPool' \in [Client -> Seq(Frame)]
    BY <1>fromPool, <2>2, <2>5, SMT
  <2>7. poolKey' \in [Client -> Word]
    BY <1>poolKey, <2>2, <2>5, FrameFields, Zenon
  <2>8. toPool' \in [Client -> Seq(Frame)]
    BY <1>15, <1>toPool, <2>1, Zenon DEF PoolGreet
  <2>9. /\ poolSend' \in [Client -> Nonce \cup {NoNonce}]
        /\ poolRecv' \in [Client -> Nonce \cup {NoNonce}]
    BY <1>15, <1>poolSend, <1>poolRecv, Zenon DEF PoolGreet, Nonce
  <2> QED BY <1>15, <2>6, <2>7, <2>8, <2>9, Zenon DEF TypeOK, PoolGreet
<1>16. ASSUME NEW c \in Client, PoolTake(c)
      PROVE  TypeOK'
  <2>1. /\ Head(toPool[c]) \in Frame
        /\ Tail(toPool[c]) \in Seq(Frame)
    BY <1>16, <1>toPool, HeadAndTail, Zenon DEF PoolTake
  <2> DEFINE f == Head(toPool[c])
             todo == [cmd |-> f.cmd, id |-> f.id]
  <2>2. poolKey' \in [Client -> Word]
    <3>1. Xor(f.word, poolKey[c]) \in Word
      BY <2>1, <1>poolKey, FrameFields, XorWord, Zenon
    <3> QED BY <1>16, <1>poolKey, <3>1, Zenon DEF PoolTake
  <2>3. poolTodo' \in [Client -> Seq(Todo)]
    <3>1. f.cmd \in Command /\ f.id \in RequestId
      BY <2>1, FrameFields, Zenon
    <3>2. todo \in Todo
      BY <3>1, SMT DEF Todo
    <3>3. poolTodo' = [poolTodo EXCEPT ![c] = Append(poolTodo[c], todo)]
      BY <1>16, Zenon DEF PoolTake
    <3> HIDE DEF todo
    <3> QED BY <1>poolTodo, <3>2, <3>3, SMT
  <2>4. poolRecv' \in [Client -> Nonce \cup {NoNonce}]
    BY <1>16, <1>poolRecv, NextNonceType, Zenon DEF PoolTake
  <2>5. toPool' \in [Client -> Seq(Frame)]
    BY <1>16, <1>toPool, <2>1, Zenon DEF PoolTake
  <2> QED BY <1>16, <2>2, <2>3, <2>4, <2>5, Zenon DEF TypeOK, PoolTake
<1>17. ASSUME NEW c \in Client, PoolAnswer(c)
      PROVE  TypeOK'
  <2>1. /\ Head(poolTodo[c]) \in Todo
        /\ Tail(poolTodo[c]) \in Seq(Todo)
    BY <1>17, <1>poolTodo, HeadAndTail, Zenon DEF PoolAnswer
  <2>2. Head(poolTodo[c]).cmd \in Command /\ Head(poolTodo[c]).id \in RequestId
    BY <2>1, SMT DEF Todo
  <2>3. PICK body \in {"ok", "malformed"} :
          PoolWrite(c, Head(poolTodo[c]).cmd, Head(poolTodo[c]).id, body)
    BY <1>17, Zenon DEF PoolAnswer
  <2>4. /\ fromPool' \in [Client -> Seq(Frame)]
        /\ poolKey' \in [Client -> Word]
        /\ poolSend' \in [Client -> Nonce \cup {NoNonce}]
        /\ crossed' \in [Client -> BOOLEAN]
    BY <2>2, <2>3, PoolWriteType, Zenon
  <2>5. poolTodo' \in [Client -> Seq(Todo)]
    BY <1>17, <1>poolTodo, <2>1, Zenon DEF PoolAnswer
  <2> QED BY <2>3, <2>4, <2>5, Zenon DEF TypeOK, PoolWrite
<1>18. ASSUME NEW c \in Client, PoolPush(c)
      PROVE  TypeOK'
  <2>1. PICK cmd \in Push : PoolWrite(c, cmd, <<>>, "ok")
    BY <1>18, Zenon DEF PoolPush
  <2>2. <<>> \in RequestId
    BY Zenon DEF RequestId
  <2>3. /\ fromPool' \in [Client -> Seq(Frame)]
        /\ poolKey' \in [Client -> Word]
        /\ poolSend' \in [Client -> Nonce \cup {NoNonce}]
        /\ crossed' \in [Client -> BOOLEAN]
    BY <2>1, <2>2, PushAssumption, PoolWriteType, Zenon
  <2> QED BY <1>18, <2>1, <2>3, Zenon DEF TypeOK, PoolPush, PoolWrite
<1>19. ASSUME NEW c \in Client, PoolClose(c)
      PROVE  TypeOK'
  <2>1. <<>> \in Seq(Frame)
    BY SMT
  <2>2. link' \in [Client -> {"none", "up", "down"}]
    BY <1>19, <1>link, Zenon DEF PoolClose
  <2>3. toPool' \in [Client -> Seq(Frame)]
    BY <1>19, <1>toPool, <2>1, Zenon DEF PoolClose
  <2>4. fromPool' \in [Client -> Seq(Frame)]
    BY <1>19, <1>fromPool, <2>1, Zenon DEF PoolClose
  <2> QED BY <1>19, <2>2, <2>3, <2>4, Zenon DEF TypeOK, PoolClose
<1>20. CASE UNCHANGED vars
  BY <1>20, Zenon DEF TypeOK, vars
<1> QED
  BY <1>1, <1>2, <1>3, <1>4, <1>5, <1>6, <1>7, <1>8, <1>9, <1>10, <1>11, <1>12,
        <1>13, <1>14, <1>15, <1>16, <1>17, <1>18, <1>19, <1>20, Zenon DEF Next,
        Step
(***************************************************************************)
(* Every variable keeps its type, in particular: a frame is written and    *)
(* read with a nonce of the nonce space, and a header with a 32-bit word.  *)
(***************************************************************************)
THEOREM TypeCorrect == Spec => []TypeOK
<1>1. Init => TypeOK
  BY TypeInit
<1>2. TypeOK /\ [Next]_vars => TypeOK'
  BY TypeNext
<1> QED BY <1>1, <1>2, PTL DEF Spec
==============================================================================
