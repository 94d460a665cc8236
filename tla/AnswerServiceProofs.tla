------------------------- MODULE AnswerServiceProofs --------------------------
(***************************************************************************)
(* DatumClient implements AnswerService, for any number of tasks,          *)
(* connections, pushed commands and calls: every step of a task, of the    *)
(* receive loop, of the pool or of the network is one step of the service, *)
(* or none.  From this follows that a caller whose calls overlap with no   *)
(* other is handed the answers to its own requests (OwnReply), if the pool *)
(* sends nothing unasked.                                                  *)
(***************************************************************************)
EXTENDS DatumNonceProofs, FiniteSetTheorems

USE TaskAssumption

(***************************************************************************)
(* The names of the messages in a queue.                                   *)
(***************************************************************************)
Named(S) == \A x \in S : x.id \in RequestId

LEMMA FramesNamed == Named(Frame) /\ Named(Todo)
BY SMT DEF Named, Frame, Todo

LEMMA IdsEach ==
  ASSUME NEW S, Named(S), NEW s \in Seq(S)
  PROVE  /\ Ids(s) \in Seq(RequestId)
         /\ Len(Ids(s)) = Len(s)
         /\ \A i \in 1 .. Len(s) : Ids(s)[i] = s[i].id
<1>1. DOMAIN s = 1 .. Len(s) /\ Len(s) \in Nat
  BY LenProperties
<1>2. \A i \in 1 .. Len(s) : s[i].id \in RequestId
  BY ElementOfSeq, Zenon DEF Named
<1>3. Ids(s) = [i \in 1 .. Len(s) |-> s[i].id]
  BY <1>1, Zenon DEF Ids
<1>4. Ids(s) \in [1 .. Len(s) -> RequestId]
  BY <1>2, <1>3, Zenon
<1>5. Ids(s) \in Seq(RequestId)
  BY <1>1, <1>4, SeqDef, Zenon
<1>6. DOMAIN Ids(s) = 1 .. Len(Ids(s)) /\ Len(Ids(s)) \in Nat
  BY <1>5, LenProperties
<1>7. Len(Ids(s)) = Len(s)
  BY <1>1, <1>4, <1>6, SMT
<1> QED BY <1>3, <1>5, <1>7, Zenon

LEMMA IdsEmpty == Ids(<<>>) = <<>>
<1>1. <<>> \in Seq(Frame) /\ Len(<<>>) = 0
  BY EmptySeq
<1>2. Ids(<<>>) \in Seq(RequestId) /\ Len(Ids(<<>>)) = 0
  BY <1>1, FramesNamed, IdsEach
<1> QED BY <1>2, EmptySeq, SMT

LEMMA IdsNonEmpty ==
  ASSUME NEW S, Named(S), NEW s \in Seq(S), s # <<>>
  PROVE  Ids(s) # <<>> /\ Head(Ids(s)) = Head(s).id
<1>1. Len(s) \in Nat \ {0}
  BY EmptySeq
<1>2. Ids(s) \in Seq(RequestId) /\ Len(Ids(s)) = Len(s) /\ Ids(s)[1] = s[1].id
  BY <1>1, IdsEach, SMT
<1>3. Ids(s) # <<>>
  BY <1>1, <1>2, EmptySeq, SMT
<1>4. Head(Ids(s)) = Ids(s)[1] /\ Head(s) = s[1]
  BY SMT
<1> QED BY <1>2, <1>3, <1>4, Zenon

LEMMA IdsAppend ==
  ASSUME NEW S, Named(S), NEW s \in Seq(S), NEW x \in S
  PROVE  Ids(Append(s, x)) = Append(Ids(s), x.id)
<1>1. /\ Append(s, x) \in Seq(S) /\ Len(Append(s, x)) = Len(s) + 1
      /\ \A i \in 1 .. Len(s) : Append(s, x)[i] = s[i]
      /\ Append(s, x)[Len(s) + 1] = x
  BY AppendProperties
<1>2. /\ Ids(s) \in Seq(RequestId) /\ Len(Ids(s)) = Len(s)
      /\ \A i \in 1 .. Len(s) : Ids(s)[i] = s[i].id
  BY IdsEach
<1>3. /\ Ids(Append(s, x)) \in Seq(RequestId)
      /\ Len(Ids(Append(s, x))) = Len(s) + 1
      /\ \A i \in 1 .. Len(s) + 1 : Ids(Append(s, x))[i] = Append(s, x)[i].id
  BY <1>1, IdsEach, Zenon
<1>4. x.id \in RequestId
  BY DEF Named
<1>5. /\ Append(Ids(s), x.id) \in Seq(RequestId)
      /\ Len(Append(Ids(s), x.id)) = Len(s) + 1
      /\ \A i \in 1 .. Len(s) : Append(Ids(s), x.id)[i] = s[i].id
      /\ Append(Ids(s), x.id)[Len(s) + 1] = x.id
  <2> DEFINE q == Ids(s)
             y == x.id
  <2>1. q \in Seq(RequestId) /\ y \in RequestId /\ Len(q) = Len(s)
    BY <1>2, <1>4
  <2>2. \A i \in 1 .. Len(s) : q[i] = s[i].id
    BY <1>2
  <2> HIDE DEF q, y
  <2>3. /\ Append(q, y) \in Seq(RequestId) /\ Len(Append(q, y)) = Len(q) + 1
        /\ \A i \in 1 .. Len(q) : Append(q, y)[i] = q[i]
        /\ Append(q, y)[Len(q) + 1] = y
    BY <2>1, AppendProperties
  <2>4. /\ Append(q, y) \in Seq(RequestId) /\ Len(Append(q, y)) = Len(s) + 1
        /\ \A i \in 1 .. Len(s) : Append(q, y)[i] = s[i].id
        /\ Append(q, y)[Len(s) + 1] = y
    BY <2>1, <2>2, <2>3, Zenon
  <2> QED BY <2>4 DEF q, y
<1>6. \A i \in 1 .. Len(s) + 1 : i \in 1 .. Len(s) \/ i = Len(s) + 1
  BY LenProperties, SMT
<1>7. \A i \in 1 .. Len(s) + 1 : Ids(Append(s, x))[i] = Append(Ids(s), x.id)[i]
  BY <1>1, <1>3, <1>5, <1>6, Zenon
<1> QED BY <1>3, <1>5, <1>7, SeqEqual, Zenon

\* What is left of a queue when its n oldest messages are taken.
After(s, n) == SubSeq(s, n + 1, Len(s))

LEMMA AfterType ==
  ASSUME NEW S, NEW s \in Seq(S), NEW n \in 0 .. Len(s)
  PROVE  /\ After(s, n) \in Seq(S) /\ Len(After(s, n)) = Len(s) - n
         /\ \A i \in 1 .. Len(s) - n : After(s, n)[i] = s[n + i]
<1>1. Len(s) \in Nat /\ n \in Nat /\ n <= Len(s)
  BY LenProperties, SMT
<1>2. n + 1 \in Int /\ Len(s) \in Int /\ \A i \in n + 1 .. Len(s) : s[i] \in S
  BY <1>1, ElementOfSeq, SMT
<1>3. /\ After(s, n) \in Seq(S)
      /\ Len(After(s, n)) = IF n + 1 <= Len(s) THEN Len(s) - (n + 1) + 1 ELSE 0
      /\ \A i \in 1 .. Len(s) - (n + 1) + 1 : After(s, n)[i] = s[(n + 1) + i - 1]
  BY <1>2, SubSeqProperties, SMT DEF After
<1> QED BY <1>1, <1>3, SMT

LEMMA IdsAfter ==
  ASSUME NEW S, Named(S), NEW s \in Seq(S), NEW n \in 0 .. Len(s)
  PROVE  Ids(After(s, n)) = After(Ids(s), n)
<1>1. /\ After(s, n) \in Seq(S) /\ Len(After(s, n)) = Len(s) - n
      /\ \A i \in 1 .. Len(s) - n : After(s, n)[i] = s[n + i]
  BY AfterType
<1>2. /\ Ids(s) \in Seq(RequestId) /\ Len(Ids(s)) = Len(s)
      /\ \A i \in 1 .. Len(s) : Ids(s)[i] = s[i].id
  BY IdsEach
<1>3. /\ After(Ids(s), n) \in Seq(RequestId)
      /\ Len(After(Ids(s), n)) = Len(s) - n
      /\ \A i \in 1 .. Len(s) - n : After(Ids(s), n)[i] = Ids(s)[n + i]
  BY <1>2, AfterType, SMT
<1>4. /\ Ids(After(s, n)) \in Seq(RequestId)
      /\ Len(Ids(After(s, n))) = Len(s) - n
      /\ \A i \in 1 .. Len(s) - n : Ids(After(s, n))[i] = After(s, n)[i].id
  BY <1>1, IdsEach, Zenon
<1>5. \A i \in 1 .. Len(s) - n : n + i \in 1 .. Len(s)
  BY LenProperties, SMT
<1>6. \A i \in 1 .. Len(s) - n : Ids(After(s, n))[i] = After(Ids(s), n)[i]
  BY <1>1, <1>2, <1>3, <1>4, <1>5, Zenon
<1> QED BY <1>3, <1>4, <1>6, SeqEqual, Zenon

\* The oldest message is taken.
LEMMA AfterOne ==
  ASSUME NEW S, NEW s \in Seq(S), s # <<>>
  PROVE  /\ 1 \in 1 .. Len(s) /\ 1 \in 0 .. Len(s)
         /\ Tail(s) = After(s, 1)
<1>1. Len(s) \in Nat \ {0}
  BY EmptySeq
<1>2. Tail(s) = SubSeq(s, 2, Len(s))
  BY TailIsSubSeq
<1>3. 1 + 1 = 2 /\ 1 \in 1 .. Len(s) /\ 1 \in 0 .. Len(s)
  BY <1>1, SMT
<1> QED BY <1>2, <1>3, Zenon DEF After

LEMMA IdsTail ==
  ASSUME NEW S, Named(S), NEW s \in Seq(S), s # <<>>
  PROVE  Ids(Tail(s)) = Tail(Ids(s))
<1>1. 1 \in 0 .. Len(s) /\ Tail(s) = After(s, 1)
  BY AfterOne
<1>2. Ids(s) \in Seq(RequestId) /\ Ids(s) # <<>>
  BY IdsEach, IdsNonEmpty, Zenon
<1>3. Tail(Ids(s)) = After(Ids(s), 1)
  BY <1>2, AfterOne, Zenon
<1> QED BY <1>1, <1>3, IdsAfter, Zenon

(***************************************************************************)
(* How the state of the service moves with the variables it is made of.    *)
(***************************************************************************)
LEMMA ConnQueues ==
  ASSUME TypeOK, NEW c \in Client
  PROVE  /\ fromPool[c] \in Seq(Frame) /\ toPool[c] \in Seq(Frame)
         /\ poolTodo[c] \in Seq(Todo)
         /\ Ids(fromPool[c]) \in Seq(RequestId)
         /\ Ids(toPool[c]) \in Seq(RequestId)
         /\ Ids(poolTodo[c]) \in Seq(RequestId)
         /\ Ready[c] = Ids(fromPool[c])
         /\ Len(Ready[c]) = Len(fromPool[c])
         /\ Owed[c] = IF link[c] = "up"
                        THEN Ids(poolTodo[c]) \o Ids(toPool[c]) ELSE <<>>
<1>1. /\ fromPool[c] \in Seq(Frame) /\ toPool[c] \in Seq(Frame)
      /\ poolTodo[c] \in Seq(Todo)
  BY Zenon DEF TypeOK
<1>2. /\ Ids(fromPool[c]) \in Seq(RequestId)
      /\ Len(Ids(fromPool[c])) = Len(fromPool[c])
      /\ Ids(toPool[c]) \in Seq(RequestId)
      /\ Ids(poolTodo[c]) \in Seq(RequestId)
  BY <1>1, FramesNamed, IdsEach, Zenon
<1>3. /\ Ready[c] = Ids(fromPool[c])
      /\ Owed[c] = IF link[c] = "up"
                     THEN Ids(poolTodo[c]) \o Ids(toPool[c]) ELSE <<>>
  BY Zenon DEF Ready, Owed
<1> QED BY <1>1, <1>2, <1>3, Zenon

LEMMA ReadyMoves ==
  ASSUME TypeOK, NEW c \in Client, NEW s, fromPool' = [fromPool EXCEPT ![c] = s]
  PROVE  Ready' = [Ready EXCEPT ![c] = Ids(s)]
<1>1. fromPool \in [Client -> Seq(Frame)]
  BY DEF TypeOK
<1>2. Ready' = [d \in Client |-> Ids(fromPool'[d])]
  BY DEF Ready
<1>3. \A d \in Client : fromPool'[d] = IF d = c THEN s ELSE fromPool[d]
  BY <1>1, Zenon
<1>4. Ready = [d \in Client |-> Ids(fromPool[d])]
  BY DEF Ready
<1>5. \A d \in Client :
        Ids(fromPool'[d]) = IF d = c THEN Ids(s) ELSE Ids(fromPool[d])
  <2> TAKE d \in Client
  <2>1. CASE d = c
    <3>1. fromPool'[d] = s
      BY <1>3, <2>1, Zenon
    <3> QED BY <2>1, <3>1, SMT
  <2>2. CASE d # c
    <3>1. fromPool'[d] = fromPool[d]
      BY <1>3, <2>2, Zenon
    <3> QED BY <2>2, <3>1, SMT
  <2> QED BY <2>1, <2>2
<1> QED BY <1>2, <1>4, <1>5, SMT

LEMMA OwedMoves ==
  ASSUME TypeOK, NEW c \in Client,
         \A d \in Client : d # c => /\ link'[d] = link[d]
                                    /\ poolTodo'[d] = poolTodo[d]
                                    /\ toPool'[d] = toPool[d]
  PROVE  Owed' = [Owed EXCEPT ![c] =
           IF link'[c] = "up" THEN Ids(poolTodo'[c]) \o Ids(toPool'[c]) ELSE <<>>]
<1> DEFINE q == IF link'[c] = "up" THEN Ids(poolTodo'[c]) \o Ids(toPool'[c])
                                   ELSE <<>>
<1>1. Owed' = [d \in Client |-> IF link'[d] = "up"
                 THEN Ids(poolTodo'[d]) \o Ids(toPool'[d]) ELSE <<>>]
  BY DEF Owed
<1>2. \A d \in Client : Owed'[d] = IF d = c THEN q ELSE Owed[d]
  BY <1>1, Zenon DEF Owed
<1>3. DOMAIN Owed' = Client /\ DOMAIN Owed = Client
  BY <1>1, Zenon DEF Owed
<1>4. Owed' = [d \in Client |-> Owed'[d]] /\ Owed = [d \in Client |-> Owed[d]]
  BY <1>1, Zenon DEF Owed
<1> HIDE DEF q
<1>5. Owed' = [Owed EXCEPT ![c] = q]
  BY <1>2, <1>4, SMT
<1> QED BY <1>5 DEF q

LEMMA StagesMove ==
  ASSUME TypeOK, NEW t \in Task, NEW l, pc' = [pc EXCEPT ![t] = l]
  PROVE  /\ t \in Caller => Stages' = [Stages EXCEPT ![t] = Stage(l)]
         /\ t \in Client => Stages' = Stages
<1>1. pc \in [Task -> Pc]
  BY DEF TypeOK
<1>2. /\ Stages' = [u \in Caller |-> Stage(pc'[u])]
      /\ Stages = [u \in Caller |-> Stage(pc[u])]
  BY DEF Stages
<1>3. \A u \in Caller : pc'[u] = IF u = t THEN l ELSE pc[u]
  BY <1>1, Zenon DEF Task
<1>4. \A u \in Caller : Stage(pc'[u]) = IF u = t THEN Stage(l) ELSE Stage(pc[u])
  <2> TAKE u \in Caller
  <2>1. CASE u = t
    <3>1. pc'[u] = l
      BY <1>3, <2>1, Zenon
    <3> QED BY <2>1, <3>1, SMT
  <2>2. CASE u # t
    <3>1. pc'[u] = pc[u]
      BY <1>3, <2>2, Zenon
    <3> QED BY <2>2, <3>1, SMT
  <2> QED BY <2>1, <2>2
<1>5. t \in Client => \A u \in Caller : u # t
  BY Zenon
<1> QED BY <1>2, <1>4, <1>5, SMT

LEMMA CallerValues ==
  ASSUME NEW t \in Caller
  PROVE  /\ Stages[t] = Stage(pc[t]) /\ Via[t] = using[t]
         /\ Numbers[t] = calls[t]
BY Zenon DEF Stages, Via, Numbers

LEMMA ReturnedMoves ==
  ASSUME TypeOK, NEW t \in Caller, NEW r, reply' = [reply EXCEPT ![t] = r]
  PROVE  Returned' = [Returned EXCEPT ![t] = r]
<1>1. reply \in [Task -> Reply]
  BY DEF TypeOK
<1>2. \A u \in Caller : reply'[u] = IF u = t THEN r ELSE reply[u]
  BY <1>1, Zenon DEF Task
<1>3. /\ Returned' = [u \in Caller |-> reply'[u]]
      /\ Returned = [u \in Caller |-> reply[u]]
  BY DEF Returned
<1> QED BY <1>2, <1>3, SMT

LEMMA ViaMoves ==
  ASSUME TypeOK, NEW t \in Caller, NEW c, using' = [using EXCEPT ![t] = c]
  PROVE  Via' = [Via EXCEPT ![t] = c]
<1>1. using \in [Task -> Client]
  BY DEF TypeOK
<1>2. \A u \in Caller : using'[u] = IF u = t THEN c ELSE using[u]
  BY <1>1, Zenon DEF Task
<1>3. /\ Via' = [u \in Caller |-> using'[u]]
      /\ Via = [u \in Caller |-> using[u]]
  BY DEF Via
<1> QED BY <1>2, <1>3, SMT

LEMMA NumbersMove ==
  ASSUME TypeOK, NEW t \in Caller, calls' = [calls EXCEPT ![t] = calls[t] + 1]
  PROVE  Numbers' = [Numbers EXCEPT ![t] = Numbers[t] + 1]
<1>1. calls \in [Task -> 0 .. MaxCalls]
  BY DEF TypeOK
<1> DEFINE n == calls[t] + 1
<1>2. \A u \in Caller : calls'[u] = IF u = t THEN n ELSE calls[u]
  BY <1>1, Zenon DEF Task
<1>3. Numbers[t] + 1 = n
  BY CallerValues, Zenon
<1> HIDE DEF n
<1>4. /\ Numbers' = [u \in Caller |-> calls'[u]]
      /\ Numbers = [u \in Caller |-> calls[u]]
  BY DEF Numbers
<1>5. Numbers' = [Numbers EXCEPT ![t] = n]
  BY <1>2, <1>4, SMT
<1> QED BY <1>3, <1>5

\* What a step leaves alone.
LEMMA Unmoved ==
  /\ UNCHANGED connected => Greeted' = Greeted
  /\ UNCHANGED lost => Garbled' = Garbled
  /\ UNCHANGED fromPool => Ready' = Ready
  /\ UNCHANGED <<link, poolTodo, toPool>> => Owed' = Owed
  /\ UNCHANGED pc => Stages' = Stages
  /\ UNCHANGED using => Via' = Via
  /\ UNCHANGED calls => Numbers' = Numbers
  /\ UNCHANGED reply => Returned' = Returned
BY Zenon DEF Greeted, Garbled, Ready, Owed, Stages, Via, Numbers, Returned

(***************************************************************************)
(* What the refinement rests on, besides NonceInv: a label belongs to a    *)
(* caller or to a loop, nobody asks before the pool has greeted, and what  *)
(* is being written is the request of the task that holds the lock.        *)
(***************************************************************************)
LabelsOfTasks ==
  /\ \A t \in Caller : pc[t] \notin {"off", "loop", "stopped"}
  /\ \A c \in Client : pc[c] \in {"off", "loop", "recvLock", "stopped"}

HelloFirst ==
  \A c \in Client : poolSend[c] = NoNonce =>
    /\ poolTodo[c] = <<>>
    /\ \A i \in DOMAIN toPool[c] : toPool[c][i].id = <<>>

WritesOwnRequest ==
  \A t \in Task : pc[t] = "writing" =>
    /\ Holds(t, using[t])
    /\ Len(outgoing[using[t]]) = 1
    /\ outgoing[using[t]][1].id = <<t, calls[t]>>

CallInv == LabelsOfTasks /\ HelloFirst /\ WritesOwnRequest

(***************************************************************************)
(* CallInv.  First the labels.                                             *)
(***************************************************************************)
LoopLabels == {"off", "loop", "recvLock", "stopped"}
CallLabels == {"idle", "greet", "sendLock", "writing", "sent", "recvLock", "done"}

LEMMA LabelsMove ==
  ASSUME TypeOK, LabelsOfTasks, NEW t \in Task, NEW l,
         pc' = [pc EXCEPT ![t] = l],
         \/ t \in Caller /\ l \in CallLabels
         \/ t \in Client /\ l \in LoopLabels
  PROVE  LabelsOfTasks'
<1>1. pc \in [Task -> Pc]
  BY DEF TypeOK
<1>2. \A u \in Task : pc'[u] = IF u = t THEN l ELSE pc[u]
  BY <1>1, Zenon
<1> QED BY <1>2, SMT DEF LabelsOfTasks, CallLabels, LoopLabels, Task

LEMMA CallerOnly ==
  ASSUME LabelsOfTasks, NEW t \in Task, pc[t] \notin LoopLabels
  PROVE  t \in Caller
BY SMT DEF LabelsOfTasks, Task, LoopLabels

LEMMA LabelsNext == TypeOK /\ LabelsOfTasks /\ [Next]_vars => LabelsOfTasks'
<1> SUFFICES ASSUME TypeOK, LabelsOfTasks, [Next]_vars
             PROVE  LabelsOfTasks'
  OBVIOUS
<1> USE DEF clientVars, wireVars, poolVars, taskVars, ghostVars
<1>1. ASSUME NEW t \in Caller, NEW c \in Client,
             Dial(t, c) \/ \E cmd \in Asked : Request(t, c, cmd)
      PROVE  LabelsOfTasks'
  <2>1. t \in Task /\ \E l \in CallLabels : pc' = [pc EXCEPT ![t] = l]
    BY <1>1, SMT DEF Dial, Request, Goto, Task, CallLabels
  <2> QED BY <2>1, LabelsMove, Zenon
<1>2. ASSUME NEW c \in Client, SpawnLoop(c)
      PROVE  LabelsOfTasks'
  <2>1. /\ c \in Task /\ "loop" \in LoopLabels
        /\ pc' = [pc EXCEPT ![c] = "loop"]
    BY <1>2, SMT DEF SpawnLoop, Goto, Task, LoopLabels
  <2> QED BY <2>1, LabelsMove, Zenon
<1>3. ASSUME NEW t \in Task,
             \/ FinishHandshake(t) \/ HandshakeFails(t)
             \/ SendPrepare(t) \/ SendWrite(t) \/ SendFails(t) \/ Return(t)
      PROVE  LabelsOfTasks'
  <2>1. t \in Caller
    <3>1. \E l \in {"greet", "sendLock", "writing", "done"} : pc[t] = l
      BY <1>3, Zenon DEF FinishHandshake, HandshakeFails, SendPrepare,
                         SendWrite, SendFails, Return
    <3>2. pc[t] \notin LoopLabels
      BY <3>1, SMT DEF LoopLabels
    <3> QED BY <3>2, CallerOnly
  <2>2. t \notin Client
    BY <2>1, Zenon
  <2>3. \E l \in {"idle", "writing", "sent", "done"} :
          pc' = [pc EXCEPT ![t] = l]
    BY <1>3, <2>2, Zenon DEF FinishHandshake, HandshakeFails, SendPrepare,
                             SendWrite, SendFails, Return, Goto, Fail
  <2>4. {"idle", "writing", "sent", "done"} \subseteq CallLabels
    BY SMT DEF CallLabels
  <2> QED BY <2>1, <2>3, <2>4, LabelsMove, Zenon
<1>4. ASSUME NEW t \in Task,
             RecvCall(t) \/ Receive(t) \/ ReceiveGarbled(t) \/ ReceiveEof(t)
      PROVE  LabelsOfTasks'
  <2>1. CASE t \in Client
    <3>1. \E l \in LoopLabels : pc' = [pc EXCEPT ![t] = l]
      BY <1>4, <2>1, SMT DEF RecvCall, Receive, ReceiveGarbled, ReceiveEof,
                             Goto, Fail, LoopLabels
    <3> QED BY <2>1, <3>1, LabelsMove, Zenon
  <2>2. CASE t \in Caller
    <3>1. t \notin Client
      BY <2>2, Zenon
    <3>2. \E l \in CallLabels : pc' = [pc EXCEPT ![t] = l]
      BY <1>4, <3>1, SMT DEF RecvCall, Receive, ReceiveGarbled, ReceiveEof,
                             Goto, Fail, CallLabels
    <3> QED BY <2>2, <3>2, LabelsMove, Zenon
  <2> QED BY <2>1, <2>2, Zenon DEF Task
<1>5. CASE UNCHANGED pc
  BY <1>5, Zenon DEF LabelsOfTasks
<1>6. ASSUME NEW c \in Client,
             \/ \E t \in Caller : DialFails(t, c)
             \/ PoolGreet(c) \/ PoolTake(c) \/ PoolAnswer(c) \/ PoolPush(c)
             \/ PoolClose(c)
      PROVE  UNCHANGED pc
  BY <1>6, Zenon DEF DialFails, PoolGreet, PoolTake, PoolAnswer, PoolPush,
                     PoolClose, PoolWrite
<1>7. CASE UNCHANGED vars
  BY <1>5, <1>7, Zenon DEF vars
<1> QED
  BY <1>1, <1>2, <1>3, <1>4, <1>5, <1>6, <1>7, Zenon DEF Next, Step

(***************************************************************************)
(* Until the pool greets, there is nothing but the hello message.          *)
(***************************************************************************)
LEMMA HelloKept ==
  ASSUME HelloFirst, NEW c \in Client,
         poolTodo'[c] = poolTodo[c], toPool'[c] = toPool[c],
         poolSend'[c] = poolSend[c]
  PROVE  poolSend'[c] = NoNonce => /\ poolTodo'[c] = <<>>
           /\ \A i \in DOMAIN toPool'[c] : toPool'[c][i].id = <<>>
BY Zenon DEF HelloFirst

LEMMA HelloNext ==
  TypeOK /\ NonceInv /\ HelloFirst /\ [Next]_vars => HelloFirst'
<1> SUFFICES ASSUME TypeOK, NonceInv, HelloFirst, [Next]_vars,
                    NEW d \in Client, poolSend'[d] = NoNonce
             PROVE  /\ poolTodo'[d] = <<>>
                    /\ \A i \in DOMAIN toPool'[d] : toPool'[d][i].id = <<>>
  BY Zenon DEF HelloFirst
<1> USE DEF clientVars, wireVars, poolVars, taskVars, ghostVars
<1>types. /\ toPool \in [Client -> Seq(Frame)]
          /\ poolTodo \in [Client -> Seq(Todo)]
          /\ poolSend \in [Client -> Nonce \cup {NoNonce}]
          /\ using \in [Task -> Client]
  BY Zenon DEF TypeOK
<1>1. CASE UNCHANGED <<poolTodo, toPool, poolSend>>
  BY <1>1, HelloKept, Zenon
<1>2. ASSUME NEW t \in Caller, NEW c \in Client, Dial(t, c)
      PROVE  /\ poolTodo'[d] = <<>>
             /\ \A i \in DOMAIN toPool'[d] : toPool'[d][i].id = <<>>
  <2>1. poolTodo' = poolTodo /\ poolSend' = poolSend
    BY <1>2, Zenon DEF Dial
  <2>2. CASE d # c
    <3>1. toPool'[d] = toPool[d]
      BY <1>2, <1>types, <2>2, Zenon DEF Dial
    <3> QED BY <2>1, <3>1, HelloKept, Zenon
  <2>3. CASE d = c
    <3>1. PICK w : toPool'[d] = <<[cmd |-> "Handshake", word |-> w,
                     nonce |-> NoNonce, id |-> <<>>, body |-> "ok"]>>
      BY <1>2, <1>types, <2>3, Zenon DEF Dial
    <3>2. \A i \in DOMAIN toPool'[d] : toPool'[d][i].id = <<>>
      BY <3>1, SMT
    <3>3. poolTodo'[d] = <<>>
      BY <2>1, Zenon DEF HelloFirst
    <3> QED BY <3>2, <3>3
  <2> QED BY <2>2, <2>3
<1>3. ASSUME NEW t \in Task, SendWrite(t)
      PROVE  /\ poolTodo'[d] = <<>>
             /\ \A i \in DOMAIN toPool'[d] : toPool'[d][i].id = <<>>
  <2>1. poolTodo' = poolTodo /\ poolSend' = poolSend
    BY <1>3, Zenon DEF SendWrite
  <2>2. connected[using[t]] /\ using[t] \in Client
    BY <1>3, <1>types, SMT DEF SendWrite, NonceInv, UsersAreConnected
  <2>3. poolSend[using[t]] # NoNonce
    BY <2>2, Zenon DEF NonceInv, Handshaking
  <2>4. d # using[t]
    BY <2>1, <2>3, Zenon
  <2>5. toPool'[d] = toPool[d]
    BY <1>3, <1>types, <2>4, Zenon DEF SendWrite
  <2> QED BY <2>1, <2>5, HelloKept, Zenon
<1>4. ASSUME NEW c \in Client, PoolGreet(c) \/ PoolAnswer(c) \/ PoolPush(c)
      PROVE  poolTodo'[d] = poolTodo[d] /\ toPool'[d] = toPool[d]
             /\ poolSend'[d] = poolSend[d]
  <2>1. \A n \in Nonce : n # NoNonce
    BY SMT DEF Nonce, NoNonce
  <2>2. poolSend[c] \in Nonce => NextNonce(poolSend[c]) \in Nonce
    BY NextNonceType, Zenon
  <2>3. FirstNonce \in Nonce
    BY NonceAssumption, Zenon DEF Nonce
  <2>4. poolSend'[c] \in Nonce
    BY <1>4, <1>types, <2>2, <2>3, Zenon DEF PoolGreet, PoolAnswer, PoolPush,
                                             PoolWrite
  <2>5. d # c
    BY <2>1, <2>4, Zenon
  <2> QED BY <1>4, <1>types, <2>5, Zenon
          DEF PoolGreet, PoolAnswer, PoolPush, PoolWrite
<1>5. ASSUME NEW c \in Client, PoolTake(c)
      PROVE  poolTodo'[d] = poolTodo[d] /\ toPool'[d] = toPool[d]
             /\ poolSend'[d] = poolSend[d]
  <2>1. poolSend' = poolSend /\ poolSend[c] # NoNonce
    BY <1>5, Zenon DEF PoolTake
  <2>2. d # c
    BY <2>1, Zenon
  <2> QED BY <1>5, <1>types, <2>1, <2>2, Zenon DEF PoolTake
<1>6. ASSUME NEW c \in Client, PoolClose(c)
      PROVE  /\ poolTodo'[d] = <<>>
             /\ \A i \in DOMAIN toPool'[d] : toPool'[d][i].id = <<>>
  <2>1. poolTodo' = poolTodo /\ poolSend' = poolSend
    BY <1>6, Zenon DEF PoolClose
  <2>2. CASE d # c
    <3>1. toPool'[d] = toPool[d]
      BY <1>6, <1>types, <2>2, Zenon DEF PoolClose
    <3> QED BY <2>1, <3>1, HelloKept, Zenon
  <2>3. CASE d = c
    <3>1. toPool'[d] = <<>>
      BY <1>6, <1>types, <2>3, Zenon DEF PoolClose
    <3>2. DOMAIN toPool'[d] = {}
      BY <3>1, SMT
    <3> QED BY <2>1, <3>2, Zenon DEF HelloFirst
  <2> QED BY <2>2, <2>3
<1>7. ASSUME \/ \E t \in Caller, c \in Client :
                  DialFails(t, c) \/ \E cmd \in Asked : Request(t, c, cmd)
             \/ \E c \in Client : SpawnLoop(c)
             \/ \E t \in Task :
                  \/ FinishHandshake(t) \/ HandshakeFails(t) \/ SendPrepare(t)
                  \/ SendFails(t) \/ RecvCall(t) \/ Receive(t)
                  \/ ReceiveGarbled(t) \/ ReceiveEof(t) \/ Return(t)
             \/ UNCHANGED vars
      PROVE  UNCHANGED <<poolTodo, toPool, poolSend>>
  BY <1>7, Zenon DEF DialFails, Request, SpawnLoop, FinishHandshake,
       HandshakeFails, SendPrepare, SendFails, RecvCall, Receive,
       ReceiveGarbled, ReceiveEof, Return, vars
<1> QED
  BY <1>1, <1>2, <1>3, <1>4, <1>5, <1>6, <1>7, HelloKept, Zenon DEF Next, Step

(***************************************************************************)
(* What is being written is the request of the task that holds the lock.   *)
(***************************************************************************)
Owns(u) == pc[u] = "writing" =>
  /\ Holds(u, using[u])
  /\ Len(outgoing[using[u]]) = 1
  /\ outgoing[using[u]][1].id = <<u, calls[u]>>

LEMMA HoldsKept ==
  ASSUME TypeOK, NEW t \in Task, NEW u \in Task, NEW d \in Client, Holds(u, d),
         \/ streamLock'[d] = streamLock[d]
         \/ streamLock'[d] = Append(streamLock[d], t)
  PROVE  Holds(u, d)'
<1>1. streamLock[d] \in Seq(Task) /\ streamLock[d] # <<>> /\ Head(streamLock[d]) = u
  BY Zenon DEF TypeOK, Holds
<1>2. CASE streamLock'[d] = streamLock[d]
  BY <1>1, <1>2, Zenon DEF Holds
<1>3. CASE streamLock'[d] = Append(streamLock[d], t)
  <2>1. Append(streamLock[d], t) # <<>> /\ Head(Append(streamLock[d], t)) = u
    BY <1>1, SMT
  <2> QED BY <1>3, <2>1, Zenon DEF Holds
<1> QED BY <1>2, <1>3

\* While task t moves, the others that write go on holding their locks.
LEMMA OthersOwn ==
  ASSUME TypeOK, WritesOwnRequest, NEW t \in Task, NEW l,
         pc' = [pc EXCEPT ![t] = l],
         \A u \in Task : u # t => using'[u] = using[u] /\ calls'[u] = calls[u],
         \A d \in Client :
           \/ Holds(t, d)
           \/ /\ outgoing'[d] = outgoing[d]
              /\ \/ streamLock'[d] = streamLock[d]
                 \/ streamLock'[d] = Append(streamLock[d], t)
  PROVE  \A u \in Task : u # t => Owns(u)'
<1> SUFFICES ASSUME NEW u \in Task, u # t, pc'[u] = "writing"
             PROVE  \E e \in Client :
                      /\ using'[u] = e
                      /\ streamLock'[e] # <<>> /\ Head(streamLock'[e]) = u
                      /\ Len(outgoing'[e]) = 1
                      /\ outgoing'[e][1].id = <<u, calls'[u]>>
  BY Zenon DEF Owns, Holds
<1>1. pc \in [Task -> Pc] /\ using[u] \in Client
  BY Zenon DEF TypeOK
<1>2. pc[u] = "writing"
  BY <1>1, Zenon
<1>3. /\ Holds(u, using[u])
      /\ Len(outgoing[using[u]]) = 1
      /\ outgoing[using[u]][1].id = <<u, calls[u]>>
  BY <1>2, Zenon DEF WritesOwnRequest
<1>4. ~Holds(t, using[u])
  BY <1>3, Zenon DEF Holds
<1>5. using'[u] = using[u] /\ calls'[u] = calls[u]
  OBVIOUS
<1>6. /\ outgoing'[using[u]] = outgoing[using[u]]
      /\ \/ streamLock'[using[u]] = streamLock[using[u]]
         \/ streamLock'[using[u]] = Append(streamLock[using[u]], t)
  BY <1>1, <1>4, Zenon
<1>7. PICK e \in Client : e = using[u]
  BY <1>1
<1>8. Holds(u, e)'
  BY <1>3, <1>6, <1>7, HoldsKept, Zenon
<1>9. streamLock'[e] # <<>> /\ Head(streamLock'[e]) = u
  BY <1>8, Zenon DEF Holds
<1> QED BY <1>3, <1>5, <1>6, <1>7, <1>9, Zenon

\* A task that does not start to write.
LEMMA OwnMove ==
  ASSUME TypeOK, WritesOwnRequest, NEW t \in Task, NEW l, l # "writing",
         pc' = [pc EXCEPT ![t] = l],
         \A u \in Task : u # t => using'[u] = using[u] /\ calls'[u] = calls[u],
         \A d \in Client :
           \/ Holds(t, d)
           \/ /\ outgoing'[d] = outgoing[d]
              /\ \/ streamLock'[d] = streamLock[d]
                 \/ streamLock'[d] = Append(streamLock[d], t)
  PROVE  WritesOwnRequest'
<1>1. \A u \in Task : u # t => Owns(u)'
  BY OthersOwn
<1>2. pc \in [Task -> Pc]
  BY Zenon DEF TypeOK
<1>3. pc'[t] = l
  BY <1>2, Zenon
<1>4. Owns(t)'
  BY <1>3, Zenon DEF Owns
<1> QED BY <1>1, <1>4, Zenon DEF Owns, WritesOwnRequest

LEMMA OwnNext ==
  TypeOK /\ WritesOwnRequest /\ [Next]_vars => WritesOwnRequest'
<1> SUFFICES ASSUME TypeOK, WritesOwnRequest, [Next]_vars
             PROVE  WritesOwnRequest'
  OBVIOUS
<1> USE DEF clientVars, wireVars, poolVars, taskVars, ghostVars
<1>types. /\ pc \in [Task -> Pc] /\ using \in [Task -> Client]
          /\ streamLock \in [Client -> Seq(Task)]
          /\ outgoing \in [Client -> Seq(Frame)]
          /\ calls \in [Task -> 0 .. MaxCalls]
  BY Zenon DEF TypeOK
<1>1. ASSUME NEW t \in Caller, NEW c \in Client, Dial(t, c)
      PROVE  WritesOwnRequest'
  <2>1. t \in Task /\ pc' = [pc EXCEPT ![t] = "greet"] /\ "greet" # "writing"
    BY <1>1, Zenon DEF Dial, Goto, Task
  <2>2. /\ using' = [using EXCEPT ![t] = c] /\ calls' = calls
        /\ outgoing' = outgoing /\ streamLock' = streamLock
    BY <1>1, Zenon DEF Dial
  <2>3. \A u \in Task : u # t => using'[u] = using[u] /\ calls'[u] = calls[u]
    BY <1>types, <2>2, Zenon
  <2> QED BY <2>1, <2>2, <2>3, OwnMove, Zenon
<1>2. ASSUME NEW t \in Caller, NEW c \in Client, NEW cmd \in Calls,
             Request(t, c, cmd)
      PROVE  WritesOwnRequest'
  <2>1. t \in Task /\ pc' = [pc EXCEPT ![t] = "sendLock"] /\ "sendLock" # "writing"
    BY <1>2, Zenon DEF Request, Goto, Task
  <2>2. /\ using' = [using EXCEPT ![t] = c]
        /\ calls' = [calls EXCEPT ![t] = calls[t] + 1]
        /\ outgoing' = outgoing
        /\ streamLock' = [streamLock EXCEPT ![c] = Append(streamLock[c], t)]
    BY <1>2, Zenon DEF Request, Enqueue
  <2>3. \A u \in Task : u # t => using'[u] = using[u] /\ calls'[u] = calls[u]
    BY <1>types, <2>2, Zenon
  <2>4. \A d \in Client : \/ streamLock'[d] = streamLock[d]
                          \/ streamLock'[d] = Append(streamLock[d], t)
    BY <1>types, <2>2, Zenon
  <2> QED BY <2>1, <2>2, <2>3, <2>4, OwnMove, Zenon
<1>3. ASSUME NEW c \in Client, SpawnLoop(c)
      PROVE  WritesOwnRequest'
  <2>1. /\ c \in Task /\ pc' = [pc EXCEPT ![c] = "loop"] /\ "loop" # "writing"
        /\ using' = using /\ calls' = calls
        /\ outgoing' = outgoing /\ streamLock' = streamLock
    BY <1>3, Zenon DEF SpawnLoop, Goto, Task
  <2> QED BY <2>1, OwnMove, Zenon
<1>4. ASSUME NEW t \in Task, FinishHandshake(t) \/ HandshakeFails(t) \/ Return(t)
      PROVE  WritesOwnRequest'
  <2>1. /\ pc' = [pc EXCEPT ![t] = "idle"] /\ "idle" # "writing"
        /\ using' = using /\ calls' = calls
        /\ outgoing' = outgoing /\ streamLock' = streamLock
    BY <1>4, Zenon DEF FinishHandshake, HandshakeFails, Return, Goto
  <2> QED BY <2>1, OwnMove, Zenon
<1>5. ASSUME NEW t \in Task, RecvCall(t)
      PROVE  WritesOwnRequest'
  <2>1. /\ pc' = [pc EXCEPT ![t] = "recvLock"] /\ "recvLock" # "writing"
        /\ using' = using /\ calls' = calls /\ outgoing' = outgoing
        /\ streamLock' = [streamLock EXCEPT ![using[t]] =
                            Append(streamLock[using[t]], t)]
    BY <1>5, Zenon DEF RecvCall, Goto, Enqueue
  <2>2. \A d \in Client : \/ streamLock'[d] = streamLock[d]
                          \/ streamLock'[d] = Append(streamLock[d], t)
    BY <1>types, <2>1, Zenon
  <2> QED BY <2>1, <2>2, OwnMove, Zenon
<1>6. ASSUME NEW t \in Task, SendPrepare(t)
      PROVE  WritesOwnRequest'
  <2>1. /\ pc' = [pc EXCEPT ![t] = "writing"] /\ Holds(t, using[t])
        /\ using' = using /\ calls' = calls /\ streamLock' = streamLock
    BY <1>6, Zenon DEF SendPrepare, Goto
  <2>2. PICK f : outgoing' = [outgoing EXCEPT ![using[t]] = <<f>>]
                 /\ f.id = <<t, calls[t]>>
    <3>1. PICK w, n : outgoing' = [outgoing EXCEPT ![using[t]] =
            <<[cmd |-> op[t], word |-> w, nonce |-> n,
               id |-> <<t, calls[t]>>, body |-> "ok"]>>]
      BY <1>6, Zenon DEF SendPrepare
    <3>2. [cmd |-> op[t], word |-> w, nonce |-> n,
           id |-> <<t, calls[t]>>, body |-> "ok"].id = <<t, calls[t]>>
      BY Zenon
    <3> QED BY <3>1, <3>2, Zenon
  <2>3. \A d \in Client : Holds(t, d) \/ outgoing'[d] = outgoing[d]
    BY <1>types, <2>1, <2>2, Zenon
  <2>4. \A u \in Task : u # t => Owns(u)'
    BY <2>1, <2>3, OthersOwn, Zenon
  <2>5. outgoing'[using[t]] = <<f>>
    BY <1>types, <2>2, Zenon
  <2>6. Len(<<f>>) = 1 /\ <<f>>[1] = f
    BY SMT
  <2>7. Owns(t)'
    BY <2>1, <2>2, <2>5, <2>6, Zenon DEF Owns, Holds
  <2> QED BY <2>4, <2>7, Zenon DEF Owns, WritesOwnRequest
<1>7. ASSUME NEW t \in Task,
             \/ SendWrite(t) \/ SendFails(t)
             \/ Receive(t) \/ ReceiveGarbled(t) \/ ReceiveEof(t)
      PROVE  WritesOwnRequest'
  <2>1. /\ Holds(t, using[t]) /\ using' = using /\ calls' = calls
        /\ streamLock' = [streamLock EXCEPT ![using[t]] = Tail(streamLock[using[t]])]
        /\ \/ outgoing' = [outgoing EXCEPT ![using[t]] = <<>>]
           \/ outgoing' = outgoing
    BY <1>7, Zenon DEF SendWrite, SendFails, Receive, ReceiveGarbled,
                       ReceiveEof, Release
  <2>2. \E l \in {"sent", "loop", "stopped", "done"} : pc' = [pc EXCEPT ![t] = l]
    BY <1>7, Zenon DEF SendWrite, SendFails, Receive, ReceiveGarbled,
                       ReceiveEof, Goto, Fail
  <2>3. \A d \in Client : \/ Holds(t, d)
                          \/ /\ outgoing'[d] = outgoing[d]
                             /\ streamLock'[d] = streamLock[d]
    BY <1>types, <2>1, Zenon
  <2>4. \A l \in {"sent", "loop", "stopped", "done"} : l # "writing"
    BY Zenon
  <2> QED BY <2>1, <2>2, <2>3, <2>4, OwnMove, Zenon
<1>8. CASE UNCHANGED <<pc, using, calls, outgoing, streamLock>>
  BY <1>8, Zenon DEF WritesOwnRequest, Holds
<1>9. ASSUME NEW c \in Client,
             \/ \E t \in Caller : DialFails(t, c)
             \/ PoolGreet(c) \/ PoolTake(c) \/ PoolAnswer(c) \/ PoolPush(c)
             \/ PoolClose(c)
      PROVE  UNCHANGED <<pc, using, calls, outgoing, streamLock>>
  BY <1>9, Zenon DEF DialFails, PoolGreet, PoolTake, PoolAnswer, PoolPush,
                     PoolClose, PoolWrite
<1>10. CASE UNCHANGED vars
  BY <1>8, <1>10, Zenon DEF vars
<1> QED
  BY <1>1, <1>2, <1>3, <1>4, <1>5, <1>6, <1>7, <1>8, <1>9, <1>10,
     CallAssumption, Zenon DEF Next, Step

LEMMA CallInvariant == Spec => []CallInv
<1>1. Init => CallInv
  <2> SUFFICES ASSUME Init PROVE CallInv
    OBVIOUS
  <2>1. \A t \in Task : pc[t] = IF t \in Client THEN "off" ELSE "idle"
    BY Zenon DEF Init
  <2>2. LabelsOfTasks
    BY <2>1, SMT DEF LabelsOfTasks, Task
  <2>3. WritesOwnRequest
    BY <2>1, SMT DEF WritesOwnRequest
  <2>4. HelloFirst
    <3> SUFFICES ASSUME NEW c \in Client
                 PROVE  /\ poolTodo[c] = <<>>
                        /\ \A i \in DOMAIN toPool[c] : toPool[c][i].id = <<>>
      BY Zenon DEF HelloFirst
    <3>1. poolTodo[c] = <<>> /\ toPool[c] = <<>>
      BY Zenon DEF Init
    <3>2. DOMAIN toPool[c] = {}
      BY <3>1, SMT
    <3> QED BY <3>1, <3>2, Zenon
  <2> QED BY <2>2, <2>3, <2>4 DEF CallInv
<1>2. TypeOK /\ NonceInv /\ CallInv /\ [Next]_vars => CallInv'
  BY LabelsNext, HelloNext, OwnNext, Zenon DEF CallInv
<1> QED BY <1>1, <1>2, TypeCorrect, NonceInvariant, PTL DEF Spec

(***************************************************************************)
(* The refinement.  A step of the service, or none.                        *)
(***************************************************************************)
Serves == [Service!Next]_(Service!vars)

LEMMA SameStage ==
  ASSUME TypeOK, NEW t \in Task, NEW l, pc' = [pc EXCEPT ![t] = l],
         t \in Caller => Stage(l) = Stage(pc[t])
  PROVE  Stages' = Stages
<1>1. CASE t \in Client
  BY <1>1, StagesMove
<1>2. CASE t \in Caller
  <2>1. Stages' = [Stages EXCEPT ![t] = Stage(l)] /\ Stages[t] = Stage(l)
    BY <1>2, StagesMove, CallerValues, Zenon
  <2>2. Stages = [u \in Caller |-> Stages[u]]
    BY Zenon DEF Stages
  <2> QED BY <2>1, <2>2, SMT
<1> QED BY <1>1, <1>2, Zenon DEF Task

LEMMA IdsOne ==
  ASSUME NEW S, Named(S), NEW x \in S
  PROVE  Ids(<<x>>) = <<x.id>>
<1>1. <<x>> \in Seq(S) /\ Len(<<x>>) = 1 /\ <<x>>[1] = x
  BY SMT
<1>2. /\ Ids(<<x>>) \in Seq(RequestId) /\ Len(Ids(<<x>>)) = 1
      /\ Ids(<<x>>)[1] = x.id
  <2>1. /\ Ids(<<x>>) \in Seq(RequestId) /\ Len(Ids(<<x>>)) = Len(<<x>>)
        /\ \A i \in 1 .. Len(<<x>>) : Ids(<<x>>)[i] = <<x>>[i].id
    BY <1>1, IdsEach, Zenon
  <2>2. 1 \in 1 .. 1
    BY SMT
  <2> QED BY <1>1, <2>1, <2>2, Zenon
<1>3. x.id \in RequestId
  BY Zenon DEF Named
<1> DEFINE y == x.id
<1>4. <<y>> \in Seq(RequestId) /\ Len(<<y>>) = 1 /\ <<y>>[1] = y
  <2>1. y \in RequestId
    BY <1>3
  <2> HIDE DEF y
  <2> QED BY <2>1, SMT
<1>5. \A i \in 1 .. 1 : i = 1
  BY SMT
<1> QED BY <1>2, <1>4, <1>5, SeqEqual, Zenon

LEMMA StageValues ==
  /\ \A l \in {"idle", "greet", "done"} : Stage(l) = "idle"
  /\ \A l \in {"sendLock", "writing"} : Stage(l) = "asked"
  /\ \A l \in {"sent", "recvLock"} : Stage(l) = "waiting"
BY SMT DEF Stage

LEMMA DialServes ==
  ASSUME TypeOK, NonceInv, CallInv, NEW t \in Caller, NEW c \in Client, Dial(t, c)
  PROVE  Serves
<1>types. /\ link \in [Client -> {"none", "up", "down"}]
          /\ toPool \in [Client -> Seq(Frame)]
  BY Zenon DEF TypeOK
<1>1. /\ t \in Task /\ pc[t] = "idle" /\ pc' = [pc EXCEPT ![t] = "greet"]
      /\ using' = [using EXCEPT ![t] = c]
      /\ link[c] = "none" /\ link' = [link EXCEPT ![c] = "up"]
      /\ UNCHANGED <<connected, lost, fromPool, poolTodo, reply, calls>>
  BY Zenon DEF Dial, Goto, Task, ghostVars
<1>2. PICK f \in Frame : toPool' = [toPool EXCEPT ![c] = <<f>>] /\ f.id = <<>>
  <2>1. PICK w : toPool' = [toPool EXCEPT ![c] =
          <<[cmd |-> "Handshake", word |-> w, nonce |-> NoNonce, id |-> <<>>,
             body |-> "ok"]>>]
    BY Zenon DEF Dial
  <2> DEFINE f == [cmd |-> "Handshake", word |-> w, nonce |-> NoNonce,
                   id |-> <<>>, body |-> "ok"]
  <2>2. f.id = <<>>
    BY Zenon
  <2>3. toPool'[c] = <<f>> /\ toPool' \in [Client -> Seq(Frame)]
    <3>1. TypeOK'
      BY TypeNext, Zenon DEF Next
    <3> QED BY <1>types, <2>1, <3>1, Zenon DEF TypeOK
  <2> HIDE DEF f
  <2>4. f \in Frame
    <3>1. <<f>> \in Seq(Frame)
      BY <2>3, Zenon
    <3>2. Len(<<f>>) = 1 /\ <<f>>[1] = f
      BY SMT
    <3> QED BY <3>1, <3>2, SMT
  <2> QED BY <2>1, <2>2, <2>4, Zenon DEF f
<1>3. Ids(toPool'[c]) = <<<<>>>> /\ poolTodo'[c] = <<>>
  <2>1. toPool'[c] = <<f>>
    BY <1>types, <1>2, Zenon
  <2>2. Ids(<<f>>) = <<f.id>>
    BY FramesNamed, IdsOne, Zenon
  <2>3. poolSend[c] = NoNonce
    BY <1>1, Zenon DEF NonceInv, Handshaking
  <2> QED BY <1>1, <1>2, <2>1, <2>2, <2>3, Zenon DEF CallInv, HelloFirst
<1>4. Owed' = [Owed EXCEPT ![c] = <<<<>>>>]
  <2>1. link'[c] = "up"
    BY <1>types, <1>1, Zenon
  <2>2. \A d \in Client : d # c => /\ link'[d] = link[d]
                                   /\ poolTodo'[d] = poolTodo[d]
                                   /\ toPool'[d] = toPool[d]
    BY <1>types, <1>1, <1>2, Zenon
  <2>3. Owed' = [Owed EXCEPT ![c] =
          IF link'[c] = "up" THEN Ids(poolTodo'[c]) \o Ids(toPool'[c]) ELSE <<>>]
    BY <2>2, OwedMoves, Zenon
  <2>4. <<>> \o <<<<>>>> = <<<<>>>>
    BY SMT
  <2> QED BY <1>3, <2>1, <2>3, <2>4, IdsEmpty, Zenon
<1>5. /\ Stages[t] = "idle"
      /\ UNCHANGED <<Greeted, Garbled, Stages, Ready, Numbers, Returned>>
  <2>1. Stage("greet") = "idle" /\ Stage("idle") = "idle"
    BY StageValues, Zenon
  <2>2. Stages[t] = Stage(pc[t])
    BY CallerValues, Zenon
  <2> QED BY <1>1, <2>1, <2>2, SameStage, Unmoved, Zenon
<1>6. Via' = [Via EXCEPT ![t] = c]
  BY <1>1, ViaMoves, Zenon
<1> QED
  BY <1>1, <1>4, <1>5, <1>6, Zenon
     DEF Serves, Service!Next, Service!Connect, Service!Nobody

\* An update that changes nothing.
LEMMA SameQueues ==
  ASSUME NEW c \in Client
  PROVE  /\ Owed' = [Owed EXCEPT ![c] = Owed[c]] => Owed' = Owed
         /\ Ready = [Ready EXCEPT ![c] = Ready[c]]
<1>1. /\ Owed = [d \in Client |-> Owed[d]]
      /\ Ready = [d \in Client |-> Ready[d]]
  BY Zenon DEF Owed, Ready
<1> QED BY <1>1, SMT

LEMMA LinkDown ==
  ASSUME TypeOK, NEW c \in Client, link' = [link EXCEPT ![c] = "down"],
         poolTodo' = poolTodo,
         \A d \in Client : d # c => toPool'[d] = toPool[d]
  PROVE  /\ Owed' = [Owed EXCEPT ![c] = <<>>]
         /\ link[c] # "up" => Owed' = Owed
<1>1. link \in [Client -> {"none", "up", "down"}]
  BY Zenon DEF TypeOK
<1>2. link'[c] # "up" /\ \A d \in Client : d # c => link'[d] = link[d]
  BY <1>1, Zenon
<1>3. Owed' = [Owed EXCEPT ![c] =
        IF link'[c] = "up" THEN Ids(poolTodo'[c]) \o Ids(toPool'[c]) ELSE <<>>]
  BY <1>2, OwedMoves, Zenon
<1>4. Owed' = [Owed EXCEPT ![c] = <<>>]
  BY <1>2, <1>3, Zenon
<1>5. link[c] # "up" => Owed[c] = <<>>
  BY ConnQueues, Zenon
<1> QED BY <1>4, <1>5, SameQueues, Zenon

LEMMA DialFailsServes ==
  ASSUME TypeOK, NEW t \in Caller, NEW c \in Client, DialFails(t, c)
  PROVE  Serves
<1>1. /\ link[c] = "none" /\ link' = [link EXCEPT ![c] = "down"]
      /\ UNCHANGED <<connected, lost, toPool, fromPool, poolTodo>>
      /\ UNCHANGED <<pc, using, reply, calls>>
  BY Zenon DEF DialFails, clientVars, poolVars, taskVars, ghostVars
<1>2. UNCHANGED <<Greeted, Garbled, Owed, Ready, Stages, Via, Numbers, Returned>>
  BY <1>1, LinkDown, Unmoved, Zenon
<1> QED
  BY <1>1, <1>2, Zenon DEF Serves, Service!Next, Service!Unreachable

LEMMA RequestServes ==
  ASSUME TypeOK, NonceInv, NEW t \in Caller, NEW c \in Client, NEW cmd \in Calls,
         Request(t, c, cmd)
  PROVE  Serves
<1>1. /\ t \in Task /\ pc[t] = "idle" /\ pc' = [pc EXCEPT ![t] = "sendLock"]
      /\ connected[c]
      /\ using' = [using EXCEPT ![t] = c]
      /\ calls' = [calls EXCEPT ![t] = calls[t] + 1]
      /\ reply' = [reply EXCEPT ![t] = NoReply]
      /\ UNCHANGED <<connected, lost, link, toPool, fromPool, poolTodo>>
  BY Zenon DEF Request, Goto, Task, clientVars, wireVars, poolVars, ghostVars
<1>2. UNCHANGED <<Greeted, Garbled, Owed, Ready>>
  BY <1>1, Unmoved, Zenon
<1>3. Stages[t] = "idle" /\ Stages' = [Stages EXCEPT ![t] = "asked"]
  <2>1. Stage("idle") = "idle" /\ Stage("sendLock") = "asked"
    BY StageValues, Zenon
  <2>2. Stages' = [Stages EXCEPT ![t] = Stage("sendLock")]
    BY <1>1, StagesMove, Zenon
  <2> QED BY <1>1, <2>1, <2>2, CallerValues, Zenon
<1>4. /\ Via' = [Via EXCEPT ![t] = c]
      /\ Numbers' = [Numbers EXCEPT ![t] = Numbers[t] + 1]
      /\ Returned' = [Returned EXCEPT ![t] = NoReply]
  BY <1>1, ViaMoves, NumbersMove, ReturnedMoves, Zenon
<1>5. c \in Greeted
  BY <1>1, Zenon DEF Greeted
<1> QED
  BY <1>1, <1>2, <1>3, <1>4, <1>5, Zenon
     DEF Serves, Service!Next, Service!Ask, Service!NotYet, Service!Nobody, NoReply

(***************************************************************************)
(* Messages are taken from a connection.                                   *)
(***************************************************************************)
LEMMA GarblesAny ==
  ASSUME TypeOK, NEW c \in Client, NEW n \in 0 .. Len(fromPool[c]),
         fromPool[c] # <<>>,
         fromPool' = [fromPool EXCEPT ![c] = After(fromPool[c], n)],
         lost' = [lost EXCEPT ![c] = TRUE]
  PROVE  Service!Garbles(c)
<1>1. Ready' = [Ready EXCEPT ![c] = Ids(After(fromPool[c], n))]
  BY ReadyMoves, Zenon
<1>2. Ids(After(fromPool[c], n)) = After(Ready[c], n)
  BY ConnQueues, FramesNamed, IdsAfter, Zenon
<1>3. n \in 0 .. Len(Ready[c]) /\ Ready[c] # <<>>
  BY ConnQueues, FramesNamed, IdsNonEmpty, Zenon
<1>4. Garbled' = Garbled \cup {c}
  <2>1. lost \in [Client -> BOOLEAN]
    BY Zenon DEF TypeOK
  <2> QED BY <2>1, SMT DEF Garbled
<1> QED BY <1>1, <1>2, <1>3, <1>4, Zenon DEF Service!Garbles, After

LEMMA TakesOne ==
  ASSUME TypeOK, NEW c \in Client, fromPool[c] # <<>>,
         fromPool' = [fromPool EXCEPT ![c] = Tail(fromPool[c])],
         ~lost[c], UNCHANGED lost
  PROVE  /\ Service!Takes(c)
         /\ Ready[c] # <<>>
         /\ Ready' = [Ready EXCEPT ![c] = Tail(Ready[c])]
         /\ Head(Ready[c]) = Head(fromPool[c]).id
<1>1. fromPool[c] \in Seq(Frame) /\ Ready[c] = Ids(fromPool[c])
  BY ConnQueues, Zenon
<1>2. Ready[c] # <<>> /\ Head(Ready[c]) = Head(fromPool[c]).id
  BY <1>1, FramesNamed, IdsNonEmpty, Zenon
<1>3. Ids(Tail(fromPool[c])) = Tail(Ready[c])
  BY <1>1, FramesNamed, IdsTail, Zenon
<1>4. Ready' = [Ready EXCEPT ![c] = Tail(Ready[c])]
  BY <1>3, ReadyMoves, Zenon
<1>5. c \notin Garbled /\ UNCHANGED Garbled
  BY Unmoved, Zenon DEF Garbled
<1> QED BY <1>2, <1>4, <1>5, Zenon DEF Service!Takes

LEMMA HandshakeServes ==
  ASSUME TypeOK, NonceInv, CallInv, NEW t \in Task,
         FinishHandshake(t) \/ HandshakeFails(t)
  PROVE  Serves
<1> DEFINE d == using[t]
<1>1. PICK c \in Client : c = using[t]
  BY Zenon DEF TypeOK
<1>2. /\ pc[t] = "greet" /\ pc' = [pc EXCEPT ![t] = "idle"]
      /\ UNCHANGED <<lost, toPool, poolTodo, using, reply, calls>>
  BY Zenon DEF FinishHandshake, HandshakeFails, Goto, poolVars, ghostVars
<1>3. UNCHANGED <<Stages, Via, Numbers, Returned>>
  BY <1>2, StageValues, SameStage, Unmoved, Zenon
<1>4. CASE FinishHandshake(t)
  <2>1. /\ fromPool[c] # <<>> /\ link' = link
        /\ fromPool' = [fromPool EXCEPT ![c] = Tail(fromPool[c])]
    BY <1>1, <1>4, Zenon DEF FinishHandshake
  <2>2. Service!Takes(c) /\ UNCHANGED Owed
    <3>1. ~lost[c]
      BY <1>1, <1>2, Zenon DEF NonceInv, OneHandshake, Handshaking
    <3> QED BY <1>2, <2>1, <3>1, TakesOne, Unmoved, Zenon
  <2>3. c \notin Greeted /\ Greeted' = Greeted \cup {c}
    <3>1. ~connected[c] /\ connected \in [Client -> BOOLEAN]
      BY <1>1, <1>2, Zenon DEF NonceInv, OneHandshake, TypeOK
    <3>2. connected' = [connected EXCEPT ![c] = TRUE]
      BY <1>1, <1>4, Zenon DEF FinishHandshake
    <3> QED BY <3>1, <3>2, SMT DEF Greeted
  <2> QED
    BY <1>3, <2>1, <2>2, <2>3, Zenon DEF Serves, Service!Next, Service!Greet
<1>5. CASE HandshakeFails(t)
  <2>1. fromPool' = fromPool /\ link' = [link EXCEPT ![c] = "down"]
    BY <1>1, <1>5, Zenon DEF HandshakeFails
  <2>2. link[c] # "none"
    BY <1>1, <1>2, Zenon DEF NonceInv, OneHandshake
  <2>3. link \in [Client -> {"none", "up", "down"}]
    BY Zenon DEF TypeOK
  <2>4. UNCHANGED <<Greeted, Garbled, Ready>>
    <3>1. UNCHANGED connected
      BY <1>5, Zenon DEF HandshakeFails, clientVars
    <3> QED BY <1>2, <2>1, <3>1, Unmoved, Zenon
  <2>5. CASE link[c] = "up"
    <3>1. Owed' = [Owed EXCEPT ![c] = <<>>]
      BY <1>2, <2>1, LinkDown, Zenon
    <3>2. Ready' = [Ready EXCEPT ![c] = Ready[c]]
      BY <2>4, SameQueues, Zenon
    <3> QED
      BY <1>3, <2>1, <2>4, <2>5, <3>1, <3>2, Zenon
         DEF Serves, Service!Next, Service!Break
  <2>6. CASE link[c] = "down"
    <3>1. UNCHANGED Owed
      BY <1>2, <2>1, <2>6, LinkDown, Zenon
    <3>2. UNCHANGED link
      BY <2>1, <2>3, <2>6, SMT
    <3> QED BY <1>3, <2>4, <3>1, <3>2, Zenon DEF Serves, Service!vars
  <2> QED BY <2>2, <2>3, <2>5, <2>6, Zenon
<1> QED BY <1>4, <1>5

\* Steps that the service does not see.
LEMMA InnerSteps ==
  ASSUME TypeOK, CallInv, NEW t \in Task,
         \/ SendPrepare(t) \/ RecvCall(t) \/ Return(t)
         \/ t \in Client /\ (SpawnLoop(t) \/ ReceiveEof(t))
  PROVE  Serves
<1>1. /\ UNCHANGED <<link, toPool, fromPool, poolTodo, using, calls>>
      /\ UNCHANGED <<connected, lost, reply>>
  BY Zenon DEF SendPrepare, RecvCall, Return, SpawnLoop, ReceiveEof, Fail,
               clientVars, wireVars, poolVars, ghostVars
<1>2. PICK l : pc' = [pc EXCEPT ![t] = l] /\ (t \in Caller => Stage(l) = Stage(pc[t]))
  <2>1. CASE SendPrepare(t)
    BY <2>1, StageValues, Zenon DEF SendPrepare, Goto
  <2>2. CASE RecvCall(t)
    <3>1. t \in Caller => pc[t] = "sent"
      BY <2>2, Zenon DEF CallInv, LabelsOfTasks, RecvCall
    <3> QED BY <2>2, <3>1, StageValues, Zenon DEF RecvCall, Goto
  <2>3. CASE Return(t)
    BY <2>3, StageValues, Zenon DEF Return, Goto
  <2>4. CASE t \in Client /\ (SpawnLoop(t) \/ ReceiveEof(t))
    <3>1. t \notin Caller
      BY <2>4, Zenon
    <3> QED BY <2>4, <3>1, Zenon DEF SpawnLoop, ReceiveEof, Goto, Fail
  <2> QED BY <2>1, <2>2, <2>3, <2>4
<1>3. UNCHANGED Stages
  BY <1>2, SameStage, Zenon
<1> QED BY <1>1, <1>3, Unmoved, Zenon DEF Serves, Service!vars

(***************************************************************************)
(* A request is written.                                                   *)
(***************************************************************************)
LEMMA WritersCall ==
  ASSUME CallInv, NEW t \in Task, pc[t] = "writing"
  PROVE  t \in Caller /\ Stages[t] = "asked"
<1>1. t \in Caller
  <2>1. pc[t] \notin LoopLabels
    BY SMT DEF LoopLabels
  <2> QED BY <2>1, CallerOnly, Zenon DEF CallInv
<1>2. Stage("writing") = "asked"
  BY StageValues, Zenon
<1> QED BY <1>1, <1>2, CallerValues, Zenon

LEMMA OwedAppend ==
  ASSUME NEW r \in Seq(RequestId), NEW s \in Seq(RequestId), NEW x \in RequestId
  PROVE  r \o Append(s, x) = Append(r \o s, x)
<1>1. <<x>> \in Seq(RequestId)
  BY SMT
<1>2. Append(s, x) = s \o <<x>> /\ Append(r \o s, x) = (r \o s) \o <<x>>
  BY AppendIsConcat, ConcatProperties
<1>3. (r \o s) \o <<x>> = r \o (s \o <<x>>)
  <2>1. \A u \in Seq(RequestId) : (r \o s) \o u = r \o (s \o u)
    BY ConcatAssociative
  <2> QED BY <1>1, <2>1
<1> QED BY <1>2, <1>3, Zenon

LEMMA SendWriteServes ==
  ASSUME TypeOK, CallInv, NEW t \in Task, SendWrite(t)
  PROVE  Serves
<1>1. PICK c \in Client : c = using[t]
  BY Zenon DEF TypeOK
<1>2. /\ pc[t] = "writing" /\ pc' = [pc EXCEPT ![t] = "sent"]
      /\ UNCHANGED <<connected, lost, link, fromPool, poolTodo, using, reply, calls>>
  BY Zenon DEF SendWrite, Goto, poolVars, ghostVars
<1>3. t \in Caller /\ Stages[t] = "asked" /\ Via[t] = c /\ Numbers[t] = calls[t]
  BY <1>1, <1>2, WritersCall, CallerValues, Zenon
<1>4. Stages' = [Stages EXCEPT ![t] = "waiting"]
  <2>1. Stage("sent") = "waiting"
    BY StageValues, Zenon
  <2> QED BY <1>2, <1>3, <2>1, StagesMove, Zenon
<1>5. UNCHANGED <<Greeted, Garbled, Ready, Via, Numbers, Returned>>
  BY <1>2, Unmoved, Zenon
<1>6. CASE link[c] = "down" /\ UNCHANGED toPool
  <2>1. UNCHANGED Owed
    BY <1>2, <1>6, Unmoved, Zenon
  <2> QED
    BY <1>2, <1>3, <1>4, <1>5, <1>6, <2>1, Zenon
       DEF Serves, Service!Next, Service!Write
<1>7. CASE /\ link[c] = "up"
           /\ toPool' = [toPool EXCEPT ![c] = toPool[c] \o outgoing[c]]
  <2>types. toPool \in [Client -> Seq(Frame)] /\ outgoing[c] \in Seq(Frame)
    BY Zenon DEF TypeOK
  <2>1. Len(outgoing[c]) = 1 /\ outgoing[c][1].id = <<t, calls[t]>>
    BY <1>1, <1>2, Zenon DEF CallInv, WritesOwnRequest
  <2>2. PICK f \in Frame : outgoing[c] = <<f>> /\ f.id = <<t, calls[t]>>
    <3> DEFINE s == outgoing[c]
    <3>1. s \in Seq(Frame) /\ Len(s) = 1
      BY <2>types, <2>1
    <3> HIDE DEF s
    <3>2. s = <<s[1]>> /\ s[1] \in Frame
      BY <3>1, SMT
    <3> QED BY <2>1, <3>2, Zenon DEF s
  <2>3. toPool'[c] = Append(toPool[c], f)
    <3>1. toPool[c] \in Seq(Frame)
      BY <2>types, Zenon
    <3>2. Append(toPool[c], f) = toPool[c] \o <<f>>
      BY <3>1, AppendIsConcat
    <3> QED BY <1>7, <2>types, <2>2, <3>2, Zenon
  <2>4. /\ Ids(toPool'[c]) = Append(Ids(toPool[c]), <<t, calls[t]>>)
        /\ <<t, calls[t]>> \in RequestId
    <3>1. toPool[c] \in Seq(Frame) /\ f.id \in RequestId
      BY <2>types, FrameFields, Zenon
    <3> QED BY <2>2, <2>3, <3>1, FramesNamed, IdsAppend, Zenon
  <2>5. Ids(poolTodo[c]) \o Ids(toPool'[c]) = Append(Owed[c], <<t, calls[t]>>)
    <3>1. Ids(poolTodo[c]) \in Seq(RequestId) /\ Ids(toPool[c]) \in Seq(RequestId)
      BY ConnQueues, Zenon
    <3>2. Owed[c] = Ids(poolTodo[c]) \o Ids(toPool[c])
      BY <1>7, ConnQueues, Zenon
    <3>3. Ids(poolTodo[c]) \o Append(Ids(toPool[c]), <<t, calls[t]>>)
            = Append(Ids(poolTodo[c]) \o Ids(toPool[c]), <<t, calls[t]>>)
      BY <2>4, <3>1, OwedAppend
    <3> QED BY <2>4, <3>2, <3>3, Zenon
  <2>6. Owed' = [Owed EXCEPT ![c] = Append(Owed[c], <<t, calls[t]>>)]
    <3>1. \A d \in Client : d # c => /\ link'[d] = link[d]
                                     /\ poolTodo'[d] = poolTodo[d]
                                     /\ toPool'[d] = toPool[d]
      BY <1>2, <1>7, <2>types, Zenon
    <3>2. Owed' = [Owed EXCEPT ![c] =
            IF link'[c] = "up" THEN Ids(poolTodo'[c]) \o Ids(toPool'[c]) ELSE <<>>]
      BY <3>1, OwedMoves, Zenon
    <3> QED BY <1>2, <1>7, <2>5, <3>2, Zenon
  <2> QED
    BY <1>2, <1>3, <1>4, <1>5, <1>7, <2>6, Zenon
       DEF Serves, Service!Next, Service!Write
<1> QED BY <1>1, <1>6, <1>7, Zenon DEF SendWrite

(***************************************************************************)
(* A call ends.                                                            *)
(***************************************************************************)
\* Without an answer.
LEMMA FailReturns ==
  ASSUME TypeOK, NEW t \in Task, Fail(t), UNCHANGED <<using, calls>>
  PROVE  /\ UNCHANGED <<Via, Numbers>>
         /\ t \in Caller =>
              /\ Stages' = [Stages EXCEPT ![t] = "idle"]
              /\ Returned' = [Returned EXCEPT ![t] = Service!Refusal]
         /\ t \in Client => UNCHANGED <<Stages, Returned>>
<1>1. CASE t \in Client
  <2>1. pc' = [pc EXCEPT ![t] = "stopped"] /\ reply' = reply
    BY <1>1, Zenon DEF Fail, Goto
  <2>2. t \notin Caller
    BY <1>1, Zenon
  <2> QED BY <1>1, <2>1, <2>2, StagesMove, Unmoved, Zenon
<1>2. CASE t \in Caller
  <2>1. t \notin Client
    BY <1>2, Zenon
  <2>2. /\ pc' = [pc EXCEPT ![t] = "done"]
        /\ reply' = [reply EXCEPT ![t] = Service!Refusal]
    BY <2>1, Zenon DEF Fail, Goto, Service!Refusal, Service!Nobody
  <2>3. Stage("done") = "idle"
    BY StageValues, Zenon
  <2>4. Stages' = [Stages EXCEPT ![t] = Stage("done")]
    BY <1>2, <2>2, StagesMove, Zenon
  <2>5. Returned' = [Returned EXCEPT ![t] = Service!Refusal]
    BY <1>2, <2>2, ReturnedMoves, Zenon
  <2> QED BY <2>1, <2>3, <2>4, <2>5, Unmoved, Zenon
<1> QED BY <1>1, <1>2, Zenon DEF Task

LEMMA HangUpServes ==
  ASSUME TypeOK, CallInv, NEW t \in Task,
         SendFails(t) \/ (t \in Caller /\ ReceiveEof(t))
  PROVE  Serves
<1>1. /\ pc[t] \in {"writing", "recvLock"} /\ link[using[t]] = "down" /\ Fail(t)
      /\ UNCHANGED <<connected, lost, link, toPool, fromPool, poolTodo, using, calls>>
  BY Zenon DEF SendFails, ReceiveEof, clientVars, wireVars, poolVars, ghostVars
<1>2. t \in Caller
  BY WritersCall, Zenon DEF SendFails
<1>3. Stages[t] # "idle" /\ Via[t] = using[t]
  <2>1. /\ Stage("writing") = "asked" /\ Stage("recvLock") = "waiting"
        /\ "asked" # "idle" /\ "waiting" # "idle"
    BY StageValues, Zenon
  <2> QED BY <1>1, <1>2, <2>1, CallerValues, Zenon
<1>4. /\ UNCHANGED <<Greeted, Garbled, Owed, Ready, Via, Numbers>>
      /\ Stages' = [Stages EXCEPT ![t] = "idle"]
      /\ Returned' = [Returned EXCEPT ![t] = Service!Refusal]
  BY <1>1, <1>2, FailReturns, Unmoved, Zenon
<1>5. Stages[t] = "waiting" => Ready[Via[t]] = <<>>
  <2> SUFFICES ASSUME Stages[t] = "waiting" PROVE Ready[Via[t]] = <<>>
    OBVIOUS
  <2>1. pc[t] # "writing"
    <3>1. Stage("writing") = "asked" /\ "asked" # "waiting"
      BY StageValues, Zenon
    <3> QED BY <1>2, <3>1, CallerValues, Zenon
  <2>2. fromPool[using[t]] = <<>> /\ using[t] \in Client
    BY <2>1, Zenon DEF SendFails, ReceiveEof, TypeOK
  <2> QED BY <1>3, <2>2, ConnQueues, IdsEmpty, Zenon
<1> QED
  BY <1>1, <1>2, <1>3, <1>4, <1>5, Zenon
     DEF Serves, Service!Next, Service!HangUp, Service!Return

\* With a message, or with bytes that are none.  The receive loop of a client
\* reads the client's own connection.
LEMMA ReceiveServes ==
  ASSUME TypeOK, NonceInv, NEW t \in Task, Receive(t)
  PROVE  Serves
<1>1. PICK c \in Client : c = using[t]
  BY Zenon DEF TypeOK
<1>2. /\ pc[t] = "recvLock" /\ fromPool[c] # <<>> /\ ~lost[c]
      /\ fromPool' = [fromPool EXCEPT ![c] = Tail(fromPool[c])]
      /\ UNCHANGED <<connected, lost, link, toPool, poolTodo, using, calls>>
  BY <1>1, Zenon DEF Receive, Readable, poolVars, ghostVars
<1>3. /\ Service!Takes(c) /\ Ready[c] # <<>>
      /\ Ready' = [Ready EXCEPT ![c] = Tail(Ready[c])]
      /\ Head(Ready[c]) = Head(fromPool[c]).id
  BY <1>2, TakesOne, Zenon
<1>4. UNCHANGED <<Greeted, Owed, Via, Numbers>>
  BY <1>2, Unmoved, Zenon
<1>5. CASE t \in Client
  <2>1. PICK l : pc' = [pc EXCEPT ![t] = l] /\ reply' = reply
    BY <1>5, Zenon DEF Receive, Goto
  <2>2. UNCHANGED <<Stages, Returned>>
    BY <1>5, <2>1, StagesMove, Unmoved, Zenon
  <2>3. c \in Greeted
    BY <1>1, <1>2, Zenon DEF NonceInv, UsersAreConnected, Greeted
  <2> QED
    BY <1>2, <1>3, <1>4, <2>2, <2>3, Zenon DEF Serves, Service!Next, Service!Discard
<1>6. CASE t \in Caller
  <2> DEFINE result == Outcome(t, c, Head(fromPool[c]))
  <2>1. t \notin Client
    BY <1>6, Zenon
  <2>2. /\ pc' = [pc EXCEPT ![t] = "done"]
        /\ reply' = [reply EXCEPT ![t] = result]
    BY <1>1, <2>1, Zenon DEF Receive, Goto
  <2>3. result \in Service!Answers(Head(Ready[c]))
    BY <1>3, SMT DEF Outcome, Service!Answers
  <2> HIDE DEF result
  <2>4. /\ Stages' = [Stages EXCEPT ![t] = Stage("done")]
        /\ Returned' = [Returned EXCEPT ![t] = result]
    BY <1>6, <2>2, StagesMove, ReturnedMoves, Zenon
  <2>5. Stages[t] = Stage("recvLock") /\ Via[t] = c
    BY <1>1, <1>2, <1>6, CallerValues, Zenon
  <2>6. Stage("done") = "idle" /\ Stage("recvLock") = "waiting"
    BY StageValues, Zenon
  <2>7. Service!Return(t, result)
    BY <1>2, <1>4, <2>4, <2>6, Zenon DEF Service!Return
  <2> QED
    BY <1>3, <1>6, <2>3, <2>5, <2>6, <2>7, Zenon
       DEF Serves, Service!Next, Service!Deliver
<1> QED BY <1>5, <1>6, Zenon DEF Task

LEMMA GarbledServes ==
  ASSUME TypeOK, NonceInv, NEW t \in Task, ReceiveGarbled(t)
  PROVE  Serves
<1>1. PICK c \in Client : c = using[t]
  BY Zenon DEF TypeOK
<1>2. /\ pc[t] = "recvLock" /\ Fail(t)
      /\ fromPool[c] # <<>> /\ lost' = [lost EXCEPT ![c] = TRUE]
      /\ \E n \in 0 .. Len(fromPool[c]) :
           fromPool' = [fromPool EXCEPT ![c] = After(fromPool[c], n)]
      /\ UNCHANGED <<connected, link, toPool, poolTodo, using, calls>>
  BY <1>1, Zenon DEF ReceiveGarbled, After, poolVars
<1>3. Service!Garbles(c)
  BY <1>2, GarblesAny, Zenon
<1>4. UNCHANGED <<Greeted, Owed>>
  BY <1>2, Unmoved, Zenon
<1>5. CASE t \in Client
  <2>1. UNCHANGED <<Stages, Returned, Via, Numbers>>
    BY <1>2, <1>5, FailReturns, Zenon
  <2>2. c \in Greeted
    BY <1>1, <1>2, Zenon DEF NonceInv, UsersAreConnected, Greeted
  <2> QED
    BY <1>2, <1>3, <1>4, <2>1, <2>2, Zenon DEF Serves, Service!Next, Service!Discard
<1>6. CASE t \in Caller
  <2>1. /\ UNCHANGED <<Via, Numbers>>
        /\ Stages' = [Stages EXCEPT ![t] = "idle"]
        /\ Returned' = [Returned EXCEPT ![t] = Service!Refusal]
    BY <1>2, <1>6, FailReturns, Zenon
  <2>2. Stages[t] = Stage("recvLock") /\ Via[t] = c
    BY <1>1, <1>2, <1>6, CallerValues, Zenon
  <2>3. Stage("recvLock") = "waiting"
    BY StageValues, Zenon
  <2>4. Service!Return(t, Service!Refusal)
    BY <1>2, <1>4, <2>1, Zenon DEF Service!Return
  <2> QED
    BY <1>3, <1>6, <2>2, <2>3, <2>4, Zenon
       DEF Serves, Service!Next, Service!Garble
<1> QED BY <1>5, <1>6, Zenon DEF Task

(***************************************************************************)
(* The pool.                                                               *)
(***************************************************************************)
LEMMA PoolWriteReady ==
  ASSUME TypeOK, NEW c \in Client, NEW cmd \in Command, NEW id \in RequestId,
         NEW body \in {"ok", "malformed"}, PoolWrite(c, cmd, id, body)
  PROVE  /\ link[c] = "up"
         /\ Ready' = [Ready EXCEPT ![c] = Append(Ready[c], id)]
         /\ UNCHANGED <<link, Greeted, Garbled, Stages, Via, Numbers, Returned>>
<1>1. /\ link[c] = "up"
      /\ UNCHANGED <<link, connected, lost, pc, using, calls, reply>>
  BY Zenon DEF PoolWrite, clientVars, taskVars, ghostVars
<1>2. PICK f \in Frame :
        /\ fromPool' = [fromPool EXCEPT ![c] = Append(fromPool[c], f)]
        /\ f.id = id
  <2> DEFINE f == PoolFrame(c, poolKey[c], cmd, poolSend[c], id, body)
  <2>1. poolKey[c] \in Word /\ poolSend[c] \in Nonce \cup {NoNonce}
    BY Zenon DEF TypeOK
  <2>2. f \in Frame
    BY <2>1, PoolFrameType, Zenon
  <2>3. f.id = id
    BY Zenon DEF PoolFrame
  <2>4. fromPool' = [fromPool EXCEPT ![c] = Append(fromPool[c], f)]
    BY Zenon DEF PoolWrite
  <2> HIDE DEF f
  <2> QED BY <2>2, <2>3, <2>4, Zenon
<1>3. Ids(Append(fromPool[c], f)) = Append(Ready[c], id)
  <2>1. fromPool[c] \in Seq(Frame) /\ Ready[c] = Ids(fromPool[c])
    BY ConnQueues, Zenon
  <2>2. Ids(Append(fromPool[c], f)) = Append(Ids(fromPool[c]), f.id)
    BY <2>1, FramesNamed, IdsAppend, Zenon
  <2> QED BY <1>2, <2>1, <2>2, Zenon
<1>4. Ready' = [Ready EXCEPT ![c] = Ids(Append(fromPool[c], f))]
  BY <1>2, ReadyMoves, Zenon
<1> QED BY <1>1, <1>3, <1>4, Unmoved, Zenon

LEMMA PoolWriteServes ==
  ASSUME TypeOK, NEW c \in Client, PoolAnswer(c) \/ PoolPush(c)
  PROVE  Serves
<1>1. CASE PoolPush(c)
  <2>1. PICK cmd \in Push : PoolWrite(c, cmd, <<>>, "ok") /\ UNCHANGED poolTodo
    BY <1>1, Zenon DEF PoolPush
  <2>2. cmd \in Command /\ <<>> \in RequestId
    BY PushAssumption, Zenon DEF RequestId
  <2>3. /\ link[c] = "up"
        /\ Ready' = [Ready EXCEPT ![c] = Append(Ready[c], <<>>)]
        /\ UNCHANGED <<link, Greeted, Garbled, Stages, Via, Numbers, Returned>>
    BY <2>1, <2>2, PoolWriteReady, Zenon
  <2>4. UNCHANGED toPool
    BY <2>1, Zenon DEF PoolWrite
  <2>5. UNCHANGED Owed
    BY <2>1, <2>3, <2>4, Unmoved, Zenon
  <2>6. Push # {}
    OBVIOUS
  <2> QED
    BY <2>3, <2>5, <2>6, Zenon
       DEF Serves, Service!Next, Service!Announce, Service!Nobody
<1>2. CASE PoolAnswer(c)
  <2>1. PICK body \in {"ok", "malformed"} :
          PoolWrite(c, Head(poolTodo[c]).cmd, Head(poolTodo[c]).id, body)
    BY <1>2, Zenon DEF PoolAnswer
  <2>2. /\ poolTodo[c] # <<>>
        /\ poolTodo' = [poolTodo EXCEPT ![c] = Tail(poolTodo[c])]
    BY <1>2, Zenon DEF PoolAnswer
  <2>3. poolTodo[c] \in Seq(Todo) /\ poolTodo \in [Client -> Seq(Todo)]
    BY Zenon DEF TypeOK
  <2>4. Head(poolTodo[c]).cmd \in Command /\ Head(poolTodo[c]).id \in RequestId
    <3>1. Head(poolTodo[c]) \in Todo
      BY <2>2, <2>3, HeadAndTail, Zenon
    <3> QED BY <3>1, SMT DEF Todo
  <2>5. /\ link[c] = "up"
        /\ Ready' = [Ready EXCEPT ![c] = Append(Ready[c], Head(poolTodo[c]).id)]
        /\ UNCHANGED <<link, Greeted, Garbled, Stages, Via, Numbers, Returned>>
    BY <2>1, <2>4, PoolWriteReady, Zenon
  <2>6. UNCHANGED toPool
    BY <2>1, Zenon DEF PoolWrite
  <2> DEFINE r == Ids(poolTodo[c])
             s == Ids(toPool[c])
  <2>7. r \in Seq(RequestId) /\ s \in Seq(RequestId) /\ Owed[c] = r \o s
    BY <2>5, ConnQueues, Zenon
  <2>8. /\ r # <<>> /\ Head(r) = Head(poolTodo[c]).id
        /\ Ids(Tail(poolTodo[c])) = Tail(r)
    BY <2>2, <2>3, FramesNamed, IdsNonEmpty, IdsTail, Zenon
  <2>9. r \o s # <<>> /\ Head(r \o s) = Head(r) /\ Tail(r \o s) = Tail(r) \o s
    <3>1. r \in Seq(RequestId) /\ s \in Seq(RequestId) /\ r # <<>>
      BY <2>7, <2>8
    <3> HIDE DEF r, s
    <3>2. r \o s # <<>> /\ Tail(r \o s) = Tail(r) \o s
      BY <3>1, TailOfConcat
    <3>3. Head(r \o s) = Head(r)
      BY <3>1, SMT
    <3> QED BY <3>2, <3>3
  <2>10. Owed' = [Owed EXCEPT ![c] = Tail(Owed[c])]
    <3>1. \A d \in Client : d # c => /\ link'[d] = link[d]
                                     /\ poolTodo'[d] = poolTodo[d]
                                     /\ toPool'[d] = toPool[d]
      BY <2>2, <2>3, <2>5, <2>6, Zenon
    <3>2. poolTodo'[c] = Tail(poolTodo[c]) /\ link'[c] = "up" /\ toPool' = toPool
      BY <2>2, <2>3, <2>5, <2>6, Zenon
    <3>3. Owed' = [Owed EXCEPT ![c] =
            IF link'[c] = "up" THEN Ids(poolTodo'[c]) \o Ids(toPool'[c]) ELSE <<>>]
      BY <3>1, OwedMoves, Zenon
    <3>4. Ids(poolTodo'[c]) \o Ids(toPool'[c]) = Tail(Owed[c])
      BY <2>7, <2>8, <2>9, <3>2, Zenon
    <3> QED BY <3>2, <3>3, <3>4, Zenon
  <2>11. Owed[c] # <<>> /\ Head(Owed[c]) = Head(poolTodo[c]).id
    BY <2>7, <2>8, <2>9, Zenon
  <2> HIDE DEF r, s
  <2> QED
    BY <2>5, <2>10, <2>11, Zenon DEF Serves, Service!Next, Service!Answer
<1> QED BY <1>1, <1>2

LEMMA GreetServes ==
  ASSUME TypeOK, CallInv, NEW c \in Client, PoolGreet(c)
  PROVE  Serves
<1>types. /\ toPool \in [Client -> Seq(Frame)]
          /\ fromPool \in [Client -> Seq(Frame)]
          /\ toPool[c] \in Seq(Frame)
  BY Zenon DEF TypeOK
<1>1. /\ link[c] = "up" /\ poolSend[c] = NoNonce /\ toPool[c] # <<>>
      /\ toPool' = [toPool EXCEPT ![c] = Tail(toPool[c])]
      /\ UNCHANGED <<connected, lost, link, poolTodo, pc, using, calls, reply>>
  BY Zenon DEF PoolGreet, clientVars, taskVars, ghostVars
<1>2. PICK f \in Frame :
        /\ fromPool' = [fromPool EXCEPT ![c] = Append(fromPool[c], f)]
        /\ f.id = <<>>
  <2>1. PICK body \in {"ok", "malformed"} :
          fromPool' = [fromPool EXCEPT ![c] = Append(fromPool[c],
            PoolFrame(c, Xor(Head(toPool[c]).word, poolKey[c]), "Handshake",
                      NoNonce, <<>>, body))]
    BY Zenon DEF PoolGreet
  <2> DEFINE f == PoolFrame(c, Xor(Head(toPool[c]).word, poolKey[c]),
                            "Handshake", NoNonce, <<>>, body)
  <2>2. Xor(Head(toPool[c]).word, poolKey[c]) \in Word
    <3>1. Head(toPool[c]) \in Frame
      BY <1>types, <1>1, HeadAndTail, Zenon
    <3>2. poolKey[c] \in Word
      BY Zenon DEF TypeOK
    <3> QED BY <3>1, <3>2, FrameFields, XorWord, Zenon
  <2>3. f \in Frame
    <3>1. <<>> \in RequestId /\ NoNonce \in Nonce \cup {NoNonce}
      BY Zenon DEF RequestId
    <3> QED BY <2>2, <3>1, CallCommands, PoolFrameType, Zenon
  <2>4. f.id = <<>>
    BY Zenon DEF PoolFrame
  <2> QED BY <2>1, <2>3, <2>4, Zenon
<1>3. Ready' = [Ready EXCEPT ![c] = Append(Ready[c], <<>>)]
  <2>1. fromPool[c] \in Seq(Frame) /\ Ready[c] = Ids(fromPool[c])
    BY ConnQueues, Zenon
  <2>2. Ids(Append(fromPool[c], f)) = Append(Ids(fromPool[c]), f.id)
    BY <2>1, FramesNamed, IdsAppend, Zenon
  <2>3. Ready' = [Ready EXCEPT ![c] = Ids(Append(fromPool[c], f))]
    BY <1>2, ReadyMoves, Zenon
  <2> QED BY <1>2, <2>1, <2>2, <2>3, Zenon
<1>4. poolTodo[c] = <<>> /\ Head(toPool[c]).id = <<>>
  <2>1. poolTodo[c] = <<>> /\ \A i \in DOMAIN toPool[c] : toPool[c][i].id = <<>>
    BY <1>1, Zenon DEF CallInv, HelloFirst
  <2>2. 1 \in DOMAIN toPool[c] /\ Head(toPool[c]) = toPool[c][1]
    <3> DEFINE s == toPool[c]
    <3>1. s \in Seq(Frame) /\ s # <<>>
      BY <1>types, <1>1
    <3> HIDE DEF s
    <3>2. 1 \in DOMAIN s /\ Head(s) = s[1]
      <4>1. 1 \in 1 .. Len(s) /\ DOMAIN s = 1 .. Len(s)
        BY <3>1, AfterOne, LenProperties
      <4> QED BY <3>1, <4>1, SMT
    <3> QED BY <3>2 DEF s
  <2> QED BY <2>1, <2>2, Zenon
<1>5. /\ Owed[c] = Ids(toPool[c]) /\ Owed[c] # <<>> /\ Head(Owed[c]) = <<>>
      /\ Ids(Tail(toPool[c])) = Tail(Owed[c])
      /\ Ids(poolTodo[c]) = <<>>
  <2>1. Ids(toPool[c]) \in Seq(RequestId)
        /\ Owed[c] = Ids(poolTodo[c]) \o Ids(toPool[c])
    BY <1>1, ConnQueues, Zenon
  <2>2. Ids(poolTodo[c]) = <<>>
    BY <1>4, IdsEmpty, Zenon
  <2>3. \A q \in Seq(RequestId) : <<>> \o q = q
    BY ConcatEmptySeq
  <2>4. Owed[c] = Ids(toPool[c])
    BY <2>1, <2>2, <2>3, Zenon
  <2>5. /\ Ids(toPool[c]) # <<>> /\ Head(Ids(toPool[c])) = Head(toPool[c]).id
        /\ Ids(Tail(toPool[c])) = Tail(Ids(toPool[c]))
    BY <1>types, <1>1, FramesNamed, IdsNonEmpty, IdsTail, Zenon
  <2> QED BY <1>4, <2>2, <2>4, <2>5, Zenon
<1>6. Owed' = [Owed EXCEPT ![c] = Tail(Owed[c])]
  <2>1. \A d \in Client : d # c => /\ link'[d] = link[d]
                                   /\ poolTodo'[d] = poolTodo[d]
                                   /\ toPool'[d] = toPool[d]
    BY <1>types, <1>1, Zenon
  <2>2. Owed' = [Owed EXCEPT ![c] =
          IF link'[c] = "up" THEN Ids(poolTodo'[c]) \o Ids(toPool'[c]) ELSE <<>>]
    BY <2>1, OwedMoves, Zenon
  <2>3. link'[c] = "up" /\ poolTodo'[c] = poolTodo[c] /\ toPool'[c] = Tail(toPool[c])
    BY <1>types, <1>1, Zenon
  <2>4. Tail(Owed[c]) \in Seq(RequestId)
    <3>1. Ids(toPool[c]) \in Seq(RequestId)
      BY ConnQueues, Zenon
    <3> QED BY <1>5, <3>1, HeadAndTail, Zenon
  <2>5. \A q \in Seq(RequestId) : <<>> \o q = q
    BY ConcatEmptySeq
  <2>6. Ids(poolTodo'[c]) \o Ids(toPool'[c]) = Tail(Owed[c])
    BY <1>5, <2>3, <2>4, <2>5, Zenon
  <2> QED BY <2>2, <2>3, <2>6, Zenon
<1> QED
  BY <1>1, <1>3, <1>5, <1>6, Unmoved, Zenon
     DEF Serves, Service!Next, Service!Answer

LEMMA TakeServes ==
  ASSUME TypeOK, NEW c \in Client, PoolTake(c)
  PROVE  Serves
<1>types. /\ toPool \in [Client -> Seq(Frame)] /\ toPool[c] \in Seq(Frame)
          /\ poolTodo \in [Client -> Seq(Todo)] /\ poolTodo[c] \in Seq(Todo)
  BY Zenon DEF TypeOK
<1>1. /\ link[c] = "up" /\ toPool[c] # <<>>
      /\ toPool' = [toPool EXCEPT ![c] = Tail(toPool[c])]
      /\ UNCHANGED <<connected, lost, link, fromPool, pc, using, calls, reply>>
  BY Zenon DEF PoolTake, clientVars, taskVars, ghostVars
<1> DEFINE h == Head(toPool[c])
           r == Ids(poolTodo[c])
           s == Ids(toPool[c])
<1>2. h \in Frame
  BY <1>types, <1>1, HeadAndTail, Zenon
<1>3. PICK x \in Todo : /\ poolTodo' = [poolTodo EXCEPT ![c] = Append(poolTodo[c], x)]
                        /\ x.id = h.id
  <2> DEFINE x == [cmd |-> h.cmd, id |-> h.id]
  <2>1. x \in Todo
    BY <1>2, SMT DEF Frame, Todo
  <2>2. x.id = h.id
    BY Zenon
  <2>3. poolTodo' = [poolTodo EXCEPT ![c] = Append(poolTodo[c], x)]
    BY Zenon DEF PoolTake
  <2> HIDE DEF x
  <2> QED BY <2>1, <2>2, <2>3, Zenon
<1>4. r \in Seq(RequestId) /\ s \in Seq(RequestId) /\ Owed[c] = r \o s
  BY <1>1, ConnQueues, Zenon
<1>5. s # <<>> /\ Head(s) = h.id /\ Ids(Tail(toPool[c])) = Tail(s)
  BY <1>types, <1>1, FramesNamed, IdsNonEmpty, IdsTail, Zenon
<1>6. Ids(Append(poolTodo[c], x)) = Append(r, h.id)
  BY <1>types, <1>3, FramesNamed, IdsAppend, Zenon
<1>7. Append(r, Head(s)) \o Tail(s) = r \o s
  <2>1. r \in Seq(RequestId) /\ s \in Seq(RequestId) /\ s # <<>>
    BY <1>4, <1>5
  <2> HIDE DEF r, s
  <2>2. Head(s) \in RequestId /\ Tail(s) \in Seq(RequestId)
    BY <2>1, HeadAndTail, Zenon
  <2>3. <<Head(s)>> \in Seq(RequestId) /\ Append(r, Head(s)) = r \o <<Head(s)>>
    BY <2>1, <2>2, AppendIsConcat, SMT
  <2>4. \A a, b \in Seq(RequestId) : (r \o a) \o b = r \o (a \o b)
    BY <2>1, ConcatAssociative
  <2>5. <<Head(s)>> \o Tail(s) = s
    BY <2>1, SMT
  <2> QED BY <2>2, <2>3, <2>4, <2>5
<1>8. Owed' = [Owed EXCEPT ![c] = Owed[c]]
  <2>1. \A d \in Client : d # c => /\ link'[d] = link[d]
                                   /\ poolTodo'[d] = poolTodo[d]
                                   /\ toPool'[d] = toPool[d]
    BY <1>types, <1>1, <1>3, Zenon
  <2>2. Owed' = [Owed EXCEPT ![c] =
          IF link'[c] = "up" THEN Ids(poolTodo'[c]) \o Ids(toPool'[c]) ELSE <<>>]
    BY <2>1, OwedMoves, Zenon
  <2>3. /\ link'[c] = "up" /\ poolTodo'[c] = Append(poolTodo[c], x)
        /\ toPool'[c] = Tail(toPool[c])
    BY <1>types, <1>1, <1>3, Zenon
  <2>4. Ids(poolTodo'[c]) \o Ids(toPool'[c]) = Owed[c]
    BY <1>4, <1>5, <1>6, <1>7, <2>3, Zenon
  <2> QED BY <2>2, <2>3, <2>4, Zenon
<1>9. UNCHANGED <<Greeted, Garbled, Owed, Ready, Stages, Via, Numbers, Returned>>
  BY <1>1, <1>8, SameQueues, Unmoved, Zenon
<1> QED BY <1>1, <1>9, Zenon DEF Serves, Service!vars

LEMMA CloseServes ==
  ASSUME TypeOK, NEW c \in Client, PoolClose(c)
  PROVE  Serves
<1>1. /\ link[c] = "up" /\ link' = [link EXCEPT ![c] = "down"]
      /\ toPool' = [toPool EXCEPT ![c] = <<>>]
      /\ \/ fromPool' = fromPool
         \/ fromPool' = [fromPool EXCEPT ![c] = <<>>]
      /\ UNCHANGED <<connected, lost, poolTodo, pc, using, calls, reply>>
  BY Zenon DEF PoolClose, clientVars, poolVars, taskVars, ghostVars
<1>2. Owed' = [Owed EXCEPT ![c] = <<>>]
  <2>1. toPool \in [Client -> Seq(Frame)]
    BY Zenon DEF TypeOK
  <2>2. \A d \in Client : d # c => toPool'[d] = toPool[d]
    BY <1>1, <2>1, Zenon
  <2> QED BY <1>1, <2>2, LinkDown, Zenon
<1>3. \/ Ready' = [Ready EXCEPT ![c] = Ready[c]]
      \/ Ready' = [Ready EXCEPT ![c] = <<>>]
  <2>1. CASE fromPool' = fromPool
    BY <2>1, Unmoved, SameQueues, Zenon
  <2>2. CASE fromPool' = [fromPool EXCEPT ![c] = <<>>]
    BY <2>2, ReadyMoves, IdsEmpty, Zenon
  <2> QED BY <1>1, <2>1, <2>2
<1> QED
  BY <1>1, <1>2, <1>3, Unmoved, Zenon DEF Serves, Service!Next, Service!Break

(***************************************************************************)
(* Every step of the client is a step of the service, or none.             *)
(***************************************************************************)
LEMMA EveryStepServes ==
  TypeOK /\ NonceInv /\ CallInv /\ [Next]_vars => Serves
<1> SUFFICES ASSUME TypeOK, NonceInv, CallInv, [Next]_vars
             PROVE  Serves
  OBVIOUS
<1>1. ASSUME NEW t \in Caller, NEW c \in Client,
             \/ Dial(t, c) \/ DialFails(t, c)
             \/ \E cmd \in Asked : Request(t, c, cmd)
      PROVE  Serves
  <2>1. ASSUME NEW cmd \in Asked, Request(t, c, cmd)
        PROVE  Serves
    <3>1. cmd \in Calls
      BY CallAssumption, Zenon
    <3> QED BY <2>1, <3>1, RequestServes, Zenon
  <2> QED BY <1>1, <2>1, DialServes, DialFailsServes, Zenon
<1>2. ASSUME NEW t \in Task,
             \/ FinishHandshake(t) \/ HandshakeFails(t)
             \/ SendWrite(t) \/ SendFails(t) \/ Receive(t) \/ ReceiveGarbled(t)
      PROVE  Serves
  BY <1>2, HandshakeServes, SendWriteServes, HangUpServes, ReceiveServes,
     GarbledServes, Zenon
<1>3. ASSUME NEW t \in Task,
             SendPrepare(t) \/ RecvCall(t) \/ Return(t) \/ ReceiveEof(t)
      PROVE  Serves
  <2>1. t \in Client \/ t \in Caller
    BY Zenon DEF Task
  <2> QED BY <1>3, <2>1, InnerSteps, HangUpServes, Zenon
<1>4. ASSUME NEW c \in Client,
             \/ SpawnLoop(c) \/ PoolGreet(c) \/ PoolTake(c) \/ PoolAnswer(c)
             \/ PoolPush(c) \/ PoolClose(c)
      PROVE  Serves
  <2>1. c \in Task
    BY Zenon DEF Task
  <2> QED BY <1>4, <2>1, InnerSteps, GreetServes, TakeServes, PoolWriteServes,
             CloseServes, Zenon
<1>5. CASE UNCHANGED vars
  <2>1. /\ UNCHANGED <<connected, lost, link, fromPool, toPool, poolTodo>>
        /\ UNCHANGED <<pc, using, calls, reply>>
    BY <1>5, Zenon DEF vars, clientVars, wireVars, poolVars, taskVars, ghostVars
  <2> QED BY <2>1, Unmoved, Zenon DEF Serves, Service!vars
<1> QED BY <1>1, <1>2, <1>3, <1>4, <1>5, Zenon DEF Next, Step

LEMMA StartServes == Init => Service!Init
<1> SUFFICES ASSUME Init PROVE Service!Init
  OBVIOUS
<1>1. TypeOK
  BY TypeInit
<1>2. /\ link = [c \in Client |-> "none"]
      /\ \A c \in Client : fromPool[c] = <<>>
      /\ \A t \in Caller : pc[t] = "idle" /\ calls[t] = 0 /\ reply[t] = NoReply
      /\ \A t \in Caller : using[t] \in Client
  <2>1. \A t \in Caller : t \in Task /\ t \notin Client
    BY Zenon DEF Task
  <2> QED BY <1>1, <2>1, Zenon DEF Init, TypeOK
<1>7. Greeted = {} /\ Garbled = {}
  BY Zenon DEF Init, Greeted, Garbled
<1>3. Owed = [c \in Client |-> <<>>]
  BY <1>2, SMT DEF Owed
<1>4. Ready = [c \in Client |-> <<>>]
  BY <1>2, IdsEmpty, Zenon DEF Ready
<1>5. Stages = [t \in Caller |-> "idle"]
  <2>1. Stage("idle") = "idle"
    BY StageValues, Zenon
  <2> QED BY <1>2, <2>1, Zenon DEF Stages
<1>6. /\ Via \in [Caller -> Client]
      /\ Numbers = [t \in Caller |-> 0]
      /\ Returned = [t \in Caller |-> NoReply]
  BY <1>2, Zenon DEF Via, Numbers, Returned
<1> QED
  BY <1>2, <1>3, <1>4, <1>5, <1>6, <1>7, Zenon
     DEF Service!Init, Service!NotYet, Service!Nobody, NoReply

(***************************************************************************)
(* DatumProtocolClient implements AnswerService: whatever its tasks, its   *)
(* receive loop, the pool and the network do, a caller sees two FIFO       *)
(* queues.  A call writes one request and is handed at most the message at *)
(* the head of the answers, no message is handed to two readers, and a     *)
(* call that fails without a message leaves only when the connection is    *)
(* down and nothing is left, or on a read that meets bytes that are no     *)
(* message: this may swallow messages and part of another, and no call on  *)
(* that connection returns a message again.                                *)
(***************************************************************************)
THEOREM ClientServes == Spec => ServesCallers
BY StartServes, EveryStepServes, TypeCorrect, NonceInvariant, CallInvariant,
   PTL DEF Spec, Serves, ServesCallers, Service!Spec

(***************************************************************************)
(* The answers to calls that overlap with no other call on their           *)
(* connection, when the pool sends nothing on its own initiative.  This    *)
(* follows from what the service promises: there are never more messages   *)
(* on a connection than calls that wait there, because a call that takes   *)
(* none leaves only when the connection is down and nothing is left, until *)
(* a read on it is garbled, and then no call returns a message.  A call    *)
(* that is alone therefore finds nothing that others left behind.          *)
(***************************************************************************)
\* t is between its request and its return, on connection c.
InCall(t, c) == Stages[t] # "idle" /\ Via[t] = c

\* The calls of F overlap with no other call on their connection; the calls
\* of other tasks may overlap with one another.
Alone(F) ==
  \A t \in F, u \in Caller, c \in Client : InCall(t, c) /\ InCall(u, c) => t = u

\* No two calls overlap on one connection.
CallsInTurn == Alone(Caller)

Waiting(c) == {t \in Caller : Stages[t] = "waiting" /\ Via[t] = c}

\* The messages on connection c: requests without an answer, unread answers.
Total(c) == Len(Owed[c]) + Len(Ready[c])

BoundAt(c) ==
  /\ IsFiniteSet(Waiting(c))
  /\ c \in Greeted \ Garbled => Total(c) <= Cardinality(Waiting(c))
  /\ c \notin Greeted => Total(c) <= 1 /\ \A t \in Caller : ~InCall(t, c)
  /\ link[c] = "none" => c \notin Greeted /\ Total(c) = 0

\* All the messages on connection c are in S.
Only(S, c) == Owed[c] \in Seq(S) /\ Ready[c] \in Seq(S)

\* While t waits there is no request or answer but its own, unless a read was
\* garbled.
MineAt(t) ==
  Stages[t] = "waiting" /\ Via[t] \notin Garbled
    => Only({<<t, Numbers[t]>>}, Via[t])

OwnAt(t) == Returned[t].status = "ok" => Returned[t].id = <<t, Numbers[t]>>

AloneInv(F) ==
  /\ \A c \in Client : BoundAt(c)
  /\ \A t \in F : MineAt(t) /\ OwnAt(t)

ServiceTypes ==
  /\ link \in [Client -> {"none", "up", "down"}]
  /\ Owed \in [Client -> Seq(RequestId)]
  /\ Ready \in [Client -> Seq(RequestId)]
  /\ Stages \in [Caller -> {"idle", "asked", "waiting"}]
  /\ Via \in [Caller -> Client]
  /\ Numbers = [t \in Caller |-> Numbers[t]]
  /\ Returned = [t \in Caller |-> Returned[t]]
  /\ \A c \in Client : link[c] # "up" => Owed[c] = <<>>

LEMMA TypesOfService == TypeOK => ServiceTypes
<1> SUFFICES ASSUME TypeOK PROVE ServiceTypes
  OBVIOUS
<1>1. \A c \in Client : Owed[c] \in Seq(RequestId) /\ Ready[c] \in Seq(RequestId)
  <2> TAKE c \in Client
  <2>1. /\ Ids(toPool[c]) \in Seq(RequestId) /\ Ids(poolTodo[c]) \in Seq(RequestId)
        /\ Ready[c] \in Seq(RequestId)
        /\ Owed[c] = IF link[c] = "up"
                       THEN Ids(poolTodo[c]) \o Ids(toPool[c]) ELSE <<>>
    BY ConnQueues, Zenon
  <2> DEFINE a == Ids(toPool[c])
             b == Ids(poolTodo[c])
  <2>2. b \o a \in Seq(RequestId) /\ <<>> \in Seq(RequestId)
    <3>1. a \in Seq(RequestId) /\ b \in Seq(RequestId)
      BY <2>1
    <3> HIDE DEF a, b
    <3> QED BY <3>1, SMT
  <2> QED BY <2>1, <2>2
<1>2. Owed \in [Client -> Seq(RequestId)] /\ Ready \in [Client -> Seq(RequestId)]
  <2>1. Owed = [c \in Client |-> Owed[c]] /\ Ready = [c \in Client |-> Ready[c]]
    BY Zenon DEF Owed, Ready
  <2> QED BY <1>1, <2>1, Zenon
<1>3. Stages \in [Caller -> {"idle", "asked", "waiting"}]
  <2>1. \A l : Stage(l) \in {"idle", "asked", "waiting"}
    BY Zenon DEF Stage
  <2> QED BY <2>1, Zenon DEF Stages
<1>4. Via \in [Caller -> Client]
  BY Zenon DEF TypeOK, Via, Task
<1>5. /\ Numbers = [t \in Caller |-> Numbers[t]]
      /\ Returned = [t \in Caller |-> Returned[t]]
  BY Zenon DEF Numbers, Returned
<1>6. /\ link \in [Client -> {"none", "up", "down"}]
      /\ \A c \in Client : link[c] # "up" => Owed[c] = <<>>
  BY Zenon DEF TypeOK, Owed
<1> QED BY <1>2, <1>3, <1>4, <1>5, <1>6, Zenon DEF ServiceTypes

LEMMA TotalType ==
  ASSUME ServiceTypes, NEW c \in Client
  PROVE  /\ Total(c) \in Nat
         /\ Len(Owed[c]) \in Nat /\ Len(Ready[c]) \in Nat
         /\ Total(c) = 0 => Owed[c] = <<>> /\ Ready[c] = <<>>
<1> DEFINE o == Owed[c]
           r == Ready[c]
<1>1. o \in Seq(RequestId) /\ r \in Seq(RequestId)
  BY Zenon DEF ServiceTypes
<1>2. Total(c) = Len(o) + Len(r)
  BY Zenon DEF Total
<1> HIDE DEF o, r
<1>3. /\ Total(c) \in Nat /\ Len(o) \in Nat /\ Len(r) \in Nat
      /\ Total(c) = 0 => o = <<>> /\ r = <<>>
  <2>1. Len(o) \in Nat /\ Len(r) \in Nat
    BY <1>1, SMT
  <2>2. (Len(o) = 0 => o = <<>>) /\ (Len(r) = 0 => r = <<>>)
    BY <1>1, EmptySeq
  <2> QED BY <1>2, <2>1, <2>2, SMT
<1> QED BY <1>3 DEF o, r

LEMMA TotalNext ==
  ASSUME ServiceTypes', NEW c \in Client
  PROVE  Total(c)' \in Nat
<1> DEFINE o == Owed'[c]
           r == Ready'[c]
<1>1. o \in Seq(RequestId) /\ r \in Seq(RequestId)
  BY Zenon DEF ServiceTypes
<1>2. Total(c)' = Len(o) + Len(r)
  BY Zenon DEF Total
<1> HIDE DEF o, r
<1>3. Len(o) \in Nat /\ Len(r) \in Nat
  BY <1>1, SMT
<1> QED BY <1>2, <1>3, SMT

(***************************************************************************)
(* The callers that wait when one of them moves.                           *)
(***************************************************************************)
OnlyMoves(t) ==
  \A u \in Caller : u # t => Stages'[u] = Stages[u] /\ Via'[u] = Via[u]

Waits(t, c) == Stages[t] = "waiting" /\ Via[t] = c

LEMMA WaitingMoves ==
  ASSUME NEW t \in Caller, NEW c, OnlyMoves(t), IsFiniteSet(Waiting(c))
  PROVE  /\ IsFiniteSet(Waiting(c)')
         /\ Cardinality(Waiting(c)) \in Nat
         /\ (Waits(t, c) <=> Waits(t, c)')
              => Cardinality(Waiting(c)') = Cardinality(Waiting(c))
         /\ Waits(t, c) /\ ~Waits(t, c)'
              => Cardinality(Waiting(c)') = Cardinality(Waiting(c)) - 1
         /\ ~Waits(t, c) /\ Waits(t, c)'
              => Cardinality(Waiting(c)') = Cardinality(Waiting(c)) + 1
<1> DEFINE w == Waiting(c)
<1>1. /\ t \in w <=> Waits(t, c)
      /\ t \in w' <=> Waits(t, c)'
      /\ \A u : u # t => (u \in w' <=> u \in w)
  BY Zenon DEF Waiting, Waits, OnlyMoves
<1>2. IsFiniteSet(w)
  OBVIOUS
<1> HIDE DEF w
<1>3. Cardinality(w) \in Nat
  BY <1>2, FS_CardinalityType
<1>4. CASE (Waits(t, c) <=> Waits(t, c)')
  <2>0. \A u : u \in w' <=> u \in w
    BY <1>1, <1>4, Zenon
  <2>1. w' = w
    BY <2>0, Zenon
  <2> QED BY <1>2, <1>3, <1>4, <2>1 DEF w
<1>5. CASE Waits(t, c) /\ ~Waits(t, c)'
  <2>1. w' = w \ {t} /\ t \in w
    BY <1>1, <1>5, Zenon
  <2>2. IsFiniteSet(w \ {t}) /\ Cardinality(w \ {t}) = Cardinality(w) - 1
    BY <1>2, <2>1, FS_RemoveElement
  <2> QED BY <1>3, <1>5, <2>1, <2>2 DEF w
<1>6. CASE ~Waits(t, c) /\ Waits(t, c)'
  <2>1. w' = w \cup {t} /\ t \notin w
    BY <1>1, <1>6, Zenon
  <2>2. IsFiniteSet(w \cup {t}) /\ Cardinality(w \cup {t}) = Cardinality(w) + 1
    BY <1>2, <2>1, FS_AddElement
  <2> QED BY <1>3, <1>6, <2>1, <2>2 DEF w
<1> QED BY <1>4, <1>5, <1>6

\* A caller that is alone on a connection and does not wait.
LEMMA NobodyWaits ==
  ASSUME ServiceTypes, NEW F \in SUBSET Caller, Alone(F), NEW t \in F,
         Stages[t] = "asked", BoundAt(Via[t]), Via[t] \notin Garbled
  PROVE  Owed[Via[t]] = <<>> /\ Ready[Via[t]] = <<>>
<1> DEFINE c == Via[t]
<1>1. c \in Client /\ InCall(t, c) /\ t \in Caller
  BY Zenon DEF ServiceTypes, InCall
<1>2. \A u \in Caller : ~(Stages[u] = "waiting" /\ Via[u] = c)
  <2> SUFFICES ASSUME NEW u \in Caller, Stages[u] = "waiting", Via[u] = c
               PROVE  FALSE
    OBVIOUS
  <2>1. InCall(u, c)
    BY Zenon DEF InCall
  <2>2. t = u
    BY <1>1, <2>1, Zenon DEF Alone
  <2> QED BY <2>2
<1>3. Waiting(c) = {}
  BY <1>2, Zenon DEF Waiting
<1>4. c \in Greeted
  BY <1>1, Zenon DEF BoundAt
<1>5. Total(c) <= Cardinality({})
  BY <1>3, <1>4, Zenon DEF BoundAt
<1>6. Total(c) \in Nat /\ Cardinality({}) = 0
  BY <1>1, TotalType, FS_EmptySet, Zenon
<1> HIDE DEF c
<1>7. Total(c) = 0
  BY <1>5, <1>6, SMT
<1>8. Owed[c] = <<>> /\ Ready[c] = <<>>
  BY <1>1, <1>7, TotalType, Zenon
<1> QED BY <1>8 DEF c

(***************************************************************************)
(* The steps that add no message to a connection.                          *)
(***************************************************************************)
Shrinks(c) ==
  /\ Total(c)' <= Total(c)
  /\ \A S : Only(S, c) => Only(S, c)'

LEMMA SameShrinks ==
  ASSUME ServiceTypes, NEW c \in Client, Owed'[c] = Owed[c], Ready'[c] = Ready[c]
  PROVE  Shrinks(c) /\ Total(c)' = Total(c)
<1>1. Total(c)' = Total(c) /\ \A S : Only(S, c) => Only(S, c)'
  BY Zenon DEF Total, Only
<1>2. Total(c) \in Nat
  BY TotalType, Zenon
<1> QED BY <1>1, <1>2, SMT DEF Shrinks

\* The messages of one connection change.
Elsewhere(c) == \A d \in Client : d # c => Owed'[d] = Owed[d] /\ Ready'[d] = Ready[d]

LEMMA PartShrinks ==
  ASSUME ServiceTypes, NEW c \in Client, Owed' = Owed,
         NEW n \in 0 .. Len(Ready[c]),
         Ready' = [Ready EXCEPT ![c] = After(Ready[c], n)]
  PROVE  Shrinks(c) /\ Elsewhere(c) /\ (n # 0 => Total(c)' < Total(c))
<1> DEFINE r == Ready[c]
           q == After(r, n)
<1>1. /\ r \in Seq(RequestId) /\ n \in 0 .. Len(r)
      /\ Ready \in [Client -> Seq(RequestId)]
  BY Zenon DEF ServiceTypes
<1>2. Ready'[c] = q /\ \A d \in Client : d # c => Ready'[d] = Ready[d]
  BY <1>1, Zenon
<1>3. Elsewhere(c)
  BY <1>2, Zenon DEF Elsewhere
<1> HIDE DEF r
<1>4. Len(q) = Len(r) - n
  BY <1>1, AfterType
<1>5. \A S : r \in Seq(S) => q \in Seq(S)
  BY <1>1, AfterType
<1>6. Len(Owed[c]) \in Nat /\ Len(r) \in Nat
  BY TotalType DEF r
<1> HIDE DEF q
<1>7. /\ Total(c)' <= Total(c)
      /\ n # 0 => Total(c)' < Total(c)
  <2>1. Total(c) = Len(Owed[c]) + Len(r) /\ Total(c)' = Len(Owed[c]) + Len(q)
    BY <1>2, Zenon DEF Total, r
  <2> QED BY <1>1, <1>4, <1>6, <2>1, SMT
<1>8. \A S : Only(S, c) => Only(S, c)'
  BY <1>2, <1>5, Zenon DEF Only, r
<1> QED BY <1>3, <1>7, <1>8, Zenon DEF Shrinks

LEMMA TakesShrinks ==
  ASSUME ServiceTypes, NEW c \in Client, Owed' = Owed, Service!Takes(c)
  PROVE  /\ Shrinks(c) /\ Total(c)' < Total(c) /\ Elsewhere(c)
         /\ c \notin Garbled /\ Garbled' = Garbled
<1>1. /\ Ready[c] # <<>> /\ Ready' = [Ready EXCEPT ![c] = Tail(Ready[c])]
      /\ c \notin Garbled /\ Garbled' = Garbled
  BY Zenon DEF Service!Takes
<1>2. Ready[c] \in Seq(RequestId)
  BY Zenon DEF ServiceTypes
<1>3. 1 \in 0 .. Len(Ready[c]) /\ Tail(Ready[c]) = After(Ready[c], 1)
  <2> DEFINE r == Ready[c]
  <2>1. r \in Seq(RequestId) /\ r # <<>>
    BY <1>1, <1>2
  <2> HIDE DEF r
  <2>2. 1 \in 0 .. Len(r) /\ Tail(r) = After(r, 1)
    BY <2>1, AfterOne
  <2> QED BY <2>2 DEF r
<1>4. 1 # 0
  BY SMT
<1> QED BY <1>1, <1>3, <1>4, PartShrinks, Zenon

LEMMA GarblesShrinks ==
  ASSUME ServiceTypes, NEW c \in Client, Owed' = Owed, Service!Garbles(c)
  PROVE  Shrinks(c) /\ Elsewhere(c) /\ Garbled' = Garbled \cup {c}
<1>1. PICK n \in 0 .. Len(Ready[c]) :
        Ready' = [Ready EXCEPT ![c] = After(Ready[c], n)]
  BY Zenon DEF Service!Garbles, After
<1>2. Garbled' = Garbled \cup {c}
  BY Zenon DEF Service!Garbles
<1> QED BY <1>1, <1>2, PartShrinks, Zenon

LEMMA BreakShrinks ==
  ASSUME ServiceTypes, NEW c \in Client, Service!Break(c)
  PROVE  Shrinks(c) /\ Elsewhere(c)
<1>1. /\ Owed' = [Owed EXCEPT ![c] = <<>>]
      /\ \/ Ready' = [Ready EXCEPT ![c] = Ready[c]]
         \/ Ready' = [Ready EXCEPT ![c] = <<>>]
  BY Zenon DEF Service!Break
<1>2. Owed \in [Client -> Seq(RequestId)] /\ Ready \in [Client -> Seq(RequestId)]
  BY Zenon DEF ServiceTypes
<1>3. /\ Owed'[c] = <<>> /\ (Ready'[c] = Ready[c] \/ Ready'[c] = <<>>)
      /\ Elsewhere(c)
  BY <1>1, <1>2, Zenon DEF Elsewhere
<1>4. Len(<<>>) = 0 /\ \A S : <<>> \in Seq(S)
  BY SMT
<1>5. Len(Owed[c]) \in Nat /\ Len(Ready[c]) \in Nat
  BY TotalType, Zenon
<1>6. \A S : Only(S, c) => Only(S, c)'
  BY <1>3, <1>4, Zenon DEF Only
<1>7. Total(c)' <= Total(c)
  <2>1. /\ Total(c)' = Len(Owed'[c]) + Len(Ready'[c])
        /\ Total(c) = Len(Owed[c]) + Len(Ready[c])
    BY Zenon DEF Total
  <2>2. Len(Owed'[c]) = 0 /\ (Len(Ready'[c]) = Len(Ready[c]) \/ Len(Ready'[c]) = 0)
    BY <1>3, <1>4, Zenon
  <2> DEFINE x == Len(Owed[c])
             y == Len(Ready[c])
             z == Len(Ready'[c])
  <2>3. x \in Nat /\ y \in Nat /\ (z = y \/ z = 0)
    BY <1>5, <2>2
  <2> HIDE DEF x, y, z
  <2>4. 0 + z <= x + y
    BY <2>3, SMT
  <2> QED BY <2>1, <2>2, <2>4 DEF x, y, z
<1> QED BY <1>3, <1>6, <1>7, Zenon DEF Shrinks

LEMMA AnswerShrinks ==
  ASSUME ServiceTypes, NEW c \in Client, Service!Answer(c)
  PROVE  Shrinks(c) /\ Elsewhere(c)
<1> DEFINE o == Owed[c]
           r == Ready[c]
<1>1. /\ o # <<>> /\ Ready' = [Ready EXCEPT ![c] = Append(r, Head(o))]
      /\ Owed' = [Owed EXCEPT ![c] = Tail(o)]
  BY Zenon DEF Service!Answer
<1>2. /\ Owed \in [Client -> Seq(RequestId)] /\ Ready \in [Client -> Seq(RequestId)]
      /\ o \in Seq(RequestId) /\ r \in Seq(RequestId)
  BY Zenon DEF ServiceTypes
<1>3. Owed'[c] = Tail(o) /\ Ready'[c] = Append(r, Head(o)) /\ Elsewhere(c)
  BY <1>1, <1>2, Zenon DEF Elsewhere
<1>4. Total(c) = Len(o) + Len(r) /\ Total(c)' = Len(Tail(o)) + Len(Append(r, Head(o)))
  BY <1>3, Zenon DEF Total
<1>5. \A S : Only(S, c) <=> o \in Seq(S) /\ r \in Seq(S)
  BY Zenon DEF Only
<1>6. \A S : Only(S, c)' <=> Tail(o) \in Seq(S) /\ Append(r, Head(o)) \in Seq(S)
  BY <1>3, Zenon DEF Only
<1>7. o # <<>>
  BY <1>1
<1>8. o \in Seq(RequestId) /\ r \in Seq(RequestId)
  BY <1>2
<1> HIDE DEF o, r
<1>9. Len(Tail(o)) + Len(Append(r, Head(o))) <= Len(o) + Len(r)
  <2>1. Len(Tail(o)) = Len(o) - 1 /\ Len(o) \in Nat
    BY <1>7, <1>8, SMT
  <2>2. Len(Append(r, Head(o))) = Len(r) + 1 /\ Len(r) \in Nat
    <3>1. Head(o) \in RequestId
      BY <1>7, <1>8, HeadAndTail, Zenon
    <3> QED BY <1>8, <3>1, SMT
  <2> DEFINE x == Len(o)
             y == Len(r)
  <2>3. x \in Nat /\ y \in Nat
    BY <2>1, <2>2
  <2> HIDE DEF x, y
  <2>4. (x - 1) + (y + 1) <= x + y
    BY <2>3, SMT
  <2> QED BY <2>1, <2>2, <2>4 DEF x, y
<1>10. ASSUME NEW S, o \in Seq(S), r \in Seq(S)
       PROVE  Tail(o) \in Seq(S) /\ Append(r, Head(o)) \in Seq(S)
  <2>1. Head(o) \in S /\ Tail(o) \in Seq(S)
    BY <1>7, <1>10, HeadAndTail, Zenon
  <2> QED BY <1>10, <2>1, SMT
<1> QED BY <1>3, <1>4, <1>5, <1>6, <1>9, <1>10, Zenon DEF Shrinks

(***************************************************************************)
(* The invariant under a step of the connection.                           *)
(***************************************************************************)
LEMMA BoundKept ==
  ASSUME ServiceTypes, ServiceTypes', NEW d \in Client, BoundAt(d),
         Shrinks(d), UNCHANGED <<Stages, Via>>, Garbled \subseteq Garbled',
         d \in Greeted' <=> d \in Greeted,
         link'[d] = "none" => link[d] = "none"
  PROVE  BoundAt(d)'
<1>1. Waiting(d)' = Waiting(d) /\ \A t \in Caller : InCall(t, d)' <=> InCall(t, d)
  BY Zenon DEF Waiting, InCall
<1>2. Total(d)' <= Total(d) /\ Total(d) \in Nat /\ Total(d)' \in Nat
  BY TotalType, TotalNext, Zenon DEF Shrinks
<1>3. IsFiniteSet(Waiting(d)) /\ Cardinality(Waiting(d)) \in Nat
  BY FS_CardinalityType DEF BoundAt
<1>4. d \in Greeted' \ Garbled' => Total(d)' <= Cardinality(Waiting(d)')
  <2>1. ASSUME d \in Greeted' \ Garbled'
        PROVE  Total(d) <= Cardinality(Waiting(d))
    BY <2>1, Zenon DEF BoundAt
  <2> QED BY <1>1, <1>2, <1>3, <2>1, SMT
<1>5. d \notin Greeted' => Total(d)' <= 1 /\ \A t \in Caller : ~InCall(t, d)'
  <2>1. ASSUME d \notin Greeted'
        PROVE  Total(d) <= 1 /\ \A t \in Caller : ~InCall(t, d)
    BY <2>1, Zenon DEF BoundAt
  <2>2. Total(d) <= 1 => Total(d)' <= 1
    BY <1>2, SMT
  <2> QED BY <1>1, <2>1, <2>2, Zenon
<1>6. link'[d] = "none" => d \notin Greeted' /\ Total(d)' = 0
  <2>1. ASSUME link'[d] = "none" PROVE d \notin Greeted' /\ Total(d) = 0
    BY <2>1, Zenon DEF BoundAt
  <2>2. Total(d) = 0 => Total(d)' = 0
    BY <1>2, SMT
  <2> QED BY <2>1, <2>2, Zenon
<1> QED BY <1>1, <1>3, <1>4, <1>5, <1>6, Zenon DEF BoundAt

LEMMA MineKept ==
  ASSUME NEW t \in Caller, MineAt(t), OwnAt(t), Shrinks(Via[t]),
         UNCHANGED <<Stages, Via, Numbers, Returned>>,
         Garbled \subseteq Garbled'
  PROVE  MineAt(t)' /\ OwnAt(t)'
BY Zenon DEF MineAt, OwnAt, Shrinks, Only

LEMMA AllShrink ==
  ASSUME ServiceTypes, NEW c \in Client, Shrinks(c), Elsewhere(c), NEW d \in Client
  PROVE  Shrinks(d)
<1>1. d # c => Owed'[d] = Owed[d] /\ Ready'[d] = Ready[d]
  BY Zenon DEF Elsewhere
<1> QED BY <1>1, SameShrinks, Zenon

LEMMA ConnectionSteps ==
  ASSUME ServiceTypes, ServiceTypes', NEW F \in SUBSET Caller, AloneInv(F),
         NEW c \in Client,
         \/ Service!Unreachable(c) \/ Service!Break(c) \/ Service!Answer(c)
         \/ Service!Greet(c) \/ Service!Discard(c)
  PROVE  AloneInv(F)'
<1>1. UNCHANGED <<Stages, Via, Numbers, Returned>>
  BY Zenon DEF Service!Unreachable, Service!Break, Service!Answer,
               Service!Greet, Service!Discard
<1>2. Shrinks(c) /\ Elsewhere(c) /\ Garbled \subseteq Garbled'
  <2>1. ASSUME Service!Unreachable(c)
        PROVE  Shrinks(c) /\ Elsewhere(c)
    <3>1. Owed' = Owed /\ Ready' = Ready
      BY <2>1, Zenon DEF Service!Unreachable
    <3> QED BY <3>1, SameShrinks, Zenon DEF Elsewhere
  <2>2. ASSUME Service!Greet(c) \/ Service!Discard(c)
        PROVE  Shrinks(c) /\ Elsewhere(c) /\ Garbled \subseteq Garbled'
    <3>1. Owed' = Owed /\ (Service!Takes(c) \/ Service!Garbles(c))
      BY <2>2, Zenon DEF Service!Greet, Service!Discard
    <3> QED BY <3>1, TakesShrinks, GarblesShrinks, Zenon
  <2>3. ASSUME \/ Service!Unreachable(c) \/ Service!Break(c) \/ Service!Answer(c)
        PROVE  Garbled' = Garbled
    BY <2>3, Zenon DEF Service!Unreachable, Service!Break, Service!Answer
  <2> QED BY <2>1, <2>2, <2>3, BreakShrinks, AnswerShrinks, Zenon
<1>3. \A d \in Client : Shrinks(d)
  BY <1>2, AllShrink, Zenon
<1>4. \A t \in F : t \in Caller /\ Via[t] \in Client
  BY Zenon DEF ServiceTypes
<1>5. \A t \in F : MineAt(t)' /\ OwnAt(t)'
  BY <1>1, <1>2, <1>3, <1>4, MineKept, Zenon DEF AloneInv
<1>6. \A d \in Client : link'[d] = "none" => link[d] = "none"
  <2>1. \/ link' = link
        \/ link' = [link EXCEPT ![c] = "down"]
    BY Zenon DEF Service!Unreachable, Service!Break, Service!Answer,
                 Service!Greet, Service!Discard
  <2>2. link \in [Client -> {"none", "up", "down"}]
    BY Zenon DEF ServiceTypes
  <2>3. "down" # "none"
    BY SMT
  <2> QED BY <2>1, <2>2, <2>3, Zenon
<1>7. ASSUME NEW d \in Client, d \in Greeted' <=> d \in Greeted
      PROVE  BoundAt(d)'
  BY <1>1, <1>2, <1>3, <1>6, <1>7, BoundKept, Zenon DEF AloneInv
<1>8. ASSUME Service!Greet(c)
      PROVE  BoundAt(c)'
  <2>1. /\ c \notin Greeted /\ Greeted' = Greeted \cup {c} /\ Owed' = Owed
        /\ Service!Takes(c)
    BY <1>8, Zenon DEF Service!Greet
  <2>2. Total(c) <= 1 /\ BoundAt(c)
    BY <2>1, Zenon DEF AloneInv, BoundAt
  <2>3. Total(c)' < Total(c) /\ Total(c) \in Nat /\ Total(c)' \in Nat
    BY <2>1, TakesShrinks, TotalType, TotalNext, Zenon
  <2>4. Total(c)' = 0 /\ Total(c) # 0
    BY <2>2, <2>3, SMT
  <2>5. link[c] # "none"
    BY <2>2, <2>4, Zenon DEF BoundAt
  <2>6. Waiting(c)' = Waiting(c) /\ IsFiniteSet(Waiting(c))
    BY <1>1, <2>2, Zenon DEF Waiting, BoundAt
  <2>7. Cardinality(Waiting(c)) \in Nat
    BY <2>6, FS_CardinalityType
  <2>8. Total(c)' <= Cardinality(Waiting(c)')
    BY <2>4, <2>6, <2>7, SMT
  <2>9. link'[c] # "none" /\ c \in Greeted'
    BY <1>6, <2>1, <2>5, Zenon
  <2> QED BY <2>6, <2>8, <2>9, Zenon DEF BoundAt
<1>9. \A d \in Client : \/ d \in Greeted' <=> d \in Greeted
                        \/ Service!Greet(c) /\ d = c
  <2>1. ASSUME Service!Greet(c)
        PROVE  Greeted' = Greeted \cup {c}
    BY <2>1, Zenon DEF Service!Greet
  <2>2. \/ Service!Greet(c)
        \/ Greeted' = Greeted
    BY Zenon DEF Service!Unreachable, Service!Break, Service!Answer,
                 Service!Discard
  <2> QED BY <2>1, <2>2, Zenon
<1>10. \A d \in Client : BoundAt(d)'
  BY <1>7, <1>8, <1>9, Zenon
<1> QED BY <1>5, <1>10, Zenon DEF AloneInv

(***************************************************************************)
(* The invariant under a step of a caller.                                 *)
(***************************************************************************)
LEMMA BoundMoves ==
  ASSUME ServiceTypes, ServiceTypes', NEW t \in Caller, NEW d \in Client,
         OnlyMoves(t), BoundAt(d), Shrinks(d), Greeted' = Greeted,
         Garbled \subseteq Garbled', link'[d] = link[d],
         Waits(t, d)' => Waits(t, d),
         Waits(t, d) /\ ~Waits(t, d)'
           => Total(d)' < Total(d) \/ Total(d)' = 0 \/ d \in Garbled',
         InCall(t, d)' => InCall(t, d) \/ d \in Greeted
  PROVE  BoundAt(d)'
<1>1. Total(d)' <= Total(d) /\ Total(d) \in Nat /\ Total(d)' \in Nat
  BY TotalType, TotalNext, Zenon DEF Shrinks
<1>2. IsFiniteSet(Waiting(d))
  BY Zenon DEF BoundAt
<1>3. /\ IsFiniteSet(Waiting(d)') /\ Cardinality(Waiting(d)) \in Nat
      /\ (Waits(t, d) <=> Waits(t, d)')
           => Cardinality(Waiting(d)') = Cardinality(Waiting(d))
      /\ Waits(t, d) /\ ~Waits(t, d)'
           => Cardinality(Waiting(d)') = Cardinality(Waiting(d)) - 1
  BY <1>2, WaitingMoves, Zenon
<1>4. Cardinality(Waiting(d)') \in Nat
  BY <1>3, FS_CardinalityType
<1>5. d \in Greeted' \ Garbled' => Total(d)' <= Cardinality(Waiting(d)')
  <2> SUFFICES ASSUME d \in Greeted' \ Garbled'
               PROVE  Total(d)' <= Cardinality(Waiting(d)')
    OBVIOUS
  <2>1. Total(d) <= Cardinality(Waiting(d))
    BY Zenon DEF BoundAt
  <2>2. CASE Waits(t, d) <=> Waits(t, d)'
    BY <1>1, <1>3, <2>1, <2>2, SMT
  <2>3. CASE Waits(t, d) /\ ~Waits(t, d)'
    <3>1. Total(d)' < Total(d) \/ Total(d)' = 0
      BY <2>3, Zenon
    <3> QED BY <1>1, <1>3, <1>4, <2>1, <2>3, <3>1, SMT
  <2> QED BY <2>2, <2>3, Zenon
<1>6. d \notin Greeted' => Total(d)' <= 1 /\ \A u \in Caller : ~InCall(u, d)'
  <2>1. ASSUME d \notin Greeted'
        PROVE  Total(d) <= 1 /\ \A u \in Caller : ~InCall(u, d)
    BY <2>1, Zenon DEF BoundAt
  <2>2. Total(d) <= 1 => Total(d)' <= 1
    BY <1>1, SMT
  <2>3. \A u \in Caller : u # t /\ InCall(u, d)' => InCall(u, d)
    BY Zenon DEF OnlyMoves, InCall
  <2> QED BY <2>1, <2>2, <2>3, Zenon
<1>7. link'[d] = "none" => d \notin Greeted' /\ Total(d)' = 0
  <2>1. ASSUME link'[d] = "none" PROVE d \notin Greeted' /\ Total(d) = 0
    BY <2>1, Zenon DEF BoundAt
  <2>2. Total(d) = 0 => Total(d)' = 0
    BY <1>1, SMT
  <2> QED BY <2>1, <2>2, Zenon
<1> QED BY <1>3, <1>5, <1>6, <1>7, Zenon DEF BoundAt

LEMMA OtherMine ==
  ASSUME NEW t \in Caller, MineAt(t), OwnAt(t),
         Stages'[t] = Stages[t], Via'[t] = Via[t],
         Numbers'[t] = Numbers[t], Returned'[t] = Returned[t],
         Stages[t] = "waiting" => Shrinks(Via[t]), Garbled \subseteq Garbled'
  PROVE  MineAt(t)' /\ OwnAt(t)'
BY Zenon DEF MineAt, OwnAt, Shrinks, Only

\* What a step of t leaves of the other callers.
OthersStay(t) ==
  \A u \in Caller : u # t => /\ Stages'[u] = Stages[u] /\ Via'[u] = Via[u]
                             /\ Numbers'[u] = Numbers[u]
                             /\ Returned'[u] = Returned[u]

LEMMA ConnectStep ==
  ASSUME ServiceTypes, ServiceTypes', NEW F \in SUBSET Caller, AloneInv(F),
         NEW t \in Caller, NEW c \in Client, Service!Connect(t, c)
  PROVE  AloneInv(F)'
<1>1. /\ Stages[t] = "idle" /\ link[c] = "none"
      /\ link' = [link EXCEPT ![c] = "up"]
      /\ Owed' = [Owed EXCEPT ![c] = <<Service!Nobody>>]
      /\ Via' = [Via EXCEPT ![t] = c]
      /\ UNCHANGED <<Greeted, Garbled, Ready, Stages, Numbers, Returned>>
  BY Zenon DEF Service!Connect
<1>2. /\ link'[c] = "up" /\ \A d \in Client : d # c => link'[d] = link[d]
      /\ Owed'[c] = <<Service!Nobody>> /\ Elsewhere(c)
      /\ OnlyMoves(t) /\ OthersStay(t)
  BY <1>1, Zenon DEF ServiceTypes, Elsewhere, OnlyMoves, OthersStay
<1>3. \A d \in Client : /\ ~Waits(t, d) /\ ~Waits(t, d)'
                        /\ ~InCall(t, d) /\ ~InCall(t, d)'
  BY <1>1, Zenon DEF Waits, InCall
<1>4. BoundAt(c) /\ c \notin Greeted /\ Total(c) = 0
  BY <1>1, Zenon DEF AloneInv, BoundAt
<1>5. ASSUME NEW d \in Client, d # c
      PROVE  Shrinks(d) /\ BoundAt(d)'
  <2>1. Shrinks(d) /\ BoundAt(d)
    BY <1>2, <1>5, SameShrinks, Zenon DEF Elsewhere, AloneInv
  <2> QED BY <1>1, <1>2, <1>3, <1>5, <2>1, BoundMoves, Zenon
<1>6. BoundAt(c)'
  <2>1. Total(c)' <= 1
    <3>1. Ready[c] = <<>>
      BY <1>4, TotalType, Zenon
    <3>2. Total(c)' = Len(<<Service!Nobody>>) + Len(<<>>)
      BY <1>1, <1>2, <3>1, Zenon DEF Total
    <3>3. Len(<<Service!Nobody>>) = 1 /\ Len(<<>>) = 0
      BY SMT
    <3> QED BY <3>2, <3>3, SMT
  <2>2. IsFiniteSet(Waiting(c)')
    BY <1>2, <1>4, WaitingMoves, Zenon DEF BoundAt
  <2>3. \A u \in Caller : ~InCall(u, c)'
    <3>1. \A u \in Caller : ~InCall(u, c)
      BY <1>4, Zenon DEF BoundAt
    <3>2. \A u \in Caller : u # t /\ InCall(u, c)' => InCall(u, c)
      BY <1>2, Zenon DEF OnlyMoves, InCall
    <3> QED BY <1>3, <3>1, <3>2, Zenon
  <2>4. link'[c] # "none" /\ c \notin Greeted'
    <3>1. "up" # "none"
      BY SMT
    <3> QED BY <1>1, <1>2, <1>4, <3>1, Zenon
  <2> QED BY <2>1, <2>2, <2>3, <2>4, Zenon DEF BoundAt
<1>7. ASSUME NEW u \in F
      PROVE  MineAt(u)' /\ OwnAt(u)'
  <2>1. u \in Caller /\ MineAt(u) /\ OwnAt(u) /\ Via[u] \in Client
    BY Zenon DEF AloneInv, ServiceTypes
  <2>2. CASE u = t
    BY <1>1, <2>1, <2>2, Zenon DEF MineAt, OwnAt
  <2>3. CASE u # t
    <3>1. Stages[u] = "waiting" => Via[u] # c
      <4> SUFFICES ASSUME Stages[u] = "waiting", Via[u] = c PROVE FALSE
        OBVIOUS
      <4>1. InCall(u, c)
        BY Zenon DEF InCall
      <4> QED BY <1>4, <2>1, <4>1, Zenon DEF BoundAt
    <3> QED BY <1>1, <1>2, <1>5, <2>1, <2>3, <3>1, OtherMine, Zenon DEF OthersStay
  <2> QED BY <2>2, <2>3
<1>8. \A d \in Client : BoundAt(d)'
  BY <1>5, <1>6, Zenon
<1> QED BY <1>7, <1>8, Zenon DEF AloneInv

LEMMA AskStep ==
  ASSUME ServiceTypes, ServiceTypes', NEW F \in SUBSET Caller, AloneInv(F),
         NEW t \in Caller, NEW c \in Client, Service!Ask(t, c)
  PROVE  AloneInv(F)'
<1>1. /\ Stages[t] = "idle" /\ c \in Greeted
      /\ Stages' = [Stages EXCEPT ![t] = "asked"]
      /\ Via' = [Via EXCEPT ![t] = c]
      /\ Numbers' = [Numbers EXCEPT ![t] = Numbers[t] + 1]
      /\ Returned' = [Returned EXCEPT ![t] = Service!NotYet]
      /\ UNCHANGED <<link, Greeted, Garbled, Owed, Ready>>
  BY Zenon DEF Service!Ask
<1>2. /\ Stages'[t] = "asked" /\ Via'[t] = c /\ Returned'[t] = Service!NotYet
      /\ OnlyMoves(t) /\ OthersStay(t)
  BY <1>1, Zenon DEF ServiceTypes, OnlyMoves, OthersStay
<1>3. \A d \in Client : ~Waits(t, d) /\ ~Waits(t, d)'
  BY <1>1, <1>2, Zenon DEF Waits
<1>4. \A d \in Client : InCall(t, d)' => d \in Greeted
  BY <1>1, <1>2, Zenon DEF InCall
<1>5. ASSUME NEW d \in Client
      PROVE  Shrinks(d) /\ BoundAt(d)'
  <2>1. Shrinks(d) /\ BoundAt(d)
    BY <1>1, SameShrinks, Zenon DEF AloneInv
  <2> QED BY <1>1, <1>2, <1>3, <1>4, <2>1, BoundMoves, Zenon
<1>6. ASSUME NEW u \in F
      PROVE  MineAt(u)' /\ OwnAt(u)'
  <2>1. u \in Caller /\ MineAt(u) /\ OwnAt(u) /\ Via[u] \in Client
    BY Zenon DEF AloneInv, ServiceTypes
  <2>2. CASE u = t
    <3>1. Service!NotYet.status # "ok"
      BY SMT DEF Service!NotYet
    <3> QED BY <1>2, <2>2, <3>1, Zenon DEF MineAt, OwnAt
  <2>3. CASE u # t
    BY <1>1, <1>2, <1>5, <2>1, <2>3, OtherMine, Zenon DEF OthersStay
  <2> QED BY <2>2, <2>3
<1> QED BY <1>5, <1>6, Zenon DEF AloneInv

LEMMA WriteStep ==
  ASSUME ServiceTypes, ServiceTypes', NEW F \in SUBSET Caller, AloneInv(F),
         Alone(F), NEW t \in Caller, Service!Write(t)
  PROVE  AloneInv(F)'
<1>0. PICK c \in Client : Via[t] = c
  BY Zenon DEF ServiceTypes
<1> DEFINE id == <<t, Numbers[t]>>
           o == Owed[c]
<1>1. /\ Stages[t] = "asked"
      /\ Stages' = [Stages EXCEPT ![t] = "waiting"]
      /\ \/ Owed' = [Owed EXCEPT ![c] = Append(o, id)]
         \/ Owed' = Owed
      /\ UNCHANGED <<link, Greeted, Garbled, Ready, Via, Numbers, Returned>>
  BY <1>0, Zenon DEF Service!Write
<1>2. /\ o \in Seq(RequestId)
      /\ Stages'[t] = "waiting" /\ (Owed'[c] = Append(o, id) \/ Owed'[c] = o)
      /\ OnlyMoves(t) /\ OthersStay(t) /\ Elsewhere(c)
  BY <1>1, Zenon DEF ServiceTypes, OnlyMoves, OthersStay, Elsewhere
<1>3. \A d \in Client : d # c => ~Waits(t, d) /\ ~Waits(t, d)'
  BY <1>0, <1>1, Zenon DEF Waits
<1>4. InCall(t, c) /\ BoundAt(c) /\ c \in Greeted
  <2>1. InCall(t, c) /\ BoundAt(c)
    BY <1>0, <1>1, Zenon DEF InCall, AloneInv
  <2> QED BY <2>1, Zenon DEF BoundAt
<1>5. ASSUME NEW d \in Client, d # c
      PROVE  Shrinks(d) /\ BoundAt(d)'
  <2>1. Shrinks(d) /\ BoundAt(d)
    BY <1>1, <1>2, <1>5, SameShrinks, Zenon DEF AloneInv, Elsewhere
  <2>2. ~InCall(t, d)'
    BY <1>0, <1>1, <1>5, Zenon DEF InCall
  <2> QED BY <1>1, <1>2, <1>3, <1>5, <2>1, <2>2, BoundMoves, Zenon
<1>6. Total(c)' \in Nat /\ Total(c)' <= Total(c) + 1
  <2>1. /\ Total(c) = Len(o) + Len(Ready[c])
        /\ Total(c)' = Len(Owed'[c]) + Len(Ready[c])
    BY <1>1, Zenon DEF Total
  <2>2. Len(Append(o, id)) = Len(o) + 1
    <3>1. o \in Seq(RequestId)
      BY <1>2
    <3> HIDE DEF o, id
    <3>2. o \in Seq(RequestId \cup {id})
      BY <3>1, SMT
    <3> QED BY <3>2, SMT
  <2> DEFINE x == Len(o)
             y == Len(Ready[c])
             z == Len(Owed'[c])
  <2>3. (z = x + 1 \/ z = x) /\ x \in Nat /\ y \in Nat
    BY <1>2, <2>2, TotalType, Zenon
  <2> HIDE DEF x, y, z
  <2>4. z + y <= (x + y) + 1 /\ z + y \in Nat
    BY <2>3, SMT
  <2> QED BY <2>1, <2>4 DEF x, y, z
<1>7. BoundAt(c)'
  <2>1. Waits(t, c)' /\ ~Waits(t, c)
    BY <1>0, <1>1, <1>2, Zenon DEF Waits
  <2>2. /\ IsFiniteSet(Waiting(c))
        /\ c \notin Garbled => Total(c) <= Cardinality(Waiting(c))
    BY <1>4, Zenon DEF BoundAt
  <2>3. /\ IsFiniteSet(Waiting(c)')
        /\ Cardinality(Waiting(c)') = Cardinality(Waiting(c)) + 1
        /\ Cardinality(Waiting(c)) \in Nat
    BY <1>2, <2>1, <2>2, WaitingMoves, Zenon
  <2>4. Total(c) \in Nat
    BY <1>2, TotalType, Zenon
  <2>5. c \notin Garbled => Total(c)' <= Cardinality(Waiting(c)')
    <3> SUFFICES ASSUME c \notin Garbled
                 PROVE  Total(c)' <= Cardinality(Waiting(c)')
      OBVIOUS
    <3> DEFINE a == Total(c)
               b == Total(c)'
               m == Cardinality(Waiting(c))
    <3>1. a \in Nat /\ b \in Nat /\ m \in Nat /\ b <= a + 1 /\ a <= m
      BY <1>6, <2>2, <2>3, <2>4
    <3> HIDE DEF a, b, m
    <3>2. b <= m + 1
      BY <3>1, SMT
    <3> QED BY <2>3, <3>2 DEF b, m
  <2>6. /\ link[c] # "none" /\ link'[c] = link[c]
        /\ Greeted' = Greeted /\ Garbled' = Garbled
    BY <1>1, <1>4, Zenon DEF BoundAt
  <2> QED BY <1>4, <2>3, <2>5, <2>6, Zenon DEF BoundAt
<1>8. ASSUME NEW u \in F
      PROVE  MineAt(u)' /\ OwnAt(u)'
  <2>1. u \in Caller /\ MineAt(u) /\ OwnAt(u) /\ Via[u] \in Client
    BY Zenon DEF AloneInv, ServiceTypes
  <2>2. CASE u = t /\ c \in Garbled
    BY <1>0, <1>1, <2>1, <2>2, Zenon DEF MineAt, OwnAt
  <2>3. CASE u = t /\ c \notin Garbled
    <3>1. o = <<>> /\ Ready[c] = <<>>
      BY <1>0, <1>1, <1>4, <2>3, NobodyWaits, Zenon
    <3>2. Append(<<>>, id) \in Seq({id}) /\ <<>> \in Seq({id})
      <4> HIDE DEF id
      <4> QED BY SMT
    <3>3. Owed'[c] \in Seq({id}) /\ Ready'[c] \in Seq({id})
      BY <1>1, <1>2, <3>1, <3>2, Zenon
    <3>4. MineAt(t)'
      BY <1>0, <1>1, <3>3, Zenon DEF MineAt, Only
    <3> QED BY <1>1, <2>1, <2>3, <3>4, Zenon DEF OwnAt
  <2>4. CASE u # t
    <3>1. Stages[u] = "waiting" => Via[u] # c
      <4> SUFFICES ASSUME Stages[u] = "waiting", Via[u] = c PROVE FALSE
        OBVIOUS
      <4>1. InCall(u, c)
        BY Zenon DEF InCall
      <4> QED BY <1>4, <2>1, <2>4, <4>1, Zenon DEF Alone
    <3> QED BY <1>1, <1>2, <1>5, <2>1, <2>4, <3>1, OtherMine, Zenon DEF OthersStay
  <2> QED BY <2>2, <2>3, <2>4, Zenon
<1>9. \A d \in Client : BoundAt(d)'
  BY <1>5, <1>7, Zenon
<1> QED BY <1>8, <1>9, Zenon DEF AloneInv

\* A step in which t's call returns r: it takes a message, or none was there
\* to take, or its read is garbled.
ReturnsWith(t, c, r) ==
  /\ Via[t] = c /\ Stages[t] # "idle"
  /\ Stages' = [Stages EXCEPT ![t] = "idle"]
  /\ Returned' = [Returned EXCEPT ![t] = r]
  /\ UNCHANGED <<link, Greeted, Via, Numbers>>
  /\ Garbled \subseteq Garbled' /\ Shrinks(c) /\ Elsewhere(c)
  /\ Stages[t] = "waiting"
       => Total(c)' < Total(c) \/ Total(c)' = 0 \/ c \in Garbled'

LEMMA ReturnStep ==
  ASSUME ServiceTypes, ServiceTypes', NEW F \in SUBSET Caller, AloneInv(F),
         NEW t \in Caller, NEW c \in Client, NEW r, ReturnsWith(t, c, r),
         t \in F => (r.status = "ok" => r.id = <<t, Numbers[t]>>)
  PROVE  AloneInv(F)'
<1>1. /\ Via[t] = c /\ Stages[t] # "idle"
      /\ Stages' = [Stages EXCEPT ![t] = "idle"]
      /\ Returned' = [Returned EXCEPT ![t] = r]
      /\ UNCHANGED <<link, Greeted, Via, Numbers>>
      /\ Garbled \subseteq Garbled' /\ Shrinks(c) /\ Elsewhere(c)
      /\ Stages[t] = "waiting"
           => Total(c)' < Total(c) \/ Total(c)' = 0 \/ c \in Garbled'
  BY Zenon DEF ReturnsWith
<1>2. /\ Stages'[t] = "idle" /\ Returned'[t] = r
      /\ OnlyMoves(t) /\ OthersStay(t)
  BY <1>1, Zenon DEF ServiceTypes, OnlyMoves, OthersStay
<1>3. "idle" # "waiting"
  BY SMT
<1>4. ASSUME NEW d \in Client
      PROVE  Shrinks(d) /\ BoundAt(d)'
  <2>1. Shrinks(d) /\ BoundAt(d)
    BY <1>1, AllShrink, Zenon DEF AloneInv
  <2>2. ~Waits(t, d)' /\ ~InCall(t, d)'
    BY <1>2, <1>3, Zenon DEF Waits, InCall
  <2>3. Waits(t, d) => Total(d)' < Total(d) \/ Total(d)' = 0 \/ d \in Garbled'
    BY <1>1, Zenon DEF Waits
  <2> QED BY <1>1, <1>2, <2>1, <2>2, <2>3, BoundMoves, Zenon
<1>5. ASSUME NEW u \in F
      PROVE  MineAt(u)' /\ OwnAt(u)'
  <2>1. u \in Caller /\ MineAt(u) /\ OwnAt(u) /\ Via[u] \in Client
    BY Zenon DEF AloneInv, ServiceTypes
  <2>2. CASE u = t
    BY <1>1, <1>2, <1>3, <2>2, Zenon DEF MineAt, OwnAt
  <2>3. CASE u # t
    BY <1>1, <1>2, <1>4, <2>1, <2>3, OtherMine, Zenon DEF OthersStay
  <2> QED BY <2>2, <2>3
<1> QED BY <1>4, <1>5, Zenon DEF AloneInv

LEMMA HangUpStep ==
  ASSUME ServiceTypes, ServiceTypes', NEW F \in SUBSET Caller, AloneInv(F),
         NEW t \in Caller, Service!HangUp(t)
  PROVE  AloneInv(F)'
<1>0. PICK c \in Client : Via[t] = c
  BY Zenon DEF ServiceTypes
<1>1. /\ Stages[t] # "idle" /\ link[c] = "down"
      /\ Stages[t] = "waiting" => Ready[c] = <<>>
      /\ Stages' = [Stages EXCEPT ![t] = "idle"]
      /\ Returned' = [Returned EXCEPT ![t] = Service!Refusal]
      /\ UNCHANGED <<link, Greeted, Garbled, Owed, Ready, Via, Numbers>>
  BY <1>0, Zenon DEF Service!HangUp, Service!Return
<1>2. Shrinks(c) /\ Elsewhere(c) /\ Total(c)' = Total(c)
  BY <1>1, SameShrinks, Zenon DEF Elsewhere
<1>3. Stages[t] = "waiting" => Total(c) = 0
  <2>1. Owed[c] = <<>>
    <3>1. "down" # "up"
      BY SMT
    <3> QED BY <1>1, <3>1, Zenon DEF ServiceTypes
  <2> SUFFICES ASSUME Stages[t] = "waiting" PROVE Total(c) = 0
    OBVIOUS
  <2>2. Total(c) = Len(<<>>) + Len(<<>>)
    BY <1>1, <2>1, Zenon DEF Total
  <2> QED BY <2>2, SMT
<1>4. ReturnsWith(t, c, Service!Refusal)
  BY <1>0, <1>1, <1>2, <1>3, Zenon DEF ReturnsWith
<1>5. Service!Refusal.status # "ok"
  BY SMT DEF Service!Refusal
<1> QED BY <1>4, <1>5, ReturnStep, Zenon

LEMMA GarbleStep ==
  ASSUME ServiceTypes, ServiceTypes', NEW F \in SUBSET Caller, AloneInv(F),
         NEW t \in Caller, Service!Garble(t)
  PROVE  AloneInv(F)'
<1>0. PICK c \in Client : Via[t] = c
  BY Zenon DEF ServiceTypes
<1>1. /\ Stages[t] = "waiting" /\ Service!Garbles(c)
      /\ Stages' = [Stages EXCEPT ![t] = "idle"]
      /\ Returned' = [Returned EXCEPT ![t] = Service!Refusal]
      /\ UNCHANGED <<link, Greeted, Owed, Via, Numbers>>
  BY <1>0, Zenon DEF Service!Garble, Service!Return
<1>2. Shrinks(c) /\ Elsewhere(c) /\ Garbled' = Garbled \cup {c}
  BY <1>1, GarblesShrinks, Zenon
<1>3. "waiting" # "idle"
  BY SMT
<1>4. ReturnsWith(t, c, Service!Refusal)
  BY <1>0, <1>1, <1>2, <1>3, Zenon DEF ReturnsWith
<1>5. Service!Refusal.status # "ok"
  BY SMT DEF Service!Refusal
<1> QED BY <1>4, <1>5, ReturnStep, Zenon

LEMMA DeliverStep ==
  ASSUME ServiceTypes, ServiceTypes', NEW F \in SUBSET Caller, AloneInv(F),
         NEW t \in Caller, Service!Deliver(t)
  PROVE  AloneInv(F)'
<1>0. PICK c \in Client : Via[t] = c
  BY Zenon DEF ServiceTypes
<1> DEFINE q == Ready[c]
<1>1. PICK r \in Service!Answers(Head(q)) :
        /\ Stages[t] = "waiting" /\ q # <<>>
        /\ Ready' = [Ready EXCEPT ![c] = Tail(q)]
        /\ Stages' = [Stages EXCEPT ![t] = "idle"]
        /\ Returned' = [Returned EXCEPT ![t] = r]
        /\ UNCHANGED <<link, Greeted, Owed, Via, Numbers>>
  BY <1>0, Zenon DEF Service!Deliver, Service!Return, Service!Takes
<1>2. q \in Seq(RequestId)
  BY Zenon DEF ServiceTypes
<1>3. Service!Takes(c)
  BY <1>0, Zenon DEF Service!Deliver
<1>4. /\ Shrinks(c) /\ Elsewhere(c) /\ Total(c)' < Total(c)
      /\ c \notin Garbled /\ Garbled' = Garbled
  BY <1>1, <1>3, TakesShrinks, Zenon
<1>5. "waiting" # "idle"
  BY SMT
<1>6. ReturnsWith(t, c, r)
  BY <1>0, <1>1, <1>4, <1>5, Zenon DEF ReturnsWith
<1>7. t \in F => r.id = <<t, Numbers[t]>>
  <2> SUFFICES ASSUME t \in F PROVE r.id = <<t, Numbers[t]>>
    OBVIOUS
  <2> DEFINE id == <<t, Numbers[t]>>
  <2>1. q \in Seq({id}) /\ q # <<>>
    BY <1>0, <1>1, <1>4, Zenon DEF AloneInv, MineAt, Only
  <2>2. Head(q) \in {id}
    <3> HIDE DEF q, id
    <3> QED BY <2>1, HeadAndTail, Zenon
  <2>3. r.id = Head(q)
    BY <1>1, SMT DEF Service!Answers
  <2> QED BY <2>2, <2>3
<1> QED BY <1>6, <1>7, ReturnStep, Zenon

LEMMA AloneNext ==
  ASSUME NEW F \in SUBSET Caller, Push = {}
  PROVE  ServiceTypes /\ ServiceTypes' /\ Alone(F) /\ AloneInv(F) /\ Serves
           => AloneInv(F)'
<1> SUFFICES ASSUME ServiceTypes, ServiceTypes', Alone(F), AloneInv(F), Serves
             PROVE  AloneInv(F)'
  OBVIOUS
<1>1. CASE UNCHANGED Service!vars
  <2>1. /\ UNCHANGED <<link, Greeted, Garbled, Owed, Ready>>
        /\ UNCHANGED <<Stages, Via, Numbers, Returned>>
    BY <1>1, Zenon DEF Service!vars
  <2> QED
    BY <2>1, Zenon DEF AloneInv, BoundAt, MineAt, OwnAt, Only, Total, Waiting, InCall
<1>2. ASSUME NEW c \in Client,
             \/ Service!Unreachable(c) \/ Service!Break(c) \/ Service!Answer(c)
             \/ Service!Announce(c) \/ Service!Greet(c) \/ Service!Discard(c)
      PROVE  AloneInv(F)'
  <2>1. ~Service!Announce(c)
    BY Zenon DEF Service!Announce
  <2> QED BY <1>2, <2>1, ConnectionSteps, Zenon
<1>3. ASSUME NEW t \in Caller,
             \/ \E c \in Client : Service!Connect(t, c) \/ Service!Ask(t, c)
             \/ Service!Write(t) \/ Service!HangUp(t) \/ Service!Deliver(t)
             \/ Service!Garble(t)
      PROVE  AloneInv(F)'
  BY <1>3, ConnectStep, AskStep, WriteStep, HangUpStep, DeliverStep, GarbleStep,
     Zenon
<1> QED BY <1>1, <1>2, <1>3, Zenon DEF Serves, Service!Next

LEMMA AloneStart ==
  ASSUME NEW F \in SUBSET Caller
  PROVE  Init => AloneInv(F)
<1> SUFFICES ASSUME Init PROVE AloneInv(F)
  OBVIOUS
<1>1. /\ link = [c \in Client |-> "none"] /\ Greeted = {}
      /\ Owed = [c \in Client |-> <<>>] /\ Ready = [c \in Client |-> <<>>]
      /\ Stages = [t \in Caller |-> "idle"]
      /\ Returned = [t \in Caller |-> Service!NotYet]
  BY StartServes, Zenon DEF Service!Init
<1>2. "idle" # "waiting" /\ Service!NotYet.status # "ok"
  BY SMT DEF Service!NotYet
<1>3. \A c \in Client : BoundAt(c)
  <2> TAKE c \in Client
  <2>1. Total(c) = 0
    <3>1. Owed[c] = <<>> /\ Ready[c] = <<>>
      BY <1>1, Zenon
    <3>2. Total(c) = Len(<<>>) + Len(<<>>)
      BY <3>1, Zenon DEF Total
    <3> QED BY <3>2, SMT
  <2>2. Waiting(c) = {}
    BY <1>1, <1>2, Zenon DEF Waiting
  <2>3. IsFiniteSet(Waiting(c))
    BY <2>2, FS_EmptySet, Zenon
  <2>4. \A t \in Caller : ~InCall(t, c)
    BY <1>1, Zenon DEF InCall
  <2>5. Total(c) <= 1
    BY <2>1, SMT
  <2> QED BY <1>1, <2>1, <2>3, <2>4, <2>5, Zenon DEF BoundAt
<1>4. \A t \in F : MineAt(t) /\ OwnAt(t)
  BY <1>1, <1>2, Zenon DEF MineAt, OwnAt
<1> QED BY <1>3, <1>4, Zenon DEF AloneInv

\* What makes the answers of F its own.
LEMMA AloneFacts ==
  ASSUME NEW F \in SUBSET Caller, Push = {}
  PROVE  /\ Init => AloneInv(F)
         /\ TypeOK /\ TypeOK' /\ NonceInv /\ CallInv /\ Alone(F) /\ AloneInv(F)
              /\ [Next]_vars => AloneInv(F)'
         /\ AloneInv(F) => \A t \in F : reply[t].status = "ok"
                                          => reply[t].id = <<t, calls[t]>>
<1>1. TypeOK' => ServiceTypes'
  <2>1. TypeOK => ServiceTypes
    BY TypesOfService
  <2> QED BY <2>1, PTL
<1>2. TypeOK /\ TypeOK' /\ NonceInv /\ CallInv /\ Alone(F) /\ AloneInv(F)
        /\ [Next]_vars => AloneInv(F)'
  BY <1>1, TypesOfService, EveryStepServes, AloneNext
<1>3. \A t \in F : Returned[t] = reply[t] /\ Numbers[t] = calls[t]
  BY Zenon DEF Returned, Numbers
<1>4. AloneInv(F) => \A t \in F : reply[t].status = "ok"
                                    => reply[t].id = <<t, calls[t]>>
  BY <1>3, Zenon DEF AloneInv, OwnAt
<1> QED BY <1>2, <1>4, AloneStart

(***************************************************************************)
(* A call of a task of F returns the pool's answer to its own request, if  *)
(* the calls of F overlap with no call on the same connection and the pool *)
(* sends nothing on its own initiative.  The other tasks may cross one     *)
(* another, their calls fail or return each other's answers: a fetch       *)
(* under the pool's write lock keeps its own beside submissions under the  *)
(* read lock that swap theirs.                                             *)
(***************************************************************************)
THEOREM AloneOwnReply ==
  ASSUME NEW CONSTANT F \in SUBSET Caller, Push = {}
  PROVE  Spec /\ []Alone(F)
           => [](\A t \in F : reply[t].status = "ok"
                                => reply[t].id = <<t, calls[t]>>)
<1>1. /\ Init => AloneInv(F)
      /\ TypeOK /\ TypeOK' /\ NonceInv /\ CallInv /\ Alone(F) /\ AloneInv(F)
           /\ [Next]_vars => AloneInv(F)'
      /\ AloneInv(F) => \A t \in F : reply[t].status = "ok"
                                       => reply[t].id = <<t, calls[t]>>
  BY AloneFacts
<1> QED
  BY <1>1, TypeCorrect, NonceInvariant, CallInvariant, PTL DEF Spec

(***************************************************************************)
(* fetch_coinbaser and submit_pow return the pool's answer to their own    *)
(* request as long as no two calls overlap on one connection and the pool  *)
(* sends nothing on its own initiative: for any number of callers and      *)
(* connections, beside the receive loops, whatever breaks.  When calls     *)
(* overlap, or with pushed messages, they need not: see the runs           *)
(* client_swapped and client_notify.                                       *)
(***************************************************************************)
THEOREM SerialOwnReply ==
  ASSUME Push = {}
  PROVE  Spec /\ []CallsInTurn => []OwnReply
<1>1. /\ Init => AloneInv(Caller)
      /\ TypeOK /\ TypeOK' /\ NonceInv /\ CallInv /\ Alone(Caller)
           /\ AloneInv(Caller) /\ [Next]_vars => AloneInv(Caller)'
      /\ AloneInv(Caller) => OwnReply
  BY AloneFacts DEF OwnReply
<1>2. CallsInTurn <=> Alone(Caller)
  BY DEF CallsInTurn
<1> QED
  BY <1>1, <1>2, TypeCorrect, NonceInvariant, CallInvariant, PTL DEF Spec

\* In particular, the answers of a lone caller are its own.
THEOREM LoneOwnReply ==
  ASSUME NEW CONSTANT t, Caller = {t}, Push = {}
  PROVE  Spec => []OwnReply
<1>1. CallsInTurn
  BY Zenon DEF CallsInTurn, Alone
<1> QED BY <1>1, SerialOwnReply, PTL
==============================================================================
