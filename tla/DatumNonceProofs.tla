-------------------------- MODULE DatumNonceProofs ---------------------------
(***************************************************************************)
(* The nonces of every connection stay in lockstep (NonceLockstep), and    *)
(* without crossing messages its headers stay readable (HeadersReadable),  *)
(* for any number of tasks, connections, pushed commands and calls.  The   *)
(* inductive invariant of the first is NonceInv: WriterHoldsLock keeps     *)
(* SendPrepare from overwriting a frame that is not on the wire yet,       *)
(* Handshaking gives both ends the first nonce, OneHandshake and           *)
(* UsersAreConnected say who may touch a client before and after its       *)
(* handshake.  The second adds KeysLinked: the keys that the frames on     *)
(* their way leave behind.                                                 *)
(***************************************************************************)
EXTENDS DatumClientProofs

USE TaskAssumption, CallAssumption, BoundsAssumption, NonceAssumption

(***************************************************************************)
(* What makes NonceLockstep inductive: what is being written belongs to    *)
(* the holder of the stream lock, only connected clients are used, and the *)
(* handshake leaves both ends with the first nonce.                        *)
(***************************************************************************)
WriterHoldsLock ==
  \A c \in Client : outgoing[c] # <<>> =>
    /\ streamLock[c] # <<>>
    /\ LET t == Head(streamLock[c]) IN pc[t] = "writing" /\ using[t] = c

UsersAreConnected ==
  /\ \A c \in Client : using[c] = c
  /\ \A t \in Task : pc[t] \in {"sendLock", "writing", "sent", "recvLock",
                                "loop"} => connected[using[t]]

OneHandshake ==
  \A t \in Task : pc[t] = "greet" =>
    /\ link[using[t]] # "none"
    /\ ~connected[using[t]]
    /\ \A u \in Task : pc[u] = "greet" /\ using[u] = using[t] => u = t

Handshaking ==
  \A c \in Client :
    /\ cipher[c] = connected[c]
    /\ ~connected[c] => outgoing[c] = <<>> /\ ~lost[c]
    /\ link[c] = "none" =>
         /\ ~connected[c] /\ toPool[c] = <<>> /\ fromPool[c] = <<>>
         /\ poolSend[c] = NoNonce
    /\ connected[c] => poolSend[c] # NoNonce
    /\ poolSend[c] = NoNonce => fromPool[c] = <<>> /\ Len(toPool[c]) <= 1
    /\ link[c] = "up" /\ ~connected[c] /\ poolSend[c] # NoNonce =>
         /\ toPool[c] = <<>>
         /\ poolRecv[c] = FirstNonce
         /\ fromPool[c] # <<>>
         /\ Chain(Tail(fromPool[c]), FirstNonce, poolSend[c])

NonceInv == /\ WriterHoldsLock /\ UsersAreConnected /\ OneHandshake
            /\ Handshaking /\ NonceLockstep

(***************************************************************************)
(* What makes HeadersReadable inductive: the keys that the two directions  *)
(* leave behind.  A reader that starts with the key first finds in every   *)
(* frame the header plain, moves to the key next, and ends with last; as   *)
(* long as no message was enciphered against another, only one direction   *)
(* has frames, and its reader ends with the key of its writer.             *)
(***************************************************************************)
Deciphers(frames, plain, next, first, last) ==
  LET key(i) == IF i \in 1 .. Len(frames) THEN next[frames[i]] ELSE first IN
    /\ key(Len(frames)) = last
    /\ \A i \in 1 .. Len(frames) :
         Xor(frames[i].word, key(i - 1)) = plain[frames[i]]

RequestHeader == [f \in Frame |-> RequestWord[f.cmd]]
AnswerHeader  == [f \in Frame |-> AnswerWord[f.cmd]]
Bytes         == [f \in Frame |-> f.word]

KeysLinked ==
  \A c \in Client : link[c] = "up" /\ ~crossed[c] =>
    LET requests == toPool[c] \o outgoing[c] IN
      /\ ~lost[c]
      /\ fromPool[c] = <<>> \/ requests = <<>>
      /\ fromPool[c] = <<>> => Deciphers(requests, RequestHeader, RequestHeader,
                                        poolKey[c], headerKey[c])
      /\ requests = <<>> => Deciphers(fromPool[c], AnswerHeader, Bytes,
                                     headerKey[c], poolKey[c])

(***************************************************************************)
(* Chains of nonces.                                                       *)
(***************************************************************************)
LEMMA ChainEmpty == \A n : Chain(<<>>, n, n)
BY SMT DEF Chain

LEMMA ChainAppend ==
  ASSUME NEW frames \in Seq(Frame), NEW f \in Frame, NEW first,
         Chain(frames, first, f.nonce)
  PROVE  Chain(Append(frames, f), first, NextNonce(f.nonce))
<1> DEFINE m == Len(frames)
           g == Append(frames, f)
           n(i) == IF i \in 1 .. m THEN frames[i].nonce ELSE f.nonce
           k(i) == IF i \in 1 .. m + 1 THEN g[i].nonce ELSE NextNonce(f.nonce)
<1>1. m \in Nat /\ Len(g) = m + 1
  BY SMT
<1>2. \A i \in 1 .. m + 1 : k(i) = n(i)
  BY <1>1, SMT
<1>3. n(1) = first /\ \A i \in 1 .. m : n(i + 1) = NextNonce(n(i))
  BY Zenon DEF Chain
<1>4. k(m + 2) = NextNonce(f.nonce) /\ n(m + 1) = f.nonce
  BY <1>1, SMT
<1> HIDE DEF n, k
<1>5. k(1) = first
  BY <1>1, <1>2, <1>3, SMT
<1>6. \A i \in 1 .. m + 1 : k(i + 1) = NextNonce(k(i))
  <2> SUFFICES ASSUME NEW i \in 1 .. m + 1 PROVE k(i + 1) = NextNonce(k(i))
    OBVIOUS
  <2>1. CASE i = m + 1
    BY <1>1, <1>2, <1>4, <2>1, SMT
  <2>2. CASE i \in 1 .. m
    <3>1. i + 1 \in 1 .. m + 1
      BY <1>1, <2>2, SMT
    <3> QED BY <1>2, <1>3, <2>2, <3>1, Zenon
  <2> QED BY <1>1, <2>1, <2>2, SMT
<1> HIDE DEF m, g
<1>7. Chain(g, first, NextNonce(f.nonce))
  BY <1>1, <1>5, <1>6, Zenon DEF Chain, k
<1> QED BY <1>7, Zenon DEF g

LEMMA ChainTail ==
  ASSUME NEW frames \in Seq(Frame), frames # <<>>, NEW first, NEW next,
         Chain(frames, first, next)
  PROVE  /\ Head(frames).nonce = first
         /\ Chain(Tail(frames), NextNonce(first), next)
<1> DEFINE m == Len(frames)
           g == Tail(frames)
           n(i) == IF i \in 1 .. m THEN frames[i].nonce ELSE next
           k(i) == IF i \in 1 .. m - 1 THEN g[i].nonce ELSE next
<1>1. m \in Nat \ {0} /\ Len(g) = m - 1
  BY SMT
<1>2. n(1) = first /\ \A i \in 1 .. m : n(i + 1) = NextNonce(n(i))
  BY Zenon DEF Chain
<1>3. \A i \in 1 .. m : k(i) = n(i + 1)
  BY <1>1, SMT
<1>4. n(1) = Head(frames).nonce
  BY <1>1, SMT
<1> HIDE DEF n, k
<1>5. k(1) = NextNonce(first)
  BY <1>1, <1>2, <1>3, SMT
<1>6. \A i \in 1 .. m - 1 : k(i + 1) = NextNonce(k(i))
  <2> SUFFICES ASSUME NEW i \in 1 .. m - 1 PROVE k(i + 1) = NextNonce(k(i))
    OBVIOUS
  <2>1. i \in 1 .. m /\ i + 1 \in 1 .. m
    BY <1>1, SMT
  <2> QED BY <1>2, <1>3, <2>1, Zenon
<1> HIDE DEF m, g
<1>7. Chain(g, NextNonce(first), next)
  BY <1>1, <1>5, <1>6, Zenon DEF Chain, k
<1> QED BY <1>2, <1>4, <1>7, Zenon DEF g

(***************************************************************************)
(* Only connected clients are used: a task that moves on its own, then     *)
(* every step.                                                             *)
(***************************************************************************)
LEMMA UsersMove ==
  ASSUME TypeOK, UsersAreConnected, NEW t \in Task, NEW l,
         pc' = [pc EXCEPT ![t] = l], using' = using,
         \A c \in Client : connected[c] => connected'[c],
         l \in {"sendLock", "writing", "sent", "recvLock", "loop"}
           => connected[using[t]]
  PROVE  UsersAreConnected'
<1>1. pc \in [Task -> Pc] /\ using \in [Task -> Client]
  BY Zenon DEF TypeOK
<1> QED BY <1>1, SMT DEF UsersAreConnected

(***************************************************************************)
(* A client is greeted by one task, which alone knows it.                  *)
(***************************************************************************)
LEMMA HandshakeMove ==
  ASSUME TypeOK, OneHandshake, NEW t \in Task, NEW l, l # "greet",
         pc' = [pc EXCEPT ![t] = l], using' = using,
         connected' = connected,
         \A c \in Client : link[c] # "none" => link'[c] # "none"
  PROVE  OneHandshake'
<1>1. pc \in [Task -> Pc] /\ using \in [Task -> Client]
  BY Zenon DEF TypeOK
<1> QED BY <1>1, SMT DEF OneHandshake

LEMMA UsersNext ==
  TypeOK /\ UsersAreConnected /\ [Next]_vars => UsersAreConnected'
<1> SUFFICES ASSUME TypeOK, UsersAreConnected, [Next]_vars
             PROVE  UsersAreConnected'
  OBVIOUS
<1> USE DEF clientVars, wireVars, poolVars, taskVars, ghostVars
<1>types. /\ pc \in [Task -> Pc]
          /\ using \in [Task -> Client]
          /\ connected \in [Client -> BOOLEAN]
  BY Zenon DEF TypeOK
<1>1. ASSUME NEW t \in Caller, NEW c \in Client, Dial(t, c)
      PROVE  UsersAreConnected'
  <2>1. /\ pc' = [pc EXCEPT ![t] = "greet"]
        /\ using' = [using EXCEPT ![t] = c]
        /\ connected' = connected
    BY <1>1, Zenon DEF Dial, Goto
  <2> QED BY <1>types, <2>1, SMT DEF UsersAreConnected, Task
<1>2. ASSUME NEW t \in Caller, NEW c \in Client, NEW cmd \in Calls,
             Request(t, c, cmd)
      PROVE  UsersAreConnected'
  <2>1. /\ pc' = [pc EXCEPT ![t] = "sendLock"]
        /\ using' = [using EXCEPT ![t] = c]
        /\ connected' = connected /\ connected[c]
    BY <1>2, Zenon DEF Request, Goto
  <2> QED BY <1>types, <2>1, SMT DEF UsersAreConnected, Task
<1>3. ASSUME NEW c \in Client, SpawnLoop(c)
      PROVE  UsersAreConnected'
  <2>1. /\ pc' = [pc EXCEPT ![c] = "loop"]
        /\ using' = using
        /\ connected' = connected /\ connected[c]
    BY <1>3, Zenon DEF SpawnLoop, Goto
  <2>2. c \in Task /\ connected[using[c]]
    BY <2>1, Zenon DEF UsersAreConnected, Task
  <2> QED BY <2>1, <2>2, UsersMove, Zenon
<1>4. ASSUME NEW t \in Task, FinishHandshake(t)
      PROVE  UsersAreConnected'
  <2>1. /\ pc' = [pc EXCEPT ![t] = "idle"]
        /\ using' = using
        /\ connected' = [connected EXCEPT ![using[t]] = TRUE]
    BY <1>4, Zenon DEF FinishHandshake, Goto
  <2>2. \A c \in Client : connected[c] => connected'[c]
    BY <1>types, <2>1, SMT
  <2> QED BY <2>1, <2>2, UsersMove, Zenon
<1>5. ASSUME NEW t \in Task, HandshakeFails(t)
      PROVE  UsersAreConnected'
  <2>1. /\ pc' = [pc EXCEPT ![t] = "idle"]
        /\ using' = using /\ connected' = connected
    BY <1>5, Zenon DEF HandshakeFails, Goto
  <2> QED BY <2>1, UsersMove, Zenon
<1>6. ASSUME NEW t \in Task, SendPrepare(t)
      PROVE  UsersAreConnected'
  <2>1. /\ pc' = [pc EXCEPT ![t] = "writing"]
        /\ using' = using /\ connected' = connected
    BY <1>6, Zenon DEF SendPrepare, Goto
  <2>2. connected[using[t]]
    BY <1>6, Zenon DEF SendPrepare, UsersAreConnected
  <2> QED BY <2>1, <2>2, UsersMove, Zenon
<1>7. ASSUME NEW t \in Task, SendWrite(t)
      PROVE  UsersAreConnected'
  <2>1. /\ pc' = [pc EXCEPT ![t] = "sent"]
        /\ using' = using /\ connected' = connected
    BY <1>7, Zenon DEF SendWrite, Goto
  <2>2. connected[using[t]]
    BY <1>7, Zenon DEF SendWrite, UsersAreConnected
  <2> QED BY <2>1, <2>2, UsersMove, Zenon
<1>8. ASSUME NEW t \in Task, SendFails(t)
      PROVE  UsersAreConnected'
  <2>1. \E l \in {"stopped", "done"} : pc' = [pc EXCEPT ![t] = l]
    BY <1>8, Zenon DEF SendFails, Goto, Fail
  <2>2. using' = using /\ connected' = connected
    BY <1>8, Zenon DEF SendFails
  <2> QED BY <2>1, <2>2, UsersMove, Zenon
<1>9. ASSUME NEW t \in Task, RecvCall(t)
      PROVE  UsersAreConnected'
  <2>1. /\ pc' = [pc EXCEPT ![t] = "recvLock"]
        /\ using' = using /\ connected' = connected
    BY <1>9, Zenon DEF RecvCall, Goto
  <2>2. connected[using[t]]
    BY <1>9, Zenon DEF RecvCall, UsersAreConnected
  <2> QED BY <2>1, <2>2, UsersMove, Zenon
<1>10. ASSUME NEW t \in Task, Receive(t)
      PROVE  UsersAreConnected'
  <2>1. \E l \in {"loop", "stopped", "done"} : pc' = [pc EXCEPT ![t] = l]
    BY <1>10, Zenon DEF Receive, Goto
  <2>2. using' = using /\ connected' = connected
    BY <1>10, Zenon DEF Receive
  <2>3. connected[using[t]]
    BY <1>10, Zenon DEF Receive, UsersAreConnected
  <2> QED BY <2>1, <2>2, <2>3, UsersMove, Zenon
<1>11. ASSUME NEW t \in Task, ReceiveGarbled(t)
      PROVE  UsersAreConnected'
  <2>1. \E l \in {"stopped", "done"} : pc' = [pc EXCEPT ![t] = l]
    BY <1>11, Zenon DEF ReceiveGarbled, Goto, Fail
  <2>2. using' = using /\ connected' = connected
    BY <1>11, Zenon DEF ReceiveGarbled
  <2> QED BY <2>1, <2>2, UsersMove, Zenon
<1>12. ASSUME NEW t \in Task, ReceiveEof(t)
      PROVE  UsersAreConnected'
  <2>1. \E l \in {"stopped", "done"} : pc' = [pc EXCEPT ![t] = l]
    BY <1>12, Zenon DEF ReceiveEof, Goto, Fail
  <2>2. using' = using /\ connected' = connected
    BY <1>12, Zenon DEF ReceiveEof
  <2> QED BY <2>1, <2>2, UsersMove, Zenon
<1>13. ASSUME NEW t \in Task, Return(t)
      PROVE  UsersAreConnected'
  <2>1. /\ pc' = [pc EXCEPT ![t] = "idle"]
        /\ using' = using /\ connected' = connected
    BY <1>13, Zenon DEF Return, Goto
  <2> QED BY <2>1, UsersMove, Zenon
<1>14. CASE /\ UNCHANGED <<pc, using, connected>>
  BY <1>14, Zenon DEF UsersAreConnected
<1>15. ASSUME NEW c \in Client,
             \/ \E t \in Caller : DialFails(t, c)
             \/ PoolGreet(c) \/ PoolTake(c) \/ PoolAnswer(c) \/ PoolPush(c)
             \/ PoolClose(c)
      PROVE  UNCHANGED <<pc, using, connected>>
  BY <1>15, Zenon DEF DialFails, PoolGreet, PoolTake, PoolAnswer,
                      PoolPush, PoolClose, PoolWrite
<1>16. CASE UNCHANGED vars
  BY <1>14, <1>16, Zenon DEF vars
<1> QED
  BY <1>1, <1>2, <1>3, <1>4, <1>5, <1>6, <1>7, <1>8, <1>9, <1>10,
     <1>11, <1>12, <1>13, <1>14, <1>15, <1>16, Zenon DEF Next, Step

LEMMA OneHandshakeNext ==
  TypeOK /\ Handshaking /\ OneHandshake /\ [Next]_vars => OneHandshake'
<1> SUFFICES ASSUME TypeOK, Handshaking, OneHandshake, [Next]_vars
             PROVE  OneHandshake'
  OBVIOUS
<1> USE DEF clientVars, wireVars, poolVars, taskVars, ghostVars
<1>types. /\ pc \in [Task -> Pc]
          /\ using \in [Task -> Client]
          /\ connected \in [Client -> BOOLEAN]
          /\ link \in [Client -> {"none", "up", "down"}]
  BY Zenon DEF TypeOK
<1>1. ASSUME NEW t \in Caller, NEW c \in Client, Dial(t, c)
      PROVE  OneHandshake'
  <2>1. /\ pc' = [pc EXCEPT ![t] = "greet"]
        /\ using' = [using EXCEPT ![t] = c]
        /\ connected' = connected
        /\ link' = [link EXCEPT ![c] = "up"] /\ link[c] = "none"
    BY <1>1, Zenon DEF Dial, Goto
  <2>2. t \in Task /\ ~connected[c]
    BY <2>1, Zenon DEF Task, Handshaking
  <2>3. ASSUME NEW u \in Task, pc'[u] = "greet"
        PROVE  /\ link'[using'[u]] # "none" /\ ~connected'[using'[u]]
               /\ u # t => pc[u] = "greet" /\ using'[u] = using[u] /\ using[u] # c
    BY <1>1, <1>types, <2>1, <2>2, <2>3, SMT DEF OneHandshake
  <2>4. using'[t] = c
    BY <1>types, <2>1, <2>2, SMT
  <2>5. ASSUME NEW u \in Task, NEW v \in Task, pc'[u] = "greet",
               pc'[v] = "greet", using'[v] = using'[u]
        PROVE  v = u
    <3>1. CASE u = t
      BY <2>3, <2>4, <2>5, <3>1, Zenon
    <3>2. CASE v = t
      BY <2>3, <2>4, <2>5, <3>2, Zenon
    <3>3. CASE u # t /\ v # t
      BY <2>3, <2>5, <3>3, Zenon DEF OneHandshake
    <3> QED BY <3>1, <3>2, <3>3
  <2> QED BY <2>3, <2>5, Zenon DEF OneHandshake
<1>2. ASSUME NEW t \in Caller, NEW c \in Client, NEW cmd \in Calls,
             Request(t, c, cmd)
      PROVE  OneHandshake'
  <2>1. /\ pc' = [pc EXCEPT ![t] = "sendLock"]
        /\ using' = [using EXCEPT ![t] = c]
        /\ connected' = connected /\ link' = link
    BY <1>2, Zenon DEF Request, Goto
  <2>2. ASSUME NEW u \in Task, pc'[u] = "greet"
        PROVE  u # t /\ pc[u] = "greet" /\ using'[u] = using[u]
    BY <1>types, <2>1, <2>2, SMT DEF Task
  <2> QED BY <2>1, <2>2, SMT DEF OneHandshake
<1>3. ASSUME NEW c \in Client, SpawnLoop(c)
      PROVE  OneHandshake'
  <2>1. c \in Task /\ pc' = [pc EXCEPT ![c] = "loop"] /\ "loop" # "greet"
    BY <1>3, Zenon DEF SpawnLoop, Goto, Task
  <2>2. using' = using /\ connected' = connected /\ link' = link
    BY <1>3, Zenon DEF SpawnLoop
  <2> QED BY <2>1, <2>2, HandshakeMove, Zenon
<1>4. ASSUME NEW t \in Task, FinishHandshake(t)
      PROVE  OneHandshake'
  <2>1. /\ pc' = [pc EXCEPT ![t] = "idle"] /\ pc[t] = "greet"
        /\ using' = using /\ link' = link
        /\ connected' = [connected EXCEPT ![using[t]] = TRUE]
    BY <1>4, Zenon DEF FinishHandshake, Goto
  <2>2. ASSUME NEW u \in Task, pc'[u] = "greet"
        PROVE  /\ pc[u] = "greet" /\ using[u] # using[t]
               /\ connected'[using[u]] = connected[using[u]]
    <3>1. u # t /\ pc[u] = "greet"
      BY <1>types, <2>1, <2>2, SMT
    <3>2. using[u] # using[t]
      BY <2>1, <3>1, Zenon DEF OneHandshake
    <3> QED BY <1>types, <2>1, <3>1, <3>2, SMT
  <2>3. ASSUME NEW u \in Task, pc'[u] = "greet"
        PROVE  link'[using'[u]] # "none" /\ ~connected'[using'[u]]
    <3>1. pc[u] = "greet" /\ connected'[using[u]] = connected[using[u]]
      BY <2>2, <2>3
    <3>2. link[using[u]] # "none" /\ ~connected[using[u]]
      BY <3>1, Zenon DEF OneHandshake
    <3> QED BY <2>1, <3>1, <3>2, Zenon
  <2>4. ASSUME NEW u \in Task, NEW v \in Task, pc'[u] = "greet",
               pc'[v] = "greet", using'[v] = using'[u]
        PROVE  v = u
    <3>1. pc[u] = "greet" /\ pc[v] = "greet" /\ using[v] = using[u]
      BY <2>1, <2>2, <2>4, SMT
    <3> QED BY <3>1, Zenon DEF OneHandshake
  <2> QED BY <2>3, <2>4, Zenon DEF OneHandshake
<1>5. ASSUME NEW t \in Task, HandshakeFails(t)
      PROVE  OneHandshake'
  <2>1. \E l \in {"idle"} : pc' = [pc EXCEPT ![t] = l] /\ l # "greet"
    BY <1>5, Zenon DEF HandshakeFails, Goto
  <2>2. using' = using /\ connected' = connected
        /\ link' = [link EXCEPT ![using[t]] = "down"]
    BY <1>5, Zenon DEF HandshakeFails
  <2>3. \A c \in Client : link[c] # "none" => link'[c] # "none"
    BY <1>types, <2>2, SMT
  <2> QED BY <2>1, <2>2, <2>3, HandshakeMove, Zenon
<1>6. ASSUME NEW t \in Task, SendPrepare(t)
      PROVE  OneHandshake'
  <2>1. \E l \in {"writing"} : pc' = [pc EXCEPT ![t] = l] /\ l # "greet"
    BY <1>6, Zenon DEF SendPrepare, Goto
  <2>2. using' = using /\ connected' = connected /\ link' = link
    BY <1>6, Zenon DEF SendPrepare
  <2> QED BY <2>1, <2>2, HandshakeMove, Zenon
<1>7. ASSUME NEW t \in Task, SendWrite(t)
      PROVE  OneHandshake'
  <2>1. \E l \in {"sent"} : pc' = [pc EXCEPT ![t] = l] /\ l # "greet"
    BY <1>7, Zenon DEF SendWrite, Goto
  <2>2. using' = using /\ connected' = connected /\ link' = link
    BY <1>7, Zenon DEF SendWrite
  <2> QED BY <2>1, <2>2, HandshakeMove, Zenon
<1>8. ASSUME NEW t \in Task, SendFails(t)
      PROVE  OneHandshake'
  <2>1. \E l \in {"stopped", "done"} : pc' = [pc EXCEPT ![t] = l] /\ l # "greet"
    BY <1>8, Zenon DEF SendFails, Goto, Fail
  <2>2. using' = using /\ connected' = connected /\ link' = link
    BY <1>8, Zenon DEF SendFails
  <2> QED BY <2>1, <2>2, HandshakeMove, Zenon
<1>9. ASSUME NEW t \in Task, RecvCall(t)
      PROVE  OneHandshake'
  <2>1. \E l \in {"recvLock"} : pc' = [pc EXCEPT ![t] = l] /\ l # "greet"
    BY <1>9, Zenon DEF RecvCall, Goto
  <2>2. using' = using /\ connected' = connected /\ link' = link
    BY <1>9, Zenon DEF RecvCall
  <2> QED BY <2>1, <2>2, HandshakeMove, Zenon
<1>10. ASSUME NEW t \in Task, Receive(t)
      PROVE  OneHandshake'
  <2>1. \E l \in {"loop", "stopped", "done"} : pc' = [pc EXCEPT ![t] = l] /\ l # "greet"
    BY <1>10, Zenon DEF Receive, Goto
  <2>2. using' = using /\ connected' = connected /\ link' = link
    BY <1>10, Zenon DEF Receive
  <2> QED BY <2>1, <2>2, HandshakeMove, Zenon
<1>11. ASSUME NEW t \in Task, ReceiveGarbled(t)
      PROVE  OneHandshake'
  <2>1. \E l \in {"stopped", "done"} : pc' = [pc EXCEPT ![t] = l] /\ l # "greet"
    BY <1>11, Zenon DEF ReceiveGarbled, Goto, Fail
  <2>2. using' = using /\ connected' = connected /\ link' = link
    BY <1>11, Zenon DEF ReceiveGarbled
  <2> QED BY <2>1, <2>2, HandshakeMove, Zenon
<1>12. ASSUME NEW t \in Task, ReceiveEof(t)
      PROVE  OneHandshake'
  <2>1. \E l \in {"stopped", "done"} : pc' = [pc EXCEPT ![t] = l] /\ l # "greet"
    BY <1>12, Zenon DEF ReceiveEof, Goto, Fail
  <2>2. using' = using /\ connected' = connected /\ link' = link
    BY <1>12, Zenon DEF ReceiveEof
  <2> QED BY <2>1, <2>2, HandshakeMove, Zenon
<1>13. ASSUME NEW t \in Task, Return(t)
      PROVE  OneHandshake'
  <2>1. \E l \in {"idle"} : pc' = [pc EXCEPT ![t] = l] /\ l # "greet"
    BY <1>13, Zenon DEF Return, Goto
  <2>2. using' = using /\ connected' = connected /\ link' = link
    BY <1>13, Zenon DEF Return
  <2> QED BY <2>1, <2>2, HandshakeMove, Zenon
<1>14. ASSUME UNCHANGED <<pc, using, connected>>,
             \A c \in Client : link[c] # "none" => link'[c] # "none"
      PROVE  OneHandshake'
  BY <1>types, <1>14, SMT DEF OneHandshake
<1>15. ASSUME NEW c \in Client,
             \/ \E t \in Caller : DialFails(t, c)
             \/ PoolGreet(c) \/ PoolTake(c) \/ PoolAnswer(c) \/ PoolPush(c)
             \/ PoolClose(c)
      PROVE  OneHandshake'
  <2>1. UNCHANGED <<pc, using, connected>>
    BY <1>15, Zenon DEF DialFails, PoolGreet, PoolTake, PoolAnswer,
                      PoolPush, PoolClose, PoolWrite
  <2>2. link' = link \/ link' = [link EXCEPT ![c] = "down"]
    BY <1>15, Zenon DEF DialFails, PoolGreet, PoolTake, PoolAnswer,
                      PoolPush, PoolClose, PoolWrite
  <2>3. \A d \in Client : link[d] # "none" => link'[d] # "none"
    BY <1>types, <2>2, SMT
  <2> QED BY <1>14, <2>1, <2>3, Zenon
<1>16. CASE UNCHANGED vars
  BY <1>14, <1>16, Zenon DEF vars
<1> QED
  BY <1>1, <1>2, <1>3, <1>4, <1>5, <1>6, <1>7, <1>8, <1>9, <1>10, <1>11,
     <1>12, <1>13, <1>15, <1>16, Zenon DEF Next, Step

(***************************************************************************)
(* What is being written belongs to the holder of the stream lock.         *)
(***************************************************************************)
LEMMA AppendKeepsHead ==
  ASSUME NEW S, NEW s \in Seq(S), NEW x \in S, s # <<>>
  PROVE  Append(s, x) # <<>> /\ Head(Append(s, x)) = Head(s)
BY SMT

\* A task that is not writing moves, or asks for a lock.
LEMMA LockMove ==
  ASSUME TypeOK, WriterHoldsLock, NEW t \in Task, NEW l, NEW c \in Client,
         pc[t] # "writing", pc' = [pc EXCEPT ![t] = l],
         using' = using \/ using' = [using EXCEPT ![t] = c],
         outgoing' = outgoing,
         \/ streamLock' = streamLock
         \/ streamLock' = [streamLock EXCEPT ![c] = Append(streamLock[c], t)]
  PROVE  WriterHoldsLock'
<1>1. /\ pc \in [Task -> Pc] /\ using \in [Task -> Client]
      /\ streamLock \in [Client -> Seq(Task)]
      /\ outgoing \in [Client -> Seq(Frame)]
  BY Zenon DEF TypeOK
<1>2. ASSUME NEW d \in Client, outgoing'[d] # <<>>
      PROVE  /\ streamLock'[d] # <<>>
             /\ LET u == Head(streamLock'[d]) IN pc'[u] = "writing" /\ using'[u] = d
  <2> DEFINE u == Head(streamLock[d])
  <2>1. streamLock[d] # <<>> /\ pc[u] = "writing" /\ using[u] = d
    BY <1>2, Zenon DEF WriterHoldsLock
  <2>2. u \in Task /\ u # t
    BY <1>1, <2>1, SMT
  <2>3. streamLock'[d] # <<>> /\ Head(streamLock'[d]) = u
    <3>1. CASE streamLock'[d] = streamLock[d]
      BY <2>1, <3>1, Zenon
    <3>2. CASE streamLock'[d] = Append(streamLock[d], t)
      <4>1. streamLock[d] \in Seq(Task)
        BY <1>1, Zenon
      <4>2. /\ Append(streamLock[d], t) # <<>>
            /\ Head(Append(streamLock[d], t)) = u
        <5> HIDE DEF u
        <5>1. streamLock[d] # <<>> /\ u = Head(streamLock[d])
          BY <2>1, Zenon DEF u
        <5> QED BY <4>1, <5>1, SMT
      <4> QED BY <3>2, <4>2, Zenon
    <3> QED BY <1>1, <3>1, <3>2, Zenon
  <2>4. pc'[u] = pc[u] /\ using'[u] = using[u]
    BY <1>1, <2>2, SMT
  <2> HIDE DEF u
  <2> QED BY <2>1, <2>3, <2>4, SMT
<1> QED BY <1>2, Zenon DEF WriterHoldsLock

\* The holder, which is not writing or stops writing, releases the lock.
LEMMA LockRelease ==
  ASSUME TypeOK, WriterHoldsLock, NEW t \in Task, NEW l,
         Holds(t, using[t]), pc' = [pc EXCEPT ![t] = l], using' = using,
         streamLock' = [streamLock EXCEPT ![using[t]] = Tail(streamLock[using[t]])],
         \/ outgoing' = outgoing /\ pc[t] # "writing"
         \/ outgoing' = [outgoing EXCEPT ![using[t]] = <<>>]
  PROVE  WriterHoldsLock'
<1>1. /\ pc \in [Task -> Pc] /\ using \in [Task -> Client]
      /\ streamLock \in [Client -> Seq(Task)]
      /\ outgoing \in [Client -> Seq(Frame)]
  BY Zenon DEF TypeOK
<1> DEFINE c == using[t]
<1>2. c \in Client /\ streamLock[c] # <<>> /\ Head(streamLock[c]) = t
  BY <1>1, Zenon DEF Holds
<1>3. outgoing'[c] = <<>>
  <2>1. CASE outgoing' = outgoing /\ pc[t] # "writing"
    BY <1>2, <2>1, Zenon DEF WriterHoldsLock
  <2>2. CASE outgoing' = [outgoing EXCEPT ![using[t]] = <<>>]
    BY <1>1, <1>2, <2>2, Zenon
  <2> QED BY <2>1, <2>2
<1>4. ASSUME NEW d \in Client, outgoing'[d] # <<>>
      PROVE  /\ streamLock'[d] # <<>>
             /\ LET u == Head(streamLock'[d]) IN pc'[u] = "writing" /\ using'[u] = d
  <2> DEFINE u == Head(streamLock[d])
  <2>1. d # c
    BY <1>3, <1>4, Zenon
  <2>2. outgoing[d] # <<>> /\ streamLock'[d] = streamLock[d]
    BY <1>1, <1>2, <1>4, <2>1, SMT
  <2>3. streamLock[d] # <<>> /\ pc[u] = "writing" /\ using[u] = d
    BY <2>2, Zenon DEF WriterHoldsLock
  <2>4. u \in Task /\ u # t
    BY <1>1, <2>1, <2>3, SMT
  <2>5. pc'[u] = pc[u] /\ using'[u] = using[u]
    BY <1>1, <2>4, SMT
  <2> HIDE DEF u
  <2>6. Head(streamLock'[d]) = u
    BY <2>2, Zenon DEF u
  <2> QED BY <2>2, <2>3, <2>5, <2>6, Zenon
<1> QED BY <1>4, Zenon DEF WriterHoldsLock

LEMMA WriterNext == TypeOK /\ WriterHoldsLock /\ [Next]_vars => WriterHoldsLock'
<1> SUFFICES ASSUME TypeOK, WriterHoldsLock, [Next]_vars
             PROVE  WriterHoldsLock'
  OBVIOUS
<1> USE DEF clientVars, wireVars, poolVars, taskVars, ghostVars
<1>types. /\ pc \in [Task -> Pc] /\ using \in [Task -> Client]
          /\ streamLock \in [Client -> Seq(Task)]
          /\ outgoing \in [Client -> Seq(Frame)]
  BY Zenon DEF TypeOK
<1>1. ASSUME NEW t \in Caller, NEW c \in Client, Dial(t, c)
      PROVE  WriterHoldsLock'
  <2>1. /\ t \in Task /\ pc[t] # "writing" /\ pc' = [pc EXCEPT ![t] = "greet"]
        /\ using' = [using EXCEPT ![t] = c]
        /\ outgoing' = outgoing /\ streamLock' = streamLock
    BY <1>1, Zenon DEF Dial, Goto, Task
  <2> QED BY <2>1, LockMove, Zenon
<1>2. ASSUME NEW t \in Caller, NEW c \in Client, NEW cmd \in Calls,
             Request(t, c, cmd)
      PROVE  WriterHoldsLock'
  <2>1. /\ t \in Task /\ pc[t] # "writing" /\ pc' = [pc EXCEPT ![t] = "sendLock"]
        /\ using' = [using EXCEPT ![t] = c] /\ outgoing' = outgoing
        /\ streamLock' = [streamLock EXCEPT ![c] = Append(streamLock[c], t)]
    BY <1>2, Zenon DEF Request, Goto, Enqueue, Task
  <2> QED BY <2>1, LockMove, Zenon
<1>3. ASSUME NEW c \in Client, SpawnLoop(c)
      PROVE  WriterHoldsLock'
  <2>1. /\ c \in Task /\ pc[c] # "writing" /\ pc' = [pc EXCEPT ![c] = "loop"]
        /\ using' = using /\ outgoing' = outgoing /\ streamLock' = streamLock
    BY <1>3, Zenon DEF SpawnLoop, Goto, Task
  <2> QED BY <2>1, LockMove, Zenon
<1>4. ASSUME NEW t \in Task, FinishHandshake(t) \/ HandshakeFails(t) \/ Return(t)
      PROVE  WriterHoldsLock'
  <2>1. /\ pc[t] # "writing" /\ pc' = [pc EXCEPT ![t] = "idle"]
        /\ using' = using /\ outgoing' = outgoing /\ streamLock' = streamLock
    BY <1>4, Zenon DEF FinishHandshake, HandshakeFails, Return, Goto
  <2> QED BY <1>types, <2>1, LockMove, Zenon
<1>5. ASSUME NEW t \in Task, RecvCall(t)
      PROVE  WriterHoldsLock'
  <2>1. /\ pc[t] # "writing" /\ pc' = [pc EXCEPT ![t] = "recvLock"]
        /\ using' = using /\ outgoing' = outgoing
        /\ streamLock' = [streamLock EXCEPT ![using[t]] =
                            Append(streamLock[using[t]], t)]
    BY <1>5, Zenon DEF RecvCall, Goto, Enqueue
  <2> QED BY <1>types, <2>1, LockMove, Zenon
<1>6. ASSUME NEW t \in Task, SendPrepare(t)
      PROVE  WriterHoldsLock'
  <2> DEFINE c == using[t]
  <2>1. /\ c \in Client /\ pc[t] = "sendLock" /\ pc' = [pc EXCEPT ![t] = "writing"]
        /\ using' = using /\ streamLock' = streamLock
        /\ streamLock[c] # <<>> /\ Head(streamLock[c]) = t
    BY <1>6, <1>types, Zenon DEF SendPrepare, Goto, Holds
  <2>2. \A d \in Client : d # c => outgoing'[d] = outgoing[d]
    BY <1>6, <1>types, Zenon DEF SendPrepare
  <2>3. ASSUME NEW d \in Client, outgoing'[d] # <<>>
        PROVE  /\ streamLock[d] # <<>>
               /\ LET u == Head(streamLock[d]) IN pc'[u] = "writing" /\ using[u] = d
    <3>1. CASE d = c
      <4>1. pc'[t] = "writing"
        BY <1>types, <2>1, Zenon
      <4> QED BY <2>1, <3>1, <4>1, Zenon
    <3>2. CASE d # c
      <4> DEFINE u == Head(streamLock[d])
      <4>1. streamLock[d] # <<>> /\ pc[u] = "writing" /\ using[u] = d
        BY <2>2, <2>3, <3>2, Zenon DEF WriterHoldsLock
      <4>2. pc'[u] = "writing"
        BY <1>types, <2>1, <4>1, SMT
      <4> QED BY <4>1, <4>2, Zenon
    <3> QED BY <3>1, <3>2
  <2> QED BY <2>1, <2>3, Zenon DEF WriterHoldsLock
<1>7. ASSUME NEW t \in Task, SendWrite(t) \/ SendFails(t)
      PROVE  WriterHoldsLock'
  <2>1. /\ Holds(t, using[t]) /\ using' = using
        /\ streamLock' = [streamLock EXCEPT ![using[t]] = Tail(streamLock[using[t]])]
        /\ outgoing' = [outgoing EXCEPT ![using[t]] = <<>>]
    BY <1>7, Zenon DEF SendWrite, SendFails, Release
  <2>2. \E l \in {"sent", "stopped", "done"} : pc' = [pc EXCEPT ![t] = l]
    BY <1>7, Zenon DEF SendWrite, SendFails, Goto, Fail
  <2> QED BY <2>1, <2>2, LockRelease, Zenon
<1>8. ASSUME NEW t \in Task, Receive(t) \/ ReceiveGarbled(t) \/ ReceiveEof(t)
      PROVE  WriterHoldsLock'
  <2>1. /\ Holds(t, using[t]) /\ using' = using /\ pc[t] # "writing"
        /\ streamLock' = [streamLock EXCEPT ![using[t]] = Tail(streamLock[using[t]])]
        /\ outgoing' = outgoing
    BY <1>8, Zenon DEF Receive, ReceiveGarbled, ReceiveEof, Release
  <2>2. \E l \in {"loop", "stopped", "done"} : pc' = [pc EXCEPT ![t] = l]
    BY <1>8, Zenon DEF Receive, ReceiveGarbled, ReceiveEof, Goto, Fail
  <2> QED BY <2>1, <2>2, LockRelease, Zenon
<1>9. CASE UNCHANGED <<pc, using, outgoing, streamLock>>
  BY <1>9, Zenon DEF WriterHoldsLock
<1>10. ASSUME NEW c \in Client,
              \/ \E t \in Caller : DialFails(t, c)
              \/ PoolGreet(c) \/ PoolTake(c) \/ PoolAnswer(c) \/ PoolPush(c)
              \/ PoolClose(c)
       PROVE  UNCHANGED <<pc, using, outgoing, streamLock>>
  BY <1>10, Zenon DEF DialFails, PoolGreet, PoolTake, PoolAnswer, PoolPush,
                      PoolClose, PoolWrite
<1>11. CASE UNCHANGED vars
  BY <1>9, <1>11, Zenon DEF vars
<1> QED
  BY <1>1, <1>2, <1>3, <1>4, <1>5, <1>6, <1>7, <1>8, <1>9, <1>10, <1>11,
     Zenon DEF Next, Step

(***************************************************************************)
(* Handshaking and NonceLockstep of one connection, as a relation between  *)
(* the values of its variables.                                            *)
(***************************************************************************)
InStep(l, con, cip, out, lo, to, from, pSend, pRecv, sNonce, rNonce) ==
  /\ cip = con
  /\ ~con => out = <<>> /\ ~lo
  /\ l = "none" => ~con /\ to = <<>> /\ from = <<>> /\ pSend = NoNonce
  /\ con => pSend # NoNonce
  /\ pSend = NoNonce => from = <<>> /\ Len(to) <= 1
  /\ l = "up" /\ ~con /\ pSend # NoNonce =>
       to = <<>> /\ pRecv = FirstNonce /\ from # <<>>
       /\ Chain(Tail(from), FirstNonce, pSend)
  /\ l = "up" /\ cip =>
       /\ Chain(to \o out, pRecv, sNonce)
       /\ ~lo => Chain(from, rNonce, pSend)

InStepAt(c) ==
  InStep(link[c], connected[c], cipher[c], outgoing[c], lost[c], toPool[c],
         fromPool[c], poolSend[c], poolRecv[c], sendNonce[c], recvNonce[c])

LEMMA InStepIsInv ==
  (\A c \in Client : InStepAt(c)) <=> Handshaking /\ NonceLockstep
BY Zenon DEF InStepAt, InStep, Handshaking, NonceLockstep

\* Nothing of connection c moves.
Still(c) ==
  /\ link'[c] = link[c] /\ connected'[c] = connected[c]
  /\ cipher'[c] = cipher[c] /\ outgoing'[c] = outgoing[c]
  /\ lost'[c] = lost[c] /\ toPool'[c] = toPool[c]
  /\ fromPool'[c] = fromPool[c] /\ poolSend'[c] = poolSend[c]
  /\ poolRecv'[c] = poolRecv[c] /\ sendNonce'[c] = sendNonce[c]
  /\ recvNonce'[c] = recvNonce[c]

LEMMA StillInStep == ASSUME NEW c, Still(c), InStepAt(c) PROVE InStepAt(c)'
BY Zenon DEF Still, InStepAt

LEMMA ConnTypes ==
  TypeOK =>
    /\ link \in [Client -> {"none", "up", "down"}]
    /\ connected \in [Client -> BOOLEAN] /\ cipher \in [Client -> BOOLEAN]
    /\ outgoing \in [Client -> Seq(Frame)] /\ lost \in [Client -> BOOLEAN]
    /\ toPool \in [Client -> Seq(Frame)] /\ fromPool \in [Client -> Seq(Frame)]
    /\ poolSend \in [Client -> Nonce \cup {NoNonce}]
    /\ poolRecv \in [Client -> Nonce \cup {NoNonce}]
    /\ sendNonce \in [Client -> Nonce] /\ recvNonce \in [Client -> Nonce]
    /\ using \in [Task -> Client]
BY Zenon DEF TypeOK

LEMMA HandshakeSteps ==
  ASSUME TypeOK, OneHandshake, NEW d \in Client, InStepAt(d)
  PROVE  /\ \A t \in Caller, c \in Client :
              Dial(t, c) \/ DialFails(t, c) => InStepAt(d)'
         /\ \A t \in Task :
              FinishHandshake(t) \/ HandshakeFails(t) => InStepAt(d)'
<1> USE DEF clientVars, wireVars, poolVars, taskVars, ghostVars
<1> USE ConnTypes
<1>1. ASSUME NEW t \in Caller, NEW c \in Client, Dial(t, c)
      PROVE  InStepAt(d)'
  <2>1. CASE d # c
    <3>1. Still(d)
      BY <1>1, <2>1, Zenon DEF Dial, Still
    <3> QED BY <3>1, StillInStep
  <2>2. CASE d = c
    <3>1. /\ link[d] = "none" /\ link'[d] = "up" /\ connected' = connected
          /\ cipher' = cipher /\ outgoing' = outgoing /\ lost' = lost
          /\ fromPool' = fromPool /\ poolSend' = poolSend
          /\ poolRecv' = poolRecv
      BY <1>1, <2>2, Zenon DEF Dial
    <3>2. \E f : toPool'[d] = <<f>>
      BY <1>1, <2>2, Zenon DEF Dial
    <3>3. Len(toPool'[d]) <= 1
      BY <3>2, SMT
    <3>4. ~connected[d] /\ ~cipher[d] /\ outgoing[d] = <<>> /\ ~lost[d]
          /\ fromPool[d] = <<>> /\ poolSend[d] = NoNonce
      BY <3>1, Zenon DEF InStepAt, InStep
    <3> QED BY <3>1, <3>3, <3>4, Zenon DEF InStepAt, InStep
  <2> QED BY <2>1, <2>2
<1>2. ASSUME NEW t \in Caller, NEW c \in Client, DialFails(t, c)
      PROVE  InStepAt(d)'
  <2>1. /\ connected' = connected /\ cipher' = cipher /\ outgoing' = outgoing
        /\ lost' = lost /\ toPool' = toPool /\ fromPool' = fromPool
        /\ poolSend' = poolSend /\ poolRecv' = poolRecv
        /\ sendNonce' = sendNonce /\ recvNonce' = recvNonce
        /\ link'[d] = IF d = c THEN "down" ELSE link[d]
    BY <1>2, Zenon DEF DialFails
  <2>2. CASE d # c
    BY <2>1, <2>2, StillInStep, Zenon DEF Still
  <2>3. CASE d = c
    <3>1. link'[d] = "down" /\ "down" # "up" /\ "down" # "none"
      BY <2>1, <2>3
    <3> QED BY <2>1, <3>1, Zenon DEF InStepAt, InStep
  <2> QED BY <2>2, <2>3
<1>3. ASSUME NEW t \in Task, FinishHandshake(t)
      PROVE  InStepAt(d)'
  <2>1. CASE d # using[t]
    <3>1. Still(d)
      BY <1>3, <2>1, Zenon DEF FinishHandshake, Still
    <3> QED BY <3>1, StillInStep
  <2>2. CASE d = using[t]
    <3>1. /\ link[d] # "none" /\ link' = link /\ ~connected[d] /\ connected'[d] = TRUE
          /\ cipher'[d] = TRUE /\ outgoing' = outgoing /\ lost' = lost
          /\ toPool' = toPool /\ fromPool[d] # <<>>
          /\ fromPool'[d] = Tail(fromPool[d])
          /\ poolSend' = poolSend /\ poolRecv' = poolRecv
          /\ sendNonce'[d] = FirstNonce /\ recvNonce'[d] = FirstNonce
      BY <1>3, <2>2, Zenon DEF FinishHandshake, OneHandshake
    <3>2. outgoing[d] = <<>> /\ ~lost[d] /\ poolSend[d] # NoNonce
      BY <3>1, Zenon DEF InStepAt, InStep
    <3>3. link[d] = "up" => /\ toPool[d] = <<>> /\ poolRecv[d] = FirstNonce
                            /\ Chain(Tail(fromPool[d]), FirstNonce, poolSend[d])
      BY <3>1, <3>2, Zenon DEF InStepAt, InStep
    <3>4. <<>> \o <<>> = <<>>
      BY SMT
    <3>5. link[d] = "up" => Chain(toPool[d] \o outgoing[d], poolRecv[d], FirstNonce)
      BY <3>2, <3>3, <3>4, ChainEmpty, Zenon
    <3>6. cipher'[d] = connected'[d]
      BY <3>1, Zenon
    <3> QED BY <3>1, <3>2, <3>3, <3>5, <3>6, Zenon DEF InStepAt, InStep
  <2> QED BY <2>1, <2>2
<1>4. ASSUME NEW t \in Task, HandshakeFails(t)
      PROVE  InStepAt(d)'
  <2>1. /\ connected' = connected /\ cipher' = cipher /\ outgoing' = outgoing
        /\ lost' = lost /\ toPool' = toPool /\ fromPool' = fromPool
        /\ poolSend' = poolSend /\ poolRecv' = poolRecv
        /\ sendNonce' = sendNonce /\ recvNonce' = recvNonce
        /\ link'[d] = IF d = using[t] THEN "down" ELSE link[d]
    BY <1>4, Zenon DEF HandshakeFails
  <2>2. CASE d # using[t]
    BY <2>1, <2>2, StillInStep, Zenon DEF Still
  <2>3. CASE d = using[t]
    <3>1. link'[d] = "down" /\ "down" # "up" /\ "down" # "none"
      BY <2>1, <2>3
    <3> QED BY <2>1, <3>1, Zenon DEF InStepAt, InStep
  <2> QED BY <2>2, <2>3
<1> QED BY <1>1, <1>2, <1>3, <1>4, Zenon

LEMMA TaskSteps ==
  ASSUME TypeOK, WriterHoldsLock, UsersAreConnected, NEW d \in Client,
         InStepAt(d), NEW t \in Task
  PROVE  /\ SendPrepare(t) => InStepAt(d)'
         /\ SendWrite(t) \/ SendFails(t) => InStepAt(d)'
         /\ Receive(t) \/ ReceiveGarbled(t) => InStepAt(d)'
<1> USE DEF clientVars, wireVars, poolVars, taskVars, ghostVars
<1> USE ConnTypes
<1>1. ASSUME SendPrepare(t)
      PROVE  InStepAt(d)'
  <2>1. CASE d # using[t]
    <3>1. Still(d)
      BY <1>1, <2>1, Zenon DEF SendPrepare, Still
    <3> QED BY <3>1, StillInStep
  <2>2. CASE d = using[t]
    <3>1. /\ link' = link /\ connected' = connected /\ cipher' = cipher
          /\ lost' = lost /\ toPool' = toPool /\ fromPool' = fromPool
          /\ poolSend' = poolSend /\ poolRecv' = poolRecv
          /\ recvNonce' = recvNonce /\ sendNonce'[d] = NextNonce(sendNonce[d])
          /\ pc[t] = "sendLock" /\ Holds(t, d)
      BY <1>1, <2>2, Zenon DEF SendPrepare
    <3>2. connected[d]
      BY <2>2, <3>1, Zenon DEF UsersAreConnected
    <3>3. outgoing[d] = <<>>
      BY <3>1, Zenon DEF WriterHoldsLock, Holds
    <3>4. cipher[d] = connected[d] /\ link[d] # "none" /\ poolSend[d] # NoNonce
      BY <3>2, Zenon DEF InStepAt, InStep
    <3>5. PICK f : outgoing'[d] = <<f>> /\ f.nonce = sendNonce[d]
      <4> DEFINE f == [cmd |-> op[t],
                       word |-> ApplyHeaderXor(RequestWord[op[t]], headerKey[d]).result,
                       nonce |-> IF cipher[d] THEN sendNonce[d] ELSE NoNonce,
                       id |-> <<t, calls[t]>>, body |-> "ok"]
      <4>1. outgoing'[d] = <<f>>
        BY <1>1, <2>2, Zenon DEF SendPrepare
      <4>2. f.nonce = sendNonce[d]
        BY <3>2, <3>4, Zenon
      <4> QED BY <4>1, <4>2, Zenon
    <3>6. f \in Frame
      <4>1. outgoing' \in [Client -> Seq(Frame)]
        BY <1>1, TypeNext, Zenon DEF TypeOK, Next, Step
      <4>2. <<f>> \in Seq(Frame)
        BY <3>5, <4>1, Zenon
      <4> QED BY <4>2, SMT
    <3>7. link[d] = "up" => Chain(toPool[d] \o outgoing'[d], poolRecv[d],
                                  NextNonce(sendNonce[d]))
      <4>1. toPool[d] \in Seq(Frame) /\ toPool[d] \o <<>> = toPool[d]
            /\ toPool[d] \o <<f>> = Append(toPool[d], f)
        BY <3>6, SMT
      <4>2. link[d] = "up" => Chain(toPool[d], poolRecv[d], f.nonce)
        BY <3>2, <3>3, <3>4, <3>5, <4>1, Zenon DEF InStepAt, InStep
      <4>3. link[d] = "up" =>
              Chain(Append(toPool[d], f), poolRecv[d], NextNonce(f.nonce))
        BY <3>6, <4>1, <4>2, ChainAppend, Zenon
      <4> QED BY <3>5, <4>1, <4>3, Zenon
    <3> QED BY <3>1, <3>2, <3>4, <3>7, Zenon DEF InStepAt, InStep
  <2> QED BY <2>1, <2>2
<1>2. ASSUME SendWrite(t) \/ SendFails(t)
      PROVE  InStepAt(d)'
  <2>1. CASE d # using[t]
    <3>1. Still(d)
      BY <1>2, <2>1, Zenon DEF SendWrite, SendFails, Still
    <3> QED BY <3>1, StillInStep
  <2>2. CASE d = using[t]
    <3>1. /\ link' = link /\ connected' = connected /\ cipher' = cipher
          /\ lost' = lost /\ fromPool' = fromPool
          /\ poolSend' = poolSend /\ poolRecv' = poolRecv
          /\ recvNonce' = recvNonce /\ sendNonce' = sendNonce
          /\ pc[t] = "writing" /\ outgoing'[d] = <<>>
      BY <1>2, <2>2, Zenon DEF SendWrite, SendFails
    <3>2. connected[d]
      BY <2>2, <3>1, Zenon DEF UsersAreConnected
    <3>3. /\ cipher[d] = connected[d] /\ link[d] # "none"
          /\ poolSend[d] # NoNonce
      BY <3>2, Zenon DEF InStepAt, InStep
    <3>4. link[d] = "up" => toPool'[d] = toPool[d] \o outgoing[d]
      BY <1>2, <2>2, Zenon DEF SendWrite, SendFails
    <3>5. toPool[d] \o outgoing[d] \o <<>> = toPool[d] \o outgoing[d]
      <4>1. toPool[d] \in Seq(Frame) /\ outgoing[d] \in Seq(Frame)
        BY Zenon
      <4> QED BY <4>1, SMT
    <3>6. link[d] = "up" => Chain(toPool'[d] \o outgoing'[d], poolRecv[d],
                                  sendNonce[d])
      BY <3>1, <3>2, <3>3, <3>4, <3>5, Zenon DEF InStepAt, InStep
    <3> QED BY <3>1, <3>2, <3>3, <3>6, Zenon DEF InStepAt, InStep
  <2> QED BY <2>1, <2>2
<1>3. ASSUME Receive(t) \/ ReceiveGarbled(t)
      PROVE  InStepAt(d)'
  <2>1. CASE d # using[t]
    <3>1. Still(d)
      BY <1>3, <2>1, Zenon DEF Receive, ReceiveGarbled, Still
    <3> QED BY <3>1, StillInStep
  <2>2. CASE d = using[t]
    <3>1. /\ link' = link /\ connected' = connected /\ cipher' = cipher
          /\ outgoing' = outgoing /\ toPool' = toPool
          /\ poolSend' = poolSend /\ poolRecv' = poolRecv
          /\ sendNonce' = sendNonce /\ pc[t] = "recvLock"
      BY <1>3, <2>2, Zenon DEF Receive, ReceiveGarbled
    <3>2. connected[d]
      BY <2>2, <3>1, Zenon DEF UsersAreConnected
    <3>3. /\ cipher[d] = connected[d] /\ link[d] # "none"
          /\ poolSend[d] # NoNonce
      BY <3>2, Zenon DEF InStepAt, InStep
    <3>4. CASE ReceiveGarbled(t)
      <4>1. lost'[d] = TRUE
        BY <2>2, <3>4, Zenon DEF ReceiveGarbled
      <4> QED BY <3>1, <3>2, <3>3, <4>1, Zenon DEF InStepAt, InStep
    <3>5. CASE Receive(t)
      <4>1. /\ lost' = lost /\ ~lost[d] /\ fromPool[d] # <<>>
            /\ fromPool'[d] = Tail(fromPool[d])
            /\ recvNonce'[d] = NextNonce(recvNonce[d])
        BY <2>2, <3>5, Zenon DEF Receive, Readable
      <4>2. link[d] = "up" => Chain(fromPool[d], recvNonce[d], poolSend[d])
        BY <3>2, <3>3, <4>1, Zenon DEF InStepAt, InStep
      <4>3. fromPool[d] \in Seq(Frame)
        BY Zenon
      <4>4. link[d] = "up" =>
              Chain(fromPool'[d], NextNonce(recvNonce[d]), poolSend[d])
        <5> SUFFICES ASSUME link[d] = "up"
                     PROVE  Chain(Tail(fromPool[d]), NextNonce(recvNonce[d]),
                                  poolSend[d])
          BY <4>1, Zenon
        <5>1. fromPool[d] # <<>> /\ Chain(fromPool[d], recvNonce[d], poolSend[d])
          BY <4>1, <4>2, Zenon
        <5> HIDE ConnTypes
        <5> QED BY <5>1, <4>3, ChainTail
      <4> QED BY <3>1, <3>2, <3>3, <4>1, <4>4, Zenon DEF InStepAt, InStep
    <3> QED BY <1>3, <3>4, <3>5
  <2> QED BY <2>1, <2>2
<1> QED BY <1>1, <1>2, <1>3, Zenon

LEMMA PoolWriteStep ==
  ASSUME TypeOK, NEW d \in Client, InStepAt(d), NEW c \in Client,
         NEW cmd \in Command, NEW id \in RequestId,
         NEW body \in {"ok", "malformed"}, PoolWrite(c, cmd, id, body)
  PROVE  InStepAt(d)'
<1> USE DEF clientVars, wireVars, poolVars, taskVars, ghostVars
<1> USE ConnTypes
<1>1. CASE d # c
  <2>1. Still(d)
    BY <1>1, Zenon DEF PoolWrite, Still
  <2> QED BY <2>1, StillInStep
<1>2. CASE d = c
  <2>1. /\ link[d] = "up" /\ link' = link /\ connected' = connected
        /\ cipher' = cipher /\ outgoing' = outgoing /\ lost' = lost
        /\ toPool' = toPool /\ poolRecv' = poolRecv
        /\ sendNonce' = sendNonce /\ recvNonce' = recvNonce
        /\ poolSend[d] # NoNonce /\ poolSend'[d] = NextNonce(poolSend[d])
    BY <1>2, Zenon DEF PoolWrite
  <2>2. PICK f \in Frame : /\ fromPool'[d] = Append(fromPool[d], f)
                           /\ f.nonce = poolSend[d]
    <3> DEFINE f == PoolFrame(c, poolKey[c], cmd, poolSend[c], id, body)
    <3>1. poolKey[c] \in Word /\ poolSend[c] \in Nonce \cup {NoNonce}
      BY Zenon DEF TypeOK
    <3>2. f \in Frame
      BY <3>1, PoolFrameType, Zenon
    <3>3. f.nonce = poolSend[c]
      BY Zenon DEF PoolFrame
    <3>4. fromPool'[c] = Append(fromPool[c], f)
      BY Zenon DEF PoolWrite
    <3> HIDE DEF f
    <3> QED BY <1>2, <3>2, <3>3, <3>4, Zenon
  <2>3. fromPool[d] \in Seq(Frame)
    BY Zenon
  <2>4. NextNonce(poolSend[d]) \in Nonce /\ NextNonce(poolSend[d]) # NoNonce
    <3>1. poolSend[d] \in Nonce \cup {NoNonce}
      BY Zenon
    <3> HIDE ConnTypes
    <3> QED BY <3>1, NextNonceType, SMT DEF Nonce, NoNonce
  <2>5. /\ Append(fromPool[d], f) # <<>>
        /\ fromPool[d] # <<>> =>
             /\ Tail(fromPool[d]) \in Seq(Frame)
             /\ Tail(Append(fromPool[d], f)) = Append(Tail(fromPool[d]), f)
    <3> HIDE ConnTypes
    <3>1. Append(fromPool[d], f) # <<>>
      BY <2>3, AppendProperties
    <3>2. fromPool[d] # <<>> => Tail(fromPool[d]) \in Seq(Frame)
      BY <2>3, HeadTailProperties
    <3>3. Tail(Append(fromPool[d], f)) =
            IF fromPool[d] = <<>> THEN <<>> ELSE Append(Tail(fromPool[d]), f)
      BY <2>3, HeadTailAppend
    <3> QED BY <3>1, <3>2, <3>3
  <2>6. /\ link[d] = "none" => FALSE
        /\ cipher[d] = connected[d]
        /\ ~connected[d] => outgoing[d] = <<>> /\ ~lost[d]
    BY <2>1, Zenon DEF InStepAt, InStep
  <2>7. CASE connected[d]
    <3>1. /\ Chain(toPool[d] \o outgoing[d], poolRecv[d], sendNonce[d])
          /\ ~lost[d] => Chain(fromPool[d], recvNonce[d], f.nonce)
      BY <2>1, <2>2, <2>6, <2>7, Zenon DEF InStepAt, InStep
    <3>2. ~lost[d] => Chain(Append(fromPool[d], f), recvNonce[d], NextNonce(f.nonce))
      <4> HIDE ConnTypes
      <4> QED BY <2>3, <3>1, ChainAppend, Zenon
    <3> QED BY <2>1, <2>2, <2>4, <2>6, <2>7, <3>1, <3>2, Zenon DEF InStepAt,
          InStep
  <2>8. CASE ~connected[d]
    <3>1. /\ toPool[d] = <<>> /\ poolRecv[d] = FirstNonce /\ fromPool[d] # <<>>
          /\ Chain(Tail(fromPool[d]), FirstNonce, f.nonce)
      BY <2>1, <2>2, <2>8, Zenon DEF InStepAt, InStep
    <3>2. Chain(Append(Tail(fromPool[d]), f), FirstNonce, NextNonce(f.nonce))
      <4> HIDE ConnTypes
      <4> QED BY <2>5, <3>1, ChainAppend, Zenon
    <3>3. Chain(Tail(fromPool'[d]), FirstNonce, poolSend'[d])
      BY <2>1, <2>2, <2>5, <3>1, <3>2, Zenon
    <3>4. fromPool'[d] # <<>>
      BY <2>2, <2>5, Zenon
    <3>5. poolSend'[d] # NoNonce
      BY <2>1, <2>4, Zenon
    <3> QED BY <2>1, <2>6, <2>8, <3>1, <3>3, <3>4, <3>5, Zenon DEF InStepAt,
          InStep
  <2> QED BY <2>7, <2>8
<1> QED BY <1>1, <1>2

LEMMA ShortTail ==
  ASSUME NEW S, NEW s \in Seq(S), s # <<>>, Len(s) <= 1
  PROVE  Tail(s) = <<>>
<1>1. Tail(s) \in Seq(S) /\ Len(Tail(s)) = Len(s) - 1
  BY HeadTailProperties
<1>2. Len(s) \in Nat /\ Len(Tail(s)) \in Nat
  BY <1>1, LenProperties
<1>3. Len(Tail(s)) = 0
  BY <1>1, <1>2, SMT
<1> QED BY <1>1, <1>3, EmptySeq, Zenon

LEMMA TailOfConcat ==
  ASSUME NEW S, NEW r \in Seq(S), NEW s \in Seq(S), r # <<>>
  PROVE  /\ r \o s \in Seq(S) /\ r \o s # <<>>
         /\ Tail(r \o s) = Tail(r) \o s
<1>1. r \o s \in Seq(S) /\ r \o s # <<>>
  BY SMT
<1>2. /\ Tail(r) \in Seq(S) /\ Len(Tail(r)) = Len(r) - 1
      /\ \A i \in 1 .. Len(Tail(r)) : Tail(r)[i] = r[i + 1]
  BY HeadTailProperties
<1>3. /\ Tail(r \o s) \in Seq(S) /\ Len(Tail(r \o s)) = Len(r \o s) - 1
      /\ \A i \in 1 .. Len(Tail(r \o s)) : Tail(r \o s)[i] = (r \o s)[i + 1]
  BY <1>1, HeadTailProperties
<1>4. /\ Len(r \o s) = Len(r) + Len(s) /\ Len(r) \in Nat \ {0} /\ Len(s) \in Nat
      /\ \A i \in 1 .. Len(r) : (r \o s)[i] = r[i]
      /\ \A i \in 1 .. Len(s) : (r \o s)[Len(r) + i] = s[i]
  BY SMT
<1> DEFINE q == Tail(r)
           p == Tail(r \o s)
<1>5. /\ q \o s \in Seq(S) /\ Len(q \o s) = Len(q) + Len(s)
      /\ \A i \in 1 .. Len(q) + Len(s) :
           (q \o s)[i] = IF i <= Len(q) THEN q[i] ELSE s[i - Len(q)]
  <2> HIDE DEF q
  <2> QED BY <1>2, SMT DEF q
<1> HIDE DEF p, q
<1>6. Len(p) = Len(q \o s)
  BY <1>2, <1>3, <1>4, <1>5, Zenon, SMT DEF p, q
<1>7. \A i \in 1 .. Len(p) : p[i] = (q \o s)[i]
  BY <1>2, <1>3, <1>4, <1>5, <1>6, SMT DEF p, q
<1> QED BY <1>1, <1>3, <1>5, <1>6, <1>7, SeqEqual, Zenon DEF p, q

LEMMA PoolWrites ==
  ASSUME TypeOK, NEW c \in Client, PoolAnswer(c) \/ PoolPush(c)
  PROVE  \E cmd \in Command, id \in RequestId, body \in {"ok", "malformed"} :
           PoolWrite(c, cmd, id, body)
<1>1. CASE PoolAnswer(c)
  <2>1. /\ poolTodo[c] # <<>>
        /\ \E body \in {"ok", "malformed"} :
            PoolWrite(c, Head(poolTodo[c]).cmd, Head(poolTodo[c]).id, body)
    BY <1>1, Zenon DEF PoolAnswer
  <2>2. poolTodo[c] \in Seq(Todo)
    BY Zenon DEF TypeOK
  <2>3. Head(poolTodo[c]) \in Todo
    BY <2>1, <2>2, SMT
  <2>4. Head(poolTodo[c]).cmd \in Command /\ Head(poolTodo[c]).id \in RequestId
    BY <2>3, SMT DEF Todo
  <2> QED BY <2>1, <2>4, Zenon
<1>2. CASE PoolPush(c)
  <2>1. \E cmd \in Push : PoolWrite(c, cmd, <<>>, "ok")
    BY <1>2, Zenon DEF PoolPush
  <2>2. Push \subseteq Command /\ <<>> \in RequestId
    BY PushAssumption, Zenon DEF RequestId
  <2> QED BY <2>1, <2>2, Zenon
<1> QED BY <1>1, <1>2

LEMMA PoolSteps ==
  ASSUME TypeOK, NEW d \in Client, InStepAt(d), NEW c \in Client
  PROVE  /\ PoolAnswer(c) \/ PoolPush(c) => InStepAt(d)'
         /\ PoolGreet(c) => InStepAt(d)'
         /\ PoolTake(c) => InStepAt(d)'
         /\ PoolClose(c) => InStepAt(d)'
<1> USE DEF clientVars, wireVars, poolVars, taskVars, ghostVars
<1>1. ASSUME PoolAnswer(c) \/ PoolPush(c)
      PROVE  InStepAt(d)'
  <2>1. \E cmd \in Command, id \in RequestId, body \in {"ok", "malformed"} :
          PoolWrite(c, cmd, id, body)
    BY <1>1, PoolWrites, Zenon
  <2> QED BY <2>1, PoolWriteStep, Zenon
<1> USE ConnTypes
<1>2. ASSUME PoolGreet(c)
      PROVE  InStepAt(d)'
  <2>1. CASE d # c
    <3>1. Still(d)
      BY <1>2, <2>1, Zenon DEF PoolGreet, Still
    <3> QED BY <3>1, StillInStep
  <2>2. CASE d = c
    <3>1. /\ link[d] = "up" /\ link' = link /\ connected' = connected
          /\ cipher' = cipher /\ outgoing' = outgoing /\ lost' = lost
          /\ poolSend[d] = NoNonce /\ toPool[d] # <<>>
          /\ toPool'[d] = Tail(toPool[d])
          /\ poolSend'[d] = FirstNonce /\ poolRecv'[d] = FirstNonce
      BY <1>2, <2>2, Zenon DEF PoolGreet
    <3>2. \E f : fromPool'[d] = Append(fromPool[d], f)
      BY <1>2, <2>2, Zenon DEF PoolGreet
    <3>3. /\ ~connected[d] /\ cipher[d] = connected[d]
          /\ outgoing[d] = <<>> /\ ~lost[d]
          /\ fromPool[d] = <<>> /\ Len(toPool[d]) <= 1
      BY <3>1, Zenon DEF InStepAt, InStep
    <3>4. toPool'[d] = <<>>
      <4>1. toPool[d] \in Seq(Frame)
        BY Zenon
      <4> HIDE ConnTypes
      <4>2. Tail(toPool[d]) = <<>>
        BY <3>1, <3>3, <4>1, ShortTail
      <4> QED BY <3>1, <4>2
    <3>5. fromPool'[d] # <<>> /\ Tail(fromPool'[d]) = <<>>
      <4> HIDE ConnTypes
      <4> QED BY <3>2, <3>3, SMT
    <3>6. Chain(Tail(fromPool'[d]), FirstNonce, FirstNonce)
      BY <3>5, ChainEmpty, Zenon
    <3>7. FirstNonce # NoNonce
      <4> HIDE ConnTypes
      <4> QED BY SMT DEF NoNonce
    <3> QED BY <3>1, <3>3, <3>4, <3>5, <3>6, <3>7, Zenon DEF InStepAt, InStep
  <2> QED BY <2>1, <2>2
<1>3. ASSUME PoolTake(c)
      PROVE  InStepAt(d)'
  <2>1. CASE d # c
    <3>1. Still(d)
      BY <1>3, <2>1, Zenon DEF PoolTake, Still
    <3> QED BY <3>1, StillInStep
  <2>2. CASE d = c
    <3>1. /\ link[d] = "up" /\ link' = link /\ connected' = connected
          /\ cipher' = cipher /\ outgoing' = outgoing /\ lost' = lost
          /\ fromPool' = fromPool /\ poolSend' = poolSend
          /\ sendNonce' = sendNonce /\ recvNonce' = recvNonce
          /\ poolSend[d] # NoNonce /\ toPool[d] # <<>>
          /\ toPool'[d] = Tail(toPool[d])
          /\ poolRecv'[d] = NextNonce(poolRecv[d])
      BY <1>3, <2>2, Zenon DEF PoolTake
    <3>2. connected[d] /\ cipher[d] = connected[d]
      BY <3>1, Zenon DEF InStepAt, InStep
    <3>3. /\ Chain(toPool[d] \o outgoing[d], poolRecv[d], sendNonce[d])
          /\ ~lost[d] => Chain(fromPool[d], recvNonce[d], poolSend[d])
      BY <3>1, <3>2, Zenon DEF InStepAt, InStep
    <3>4. /\ toPool[d] \o outgoing[d] \in Seq(Frame)
          /\ toPool[d] \o outgoing[d] # <<>>
          /\ Tail(toPool[d] \o outgoing[d]) = Tail(toPool[d]) \o outgoing[d]
      <4>1. toPool[d] \in Seq(Frame) /\ outgoing[d] \in Seq(Frame)
        BY Zenon
      <4>2. toPool[d] # <<>>
        BY <3>1, Zenon
      <4> HIDE ConnTypes
      <4> QED BY <4>1, <4>2, TailOfConcat
    <3>5. Chain(Tail(toPool[d]) \o outgoing[d], NextNonce(poolRecv[d]), sendNonce[d])
      <4> HIDE ConnTypes
      <4> QED BY <3>3, <3>4, ChainTail
    <3> QED BY <3>1, <3>2, <3>3, <3>5, Zenon DEF InStepAt, InStep
  <2> QED BY <2>1, <2>2
<1>4. ASSUME PoolClose(c)
      PROVE  InStepAt(d)'
  <2>1. CASE d # c
    <3>1. Still(d)
      BY <1>4, <2>1, Zenon DEF PoolClose, Still
    <3> QED BY <3>1, StillInStep
  <2>2. CASE d = c
    <3>1. /\ link'[d] = "down" /\ connected' = connected
          /\ cipher' = cipher /\ outgoing' = outgoing /\ lost' = lost
          /\ poolSend' = poolSend /\ poolRecv' = poolRecv
          /\ toPool'[d] = <<>>
          /\ fromPool'[d] = fromPool[d] \/ fromPool'[d] = <<>>
      BY <1>4, <2>2, Zenon DEF PoolClose
    <3>2. "down" # "none" /\ "down" # "up" /\ Len(<<>>) <= 1
      BY SMT
    <3> QED BY <3>1, <3>2, Zenon DEF InStepAt, InStep
  <2> QED BY <2>1, <2>2
<1> QED BY <1>1, <1>2, <1>3, <1>4, Zenon

LEMMA InStepNext ==
  TypeOK /\ NonceInv /\ [Next]_vars => Handshaking' /\ NonceLockstep'
<1> SUFFICES ASSUME TypeOK, NonceInv, [Next]_vars, NEW d \in Client
             PROVE  InStepAt(d)'
  BY Zenon DEF InStepAt, InStep, Handshaking, NonceLockstep
<1>1. WriterHoldsLock /\ UsersAreConnected /\ OneHandshake /\ InStepAt(d)
  BY InStepIsInv, Zenon DEF NonceInv
<1>2. ASSUME \/ \E t \in Task : \/ RecvCall(t) \/ ReceiveEof(t) \/ Return(t)
             \/ \E c \in Client : SpawnLoop(c)
             \/ \E t \in Caller, c \in Client, cmd \in Calls : Request(t, c, cmd)
             \/ UNCHANGED vars
      PROVE  InStepAt(d)'
  <2>1. Still(d)
    BY <1>2, Zenon DEF RecvCall, ReceiveEof, Return, SpawnLoop, Request, vars,
                       Still, clientVars, wireVars, poolVars, taskVars, ghostVars
  <2> QED BY <1>1, <2>1, StillInStep
<1>3. ASSUME NEW t \in Caller, NEW c \in Client, Dial(t, c) \/ DialFails(t, c)
      PROVE  InStepAt(d)'
  BY <1>1, <1>3, HandshakeSteps, Zenon
<1>4. ASSUME NEW t \in Task, FinishHandshake(t) \/ HandshakeFails(t)
      PROVE  InStepAt(d)'
  BY <1>1, <1>4, HandshakeSteps, Zenon
<1>5. ASSUME NEW t \in Task,
             \/ SendPrepare(t) \/ SendWrite(t) \/ SendFails(t)
             \/ Receive(t) \/ ReceiveGarbled(t)
      PROVE  InStepAt(d)'
  BY <1>1, <1>5, TaskSteps, Zenon
<1>6. ASSUME NEW c \in Client,
             \/ PoolGreet(c) \/ PoolTake(c) \/ PoolAnswer(c) \/ PoolPush(c)
             \/ PoolClose(c)
      PROVE  InStepAt(d)'
  BY <1>1, <1>6, PoolSteps, Zenon
<1> QED
  BY <1>2, <1>3, <1>4, <1>5, <1>6, Zenon DEF Next, Step

LEMMA NonceInvariant == Spec => []NonceInv
<1>1. Init => NonceInv
  <2> SUFFICES ASSUME Init PROVE NonceInv
    OBVIOUS
  <2>1. \A t \in Task : pc[t] = "idle" \/ pc[t] = "off"
    BY Zenon DEF Init
  <2>2. WriterHoldsLock
    BY Zenon DEF Init, WriterHoldsLock
  <2>3. UsersAreConnected
    <3>1. \A c \in Client : using[c] = c
      BY Zenon DEF Init, Task
    <3> QED BY <2>1, <3>1, SMT DEF UsersAreConnected
  <2>4. OneHandshake
    BY <2>1, SMT DEF OneHandshake
  <2>5. \A c \in Client : InStepAt(c)
    <3> SUFFICES ASSUME NEW c \in Client PROVE InStepAt(c)
      OBVIOUS
    <3>1. /\ link[c] = "none" /\ connected[c] = FALSE /\ cipher[c] = FALSE
          /\ outgoing[c] = <<>> /\ lost[c] = FALSE /\ toPool[c] = <<>>
          /\ fromPool[c] = <<>> /\ poolSend[c] = NoNonce
      BY Zenon DEF Init
    <3>2. "none" # "up" /\ Len(<<>>) <= 1
      BY SMT
    <3> QED BY <3>1, <3>2, Zenon DEF InStepAt, InStep
  <2> QED BY <2>2, <2>3, <2>4, <2>5, InStepIsInv, Zenon DEF NonceInv
<1>2. TypeOK /\ NonceInv /\ [Next]_vars => NonceInv'
  <2> SUFFICES ASSUME TypeOK, NonceInv, [Next]_vars PROVE NonceInv'
    OBVIOUS
  <2>1. WriterHoldsLock /\ UsersAreConnected /\ OneHandshake /\ Handshaking
    BY Zenon DEF NonceInv
  <2>2. WriterHoldsLock'
    BY <2>1, WriterNext
  <2>3. UsersAreConnected'
    BY <2>1, UsersNext
  <2>4. OneHandshake'
    BY <2>1, OneHandshakeNext
  <2>5. Handshaking' /\ NonceLockstep'
    BY InStepNext
  <2> QED BY <2>2, <2>3, <2>4, <2>5, Zenon DEF NonceInv
<1> QED BY <1>1, <1>2, TypeCorrect, PTL DEF Spec

(***************************************************************************)
(* In every execution, with any number of callers, connections and pushed  *)
(* commands, no frame is refused for its nonce: the nonces on their way in *)
(* each direction run from the receiver's counter to the sender's.         *)
(***************************************************************************)
THEOREM NonceCorrect == Spec => []NonceLockstep
<1>1. NonceInv => NonceLockstep
  BY Zenon DEF NonceInv
<1> QED BY <1>1, NonceInvariant, PTL
(***************************************************************************)
(* The header keys: what a reader finds in a sequence of frames.           *)
(***************************************************************************)
LEMMA DecipherNone ==
  ASSUME NEW plain, NEW next
  PROVE  /\ \A key : Deciphers(<<>>, plain, next, key, key)
         /\ \A first, last : Deciphers(<<>>, plain, next, first, last) => first = last
BY SMT DEF Deciphers

LEMMA DecipherAppend ==
  ASSUME NEW frames \in Seq(Frame), NEW f \in Frame, NEW plain, NEW next,
         NEW first, NEW last, Deciphers(frames, plain, next, first, last),
         Xor(f.word, last) = plain[f]
  PROVE  Deciphers(Append(frames, f), plain, next, first, next[f])
<1> DEFINE m == Len(frames)
           g == Append(frames, f)
           n(i) == IF i \in 1 .. m THEN next[frames[i]] ELSE first
           k(i) == IF i \in 1 .. m + 1 THEN next[g[i]] ELSE first
<1>1. m \in Nat /\ Len(g) = m + 1 /\ g[m + 1] = f
      /\ \A i \in 1 .. m : g[i] = frames[i]
  BY SMT
<1>2. \A i \in 0 .. m : k(i) = n(i)
  <2> SUFFICES ASSUME NEW i \in 0 .. m PROVE k(i) = n(i)
    OBVIOUS
  <2>1. i \in 1 .. m => i \in 1 .. m + 1 /\ g[i] = frames[i]
    BY <1>1, SMT
  <2>2. i \notin 1 .. m => i \notin 1 .. m + 1
    BY <1>1, SMT
  <2> QED BY <2>1, <2>2, Zenon
<1>3. n(m) = last /\ \A i \in 1 .. m : Xor(frames[i].word, n(i - 1)) = plain[frames[i]]
  BY Zenon DEF Deciphers
<1>4. k(m + 1) = next[f]
  BY <1>1, SMT
<1> HIDE DEF n, k
<1>5. \A i \in 1 .. m + 1 : Xor(g[i].word, k(i - 1)) = plain[g[i]]
  <2> SUFFICES ASSUME NEW i \in 1 .. m + 1
               PROVE  Xor(g[i].word, k(i - 1)) = plain[g[i]]
    OBVIOUS
  <2>1. CASE i = m + 1
    <3>1. i - 1 = m /\ m \in 0 .. m
      BY <1>1, <2>1, SMT
    <3> QED BY <1>1, <1>2, <1>3, <2>1, <3>1, Zenon
  <2>2. CASE i \in 1 .. m
    <3>1. i - 1 \in 0 .. m
      BY <1>1, <2>2, SMT
    <3> QED BY <1>1, <1>2, <1>3, <2>2, <3>1, Zenon
  <2> QED BY <1>1, <2>1, <2>2, SMT
<1> HIDE DEF m, g
<1>6. Deciphers(g, plain, next, first, next[f])
  BY <1>1, <1>4, <1>5, Zenon DEF Deciphers, k
<1> QED BY <1>6, Zenon DEF g

LEMMA DecipherTail ==
  ASSUME NEW frames \in Seq(Frame), frames # <<>>, NEW plain, NEW next,
         NEW first, NEW last, Deciphers(frames, plain, next, first, last)
  PROVE  /\ Xor(Head(frames).word, first) = plain[Head(frames)]
         /\ Deciphers(Tail(frames), plain, next, next[Head(frames)], last)
<1> DEFINE m == Len(frames)
           g == Tail(frames)
           h == next[Head(frames)]
           n(i) == IF i \in 1 .. m THEN next[frames[i]] ELSE first
           k(i) == IF i \in 1 .. m - 1 THEN next[g[i]] ELSE h
<1>1. m \in Nat \ {0} /\ Len(g) = m - 1 /\ Head(frames) = frames[1]
      /\ \A i \in 1 .. m - 1 : g[i] = frames[i + 1]
  BY SMT
<1>2. n(m) = last /\ \A i \in 1 .. m : Xor(frames[i].word, n(i - 1)) = plain[frames[i]]
  BY Zenon DEF Deciphers
<1>3. n(0) = first
  BY <1>1, SMT
<1>4. \A i \in 0 .. m - 1 : k(i) = n(i + 1)
  <2> SUFFICES ASSUME NEW i \in 0 .. m - 1 PROVE k(i) = n(i + 1)
    OBVIOUS
  <2>1. i + 1 \in 1 .. m
    BY <1>1, SMT
  <2>2. i \in 1 .. m - 1 => g[i] = frames[i + 1]
    BY <1>1, Zenon
  <2>3. i \notin 1 .. m - 1 => i + 1 = 1
    BY <1>1, SMT
  <2> QED BY <1>1, <2>1, <2>2, <2>3, Zenon
<1> HIDE DEF n, k, h
<1>5. Xor(Head(frames).word, first) = plain[Head(frames)]
  <2>1. 1 \in 1 .. m /\ 1 - 1 = 0
    BY <1>1, SMT
  <2> QED BY <1>1, <1>2, <1>3, <2>1, Zenon
<1>6. k(m - 1) = last
  <2>1. m - 1 \in 0 .. m - 1 /\ (m - 1) + 1 = m
    BY <1>1, SMT
  <2> QED BY <1>2, <1>4, <2>1, Zenon
<1>7. \A i \in 1 .. m - 1 : Xor(g[i].word, k(i - 1)) = plain[g[i]]
  <2> SUFFICES ASSUME NEW i \in 1 .. m - 1
               PROVE  Xor(g[i].word, k(i - 1)) = plain[g[i]]
    OBVIOUS
  <2>1. /\ i + 1 \in 1 .. m /\ i - 1 \in 0 .. m - 1
        /\ (i - 1) + 1 = i /\ (i + 1) - 1 = i
    BY <1>1, SMT
  <2>2. Xor(frames[i + 1].word, n((i + 1) - 1)) = plain[frames[i + 1]]
    BY <1>2, <2>1, Zenon
  <2>3. k(i - 1) = n((i - 1) + 1)
    BY <1>4, <2>1, Zenon
  <2> QED BY <1>1, <2>1, <2>2, <2>3, Zenon
<1> HIDE DEF m, g
<1>8. Deciphers(g, plain, next, h, last)
  BY <1>1, <1>6, <1>7, Zenon DEF Deciphers, k
<1> QED BY <1>5, <1>8, Zenon DEF g, h

(***************************************************************************)
(* KeysLinked, one step of one connection at a time.                       *)
(***************************************************************************)
\* KeysLinked of one connection, as a relation between its variables.
Linked(l, cr, lo, up, from, pKey, hKey) ==
  l = "up" /\ ~cr =>
    /\ ~lo
    /\ from = <<>> \/ up = <<>>
    /\ from = <<>> => Deciphers(up, RequestHeader, RequestHeader, pKey, hKey)
    /\ up = <<>> => Deciphers(from, AnswerHeader, Bytes, hKey, pKey)

LinkedAt(c) ==
  Linked(link[c], crossed[c], lost[c], toPool[c] \o outgoing[c], fromPool[c],
         poolKey[c], headerKey[c])

LEMMA LinkedIsInv == (\A c \in Client : LinkedAt(c)) <=> KeysLinked
BY Zenon DEF LinkedAt, Linked, KeysLinked

\* Nothing of connection c moves but, perhaps, nonces.
KeysStill(c) ==
  /\ link'[c] = link[c] /\ crossed'[c] = crossed[c] /\ lost'[c] = lost[c]
  /\ toPool'[c] = toPool[c] /\ outgoing'[c] = outgoing[c]
  /\ fromPool'[c] = fromPool[c]
  /\ poolKey'[c] = poolKey[c] /\ headerKey'[c] = headerKey[c]

LEMMA StillLinked == ASSUME NEW c, KeysStill(c), LinkedAt(c) PROVE LinkedAt(c)'
BY Zenon DEF KeysStill, LinkedAt

LEMMA FrameWords ==
  \A f \in Frame : /\ RequestHeader[f] = RequestWord[f.cmd]
                   /\ AnswerHeader[f] = AnswerWord[f.cmd]
                   /\ Bytes[f] = f.word
BY Zenon DEF RequestHeader, AnswerHeader, Bytes

LEMMA KeyTypes ==
  TypeOK => /\ toPool \in [Client -> Seq(Frame)]
            /\ fromPool \in [Client -> Seq(Frame)]
            /\ outgoing \in [Client -> Seq(Frame)]
            /\ poolKey \in [Client -> Word] /\ headerKey \in [Client -> Word]
            /\ link \in [Client -> {"none", "up", "down"}]
            /\ crossed \in [Client -> BOOLEAN] /\ lost \in [Client -> BOOLEAN]
            /\ using \in [Task -> Client] /\ op \in [Task -> Calls]
BY Zenon DEF TypeOK

\* The next frame, and the keys without it.
LEMMA LinkedRead ==
  ASSUME NEW up, NEW from \in Seq(Frame), NEW pKey, NEW hKey,
         NEW lo, from # <<>>, Linked("up", FALSE, lo, up, from, pKey, hKey)
  PROVE  /\ ~lo /\ up = <<>>
         /\ Xor(Head(from).word, hKey) = AnswerWord[Head(from).cmd]
         /\ Linked("up", FALSE, lo, up, Tail(from), pKey, Head(from).word)
<1>1. Head(from) \in Frame /\ Tail(from) \in Seq(Frame)
  BY HeadAndTail, Zenon
<1>2. ~lo /\ up = <<>> /\ Deciphers(from, AnswerHeader, Bytes, hKey, pKey)
  BY Zenon DEF Linked
<1>3. /\ Xor(Head(from).word, hKey) = AnswerHeader[Head(from)]
      /\ Deciphers(Tail(from), AnswerHeader, Bytes, Bytes[Head(from)], pKey)
  BY <1>2, DecipherTail, Zenon
<1>4. /\ AnswerHeader[Head(from)] = AnswerWord[Head(from).cmd]
      /\ Bytes[Head(from)] = Head(from).word
  BY <1>1, FrameWords, Zenon
<1>5. ASSUME Tail(from) = <<>>
      PROVE  Deciphers(up, RequestHeader, RequestHeader, pKey, Head(from).word)
  <2>1. Deciphers(<<>>, AnswerHeader, Bytes, Bytes[Head(from)], pKey)
    BY <1>3, <1>5
  <2>2. Head(from).word = pKey
    BY <1>4, <2>1, DecipherNone, Zenon
  <2>3. Deciphers(<<>>, RequestHeader, RequestHeader, pKey, pKey)
    BY DecipherNone, Zenon
  <2> QED BY <1>2, <2>2, <2>3
<1> QED BY <1>2, <1>3, <1>4, <1>5, Zenon DEF Linked

LEMMA LinkedTake ==
  ASSUME NEW up \in Seq(Frame), NEW from, NEW pKey, NEW hKey,
         NEW lo, up # <<>>, Linked("up", FALSE, lo, up, from, pKey, hKey)
  PROVE  /\ ~lo /\ from = <<>>
         /\ Xor(Head(up).word, pKey) = RequestWord[Head(up).cmd]
         /\ Linked("up", FALSE, lo, Tail(up), from, Xor(Head(up).word, pKey), hKey)
<1>1. Head(up) \in Frame /\ Tail(up) \in Seq(Frame)
  BY HeadAndTail, Zenon
<1>2. ~lo /\ from = <<>> /\ Deciphers(up, RequestHeader, RequestHeader, pKey, hKey)
  BY Zenon DEF Linked
<1>3. /\ Xor(Head(up).word, pKey) = RequestHeader[Head(up)]
      /\ Deciphers(Tail(up), RequestHeader, RequestHeader, RequestHeader[Head(up)],
                   hKey)
  BY <1>2, DecipherTail, Zenon
<1>4. RequestHeader[Head(up)] = RequestWord[Head(up).cmd]
  BY <1>1, FrameWords, Zenon
<1>5. ASSUME Tail(up) = <<>>
      PROVE  Deciphers(from, AnswerHeader, Bytes, hKey, Xor(Head(up).word, pKey))
  <2>1. Deciphers(<<>>, RequestHeader, RequestHeader, RequestHeader[Head(up)], hKey)
    BY <1>3, <1>5
  <2>2. Xor(Head(up).word, pKey) = hKey
    BY <1>3, <2>1, DecipherNone, Zenon
  <2>3. Deciphers(<<>>, AnswerHeader, Bytes, hKey, hKey)
    BY DecipherNone, Zenon
  <2> QED BY <1>2, <2>2, <2>3
<1> QED BY <1>2, <1>3, <1>4, <1>5, Zenon DEF Linked

\* A frame written up, and one written down.
LEMMA LinkedAsk ==
  ASSUME NEW up \in Seq(Frame), NEW pKey, NEW hKey, NEW lo, NEW f \in Frame,
         Linked("up", FALSE, lo, up, <<>>, pKey, hKey),
         f.word = Xor(RequestWord[f.cmd], hKey)
  PROVE  Linked("up", FALSE, lo, Append(up, f), <<>>, pKey, RequestWord[f.cmd])
<1>1. ~lo /\ Deciphers(up, RequestHeader, RequestHeader, pKey, hKey)
  BY Zenon DEF Linked
<1>2. Xor(f.word, hKey) = RequestHeader[f] /\ RequestHeader[f] = RequestWord[f.cmd]
  BY FrameWords, XorCancels, Zenon
<1>3. Deciphers(Append(up, f), RequestHeader, RequestHeader, pKey, RequestHeader[f])
  BY <1>1, <1>2, DecipherAppend, Zenon
<1>4. Append(up, f) # <<>>
  BY AppendProperties
<1> QED BY <1>1, <1>2, <1>3, <1>4, Zenon DEF Linked

LEMMA LinkedAnswer ==
  ASSUME NEW from \in Seq(Frame), NEW pKey, NEW hKey, NEW lo, NEW f \in Frame,
         Linked("up", FALSE, lo, <<>>, from, pKey, hKey),
         f.word = Xor(AnswerWord[f.cmd], pKey)
  PROVE  Linked("up", FALSE, lo, <<>>, Append(from, f), f.word, hKey)
<1>1. ~lo /\ Deciphers(from, AnswerHeader, Bytes, hKey, pKey)
  BY Zenon DEF Linked
<1>2. Xor(f.word, pKey) = AnswerHeader[f] /\ Bytes[f] = f.word
  BY FrameWords, XorCancels, Zenon
<1>3. Deciphers(Append(from, f), AnswerHeader, Bytes, hKey, Bytes[f])
  BY <1>1, <1>2, DecipherAppend, Zenon
<1>4. Append(from, f) # <<>>
  BY AppendProperties
<1> QED BY <1>1, <1>2, <1>3, <1>4, Zenon DEF Linked

LEMMA KeysOpen ==
  ASSUME TypeOK, NEW d \in Client, NEW t \in Caller, NEW c \in Client,
         InStepAt(d), LinkedAt(d), Dial(t, c)
  PROVE  LinkedAt(d)'
<1> USE DEF clientVars, wireVars, poolVars, taskVars, ghostVars
<1> USE KeyTypes
<1>1. CASE d # c
  <2>1. KeysStill(d)
    BY <1>1, Zenon DEF Dial, KeysStill
  <2> QED BY <2>1, StillLinked
<1>2. CASE d = c
  <2> DEFINE h == ApplyHeaderXor(RequestWord["Handshake"], FirstKey[c])
             f == [cmd |-> "Handshake", word |-> h.result, nonce |-> NoNonce,
                   id |-> <<>>, body |-> "ok"]
  <2>1. /\ link[d] = "none" /\ link'[d] = "up" /\ crossed' = crossed
        /\ lost' = lost /\ outgoing' = outgoing /\ fromPool' = fromPool
        /\ toPool'[d] = <<f>> /\ poolKey'[d] = FirstKey[d]
        /\ headerKey'[d] = h.key
    BY <1>2, Zenon DEF Dial
  <2>2. ~lost[d] /\ outgoing[d] = <<>> /\ fromPool[d] = <<>>
    BY <2>1, Zenon DEF InStepAt, InStep
  <2>3. f.word = Xor(RequestWord[f.cmd], FirstKey[d]) /\ h.key = RequestWord[f.cmd]
        /\ f.cmd = "Handshake"
    BY <1>2, FeedbackIsInput, Zenon DEF ApplyHeaderXor
  <2>4. f \in Frame
    <3>1. toPool' \in [Client -> Seq(Frame)]
      BY TypeNext, Zenon DEF TypeOK, Next
    <3> HIDE DEF f
    <3>2. <<f>> \in Seq(Frame)
      <4>1. toPool'[d] \in Seq(Frame) /\ toPool'[d] = <<f>>
        BY <2>1, <3>1, Zenon
      <4> QED BY <4>1
    <3> HIDE KeyTypes
    <3> QED BY <3>2, SMT
  <2> HIDE DEF f, h
  <2>5. <<>> \in Seq(Frame) /\ Append(<<>>, f) = <<f>> /\ <<f>> \o <<>> = <<f>>
    <3> HIDE KeyTypes
    <3> QED BY <2>4, SMT
  <2>6. Linked("up", FALSE, lost[d], <<>>, <<>>, FirstKey[d], FirstKey[d])
    BY <2>2, DecipherNone, Zenon DEF Linked
  <2>7. Linked("up", FALSE, lost[d], Append(<<>>, f), <<>>, FirstKey[d],
               RequestWord[f.cmd])
    <3> HIDE KeyTypes
    <3> QED BY <2>3, <2>4, <2>5, <2>6, LinkedAsk, Zenon
  <2> QED BY <2>1, <2>2, <2>3, <2>5, <2>7, Zenon DEF LinkedAt, Linked
<1> QED BY <1>1, <1>2

LEMMA KeysBreak ==
  ASSUME TypeOK, NEW d \in Client, LinkedAt(d)
  PROVE  /\ \A t \in Caller, c \in Client : DialFails(t, c) => LinkedAt(d)'
         /\ \A t \in Task : HandshakeFails(t) => LinkedAt(d)'
         /\ \A c \in Client : PoolClose(c) => LinkedAt(d)'
<1> USE DEF clientVars, wireVars, poolVars, taskVars, ghostVars
<1> USE KeyTypes
<1>1. ASSUME NEW c \in Client, link' = [link EXCEPT ![c] = "down"],
             d # c => KeysStill(d)
      PROVE  LinkedAt(d)'
  <2>1. CASE d # c
    BY <1>1, <2>1, StillLinked
  <2>2. CASE d = c
    <3>1. link'[d] = "down" /\ "down" # "up"
      BY <1>1, <2>2
    <3> QED BY <3>1, Zenon DEF LinkedAt, Linked
  <2> QED BY <2>1, <2>2
<1>2. ASSUME NEW t \in Caller, NEW c \in Client, DialFails(t, c)
      PROVE  LinkedAt(d)'
  <2>1. link' = [link EXCEPT ![c] = "down"] /\ (d # c => KeysStill(d))
    BY <1>2, Zenon DEF DialFails, KeysStill
  <2> QED BY <1>1, <2>1
<1>3. ASSUME NEW t \in Task, HandshakeFails(t)
      PROVE  LinkedAt(d)'
  <2>1. using[t] \in Client /\ link' = [link EXCEPT ![using[t]] = "down"]
        /\ (d # using[t] => KeysStill(d))
    BY <1>3, Zenon DEF HandshakeFails, KeysStill
  <2> QED BY <1>1, <2>1
<1>4. ASSUME NEW c \in Client, PoolClose(c)
      PROVE  LinkedAt(d)'
  <2>1. link' = [link EXCEPT ![c] = "down"]
    BY <1>4, Zenon DEF PoolClose
  <2>2. d # c => KeysStill(d)
    BY <1>4, Zenon DEF PoolClose, KeysStill
  <2> QED BY <1>1, <2>1, <2>2
<1> QED BY <1>2, <1>3, <1>4, Zenon

LEMMA KeysAgreed ==
  ASSUME TypeOK, NEW d \in Client, LinkedAt(d), NEW t \in Task,
         FinishHandshake(t) \/ Receive(t)
  PROVE  LinkedAt(d)'
<1> USE DEF clientVars, wireVars, poolVars, taskVars, ghostVars
<1> USE KeyTypes
<1>1. CASE d # using[t]
  <2>1. KeysStill(d)
    BY <1>1, Zenon DEF FinishHandshake, Receive, KeysStill
  <2> QED BY <2>1, StillLinked
<1>2. CASE d = using[t]
  <2>1. /\ link' = link /\ crossed' = crossed /\ lost' = lost
        /\ toPool' = toPool /\ outgoing' = outgoing /\ poolKey' = poolKey
        /\ fromPool[d] # <<>> /\ fromPool'[d] = Tail(fromPool[d])
        /\ headerKey'[d] = ApplyHeaderXor(Head(fromPool[d]).word, headerKey[d]).key
    BY <1>2, Zenon DEF FinishHandshake, Receive, Readable
  <2>2. headerKey'[d] = Head(fromPool[d]).word
    BY <2>1, FeedbackIsInput, Zenon
  <2>3. SUFFICES ASSUME link[d] = "up", ~crossed[d]
                 PROVE  Linked("up", FALSE, lost[d], toPool[d] \o outgoing[d],
                               Tail(fromPool[d]), poolKey[d], Head(fromPool[d]).word)
    BY <2>1, <2>2, Zenon DEF LinkedAt, Linked
  <2>4. Linked("up", FALSE, lost[d], toPool[d] \o outgoing[d], fromPool[d],
               poolKey[d], headerKey[d])
    BY <2>3, Zenon DEF LinkedAt, Linked
  <2>5. fromPool[d] \in Seq(Frame)
    BY Zenon
  <2> HIDE KeyTypes
  <2> QED BY <2>1, <2>4, <2>5, LinkedRead, Zenon
<1> QED BY <1>1, <1>2

\* A read is never garbled while the keys agree.
LEMMA KeysRead ==
  ASSUME TypeOK, NEW d \in Client, LinkedAt(d), link[d] = "up", ~crossed[d],
         fromPool[d] # <<>>
  PROVE  Readable(d)
<1>1. Linked("up", FALSE, lost[d], toPool[d] \o outgoing[d], fromPool[d],
             poolKey[d], headerKey[d])
  BY Zenon DEF LinkedAt, Linked
<1>2. fromPool[d] \in Seq(Frame)
  BY KeyTypes, Zenon
<1>3. ~lost[d] /\ Xor(Head(fromPool[d]).word, headerKey[d])
                    = AnswerWord[Head(fromPool[d]).cmd]
  BY <1>1, <1>2, LinkedRead, Zenon
<1> QED BY <1>3, Zenon DEF Readable

LEMMA KeysGarbled ==
  ASSUME TypeOK, NEW d \in Client, LinkedAt(d), NEW t \in Task,
         ReceiveGarbled(t)
  PROVE  LinkedAt(d)'
<1> USE DEF clientVars, wireVars, poolVars, taskVars, ghostVars
<1> USE KeyTypes
<1>1. CASE d # using[t]
  <2>1. /\ link' = link /\ crossed' = crossed /\ toPool' = toPool
        /\ outgoing' = outgoing /\ poolKey' = poolKey
        /\ lost' = [lost EXCEPT ![using[t]] = TRUE]
        /\ \E key : headerKey' = [headerKey EXCEPT ![using[t]] = key]
        /\ \E rest : fromPool' = [fromPool EXCEPT ![using[t]] = rest]
    BY Zenon DEF ReceiveGarbled
  <2>2. KeysStill(d)
    BY <1>1, <2>1, Zenon DEF KeysStill
  <2> QED BY <2>2, StillLinked
<1>2. CASE d = using[t]
  <2>1. /\ link' = link /\ crossed' = crossed
        /\ fromPool[d] # <<>> /\ ~Readable(d)
    BY <1>2, Zenon DEF ReceiveGarbled
  <2>2. ~(link[d] = "up" /\ ~crossed[d])
    BY <2>1, KeysRead, Zenon
  <2> QED BY <2>1, <2>2, Zenon DEF LinkedAt, Linked
<1> QED BY <1>1, <1>2

LEMMA HeadOfConcat ==
  ASSUME NEW S, NEW r \in Seq(S), NEW s \in Seq(S), r # <<>>
  PROVE  Head(r \o s) = Head(r)
<1>1. Len(r) \in Nat \ {0} /\ Len(s) \in Nat
  BY EmptySeq, LenProperties, SMT
<1>2. 1 \in 1 .. Len(r) + Len(s) /\ 1 <= Len(r)
  BY <1>1, SMT
<1>3. (r \o s)[1] = r[1] /\ r \o s \in Seq(S)
  BY <1>2, ConcatProperties
<1>4. r \o s # <<>>
  BY TailOfConcat
<1> QED BY <1>3, <1>4, HeadTailProperties

LEMMA KeysSend ==
  ASSUME TypeOK, WriterHoldsLock, NEW d \in Client, LinkedAt(d), NEW t \in Task,
         SendPrepare(t) \/ SendWrite(t) \/ SendFails(t)
  PROVE  LinkedAt(d)'
<1> USE DEF clientVars, wireVars, poolVars, taskVars, ghostVars
<1> USE KeyTypes
<1>1. CASE d # using[t]
  <2>1. KeysStill(d)
    BY <1>1, Zenon DEF SendPrepare, SendWrite, SendFails, KeysStill
  <2> QED BY <2>1, StillLinked
<1>2. CASE d = using[t] /\ SendPrepare(t)
  <2> DEFINE h == ApplyHeaderXor(RequestWord[op[t]], headerKey[d])
             f == [cmd |-> op[t], word |-> h.result,
                   nonce |-> IF cipher[d] THEN sendNonce[d] ELSE NoNonce,
                   id |-> <<t, calls[t]>>, body |-> "ok"]
  <2>1. /\ link' = link /\ lost' = lost /\ toPool' = toPool
        /\ fromPool' = fromPool /\ poolKey' = poolKey
        /\ outgoing'[d] = <<f>> /\ headerKey'[d] = h.key
        /\ (crossed'[d] <=> crossed[d] \/ fromPool[d] # <<>>)
        /\ pc[t] = "sendLock" /\ Holds(t, d)
    BY <1>2, Zenon DEF SendPrepare
  <2>2. outgoing[d] = <<>>
    BY <2>1, Zenon DEF WriterHoldsLock, Holds
  <2>3. f \in Frame
    <3>1. outgoing' \in [Client -> Seq(Frame)]
      BY <1>2, TypeNext, Zenon DEF TypeOK, Next, Step
    <3>2. <<f>> \in Seq(Frame)
      BY <2>1, <3>1, Zenon
    <3> HIDE DEF f
    <3> HIDE KeyTypes
    <3> QED BY <3>2, SMT
  <2>4. f.word = Xor(RequestWord[f.cmd], headerKey[d]) /\ h.key = RequestWord[f.cmd]
    BY FeedbackIsInput, Zenon DEF ApplyHeaderXor
  <2> HIDE DEF f, h
  <2>5. /\ toPool[d] \in Seq(Frame) /\ toPool[d] \o <<>> = toPool[d]
        /\ toPool[d] \o <<f>> = Append(toPool[d], f)
    <3>1. toPool[d] \in Seq(Frame)
      BY Zenon
    <3> HIDE KeyTypes
    <3> QED BY <2>3, <3>1, SMT
  <2>6. ASSUME link[d] = "up", ~crossed[d], fromPool[d] = <<>>
        PROVE  Linked("up", FALSE, lost[d], Append(toPool[d], f), <<>>,
                      poolKey[d], RequestWord[f.cmd])
    <3>1. Linked("up", FALSE, lost[d], toPool[d], <<>>, poolKey[d], headerKey[d])
      BY <2>2, <2>5, <2>6, Zenon DEF LinkedAt, Linked
    <3> HIDE KeyTypes
    <3> QED BY <2>3, <2>4, <2>5, <3>1, LinkedAsk, Zenon
  <2> QED BY <2>1, <2>4, <2>5, <2>6, Zenon DEF LinkedAt, Linked
<1>3. CASE d = using[t] /\ (SendWrite(t) \/ SendFails(t))
  <2>1. /\ link' = link /\ crossed' = crossed /\ lost' = lost
        /\ fromPool' = fromPool /\ poolKey' = poolKey /\ headerKey' = headerKey
        /\ outgoing'[d] = <<>>
        /\ link[d] = "up" => toPool'[d] = toPool[d] \o outgoing[d]
    BY <1>3, Zenon DEF SendWrite, SendFails
  <2>2. (toPool[d] \o outgoing[d]) \o <<>> = toPool[d] \o outgoing[d]
    <3>1. toPool[d] \in Seq(Frame) /\ outgoing[d] \in Seq(Frame)
      BY Zenon
    <3> HIDE KeyTypes
    <3> QED BY <3>1, SMT
  <2>3. link[d] = "up" => toPool'[d] \o outgoing'[d] = toPool[d] \o outgoing[d]
    BY <2>1, <2>2, Zenon
  <2> QED BY <2>1, <2>3, Zenon DEF LinkedAt, Linked
<1> QED BY <1>1, <1>2, <1>3

LEMMA KeysWritten ==
  ASSUME TypeOK, NEW d \in Client, LinkedAt(d), NEW c \in Client,
         NEW cmd \in Command, NEW id \in RequestId,
         NEW body \in {"ok", "malformed"}, PoolWrite(c, cmd, id, body)
  PROVE  LinkedAt(d)'
<1> USE DEF clientVars, wireVars, poolVars, taskVars, ghostVars
<1> USE KeyTypes
<1>1. CASE d # c
  <2>1. KeysStill(d)
    BY <1>1, Zenon DEF PoolWrite, KeysStill
  <2> QED BY <2>1, StillLinked
<1>2. CASE d = c
  <2> DEFINE f == PoolFrame(d, poolKey[d], cmd, poolSend[d], id, body)
  <2>1. /\ link' = link /\ lost' = lost /\ toPool' = toPool
        /\ outgoing' = outgoing /\ headerKey' = headerKey
        /\ fromPool'[d] = Append(fromPool[d], f) /\ poolKey'[d] = f.word
        /\ (crossed'[d] <=> crossed[d] \/ toPool[d] # <<>> \/ outgoing[d] # <<>>)
    BY <1>2, Zenon DEF PoolWrite
  <2>2. f \in Frame
    <3>1. poolKey[d] \in Word /\ poolSend[d] \in Nonce \cup {NoNonce}
      BY Zenon DEF TypeOK
    <3> QED BY <3>1, PoolFrameType, Zenon
  <2>3. f.word = Xor(AnswerWord[f.cmd], poolKey[d])
    BY Zenon DEF PoolFrame
  <2> HIDE DEF f
  <2>4. fromPool[d] \in Seq(Frame) /\ <<>> \o <<>> = <<>>
    <3>1. fromPool[d] \in Seq(Frame)
      BY Zenon
    <3> QED BY <3>1, SMT
  <2>5. ASSUME link[d] = "up", ~crossed[d], toPool[d] = <<>>, outgoing[d] = <<>>
        PROVE  Linked("up", FALSE, lost[d], <<>>, Append(fromPool[d], f), f.word,
                      headerKey[d])
    <3>1. Linked("up", FALSE, lost[d], <<>>, fromPool[d], poolKey[d], headerKey[d])
      BY <2>4, <2>5, Zenon DEF LinkedAt, Linked
    <3> HIDE KeyTypes
    <3> QED BY <2>2, <2>3, <2>4, <3>1, LinkedAnswer, Zenon
  <2> QED BY <2>1, <2>4, <2>5, Zenon DEF LinkedAt, Linked
<1> QED BY <1>1, <1>2

LEMMA KeysGreeted ==
  ASSUME TypeOK, NEW d \in Client, InStepAt(d), LinkedAt(d), NEW c \in Client,
         PoolGreet(c)
  PROVE  LinkedAt(d)'
<1> USE DEF clientVars, wireVars, poolVars, taskVars, ghostVars
<1> USE KeyTypes
<1>1. CASE d # c
  <2>1. KeysStill(d)
    BY <1>1, Zenon DEF PoolGreet, KeysStill
  <2> QED BY <2>1, StillLinked
<1>2. CASE d = c
  <2> DEFINE k == Xor(Head(toPool[d]).word, poolKey[d])
             g(body) == PoolFrame(d, k, "Handshake", NoNonce, <<>>, body)
  <2>1. /\ link[d] = "up" /\ link' = link /\ lost' = lost /\ crossed' = crossed
        /\ outgoing' = outgoing /\ headerKey' = headerKey
        /\ poolSend[d] = NoNonce /\ toPool[d] # <<>>
        /\ toPool'[d] = Tail(toPool[d])
    BY <1>2, Zenon DEF PoolGreet
  <2>2. PICK body \in {"ok", "malformed"} :
          /\ fromPool'[d] = Append(fromPool[d], g(body))
          /\ poolKey'[d] = g(body).word
    BY <1>2, Zenon DEF PoolGreet
  <2> DEFINE f == g(body)
  <2>3. outgoing[d] = <<>> /\ fromPool[d] = <<>> /\ Len(toPool[d]) <= 1
    BY <2>1, Zenon DEF InStepAt, InStep
  <2>4. toPool[d] \in Seq(Frame) /\ poolKey[d] \in Word
    BY Zenon
  <2>5. Tail(toPool[d]) = <<>> /\ toPool[d] \o <<>> = toPool[d] /\ <<>> \o <<>> = <<>>
    <3> HIDE KeyTypes
    <3> HIDE DEF f, g, k
    <3> QED BY <2>1, <2>3, <2>4, ShortTail, SMT
  <2>6. f \in Frame /\ f.word = Xor(AnswerWord[f.cmd], k)
    <3>1. k \in Word
      <4>1. Head(toPool[d]) \in Frame
        BY <2>1, <2>4, HeadAndTail, Zenon
      <4> QED BY <2>4, <4>1, FrameFields, XorWord, Zenon
    <3>2. <<>> \in RequestId
      BY Zenon DEF RequestId
    <3> HIDE DEF k
    <3>3. f \in Frame
      BY <3>1, <3>2, CallCommands, PoolFrameType, Zenon
    <3> QED BY <3>3, Zenon DEF PoolFrame
  <2> HIDE DEF f, g
  <2>7. ASSUME ~crossed[d]
        PROVE  Linked("up", FALSE, lost[d], <<>>, Append(<<>>, f), f.word,
                      headerKey[d])
    <3>1. Linked("up", FALSE, lost[d], toPool[d], <<>>, poolKey[d], headerKey[d])
      BY <2>1, <2>3, <2>5, <2>7, Zenon DEF LinkedAt, Linked
    <3> HIDE KeyTypes
    <3>2. Linked("up", FALSE, lost[d], Tail(toPool[d]), <<>>, k, headerKey[d])
      BY <2>1, <2>4, <3>1, LinkedTake, Zenon
    <3>3. Linked("up", FALSE, lost[d], <<>>, <<>>, k, headerKey[d])
      BY <2>5, <3>2
    <3> HIDE DEF k
    <3>4. <<>> \in Seq(Frame)
      BY SMT
    <3> QED BY <2>6, <3>3, <3>4, LinkedAnswer, Zenon
  <2> QED BY <2>1, <2>2, <2>3, <2>5, <2>7, Zenon DEF LinkedAt, Linked, f
<1> QED BY <1>1, <1>2

LEMMA KeysTaken ==
  ASSUME TypeOK, NEW d \in Client, LinkedAt(d), NEW c \in Client, PoolTake(c)
  PROVE  LinkedAt(d)'
<1> USE DEF clientVars, wireVars, poolVars, taskVars, ghostVars
<1> USE KeyTypes
<1>1. CASE d # c
  <2>1. KeysStill(d)
    BY <1>1, Zenon DEF PoolTake, KeysStill
  <2> QED BY <2>1, StillLinked
<1>2. CASE d = c
  <2>1. /\ link[d] = "up" /\ link' = link /\ lost' = lost /\ crossed' = crossed
        /\ outgoing' = outgoing /\ headerKey' = headerKey
        /\ fromPool' = fromPool
        /\ toPool[d] # <<>> /\ toPool'[d] = Tail(toPool[d])
        /\ poolKey'[d] = Xor(Head(toPool[d]).word, poolKey[d])
    BY <1>2, Zenon DEF PoolTake
  <2>2. toPool[d] \in Seq(Frame) /\ outgoing[d] \in Seq(Frame)
    BY Zenon
  <2> DEFINE up == toPool[d] \o outgoing[d]
  <2>3. /\ up \in Seq(Frame) /\ up # <<>>
        /\ Tail(up) = Tail(toPool[d]) \o outgoing[d]
    <3>1. toPool[d] # <<>>
      BY <2>1, Zenon
    <3> HIDE KeyTypes
    <3> QED BY <2>2, <3>1, TailOfConcat
  <2>4. Head(up) = Head(toPool[d])
    <3> HIDE KeyTypes
    <3>1. toPool[d] # <<>>
      BY <2>1, Zenon
    <3> QED BY <2>2, <3>1, HeadOfConcat
  <2>5. ASSUME ~crossed[d]
        PROVE  Linked("up", FALSE, lost[d], Tail(up), fromPool[d],
                      Xor(Head(up).word, poolKey[d]), headerKey[d])
    <3>1. Linked("up", FALSE, lost[d], up, fromPool[d], poolKey[d], headerKey[d])
      BY <2>1, <2>5, Zenon DEF LinkedAt, Linked
    <3> HIDE KeyTypes
    <3> HIDE DEF up
    <3> QED BY <2>3, <3>1, LinkedTake, Zenon
  <2> HIDE DEF up
  <2> QED BY <2>1, <2>3, <2>4, <2>5, Zenon DEF LinkedAt, Linked
<1> QED BY <1>1, <1>2

LEMMA KeysNext ==
  TypeOK /\ NonceInv /\ KeysLinked /\ [Next]_vars => KeysLinked'
<1> SUFFICES ASSUME TypeOK, NonceInv, KeysLinked, [Next]_vars, NEW d \in Client
             PROVE  LinkedAt(d)'
  BY Zenon DEF LinkedAt, Linked, KeysLinked
<1>1. WriterHoldsLock /\ InStepAt(d) /\ LinkedAt(d)
  BY InStepIsInv, LinkedIsInv, Zenon DEF NonceInv
<1>2. ASSUME \/ \E t \in Task : RecvCall(t) \/ ReceiveEof(t) \/ Return(t)
             \/ \E c \in Client : SpawnLoop(c)
             \/ \E t \in Caller, c \in Client, cmd \in Calls : Request(t, c, cmd)
             \/ UNCHANGED vars
      PROVE  LinkedAt(d)'
  <2>1. KeysStill(d)
    BY <1>2, Zenon DEF RecvCall, ReceiveEof, Return, SpawnLoop, Request, vars,
         KeysStill, clientVars, wireVars, poolVars, taskVars, ghostVars
  <2> QED BY <1>1, <2>1, StillLinked
<1>3. ASSUME NEW t \in Caller, NEW c \in Client, Dial(t, c) \/ DialFails(t, c)
      PROVE  LinkedAt(d)'
  BY <1>1, <1>3, KeysOpen, KeysBreak, Zenon
<1>4. ASSUME NEW t \in Task,
             \/ FinishHandshake(t) \/ HandshakeFails(t) \/ SendPrepare(t)
             \/ SendWrite(t) \/ SendFails(t) \/ Receive(t) \/ ReceiveGarbled(t)
      PROVE  LinkedAt(d)'
  BY <1>1, <1>4, KeysBreak, KeysAgreed, KeysSend, KeysGarbled, Zenon
<1>5. ASSUME NEW c \in Client, PoolAnswer(c) \/ PoolPush(c)
      PROVE  LinkedAt(d)'
  <2>1. \E cmd \in Command, id \in RequestId, body \in {"ok", "malformed"} :
          PoolWrite(c, cmd, id, body)
    BY <1>5, PoolWrites, Zenon
  <2> QED BY <1>1, <2>1, KeysWritten, Zenon
<1>6. ASSUME NEW c \in Client, PoolGreet(c) \/ PoolTake(c) \/ PoolClose(c)
      PROVE  LinkedAt(d)'
  BY <1>1, <1>6, KeysGreeted, KeysTaken, KeysBreak, Zenon
<1> QED
  BY <1>2, <1>3, <1>4, <1>5, <1>6, Zenon DEF Next, Step

LEMMA KeysInvariant == Spec => []KeysLinked
<1>1. Init => KeysLinked
  <2> SUFFICES ASSUME Init, NEW c \in Client PROVE link[c] # "up"
    BY Zenon DEF KeysLinked
  <2>1. link[c] = "none" /\ "none" # "up"
    BY Zenon DEF Init
  <2> QED BY <2>1
<1> QED BY <1>1, KeysNext, TypeCorrect, NonceInvariant, PTL DEF Spec

(***************************************************************************)
(* In every execution, with any number of callers, connections and pushed  *)
(* commands, a connection on which no message was enciphered against one   *)
(* on its way is one on which each side can read the next header and       *)
(* decrypt the next message.                                               *)
(***************************************************************************)
THEOREM HeadersCorrect == Spec => []HeadersReadable
<1>1. TypeOK /\ NonceInv /\ KeysLinked => HeadersReadable
  <2> SUFFICES ASSUME TypeOK, NonceInv, KeysLinked, NEW d \in Client,
                      link[d] = "up", ~crossed[d]
               PROVE  /\ fromPool[d] # <<>> => Readable(d)
                      /\ toPool[d] # <<>> /\ poolSend[d] # NoNonce
                           => PoolReadable(d)
    BY Zenon DEF HeadersReadable
  <2>1. InStepAt(d) /\ LinkedAt(d)
    BY InStepIsInv, LinkedIsInv, Zenon DEF NonceInv
  <2>2. fromPool[d] # <<>> => Readable(d)
    BY <2>1, KeysRead, Zenon
  <2>3. ASSUME toPool[d] # <<>>, poolSend[d] # NoNonce
        PROVE  PoolReadable(d)
    <3>1. connected[d] /\ cipher[d] = connected[d]
      BY <2>1, <2>3, Zenon DEF InStepAt, InStep
    <3>2. Chain(toPool[d] \o outgoing[d], poolRecv[d], sendNonce[d])
      BY <2>1, <3>1, Zenon DEF InStepAt, InStep
    <3>3. toPool[d] \in Seq(Frame) /\ outgoing[d] \in Seq(Frame)
      BY KeyTypes, Zenon
    <3> DEFINE up == toPool[d] \o outgoing[d]
    <3>4. up \in Seq(Frame) /\ up # <<>>
      BY <2>3, <3>3, TailOfConcat
    <3>5. Head(up) = Head(toPool[d])
      BY <2>3, <3>3, HeadOfConcat
    <3>6. Linked("up", FALSE, lost[d], up, fromPool[d], poolKey[d], headerKey[d])
      BY <2>1, Zenon DEF LinkedAt, Linked
    <3>7. Head(up).nonce = poolRecv[d]
      BY <3>2, <3>4, ChainTail, Zenon
    <3>8. Xor(Head(up).word, poolKey[d]) = RequestWord[Head(up).cmd]
      BY <3>4, <3>6, LinkedTake, Zenon
    <3> HIDE DEF up
    <3> QED BY <3>5, <3>7, <3>8, Zenon DEF PoolReadable
  <2> QED BY <2>2, <2>3
<1> QED BY <1>1, TypeCorrect, NonceInvariant, KeysInvariant, PTL

(***************************************************************************)
(* GoodMessageAccepted: only a read takes a task off the stream, and on a  *)
(* connection that is up and not crossed it reads the next message.        *)
(***************************************************************************)
LEMMA OthersLabel ==
  ASSUME TypeOK, NEW t \in Task, NEW u \in Task, NEW l,
         pc[t] = "recvLock", pc'[t] # "recvLock", pc' = [pc EXCEPT ![u] = l]
  PROVE  pc[u] = "recvLock"
BY SMT DEF TypeOK

LEMMA OnlyReads ==
  ASSUME TypeOK, [Next]_vars, NEW t \in Task,
         pc[t] = "recvLock", pc'[t] # "recvLock"
  PROVE  Receive(t) \/ ReceiveGarbled(t) \/ ReceiveEof(t)
<1> USE DEF Goto
<1>1. pc' # pc
  OBVIOUS
<1>2. ASSUME NEW u \in Task, pc[u] # "recvLock", NEW l,
             pc' = [pc EXCEPT ![u] = l]
      PROVE  FALSE
  BY <1>2, OthersLabel, Zenon
<1>3. CASE UNCHANGED vars
  BY <1>1, <1>3, Zenon DEF vars, taskVars
<1>4. ASSUME NEW u \in Caller, NEW c \in Client,
             \/ Dial(u, c) \/ DialFails(u, c)
             \/ \E cmd \in Asked : Request(u, c, cmd)
      PROVE  FALSE
  <2>1. u \in Task
    BY Zenon DEF Task
  <2>2. CASE DialFails(u, c)
    BY <1>1, <2>2, Zenon DEF DialFails, taskVars
  <2>3. CASE Dial(u, c)
    <3>1. pc[u] = "idle" /\ pc' = [pc EXCEPT ![u] = "greet"]
      BY <2>3, Zenon DEF Dial
    <3> QED BY <1>2, <2>1, <3>1, Zenon
  <2>4. CASE \E cmd \in Asked : Request(u, c, cmd)
    <3>1. pc[u] = "idle" /\ pc' = [pc EXCEPT ![u] = "sendLock"]
      BY <2>4, Zenon DEF Request
    <3> QED BY <1>2, <2>1, <3>1, Zenon
  <2> QED BY <1>4, <2>2, <2>3, <2>4
<1>5. ASSUME NEW c \in Client,
             \/ SpawnLoop(c)
             \/ PoolGreet(c) \/ PoolTake(c) \/ PoolAnswer(c) \/ PoolPush(c)
             \/ PoolClose(c)
      PROVE  FALSE
  <2>1. CASE SpawnLoop(c)
    <3>1. pc[c] = "off" /\ pc' = [pc EXCEPT ![c] = "loop"] /\ c \in Task
      BY <2>1, Zenon DEF SpawnLoop, Task
    <3> QED BY <1>2, <3>1, Zenon
  <2>2. CASE \/ PoolGreet(c) \/ PoolTake(c) \/ PoolAnswer(c) \/ PoolPush(c)
             \/ PoolClose(c)
    BY <1>1, <2>2, Zenon DEF PoolGreet, PoolTake, PoolAnswer, PoolPush, PoolWrite,
                             PoolClose, taskVars
  <2> QED BY <1>5, <2>1, <2>2
<1>6. ASSUME NEW u \in Task,
             \/ FinishHandshake(u) \/ HandshakeFails(u)
             \/ SendPrepare(u) \/ SendWrite(u) \/ SendFails(u)
             \/ RecvCall(u) \/ Return(u)
      PROVE  FALSE
  <2>1. pc[u] \in {"greet", "sendLock", "writing", "sent", "loop", "done"}
    BY <1>6, Zenon DEF FinishHandshake, HandshakeFails, SendPrepare, SendWrite,
                       SendFails, RecvCall, Return
  <2>2. \E l : pc' = [pc EXCEPT ![u] = l]
    BY <1>6, Zenon DEF FinishHandshake, HandshakeFails, SendPrepare, SendWrite,
                       SendFails, RecvCall, Return, Fail
  <2> QED BY <1>2, <2>1, <2>2
<1>7. ASSUME NEW u \in Task, Receive(u) \/ ReceiveGarbled(u) \/ ReceiveEof(u)
      PROVE  u = t
  <2>1. \E l : pc' = [pc EXCEPT ![u] = l]
    BY <1>7, Zenon DEF Receive, ReceiveGarbled, ReceiveEof, Fail
  <2> QED BY <2>1, SMT DEF TypeOK
<1> QED
  BY <1>3, <1>4, <1>5, <1>6, <1>7, Zenon DEF Next, Step

LEMMA ReadAccepted ==
  ASSUME TypeOK, NonceInv, KeysLinked, NEW t \in Task, pc[t] = "recvLock",
         link[using[t]] = "up", ~crossed[using[t]], fromPool[using[t]] # <<>>,
         Welcome(t, Head(fromPool[using[t]]))
  PROVE  Accepted(using[t], Head(fromPool[using[t]]))
<1> DEFINE c == using[t]
           f == Head(fromPool[c])
<1>1. c \in Client
  BY SMT DEF TypeOK
<1>2. connected[c] /\ cipher[c] = connected[c]
  BY <1>1, Zenon DEF NonceInv, UsersAreConnected, Handshaking
<1>3. ~lost[c]
  BY <1>1, Zenon DEF KeysLinked
<1>4. Chain(fromPool[c], recvNonce[c], poolSend[c])
  BY <1>1, <1>2, <1>3, Zenon DEF NonceInv, NonceLockstep
<1>5. fromPool[c] \in Seq(Frame)
  BY <1>1, KeyTypes, Zenon
<1>6. f.nonce = recvNonce[c]
  BY <1>4, <1>5, ChainTail, Zenon
<1> QED BY <1>6, Zenon DEF Accepted, Welcome

(***************************************************************************)
(* In every execution, on a connection that is up and was not crossed, a   *)
(* task that leaves the stream has read a message and refuses it only for  *)
(* its command or its body (GoodMessageAccepted): the lockstep of the      *)
(* nonces and of the keys is what receive_message needs to succeed.        *)
(***************************************************************************)
THEOREM GoodMessagesAccepted == Spec => GoodMessageAccepted
<1> DEFINE A(t) ==
      LET c == using[t]
          f == Head(fromPool[c]) IN
        pc[t] = "recvLock" /\ pc'[t] # "recvLock" /\ link[c] = "up"
          /\ ~crossed[c] =>
            /\ fromPool[c] # <<>>
            /\ Welcome(t, f) => IF t \in Client THEN pc'[t] = "loop"
                                               ELSE reply'[t].status = "ok"
<1>1. TypeOK /\ NonceInv /\ KeysLinked /\ [Next]_vars
        => [\A t \in Task : A(t)]_vars
  <2> SUFFICES ASSUME TypeOK, NonceInv, KeysLinked, [Next]_vars, NEW t \in Task,
                      pc[t] = "recvLock", pc'[t] # "recvLock",
                      link[using[t]] = "up", ~crossed[using[t]]
               PROVE  /\ fromPool[using[t]] # <<>>
                      /\ Welcome(t, Head(fromPool[using[t]])) =>
                           IF t \in Client THEN pc'[t] = "loop"
                                           ELSE reply'[t].status = "ok"
    BY Zenon
  <2> DEFINE c == using[t]
  <2>1. c \in Client
    BY SMT DEF TypeOK
  <2>2. fromPool[c] # <<>> => Readable(c)
    BY <2>1, LinkedIsInv, KeysRead, Zenon
  <2>3. ~ReceiveGarbled(t)
    BY <2>2, Zenon DEF ReceiveGarbled
  <2>4. ~ReceiveEof(t)
    <3>1. "up" # "down"
      OBVIOUS
    <3> QED BY <3>1, Zenon DEF ReceiveEof
  <2>5. Receive(t)
    BY <2>3, <2>4, OnlyReads, Zenon
  <2>6. fromPool[c] # <<>>
    BY <2>5, Zenon DEF Receive, Readable
  <2>7. ASSUME Welcome(t, Head(fromPool[c])) PROVE Accepted(c, Head(fromPool[c]))
    BY <2>6, <2>7, ReadAccepted, Zenon
  <2>8. ASSUME Welcome(t, Head(fromPool[c])), t \in Client
        PROVE  pc'[t] = "loop"
    <3>1. pc' = [pc EXCEPT ![t] = "loop"]
      BY <2>5, <2>7, <2>8, Zenon DEF Receive, Goto
    <3> QED BY <3>1, SMT DEF TypeOK
  <2>9. ASSUME Welcome(t, Head(fromPool[c])), t \notin Client
        PROVE  reply'[t].status = "ok"
    <3>1. reply' = [reply EXCEPT ![t] = Outcome(t, c, Head(fromPool[c]))]
      BY <2>5, <2>9, Zenon DEF Receive
    <3>2. t \in Caller
      BY <2>9, Zenon DEF Task
    <3>3. Outcome(t, c, Head(fromPool[c])).status = "ok"
      BY <2>7, <2>9, <3>2, SMT DEF Outcome, Welcome
    <3>4. reply'[t] = Outcome(t, c, Head(fromPool[c]))
      BY <3>1, SMT DEF TypeOK
    <3> QED BY <3>3, <3>4, Zenon
  <2> QED BY <2>6, <2>8, <2>9, Zenon
<1>2. Spec => [][\A t \in Task : A(t)]_vars
  BY <1>1, TypeCorrect, NonceInvariant, KeysInvariant, PTL DEF Spec
<1> QED BY <1>2 DEF GoodMessageAccepted
==============================================================================
