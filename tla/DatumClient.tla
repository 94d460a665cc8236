----------------------------- MODULE DatumClient -----------------------------
(***************************************************************************)
(* DatumProtocolClient (src/datum_protocol.rs): the connection to a DATUM  *)
(* pool, shared by the tasks that call it and by the receive loop the      *)
(* server spawns for it (src/server.rs).                                   *)
(*                                                                         *)
(* A task that sends or receives holds the stream lock from its first byte *)
(* to its last.  The header key and the nonces have locks of their own but *)
(* are only touched by the holder of the stream lock once the client is    *)
(* connected, so what happens between two awaits on the socket is one step *)
(* here.  Words are sets of bits (DatumHeader); a request or answer has    *)
(* the length of its command.                                              *)
(*                                                                         *)
(* The pool is not part of this repository.  It is modelled as the peer    *)
(* this client is written for: it follows the header key and the nonces as *)
(* the client moves them, and answers requests in order.                   *)
(***************************************************************************)
EXTENDS DatumHeader, FiniteSets

CONSTANTS
  Client,       \* the connections made, one DatumProtocolClient each
  Caller,       \* tasks that call the clients
  Asked,        \* commands that the callers request
  Push,         \* commands the pool sends on its own initiative
  MaxCalls,     \* bound: requests of one caller
  InFlight,     \* bound: frames in one direction of a connection
  NonceSpace,   \* number of nonces before the counter wraps (2^64)
  FirstNonce,   \* initialize_session_nonce of the handshake's header key
  FirstKey,     \* the random header key of the handshake, for each client
  NoiseWord,    \* what a read in the middle of a frame takes for a header
  RequestLen,   \* [Command -> length of the request's plaintext]
  AnswerLen     \* [Command -> length of the pool's message]

ASSUME TaskAssumption   == Client # {} /\ Client \cap Caller = {}
Calls == {"FetchCoinbaser", "SubmitPow"}

ASSUME CallAssumption   == Asked \subseteq Calls
ASSUME PushAssumption   == Push \subseteq Command
ASSUME BoundsAssumption == MaxCalls \in Nat /\ InFlight \in Nat \ {0}
ASSUME NonceAssumption  == /\ NonceSpace \in Nat \ {0}
                           /\ FirstNonce \in 0 .. NonceSpace - 1
ASSUME KeyAssumption    == /\ FirstKey \in [Client -> Word]
                           /\ NoiseWord \in Word
ASSUME LenAssumption    == /\ RequestLen \in [Command -> Nat]
                           /\ AnswerLen \in [Command -> Nat]

\* The receive loop of client c is the task c.
Task  == Caller \cup Client
Nonce == 0 .. NonceSpace - 1

\* Handshake frames are not sealed, and have no nonce.
NoNonce == -1

\* Requests are numbered by their caller; what the pool pushes has no number.
\* Nothing in a message carries it: only the properties read it.
RequestId == (Task \X (0 .. MaxCalls)) \cup {<<>>}

Frame == [cmd : Command, word : Word, nonce : Nonce \cup {NoNonce},
          id : RequestId, body : {"ok", "malformed"}]

\* A request the pool has taken and not answered.
Todo == [cmd : Command, id : RequestId]

Pc == {"idle", "greet", "sendLock", "writing", "sent", "recvLock", "done",
       "off", "loop", "stopped"}

Reply == [status : {"none", "ok", "err"}, id : RequestId]
NoReply == [status |-> "none", id |-> <<>>]

VARIABLES
  streamLock,   \* the FIFO queue of the stream RwLock, always taken in write
                \* mode: its head is the holder
  headerKey, sendNonce, recvNonce, cipher, connected,
  outgoing,     \* the frame the holder is about to write, if any
  link,         \* the TCP connection
  toPool, fromPool,
  poolKey, poolSend, poolRecv, poolTodo,
  pc, using, op, reply, calls,
  lost,         \* a read was garbled: the client has lost the place where
                \* a frame starts
  crossed       \* history: a header was enciphered while another one was
                \* on its way in the opposite direction

clientVars == <<headerKey, sendNonce, recvNonce, cipher, connected, outgoing>>
wireVars   == <<link, toPool, fromPool>>
poolVars   == <<poolKey, poolSend, poolRecv, poolTodo>>
taskVars   == <<pc, using, op, reply, calls>>
ghostVars  == <<lost, crossed>>
vars == <<streamLock, clientVars, wireVars, poolVars, taskVars, ghostVars>>

\* A bug: the counter is wider than the nonce.
NextNonceUnwrapped(n) == n + 1

NextNonce(n) == (n + 1) % NonceSpace

(***************************************************************************)
(* The header of a message with command cmd and cmd_len len, as it is      *)
(* signed, before the XOR.  Only the handshake is not channel-encrypted.   *)
(***************************************************************************)
MessageHeader(cmd, len) ==
  [cmd_len |-> len, reserved |-> 0, is_signed |-> TRUE,
   is_encrypted_pubkey  |-> cmd = "Handshake",
   is_encrypted_channel |-> cmd # "Handshake",
   proto_cmd |-> CommandCode[cmd]]

HeaderWord(cmd, len) == WordOf(SerializeHeader(MessageHeader(cmd, len)))

RequestWord == [cmd \in Command |-> HeaderWord(cmd, RequestLen[cmd])]
AnswerWord  == [cmd \in Command |-> HeaderWord(cmd, AnswerLen[cmd])]

\* The command the receiver reads from such a header, if from_u8 knows it.
Decoded ==
  [cmd \in Command |->
     FromU8(DeserializeHeader(
              SerializeHeader(MessageHeader(cmd, AnswerLen[cmd]))).proto_cmd)]

\* handle_protocol_message: the commands it parses when they arrive.
Handled == {"ClientConfig", "JobValidation", "ShareResponse", "BlockNotify"}

Init ==
  /\ streamLock = [c \in Client |-> <<>>]
  /\ headerKey = [c \in Client |-> {}]
  /\ sendNonce = [c \in Client |-> 0]
  /\ recvNonce = [c \in Client |-> 0]
  /\ cipher = [c \in Client |-> FALSE]
  /\ connected = [c \in Client |-> FALSE]
  /\ outgoing = [c \in Client |-> <<>>]
  /\ link = [c \in Client |-> "none"]
  /\ toPool = [c \in Client |-> <<>>]
  /\ fromPool = [c \in Client |-> <<>>]
  /\ poolKey = [c \in Client |-> {}]
  /\ poolSend = [c \in Client |-> NoNonce]
  /\ poolRecv = [c \in Client |-> NoNonce]
  /\ poolTodo = [c \in Client |-> <<>>]
  /\ pc = [t \in Task |-> IF t \in Client THEN "off" ELSE "idle"]
  /\ using = [t \in Task |->
                IF t \in Client THEN t ELSE CHOOSE c \in Client : TRUE]
  /\ op = [t \in Task |-> "FetchCoinbaser"]
  /\ reply = [t \in Task |-> NoReply]
  /\ calls = [t \in Task |-> 0]
  /\ lost = [c \in Client |-> FALSE]
  /\ crossed = [c \in Client |-> FALSE]

(***************************************************************************)
(* The stream lock.  tokio's RwLock is fair: it is handed to the waiting   *)
(* tasks in the order of their requests.                                   *)
(***************************************************************************)
Enqueue(t, c) == streamLock' = [streamLock EXCEPT ![c] = Append(@, t)]
Release(c)    == streamLock' = [streamLock EXCEPT ![c] = Tail(@)]

\* A bug: the stream is locked for reading.
HoldsShared(t, c) == t \in {streamLock[c][i] : i \in DOMAIN streamLock[c]}

Holds(t, c) == streamLock[c] # <<>> /\ Head(streamLock[c]) = t

Goto(t, label) == pc' = [pc EXCEPT ![t] = label]

(***************************************************************************)
(* connect, up to the end of the hello message: a client is new, no other  *)
(* task has it, and its locks are free.                                    *)
(***************************************************************************)
Dial(t, c) ==
  /\ pc[t] = "idle"
  /\ link[c] = "none"
  /\ LET hello == ApplyHeaderXor(RequestWord["Handshake"], FirstKey[c]) IN
       /\ headerKey' = [headerKey EXCEPT ![c] = hello.key]
       /\ toPool' = [toPool EXCEPT ![c] =
            <<[cmd |-> "Handshake", word |-> hello.result, nonce |-> NoNonce,
               id |-> <<>>, body |-> "ok"]>>]
  /\ link' = [link EXCEPT ![c] = "up"]
  /\ poolKey' = [poolKey EXCEPT ![c] = FirstKey[c]]
  /\ using' = [using EXCEPT ![t] = c]
  /\ Goto(t, "greet")
  /\ UNCHANGED <<streamLock, sendNonce, recvNonce, cipher, connected, outgoing,
                 fromPool, poolSend, poolRecv, poolTodo, op, reply, calls,
                 ghostVars>>

\* The dial, or a write of the hello message, fails: the client is dropped.
DialFails(t, c) ==
  /\ pc[t] = "idle"
  /\ link[c] = "none"
  /\ link' = [link EXCEPT ![c] = "down"]
  /\ UNCHANGED <<streamLock, clientVars, toPool, fromPool, poolVars, taskVars,
                 ghostVars>>

\* The pool's handshake response is valid: connect returns Ok.
FinishHandshake(t) ==
  LET c == using[t] IN
  /\ pc[t] = "greet"
  /\ fromPool[c] # <<>>
  /\ LET f == Head(fromPool[c]) IN
       /\ Decoded[f.cmd] = {"Handshake"}
       /\ f.body = "ok"
       /\ headerKey' = [headerKey EXCEPT ![c] =
                          ApplyHeaderXor(f.word, headerKey[c]).key]
  /\ fromPool' = [fromPool EXCEPT ![c] = Tail(@)]
  /\ cipher' = [cipher EXCEPT ![c] = TRUE]
  /\ sendNonce' = [sendNonce EXCEPT ![c] = FirstNonce]
  /\ recvNonce' = [recvNonce EXCEPT ![c] = FirstNonce]
  /\ connected' = [connected EXCEPT ![c] = TRUE]
  /\ Goto(t, "idle")
  /\ UNCHANGED <<streamLock, outgoing, link, toPool, poolVars, using, op,
                 reply, calls, ghostVars>>

\* It is not, or the pool hangs up: connect returns an error, and the client,
\* with its connection, is dropped.
HandshakeFails(t) ==
  LET c == using[t] IN
  /\ pc[t] = "greet"
  /\ \/ fromPool[c] # <<>> /\ Head(fromPool[c]).body = "malformed"
     \/ fromPool[c] = <<>> /\ link[c] = "down"
  /\ link' = [link EXCEPT ![c] = "down"]
  /\ Goto(t, "idle")
  /\ UNCHANGED <<streamLock, clientVars, toPool, fromPool, poolVars, using, op,
                 reply, calls, ghostVars>>

\* DatumServer::start and reconnect_pool spawn the receive loop.
SpawnLoop(c) ==
  /\ pc[c] = "off"
  /\ connected[c]
  /\ Goto(c, "loop")
  /\ UNCHANGED <<streamLock, clientVars, wireVars, poolVars, using, op, reply,
                 calls, ghostVars>>

(***************************************************************************)
(* fetch_coinbaser and submit_pow: send_message, then receive_message.     *)
(***************************************************************************)
Request(t, c, cmd) ==
  /\ pc[t] = "idle"
  /\ connected[c]
  /\ calls[t] < MaxCalls
  /\ using' = [using EXCEPT ![t] = c]
  /\ op' = [op EXCEPT ![t] = cmd]
  /\ calls' = [calls EXCEPT ![t] = @ + 1]
  /\ reply' = [reply EXCEPT ![t] = NoReply]
  /\ Goto(t, "sendLock")
  /\ Enqueue(t, c)
  /\ UNCHANGED <<clientVars, wireVars, poolVars, ghostVars>>

\* send_message with the lock, up to the first write: header key, nonce,
\* encryption, signature.
SendPrepare(t) ==
  LET c == using[t]
      sent == ApplyHeaderXor(RequestWord[op[t]], headerKey[c]) IN
  /\ pc[t] = "sendLock"
  /\ Holds(t, c)
  /\ headerKey' = [headerKey EXCEPT ![c] = sent.key]
  /\ sendNonce' = [sendNonce EXCEPT ![c] = NextNonce(@)]
  /\ outgoing' = [outgoing EXCEPT ![c] =
       <<[cmd |-> op[t], word |-> sent.result,
          nonce |-> IF cipher[c] THEN sendNonce[c] ELSE NoNonce,
          id |-> <<t, calls[t]>>, body |-> "ok"]>>]
  /\ crossed' = [crossed EXCEPT ![c] = @ \/ fromPool[c] # <<>>]
  /\ Goto(t, "writing")
  /\ UNCHANGED <<streamLock, recvNonce, cipher, connected, wireVars, poolVars,
                 using, op, reply, calls, lost>>

\* The three write_all calls.  The kernel may still accept what is written to
\* a connection that is already down.
SendWrite(t) ==
  LET c == using[t] IN
  /\ pc[t] = "writing"
  /\ Holds(t, c)
  /\ \/ link[c] = "down" /\ UNCHANGED toPool
     \/ /\ link[c] = "up"
        /\ Len(toPool[c]) < InFlight
        /\ toPool' = [toPool EXCEPT ![c] = @ \o outgoing[c]]
  /\ outgoing' = [outgoing EXCEPT ![c] = <<>>]
  /\ Release(c)
  /\ Goto(t, "sent")
  /\ UNCHANGED <<headerKey, sendNonce, recvNonce, cipher, connected, link,
                 fromPool, poolVars, using, op, reply, calls, ghostVars>>

\* A bug: the receive loop goes on after an error.
FailAndRetry(t) ==
  IF t \in Client
    THEN Goto(t, "loop") /\ UNCHANGED reply
    ELSE Goto(t, "done")
           /\ reply' = [reply EXCEPT ![t] = [status |-> "err", id |-> <<>>]]

\* A task's operation returns an error; it is the end of the receive loop.
Fail(t) ==
  IF t \in Client
    THEN Goto(t, "stopped") /\ UNCHANGED reply
    ELSE Goto(t, "done")
           /\ reply' = [reply EXCEPT ![t] = [status |-> "err", id |-> <<>>]]

SendFails(t) ==
  LET c == using[t] IN
  /\ pc[t] = "writing"
  /\ Holds(t, c)
  /\ link[c] = "down"
  /\ outgoing' = [outgoing EXCEPT ![c] = <<>>]
  /\ Release(c)
  /\ Fail(t)
  /\ UNCHANGED <<headerKey, sendNonce, recvNonce, cipher, connected, wireVars,
                 poolVars, using, op, calls, ghostVars>>

(***************************************************************************)
(* receive_message.  The lock is kept while read_exact waits for the pool. *)
(***************************************************************************)
RecvCall(t) ==
  /\ pc[t] \in {"sent", "loop"}
  /\ Goto(t, "recvLock")
  /\ Enqueue(t, using[t])
  /\ UNCHANGED <<clientVars, wireVars, poolVars, using, op, reply, calls,
                 ghostVars>>

\* The next bytes are a frame, and its header is deciphered with the right key.
Readable(c) ==
  /\ ~lost[c]
  /\ fromPool[c] # <<>>
  /\ LET f == Head(fromPool[c]) IN
       Xor(f.word, headerKey[c]) = AnswerWord[f.cmd]

\* receive_message returns Ok for frame f: it decrypts under the next nonce,
\* its command is known, and handle_protocol_message parses it.
\* A bug: the nonce is compared after it has been advanced.
AcceptedLate(c, f) ==
  /\ cipher[c] => f.nonce = NextNonce(recvNonce[c])
  /\ Decoded[f.cmd] # {}
  /\ Decoded[f.cmd] \cap Handled # {} => f.body = "ok"

Accepted(c, f) ==
  /\ cipher[c] => f.nonce = recvNonce[c]
  /\ Decoded[f.cmd] # {}
  /\ Decoded[f.cmd] \cap Handled # {} => f.body = "ok"

\* What fetch_coinbase_payout or submit_pow makes of it: the command must be
\* the request's, and the body one that their parsers take.
Outcome(t, c, f) ==
  [status |-> IF /\ Accepted(c, f)
                 /\ Decoded[f.cmd] = {op[t]}
                 /\ f.body = "ok"
                THEN "ok" ELSE "err",
   id |-> f.id]

\* A bug: the receive loop takes the lock once, for all the messages it reads.
ReceiveHoldingLock(t) ==
  LET c == using[t]
      f == Head(fromPool[c]) IN
  /\ pc[t] = "recvLock"
  /\ Holds(t, c)
  /\ Readable(c)
  /\ headerKey' = [headerKey EXCEPT ![c] = ApplyHeaderXor(f.word, @).key]
  /\ recvNonce' = [recvNonce EXCEPT ![c] = NextNonce(@)]
  /\ fromPool' = [fromPool EXCEPT ![c] = Tail(@)]
  /\ IF t \in Client
       THEN UNCHANGED <<streamLock, pc, reply>>
       ELSE /\ Release(c)
            /\ Goto(t, "done")
            /\ reply' = [reply EXCEPT ![t] = Outcome(t, c, f)]
  /\ UNCHANGED <<sendNonce, cipher, connected, outgoing, link, toPool,
                 poolVars, using, op, calls, ghostVars>>

Receive(t) ==
  LET c == using[t]
      f == Head(fromPool[c]) IN
  /\ pc[t] = "recvLock"
  /\ Holds(t, c)
  /\ Readable(c)
  /\ headerKey' = [headerKey EXCEPT ![c] = ApplyHeaderXor(f.word, @).key]
  /\ recvNonce' = [recvNonce EXCEPT ![c] = NextNonce(@)]
  /\ fromPool' = [fromPool EXCEPT ![c] = Tail(@)]
  /\ Release(c)
  /\ IF t \in Client
       THEN /\ Goto(t, IF Accepted(c, f) THEN "loop" ELSE "stopped")
            /\ UNCHANGED reply
       ELSE /\ Goto(t, "done")
            /\ reply' = [reply EXCEPT ![t] = Outcome(t, c, f)]
  /\ UNCHANGED <<sendNonce, cipher, connected, outgoing, link, toPool,
                 poolVars, using, op, calls, ghostVars>>

(***************************************************************************)
(* A wrong key, or a read that starts inside a frame: the length, the      *)
(* flags and the command are noise.  If the bytes for that length come, it *)
(* ends with an error: the signature does not verify, or there is none     *)
(* (then the nonce is used up) and the decryption fails.  It has consumed  *)
(* n whole frames and perhaps a part of the next one, whose rest is left   *)
(* to the next reader.  (Left out: a noise length that ends a read exactly *)
(* where a frame ends, one in 2^22.)                                       *)
(***************************************************************************)
ReceiveGarbled(t) ==
  LET c == using[t] IN
  /\ pc[t] = "recvLock"
  /\ Holds(t, c)
  /\ fromPool[c] # <<>>
  /\ ~Readable(c)
  /\ \E key \in IF lost[c] THEN {NoiseWord, Head(fromPool[c]).word}
                           ELSE {Head(fromPool[c]).word} :
       headerKey' = [headerKey EXCEPT ![c] = ApplyHeaderXor(key, @).key]
  /\ \E n \in 0 .. Len(fromPool[c]) :
       fromPool' = [fromPool EXCEPT ![c] = SubSeq(@, n + 1, Len(@))]
  /\ \E used \in BOOLEAN :
       recvNonce' = [recvNonce EXCEPT ![c] = IF used THEN NextNonce(@) ELSE @]
  /\ lost' = [lost EXCEPT ![c] = TRUE]
  /\ Release(c)
  /\ Fail(t)
  /\ UNCHANGED <<sendNonce, cipher, connected, outgoing, link, toPool,
                 poolVars, using, op, calls, crossed>>

\* A bug: a read times out, and the connection stays in use.
ReceiveTimesOut(t) ==
  LET c == using[t] IN
  /\ pc[t] = "recvLock"
  /\ Holds(t, c)
  /\ ~Readable(c)
  /\ Release(c)
  /\ Fail(t)
  /\ UNCHANGED <<clientVars, wireVars, poolVars, using, op, calls, ghostVars>>

\* read_exact meets the end of the stream, or a reset, with nothing left to
\* read.  (In the middle of a garbled message it is ReceiveGarbled.)
ReceiveEof(t) ==
  LET c == using[t] IN
  /\ pc[t] = "recvLock"
  /\ Holds(t, c)
  /\ link[c] = "down"
  /\ fromPool[c] = <<>>
  /\ Release(c)
  /\ Fail(t)
  /\ UNCHANGED <<clientVars, wireVars, poolVars, using, op, calls, ghostVars>>

Return(t) ==
  /\ pc[t] = "done"
  /\ Goto(t, "idle")
  /\ UNCHANGED <<streamLock, clientVars, wireVars, poolVars, using, op, reply,
                 calls, ghostVars>>

(***************************************************************************)
(* The pool.  It moves its header key as the client expects: to the plain  *)
(* header it reads, and to the enciphered header it writes.                *)
(***************************************************************************)
PoolFrame(c, key, cmd, nonce, id, body) ==
  [cmd |-> cmd, word |-> Xor(AnswerWord[cmd], key), nonce |-> nonce,
   id |-> id, body |-> body]

PoolWrite(c, cmd, id, body) ==
  LET f == PoolFrame(c, poolKey[c], cmd, poolSend[c], id, body) IN
  /\ link[c] = "up"
  /\ poolSend[c] # NoNonce
  /\ Len(fromPool[c]) < InFlight
  /\ fromPool' = [fromPool EXCEPT ![c] = Append(@, f)]
  /\ poolKey' = [poolKey EXCEPT ![c] = f.word]
  /\ poolSend' = [poolSend EXCEPT ![c] = NextNonce(@)]
  /\ crossed' = [crossed EXCEPT ![c] =
                   @ \/ toPool[c] # <<>> \/ outgoing[c] # <<>>]
  /\ UNCHANGED <<streamLock, clientVars, link, toPool, poolRecv, taskVars, lost>>

PoolAnswer(c) ==
  /\ poolTodo[c] # <<>>
  /\ \E body \in {"ok", "malformed"} :
       PoolWrite(c, Head(poolTodo[c]).cmd, Head(poolTodo[c]).id, body)
  /\ poolTodo' = [poolTodo EXCEPT ![c] = Tail(@)]

PoolPush(c) ==
  /\ \E cmd \in Push : PoolWrite(c, cmd, <<>>, "ok")
  /\ UNCHANGED poolTodo

\* The answer to the hello message, and the nonces it fixes.
PoolGreet(c) ==
  /\ link[c] = "up"
  /\ poolSend[c] = NoNonce
  /\ toPool[c] # <<>>
  /\ \E body \in {"ok", "malformed"} :
       LET key == Xor(Head(toPool[c]).word, poolKey[c])
           f   == PoolFrame(c, key, "Handshake", NoNonce, <<>>, body) IN
         /\ fromPool' = [fromPool EXCEPT ![c] = Append(@, f)]
         /\ poolKey' = [poolKey EXCEPT ![c] = f.word]
  /\ toPool' = [toPool EXCEPT ![c] = Tail(@)]
  /\ poolSend' = [poolSend EXCEPT ![c] = FirstNonce]
  /\ poolRecv' = [poolRecv EXCEPT ![c] = FirstNonce]
  /\ UNCHANGED <<streamLock, clientVars, link, poolTodo, taskVars, ghostVars>>

\* The pool can read the next request.
PoolReadable(c) ==
  LET f == Head(toPool[c]) IN
  /\ Xor(f.word, poolKey[c]) = RequestWord[f.cmd]
  /\ f.nonce = poolRecv[c]

PoolTake(c) ==
  /\ link[c] = "up"
  /\ poolSend[c] # NoNonce
  /\ toPool[c] # <<>>
  /\ PoolReadable(c)
  /\ LET f == Head(toPool[c]) IN
       /\ poolKey' = [poolKey EXCEPT ![c] = Xor(f.word, @)]
       /\ poolTodo' = [poolTodo EXCEPT ![c] =
                         Append(@, [cmd |-> f.cmd, id |-> f.id])]
  /\ poolRecv' = [poolRecv EXCEPT ![c] = NextNonce(@)]
  /\ toPool' = [toPool EXCEPT ![c] = Tail(@)]
  /\ UNCHANGED <<streamLock, clientVars, link, fromPool, poolSend, taskVars,
                 ghostVars>>

\* The connection breaks: the pool hangs up, perhaps because it cannot read a
\* request, or the network resets.  What was on its way to the client may
\* still arrive.
PoolClose(c) ==
  /\ link[c] = "up"
  /\ link' = [link EXCEPT ![c] = "down"]
  /\ toPool' = [toPool EXCEPT ![c] = <<>>]
  /\ \/ UNCHANGED fromPool
     \/ fromPool' = [fromPool EXCEPT ![c] = <<>>]
  /\ UNCHANGED <<streamLock, clientVars, poolVars, taskVars, ghostVars>>

(***************************************************************************)
(* What a task goes on to do once it has been called, and the behaviours.  *)
(***************************************************************************)
Step(t) ==
  \/ FinishHandshake(t) \/ HandshakeFails(t)
  \/ SendPrepare(t) \/ SendWrite(t) \/ SendFails(t)
  \/ RecvCall(t) \/ Receive(t) \/ ReceiveEof(t) \/ Return(t)

Next ==
  \/ \E t \in Caller, c \in Client :
       Dial(t, c) \/ DialFails(t, c) \/ \E cmd \in Asked : Request(t, c, cmd)
  \/ \E t \in Task : Step(t) \/ ReceiveGarbled(t)
  \/ \E c \in Client :
       \/ SpawnLoop(c)
       \/ PoolGreet(c) \/ PoolTake(c) \/ PoolAnswer(c) \/ PoolPush(c)
       \/ PoolClose(c)

Spec == Init /\ [][Next]_vars

(***************************************************************************)
(* Tasks are scheduled, the loop is spawned, and the pool serves requests. *)
(* It owes the client nothing else, and a garbled read may wait forever,   *)
(* unless the connection is down: then it ends with the stream.            *)
(***************************************************************************)
Fairness ==
  /\ \A t \in Task :
       /\ WF_vars(Step(t))
       /\ WF_vars(link[using[t]] = "down" /\ ReceiveGarbled(t))
  /\ \A c \in Client : /\ WF_vars(SpawnLoop(c))
                       /\ WF_vars(PoolGreet(c))
                       /\ WF_vars(PoolTake(c))
                       /\ WF_vars(PoolAnswer(c))

FairSpec == Spec /\ Fairness

(***************************************************************************)
(* A pool that also never stops sending messages of its own, and hangs up  *)
(* on a request it cannot read.  If it only stopped reading, the window    *)
(* would fill, and a caller would wait in write_all for ever, with the     *)
(* stream lock.                                                            *)
(***************************************************************************)
HangsUp(c) ==
  /\ poolSend[c] # NoNonce
  /\ toPool[c] # <<>>
  /\ ~PoolReadable(c)
  /\ PoolClose(c)

TalkingSpec ==
  /\ FairSpec
  /\ \A c \in Client : WF_vars(PoolPush(c)) /\ WF_vars(HangsUp(c))
  /\ \A t \in Task : WF_vars(ReceiveGarbled(t))

(***************************************************************************)
(* Properties.                                                             *)
(***************************************************************************)
\* Every variable has its type.
TypeOK ==
  /\ streamLock \in [Client -> Seq(Task)]
  /\ headerKey \in [Client -> Word]
  /\ sendNonce \in [Client -> Nonce]
  /\ recvNonce \in [Client -> Nonce]
  /\ cipher \in [Client -> BOOLEAN]
  /\ connected \in [Client -> BOOLEAN]
  /\ outgoing \in [Client -> Seq(Frame)]
  /\ link \in [Client -> {"none", "up", "down"}]
  /\ toPool \in [Client -> Seq(Frame)]
  /\ fromPool \in [Client -> Seq(Frame)]
  /\ poolKey \in [Client -> Word]
  /\ poolSend \in [Client -> Nonce \cup {NoNonce}]
  /\ poolRecv \in [Client -> Nonce \cup {NoNonce}]
  /\ poolTodo \in [Client -> Seq(Todo)]
  /\ pc \in [Task -> Pc]
  /\ using \in [Task -> Client]
  /\ op \in [Task -> Calls]
  /\ reply \in [Task -> Reply]
  /\ calls \in [Task -> 0 .. MaxCalls]
  /\ lost \in [Client -> BOOLEAN]
  /\ crossed \in [Client -> BOOLEAN]

(***************************************************************************)
(* Whatever tasks interleave in send_message and receive_message, the      *)
(* nonces of the frames on their way up continue those the pool has used,  *)
(* up to the client's counter; and likewise down, until a read is garbled. *)
(* No frame is refused for its nonce.                                      *)
(***************************************************************************)
Chain(frames, first, next) ==
  LET n(i) == IF i \in 1 .. Len(frames) THEN frames[i].nonce ELSE next IN
    /\ n(1) = first
    /\ \A i \in 1 .. Len(frames) : n(i + 1) = NextNonce(n(i))

NonceLockstep ==
  \A c \in Client : link[c] = "up" /\ cipher[c] =>
    /\ Chain(toPool[c] \o outgoing[c], poolRecv[c], sendNonce[c])
    /\ ~lost[c] => Chain(fromPool[c], recvNonce[c], poolSend[c])

(***************************************************************************)
(* header_xor_key serves both directions.  As long as no message is        *)
(* enciphered while another is on its way against it, each side can read   *)
(* the next header that reaches it.                                        *)
(***************************************************************************)
HeadersReadable ==
  \A c \in Client : link[c] = "up" /\ ~crossed[c] =>
    /\ fromPool[c] # <<>> => Readable(c)
    /\ toPool[c] # <<>> /\ poolSend[c] # NoNonce => PoolReadable(c)

(***************************************************************************)
(* The answer that fetch_coinbaser or submit_pow returns is the pool's     *)
(* answer to that very request.                                            *)
(***************************************************************************)
OwnReply ==
  \A t \in Caller : reply[t].status = "ok" => reply[t].id = <<t, calls[t]>>

\* A request that has been made returns, with an answer or with an error.
EveryCallReturns == \A t \in Caller : pc[t] = "sendLock" ~> pc[t] = "idle"

\* When the connection is down, every task that is using it gets away from it.
LinkDownReleases ==
  \A t \in Task :
    (pc[t] \notin {"idle", "off", "stopped"} /\ link[using[t]] = "down")
      ~> pc[t] \in {"idle", "stopped"}

\* receive_message stops the receive loop only when the connection is down.
LoopOutlivesMessages ==
  [][\A c \in Client :
       pc[c] = "recvLock" /\ pc'[c] = "stopped" => link[c] = "down"]_vars

(***************************************************************************)
(* As long as a connection is up and its header key was not crossed, a     *)
(* task that leaves the stream has read a message, and refuses it only for *)
(* what it says: a command this client does not know or did not ask for,   *)
(* or a body it cannot parse; never for its header or its nonce.           *)
(***************************************************************************)
Welcome(t, f) ==
  /\ Decoded[f.cmd] # {}
  /\ f.body = "ok"
  /\ t \in Caller => Decoded[f.cmd] = {op[t]}

GoodMessageAccepted ==
  [][\A t \in Task :
       LET c == using[t]
           f == Head(fromPool[c]) IN
         pc[t] = "recvLock" /\ pc'[t] # "recvLock" /\ link[c] = "up"
           /\ ~crossed[c] =>
             /\ fromPool[c] # <<>>
             /\ Welcome(t, f) => IF t \in Client THEN pc'[t] = "loop"
                                                ELSE reply'[t].status = "ok"
    ]_vars

(***************************************************************************)
(* DatumProtocolClient gives its callers the service that AnswerService    *)
(* specifies: behind locks, keys and nonces there are two FIFO queues.     *)
(***************************************************************************)
Ids(messages) == [i \in DOMAIN messages |-> messages[i].id]

Greeted == {c \in Client : connected[c]}
Garbled == {c \in Client : lost[c]}

Ready == [c \in Client |-> Ids(fromPool[c])]
Owed  == [c \in Client |-> IF link[c] = "up"
                             THEN Ids(poolTodo[c]) \o Ids(toPool[c]) ELSE <<>>]

Stage(label) ==
  IF label \in {"sendLock", "writing"} THEN "asked"
  ELSE IF label \in {"sent", "recvLock"} THEN "waiting" ELSE "idle"

Stages   == [t \in Caller |-> Stage(pc[t])]
Via      == [t \in Caller |-> using[t]]
Numbers  == [t \in Caller |-> calls[t]]
Returned == [t \in Caller |-> reply[t]]

Service ==
  INSTANCE AnswerService WITH
    Conn <- Client, Talks <- Push # {}, greeted <- Greeted, ready <- Ready,
    owed <- Owed, garbled <- Garbled, state <- Stages, via <- Via,
    calls <- Numbers, reply <- Returned

ServesCallers == Service!Spec
==============================================================================
