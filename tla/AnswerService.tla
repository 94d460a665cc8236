----------------------------- MODULE AnswerService -----------------------------
(***************************************************************************)
(* What DatumProtocolClient (src/datum_protocol.rs) promises the tasks     *)
(* that call it, without its locks, keys and nonces: a connection is a     *)
(* pair of FIFO queues, and a caller that waits is handed the oldest       *)
(* message that has arrived, whoever it was meant for.                     *)
(*                                                                         *)
(* A message is taken whole, once, and by a caller only after its request  *)
(* has been written.  Until a read meets bytes that are no message, a call *)
(* that fails has taken a message, or the connection is down and nothing   *)
(* is left to read on it; after such a read no call on the connection      *)
(* returns a message.  DatumClient implements this specification.          *)
(***************************************************************************)
EXTENDS Naturals, Sequences

CONSTANTS
  Conn, Caller,
  Talks   \* whether the pool sends messages that nobody asked for

\* The name of a message that nobody asked for.
Nobody == <<>>

NotYet      == [status |-> "none", id |-> Nobody]
Refusal     == [status |-> "err", id |-> Nobody]
Answers(id) == [status : {"ok", "err"}, id : {id}]

VARIABLES
  link,    \* "none", "up" or "down", for each connection
  greeted, \* the connections on which connect has succeeded
  owed,    \* the requests that are not answered yet
  ready,   \* the messages that have arrived and are not read to their end
  garbled, \* the connections on which nobody knows where a message starts
  state,   \* "idle", "asked" or "waiting", for each caller
  via,     \* the connection of its last call
  calls,   \* the number of its calls
  reply    \* what the last call returned

vars == <<link, greeted, owed, ready, garbled, state, via, calls, reply>>

Init ==
  /\ link = [c \in Conn |-> "none"]
  /\ greeted = {}
  /\ owed = [c \in Conn |-> <<>>]
  /\ ready = [c \in Conn |-> <<>>]
  /\ garbled = {}
  /\ state = [t \in Caller |-> "idle"]
  /\ via \in [Caller -> Conn]
  /\ calls = [t \in Caller |-> 0]
  /\ reply = [t \in Caller |-> NotYet]

(***************************************************************************)
(* The connection.                                                         *)
(***************************************************************************)
\* connect: the hello message is the first that is answered.
Connect(t, c) ==
  /\ state[t] = "idle"
  /\ link[c] = "none"
  /\ link' = [link EXCEPT ![c] = "up"]
  /\ owed' = [owed EXCEPT ![c] = <<Nobody>>]
  /\ via' = [via EXCEPT ![t] = c]
  /\ UNCHANGED <<greeted, ready, garbled, state, calls, reply>>

Unreachable(c) ==
  /\ link[c] = "none"
  /\ link' = [link EXCEPT ![c] = "down"]
  /\ UNCHANGED <<greeted, owed, ready, garbled, state, via, calls, reply>>

\* What has arrived may still be read.
Break(c) ==
  /\ link[c] = "up"
  /\ link' = [link EXCEPT ![c] = "down"]
  /\ owed' = [owed EXCEPT ![c] = <<>>]
  /\ ready' = [ready EXCEPT ![c] = @] \/ ready' = [ready EXCEPT ![c] = <<>>]
  /\ UNCHANGED <<greeted, garbled, state, via, calls, reply>>

Answer(c) ==
  /\ link[c] = "up"
  /\ owed[c] # <<>>
  /\ ready' = [ready EXCEPT ![c] = Append(@, Head(owed[c]))]
  /\ owed' = [owed EXCEPT ![c] = Tail(@)]
  /\ UNCHANGED <<link, greeted, garbled, state, via, calls, reply>>

Announce(c) ==
  /\ Talks
  /\ link[c] = "up"
  /\ ready' = [ready EXCEPT ![c] = Append(@, Nobody)]
  /\ UNCHANGED <<link, greeted, owed, garbled, state, via, calls, reply>>

\* The oldest message is taken from a connection.
Takes(c) ==
  /\ c \notin garbled
  /\ ready[c] # <<>>
  /\ ready' = [ready EXCEPT ![c] = Tail(@)]
  /\ UNCHANGED garbled

\* A read meets bytes that are no message.  It takes any number of messages,
\* and perhaps a part of the next one.
Garbles(c) ==
  /\ ready[c] # <<>>
  /\ \E n \in 0 .. Len(ready[c]) :
       ready' = [ready EXCEPT ![c] = SubSeq(@, n + 1, Len(@))]
  /\ garbled' = garbled \cup {c}

\* connect reads the answer to its hello message.
Greet(c) ==
  /\ c \notin greeted
  /\ Takes(c)
  /\ greeted' = greeted \cup {c}
  /\ UNCHANGED <<link, owed, state, via, calls, reply>>

\* The receive loop reads whatever comes first, and drops it.
Discard(c) ==
  /\ c \in greeted
  /\ Takes(c) \/ Garbles(c)
  /\ UNCHANGED <<link, greeted, owed, state, via, calls, reply>>

(***************************************************************************)
(* fetch_coinbaser and submit_pow.                                         *)
(***************************************************************************)
Ask(t, c) ==
  /\ state[t] = "idle"
  /\ c \in greeted
  /\ state' = [state EXCEPT ![t] = "asked"]
  /\ via' = [via EXCEPT ![t] = c]
  /\ calls' = [calls EXCEPT ![t] = @ + 1]
  /\ reply' = [reply EXCEPT ![t] = NotYet]
  /\ UNCHANGED <<link, greeted, owed, ready, garbled>>

\* A broken connection may still take the bytes of a request.
Write(t) ==
  /\ state[t] = "asked"
  /\ state' = [state EXCEPT ![t] = "waiting"]
  /\ \/ /\ link[via[t]] = "up"
        /\ owed' = [owed EXCEPT ![via[t]] = Append(@, <<t, calls[t]>>)]
     \/ link[via[t]] = "down" /\ UNCHANGED owed
  /\ UNCHANGED <<link, greeted, ready, garbled, via, calls, reply>>

Return(t, result) ==
  /\ state' = [state EXCEPT ![t] = "idle"]
  /\ reply' = [reply EXCEPT ![t] = result]
  /\ UNCHANGED <<link, greeted, owed, via, calls>>

\* The call fails because the connection is down, and nothing is left to read.
HangUp(t) ==
  /\ state[t] # "idle"
  /\ link[via[t]] = "down"
  /\ state[t] = "waiting" => ready[via[t]] = <<>>
  /\ Return(t, Refusal)
  /\ UNCHANGED <<ready, garbled>>

\* The call returns the oldest message, or fails on it.
Deliver(t) ==
  /\ state[t] = "waiting"
  /\ Takes(via[t])
  /\ \E result \in Answers(Head(ready[via[t]])) : Return(t, result)

\* The call fails on bytes that are no message.
Garble(t) ==
  /\ state[t] = "waiting"
  /\ Garbles(via[t])
  /\ Return(t, Refusal)

Next ==
  \/ \E c \in Conn :
       \/ Unreachable(c) \/ Break(c) \/ Answer(c) \/ Announce(c)
       \/ Greet(c) \/ Discard(c)
  \/ \E t \in Caller :
       \/ \E c \in Conn : Connect(t, c) \/ Ask(t, c)
       \/ Write(t) \/ HangUp(t) \/ Deliver(t) \/ Garble(t)

Spec == Init /\ [][Next]_vars
==============================================================================
