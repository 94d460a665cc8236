---------------------------- MODULE SequentialPool ----------------------------
(***************************************************************************)
(* What DatumPool (src/pool.rs) is to the tasks that share it: an object   *)
(* whose methods are executed one at a time, each at one moment, although  *)
(* set_template and reconnect wait for the network in the middle.          *)
(*                                                                         *)
(* A template comes with its own coinbase if the pool has a client no call *)
(* has failed on; a fetch that fails leaves the coinbase as it was; and a  *)
(* reader sees the pool between two methods.  DatumServer implements this  *)
(* specification.                                                          *)
(***************************************************************************)
EXTENDS Naturals

CONSTANT Conn

VARIABLES
  fresh,      \* connections that have not been made yet
  board,      \* the pool
  distrusted, \* connections on which a call has failed
  seen        \* the pool as it was read last

vars == <<fresh, board, distrusted, seen>>

Init ==
  /\ fresh = Conn
  /\ board = [client |-> "none", template |-> 0, coinbase |-> 0]
  /\ distrusted = {}
  /\ seen = board

\* connect and reconnect: every client is a new one.
Connect(c) ==
  /\ c \in fresh
  /\ fresh' = fresh \ {c}
  /\ board' = [board EXCEPT !.client = c]
  /\ UNCHANGED <<distrusted, seen>>

ReconnectFails ==
  /\ board' = [board EXCEPT !.client = "none"]
  /\ UNCHANGED <<fresh, distrusted, seen>>

(***************************************************************************)
(* set_template, without a client, with a coinbase, and with an error.     *)
(***************************************************************************)
SetTemplateSolo ==
  /\ board.client = "none"
  /\ board' \in [client : {"none"}, template : Nat, coinbase : {board.coinbase}]
  /\ UNCHANGED <<fresh, distrusted, seen>>

SetTemplate ==
  /\ board.client # "none"
  /\ board' \in [client : {board.client}, template : Nat, coinbase : Nat]
  /\ board.client \notin distrusted => board'.coinbase = board'.template
  /\ UNCHANGED <<fresh, distrusted, seen>>

SetTemplateFails ==
  /\ board.client # "none"
  /\ board' \in [client : {board.client}, template : Nat,
                 coinbase : {board.coinbase}]
  /\ distrusted' = distrusted \cup {board.client}
  /\ UNCHANGED <<fresh, seen>>

\* submit_pow goes to the client that the pool has.
SubmitFails ==
  /\ board.client # "none"
  /\ distrusted' = distrusted \cup {board.client}
  /\ UNCHANGED <<fresh, board, seen>>

Look ==
  /\ seen' = board
  /\ UNCHANGED <<fresh, board, distrusted>>

Next ==
  \/ \E c \in Conn : Connect(c)
  \/ ReconnectFails \/ SetTemplateSolo \/ SetTemplate \/ SetTemplateFails
  \/ SubmitFails \/ Look

Spec == Init /\ [][Next]_vars
==============================================================================
