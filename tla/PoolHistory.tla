----------------------------- MODULE PoolHistory ------------------------------
(***************************************************************************)
(* DatumServer with what it takes to see that DatumPool is used as a       *)
(* SequentialPool: the pool as the last finished method has left it, and   *)
(* as it was when it was read last.  Both follow the steps of DatumServer  *)
(* and decide none of them.                                                *)
(***************************************************************************)
EXTENDS DatumServer

VARIABLES
  board,   \* history: the pool between two methods
  seen     \* history: what the last reader has seen

historyVars == <<board, seen>>

Pool == [client |-> client, template |-> template, coinbase |-> coinbase]

\* set_template or reconnect is waiting for the network.
Updating == \E t \in Worker : pc[t] \in {"fetch", "dial"}

\* The getters of the pool, and get_status, read it.
Reading(t) ==
  \/ pc[t] = "look" /\ pc'[t] = "idle"
  \/ pc[t] = "status" /\ pc'[t] = "statusRunning"

HistoryInit ==
  /\ Init
  /\ board = Pool
  /\ seen = Pool

Record ==
  /\ board' = IF Updating' THEN board ELSE Pool'
  /\ seen' = IF \E t \in Worker : Reading(t) THEN Pool ELSE seen

HistoryNext == Next /\ Record

HistorySpec == HistoryInit /\ [][HistoryNext]_<<vars, historyVars>>

(***************************************************************************)
(* However events, requests and commands interleave, the pool changes as   *)
(* if its methods were executed one at a time, and who reads it never sees *)
(* one half done: set_template and reconnect have the write guard across   *)
(* their awaits, and whoever reads or submits has a read guard.            *)
(***************************************************************************)
Fresh      == {c \in Client : conn[c] = "none"}
Distrusted == {c \in Client : failed[c]}

Sequential ==
  INSTANCE SequentialPool WITH
    Conn <- Client, fresh <- Fresh, distrusted <- Distrusted

OneAtATime == Sequential!Spec
==============================================================================
