---------------------------- MODULE MCPoolHistory ----------------------------
(***************************************************************************)
(* Symmetry of the run with the pool's history: tasks of a kind are        *)
(* interchangeable, and so are connections.                                *)
(***************************************************************************)
EXTENDS PoolHistory, TLC

Peers == Permutations(Handler) \cup Permutations(Requester)
           \cup Permutations(Operator) \cup Permutations(Client)
==============================================================================
