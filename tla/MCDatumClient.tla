---------------------------- MODULE MCDatumClient ----------------------------
(***************************************************************************)
(* Constants of the DatumClient runs.                                      *)
(***************************************************************************)
EXTENDS DatumClient, TLC

MCFirstKey   == [c \in Client |-> {0, 9, 18, 27}]
MCNoiseWord  == {1, 30}
\* A fetch request is a u64; the other lengths are samples.
MCRequestLen ==
  [cmd \in Command |-> CASE cmd = "FetchCoinbaser" -> 8
                         [] cmd = "SubmitPow"      -> 80
                         [] OTHER                  -> 300]
MCAnswerLen  ==
  [cmd \in Command |-> CASE cmd = "FetchCoinbaser" -> 60
                         [] cmd = "SubmitPow"      -> 17
                         [] OTHER                  -> 210]

\* Callers are interchangeable (in runs without liveness properties).
Callers == Permutations(Caller)
==============================================================================
