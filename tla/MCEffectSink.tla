---- MODULE MCEffectSink ----
(***************************************************************************)
(* A small instance of EffectSink for TLC.                                 *)
(***************************************************************************)
EXTENDS MCJobStore, EffectSink

CONSTANTS c1, c2, c3, c4

(* A job may depend on nothing, on j1 or, with a retry, on j2: jobs of a   *)
(* chain of three, and at most four attempts.                              *)
RetriedLeaf == { Def(1, 0, FALSE, 0, None), Def(1, 0, FALSE, 0, j1), Def(1, 1, FALSE, 0, j2) }

(* Jobs are admitted in the order of the chain.  Claim ids are drawn at    *)
(* random (uuid4): taking them in one order loses nothing but their names. *)
IdsInOrder ==
    /\ DOMAIN jobs' \in { {}, {j1}, {j1, j2}, {j1, j2, j3} }
    /\ DOMAIN attempts' \in { {}, {c1}, {c1, c2}, {c1, c2, c3}, {c1, c2, c3, c4} }
====
