----------------------------- MODULE MCRowLocks -----------------------------
(***************************************************************************)
(* A small instance of RowLocks for TLC.  Connections, workers and jobs    *)
(* are interchangeable.                                                    *)
(***************************************************************************)
EXTENDS RowLocks, TLC

Interchangeable == Permutations(Tx) \cup Permutations(Worker) \cup Permutations(Job)
=============================================================================
