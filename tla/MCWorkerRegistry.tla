---- MODULE MCWorkerRegistry ----
(***************************************************************************)
(* A small instance of WorkerRegistry for TLC.                             *)
(***************************************************************************)
EXTENDS WorkerRegistry

CONSTANT t1

OneTask == {{t1}}
====
