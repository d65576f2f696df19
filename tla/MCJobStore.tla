---- MODULE MCJobStore ----
(***************************************************************************)
(* Small instances of JobStore for TLC.                                    *)
(***************************************************************************)
EXTENDS JobStore, TLC

CONSTANTS j1, j2, j3, t1

Def(timeout, retries, jitter, scheduled, parent) ==
    [ task |-> t1, timeout |-> timeout, max_retries |-> retries, retry_delay |-> 1,
      retry_jitter |-> jitter, scheduled |-> scheduled, depends_on |-> parent ]

(* A parent and a child that is due later, both with a retry. *)
ParentAndChild == { Def(2, 1, FALSE, 0, None), Def(1, 1, TRUE, 1, j1) }

(* Two different requests, so that a key can come back with another one. *)
TwoKinds == { Def(1, 0, FALSE, 0, None), Def(1, 1, FALSE, 0, None) }

Interchangeable == Permutations(ClaimId) \cup Permutations(WorkerId)

(* Nothing in TwoKinds names a job. *)
InterchangeableJobs == Permutations(JobId) \cup Permutations(Key)
====
