---- MODULE MCCoordinator ----
(***************************************************************************)
(* A small instance of Coordinator for TLC: two jobs of different tasks.   *)
(***************************************************************************)
EXTENDS Coordinator, TLC

CONSTANTS t1, t2, s1

Def(task, retries) ==
    [ task |-> task, timeout |-> 1, max_retries |-> retries, retry_delay |-> 0,
      retry_jitter |-> FALSE, scheduled |-> 0, depends_on |-> None ]

TwoTasks == { Def(t1, 1), Def(t2, 0) }

Skills == {{t1}, {t1, t2}}

(* The process of session s1 has more slots and knows more tasks. *)
Profiles ==
    [ s \in Session |-> IF s = s1 THEN [capacity |-> 2, capabilities |-> {t1, t2}]
                                  ELSE [capacity |-> 1, capabilities |-> {t1}] ]

Interchangeable == Permutations(ClaimId) \cup Permutations(JobId)
====
