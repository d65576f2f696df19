----------------------------- MODULE EffectSink -----------------------------
(***************************************************************************)
(* Jobs whose task writes to a system of its own, as the demonstration     *)
(* scripts/side_effects.py --deduplicate does: after start, execute_once   *)
(* commits an effect to an SQLite sink and only then reports success.  The *)
(* queue and the sink share no transaction, so an execution that crashes   *)
(* in between, or that is slow and has lost its lease, is repeated by a    *)
(* later attempt.                                                          *)
(***************************************************************************)
EXTENDS JobStore

VARIABLES
    receipts,       \* the operations in the sink's table receipts: job ids
    effects,        \* job id -> its rows in the sink's table effects
    committed       \* the attempts whose execution has committed to the sink

sink == <<receipts, effects, committed>>

sinkVars == <<vars, sink>>

SinkInit ==
    /\ Init
    /\ receipts = {}
    /\ effects = [j \in JobId |-> 0]
    /\ committed = {}

(* Mutant: the rowcount of INSERT OR IGNORE is not looked at. *)
ApplyRegardless(j) == TRUE

(* INSERT OR IGNORE INTO receipts has rowcount 1. *)
Applies(j) == j \notin receipts

(* The sink's transaction.  Nothing asks whether the lease still lasts.    *)
CommitEffect(c) ==
    LET j == attempts[c].job
    IN  /\ attempts[c].started
        /\ c \notin committed
        /\ receipts' = receipts \cup {j}
        /\ effects' = IF Applies(j) THEN [effects EXCEPT ![j] = @ + 1] ELSE effects
        /\ committed' = committed \cup {c}
        /\ UNCHANGED vars

(* Success is reported after the commit: every other step of the queue,    *)
(* a crash of the execution (no step at all) included, may come before it. *)
QueueStep ==
    /\ Next
    /\ \A c \in Unfinished : attempts'[c].outcome = "SUCCEEDED" => c \in committed
    /\ UNCHANGED sink

SinkNext == QueueStep \/ \E c \in DOMAIN attempts : CommitEffect(c)

SinkSpec == SinkInit /\ [][SinkNext]_sinkVars /\ RecoveryFairness

(* However often a job is executed, in whatever order executions commit,   *)
(* crash and lose their leases, its effect happens at most once, and has   *)
(* happened when it SUCCEEDED (execute_once).                              *)
EffectOnce ==
    \A j \in DOMAIN jobs :
        /\ effects[j] <= 1
        /\ jobs[j].status = "SUCCEEDED" => effects[j] = 1
=============================================================================
