------------------------------ MODULE Executor ------------------------------
(***************************************************************************)
(* How a worker process runs its tasks (executors.py).  A callable given   *)
(* to the pool cannot be stopped: when its time is up, or its run is       *)
(* cancelled, the run waits for it to end on its own.  A subprocess is     *)
(* killed, and so, in effect, is the sleep the hybrid executor awaits.     *)
(*                                                                         *)
(* A run is named by the slot that awaits it.  Time is left out: a task    *)
(* may run past its timeout or end before it, as it likes.                 *)
(***************************************************************************)
EXTENDS Naturals, FiniteSets

CONSTANTS
    Slot,       \* range(config.capacity); the pool has as many workers
    Pooling,    \* whether the executor's strategy gives a task to the pool: some tasks, all, none
    Ends        \* what the tasks at hand may do

VARIABLES
    exec,       \* slot -> its Executor.run task
    orphans,    \* callables of the pool that nobody waits for any more
    broken      \* a process of the pool died: every future is BrokenProcessPool

(* What a task does: return an output that JSON and the coordinator take,  *)
(* or one that they do not; raise; print something else; exit non-zero.    *)
TaskEnd == {"output", "unstorable", "RetryableTaskError", "ValueError", "exception",
            "garbage", "exit"}

ASSUME ExecutorAssumption ==
    Pooling \subseteq BOOLEAN /\ Ends \subseteq TaskEnd /\ IsFiniteSet(Slot)

(* invoke, parse_output, bounded and the last resort of run.  The body of  *)
(* a subprocess classifies exceptions as invoke does.                      *)
ResultOf(end) ==
    CASE end = "output"                                  -> "output"
      [] end \in {"unstorable", "ValueError", "garbage"} -> "permanent"
      [] OTHER                                           -> "retryable"

TimedOut == "retryable"

(* on: the task runs.  late: its time is up and the pool's callable goes   *)
(* on.  cancelled: the run is cancelled and waits for the callable.        *)
(* returned, stopped, broke: the run is over, with a result, by            *)
(* cancellation, or with BrokenProcessPool.                                *)
RunState ==
    [ state : {"idle", "on", "late", "cancelled", "returned", "stopped", "broke"},
      result : {"none", "output", "permanent", "retryable"}, pooled : BOOLEAN ]

NoRun == [state |-> "idle", result |-> "none", pooled |-> FALSE]

Going == {"on", "late", "cancelled"}

(* The slots whose callable is in the pool. *)
Pooled == { s \in Slot : exec[s].pooled }

ExecTypeOK ==
    /\ exec \in [Slot -> RunState]
    /\ orphans \in 0 .. Cardinality(Slot)
    /\ broken \in BOOLEAN

-----------------------------------------------------------------------------
ExecInit == exec = [s \in Slot |-> NoRun] /\ orphans = 0 /\ broken = FALSE

(* Of a run that is over, only how it ended matters. *)
Becomes(run, state) == [run EXCEPT !.state = state, !.pooled = @ /\ state \in Going]

Returns(run, result) == [Becomes(run, "returned") EXCEPT !.result = result]

(* Executor.run is called.  A broken pool takes nothing more. *)
Dispatch(s, pooled) ==
    /\ exec' = [exec EXCEPT ![s] =
                    Becomes([NoRun EXCEPT !.pooled = pooled],
                            IF broken /\ pooled THEN "broke" ELSE "on")]
    /\ UNCHANGED <<orphans, broken>>

(* Mutant: the timeout of a pool's callable is reported at once. *)
TimesOutAtOnce(s) ==
    /\ exec[s].state = "on"
    /\ exec' = [exec EXCEPT ![s] = Returns(@, TimedOut)]
    /\ orphans' = IF exec[s].pooled THEN orphans + 1 ELSE orphans
    /\ UNCHANGED broken

(* wait_for raises TimeoutError: a subprocess is killed, a pool's callable *)
(* keeps the slot.                                                         *)
TimesOut(s) ==
    /\ exec[s].state = "on"
    /\ exec' = [exec EXCEPT ![s] = IF @.pooled THEN Becomes(@, "late") ELSE Returns(@, TimedOut)]
    /\ UNCHANGED <<orphans, broken>>

(* The callable or the process ends by itself; late output is discarded. *)
TaskEnds(s, end) ==
    /\ exec[s].state \in Going
    /\ exec' = [exec EXCEPT ![s] =
                    CASE @.state = "on"        -> Returns(@, ResultOf(end))
                      [] @.state = "late"      -> Returns(@, TimedOut)
                      [] @.state = "cancelled" -> Becomes(@, "stopped")]
    /\ UNCHANGED <<orphans, broken>>

OrphanEnds ==
    /\ orphans > 0
    /\ orphans' = orphans - 1
    /\ UNCHANGED <<exec, broken>>

(* A process of the pool dies: every run that waits on the pool gets       *)
(* BrokenProcessPool, which Executor.run lets through.                     *)
PoolBreaks ==
    /\ ~broken /\ TRUE \in Pooling
    /\ broken' = TRUE
    /\ orphans' = 0
    /\ exec' = [ s \in Slot |-> IF s \in Pooled THEN Becomes(exec[s], "broke") ELSE exec[s] ]

(* A cancelled run of the pool waits for its callable in a finally clause; *)
(* cancelled a second time it stops waiting.                               *)
AfterCancel(run) ==
    IF run.state \notin Going THEN run
    ELSE Becomes(run, IF run.pooled /\ run.state # "cancelled" THEN "cancelled" ELSE "stopped")

(* The runs of the slots S are cancelled; runs that ended are forgotten    *)
(* when the slots in over let go of them.                                  *)
CancelRuns(S, over) ==
    /\ exec' = [ s \in Slot |->
                    IF s \in over THEN NoRun ELSE
                    IF s \in S THEN AfterCancel(exec[s]) ELSE exec[s] ]
    /\ orphans' = orphans + Cardinality({ s \in S \cap Pooled : exec[s].state = "cancelled" })
    /\ UNCHANGED broken

-----------------------------------------------------------------------------
(* Nothing is given to the pool while all its workers are taken: a job's   *)
(* timeout clock never runs while its callable waits in the pool's queue.  *)
(* (dispatch keeps the slot until the callable exits, but a second         *)
(* cancellation makes it let go.)                                          *)
PoolNeverQueues == Cardinality(Pooled) + orphans <= Cardinality(Slot)
=============================================================================
