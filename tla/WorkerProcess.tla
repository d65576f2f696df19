--------------------------- MODULE WorkerProcess ---------------------------
(***************************************************************************)
(* One worker process (worker.run): its registration, its heartbeat, one   *)
(* consume loop per slot with a renewal and an execution task each, and    *)
(* the supervision that ends it.                                           *)
(*                                                                         *)
(* post() repeats a request until it is answered.  So a request of the     *)
(* process is pending in its coroutine; the coordinator may carry it out   *)
(* and the answer be lost, any number of times, before one arrives.  An    *)
(* older copy of a claim may be carried out after the claim was answered.  *)
(*                                                                         *)
(* The coordinator (JobStore, WorkerRegistry) is what this process can     *)
(* tell of it: the one unfinished attempt each of its slots may have, a    *)
(* lease that may lapse and be swept at any time, the order to drain, and  *)
(* 401 on every route once another process has its id.                     *)
(***************************************************************************)
EXTENDS Executor

VARIABLES
    held,       \* slot -> the unfinished attempt the coordinator has for it
    slot,       \* slot -> the state of its consume loop
    main,       \* where run() is
    stop,       \* the asyncio.Event
    beat,       \* the heartbeat task
    aborting,   \* the task group has cancelled the slots
    revoked     \* another process has registered this one's id

pool == <<exec, orphans, broken>>
control == <<main, stop, beat, aborting>>
vars == <<held, pool, slot, control, revoked>>

(* Where a consume loop is: at the top (asleep between polls, too), in one *)
(* of its posts, waiting for renewal and execution, or in the finally      *)
(* clause that first ends the execution and then the renewal; or over.     *)
Over == {"returned", "raised", "cancelled"}

Working == {"start", "run", "finish", "fallback", "drain", "unrenew"}

SlotState ==
    [ pc : {"poll", "claim"} \cup Working \cup Over,
      own : {"none", "held", "lost"},           \* of the loop's claim id: no attempt yet,
                                                \* the one in held, or a finished one
      renew : {"off", "on", "fenced", "refused"},
      after : {"poll", "raised", "cancelled"} ] \* how the finally clause was entered

Idle == [pc |-> "poll", own |-> "none", renew |-> "off", after |-> "poll"]

At(pc) == [Idle EXCEPT !.pc = pc]

Slots == { s \in Slot : slot[s].pc \notin Over }

WorkerTypeOK ==
    /\ ExecTypeOK
    /\ held \in [Slot -> {"free", "leased", "running", "expired"}]
    /\ slot \in [Slot -> SlotState]
    /\ main \in {"registering", "running", "stopping", "closing", "exited", "failed", "crashed"}
    /\ beat \in {"off", "on", "failed"}
    /\ stop \in BOOLEAN /\ aborting \in BOOLEAN /\ revoked \in BOOLEAN

Ended == main \in {"exited", "failed", "crashed"}

-----------------------------------------------------------------------------
(***************************************************************************)
(* Registration and heartbeat.                                             *)
(***************************************************************************)
Registered ==
    /\ main = "registering"
    /\ main' = "running" /\ beat' = "on"
    /\ UNCHANGED <<held, pool, slot, stop, aborting, revoked>>

(* The id is in use, or the token is wrong: there is no executor yet. *)
RegistrationRefused ==
    /\ main = "registering"
    /\ main' = "failed"
    /\ UNCHANGED <<held, pool, slot, stop, beat, aborting, revoked>>

(* A heartbeat is answered DRAINING, or the process gets SIGTERM. *)
ToldToStop ==
    /\ ~stop /\ ~Ended
    /\ stop' = TRUE
    /\ UNCHANGED <<held, pool, slot, main, beat, aborting, revoked>>

HeartbeatRefused ==
    /\ beat = "on" /\ revoked
    /\ beat' = "failed"
    /\ UNCHANGED <<held, pool, slot, main, stop, aborting, revoked>>

-----------------------------------------------------------------------------
(***************************************************************************)
(* The consume loop of slot s.                                             *)
(***************************************************************************)
Goes(s, state) == slot' = [slot EXCEPT ![s] = state]

(* service.owned: the attempt of the loop's claim is unfinished, its lease lasts. *)
Owns(s) == slot[s].own = "held" /\ held[s] \in {"leased", "running"}

(* while not stop.is_set(): a claim with a new claim id *)
Poll(s) ==
    /\ slot[s].pc = "poll" /\ main \in {"running", "stopping"}
    /\ Goes(s, IF stop THEN At("returned") ELSE At("claim"))
    /\ UNCHANGED <<held, pool, control, revoked>>

(* The coordinator grants the claim; the answer arrives, or is lost and    *)
(* the claim is repeated.                                                  *)
ClaimGranted(s) ==
    /\ slot[s].pc = "claim" /\ slot[s].own = "none" /\ ~revoked
    /\ held[s] = "free"
    /\ held' = [held EXCEPT ![s] = "leased"]
    /\ \E pc \in {"start", "claim"} : Goes(s, [slot[s] EXCEPT !.pc = pc, !.own = "held"])
    /\ UNCHANGED <<pool, control, revoked>>

(* A repeated claim finds its attempt, expired or not. *)
ClaimReplayed(s) ==
    /\ slot[s].pc = "claim" /\ slot[s].own = "held" /\ ~revoked
    /\ Goes(s, [slot[s] EXCEPT !.pc = "start"])
    /\ UNCHANGED <<held, pool, control, revoked>>

(* No work (null), or 409: the slot is occupied, the claim finished or the *)
(* worker draining.  The loop polls again.                                 *)
ClaimUnmet(s) ==
    /\ slot[s].pc = "claim" /\ slot[s].own # "held" /\ ~revoked
    /\ Goes(s, Idle)
    /\ UNCHANGED <<held, pool, control, revoked>>

(* Mutant: every refusal of a claim is polled again. *)
ClaimRefusedPolls(s) ==
    /\ slot[s].pc = "claim" /\ revoked
    /\ Goes(s, Idle)
    /\ UNCHANGED <<held, pool, control, revoked>>

(* 401 *)
ClaimRefused(s) ==
    /\ slot[s].pc = "claim" /\ revoked
    /\ Goes(s, At("raised"))
    /\ UNCHANGED <<held, pool, control, revoked>>

(* A copy of a claim that the process has given up, because a later copy   *)
(* was answered or its loop was cancelled, is carried out after all: it    *)
(* takes a lease nobody works on.  A loop posts any number of claims, so   *)
(* these copies are not counted.                                           *)
LateClaim(s) ==
    /\ held[s] = "free" /\ ~revoked /\ main # "registering" /\ ~Ended
    /\ held' = [held EXCEPT ![s] = "leased"]
    /\ UNCHANGED <<pool, slot, control, revoked>>

(* The coordinator carries out the start; its answer may be lost. *)
StartCarriedOut(s) ==
    /\ slot[s].pc = "start" /\ ~revoked
    /\ Owns(s) /\ held[s] = "leased"
    /\ held' = [held EXCEPT ![s] = "running"]
    /\ UNCHANGED <<pool, slot, control, revoked>>

(* Mutant: the task is begun without waiting for the answer to start. *)
StartedUnanswered(s) ==
    /\ slot[s].pc = "start" /\ ~revoked
    /\ Goes(s, [slot[s] EXCEPT !.pc = "run", !.renew = "on"])
    /\ \E pooled \in Pooling : Dispatch(s, pooled)
    /\ UNCHANGED <<held, control, revoked>>

(* 200: renewal and execution begin. *)
Started(s) ==
    /\ slot[s].pc = "start" /\ ~revoked
    /\ Owns(s) /\ held[s] = "running"
    /\ Goes(s, [slot[s] EXCEPT !.pc = "run", !.renew = "on"])
    /\ \E pooled \in Pooling : Dispatch(s, pooled)
    /\ UNCHANGED <<held, control, revoked>>

(* 409 drops the job, 401 is raised; there is no task to end yet. *)
StartRefused(s) ==
    /\ slot[s].pc = "start"
    /\ revoked \/ ~Owns(s)
    /\ Goes(s, IF revoked THEN At("raised") ELSE Idle)
    /\ UNCHANGED <<held, pool, control, revoked>>

(* The renewal task goes on until the finally clause cancels it.  Renewals *)
(* that are granted put off the lapse of the lease, and are not seen here; *)
(* past the cap none is.                                                   *)
RenewRefused(s) ==
    /\ slot[s].renew = "on"
    /\ revoked \/ ~Owns(s)
    /\ Goes(s, [slot[s] EXCEPT !.renew = IF revoked THEN "refused" ELSE "fenced"])
    /\ UNCHANGED <<held, pool, control, revoked>>

-----------------------------------------------------------------------------
(* The finally clause.  First the execution, then the renewal, is          *)
(* cancelled if it is not over, and waited for.  What an execution ended   *)
(* with is suppressed, except BrokenProcessPool, which leaves the clause   *)
(* before the renewal is cancelled.                                        *)

Leave(state) == At(state.after)

EndRenewal(state) == IF state.renew = "on" THEN [state EXCEPT !.pc = "unrenew"] ELSE Leave(state)

EndExecution(state, run) ==
    CASE run.state \in Going   -> [state EXCEPT !.pc = "drain"]
      [] run.state = "broke"   -> [state EXCEPT !.pc = "raised", !.after = "poll"]
      [] OTHER                 -> EndRenewal(state)

Finally(s, after) == EndExecution([slot[s] EXCEPT !.after = after], AfterCancel(exec[s]))

(* The loop of s enters the finally clause. *)
EnterFinally(s, after) ==
    LET next == Finally(s, after)
    IN  /\ Goes(s, next)
        /\ CancelRuns({s}, { t \in {s} : next.pc # "drain" })

(* The execution that was cancelled is over. *)
Drained(s) ==
    /\ slot[s].pc = "drain" /\ exec[s].state \notin Going
    /\ Goes(s, EndExecution(slot[s], exec[s]))
    /\ CancelRuns({}, {s})
    /\ UNCHANGED <<held, control, revoked>>

Unrenewed(s) ==
    /\ slot[s].pc = "unrenew"
    /\ Goes(s, Leave(slot[s]))
    /\ UNCHANGED <<held, pool, control, revoked>>

-----------------------------------------------------------------------------
(* asyncio.wait: the renewal was refused. *)
RunFenced(s) ==
    /\ slot[s].pc = "run" /\ slot[s].renew # "on"
    /\ EnterFinally(s, IF slot[s].renew = "refused" THEN "raised" ELSE "poll")
    /\ UNCHANGED <<held, control, revoked>>

(* asyncio.wait: the execution is over first. *)
RunOver(s) ==
    /\ slot[s].pc = "run" /\ slot[s].renew = "on"
    /\ \/ exec[s].state = "broke" /\ EnterFinally(s, "raised")
       \/ /\ exec[s].state = "returned"
          /\ Goes(s, [slot[s] EXCEPT !.pc = "finish"])
          /\ UNCHANGED pool
    /\ UNCHANGED <<held, control, revoked>>

Finishing(s) == slot[s].pc \in {"finish", "fallback"}

(* The coordinator takes the completion; its answer may be lost. *)
FinishCarriedOut(s) ==
    /\ Finishing(s) /\ ~revoked /\ Owns(s)
    /\ held' = [held EXCEPT ![s] = "free"]
    /\ Goes(s, [slot[s] EXCEPT !.own = "lost"])
    /\ UNCHANGED <<pool, control, revoked>>

(* 200 when this or an earlier copy was taken, else 409. *)
FinishAnswered(s) ==
    /\ Finishing(s) /\ ~revoked /\ ~Owns(s)
    /\ EnterFinally(s, "poll")
    /\ UNCHANGED <<held, control, revoked>>

(* Mutant: a result that the coordinator refuses is dropped. *)
FinishRejectedDrops(s) ==
    /\ slot[s].pc = "finish" /\ ~revoked /\ exec[s].result = "output" /\ slot[s].own = "held"
    /\ EnterFinally(s, "poll")
    /\ UNCHANGED <<held, control, revoked>>

(* 413 or 422: a failure is reported in place of the output. *)
FinishRejected(s) ==
    /\ slot[s].pc = "finish" /\ ~revoked /\ exec[s].result = "output" /\ slot[s].own = "held"
    /\ Goes(s, [slot[s] EXCEPT !.pc = "fallback"])
    /\ UNCHANGED <<held, pool, control, revoked>>

FinishRefused(s) ==
    /\ Finishing(s) /\ revoked
    /\ EnterFinally(s, "raised")
    /\ UNCHANGED <<held, control, revoked>>

-----------------------------------------------------------------------------
(***************************************************************************)
(* Cancellation of the slots.  A loop in its finally clause swallows it:   *)
(* suppress(CancelledError) is meant for the task that is awaited, and     *)
(* takes the loop's own cancellation for that task's.  The awaited task is *)
(* cancelled again.                                                        *)
(***************************************************************************)
Cancelled(s) ==
    CASE slot[s].pc \in {"poll", "claim", "start"}       -> At("cancelled")
      [] slot[s].pc \in {"run", "finish", "fallback"}    -> Finally(s, "cancelled")
      [] slot[s].pc = "drain"                            -> EndExecution(slot[s], AfterCancel(exec[s]))
      [] slot[s].pc = "unrenew"                          -> Leave(slot[s])

CancelSlots ==
    LET next == [ s \in Slot |-> IF s \in Slots THEN Cancelled(s) ELSE slot[s] ]
    IN  /\ slot' = next
        /\ CancelRuns(Slots, { s \in Slots : next[s].pc # "drain" })
        /\ aborting' = TRUE

(* TaskGroup: the first slot to fail has the others cancelled, once. *)
GroupAborts ==
    /\ ~aborting /\ ~Ended /\ \E s \in Slot : slot[s].pc = "raised"
    /\ CancelSlots
    /\ UNCHANGED <<held, main, stop, beat, revoked>>

(* run(): the heartbeat has failed, and the slots are cancelled. *)
Supervise ==
    /\ main = "running" /\ beat = "failed"
    /\ main' = "stopping"
    /\ IF aborting THEN UNCHANGED <<pool, slot, aborting>> ELSE CancelSlots
    /\ UNCHANGED <<held, stop, beat, revoked>>

(* All slots are over.  An error, the heartbeat's or a slot's, is raised   *)
(* again in the finally clause of run(), past executor.close().            *)
SlotsOver ==
    /\ main \in {"running", "stopping"} /\ Slots = {}
    /\ main' = IF beat = "failed" \/ \E s \in Slot : slot[s].pc = "raised" THEN "failed"
                                                                           ELSE "closing"
    /\ beat' = "off"
    /\ UNCHANGED <<held, pool, slot, stop, aborting, revoked>>

(* executor.close waits for what still runs in the pool. *)
Close ==
    /\ main = "closing" /\ orphans = 0
    /\ main' = "exited"
    /\ UNCHANGED <<held, pool, slot, stop, beat, aborting, revoked>>

(* The process dies, and everything in it. *)
Crash ==
    /\ ~Ended
    /\ main' = "crashed" /\ beat' = "off"
    /\ exec' = [s \in Slot |-> NoRun] /\ orphans' = 0
    /\ slot' = [s \in Slot |-> At("cancelled")]
    /\ UNCHANGED <<held, broken, stop, aborting, revoked>>

-----------------------------------------------------------------------------
(* What goes on around the process. *)

Revoked ==
    /\ ~revoked /\ main \in {"running", "stopping", "closing"}
    /\ revoked' = TRUE
    /\ UNCHANGED <<held, pool, slot, control>>

(* A lease runs out ... *)
LeaseLapses(s) ==
    /\ held[s] \in {"leased", "running"} /\ ~Ended
    /\ held' = [held EXCEPT ![s] = "expired"]
    /\ UNCHANGED <<pool, slot, control, revoked>>

(* ... and the sweep finishes its attempt, which frees the slot. *)
LeaseSwept(s) ==
    /\ held[s] = "expired" /\ ~Ended
    /\ held' = [held EXCEPT ![s] = "free"]
    /\ slot' = [slot EXCEPT ![s].own = IF @ = "held" THEN "lost" ELSE @]
    /\ UNCHANGED <<pool, control, revoked>>

-----------------------------------------------------------------------------
Init ==
    /\ ExecInit
    /\ held = [s \in Slot |-> "free"]
    /\ slot = [s \in Slot |-> Idle]
    /\ main = "registering" /\ beat = "off" /\ stop = FALSE /\ aborting = FALSE
    /\ revoked = FALSE

(* What the coordinator's answers, and the end of what it awaits, let the  *)
(* loop of slot s do.                                                      *)
Proceed(s) ==
    \/ Poll(s)
    \/ ClaimReplayed(s) \/ ClaimUnmet(s) \/ ClaimRefused(s)
    \/ StartCarriedOut(s) \/ Started(s) \/ StartRefused(s)
    \/ RunFenced(s) \/ RunOver(s)
    \/ FinishCarriedOut(s) \/ FinishAnswered(s) \/ FinishRefused(s)
    \/ Drained(s) \/ Unrenewed(s)

TaskRuns(s) ==
    /\ \/ TimesOut(s)
       \/ \E end \in Ends : TaskEnds(s, end)
    /\ UNCHANGED <<held, slot, control, revoked>>

PoolSteps == (OrphanEnds \/ PoolBreaks) /\ ~Ended /\ UNCHANGED <<held, slot, control, revoked>>

Next ==
    \/ Registered \/ RegistrationRefused \/ ToldToStop \/ HeartbeatRefused
    \/ \E s \in Slot :
        \/ Proceed(s) \/ ClaimGranted(s) \/ LateClaim(s) \/ RenewRefused(s) \/ FinishRejected(s)
        \/ TaskRuns(s) \/ LeaseLapses(s) \/ LeaseSwept(s)
    \/ PoolSteps
    \/ GroupAborts \/ Supervise \/ SlotsOver \/ Close \/ Crash \/ Revoked

Spec == Init /\ [][Next]_vars

-----------------------------------------------------------------------------
(* A process that ends in good order, told to, leaves nothing undone: no   *)
(* attempt that it started is still running by the coordinator's book,     *)
(* nothing runs in its pool and no renewal goes on (finish, post, close).  *)
CleanExitLeavesNothing ==
    main = "exited" =>
        /\ \A s \in Slot : held[s] # "running" /\ slot[s].renew # "on"
        /\ Pooled = {} /\ orphans = 0

(* What the process works on and what the coordinator thinks it does agree *)
(* across lost answers: a task runs only for an attempt whose start was    *)
(* taken, and a started attempt whose lease lasts always has its loop at   *)
(* work on it, unless the loop was ended by an error or a cancellation.    *)
WorkMatchesLease ==
    \A s \in Slot :
        /\ exec[s].state \in Going /\ Owns(s) => held[s] = "running"
        /\ held[s] = "running" =>
            \/ slot[s].own = "held" /\ slot[s].pc \in Working
            \/ slot[s].pc \in {"raised", "cancelled"}

(* Every request is answered in the end, every task ends, and coroutines   *)
(* that can go on do.                                                      *)
WorkerFairness ==
    /\ \A s \in Slot : WF_vars(Proceed(s)) /\ WF_vars(TaskRuns(s))
    /\ WF_vars(Registered) /\ WF_vars(HeartbeatRefused) /\ WF_vars(OrphanEnds /\ PoolSteps)
    /\ WF_vars(GroupAborts) /\ WF_vars(Supervise) /\ WF_vars(SlotsOver) /\ WF_vars(Close)

FairSpec == Spec /\ WorkerFairness

(* A process that is told to drain or stop, or whose id another process    *)
(* has, ends: it does not run on as a worker nobody sees (consume,         *)
(* heartbeat, run), although a cancellation may be swallowed.              *)
EndsWhenTold == (stop \/ revoked) ~> Ended

(* executors.py:99 lets BrokenProcessPool through because "the pool is     *)
(* unusable for every later job; let the worker exit": once a slot has     *)
(* failed the process ends.                                                *)
FailedSlotEndsProcess == (\E s \in Slot : slot[s].pc = "raised") ~> Ended
=============================================================================
