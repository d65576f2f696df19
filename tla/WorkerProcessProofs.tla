------------------------ MODULE WorkerProcessProofs ------------------------
(***************************************************************************)
(* What WorkerProcess promises, for a process with any number of slots and *)
(* any strategy of its executor.                                           *)
(*                                                                         *)
(* The invariant has a part for each slot and a part for the process.  A   *)
(* slot's part relates three things that move on their own: the attempt    *)
(* the coordinator has for the slot, the consume loop and the run of its   *)
(* task.  The process' part says why a loop may have failed or been        *)
(* cancelled.  They meet in the pool: a loop that swallows a cancellation  *)
(* would give its pool a callable too many, but a cancellation is only     *)
(* ever due to another process with this one's id, whose claims are        *)
(* refused from then on, or to a broken pool, which takes no callable.     *)
(***************************************************************************)
EXTENDS WorkerProcess, FiniteSetTheorems, TLAPS

(* Where a loop has a run to wait for. *)
WithRun == {"run", "finish", "fallback", "drain"}

(* The attempt h, the loop st and the run of one slot. *)
Grip(h, st, run) ==
    /\ st.pc \notin WithRun => run = NoRun
    /\ run.pooled => run.state \in Going
    /\ run.state = "cancelled" => st.pc = "drain"
    /\ st.own = "held" => h # "free"
    /\ run.state \in Going /\ st.own = "held" => h \in {"running", "expired"}
    /\ h = "running" =>
        \/ st.own = "held" /\ st.pc \in Working
        \/ st.pc \in {"raised", "cancelled"}
    /\ st.renew = "fenced" /\ st.pc \in Working => h # "running"
    /\ st.pc \in {"drain", "unrenew"} /\ st.after = "poll" => h # "running"
    /\ st.pc = "run" => st.renew # "off"
    /\ st.pc \notin WithRun \cup {"unrenew", "raised"} => st.renew = "off"

(* Why a loop has failed, or is about to, or was cancelled. *)
Excuse(st, run) ==
    /\ st.pc = "raised" \/ st.after = "raised" \/ st.renew = "refused" => revoked \/ broken
    /\ run.state = "broke" => broken
    /\ st.pc = "cancelled" \/ st.after = "cancelled" => aborting \/ main = "crashed"

Sound(s) == Grip(held[s], slot[s], exec[s]) /\ Excuse(slot[s], exec[s])

(* A broken pool has nothing in it; orphans are left only by a process     *)
(* that can no longer claim.                                               *)
PoolState ==
    /\ broken => orphans = 0 /\ \A s \in Slot : ~exec[s].pooled
    /\ orphans > 0 => revoked

GroupState ==
    /\ main = "registering" => beat = "off"
    /\ beat = "failed" => revoked
    /\ aborting => \/ beat = "failed" \/ main \in {"failed", "crashed"}
                   \/ \E s \in Slot : slot[s].pc = "raised"
    /\ main \in {"closing", "exited"} => \A s \in Slot : slot[s].pc = "returned"
    /\ main = "exited" => orphans = 0

(* WorkerTypeOK, with the bound on orphans where it comes from. *)
Typed ==
    /\ exec \in [Slot -> RunState] /\ orphans \in Nat /\ broken \in BOOLEAN
    /\ held \in [Slot -> {"free", "leased", "running", "expired"}]
    /\ slot \in [Slot -> SlotState]
    /\ main \in {"registering", "running", "stopping", "closing", "exited", "failed", "crashed"}
    /\ beat \in {"off", "on", "failed"}
    /\ stop \in BOOLEAN /\ aborting \in BOOLEAN /\ revoked \in BOOLEAN

WorkerInv ==
    /\ Typed /\ PoolNeverQueues /\ PoolState /\ GroupState
    /\ \A s \in Slot : Sound(s)

-----------------------------------------------------------------------------
(***************************************************************************)
(* The operators on runs and loops.                                        *)
(***************************************************************************)
LEMMA BecomesType ==
    ASSUME NEW run \in RunState,
           NEW x \in {"idle", "on", "late", "cancelled", "returned", "stopped", "broke"}
    PROVE  /\ Becomes(run, x) \in RunState /\ Becomes(run, x).state = x
           /\ Becomes(run, x).pooled => run.pooled /\ x \in Going
  BY DEF Becomes, RunState, Going

LEMMA ReturnsType ==
    ASSUME NEW run \in RunState, NEW result \in {"output", "permanent", "retryable"}
    PROVE  /\ Returns(run, result) \in RunState /\ Returns(run, result).state = "returned"
           /\ ~Returns(run, result).pooled
  <1>1. /\ Becomes(run, "returned") \in RunState /\ ~Becomes(run, "returned").pooled
        /\ Becomes(run, "returned").state = "returned"
    BY BecomesType DEF Going
  <1> QED BY <1>1 DEF Returns, RunState

LEMMA NoRunType == NoRun \in RunState /\ NoRun.state = "idle" /\ ~NoRun.pooled
  BY DEF NoRun, RunState

LEMMA AfterCancelType ==
    ASSUME NEW run \in RunState
    PROVE  /\ AfterCancel(run) \in RunState
           /\ AfterCancel(run).state \in Going => /\ AfterCancel(run).state = "cancelled"
                                                  /\ run.state \in {"on", "late"}
           /\ AfterCancel(run).state = "broke" => run.state = "broke"
           /\ AfterCancel(run).pooled => run.pooled /\ run.state # "cancelled"
           /\ (run.pooled => run.state \in Going) =>
                (AfterCancel(run).pooled => AfterCancel(run).state \in Going)
  <1>1. CASE run.state \in Going /\ run.pooled /\ run.state # "cancelled"
    <2>1. AfterCancel(run) = Becomes(run, "cancelled")
      BY <1>1 DEF AfterCancel
    <2> QED BY <1>1, <2>1, BecomesType DEF Going
  <1>2. CASE run.state \in Going /\ ~(run.pooled /\ run.state # "cancelled")
    <2>1. AfterCancel(run) = Becomes(run, "stopped")
      BY <1>2 DEF AfterCancel
    <2> QED BY <1>2, <2>1, BecomesType DEF Going
  <1>3. CASE run.state \notin Going
    <2>1. AfterCancel(run) = run
      BY <1>3 DEF AfterCancel
    <2> QED BY <1>3, <2>1 DEF Going
  <1> QED BY <1>1, <1>2, <1>3

LEMMA AtType ==
    ASSUME NEW pc \in {"poll", "claim"} \cup Working \cup Over
    PROVE  /\ At(pc) \in SlotState /\ At(pc).pc = pc /\ At(pc).own = "none"
           /\ At(pc).renew = "off" /\ At(pc).after = "poll"
  BY DEF At, Idle, SlotState

(* Where the finally clause goes on, whatever the execution ended with. *)
LEMMA EndExecutionType ==
    ASSUME NEW st \in SlotState, NEW run
    PROVE  /\ EndExecution(st, run) \in SlotState
           /\ \/ /\ run.state \in Going
                 /\ EndExecution(st, run) = [st EXCEPT !.pc = "drain"]
              \/ /\ run.state = "broke"
                 /\ EndExecution(st, run) = [st EXCEPT !.pc = "raised", !.after = "poll"]
              \/ /\ run.state \notin Going \cup {"broke"} /\ st.renew = "on"
                 /\ EndExecution(st, run) = [st EXCEPT !.pc = "unrenew"]
              \/ /\ run.state \notin Going \cup {"broke"} /\ st.renew # "on"
                 /\ EndExecution(st, run) = At(st.after)
  <1>1. At(st.after) \in SlotState
    BY AtType DEF SlotState, Over
  <1>2. CASE run.state \in Going
    <2>1. [st EXCEPT !.pc = "drain"] \in SlotState
      BY DEF SlotState, Working
    <2>2. EndExecution(st, run) = [st EXCEPT !.pc = "drain"]
      BY <1>2 DEF EndExecution, Going
    <2> QED BY <1>2, <2>1, <2>2
  <1>3. CASE run.state = "broke"
    <2>1. [st EXCEPT !.pc = "raised", !.after = "poll"] \in SlotState
      BY DEF SlotState, Over
    <2>2. EndExecution(st, run) = [st EXCEPT !.pc = "raised", !.after = "poll"]
      BY <1>3 DEF EndExecution, Going
    <2> QED BY <1>3, <2>1, <2>2
  <1>4. CASE run.state \notin Going \cup {"broke"}
    <2>1. EndExecution(st, run) = IF st.renew = "on" THEN [st EXCEPT !.pc = "unrenew"]
                                                     ELSE At(st.after)
      BY <1>4 DEF EndExecution, EndRenewal, Leave
    <2>2. [st EXCEPT !.pc = "unrenew"] \in SlotState
      BY DEF SlotState, Working
    <2> QED BY <1>1, <1>4, <2>1, <2>2
  <1> QED BY <1>2, <1>3, <1>4

-----------------------------------------------------------------------------
(***************************************************************************)
(* The pool.                                                               *)
(***************************************************************************)
(* Callables leave the pool, those in X as orphans. *)
LEMMA PoolShrinks ==
    ASSUME PoolNeverQueues, orphans \in Nat, orphans' \in Nat, NEW X \in SUBSET Pooled,
           Pooled' \subseteq Pooled \ X, orphans' <= orphans + Cardinality(X)
    PROVE  PoolNeverQueues'
  <1>1. Pooled \subseteq Slot /\ IsFiniteSet(Slot)
    BY ExecutorAssumption DEF Pooled
  <1>2. IsFiniteSet(Pooled)
    BY <1>1, FS_Subset
  <1>3. IsFiniteSet(Pooled \ X) /\ IsFiniteSet(X)
    BY <1>2, FS_Subset
  <1>4. Cardinality(Pooled') <= Cardinality(Pooled \ X) /\ IsFiniteSet(Pooled')
    BY <1>3, FS_Subset
  <1>5. Cardinality(Pooled \ X) = Cardinality(Pooled) - Cardinality(Pooled \cap X)
    BY <1>2, FS_Difference
  <1>6. Pooled \cap X = X
    OBVIOUS
  <1>7. /\ Cardinality(Pooled) \in Nat /\ Cardinality(X) \in Nat
        /\ Cardinality(Pooled') \in Nat /\ Cardinality(Slot) \in Nat
    BY <1>1, <1>2, <1>3, <1>4, FS_CardinalityType
  <1>8. Cardinality(Pooled) + orphans <= Cardinality(Slot)
    BY DEF PoolNeverQueues
  <1>9. Cardinality(Pooled') + orphans' <= Cardinality(Slot)
    BY <1>4, <1>5, <1>6, <1>7, <1>8
  <1> QED BY <1>9 DEF PoolNeverQueues

(* Without orphans there is a worker of the pool for each slot. *)
LEMMA PoolFits ==
    ASSUME orphans' = 0
    PROVE  PoolNeverQueues'
  <1>1. Pooled' \subseteq Slot /\ IsFiniteSet(Slot)
    BY ExecutorAssumption DEF Pooled
  <1>2. Cardinality(Pooled') <= Cardinality(Slot) /\ IsFiniteSet(Pooled')
    BY <1>1, FS_Subset
  <1>3. Cardinality(Pooled') \in Nat /\ Cardinality(Slot) \in Nat
    BY <1>1, <1>2, FS_CardinalityType
  <1>4. Cardinality(Pooled') + orphans' <= Cardinality(Slot)
    BY <1>2, <1>3
  <1> QED BY <1>4 DEF PoolNeverQueues

-----------------------------------------------------------------------------
(***************************************************************************)
(* Steps of one slot.                                                      *)
(***************************************************************************)
SameSlot(t) == held'[t] = held[t] /\ slot'[t] = slot[t] /\ exec'[t] = exec[t]

(* Reasons stay reasons. *)
ReasonsStay ==
    /\ revoked => revoked'
    /\ broken => broken'
    /\ aborting => aborting'
    /\ main = "crashed" => main' = "crashed"

LEMMA SameSlotSound ==
    ASSUME NEW t \in Slot, Sound(t), SameSlot(t), ReasonsStay
    PROVE  Sound(t)'
  BY DEF Sound, Grip, Excuse, SameSlot, ReasonsStay

(* A step of the loop, the run or the attempt of s: a slot that is over    *)
(* stays so, and something new is given to the pool only by a process that *)
(* still has its id and a pool.                                            *)
Local(s) ==
    /\ held' \in [Slot -> {"free", "leased", "running", "expired"}]
    /\ slot' \in [Slot -> SlotState] /\ exec' \in [Slot -> RunState]
    /\ \A t \in Slot \ {s} : SameSlot(t)
    /\ UNCHANGED <<orphans, broken, main, stop, beat, aborting, revoked>>
    /\ slot[s].pc \in Over => slot'[s].pc = slot[s].pc
    /\ exec'[s].pooled => exec[s].pooled \/ (~revoked /\ ~broken)
    /\ Sound(s)'

LEMMA LocalKeeps ==
    ASSUME WorkerInv, NEW s \in Slot, Local(s)
    PROVE  WorkerInv'
  <1>0. /\ Typed /\ PoolNeverQueues /\ PoolState /\ GroupState
        /\ \A t \in Slot : Sound(t)
    BY DEF WorkerInv
  <1>1. Typed'
    BY <1>0 DEF Typed, Local
  <1>2. \A t \in Slot : Sound(t)'
    <2>1. ReasonsStay
      BY DEF Local, ReasonsStay
    <2>2. ASSUME NEW t \in Slot, t # s PROVE Sound(t)'
      BY <1>0, <2>1, <2>2, SameSlotSound DEF Local
    <2> QED BY <2>2 DEF Local
  <1>3. PoolState'
    BY <1>0 DEF PoolState, Local, SameSlot
  <1>4. GroupState'
    <2>1. \A t \in Slot : slot[t].pc \in Over => slot'[t].pc = slot[t].pc
      BY DEF Local, SameSlot
    <2> QED BY <1>0, <2>1 DEF GroupState, Local, Over
  <1>5. PoolNeverQueues'
    <2>1. CASE exec[s].pooled \/ ~exec'[s].pooled
      <3>1. Pooled' \subseteq Pooled \ {}
        BY <2>1 DEF Pooled, Local, SameSlot
      <3>2. Cardinality({}) = 0
        BY FS_EmptySet
      <3>3. orphans \in Nat /\ orphans' \in Nat /\ orphans' <= orphans + Cardinality({})
        BY <1>0, <3>2 DEF Typed, Local
      <3> QED BY <1>0, <3>1, <3>3, PoolShrinks
    <2>2. CASE ~exec[s].pooled /\ exec'[s].pooled
      <3>1. orphans' = 0
        BY <1>0, <2>2 DEF Local, PoolState, Typed
      <3> QED BY <3>1, PoolFits
    <2> QED BY <2>1, <2>2
  <1> QED BY <1>1, <1>2, <1>3, <1>4, <1>5 DEF WorkerInv

(* The loop of s goes on to st, and its attempt to h. *)
LEMMA LoopStep ==
    ASSUME WorkerInv, NEW s \in Slot, NEW st \in SlotState,
           slot[s].pc \in Over => st.pc = slot[s].pc,
           NEW h \in {"free", "leased", "running", "expired"},
           slot' = [slot EXCEPT ![s] = st], held' = [held EXCEPT ![s] = h],
           UNCHANGED <<pool, control, revoked>>,
           Grip(h, st, exec[s]), Excuse(st, exec[s])
    PROVE  WorkerInv'
  <1>1. Typed /\ slot \in [Slot -> SlotState] /\ exec \in [Slot -> RunState]
    BY DEF WorkerInv, Typed
  <1>2. slot'[s] = st /\ held'[s] = h /\ exec' = exec
    BY <1>1 DEF Typed, pool
  <1>3. Sound(s)'
    <2>1. Grip(held[s], slot[s], exec[s])'
      BY <1>2 DEF Grip
    <2>2. Excuse(slot[s], exec[s])'
      BY <1>2 DEF Excuse, pool, control
    <2> QED BY <2>1, <2>2 DEF Sound
  <1>4. Local(s)
    BY <1>1, <1>2, <1>3 DEF Typed, Local, SameSlot, pool, control
  <1> QED BY <1>4, LocalKeeps

(* The loop of s goes on to st, and its attempt stays. *)
LEMMA LoopOnly ==
    ASSUME WorkerInv, NEW s \in Slot, NEW st \in SlotState,
           slot[s].pc \in Over => st.pc = slot[s].pc,
           Goes(s, st), UNCHANGED <<held, pool, control, revoked>>,
           Grip(held[s], st, exec[s]), Excuse(st, exec[s])
    PROVE  WorkerInv'
  <1>1. held' = [held EXCEPT ![s] = held[s]]
    BY DEF WorkerInv, Typed
  <1>2. held[s] \in {"free", "leased", "running", "expired"}
    BY DEF WorkerInv, Typed
  <1> QED BY <1>1, <1>2, LoopStep DEF Goes

(* What is known of slot s. *)
LEMMA SlotFacts ==
    ASSUME WorkerInv, NEW s \in Slot
    PROVE  /\ Grip(held[s], slot[s], exec[s]) /\ Excuse(slot[s], exec[s])
           /\ slot[s] \in SlotState /\ exec[s] \in RunState
           /\ held[s] \in {"free", "leased", "running", "expired"}
  BY DEF WorkerInv, Typed, Sound

(* A loop without a run goes on to a place where it has none. *)
LEMMA FreshStart ==
    ASSUME WorkerInv, NEW s \in Slot, slot[s].pc \in {"poll", "claim", "start"},
           NEW pc \in {"poll", "claim", "returned", "raised"},
           held[s] = "running" => pc = "raised", pc = "raised" => revoked,
           Goes(s, At(pc)), UNCHANGED <<held, pool, control, revoked>>
    PROVE  WorkerInv'
  <1>1. Grip(held[s], slot[s], exec[s]) /\ slot[s].pc \notin Over
    BY SlotFacts DEF Over
  <1>2. exec[s] = NoRun
    BY <1>1 DEF Grip, WithRun
  <1> DEFINE st == At(pc)
  <1>3. /\ st \in SlotState /\ st.pc = pc /\ st.own = "none"
        /\ st.renew = "off" /\ st.after = "poll"
    BY AtType DEF Over
  <1> HIDE DEF st
  <1>4. Grip(held[s], st, exec[s])
    BY <1>2, <1>3, NoRunType DEF Grip, WithRun, Working, Going
  <1>5. Excuse(st, exec[s])
    BY <1>2, <1>3, NoRunType DEF Excuse
  <1>6. Goes(s, st)
    BY DEF st
  <1> QED BY <1>1, <1>3, <1>4, <1>5, <1>6, LoopOnly

LEMMA PollKeeps ==
    ASSUME WorkerInv, NEW s \in Slot, Poll(s)
    PROVE  WorkerInv'
  <1>1. slot[s].pc = "poll" /\ held[s] # "running"
    BY SlotFacts DEF Poll, Grip, Working
  <1>2. CASE stop
    BY <1>1, <1>2, FreshStart DEF Poll
  <1>3. CASE ~stop
    BY <1>1, <1>3, FreshStart DEF Poll
  <1> QED BY <1>2, <1>3

LEMMA ClaimKeeps ==
    ASSUME WorkerInv, NEW s \in Slot, ClaimReplayed(s) \/ ClaimUnmet(s) \/ ClaimRefused(s)
    PROVE  WorkerInv'
  <1>1. /\ Grip(held[s], slot[s], exec[s]) /\ Excuse(slot[s], exec[s])
        /\ slot[s] \in SlotState /\ slot[s].pc = "claim"
    BY SlotFacts DEF ClaimReplayed, ClaimUnmet, ClaimRefused
  <1>2. held[s] # "running" /\ exec[s] = NoRun /\ slot[s].renew = "off"
    BY <1>1 DEF Grip, Working, WithRun
  <1>3. CASE ClaimReplayed(s)
    <2> DEFINE st == [slot[s] EXCEPT !.pc = "start"]
    <2>1. /\ st \in SlotState /\ st.pc = "start" /\ st.own = slot[s].own
          /\ st.renew = slot[s].renew /\ st.after = slot[s].after
      BY <1>1 DEF SlotState, Working
    <2>2. Goes(s, st) /\ UNCHANGED <<held, pool, control, revoked>>
      BY <1>3 DEF ClaimReplayed
    <2> HIDE DEF st
    <2>3. Grip(held[s], st, exec[s])
      BY <1>1, <1>2, <2>1, NoRunType DEF Grip, Working, WithRun, Going
    <2>4. Excuse(st, exec[s])
      BY <1>1, <2>1 DEF Excuse
    <2> QED BY <1>1, <2>1, <2>2, <2>3, <2>4, LoopOnly DEF Over
  <1>4. CASE ClaimUnmet(s)
    <2>1. Idle = At("poll")
      BY DEF At, Idle
    <2> QED BY <1>1, <1>2, <1>4, <2>1, FreshStart DEF ClaimUnmet
  <1>5. CASE ClaimRefused(s)
    BY <1>1, <1>2, <1>5, FreshStart DEF ClaimRefused
  <1> QED BY <1>3, <1>4, <1>5

LEMMA ClaimGrantedKeeps ==
    ASSUME WorkerInv, NEW s \in Slot, ClaimGranted(s)
    PROVE  WorkerInv'
  <1>1. /\ Grip(held[s], slot[s], exec[s]) /\ Excuse(slot[s], exec[s])
        /\ slot[s] \in SlotState /\ slot[s].pc = "claim"
    BY SlotFacts DEF ClaimGranted
  <1>2. exec[s] = NoRun /\ slot[s].renew = "off"
    BY <1>1 DEF Grip, WithRun
  <1>3. PICK pc \in {"start", "claim"} : Goes(s, [slot[s] EXCEPT !.pc = pc, !.own = "held"])
    BY DEF ClaimGranted
  <1> DEFINE st == [slot[s] EXCEPT !.pc = pc, !.own = "held"]
  <1>4. /\ st \in SlotState /\ st.pc = pc /\ st.own = "held"
        /\ st.renew = slot[s].renew /\ st.after = slot[s].after
    BY <1>1 DEF SlotState, Working
  <1>5. slot' = [slot EXCEPT ![s] = st] /\ held' = [held EXCEPT ![s] = "leased"]
        /\ UNCHANGED <<pool, control, revoked>>
    BY <1>3 DEF ClaimGranted, Goes
  <1> HIDE DEF st
  <1>6. Grip("leased", st, exec[s])
    BY <1>1, <1>2, <1>4, NoRunType DEF Grip, Working, WithRun, Going
  <1>7. Excuse(st, exec[s])
    BY <1>1, <1>4 DEF Excuse
  <1> QED BY <1>1, <1>4, <1>5, <1>6, <1>7, LoopStep DEF Over

(* The attempt of s changes, and its loop does not notice. *)
LEMMA AttemptStep ==
    ASSUME WorkerInv, NEW s \in Slot, NEW h \in {"leased", "running", "expired"},
           held' = [held EXCEPT ![s] = h], UNCHANGED <<slot, pool, control, revoked>>,
           h = "leased" => held[s] = "free",
           h = "running" => slot[s].pc = "start" /\ slot[s].own = "held"
    PROVE  WorkerInv'
  <1>1. /\ Grip(held[s], slot[s], exec[s]) /\ Excuse(slot[s], exec[s])
        /\ slot[s] \in SlotState
    BY SlotFacts
  <1>2. slot' = [slot EXCEPT ![s] = slot[s]]
    BY DEF WorkerInv, Typed
  <1>3. Grip(h, slot[s], exec[s])
    BY <1>1, NoRunType DEF Grip, Working, WithRun, Going
  <1> QED BY <1>1, <1>2, <1>3, LoopStep

LEMMA LateClaimKeeps ==
    ASSUME WorkerInv, NEW s \in Slot, LateClaim(s)
    PROVE  WorkerInv'
  BY AttemptStep DEF LateClaim

LEMMA LeaseLapsesKeeps ==
    ASSUME WorkerInv, NEW s \in Slot, LeaseLapses(s)
    PROVE  WorkerInv'
  BY AttemptStep DEF LeaseLapses

LEMMA StartCarriedOutKeeps ==
    ASSUME WorkerInv, NEW s \in Slot, StartCarriedOut(s)
    PROVE  WorkerInv'
  BY AttemptStep DEF StartCarriedOut, Owns

LEMMA LeaseSweptKeeps ==
    ASSUME WorkerInv, NEW s \in Slot, LeaseSwept(s)
    PROVE  WorkerInv'
  <1>1. /\ Grip(held[s], slot[s], exec[s]) /\ Excuse(slot[s], exec[s])
        /\ slot[s] \in SlotState /\ slot \in [Slot -> SlotState]
    BY SlotFacts DEF WorkerInv, Typed
  <1> DEFINE own == IF slot[s].own = "held" THEN "lost" ELSE slot[s].own
             st == [slot[s] EXCEPT !.own = own]
  <1>2. own \in {"none", "lost"}
    BY <1>1 DEF SlotState
  <1> HIDE DEF own
  <1>3. /\ st \in SlotState /\ st.pc = slot[s].pc /\ st.own = own
        /\ st.renew = slot[s].renew /\ st.after = slot[s].after
    BY <1>1, <1>2 DEF SlotState
  <1>4. /\ slot' = [slot EXCEPT ![s] = st] /\ held' = [held EXCEPT ![s] = "free"]
        /\ UNCHANGED <<pool, control, revoked>>
    BY <1>1 DEF LeaseSwept, own
  <1> HIDE DEF st
  <1>5. Grip("free", st, exec[s])
    BY <1>1, <1>2, <1>3 DEF Grip
  <1>6. Excuse(st, exec[s])
    BY <1>1, <1>3 DEF Excuse
  <1> QED BY <1>3, <1>4, <1>5, <1>6, LoopStep

LEMMA RenewRefusedKeeps ==
    ASSUME WorkerInv, NEW s \in Slot, RenewRefused(s)
    PROVE  WorkerInv'
  <1>1. /\ Grip(held[s], slot[s], exec[s]) /\ Excuse(slot[s], exec[s])
        /\ slot[s] \in SlotState /\ slot[s].renew = "on" /\ (revoked \/ ~Owns(s))
    BY SlotFacts DEF RenewRefused
  <1> DEFINE renew == IF revoked THEN "refused" ELSE "fenced"
             st == [slot[s] EXCEPT !.renew = renew]
  <1>2. renew \in {"refused", "fenced"} /\ (renew = "refused" => revoked)
        /\ (renew = "fenced" => ~Owns(s))
    BY <1>1
  <1> HIDE DEF renew
  <1>3. /\ st \in SlotState /\ st.pc = slot[s].pc /\ st.own = slot[s].own
        /\ st.renew = renew /\ st.after = slot[s].after
    BY <1>1, <1>2 DEF SlotState
  <1>4. Goes(s, st) /\ UNCHANGED <<held, pool, control, revoked>>
    BY DEF RenewRefused, renew
  <1> HIDE DEF st
  <1>5. Grip(held[s], st, exec[s])
    BY <1>1, <1>2, <1>3 DEF Grip, Owns, Working, WithRun
  <1>6. Excuse(st, exec[s])
    BY <1>1, <1>2, <1>3 DEF Excuse
  <1> QED BY <1>3, <1>4, <1>5, <1>6, LoopOnly

LEMMA StartRefusedKeeps ==
    ASSUME WorkerInv, NEW s \in Slot, StartRefused(s)
    PROVE  WorkerInv'
  <1>1. Grip(held[s], slot[s], exec[s]) /\ slot[s].pc = "start" /\ (revoked \/ ~Owns(s))
    BY SlotFacts DEF StartRefused
  <1>2. Idle = At("poll")
    BY DEF At, Idle
  <1>3. CASE revoked
    BY <1>1, <1>3, FreshStart DEF StartRefused
  <1>4. CASE ~revoked
    <2>1. held[s] # "running"
      BY <1>1, <1>4 DEF Grip, Owns, Working
    <2> QED BY <1>1, <1>2, <1>4, <2>1, FreshStart DEF StartRefused
  <1> QED BY <1>3, <1>4

LEMMA FinishCarriedOutKeeps ==
    ASSUME WorkerInv, NEW s \in Slot, FinishCarriedOut(s)
    PROVE  WorkerInv'
  <1>1. /\ Grip(held[s], slot[s], exec[s]) /\ Excuse(slot[s], exec[s])
        /\ slot[s] \in SlotState
    BY SlotFacts
  <1> DEFINE st == [slot[s] EXCEPT !.own = "lost"]
  <1>2. /\ st \in SlotState /\ st.pc = slot[s].pc /\ st.own = "lost"
        /\ st.renew = slot[s].renew /\ st.after = slot[s].after
    BY <1>1 DEF SlotState
  <1>3. /\ slot' = [slot EXCEPT ![s] = st] /\ held' = [held EXCEPT ![s] = "free"]
        /\ UNCHANGED <<pool, control, revoked>>
    BY DEF FinishCarriedOut, Goes
  <1> HIDE DEF st
  <1>4. Grip("free", st, exec[s])
    BY <1>1, <1>2 DEF Grip
  <1>5. Excuse(st, exec[s])
    BY <1>1, <1>2 DEF Excuse
  <1> QED BY <1>2, <1>3, <1>4, <1>5, LoopStep

LEMMA FinishRejectedKeeps ==
    ASSUME WorkerInv, NEW s \in Slot, FinishRejected(s)
    PROVE  WorkerInv'
  <1>1. /\ Grip(held[s], slot[s], exec[s]) /\ Excuse(slot[s], exec[s])
        /\ slot[s] \in SlotState /\ slot[s].pc = "finish" /\ slot[s].own = "held"
    BY SlotFacts DEF FinishRejected
  <1> DEFINE st == [slot[s] EXCEPT !.pc = "fallback"]
  <1>2. /\ st \in SlotState /\ st.pc = "fallback" /\ st.own = slot[s].own
        /\ st.renew = slot[s].renew /\ st.after = slot[s].after
    BY <1>1 DEF SlotState, Working
  <1>3. Goes(s, st) /\ UNCHANGED <<held, pool, control, revoked>>
    BY DEF FinishRejected
  <1> HIDE DEF st
  <1>4. Grip(held[s], st, exec[s])
    BY <1>1, <1>2 DEF Grip, Working, WithRun
  <1>5. Excuse(st, exec[s])
    BY <1>1, <1>2 DEF Excuse
  <1> QED BY <1>1, <1>2, <1>3, <1>4, <1>5, LoopOnly DEF Over

LEMMA UnrenewedKeeps ==
    ASSUME WorkerInv, NEW s \in Slot, Unrenewed(s)
    PROVE  WorkerInv'
  <1>1. /\ Grip(held[s], slot[s], exec[s]) /\ Excuse(slot[s], exec[s])
        /\ slot[s] \in SlotState /\ slot[s].pc = "unrenew"
    BY SlotFacts DEF Unrenewed
  <1> DEFINE st == At(slot[s].after)
  <1>2. /\ st \in SlotState /\ st.pc = slot[s].after /\ st.own = "none"
        /\ st.renew = "off" /\ st.after = "poll"
    BY <1>1, AtType DEF SlotState, Over
  <1>3. Goes(s, st) /\ UNCHANGED <<held, pool, control, revoked>>
    BY DEF Unrenewed, Leave
  <1> HIDE DEF st
  <1>4. slot[s].after \in {"poll", "raised", "cancelled"}
    BY <1>1 DEF SlotState
  <1>5. Grip(held[s], st, exec[s])
    BY <1>1, <1>2, <1>4, NoRunType DEF Grip, Working, WithRun, Going
  <1>6. Excuse(st, exec[s])
    BY <1>1, <1>2 DEF Excuse
  <1> QED BY <1>1, <1>2, <1>3, <1>5, <1>6, LoopOnly DEF Over

(* The loop of s goes on to st, and its run to run. *)
LEMMA RunStep ==
    ASSUME WorkerInv, NEW s \in Slot, NEW st \in SlotState, NEW run \in RunState,
           slot[s].pc \in Over => st.pc = slot[s].pc,
           slot' = [slot EXCEPT ![s] = st], exec' = [exec EXCEPT ![s] = run],
           UNCHANGED <<held, orphans, broken, control, revoked>>,
           run.pooled => exec[s].pooled \/ (~revoked /\ ~broken),
           Grip(held[s], st, run), Excuse(st, run)
    PROVE  WorkerInv'
  <1>1. Typed /\ slot \in [Slot -> SlotState] /\ exec \in [Slot -> RunState]
    BY DEF WorkerInv, Typed
  <1>2. slot'[s] = st /\ exec'[s] = run /\ held' = held
    BY <1>1
  <1>3. Sound(s)'
    <2>1. Grip(held[s], slot[s], exec[s])'
      BY <1>2 DEF Grip
    <2>2. Excuse(slot[s], exec[s])'
      BY <1>2 DEF Excuse, control
    <2> QED BY <2>1, <2>2 DEF Sound
  <1>4. Local(s)
    BY <1>1, <1>2, <1>3 DEF Typed, Local, SameSlot, control
  <1> QED BY <1>4, LocalKeeps

LEMMA StartedKeeps ==
    ASSUME WorkerInv, NEW s \in Slot, Started(s)
    PROVE  WorkerInv'
  <1>1. /\ Grip(held[s], slot[s], exec[s]) /\ Excuse(slot[s], exec[s])
        /\ slot[s] \in SlotState /\ slot[s].pc = "start" /\ ~revoked
        /\ slot[s].own = "held" /\ held[s] = "running" /\ slot[s].renew = "off"
    BY SlotFacts DEF Started, Owns, Grip, WithRun
  <1>2. PICK pooled \in BOOLEAN : Dispatch(s, pooled)
    BY ExecutorAssumption DEF Started
  <1> DEFINE st == [slot[s] EXCEPT !.pc = "run", !.renew = "on"]
             state == IF broken /\ pooled THEN "broke" ELSE "on"
             asked == [NoRun EXCEPT !.pooled = pooled]
             run == Becomes(asked, state)
  <1>3. /\ st \in SlotState /\ st.pc = "run" /\ st.own = "held"
        /\ st.renew = "on" /\ st.after = slot[s].after
    BY <1>1 DEF SlotState, Working
  <1>4. asked \in RunState /\ (asked.pooled => pooled)
    BY <1>2 DEF NoRun, RunState
  <1>5. /\ state \in {"on", "broke"} /\ (state = "broke" => broken)
        /\ (pooled /\ broken => state = "broke")
    OBVIOUS
  <1> HIDE DEF asked, state
  <1>6. /\ run \in RunState /\ run.state = state
        /\ run.pooled => pooled /\ state \in Going
    BY <1>4, <1>5, BecomesType
  <1>7. /\ slot' = [slot EXCEPT ![s] = st] /\ exec' = [exec EXCEPT ![s] = run]
        /\ UNCHANGED <<held, orphans, broken, control, revoked>>
    BY <1>2 DEF Started, Goes, Dispatch, asked, state
  <1> HIDE DEF st, run
  <1>8. Grip(held[s], st, run)
    BY <1>1, <1>3, <1>5, <1>6 DEF Grip, Working, WithRun, Going
  <1>9. Excuse(st, run)
    BY <1>1, <1>3, <1>5, <1>6 DEF Excuse
  <1>10. run.pooled => ~revoked /\ ~broken
    BY <1>1, <1>5, <1>6 DEF Going
  <1> QED BY <1>1, <1>3, <1>6, <1>7, <1>8, <1>9, <1>10, RunStep DEF Over

(* The run of s goes on, and its loop does not notice. *)
LEMMA OnlyRunStep ==
    ASSUME WorkerInv, NEW s \in Slot, exec[s].state \in Going, NEW run \in RunState,
           exec' = [exec EXCEPT ![s] = run],
           UNCHANGED <<held, slot, orphans, broken, control, revoked>>,
           run.state \in {"late", "returned", "stopped"},
           run.pooled => exec[s].pooled /\ run.state \in Going
    PROVE  WorkerInv'
  <1>1. /\ Grip(held[s], slot[s], exec[s]) /\ Excuse(slot[s], exec[s])
        /\ slot[s] \in SlotState
    BY SlotFacts
  <1>2. slot' = [slot EXCEPT ![s] = slot[s]]
    BY DEF WorkerInv, Typed
  <1>3. Grip(held[s], slot[s], run)
    BY <1>1, NoRunType DEF Grip, Going
  <1>4. Excuse(slot[s], run)
    BY <1>1 DEF Excuse
  <1> QED BY <1>1, <1>2, <1>3, <1>4, RunStep

LEMMA TaskRunsKeeps ==
    ASSUME WorkerInv, NEW s \in Slot, TaskRuns(s)
    PROVE  WorkerInv'
  <1>1. exec[s] \in RunState /\ exec \in [Slot -> RunState]
    BY SlotFacts DEF WorkerInv, Typed
  <1>2. UNCHANGED <<held, slot, control, revoked>>
    BY DEF TaskRuns
  <1>3. CASE TimesOut(s)
    <2>1. exec[s].state = "on" /\ UNCHANGED <<orphans, broken>>
      BY <1>3 DEF TimesOut
    <2>2. CASE exec[s].pooled
      <3>1. exec' = [exec EXCEPT ![s] = Becomes(exec[s], "late")]
        BY <1>1, <1>3, <2>2 DEF TimesOut
      <3> DEFINE run == Becomes(exec[s], "late")
      <3>2. run \in RunState /\ run.state = "late" /\ (run.pooled => exec[s].pooled /\ "late" \in Going)
        BY <1>1, BecomesType
      <3> HIDE DEF run
      <3> QED BY <1>2, <2>1, <3>1, <3>2, OnlyRunStep DEF Going, run
    <2>3. CASE ~exec[s].pooled
      <3>1. exec' = [exec EXCEPT ![s] = Returns(exec[s], TimedOut)]
        BY <1>1, <1>3, <2>3 DEF TimesOut
      <3> QED BY <1>1, <1>2, <2>1, <3>1, ReturnsType, OnlyRunStep DEF Going, TimedOut
    <2> QED BY <2>2, <2>3
  <1>4. ASSUME NEW end \in Ends, TaskEnds(s, end) PROVE WorkerInv'
    <2>1. exec[s].state \in Going /\ UNCHANGED <<orphans, broken>>
      BY <1>4 DEF TaskEnds
    <2>2. ResultOf(end) \in {"output", "permanent", "retryable"}
      BY DEF ResultOf
    <2>3. CASE exec[s].state = "cancelled"
      <3>1. exec' = [exec EXCEPT ![s] = Becomes(exec[s], "stopped")]
        BY <1>1, <1>4, <2>3 DEF TaskEnds
      <3> DEFINE run == Becomes(exec[s], "stopped")
      <3>2. run \in RunState /\ run.state = "stopped" /\ (run.pooled => exec[s].pooled /\ "stopped" \in Going)
        BY <1>1, BecomesType
      <3> HIDE DEF run
      <3> QED BY <1>2, <2>1, <3>1, <3>2, OnlyRunStep DEF Going, run
    <2>4. CASE exec[s].state \in {"on", "late"}
      <3>1. PICK result \in {"output", "permanent", "retryable"} :
                exec' = [exec EXCEPT ![s] = Returns(exec[s], result)]
        BY <1>1, <1>4, <2>2, <2>4 DEF TaskEnds, TimedOut
      <3> QED BY <1>1, <1>2, <2>1, <3>1, ReturnsType, OnlyRunStep DEF Going
    <2> QED BY <2>1, <2>3, <2>4 DEF Going
  <1> QED BY <1>3, <1>4 DEF TaskRuns

-----------------------------------------------------------------------------
(***************************************************************************)
(* The finally clause.                                                     *)
(***************************************************************************)
(* The run that a loop is left with when it has got to st. *)
RunLeft(st, run) == IF st.pc # "drain" THEN NoRun ELSE AfterCancel(run)

(* A loop st with a run goes on in its finally clause. *)
LEMMA FinallyStep ==
    ASSUME NEW h, NEW st \in SlotState, NEW run \in RunState, st.pc \in WithRun, Grip(h, st, run),
           st.after = "poll" => h # "running",
           NEW next, next = EndExecution(st, AfterCancel(run)), NEW left, left = RunLeft(next, run)
    PROVE  /\ next \in SlotState /\ left \in RunState /\ Grip(h, next, left)
           /\ left.pooled => run.pooled /\ run.state # "cancelled"
           /\ left.state # "broke"
           /\ next.pc = "raised" => st.after = "raised" \/ run.state = "broke"
           /\ next.after = "raised" => st.after = "raised"
           /\ next.renew = "refused" => st.renew = "refused"
           /\ next.pc = "cancelled" \/ next.after = "cancelled" => st.after = "cancelled"
  <1> DEFINE then == AfterCancel(run)
  <1>0. next = EndExecution(st, then)
    OBVIOUS
  <1>1. /\ then \in RunState
        /\ then.state \in Going => then.state = "cancelled" /\ run.state \in {"on", "late"}
        /\ then.state = "broke" => run.state = "broke"
        /\ then.pooled => run.pooled /\ run.state # "cancelled"
        /\ (run.pooled => run.state \in Going) => (then.pooled => then.state \in Going)
    BY AfterCancelType
  <1> HIDE DEF then
  <1>2. next \in SlotState /\ st.after \in {"poll", "raised", "cancelled"}
    <2>1. next \in SlotState
      BY ONLY <1>0, EndExecutionType, st \in SlotState
    <2> QED BY <2>1 DEF SlotState
  <1>3. \/ then.state \in Going /\ next = [st EXCEPT !.pc = "drain"]
        \/ then.state = "broke" /\ next = [st EXCEPT !.pc = "raised", !.after = "poll"]
        \/ /\ then.state \notin Going \cup {"broke"} /\ st.renew = "on"
           /\ next = [st EXCEPT !.pc = "unrenew"]
        \/ /\ then.state \notin Going \cup {"broke"} /\ st.renew # "on"
           /\ next = At(st.after)
    BY ONLY <1>0, EndExecutionType, st \in SlotState
  <1>4. left = IF next.pc # "drain" THEN NoRun ELSE then
    BY DEF RunLeft, then
  <1>5. CASE then.state \in Going
    <2>1. /\ next.pc = "drain" /\ next.own = st.own /\ next.renew = st.renew
          /\ next.after = st.after
      BY <1>3, <1>5 DEF SlotState, Going
    <2>2. left = then
      BY <1>4, <2>1
    <2>3. Grip(h, next, left)
      BY <1>1, <1>5, <2>1, <2>2 DEF Grip, WithRun, Working, Going
    <2> QED BY <1>1, <1>2, <1>5, <2>1, <2>2, <2>3 DEF Going
  <1>6. CASE then.state = "broke"
    <2>1. /\ next.pc = "raised" /\ next.own = st.own /\ next.renew = st.renew
          /\ next.after = "poll"
      BY <1>3, <1>6 DEF SlotState, Going
    <2>2. left = NoRun
      BY <1>4, <2>1
    <2>3. Grip(h, next, left)
      BY <2>1, <2>2, NoRunType DEF Grip, WithRun, Working, Going
    <2> QED BY <1>1, <1>2, <1>6, <2>1, <2>2, <2>3, NoRunType
  <1>7. CASE then.state \notin Going \cup {"broke"} /\ st.renew = "on"
    <2>1. /\ next.pc = "unrenew" /\ next.own = st.own /\ next.renew = st.renew
          /\ next.after = st.after
      BY <1>3, <1>7 DEF SlotState, Going
    <2>2. left = NoRun
      BY <1>4, <2>1
    <2>3. Grip(h, next, left)
      BY <1>7, <2>1, <2>2, NoRunType DEF Grip, WithRun, Working, Going
    <2> QED BY <1>2, <2>1, <2>2, <2>3, NoRunType
  <1>8. CASE then.state \notin Going \cup {"broke"} /\ st.renew # "on"
    <2>1. next = At(st.after)
      BY <1>3, <1>8 DEF Going
    <2>2. /\ next.pc = st.after /\ next.own = "none" /\ next.renew = "off"
          /\ next.after = "poll"
      BY <1>2, <2>1, AtType DEF Over
    <2>3. left = NoRun
      BY <1>2, <1>4, <2>2
    <2>4. Grip(h, next, left)
      BY <1>2, <2>2, <2>3, NoRunType DEF Grip, WithRun, Working, Going
    <2> QED BY <1>2, <2>2, <2>3, <2>4, NoRunType
  <1> QED BY <1>5, <1>6, <1>7, <1>8

(* A loop enters the finally clause, to go on after it as told. *)
LEMMA EnterFinallyKeeps ==
    ASSUME WorkerInv, NEW s \in Slot, slot[s].pc \in {"run", "finish", "fallback"},
           NEW after \in {"poll", "raised"}, EnterFinally(s, after),
           UNCHANGED <<held, control, revoked>>,
           after = "poll" => held[s] # "running", after = "raised" => revoked \/ broken
    PROVE  WorkerInv'
  <1>1. /\ Grip(held[s], slot[s], exec[s]) /\ Excuse(slot[s], exec[s])
        /\ slot[s] \in SlotState /\ exec[s] \in RunState /\ exec \in [Slot -> RunState]
    BY SlotFacts DEF WorkerInv, Typed
  <1> DEFINE st == [slot[s] EXCEPT !.after = after]
             next == EndExecution(st, AfterCancel(exec[s]))
             left == RunLeft(next, exec[s])
  <1>2. /\ st \in SlotState /\ st.pc = slot[s].pc /\ st.own = slot[s].own
        /\ st.renew = slot[s].renew /\ st.after = after
    BY <1>1 DEF SlotState
  <1>3. /\ slot' = [slot EXCEPT ![s] = next] /\ CancelRuns({s}, { t \in {s} : next.pc # "drain" })
    BY DEF EnterFinally, Goes, Finally
  <1> HIDE DEF st, next
  <1>4. exec' = [exec EXCEPT ![s] = left] /\ UNCHANGED broken
    BY <1>1, <1>3 DEF CancelRuns, RunLeft
  <1>5. orphans' = orphans
    <2>1. { t \in {s} \cap Pooled : exec[t].state = "cancelled" } = {}
      BY <1>1 DEF Grip
    <2>2. orphans' = orphans + Cardinality({})
      BY <1>3, <2>1 DEF CancelRuns
    <2>3. orphans \in Nat /\ Cardinality({}) = 0
      BY FS_EmptySet DEF WorkerInv, Typed
    <2> QED BY <2>2, <2>3
  <1>6. Grip(held[s], st, exec[s]) /\ st.pc \in WithRun /\ (st.after = "poll" => held[s] # "running")
    BY <1>1, <1>2 DEF Grip, WithRun
  <1>7. /\ next \in SlotState /\ left \in RunState /\ Grip(held[s], next, left)
        /\ left.pooled => exec[s].pooled
        /\ left.state # "broke"
        /\ next.pc = "raised" => st.after = "raised" \/ exec[s].state = "broke"
        /\ next.after = "raised" => st.after = "raised"
        /\ next.renew = "refused" => st.renew = "refused"
        /\ next.pc = "cancelled" \/ next.after = "cancelled" => st.after = "cancelled"
    BY <1>1, <1>2, <1>6, FinallyStep DEF next
  <1> HIDE DEF left
  <1>8. Excuse(next, left)
    BY <1>1, <1>2, <1>7 DEF Excuse
  <1> QED BY <1>3, <1>4, <1>5, <1>7, <1>8, RunStep DEF Over

LEMMA RunFencedKeeps ==
    ASSUME WorkerInv, NEW s \in Slot, RunFenced(s)
    PROVE  WorkerInv'
  <1>1. /\ Grip(held[s], slot[s], exec[s]) /\ Excuse(slot[s], exec[s]) /\ slot[s] \in SlotState
        /\ slot[s].pc = "run" /\ slot[s].renew # "on" /\ UNCHANGED <<held, control, revoked>>
    BY SlotFacts DEF RunFenced
  <1>2. slot[s].renew \in {"refused", "fenced"}
    BY <1>1 DEF Grip, SlotState
  <1>3. CASE slot[s].renew = "refused"
    BY <1>1, <1>3, EnterFinallyKeeps DEF RunFenced, Excuse
  <1>4. CASE slot[s].renew = "fenced"
    <2>1. held[s] # "running"
      BY <1>1, <1>4 DEF Grip, Working
    <2> QED BY <1>1, <1>4, <2>1, EnterFinallyKeeps DEF RunFenced
  <1> QED BY <1>2, <1>3, <1>4

LEMMA RunOverKeeps ==
    ASSUME WorkerInv, NEW s \in Slot, RunOver(s)
    PROVE  WorkerInv'
  <1>1. /\ Grip(held[s], slot[s], exec[s]) /\ Excuse(slot[s], exec[s]) /\ slot[s] \in SlotState
        /\ slot[s].pc = "run" /\ slot[s].renew = "on" /\ UNCHANGED <<held, control, revoked>>
    BY SlotFacts DEF RunOver
  <1>2. CASE exec[s].state = "broke" /\ EnterFinally(s, "raised")
    BY <1>1, <1>2, EnterFinallyKeeps DEF Excuse
  <1>3. CASE exec[s].state = "returned" /\ Goes(s, [slot[s] EXCEPT !.pc = "finish"]) /\ UNCHANGED pool
    <2> DEFINE st == [slot[s] EXCEPT !.pc = "finish"]
    <2>1. /\ st \in SlotState /\ st.pc = "finish" /\ st.own = slot[s].own
          /\ st.renew = slot[s].renew /\ st.after = slot[s].after
      BY <1>1 DEF SlotState, Working
    <2>2. Goes(s, st)
      BY <1>3
    <2> HIDE DEF st
    <2>3. Grip(held[s], st, exec[s])
      BY <1>1, <1>3, <2>1 DEF Grip, WithRun, Working
    <2>4. Excuse(st, exec[s])
      BY <1>1, <2>1 DEF Excuse
    <2> QED BY <1>1, <1>3, <2>1, <2>2, <2>3, <2>4, LoopOnly DEF Over
  <1> QED BY <1>2, <1>3 DEF RunOver

LEMMA FinishEndsKeeps ==
    ASSUME WorkerInv, NEW s \in Slot, FinishAnswered(s) \/ FinishRefused(s)
    PROVE  WorkerInv'
  <1>1. /\ Grip(held[s], slot[s], exec[s])
        /\ slot[s].pc \in {"finish", "fallback"} /\ UNCHANGED <<held, control, revoked>>
    BY SlotFacts DEF FinishAnswered, FinishRefused, Finishing
  <1>2. CASE FinishAnswered(s)
    <2>1. held[s] # "running"
      BY <1>1, <1>2 DEF FinishAnswered, Owns, Grip, Working
    <2> QED BY <1>1, <1>2, <2>1, EnterFinallyKeeps DEF FinishAnswered
  <1>3. CASE FinishRefused(s)
    BY <1>1, <1>3, EnterFinallyKeeps DEF FinishRefused
  <1> QED BY <1>2, <1>3

LEMMA DrainedKeeps ==
    ASSUME WorkerInv, NEW s \in Slot, Drained(s)
    PROVE  WorkerInv'
  <1>1. /\ Grip(held[s], slot[s], exec[s]) /\ Excuse(slot[s], exec[s])
        /\ slot[s] \in SlotState /\ exec[s] \in RunState /\ exec \in [Slot -> RunState]
        /\ slot[s].pc = "drain" /\ exec[s].state \notin Going
        /\ UNCHANGED <<held, control, revoked>>
    BY SlotFacts DEF WorkerInv, Typed, Drained
  <1> DEFINE next == EndExecution(slot[s], AfterCancel(exec[s]))
             left == RunLeft(next, exec[s])
  <1>2. AfterCancel(exec[s]) = exec[s]
    BY <1>1 DEF AfterCancel
  <1>3. slot' = [slot EXCEPT ![s] = next] /\ CancelRuns({}, {s})
    BY <1>2 DEF Drained, Goes
  <1>4. next.pc # "drain"
    <2>1. slot[s].after \in {"poll", "raised", "cancelled"}
      BY <1>1 DEF SlotState
    <2>2. At(slot[s].after).pc = slot[s].after
      BY <2>1, AtType DEF Over
    <2>3. \/ next = [slot[s] EXCEPT !.pc = "raised", !.after = "poll"]
          \/ next = [slot[s] EXCEPT !.pc = "unrenew"]
          \/ next = At(slot[s].after)
      BY <1>1, <1>2, EndExecutionType
    <2> HIDE DEF next
    <2> QED BY <1>1, <2>1, <2>2, <2>3 DEF SlotState
  <1> HIDE DEF next
  <1>5. exec' = [exec EXCEPT ![s] = NoRun] /\ UNCHANGED broken
    BY <1>1, <1>3 DEF CancelRuns
  <1>6. orphans' = orphans
    <2>1. { t \in {} \cap Pooled : exec[t].state = "cancelled" } = {}
      OBVIOUS
    <2>2. orphans' = orphans + Cardinality({})
      BY <1>3, <2>1 DEF CancelRuns
    <2>3. orphans \in Nat /\ Cardinality({}) = 0
      BY FS_EmptySet DEF WorkerInv, Typed
    <2> QED BY <2>2, <2>3
  <1>7. slot[s].pc \in WithRun /\ (slot[s].after = "poll" => held[s] # "running")
    BY <1>1 DEF Grip, WithRun
  <1>8. left = NoRun
    BY <1>4 DEF RunLeft
  <1>9. /\ next \in SlotState /\ Grip(held[s], next, left)
        /\ next.pc = "raised" => slot[s].after = "raised" \/ exec[s].state = "broke"
        /\ next.after = "raised" => slot[s].after = "raised"
        /\ next.renew = "refused" => slot[s].renew = "refused"
        /\ next.pc = "cancelled" \/ next.after = "cancelled" => slot[s].after = "cancelled"
    BY <1>1, <1>7, FinallyStep DEF next
  <1> HIDE DEF left
  <1>10. Excuse(next, NoRun)
    BY <1>1, <1>9, NoRunType DEF Excuse
  <1> QED BY <1>1, <1>3, <1>5, <1>6, <1>8, <1>9, <1>10, NoRunType, RunStep DEF Over

-----------------------------------------------------------------------------
(***************************************************************************)
(* The slots are cancelled.                                                *)
(***************************************************************************)
(* Where a cancellation takes one loop, and what it leaves of its run. *)
LEMMA CancelledRow ==
    ASSUME WorkerInv, NEW s \in Slots, NEW next, next = Cancelled(s),
           NEW left, left = RunLeft(next, exec[s])
    PROVE  /\ next \in SlotState /\ left \in RunState /\ Grip(held[s], next, left)
           /\ left.pooled => exec[s].pooled /\ exec[s].state # "cancelled"
           /\ left.state # "broke"
           /\ next.pc = "raised" \/ next.after = "raised" \/ next.renew = "refused" =>
                revoked \/ broken
  <1>1. /\ s \in Slot /\ Grip(held[s], slot[s], exec[s]) /\ Excuse(slot[s], exec[s])
        /\ slot[s] \in SlotState /\ exec[s] \in RunState /\ slot[s].pc \notin Over
    BY SlotFacts DEF Slots
  <1>2. slot[s].pc \in {"poll", "claim", "start"} \cup {"run", "finish", "fallback"}
                        \cup {"drain"} \cup {"unrenew"}
    BY <1>1 DEF SlotState, Working
  <1>3. CASE slot[s].pc \in {"poll", "claim", "start", "unrenew"}
    <2> DEFINE pc == IF slot[s].pc = "unrenew" THEN slot[s].after ELSE "cancelled"
    <2>1. next = At(pc)
      BY <1>3 DEF Cancelled, Leave
    <2>2. /\ pc \in {"poll", "raised", "cancelled"}
          /\ pc = "poll" => held[s] # "running"
          /\ pc = "raised" => revoked \/ broken
      BY <1>1 DEF SlotState, Grip, Excuse
    <2> HIDE DEF pc
    <2>3. /\ next \in SlotState /\ next.pc = pc /\ next.own = "none"
          /\ next.renew = "off" /\ next.after = "poll"
      BY <2>1, <2>2, AtType DEF Over
    <2>4. left = NoRun
      BY <2>2, <2>3 DEF RunLeft
    <2>5. Grip(held[s], next, left)
      BY <2>2, <2>3, <2>4, NoRunType DEF Grip, Working, WithRun, Going
    <2> QED BY <2>2, <2>3, <2>4, <2>5, NoRunType
  <1>4. CASE slot[s].pc \in {"run", "finish", "fallback"}
    <2> DEFINE st == [slot[s] EXCEPT !.after = "cancelled"]
    <2>1. /\ st \in SlotState /\ st.pc = slot[s].pc /\ st.own = slot[s].own
          /\ st.renew = slot[s].renew /\ st.after = "cancelled"
      BY <1>1 DEF SlotState
    <2>2. next = EndExecution(st, AfterCancel(exec[s]))
      BY <1>4 DEF Cancelled, Finally
    <2> DEFINE n == EndExecution(st, AfterCancel(exec[s]))
               l == RunLeft(n, exec[s])
    <2> HIDE DEF st, n
    <2>3. Grip(held[s], st, exec[s]) /\ st.pc \in WithRun /\ (st.after = "poll" => held[s] # "running")
      BY <1>1, <1>4, <2>1 DEF Grip, WithRun
    <2>4. /\ n \in SlotState /\ l \in RunState /\ Grip(held[s], n, l)
          /\ l.pooled => exec[s].pooled /\ exec[s].state # "cancelled"
          /\ l.state # "broke"
          /\ n.pc = "raised" => st.after = "raised" \/ exec[s].state = "broke"
          /\ n.after = "raised" => st.after = "raised"
          /\ n.renew = "refused" => st.renew = "refused"
          /\ n.pc = "cancelled" \/ n.after = "cancelled" => st.after = "cancelled"
      BY <1>1, <2>1, <2>3, FinallyStep DEF n
    <2>5. next = n /\ left = l
      BY <2>2 DEF n
    <2> HIDE DEF l
    <2> QED BY <1>1, <2>1, <2>4, <2>5 DEF Excuse
  <1>5. CASE slot[s].pc = "drain"
    <2>1. next = EndExecution(slot[s], AfterCancel(exec[s]))
      BY <1>5 DEF Cancelled
    <2>2. slot[s].pc \in WithRun /\ (slot[s].after = "poll" => held[s] # "running")
      BY <1>1, <1>5 DEF Grip, WithRun
    <2> DEFINE n == EndExecution(slot[s], AfterCancel(exec[s]))
               l == RunLeft(n, exec[s])
    <2>3. /\ n \in SlotState /\ l \in RunState /\ Grip(held[s], n, l)
          /\ l.pooled => exec[s].pooled /\ exec[s].state # "cancelled"
          /\ l.state # "broke"
          /\ n.pc = "raised" => slot[s].after = "raised" \/ exec[s].state = "broke"
          /\ n.after = "raised" => slot[s].after = "raised"
          /\ n.renew = "refused" => slot[s].renew = "refused"
      BY <1>1, <2>2, FinallyStep
    <2>4. next = n /\ left = l
      BY <2>1
    <2> HIDE DEF n, l
    <2> QED BY <1>1, <2>3, <2>4 DEF Excuse
  <1> QED BY <1>2, <1>3, <1>4, <1>5

(* Whoever cancels the slots has reason to, and the reason outlasts it. *)
LEMMA CancelSlotsKeeps ==
    ASSUME WorkerInv, CancelSlots, UNCHANGED <<held, stop, beat, revoked>>,
           main' \in {main, "stopping"}, main \notin {"closing", "exited", "failed", "crashed"},
           beat = "failed" \/ \E s \in Slot : slot[s].pc = "raised"
    PROVE  WorkerInv'
  <1>0. /\ Typed /\ PoolNeverQueues /\ PoolState /\ GroupState
        /\ \A s \in Slot : Sound(s)
    BY DEF WorkerInv
  <1>1. revoked \/ broken
    BY <1>0 DEF GroupState, Sound, Excuse
  <1> DEFINE X == { s \in Slots \cap Pooled : exec[s].state = "cancelled" }
  <1>2. /\ slot' = [ s \in Slot |-> IF s \in Slots THEN Cancelled(s) ELSE slot[s] ]
        /\ orphans' = orphans + Cardinality(X) /\ broken' = broken /\ aborting' = TRUE
    BY DEF CancelSlots, CancelRuns
  <1>3. \A s \in Slots : slot'[s] = Cancelled(s) /\ exec'[s] = RunLeft(slot'[s], exec[s])
    BY <1>2 DEF CancelSlots, CancelRuns, RunLeft, Slots
  <1>4. \A s \in Slot \ Slots : SameSlot(s) /\ slot[s].pc \in Over
    BY <1>2 DEF CancelSlots, CancelRuns, SameSlot, Slots
  <1>5. /\ slot' = [ s \in Slot |-> slot'[s] ] /\ exec' = [ s \in Slot |-> exec'[s] ]
    BY DEF CancelSlots, CancelRuns
  <1> HIDE DEF X
  <1>6. ASSUME NEW s \in Slots
        PROVE  /\ slot'[s] \in SlotState /\ exec'[s] \in RunState
               /\ Grip(held[s], slot'[s], exec'[s])
               /\ exec'[s].pooled => exec[s].pooled /\ exec[s].state # "cancelled"
               /\ exec'[s].state # "broke"
               /\ slot'[s].pc = "raised" \/ slot'[s].after = "raised" \/ slot'[s].renew = "refused" =>
                    revoked \/ broken
    BY <1>3, CancelledRow
  <1>7. ASSUME NEW s \in Slot \ Slots
        PROVE  /\ slot'[s] \in SlotState /\ exec'[s] \in RunState /\ ~exec'[s].pooled
    <2>1. exec[s] = NoRun
      BY <1>0, <1>4 DEF Sound, Grip, Over, WithRun
    <2> QED BY <1>0, <1>4, <2>1, NoRunType DEF Typed, SameSlot
  <1>8. X \subseteq Pooled /\ Pooled' \subseteq Pooled \ X
    BY <1>6, <1>7 DEF Pooled, X
  <1>9. Cardinality(X) \in Nat /\ orphans \in Nat /\ orphans' \in Nat
    <2>1. Pooled \subseteq Slot /\ IsFiniteSet(Slot)
      BY ExecutorAssumption DEF Pooled
    <2>2. IsFiniteSet(X)
      BY <1>8, <2>1, FS_Subset
    <2>3. Cardinality(X) \in Nat
      BY <2>2, FS_CardinalityType
    <2> QED BY <1>0, <1>2, <2>3 DEF Typed
  <1>10. PoolNeverQueues'
    BY <1>0, <1>2, <1>8, <1>9, PoolShrinks
  <1>11. PoolState'
    <2>1. CASE broken
      <3>1. X = {}
        BY <1>0, <2>1 DEF PoolState, Pooled, X
      <3>2. Cardinality(X) = 0
        BY <3>1, FS_EmptySet
      <3>3. orphans' = 0
        BY <1>0, <1>2, <2>1, <3>2 DEF PoolState
      <3>4. \A s \in Slot : ~exec'[s].pooled
        BY <1>0, <1>6, <1>7, <2>1 DEF PoolState
      <3> QED BY <3>3, <3>4 DEF PoolState
    <2>2. CASE ~broken
      BY <1>1, <1>2, <2>2 DEF PoolState
    <2> QED BY <2>1, <2>2
  <1>12. Typed'
    <2>1. slot' \in [Slot -> SlotState] /\ exec' \in [Slot -> RunState]
      BY <1>5, <1>6, <1>7
    <2> QED BY <1>0, <1>2, <1>9, <2>1 DEF Typed
  <1>13. ASSUME NEW s \in Slot PROVE Sound(s)'
    <2>1. CASE s \in Slots
      <3>1. Grip(held[s], slot[s], exec[s])'
        BY <1>6, <2>1 DEF Grip
      <3>2. Excuse(slot[s], exec[s])'
        BY <1>2, <1>6, <2>1 DEF Excuse
      <3> QED BY <3>1, <3>2 DEF Sound
    <2>2. CASE s \notin Slots
      <3>1. ReasonsStay
        BY <1>2 DEF ReasonsStay
      <3> QED BY <1>0, <1>4, <2>2, <3>1, SameSlotSound
    <2> QED BY <2>1, <2>2
  <1>14. GroupState'
    <2>1. beat' = "failed" \/ \E s \in Slot : slot'[s].pc = "raised"
      BY <1>4 DEF SameSlot, Slots, Over
    <2> QED BY <1>0, <2>1 DEF GroupState
  <1> QED BY <1>10, <1>11, <1>12, <1>13, <1>14 DEF WorkerInv

-----------------------------------------------------------------------------
(***************************************************************************)
(* Steps of the process as a whole.                                        *)
(***************************************************************************)
(* Only run() and what it watches move. *)
LEMMA ControlStep ==
    ASSUME WorkerInv, UNCHANGED <<held, pool, slot>>, ReasonsStay, Typed', GroupState'
    PROVE  WorkerInv'
  <1>1. \A s \in Slot : Sound(s)'
    BY SameSlotSound DEF WorkerInv, SameSlot, pool
  <1>2. PoolNeverQueues'
    BY DEF WorkerInv, PoolNeverQueues, Pooled, pool
  <1>3. PoolState'
    BY DEF WorkerInv, PoolState, ReasonsStay, pool
  <1> QED BY <1>1, <1>2, <1>3 DEF WorkerInv

LEMMA ControlKeeps ==
    ASSUME WorkerInv,
           \/ Registered \/ RegistrationRefused \/ ToldToStop \/ HeartbeatRefused
           \/ SlotsOver \/ Close \/ Revoked
    PROVE  WorkerInv'
  <1>0. /\ Typed /\ GroupState /\ \A s \in Slot : Sound(s)
    BY DEF WorkerInv
  <1>1. CASE Registered
    <2>1. UNCHANGED <<held, pool, slot>> /\ ReasonsStay /\ Typed' /\ GroupState'
      BY <1>0, <1>1 DEF Registered, ReasonsStay, Typed, GroupState, pool
    <2> QED BY <2>1, ControlStep
  <1>2. CASE RegistrationRefused
    <2>1. UNCHANGED <<held, pool, slot>> /\ ReasonsStay /\ Typed' /\ GroupState'
      BY <1>0, <1>2 DEF RegistrationRefused, ReasonsStay, Typed, GroupState, pool
    <2> QED BY <2>1, ControlStep
  <1>3. CASE ToldToStop
    <2>1. UNCHANGED <<held, pool, slot>> /\ ReasonsStay /\ Typed' /\ GroupState'
      BY <1>0, <1>3 DEF ToldToStop, ReasonsStay, Typed, GroupState, pool
    <2> QED BY <2>1, ControlStep
  <1>4. CASE HeartbeatRefused
    <2>1. UNCHANGED <<held, pool, slot>> /\ ReasonsStay /\ Typed' /\ GroupState'
      BY <1>0, <1>4 DEF HeartbeatRefused, ReasonsStay, Typed, GroupState, pool
    <2> QED BY <2>1, ControlStep
  <1>5. CASE SlotsOver
    <2>1. UNCHANGED <<held, pool, slot>> /\ ReasonsStay /\ Typed'
      <3>1. main' \in {"failed", "closing"} /\ main \in {"running", "stopping"}
        BY <1>5 DEF SlotsOver
      <3> QED BY <1>0, <1>5, <3>1 DEF SlotsOver, ReasonsStay, Typed, pool
    <2>2. main \in {"running", "stopping"} /\ \A s \in Slot : slot[s].pc \in Over
      BY <1>5 DEF SlotsOver, Slots
    <2>3. CASE beat = "failed" \/ \E s \in Slot : slot[s].pc = "raised"
      <3>1. main' = "failed" /\ beat' = "off"
        BY <1>5, <2>3 DEF SlotsOver
      <3>2. GroupState'
        BY <3>1 DEF GroupState
      <3> QED BY <2>1, <3>2, ControlStep
    <2>4. CASE ~(beat = "failed" \/ \E s \in Slot : slot[s].pc = "raised")
      <3>1. main' = "closing" /\ beat' = "off" /\ UNCHANGED <<slot, aborting>>
        BY <1>5, <2>4 DEF SlotsOver
      <3>2. ~aborting
        BY <1>0, <2>2, <2>4 DEF GroupState
      <3>3. \A s \in Slot : slot[s].pc = "returned"
        BY <1>0, <2>2, <2>4, <3>2 DEF Sound, Excuse, Over
      <3>4. GroupState'
        BY <3>1, <3>2, <3>3 DEF GroupState
      <3> QED BY <2>1, <3>4, ControlStep
    <2> QED BY <2>3, <2>4
  <1>6. CASE Close
    <2>1. UNCHANGED <<held, pool, slot>> /\ ReasonsStay /\ Typed' /\ GroupState'
      BY <1>0, <1>6 DEF Close, ReasonsStay, Typed, GroupState, pool
    <2> QED BY <2>1, ControlStep
  <1>7. CASE Revoked
    <2>1. UNCHANGED <<held, pool, slot>> /\ ReasonsStay /\ Typed' /\ GroupState'
      BY <1>0, <1>7 DEF Revoked, ReasonsStay, Typed, GroupState, pool, control
    <2> QED BY <2>1, ControlStep
  <1> QED BY <1>1, <1>2, <1>3, <1>4, <1>5, <1>6, <1>7

LEMMA AbortKeeps ==
    ASSUME WorkerInv, GroupAborts \/ Supervise
    PROVE  WorkerInv'
  <1>1. CASE GroupAborts
    <2>1. /\ CancelSlots /\ UNCHANGED <<held, stop, beat, revoked>> /\ main' = main
          /\ \E s \in Slot : slot[s].pc = "raised"
          /\ main \notin {"exited", "failed", "crashed"}
      BY <1>1 DEF GroupAborts, Ended
    <2>2. main # "closing"
      BY <2>1 DEF WorkerInv, GroupState
    <2> QED BY <2>1, <2>2, CancelSlotsKeeps
  <1>2. CASE Supervise
    <2>1. /\ UNCHANGED <<held, stop, beat, revoked>> /\ main' = "stopping"
          /\ main = "running" /\ beat = "failed"
      BY <1>2 DEF Supervise
    <2>2. CASE ~aborting
      BY <1>2, <2>1, <2>2, CancelSlotsKeeps DEF Supervise
    <2>3. CASE aborting
      <3>1. UNCHANGED <<pool, slot, aborting>>
        BY <1>2, <2>3 DEF Supervise
      <3>2. ReasonsStay /\ Typed' /\ GroupState'
        BY <2>1, <3>1 DEF WorkerInv, ReasonsStay, Typed, GroupState, pool
      <3> QED BY <2>1, <3>1, <3>2, ControlStep
    <2> QED BY <2>2, <2>3
  <1> QED BY <1>1, <1>2

LEMMA CrashKeeps ==
    ASSUME WorkerInv, Crash
    PROVE  WorkerInv'
  <1>0. Typed /\ PoolState /\ GroupState
    BY DEF WorkerInv
  <1> DEFINE st == At("cancelled")
  <1>1. /\ st \in SlotState /\ st.pc = "cancelled" /\ st.own = "none"
        /\ st.renew = "off" /\ st.after = "poll"
    BY AtType DEF Over
  <1>2. /\ slot' = [s \in Slot |-> st] /\ exec' = [s \in Slot |-> NoRun]
        /\ main' = "crashed" /\ beat' = "off" /\ orphans' = 0
        /\ UNCHANGED <<held, broken, stop, aborting, revoked>>
    BY DEF Crash
  <1> HIDE DEF st
  <1>3. ASSUME NEW s \in Slot PROVE Sound(s)'
    <2>1. slot'[s] = st /\ exec'[s] = NoRun
      BY <1>2
    <2>2. Grip(held[s], slot[s], exec[s])'
      BY <1>1, <2>1, NoRunType DEF Grip, WithRun, Working, Going
    <2>3. Excuse(slot[s], exec[s])'
      BY <1>1, <1>2, <2>1, NoRunType DEF Excuse
    <2> QED BY <2>2, <2>3 DEF Sound
  <1>4. PoolState' /\ GroupState' /\ Typed'
    BY <1>0, <1>1, <1>2, NoRunType DEF PoolState, GroupState, Typed
  <1>5. PoolNeverQueues'
    BY <1>2, PoolFits
  <1> QED BY <1>3, <1>4, <1>5 DEF WorkerInv

LEMMA PoolStepsKeeps ==
    ASSUME WorkerInv, PoolSteps
    PROVE  WorkerInv'
  <1>0. /\ Typed /\ PoolNeverQueues /\ PoolState /\ GroupState
        /\ \A s \in Slot : Sound(s)
        /\ UNCHANGED <<held, slot, main, stop, beat, aborting, revoked>>
        /\ main \notin {"exited", "failed", "crashed"}
    BY DEF WorkerInv, PoolSteps, control, Ended
  <1>1. CASE OrphanEnds
    <2>1. exec' = exec /\ broken' = broken /\ orphans > 0 /\ orphans' = orphans - 1
      BY <1>1 DEF OrphanEnds
    <2>2. orphans \in Nat /\ orphans' \in Nat /\ orphans' <= orphans + 0
      BY <1>0, <2>1 DEF Typed
    <2>3. PoolNeverQueues'
      <3>1. Cardinality({}) = 0 /\ Pooled' \subseteq Pooled \ {}
        BY <2>1, FS_EmptySet DEF Pooled
      <3> QED BY <1>0, <2>2, <3>1, PoolShrinks
    <2>4. PoolState' /\ GroupState' /\ Typed'
      BY <1>0, <2>1, <2>2 DEF PoolState, GroupState, Typed
    <2>5. \A s \in Slot : Sound(s)'
      BY <1>0, <2>1, SameSlotSound DEF SameSlot, ReasonsStay
    <2> QED BY <2>3, <2>4, <2>5 DEF WorkerInv
  <1>2. CASE PoolBreaks
    <2>1. /\ broken' = TRUE /\ orphans' = 0
          /\ exec' = [ s \in Slot |-> IF s \in Pooled THEN Becomes(exec[s], "broke") ELSE exec[s] ]
      BY <1>2 DEF PoolBreaks
    <2>2. ASSUME NEW s \in Slot
          PROVE  /\ exec'[s] \in RunState /\ ~exec'[s].pooled /\ Sound(s)'
      <3>1. exec[s] \in RunState /\ Sound(s)
        BY <1>0 DEF Typed
      <3>2. CASE s \in Pooled
        <4> DEFINE run == Becomes(exec[s], "broke")
        <4>1. exec'[s] = run
          BY <2>1, <3>2
        <4>2. run \in RunState /\ run.state = "broke" /\ ~run.pooled
          BY <3>1, BecomesType DEF Going
        <4> HIDE DEF run
        <4>3. Grip(held[s], slot[s], exec[s])'
          BY <1>0, <3>1, <3>2, <4>1, <4>2, NoRunType DEF Sound, Grip, Going, Pooled
        <4>4. Excuse(slot[s], exec[s])'
          BY <1>0, <2>1, <3>1, <4>1 DEF Sound, Excuse
        <4> QED BY <4>1, <4>2, <4>3, <4>4 DEF Sound
      <3>3. CASE s \notin Pooled
        <4>1. exec'[s] = exec[s] /\ ~exec[s].pooled
          BY <2>1, <3>3 DEF Pooled
        <4>2. Sound(s)'
          BY <1>0, <2>1, <3>1, <4>1, SameSlotSound DEF SameSlot, ReasonsStay
        <4> QED BY <3>1, <4>1, <4>2
      <3> QED BY <3>2, <3>3
    <2>3. Typed'
      <3>1. exec' \in [Slot -> RunState]
        BY <2>1, <2>2
      <3> QED BY <1>0, <2>1, <3>1 DEF Typed
    <2>4. PoolState' /\ GroupState'
      BY <1>0, <2>1, <2>2 DEF PoolState, GroupState
    <2>5. PoolNeverQueues'
      BY <2>1, PoolFits
    <2> QED BY <2>2, <2>3, <2>4, <2>5 DEF WorkerInv
  <1> QED BY <1>1, <1>2 DEF PoolSteps

-----------------------------------------------------------------------------
LEMMA WorkerInvariant == Spec => []WorkerInv
  <1>1. Init => WorkerInv
    <2> SUFFICES ASSUME Init PROVE WorkerInv
      OBVIOUS
    <2>1. /\ exec = [s \in Slot |-> NoRun] /\ orphans = 0 /\ broken = FALSE
          /\ held = [s \in Slot |-> "free"] /\ slot = [s \in Slot |-> At("poll")]
          /\ main = "registering" /\ beat = "off" /\ stop = FALSE /\ aborting = FALSE
          /\ revoked = FALSE
      BY DEF Init, ExecInit, At, Idle
    <2> DEFINE st == At("poll")
    <2>2. /\ st \in SlotState /\ st.pc = "poll" /\ st.own = "none"
          /\ st.renew = "off" /\ st.after = "poll" /\ slot = [s \in Slot |-> st]
      BY <2>1, AtType
    <2> HIDE DEF st
    <2>3. Typed /\ PoolState /\ GroupState
      <3>1. Typed
        BY <2>1, <2>2, NoRunType DEF Typed
      <3>2. PoolState
        BY <2>1, NoRunType DEF PoolState
      <3>3. GroupState
        BY <2>1 DEF GroupState
      <3> QED BY <3>1, <3>2, <3>3
    <2>4. \A s \in Slot : Sound(s)
      BY <2>1, <2>2, NoRunType DEF Sound, Grip, Excuse, WithRun, Going
    <2>5. PoolNeverQueues
      <3>1. Pooled = {}
        BY <2>1, NoRunType DEF Pooled
      <3>2. Cardinality(Pooled) = 0
        BY <3>1, FS_EmptySet
      <3>3. Cardinality(Slot) \in Nat
        BY ExecutorAssumption, FS_CardinalityType
      <3> QED BY <2>1, <3>2, <3>3 DEF PoolNeverQueues
    <2> QED BY <2>3, <2>4, <2>5 DEF WorkerInv
  <1>2. WorkerInv /\ [Next]_vars => WorkerInv'
    <2> SUFFICES ASSUME WorkerInv, [Next]_vars PROVE WorkerInv'
      OBVIOUS
    <2>1. ASSUME NEW s \in Slot, Proceed(s) PROVE WorkerInv'
      <3>1. CASE Poll(s) \/ ClaimReplayed(s) \/ ClaimUnmet(s) \/ ClaimRefused(s)
        BY <3>1, PollKeeps, ClaimKeeps
      <3>2. CASE StartCarriedOut(s) \/ Started(s) \/ StartRefused(s)
        BY <3>2, StartCarriedOutKeeps, StartedKeeps, StartRefusedKeeps
      <3>3. CASE RunFenced(s) \/ RunOver(s)
        BY <3>3, RunFencedKeeps, RunOverKeeps
      <3>4. CASE FinishCarriedOut(s) \/ FinishAnswered(s) \/ FinishRefused(s)
        BY <3>4, FinishCarriedOutKeeps, FinishEndsKeeps
      <3>5. CASE Drained(s) \/ Unrenewed(s)
        BY <3>5, DrainedKeeps, UnrenewedKeeps
      <3> QED BY <2>1, <3>1, <3>2, <3>3, <3>4, <3>5 DEF Proceed
    <2>2. ASSUME NEW s \in Slot,
                 \/ ClaimGranted(s) \/ LateClaim(s) \/ RenewRefused(s) \/ FinishRejected(s)
                 \/ TaskRuns(s) \/ LeaseLapses(s) \/ LeaseSwept(s)
          PROVE  WorkerInv'
      BY <2>2, ClaimGrantedKeeps, LateClaimKeeps, RenewRefusedKeeps, FinishRejectedKeeps,
         TaskRunsKeeps, LeaseLapsesKeeps, LeaseSweptKeeps
    <2>3. CASE \/ Registered \/ RegistrationRefused \/ ToldToStop \/ HeartbeatRefused
               \/ SlotsOver \/ Close \/ Revoked
      BY <2>3, ControlKeeps
    <2>4. CASE PoolSteps \/ GroupAborts \/ Supervise \/ Crash
      BY <2>4, PoolStepsKeeps, AbortKeeps, CrashKeeps
    <2>5. CASE UNCHANGED vars
      <3>1. UNCHANGED <<held, pool, slot>> /\ ReasonsStay /\ Typed' /\ GroupState'
        BY <2>5 DEF WorkerInv, ReasonsStay, Typed, GroupState, vars, pool, control
      <3> QED BY <3>1, ControlStep
    <2> QED BY <2>1, <2>2, <2>3, <2>4, <2>5 DEF Next
  <1> QED BY <1>1, <1>2, PTL DEF Spec

(***************************************************************************)
(* A job's timeout never runs while its callable waits in the pool's       *)
(* queue, for any capacity and any strategy: dispatch keeps the slot, and  *)
(* a loop that gave up a callable never claims again.                      *)
(***************************************************************************)
THEOREM PoolHasRoom == Spec => []PoolNeverQueues
  <1>1. WorkerInv => PoolNeverQueues
    BY DEF WorkerInv
  <1> QED BY <1>1, WorkerInvariant, PTL

(***************************************************************************)
(* run() returns without an error only when every loop has returned by     *)
(* itself: none was cancelled or failed, so none left a started attempt, a *)
(* renewal or a callable behind.                                           *)
(***************************************************************************)
THEOREM CleanExits == Spec => []CleanExitLeavesNothing
  <1>1. WorkerInv => CleanExitLeavesNothing
    <2> SUFFICES ASSUME WorkerInv, main = "exited"
                 PROVE  /\ \A s \in Slot : held[s] # "running" /\ slot[s].renew # "on"
                        /\ Pooled = {} /\ orphans = 0
      BY DEF CleanExitLeavesNothing
    <2>1. orphans = 0 /\ \A s \in Slot : slot[s].pc = "returned"
      BY DEF WorkerInv, GroupState
    <2>2. \A s \in Slot : exec[s] = NoRun /\ held[s] # "running" /\ slot[s].renew = "off"
      BY <2>1 DEF WorkerInv, Sound, Grip, WithRun, Working
    <2> QED BY <2>1, <2>2, NoRunType DEF Pooled
  <1> QED BY <1>1, WorkerInvariant, PTL

(***************************************************************************)
(* A task runs only for an attempt whose start was taken, and a started    *)
(* attempt whose lease lasts has its loop at work on it, unless the loop   *)
(* failed or was cancelled.                                                *)
(***************************************************************************)
THEOREM WorkAlwaysMatchesLease == Spec => []WorkMatchesLease
  <1>1. WorkerInv => WorkMatchesLease
    BY DEF WorkerInv, Sound, Grip, WorkMatchesLease, Owns
  <1> QED BY <1>1, WorkerInvariant, PTL
=============================================================================
