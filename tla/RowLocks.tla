------------------------------ MODULE RowLocks ------------------------------
(***************************************************************************)
(* The transactions of the coordinators, statement by statement, as far as *)
(* the locks they take and the rows they decide on go.  JobStore and       *)
(* WorkerRegistry take each transaction for one step; this module is about *)
(* why they may.                                                           *)
(*                                                                         *)
(* PostgreSQL at READ COMMITTED: a statement sees what was committed when  *)
(* it began.  FOR UPDATE waits for the row's lock, or with SKIP LOCKED     *)
(* passes over the row; when it gets a row that was updated meanwhile it   *)
(* tests the condition on that row again, but not on rows joined to it.  A *)
(* foreign key takes a shared lock on the row it names.  Locks are kept to *)
(* the end of the transaction; writes show when it commits.                *)
(***************************************************************************)
EXTENDS Naturals, FiniteSets

CONSTANTS
    Tx,         \* connections of all coordinators, each with one transaction at a time
    Worker, Job, None, Admission, Recovery      \* the last two: advisory locks 741901, 741902

(* A lock is a worker's row, a job's row or one of the two advisory locks. *)
ASSUME LocksAssumption ==
    /\ Worker \cap Job = {}
    /\ {Admission, Recovery} \cap (Worker \cup Job) = {} /\ Admission # Recovery
    /\ None \notin Tx \cup Worker \cup Job \cup {Admission, Recovery}

Row == Worker \cup Job \cup {Admission, Recovery}

VARIABLES
    tx,         \* connection -> its transaction
    owner,      \* row -> who has it FOR UPDATE
    shared,     \* row -> who has it FOR KEY SHARE
    status,     \* job -> whether it waits, is held by an attempt, or has ended (committed)
    lease       \* job -> whether the lease of its unfinished attempt lasts (committed)

vars == <<tx, owner, shared, status, lease>>
data == <<status, lease>>

(* claim: session check, slot and queue.  touch: a heartbeat, a drain or a *)
(* registration, which need the worker's row only.  renew, finish: reports *)
(* (start locks as they do).                                               *)
Op == {"claim", "touch", "renew", "finish", "cancel", "admit", "sweep", "detect"}

Place == {"begin", "count", "job", "rows", "loop", "children", "end"}

Transaction ==
    [ op : Op \cup {"none"}, pc : Place,
      w : Worker \cup {None},       \* the worker the request names
      j : Job \cup {None},          \* the job it names, or has chosen; an admission's parent
      may : BOOLEAN,                \* what it read allows what was asked
      seen : SUBSET Job,            \* the rows its query found and it has yet to visit
      due : SUBSET Job,             \* jobs the sweep got, less those whose lease lasts after all
      blocked : SUBSET Job,         \* children it got, to be cancelled
      read : SUBSET Row ]           \* what it has read and goes on to decide by

NoTx == [op |-> "none", pc |-> "begin", w |-> None, j |-> None, may |-> FALSE,
         seen |-> {}, due |-> {}, blocked |-> {}, read |-> {}]

LocksTypeOK ==
    /\ tx \in [Tx -> Transaction]
    /\ owner \in [Row -> Tx \cup {None}]
    /\ shared \in [Row -> SUBSET Tx]
    /\ status \in [Job -> {"waiting", "held", "ended"}]
    /\ lease \in [Job -> {"none", "lasts", "over"}]

Free(r, t) == owner[r] \in {None, t} /\ shared[r] \subseteq {t}

Lock(r, t) == owner' = [owner EXCEPT ![r] = t]

Release(t) ==
    /\ owner' = [ r \in Row |-> IF owner[r] = t THEN None ELSE owner[r] ]
    /\ shared' = [ r \in Row |-> shared[r] \ {t} ]
    /\ tx' = [tx EXCEPT ![t] = NoTx]

Holds(t) == { r \in Row : owner[r] = t }

-----------------------------------------------------------------------------
Begin(t, op, w, j) ==
    /\ tx[t].op = "none"
    /\ tx' = [tx EXCEPT ![t] = [NoTx EXCEPT !.op = op, !.w = w, !.j = j]]
    /\ UNCHANGED <<owner, shared, data>>

Ask(t) ==
    \/ \E w \in Worker, op \in {"claim", "touch"} : Begin(t, op, w, None)
    \/ \E w \in Worker, j \in Job, op \in {"renew", "finish"} : Begin(t, op, w, j)
    \/ \E j \in Job, op \in {"cancel", "admit"} : Begin(t, op, None, j)
    \/ \E op \in {"admit", "sweep", "detect"} : Begin(t, op, None, None)

(* Mutant: the failure detector waits for the rows it finds. *)
SkipLockedButDetector == {"claim", "sweep"}

(* The transactions whose query over many rows says SKIP LOCKED. *)
SkipLocked == {"claim", "sweep", "detect"}

(* Requests in a worker's name. *)
ForWorker == {"claim", "touch", "renew", "finish"}

(* The lock that a transaction needs next and has to wait for. *)
Wanted(t) ==
    CASE tx[t].op \in ForWorker /\ tx[t].pc = "begin"          -> tx[t].w
      [] tx[t].op \in {"renew", "finish"} /\ tx[t].pc = "job"  -> tx[t].j
      [] tx[t].op = "cancel" /\ tx[t].pc = "begin"             -> tx[t].j
      [] tx[t].op = "admit" /\ tx[t].pc = "begin"              -> Admission
      [] tx[t].op = "admit" /\ tx[t].pc = "job"                -> tx[t].j
      [] tx[t].op \notin SkipLocked /\ tx[t].pc = "rows"       -> tx[t].w
      [] OTHER                                                 -> None

AfterWorker(t) ==
    tx' = [tx EXCEPT ![t].pc = IF tx[t].op = "touch" THEN "end" ELSE "job",
                     ![t].read = @ \cup {tx[t].w}]

(* Mutant: the session is compared on a row that is not locked. *)
ReadWorker(t) ==
    /\ tx[t].op \in ForWorker /\ tx[t].pc = "begin"
    /\ AfterWorker(t)
    /\ UNCHANGED <<owner, shared, data>>

(* identity, the locking reads of drain and register, and of claim *)
LockWorker(t) ==
    /\ tx[t].op \in ForWorker /\ tx[t].pc = "begin"
    /\ Free(tx[t].w, t)
    /\ Lock(tx[t].w, t)
    /\ AfterWorker(t)
    /\ UNCHANGED <<shared, data>>

(* Mutant: the job is chosen by a plain SELECT. *)
ChooseJobUnlocked(t) ==
    /\ tx[t].op = "claim" /\ tx[t].pc = "job"
    /\ \/ \E j \in Job : /\ status[j] = "waiting"
                         /\ tx' = [tx EXCEPT ![t].pc = "end", ![t].j = j,
                                              ![t].read = @ \cup {j}]
       \/ tx' = [tx EXCEPT ![t].pc = "end"]
    /\ UNCHANGED <<owner, shared, data>>

(* claim: FOR UPDATE SKIP LOCKED LIMIT 1.  The worker may not be HEALTHY   *)
(* or its slot be taken, and then no job is chosen.                        *)
ChooseJob(t) ==
    /\ tx[t].op = "claim" /\ tx[t].pc = "job"
    /\ \/ \E j \in Job : /\ status[j] = "waiting" /\ Free(j, t)
                         /\ Lock(j, t)
                         /\ tx' = [tx EXCEPT ![t].pc = "end", ![t].j = j,
                                              ![t].read = @ \cup {j}]
       \/ tx' = [tx EXCEPT ![t].pc = "end"] /\ UNCHANGED owner
    /\ UNCHANGED <<shared, data>>

(* get_job(lock=True): owned for a report, else the status, is read next. *)
LockJob(t) ==
    /\ \/ tx[t].op \in {"renew", "finish"} /\ tx[t].pc = "job"
       \/ tx[t].op = "cancel" /\ tx[t].pc = "begin"
    /\ Free(tx[t].j, t)
    /\ Lock(tx[t].j, t)
    /\ tx' = [tx EXCEPT ![t].pc = "end",
                        ![t].may = IF tx[t].op = "cancel" THEN status[tx[t].j] = "waiting"
                                   ELSE status[tx[t].j] = "held" /\ lease[tx[t].j] = "lasts",
                        ![t].read = @ \cup {tx[t].j}]
    /\ UNCHANGED <<shared, data>>

(* admit *)
LockAdmission(t) ==
    /\ tx[t].op = "admit" /\ tx[t].pc = "begin"
    /\ Free(Admission, t)
    /\ Lock(Admission, t)
    /\ tx' = [tx EXCEPT ![t].pc = "count"]
    /\ UNCHANGED <<shared, data>>

(* The key, the depth of the queue and the rate are read under that lock:  *)
(* a replay or a refusal ends here, else the job is inserted.              *)
CountQueue(t) ==
    /\ tx[t].op = "admit" /\ tx[t].pc = "count"
    /\ \E may \in BOOLEAN :
            tx' = [tx EXCEPT ![t].pc = IF may /\ tx[t].j # None THEN "job" ELSE "end",
                             ![t].may = may, ![t].read = @ \cup {Admission}]
    /\ UNCHANGED <<owner, shared, data>>

(* The INSERT names the parent; the foreign key shares its row. *)
ShareParent(t) ==
    /\ tx[t].op = "admit" /\ tx[t].pc = "job"
    /\ owner[tx[t].j] \in {None, t}
    /\ shared' = [shared EXCEPT ![tx[t].j] = @ \cup {t}]
    /\ tx' = [tx EXCEPT ![t].pc = "end"]
    /\ UNCHANGED <<owner, data>>

-----------------------------------------------------------------------------
(* recover_jobs: only one sweep at a time, the others return at once.  The *)
(* query finds jobs whose leases are over, up to its LIMIT ...             *)
BeginSweep(t) ==
    /\ tx[t].op = "sweep" /\ tx[t].pc = "begin"
    /\ \/ /\ Free(Recovery, t) /\ Lock(Recovery, t)
          /\ \E J \in SUBSET { j \in Job : status[j] = "held" /\ lease[j] = "over" } :
                tx' = [tx EXCEPT ![t].pc = "rows", ![t].seen = J]
       \/ /\ ~Free(Recovery, t)
          /\ tx' = [tx EXCEPT ![t].pc = "end"] /\ UNCHANGED owner
    /\ UNCHANGED <<shared, data>>

Passes(t, j) == tx' = [tx EXCEPT ![t].seen = @ \ {j}] /\ UNCHANGED owner

Takes(t, j) ==
    tx' = [tx EXCEPT ![t].seen = @ \ {j}, ![t].due = @ \cup {j}, ![t].read = @ \cup {j}]

(* Mutant: the sweep's query does not say FOR UPDATE. *)
SweepRowUnlocked(t, j) ==
    /\ tx[t].op = "sweep" /\ tx[t].pc = "rows" /\ j \in tx[t].seen
    /\ Takes(t, j)
    /\ UNCHANGED <<owner, shared, data>>

(* ... and locks them one after the other, in no order, passing over       *)
(* locked ones and those whose status is no longer LEASED or RUNNING.      *)
SweepRow(t, j) ==
    /\ tx[t].op = "sweep" /\ tx[t].pc = "rows" /\ j \in tx[t].seen
    /\ \/ Free(j, t) /\ status[j] = "held" /\ Lock(j, t) /\ Takes(t, j)
       \/ status[j] # "held" /\ Passes(t, j)
       \/ ~Free(j, t) /\ "sweep" \in SkipLocked /\ Passes(t, j)
    /\ UNCHANGED <<shared, data>>

LoopOver(t) ==
    /\ tx[t].op = "sweep" /\ tx[t].pc = "rows" /\ tx[t].seen = {}
    /\ tx' = [tx EXCEPT ![t].pc = "loop", ![t].seen = tx[t].due]
    /\ UNCHANGED <<owner, shared, data>>

(* Mutant: the loop fails whatever the query returned. *)
RecheckNothing(t, j) ==
    /\ tx[t].op = "sweep" /\ tx[t].pc = "loop" /\ j \in tx[t].seen
    /\ tx' = [tx EXCEPT ![t].seen = @ \ {j}]
    /\ UNCHANGED <<owner, shared, data>>

(* The loop reads each attempt again, by the clock of that moment, and     *)
(* fails the ones whose lease is over by then; it is written at the end.   *)
Recheck(t, j) ==
    /\ tx[t].op = "sweep" /\ tx[t].pc = "loop" /\ j \in tx[t].seen
    /\ tx' = [tx EXCEPT ![t].seen = @ \ {j},
                        ![t].due = IF lease[j] = "over" THEN @ ELSE @ \ {j}]
    /\ UNCHANGED <<owner, shared, data>>

(* The second query: children that wait for a parent that did not succeed. *)
(* Which jobs are children is left open; a job that the loop takes back is *)
(* none of them, for its parent had succeeded when it was claimed.         *)
FindChildren(t) ==
    /\ tx[t].op = "sweep" /\ tx[t].pc = "loop" /\ tx[t].seen = {}
    /\ \E J \in SUBSET { j \in Job : status[j] = "waiting" } :
            tx' = [tx EXCEPT ![t].pc = "children", ![t].seen = J]
    /\ UNCHANGED <<owner, shared, data>>

SweepChild(t, j) ==
    /\ tx[t].op = "sweep" /\ tx[t].pc = "children" /\ j \in tx[t].seen
    /\ \/ /\ Free(j, t) /\ status[j] = "waiting" /\ Lock(j, t)
          /\ tx' = [tx EXCEPT ![t].seen = @ \ {j}, ![t].blocked = @ \cup {j},
                              ![t].read = @ \cup {j}]
       \/ status[j] # "waiting" /\ Passes(t, j)
       \/ ~Free(j, t) /\ "sweep" \in SkipLocked /\ Passes(t, j)
    /\ UNCHANGED <<shared, data>>

(* detect_workers: the rows of workers not seen for a while, in no order.  *)
VisitWorker(t, w) ==
    /\ tx[t].op = "detect" /\ tx[t].pc = "begin" /\ w \notin Holds(t)
    /\ tx' = [tx EXCEPT ![t].pc = "rows", ![t].w = w]
    /\ UNCHANGED <<owner, shared, data>>

DetectRow(t) ==
    /\ tx[t].op = "detect" /\ tx[t].pc = "rows"
    /\ \/ /\ Free(tx[t].w, t) /\ Lock(tx[t].w, t)
          /\ tx' = [tx EXCEPT ![t].pc = "begin", ![t].w = None, ![t].read = @ \cup {tx[t].w}]
       \/ /\ ~Free(tx[t].w, t) /\ "detect" \in SkipLocked /\ UNCHANGED owner
          /\ tx' = [tx EXCEPT ![t].pc = "begin", ![t].w = None]
    /\ UNCHANGED <<shared, data>>

RowsDone(t) ==
    /\ \/ tx[t].op = "sweep" /\ tx[t].pc = "children" /\ tx[t].seen = {}
       \/ tx[t].op = "detect" /\ tx[t].pc = "begin"
    /\ tx' = [tx EXCEPT ![t].pc = "end"]
    /\ UNCHANGED <<owner, shared, data>>

-----------------------------------------------------------------------------
Writes(J, s, l) ==
    /\ status' = [ j \in Job |-> IF j \in J THEN s ELSE status[j] ]
    /\ lease' = [ j \in Job |-> IF j \in J THEN l ELSE lease[j] ]

(* The rows that a transaction at its end writes, Admission standing for   *)
(* the rows admitted.  A claim writes an attempt of its worker's slot; the *)
(* detector may judge any worker that it got.                              *)
Written(t) ==
    IF tx[t].pc # "end" THEN {} ELSE
    CASE tx[t].op = "touch"                                       -> {tx[t].w}
      [] tx[t].op = "claim" /\ tx[t].j # None                     -> {tx[t].w, tx[t].j}
      [] tx[t].op \in {"renew", "finish", "cancel"} /\ tx[t].may  -> {tx[t].j}
      [] tx[t].op = "admit" /\ tx[t].may                          -> {Admission}
      [] tx[t].op = "sweep"                                       -> tx[t].due \cup tx[t].blocked
      [] tx[t].op = "detect"                                      -> tx[t].read
      [] OTHER                                                    -> {}

(* The transaction makes its writes and commits. *)
Commit(t) ==
    /\ tx[t].op # "none" /\ tx[t].pc = "end"
    /\ CASE tx[t].op = "claim"                    -> Writes({tx[t].j} \ {None}, "held", "lasts")
         [] tx[t].op = "renew" /\ tx[t].may       -> Writes({tx[t].j}, "held", "lasts")
         [] tx[t].op = "finish" /\ tx[t].may      ->
                \E s \in {"ended", "waiting"} : Writes({tx[t].j}, s, "none")
         [] tx[t].op = "cancel" /\ tx[t].may      -> Writes({tx[t].j}, "ended", "none")
         [] tx[t].op = "sweep"                    ->
                \E J \in SUBSET tx[t].due :       \* those with no try left
                    /\ status' = [ j \in Job |-> IF j \in J \cup tx[t].blocked THEN "ended" ELSE
                                                 IF j \in tx[t].due THEN "waiting" ELSE status[j] ]
                    /\ lease' = [ j \in Job |-> IF j \in tx[t].due THEN "none" ELSE lease[j] ]
         [] OTHER                                 -> UNCHANGED data
    /\ Release(t)

(* lock_timeout, a lost connection, a crash of the coordinator. *)
Rollback(t) == tx[t].op # "none" /\ Release(t) /\ UNCHANGED data

LeaseLapses(j) ==
    /\ lease[j] = "lasts"
    /\ lease' = [lease EXCEPT ![j] = "over"]
    /\ UNCHANGED <<tx, owner, shared, status>>

-----------------------------------------------------------------------------
Init ==
    /\ tx = [t \in Tx |-> NoTx]
    /\ owner = [r \in Row |-> None] /\ shared = [r \in Row |-> {}]
    /\ status = [j \in Job |-> "waiting"] /\ lease = [j \in Job |-> "none"]

Next ==
    \/ \E t \in Tx :
        \/ Ask(t) \/ LockWorker(t) \/ ChooseJob(t) \/ LockJob(t)
        \/ LockAdmission(t) \/ CountQueue(t) \/ ShareParent(t) \/ BeginSweep(t)
        \/ \E j \in Job : SweepRow(t, j) \/ Recheck(t, j) \/ SweepChild(t, j)
        \/ LoopOver(t) \/ FindChildren(t)
        \/ \E w \in Worker : VisitWorker(t, w)
        \/ DetectRow(t) \/ RowsDone(t) \/ Commit(t) \/ Rollback(t)
    \/ \E j \in Job : LeaseLapses(j)

Spec == Init /\ [][Next]_vars

-----------------------------------------------------------------------------
(* The transactions t waits for. *)
WaitsFor(t) ==
    LET r == Wanted(t)
    IN  IF r = None THEN {} ELSE
        IF tx[t].op = "admit" THEN {owner[r]} \ {None, t}
                              ELSE ({owner[r]} \cup shared[r]) \ {None, t}

(* No transactions wait for each other in a circle: in every set of them   *)
(* one waits for none of the set (worker before job, SKIP LOCKED in the    *)
(* sweeps and in claim, nothing waited for once a job is held).            *)
NoWaitCycle == \A T \in (SUBSET Tx) \ {{}} : \E t \in T : WaitsFor(t) \cap T = {}

(* What a transaction decided on still holds when it commits: a claimed    *)
(* or cancelled job still waits, a reported one is still held by its       *)
(* attempt, no two claims have one job, and a sweep fails only work that   *)
(* is held and cancels only children that wait.                            *)
DecisionStands ==
    \A t \in Tx : tx[t].pc = "end" =>
        /\ (tx[t].op = "claim" /\ tx[t].j # None) \/ (tx[t].op = "cancel" /\ tx[t].may)
                => status[tx[t].j] = "waiting"
        /\ tx[t].op \in {"renew", "finish"} /\ tx[t].may => status[tx[t].j] = "held"
        /\ \A u \in Tx \ {t} :
                tx[t].op = "claim" /\ tx[u].op = "claim" /\ tx[t].j # None => tx[u].j # tx[t].j
        /\ \A j \in tx[t].due : status[j] = "held"
        /\ \A j \in tx[t].blocked : status[j] = "waiting"

(* What a transaction is about to write, no other one has read and still   *)
(* goes by: the session that identity compared, the slot and state that    *)
(* claim saw, the last_seen the detector judges by, the queue that admit   *)
(* counted, and the job that a report, a cancellation or a sweep looked    *)
(* at.                                                                     *)
ReadsStayCurrent ==
    \A t, u \in Tx : t # u => Written(t) \cap tx[u].read = {}

(* A sweep takes a lease only when it is over as it commits: neither a     *)
(* renewal that commits between its query and its loop, nor one that was   *)
(* decided before the lease ran out and commits after the loop looked, can *)
(* lose a lease that lasts (recover_jobs).                                 *)
SweepTakesOnlyLapsed ==
    [][ \A t \in Tx : tx[t].op = "sweep" /\ tx'[t].op = "none" =>
            \A j \in Job : status[j] = "held" /\ status'[j] # "held" => lease[j] = "over" ]_vars
=============================================================================
