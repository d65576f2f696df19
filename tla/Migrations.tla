----------------------------- MODULE Migrations -----------------------------
(***************************************************************************)
(* The schema migrations (migrations/versions), run by an operator while   *)
(* there is work in the tables.  A command runs revision after revision in *)
(* one transaction (migrations/env.py) and is abandoned as a whole when a  *)
(* revision refuses or waits 10 s for a lock.                              *)
(*                                                                         *)
(* Versions: 0 nothing, 1 5cb4bac13ed5 (v0.1), 2 4c3b17726280,             *)
(* 3 7d2e9a41c0b8, 4 b8f1c3a7d952.  Only columns that a migration computes *)
(* or tests, or that the queue's ownership rests on, are kept; a column    *)
(* the version lacks is None.                                              *)
(***************************************************************************)
EXTENDS Naturals, FiniteSets

CONSTANTS
    MaxJobs, MaxAttempts,   \* bounds: how many rows are ever inserted
    WorkerId, Slot, None,
    Retries,    \* the max_retries clients ask for
    Target      \* the versions the operator asks for

Head == 4

(* Keys are random and serve as names only; rows are numbered instead. *)
JobId == 1 .. MaxJobs
AttemptId == 1 .. MaxAttempts

ASSUME MigrationAssumption ==
    /\ 0 \in Slot /\ MaxJobs \in Nat \ {0} /\ MaxAttempts \in Nat \ {0} /\ Retries \subseteq Nat
    /\ Head \in Target /\ Target \subseteq 0 .. Head

VARIABLES
    version,    \* alembic_version, as the transaction sees it
    jobs, attempts, workers,
    check,      \* the statuses that jobs_status_check admits
    wide,       \* ids of events or system_events, or a sequence, exceed 2^31 - 1
    tx          \* the running command: its target, what a rollback restores, how it began

tables == <<version, jobs, attempts, workers, check, wide>>
vars == <<tables, tx>>

OldStatus == {"QUEUED", "LEASED", "RUNNING", "SUCCEEDED", "FAILED", "CANCELLED"}
NewStatus == {"RETRY_WAIT", "DEAD_LETTER"}
Waiting == {"QUEUED", "RETRY_WAIT"}
Held == {"LEASED", "RUNNING"}

Unfinished == { a \in DOMAIN attempts : ~attempts[a].finished }
AttemptsOf(j) == { a \in DOMAIN attempts : attempts[a].job = j }

Empty == [x \in {} |-> None]
Put(table, key, row) == [ k \in DOMAIN table \cup {key} |-> IF k = key THEN row ELSE table[k] ]

Content ==
    [ version |-> version, jobs |-> jobs, attempts |-> attempts, workers |-> workers,
      check |-> check, wide |-> wide ]

Restore(content) ==
    /\ version' = content.version /\ jobs' = content.jobs /\ attempts' = content.attempts
    /\ workers' = content.workers /\ check' = content.check /\ wide' = content.wide

-----------------------------------------------------------------------------
(***************************************************************************)
(* A command.  The program is in service at the head version only.  The    *)
(* first revision down from there begins by dropping an index of workers   *)
(* and one of jobs: the ACCESS EXCLUSIVE locks it takes for that are kept  *)
(* to the end, and every handler and the sweep need one of the two tables. *)
(* So while a command runs the program waits.                              *)
(***************************************************************************)
Running == tx # None

Command(target) ==
    /\ ~Running /\ target # version
    /\ tx' = [target |-> target, undo |-> Content, began |-> Content]
    /\ UNCHANGED tables

Commit ==
    /\ Running /\ version = tx.target
    /\ tx' = None
    /\ UNCHANGED tables

(* A revision refuses, or a lock is not granted in time. *)
Abandon ==
    /\ Running
    /\ Restore(tx.undo)
    /\ tx' = None

(* Mutant: every revision is committed when it is done. *)
ReachesAndCommits(v) ==
    /\ version' = v
    /\ tx' = [tx EXCEPT !.undo =
                [ version |-> v, jobs |-> jobs', attempts |-> attempts', workers |-> workers',
                  check |-> check', wide |-> wide' ]]

(* The end of a revision. *)
Reaches(v) == version' = v /\ UNCHANGED tx

Ascending(v) == Running /\ version = v /\ tx.target > v
Descending(v) == Running /\ version = v /\ tx.target < v

-----------------------------------------------------------------------------
(* 5cb4bac13ed5 *)
CreateTables ==
    /\ Ascending(0)
    /\ jobs' = Empty /\ attempts' = Empty /\ workers' = Empty
    /\ check' = OldStatus /\ wide' = FALSE
    /\ Reaches(1)

DropTables ==
    /\ Descending(1)
    /\ jobs' = Empty /\ attempts' = Empty /\ workers' = Empty
    /\ check' = {} /\ wide' = FALSE
    /\ Reaches(0)

-----------------------------------------------------------------------------
(* 4c3b17726280.  Columns are added with their server defaults; a lease    *)
(* that v0.1 gave ends now.  Then attempt_count and outcome are computed.  *)

NewJobRow(row, count) == [row EXCEPT !.attempt_count = count, !.max_retries = 0]

NewAttemptRow(a) ==
    [a EXCEPT !.slot = 0, !.fence = 1, !.lease = "over",
              !.outcome = IF a.finished THEN jobs[a.job].status ELSE None]

NewWorkerRow(row) == [row EXCEPT !.state = "HEALTHY"]

(* Mutant: the historical attempts are not counted. *)
AddLeasesUncounted ==
    /\ Ascending(1)
    /\ jobs' = [ j \in DOMAIN jobs |-> NewJobRow(jobs[j], 0) ]
    /\ attempts' = [ a \in DOMAIN attempts |-> NewAttemptRow(attempts[a]) ]
    /\ workers' = [ w \in DOMAIN workers |-> NewWorkerRow(workers[w]) ]
    /\ check' = OldStatus \cup NewStatus
    /\ UNCHANGED wide
    /\ Reaches(2)

(* Mutant: jobs_status_check is left as it was. *)
AddLeasesUnchecked ==
    /\ Ascending(1)
    /\ jobs' = [ j \in DOMAIN jobs |-> NewJobRow(jobs[j], Cardinality(AttemptsOf(j))) ]
    /\ attempts' = [ a \in DOMAIN attempts |-> NewAttemptRow(attempts[a]) ]
    /\ workers' = [ w \in DOMAIN workers |-> NewWorkerRow(workers[w]) ]
    /\ UNCHANGED <<check, wide>>
    /\ Reaches(2)

AddLeases ==
    /\ Ascending(1)
    /\ jobs' = [ j \in DOMAIN jobs |-> NewJobRow(jobs[j], Cardinality(AttemptsOf(j))) ]
    /\ attempts' = [ a \in DOMAIN attempts |-> NewAttemptRow(attempts[a]) ]
    /\ workers' = [ w \in DOMAIN workers |-> NewWorkerRow(workers[w]) ]
    /\ check' = OldStatus \cup NewStatus
    /\ UNCHANGED wide
    /\ Reaches(2)

(* The three refusals; the third is implied by the first. *)
AtRest ==
    /\ Unfinished = {}
    /\ \A j \in DOMAIN jobs : jobs[j].status \notin NewStatus
    /\ \A a, b \in Unfinished : attempts[a].worker = attempts[b].worker => a = b

DropLeases ==
    /\ Descending(2)
    /\ AtRest
    /\ jobs' = [ j \in DOMAIN jobs |->
                    [jobs[j] EXCEPT !.attempt_count = None, !.max_retries = None] ]
    /\ attempts' = [ a \in DOMAIN attempts |->
                        [attempts[a] EXCEPT !.slot = None, !.fence = None, !.lease = None,
                                            !.outcome = None] ]
    /\ workers' = [ w \in DOMAIN workers |-> [workers[w] EXCEPT !.state = None] ]
    /\ check' = OldStatus
    /\ UNCHANGED wide
    /\ Reaches(1)

-----------------------------------------------------------------------------
(* 7d2e9a41c0b8: indexes, and wide ids, which do not fit back. *)
WidenIds ==
    /\ Ascending(2)
    /\ UNCHANGED <<jobs, attempts, workers, check, wide>>
    /\ Reaches(3)

NarrowIds ==
    /\ Descending(3) /\ ~wide
    /\ UNCHANGED <<jobs, attempts, workers, check, wide>>
    /\ Reaches(2)

-----------------------------------------------------------------------------
(* b8f1c3a7d952 *)

(* Mutant: workers that are DRAINING are not marked. *)
AddDrainIntentUnset ==
    /\ Ascending(3)
    /\ workers' = [ w \in DOMAIN workers |-> [workers[w] EXCEPT !.drain_requested = FALSE] ]
    /\ UNCHANGED <<jobs, attempts, check, wide>>
    /\ Reaches(4)

AddDrainIntent ==
    /\ Ascending(3)
    /\ workers' = [ w \in DOMAIN workers |->
                        [workers[w] EXCEPT !.drain_requested = (workers[w].state = "DRAINING")] ]
    /\ UNCHANGED <<jobs, attempts, check, wide>>
    /\ Reaches(4)

DropDrainIntent ==
    /\ Descending(4)
    /\ workers' = [ w \in DOMAIN workers |-> [workers[w] EXCEPT !.drain_requested = None] ]
    /\ UNCHANGED <<jobs, attempts, check, wide>>
    /\ Reaches(3)

Revision ==
    \/ CreateTables \/ AddLeases \/ WidenIds \/ AddDrainIntent
    \/ DropDrainIntent \/ NarrowIds \/ DropLeases \/ DropTables

-----------------------------------------------------------------------------
(***************************************************************************)
(* The program at the head version, in outline (JobStore and               *)
(* WorkerRegistry have it in full).                                        *)
(***************************************************************************)
InService == version = Head /\ ~Running

(* A status the constraint does not admit fails the transaction. *)
SetStatus(j, status) ==
    /\ status \in check
    /\ jobs' = [jobs EXCEPT ![j].status = status]

Register(w) ==
    /\ InService /\ w \notin DOMAIN workers
    /\ workers' = Put(workers, w, [state |-> "HEALTHY", drain_requested |-> FALSE])
    /\ UNCHANGED <<version, jobs, attempts, check, wide, tx>>

Submit(j, retries) ==
    /\ InService /\ j = Cardinality(DOMAIN jobs) + 1
    /\ jobs' = Put(jobs, j, [status |-> "QUEUED", attempt_count |-> 0, max_retries |-> retries])
    /\ UNCHANGED <<version, attempts, workers, check, wide, tx>>

Claim(j, a, w, slot) ==
    /\ InService /\ a = Cardinality(DOMAIN attempts) + 1
    /\ workers[w].state = "HEALTHY"
    /\ \A b \in Unfinished : ~(attempts[b].worker = w /\ attempts[b].slot = slot)
    /\ jobs[j].status \in Waiting
    /\ jobs' = [jobs EXCEPT ![j].status = "LEASED", ![j].attempt_count = @ + 1]
    /\ attempts' = Put(attempts, a,
            [ job |-> j, worker |-> w, finished |-> FALSE, slot |-> slot,
              fence |-> jobs[j].attempt_count + 1, lease |-> "lasts", outcome |-> None ])
    /\ UNCHANGED <<version, workers, check, wide, tx>>

FinishAs(a, outcome) ==
    attempts' = [attempts EXCEPT ![a].finished = TRUE, ![a].outcome = outcome, ![a].lease = "over"]

(* start and finish, with an output. *)
Succeed(a) ==
    LET j == attempts[a].job
    IN  /\ InService /\ a \in Unfinished /\ attempts[a].lease = "lasts"
        /\ attempts[a].fence = jobs[j].attempt_count
        /\ SetStatus(j, "SUCCEEDED") /\ FinishAs(a, "SUCCEEDED")
        /\ UNCHANGED <<version, workers, check, wide, tx>>

Lapse(a) ==
    /\ InService /\ a \in Unfinished /\ attempts[a].lease = "lasts"
    /\ attempts' = [attempts EXCEPT ![a].lease = "over"]
    /\ UNCHANGED <<version, jobs, workers, check, wide, tx>>

Recover(a) ==
    LET j == attempts[a].job
    IN  /\ InService /\ a \in Unfinished /\ attempts[a].lease = "over"
        /\ jobs[j].status \in Held
        /\ SetStatus(j, IF jobs[j].attempt_count <= jobs[j].max_retries THEN "RETRY_WAIT"
                                                                        ELSE "DEAD_LETTER")
        /\ FinishAs(a, "LEASE_EXPIRED")
        /\ UNCHANGED <<version, workers, check, wide, tx>>

Drain(w) ==
    /\ InService /\ workers[w].state # "DEAD"
    /\ workers' = [workers EXCEPT ![w] = [state |-> "DRAINING", drain_requested |-> TRUE]]
    /\ UNCHANGED <<version, jobs, attempts, check, wide, tx>>

(* The failure detector, and the heartbeat after it. *)
FallSilent(w) ==
    /\ InService
    /\ workers' = [workers EXCEPT ![w].state = "DEAD"]
    /\ UNCHANGED <<version, jobs, attempts, check, wide, tx>>

Return(w) ==
    /\ InService /\ workers[w].state = "DEAD"
    /\ workers' = [workers EXCEPT ![w].state =
                        IF workers[w].drain_requested THEN "DRAINING" ELSE "HEALTHY"]
    /\ UNCHANGED <<version, jobs, attempts, check, wide, tx>>

(* Events accumulate without retention. *)
HistoryGrows ==
    /\ InService /\ wide' = TRUE
    /\ UNCHANGED <<version, jobs, attempts, workers, check, tx>>

Program ==
    \/ \E w \in WorkerId : Register(w)
    \/ \E j \in JobId, retries \in Retries : Submit(j, retries)
    \/ \E j \in DOMAIN jobs, a \in AttemptId, w \in DOMAIN workers, slot \in Slot :
            Claim(j, a, w, slot)
    \/ \E a \in DOMAIN attempts : Succeed(a) \/ Lapse(a) \/ Recover(a)
    \/ \E w \in DOMAIN workers : Drain(w) \/ FallSilent(w) \/ Return(w)
    \/ HistoryGrows

-----------------------------------------------------------------------------
(***************************************************************************)
(* The database is empty, or holds what v0.1 left, or what the program did *)
(* before b8f1c3a7d952.                                                    *)
(***************************************************************************)
OldJob(status) == [status |-> status, attempt_count |-> None, max_retries |-> None]

(* v0.1 tried a job once, and gave a worker one job at a time. *)
OldAttempt(j, w, status) ==
    [ job |-> j, worker |-> w, finished |-> status \notin Held,
      slot |-> None, fence |-> None, lease |-> None, outcome |-> None ]

OldTables ==
    \E w \in WorkerId, status \in OldStatus :
        /\ workers = Put(Empty, w, [state |-> None, drain_requested |-> None])
        /\ jobs = Put(Empty, 1, OldJob(status))
        /\ attempts = IF status \in {"QUEUED", "CANCELLED"} THEN Empty
                      ELSE Put(Empty, 1, OldAttempt(1, w, status))

Init ==
    /\ tx = None /\ wide = FALSE
    /\ \/ version = 0 /\ jobs = Empty /\ attempts = Empty /\ workers = Empty /\ check = {}
       \/ version = 1 /\ OldTables /\ check = OldStatus
       \/ /\ version = 3 /\ jobs = Empty /\ attempts = Empty
          /\ \E w \in WorkerId, state \in {"HEALTHY", "SUSPECT", "DEAD", "DRAINING"} :
                workers = Put(Empty, w, [state |-> state, drain_requested |-> None])
          /\ check = OldStatus \cup NewStatus

Next ==
    \/ \E target \in Target : Command(target)
    \/ Revision \/ Commit \/ Abandon
    \/ Program

Spec == Init /\ [][Next]_vars

(* Leases end, sweeps go on between commands, and a command ends.          *)
MigrationFairness ==
    /\ WF_vars(Commit \/ Abandon)
    /\ \A a \in AttemptId : SF_vars(a \in DOMAIN attempts /\ (Lapse(a) \/ Recover(a)))

FairSpec == Spec /\ MigrationFairness

-----------------------------------------------------------------------------
(* Whatever way the tables came to the head version, from v0.1 with work   *)
(* under way or through downgrades and upgrades, they are as the program   *)
(* needs them: a job is held just while one unfinished attempt with the    *)
(* newest fence holds it, slots are exclusive, and no job that may still   *)
(* run has used up its tries (the UPDATEs of 4c3b17726280).                *)
HeadOwnsWork ==
    InService =>
        /\ \A a \in Unfinished :
            LET row == jobs[attempts[a].job]
            IN  row.status \in Held /\ attempts[a].fence = row.attempt_count
        /\ \A j \in DOMAIN jobs : jobs[j].status \in Held =>
            Cardinality(AttemptsOf(j) \cap Unfinished) = 1
        /\ \A a, b \in Unfinished :
            attempts[a].worker = attempts[b].worker /\ attempts[a].slot = attempts[b].slot => a = b
        /\ \A j \in DOMAIN jobs : jobs[j].status \in Waiting =>
            Cardinality(AttemptsOf(j)) <= jobs[j].max_retries

(* A worker that was DRAINING when drain_requested was added stays drained *)
(* through silence and return: what is DRAINING is marked, and what is     *)
(* marked is DRAINING, or DEAD and DRAINING again when it returns          *)
(* (b8f1c3a7d952).                                                         *)
DrainOutlivesUpgrade ==
    InService => \A w \in DOMAIN workers :
        /\ workers[w].state = "DRAINING" => workers[w].drain_requested
        /\ workers[w].drain_requested => workers[w].state \in {"DRAINING", "DEAD"}

(* A command ends at the version that was asked for, or leaves everything  *)
(* as it was when the command began: refused or abandoned at whichever     *)
(* revision, it stops nowhere between (env.py's one transaction).          *)
NeverStranded ==
    [][ Running /\ ~Running' => version' = tx.target \/ Content' = tx.began ]_vars

(* Work that v0.1 left unfinished ends under the new recovery policy, as   *)
(* does the program's own, whatever commands are tried meanwhile, if only  *)
(* the program is back in service again and again: a downgrade that stays  *)
(* leaves the work as it is.                                               *)
OldWorkConcludes ==
    ([]<>InService) => \A a \in AttemptId :
        (InService /\ a \in Unfinished) ~> (a \in DOMAIN attempts => attempts[a].finished)

(* docs/persistence.md:12 says of 7d2e9a41c0b8 and b8f1c3a7d952 that "Both *)
(* downgrades refuse to lose data they cannot represent": when a downgrade *)
(* has taken drain_requested away, the state that is left still tells each *)
(* worker that was told to drain.                                          *)
DowngradeKeepsDrain ==
    [][ Running /\ ~Running' /\ tx.undo.version = Head /\ version' \in {2, 3} =>
            \A w \in DOMAIN workers' :
                tx.undo.workers[w].drain_requested => workers'[w].state = "DRAINING" ]_vars
=============================================================================
