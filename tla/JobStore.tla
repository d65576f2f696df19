------------------------------ MODULE JobStore ------------------------------
(***************************************************************************)
(* The job tables of GreyQueue and every transaction that writes them:     *)
(* admission, claim, start, renew, finish and cancel (service.py) and the  *)
(* recovery sweep each coordinator runs (recovery.recover_jobs).           *)
(*                                                                         *)
(* One action is one committed transaction.  A request that is refused, or *)
(* that replays one already applied, leaves the tables alone, so it is a   *)
(* stuttering step.  Any number of coordinators run these transactions;    *)
(* row and advisory locks serialise the ones that meet on a row.           *)
(*                                                                         *)
(* Time is relative: a column that holds an instant is kept as the time    *)
(* left until it (or, for created_at, the time since it), and Tick lets a  *)
(* unit of database time go by.                                            *)
(***************************************************************************)
EXTENDS Lifecycle, WorkerIds, Integers, FiniteSets, Sequences

CONSTANTS
    JobId,          \* primary keys of table jobs
    ClaimId,        \* claim ids; claim_id is unique, so it names the attempt and its token
    Slot, Task,
    Key,            \* idempotency keys
    Definition,     \* what clients submit; its sha256 is the definition itself
    Output, Error,  \* completion payloads
    ExpiredError,   \* the error recovery writes: the outcome is unknown
    None,           \* SQL NULL
    LeaseSeconds,   \* config.lease_seconds
    Grace,          \* the "+ 5" of renew
    MaxBackoff,     \* the 3600 of fail_attempt
    QueueLimit, SubmissionsPerMinute,
    RateWindow,     \* the minute over which submissions are counted
    RecoverLimit    \* the LIMIT of each query of recover_jobs

(* A submission.  scheduled is the time from admission to scheduled_at.    *)
DefinitionRow ==
    [ task : Task, timeout : Nat, max_retries : Nat, retry_delay : Nat,
      retry_jitter : BOOLEAN, scheduled : Nat, depends_on : JobId \cup {None} ]

ASSUME DefinitionAssumption ==
    /\ Definition \subseteq DefinitionRow
    /\ Slot \subseteq Nat

(* How an attempt ends: by its worker's report, or by recovery. *)
Outcome == {"SUCCEEDED", "FAILED", "LEASE_EXPIRED"}

ASSUME PayloadAssumption ==
    /\ Output \cap Error = {}
    /\ ExpiredError \notin Output
    /\ None \notin JobId \cup Key \cup Output \cup Error \cup {ExpiredError} \cup Outcome

ASSUME TimingAssumption ==
    /\ LeaseSeconds \in Nat \ {0}
    /\ Grace \in Nat \ {0}
    /\ MaxBackoff \in Nat
    /\ RateWindow \in Nat

ASSUME LimitAssumption ==
    /\ QueueLimit \in Nat \ {0}
    /\ SubmissionsPerMinute \in Nat \ {0}
    /\ RecoverLimit \in Nat \ {0}

VARIABLES
    jobs,       \* job id   -> row of table jobs
    attempts,   \* claim id -> row of table attempts
    results,    \* job id   -> the output or error of table results
    events      \* job id   -> the states table events lists for it, oldest first

vars == <<jobs, attempts, results, events>>

(***************************************************************************)
(* Rows.  wait is available_at - now, lease is expires_at - now and cap is *)
(* started_at + timeout + 5 - now, each stopping at 0; age is              *)
(* now - created_at, stopping just past the rate window.                   *)
(***************************************************************************)
JobRow ==
    [ status : STATUSES, attempt_count : Nat, wait : Nat, age : 0 .. (RateWindow + 1),
      key : Key \cup {None}, def : Definition ]

AttemptRow ==
    [ job : JobId, worker : WorkerId, slot : Slot, fence : Nat \ {0},
      started : BOOLEAN, lease : Nat, cap : Nat,
      outcome : Outcome \cup {None},                       \* None: finished_at IS NULL
      body : Output \cup Error \cup {ExpiredError, None} ]

TypeOK ==
    /\ DOMAIN jobs \subseteq JobId
    /\ jobs \in [DOMAIN jobs -> JobRow]
    /\ DOMAIN attempts \subseteq ClaimId
    /\ attempts \in [DOMAIN attempts -> AttemptRow]
    /\ \A c \in DOMAIN attempts : attempts[c].job \in DOMAIN jobs     \* the foreign key
    /\ DOMAIN results \subseteq DOMAIN jobs
    /\ results \in [DOMAIN results -> Output \cup Error \cup {ExpiredError}]
    /\ events \in [DOMAIN jobs -> Seq(STATUSES \cup {"SUBMITTED"})]

-----------------------------------------------------------------------------
(* Reading and writing a table. *)

Put(table, key, row) ==
    [ k \in DOMAIN table \cup {key} |-> IF k = key THEN row ELSE table[k] ]

(* service.transition, once it is Allowed: the row moves on and an event   *)
(* is added (for a batch S of jobs, to each job's status).                 *)
Moved(row, status) == [row EXCEPT !.status = status]

(* Mutant: a sweep sets the status itself and adds no event. *)
LogNothing(log, S, status) == log

Log(log, S, status) ==
    [ j \in DOMAIN log |-> IF j \in S THEN Append(log[j], status[j]) ELSE log[j] ]

Smaller(a, b) == IF a <= b THEN a ELSE b

Down(t) == IF t = 0 THEN 0 ELSE t - 1

Finished(a) == a.outcome # None

Expired(a) == a.lease = 0

Unfinished == { c \in DOMAIN attempts : ~Finished(attempts[c]) }

-----------------------------------------------------------------------------
(***************************************************************************)
(* service.admit.  The advisory lock makes the whole of it one step.       *)
(***************************************************************************)

(* Mutant: jobs that a worker holds are not counted against the queue. *)
RoomToAdmitCountingWaiting ==
    /\ Cardinality({ j \in DOMAIN jobs : jobs[j].status \in Waiting }) < QueueLimit
    /\ Cardinality({ j \in DOMAIN jobs : jobs[j].age <= RateWindow }) < SubmissionsPerMinute

(* Mutant: jobs that ended within the window are not counted against the rate. *)
RoomToAdmitCountingActive ==
    /\ Cardinality({ j \in DOMAIN jobs : jobs[j].status \in ACTIVE }) < QueueLimit
    /\ Cardinality({ j \in DOMAIN jobs : jobs[j].age <= RateWindow /\ jobs[j].status \in ACTIVE })
            < SubmissionsPerMinute

RoomToAdmit ==
    /\ Cardinality({ j \in DOMAIN jobs : jobs[j].status \in ACTIVE }) < QueueLimit
    /\ Cardinality({ j \in DOMAIN jobs : jobs[j].age <= RateWindow }) < SubmissionsPerMinute

(* Mutant: the key of a job that has ended is free again. *)
KeyUsedByActive(key) == key # None /\ \E j \in DOMAIN jobs :
    jobs[j].key = key /\ jobs[j].status \in ACTIVE

KeyUsed(key) == key # None /\ \E j \in DOMAIN jobs : jobs[j].key = key

ParentAcceptable(parent) ==
    parent # None =>
        /\ parent \in DOMAIN jobs
        /\ jobs[parent].status \notin Unsuccessful

(* Mutant: admission leaves the two events to somebody else. *)
AdmitUnlogged(j, key, def) ==
    /\ j \notin DOMAIN jobs /\ ~KeyUsed(key) /\ RoomToAdmit /\ ParentAcceptable(def.depends_on)
    /\ jobs' = Put(jobs, j, [ status |-> "QUEUED", attempt_count |-> 0,
                              wait |-> def.scheduled, age |-> 0,
                              key |-> key, def |-> def ])
    /\ UNCHANGED <<attempts, results, events>>

Admit(j, key, def) ==
    /\ j \notin DOMAIN jobs                 \* uuid4 returns a new id
    /\ ~KeyUsed(key)                        \* else the replay, or Conflict
    /\ RoomToAdmit                          \* else Saturated
    /\ ParentAcceptable(def.depends_on)     \* else Invalid or Conflict
    /\ jobs' = Put(jobs, j, [ status |-> "QUEUED", attempt_count |-> 0,
                              wait |-> def.scheduled, age |-> 0,
                              key |-> key, def |-> def ])
    /\ events' = Put(events, j, <<"SUBMITTED", "QUEUED">>)
    /\ UNCHANGED <<attempts, results>>

-----------------------------------------------------------------------------
(***************************************************************************)
(* service.claim and the scheduler's query, for a worker that is HEALTHY,  *)
(* has the slot and runs the tasks in capabilities.  FOR UPDATE SKIP       *)
(* LOCKED passes over the rows other transactions hold, so the order the   *)
(* query asks for does not decide which eligible job is taken.             *)
(***************************************************************************)

(* Mutant: the dependency test of the query is lost. *)
EligibleIgnoringParent(j, capabilities) ==
    /\ jobs[j].status \in Waiting
    /\ jobs[j].wait = 0
    /\ jobs[j].def.task \in capabilities

Eligible(j, capabilities) ==
    LET parent == jobs[j].def.depends_on
    IN  /\ jobs[j].status \in Waiting
        /\ jobs[j].wait = 0
        /\ jobs[j].def.task \in capabilities
        /\ parent # None => (parent \in DOMAIN jobs /\ jobs[parent].status = "SUCCEEDED")

(* Mutant: the lookup of the slot's unfinished attempt finds started ones only. *)
SlotFreeOfStarted(w, slot) ==
    \A c \in Unfinished :
        ~(attempts[c].worker = w /\ attempts[c].slot = slot /\ attempts[c].started)

SlotFree(w, slot) ==
    \A c \in Unfinished : ~(attempts[c].worker = w /\ attempts[c].slot = slot)

(* Mutant: the counter is read for the fence and not written back. *)
LeasedRowUncounted(row) == [row EXCEPT !.status = "LEASED"]

LeasedRow(row) == [row EXCEPT !.attempt_count = @ + 1, !.status = "LEASED"]

NewAttempt(w, slot, j, fence) ==
    [ job |-> j, worker |-> w, slot |-> slot, fence |-> fence, started |-> FALSE,
      lease |-> LeaseSeconds, cap |-> 0, outcome |-> None, body |-> None ]

Claim(w, slot, c, j, capabilities) ==
    /\ c \notin DOMAIN attempts             \* else the replay, or Conflict
    /\ SlotFree(w, slot)                    \* else Conflict
    /\ Eligible(j, capabilities)
    /\ Allowed(jobs[j].status, "LEASED")
    /\ jobs' = [jobs EXCEPT ![j] = LeasedRow(@)]
    /\ attempts' = Put(attempts, c, NewAttempt(w, slot, j, jobs[j].attempt_count + 1))
    /\ events' = [events EXCEPT ![j] = Append(@, "LEASED")]
    /\ UNCHANGED results

-----------------------------------------------------------------------------
(***************************************************************************)
(* service.owned: the fenced lease that start, renew and finish require.   *)
(***************************************************************************)

(* Mutant: the lease's expiry is not looked at. *)
OwnedIgnoringExpiry(w, j, c) ==
    /\ c \in DOMAIN attempts
    /\ attempts[c].job = j /\ attempts[c].worker = w
    /\ ~Finished(attempts[c])
    /\ attempts[c].fence = jobs[j].attempt_count

(* Mutant: the token is enough, whatever became of the attempt. *)
OwnedByToken(w, j, c) ==
    c \in DOMAIN attempts /\ attempts[c].job = j /\ attempts[c].worker = w

Owned(w, j, c) ==
    /\ c \in DOMAIN attempts
    /\ attempts[c].job = j /\ attempts[c].worker = w
    /\ ~Finished(attempts[c])
    /\ attempts[c].fence = jobs[j].attempt_count
    /\ ~Expired(attempts[c])

StartedAttempt(a, timeout) == [a EXCEPT !.started = TRUE, !.cap = timeout + Grace]

(* service.start; a start already made changes nothing. *)
Start(w, j, c) ==
    /\ Owned(w, j, c)
    /\ jobs[j].status = "LEASED"
    /\ Allowed(jobs[j].status, "RUNNING")
    /\ jobs' = [jobs EXCEPT ![j] = Moved(@, "RUNNING")]
    /\ attempts' = [attempts EXCEPT ![c] = StartedAttempt(@, jobs[j].def.timeout)]
    /\ events' = [events EXCEPT ![j] = Append(@, "RUNNING")]
    /\ UNCHANGED results

RenewedAttempt(a, expiry) == [a EXCEPT !.lease = expiry]

(* Mutant: a renewal always buys a whole lease. *)
RenewUncapped(w, j, c) ==
    /\ Owned(w, j, c)
    /\ attempts[c].started
    /\ attempts' = [attempts EXCEPT ![c] = RenewedAttempt(@, LeaseSeconds)]
    /\ UNCHANGED <<jobs, results, events>>

(* service.renew: never past timeout + 5 after the start, and never for an *)
(* attempt that has not started.                                           *)
Renew(w, j, c) ==
    LET expiry == Smaller(LeaseSeconds, attempts[c].cap)
    IN  /\ Owned(w, j, c)
        /\ attempts[c].started
        /\ expiry > 0
        /\ attempts' = [attempts EXCEPT ![c] = RenewedAttempt(@, expiry)]
        /\ UNCHANGED <<jobs, results, events>>

-----------------------------------------------------------------------------
(***************************************************************************)
(* service.fail_attempt, shared by finish and recovery.                    *)
(***************************************************************************)

(* Mutant: the first attempt is not counted against the budget. *)
FailedStatusOneMore(row, retryable) ==
    CASE retryable /\ row.attempt_count <= row.def.max_retries + 1 -> "RETRY_WAIT"
      [] retryable /\ row.attempt_count > row.def.max_retries + 1  -> "DEAD_LETTER"
      [] OTHER                                                     -> "FAILED"

FailedStatus(row, retryable) ==
    CASE retryable /\ row.attempt_count <= row.def.max_retries -> "RETRY_WAIT"
      [] retryable /\ row.attempt_count > row.def.max_retries  -> "DEAD_LETTER"
      [] OTHER                                                 -> "FAILED"

(* The delays the exponential backoff can draw: jitter scales it by a      *)
(* factor between 1/2 and 3/2.                                             *)
Delays(row) ==
    LET base == Smaller(row.def.retry_delay * 2 ^ (row.attempt_count - 1), MaxBackoff)
    IN  { d \in 0 .. (2 * MaxBackoff) :
            IF row.def.retry_jitter THEN base <= 2 * d /\ 2 * d <= 3 * base ELSE d = base }

FailedRow(row, retryable, delay) ==
    LET status == FailedStatus(row, retryable)
    IN  [row EXCEPT !.status = status,
                    !.wait = IF status = "RETRY_WAIT" THEN delay ELSE @]

(* The timers of a finished attempt are never read again. *)
FinishedAttempt(a, outcome, body) ==
    [a EXCEPT !.outcome = outcome, !.body = body, !.lease = 0, !.cap = 0]

-----------------------------------------------------------------------------
(***************************************************************************)
(* service.finish.  A completion carries an output or an error; only an    *)
(* error may be retryable.  A finished attempt only ever gets its          *)
(* acknowledgement again, or Conflict.                                     *)
(***************************************************************************)
FinishSucceeded(w, j, c, output) ==
    /\ Owned(w, j, c)
    /\ jobs[j].status = "RUNNING"
    /\ Allowed(jobs[j].status, "SUCCEEDED")
    /\ attempts' = [attempts EXCEPT ![c] = FinishedAttempt(@, "SUCCEEDED", output)]
    /\ results' = Put(results, j, output)
    /\ jobs' = [jobs EXCEPT ![j] = Moved(@, "SUCCEEDED")]
    /\ events' = [events EXCEPT ![j] = Append(@, "SUCCEEDED")]

FinishFailed(w, j, c, error, retryable, delay) ==
    LET status == FailedStatus(jobs[j], retryable)
    IN  /\ Owned(w, j, c)
        /\ jobs[j].status = "RUNNING"
        /\ Allowed(jobs[j].status, status)
        /\ delay \in Delays(jobs[j])
        /\ attempts' = [attempts EXCEPT ![c] = FinishedAttempt(@, "FAILED", error)]
        /\ jobs' = [jobs EXCEPT ![j] = FailedRow(@, retryable, delay)]
        /\ results' = IF status = "RETRY_WAIT" THEN results ELSE Put(results, j, error)
        /\ events' = [events EXCEPT ![j] = Append(@, status)]

(* Mutant: a job whose attempt runs is cancelled too. *)
CancelActive(j) ==
    /\ j \in DOMAIN jobs
    /\ jobs[j].status \in ACTIVE
    /\ jobs' = [jobs EXCEPT ![j] = Moved(@, "CANCELLED")]
    /\ events' = [events EXCEPT ![j] = Append(@, "CANCELLED")]
    /\ UNCHANGED <<attempts, results>>

(* service.cancel *)
Cancel(j) ==
    /\ j \in DOMAIN jobs
    /\ jobs[j].status \in Waiting
    /\ Allowed(jobs[j].status, "CANCELLED")
    /\ jobs' = [jobs EXCEPT ![j] = Moved(@, "CANCELLED")]
    /\ events' = [events EXCEPT ![j] = Append(@, "CANCELLED")]
    /\ UNCHANGED <<attempts, results>>

-----------------------------------------------------------------------------
(***************************************************************************)
(* recovery.recover_jobs: one transaction expires a batch E of leases and  *)
(* then cancels a batch B of the waiting children of parents that did not  *)
(* succeed, those that this same sweep has just given up included.  Both   *)
(* queries skip locked rows, so a batch is any part of what qualifies.     *)
(***************************************************************************)

(* Mutant: leases are taken back without a look at their expiry. *)
ExpirableAtOnce ==
    { c \in Unfinished : jobs[attempts[c].job].status \in Held }

Expirable ==
    { c \in Unfinished : Expired(attempts[c]) /\ jobs[attempts[c].job].status \in Held }

(* Mutant: the children of a cancelled parent are forgotten. *)
BlockedByFailureOnly(table) ==
    { j \in DOMAIN table :
        LET parent == table[j].def.depends_on
        IN  /\ table[j].status \in Waiting
            /\ parent \in DOMAIN table
            /\ table[parent].status \in {"FAILED", "DEAD_LETTER"} }

Blocked(table) ==
    { j \in DOMAIN table :
        LET parent == table[j].def.depends_on
        IN  /\ table[j].status \in Waiting
            /\ parent \in DOMAIN table
            /\ table[parent].status \in Unsuccessful }

(* The jobs that the leases in E hold. *)
JobsOf(E) == { attempts[c].job : c \in E }

(* Mutant: an attempt whose worker was lost is not charged to the job. *)
ExpiredRowRefunded(row, delay) == [FailedRow(row, TRUE, delay) EXCEPT !.attempt_count = @ - 1]

ExpiredRow(row, delay) == FailedRow(row, TRUE, delay)

(* The tables after the first half of the sweep. *)
ExpiredJobs(E, delay) ==
    [ j \in DOMAIN jobs |->
        IF j \in JobsOf(E) THEN ExpiredRow(jobs[j], delay[j]) ELSE jobs[j] ]

(* Mutant: recovery gives a job up without writing its result. *)
ExpiredResultsForgotten(E) == results

ExpiredResults(E) ==
    LET dead == { j \in JobsOf(E) : ExpiredRow(jobs[j], 0).status = "DEAD_LETTER" }
    IN  [ j \in DOMAIN results \cup dead |-> IF j \in dead THEN ExpiredError ELSE results[j] ]

RecoverJobs(E, B, delay) ==
    LET mid == ExpiredJobs(E, delay)
    IN  /\ E \subseteq Expirable /\ Cardinality(E) <= RecoverLimit
        /\ \A j \in JobsOf(E) : delay[j] \in Delays(jobs[j])
        /\ \A j \in JobsOf(E) : Allowed(jobs[j].status, mid[j].status)
        /\ B \subseteq Blocked(mid) /\ Cardinality(B) <= RecoverLimit
        /\ \A j \in B : Allowed(mid[j].status, "CANCELLED")
        /\ jobs' = [ j \in DOMAIN jobs |->
                        IF j \in B THEN Moved(mid[j], "CANCELLED") ELSE mid[j] ]
        /\ attempts' = [ c \in DOMAIN attempts |->
                            IF c \in E
                            THEN FinishedAttempt(attempts[c], "LEASE_EXPIRED", ExpiredError)
                            ELSE attempts[c] ]
        /\ results' = ExpiredResults(E)
        /\ events' = Log(Log(events, JobsOf(E), [j \in JobsOf(E) |-> mid[j].status]),
                         B, [j \in B |-> "CANCELLED"])

-----------------------------------------------------------------------------
OlderRow(row) == [row EXCEPT !.wait = Down(@), !.age = Smaller(@ + 1, RateWindow + 1)]

OlderAttempt(a) == [a EXCEPT !.lease = Down(@), !.cap = Down(@)]

(* A unit of time by PostgreSQL's clock_timestamp(), the only clock read.  *)
Tick ==
    /\ jobs' = [ j \in DOMAIN jobs |-> OlderRow(jobs[j]) ]
    /\ attempts' = [ c \in DOMAIN attempts |-> OlderAttempt(attempts[c]) ]
    /\ UNCHANGED <<results, events>>

-----------------------------------------------------------------------------
Empty == [x \in {} |-> None]

Init == jobs = Empty /\ attempts = Empty /\ results = Empty /\ events = Empty

RecoverSome(E, B) ==
    \E delay \in [JobsOf(E) -> 0 .. (2 * MaxBackoff)] : RecoverJobs(E, B, delay)

AdmitAny == \E j \in JobId, key \in Key \cup {None}, def \in Definition : Admit(j, key, def)

ClaimFor(j) ==
    \E w \in WorkerId, slot \in Slot, c \in ClaimId, capabilities \in SUBSET Task :
        j \in DOMAIN jobs /\ Claim(w, slot, c, j, capabilities)

Report(w, j, c) ==
    \/ Start(w, j, c)
    \/ Renew(w, j, c)
    \/ \E output \in Output : FinishSucceeded(w, j, c, output)
    \/ \E error \in Error, retryable \in BOOLEAN, delay \in 0 .. (2 * MaxBackoff) :
            FinishFailed(w, j, c, error, retryable, delay)

Next ==
    \/ AdmitAny
    \/ \E j \in JobId : ClaimFor(j)
    \/ \E w \in WorkerId, j \in DOMAIN jobs, c \in DOMAIN attempts : Report(w, j, c)
    \/ \E j \in JobId : Cancel(j)
    \/ \E E \in SUBSET Expirable, B \in SUBSET DOMAIN jobs : RecoverSome(E, B)
    \/ Tick

Spec == Init /\ [][Next]_vars

-----------------------------------------------------------------------------
(***************************************************************************)
(* Safety.                                                                 *)
(***************************************************************************)

(* An unfinished attempt has its job's newest fence, and the job is        *)
(* RUNNING or LEASED as the attempt has started or not.                    *)
NewestHolds ==
    \A c \in Unfinished :
        LET row == jobs[attempts[c].job]
        IN  /\ attempts[c].fence = row.attempt_count
            /\ row.status = IF attempts[c].started THEN "RUNNING" ELSE "LEASED"

HeldHasHolder ==
    \A j \in DOMAIN jobs :
        jobs[j].status \in Held => \E c \in Unfinished : attempts[c].job = j

(* A job is LEASED or RUNNING exactly while one unfinished attempt holds   *)
(* it, the newest (claim, start, owned, fail_attempt, recover_jobs).       *)
Ownership == NewestHolds /\ HeldHasHolder

FencesUnique ==
    \A c, d \in DOMAIN attempts :
        attempts[c].job = attempts[d].job /\ attempts[c].fence = attempts[d].fence => c = d

FencesOf(j) == { attempts[c].fence : c \in { d \in DOMAIN attempts : attempts[d].job = j } }

FencesFill == \A j \in DOMAIN jobs : FencesOf(j) = 1 .. jobs[j].attempt_count

(* The fences of a job's attempts are 1 .. attempt_count, each once, so a  *)
(* late call of an earlier attempt can always be told from the newest one. *)
FenceHistory == FencesUnique /\ FencesFill

(* A job is handed out at most max_retries + 1 times, and waits for a      *)
(* retry only while one is left (fail_attempt's comparison).               *)
RetryBudget ==
    \A j \in DOMAIN jobs :
        /\ jobs[j].attempt_count <= jobs[j].def.max_retries + 1
        /\ jobs[j].status \in Waiting => jobs[j].attempt_count <= jobs[j].def.max_retries
        /\ jobs[j].status = "DEAD_LETTER" => jobs[j].attempt_count = jobs[j].def.max_retries + 1

(* A worker's slot never holds two unfinished attempts: claim never runs   *)
(* into the unique index ix_attempt_active_slot.                           *)
SlotExclusive ==
    \A c, d \in Unfinished :
        attempts[c].worker = attempts[d].worker /\ attempts[c].slot = attempts[d].slot => c = d

(* The result a client reads is that of the newest attempt, whose outcome  *)
(* agrees with the job's final state, and a job has one exactly when an    *)
(* attempt ended it (finish, fail_attempt).                                *)
ResultIsLastWord ==
    /\ DOMAIN results =
        { j \in DOMAIN jobs : jobs[j].status \in {"SUCCEEDED", "FAILED", "DEAD_LETTER"} }
    /\ \A j \in DOMAIN results : \E c \in DOMAIN attempts :
        /\ attempts[c].job = j
        /\ attempts[c].fence = jobs[j].attempt_count
        /\ Finished(attempts[c])
        /\ attempts[c].body = results[j]
        /\ attempts[c].outcome = "SUCCEEDED" <=> jobs[j].status = "SUCCEEDED"
        /\ jobs[j].status = "FAILED" => attempts[c].outcome = "FAILED"

(* An attempt of a dependent job exists only when its parent succeeded,    *)
(* and stays so: the claim reads the parent without locking it.            *)
DependencyRespected ==
    \A j \in DOMAIN jobs :
        LET parent == jobs[j].def.depends_on
        IN  parent # None =>
                /\ parent \in DOMAIN jobs
                /\ jobs[j].attempt_count > 0 => jobs[parent].status = "SUCCEEDED"

(* However many coordinators admit at once, a key admits one job (admit).  *)
KeyAdmitsOnce ==
    \A i, j \in DOMAIN jobs : jobs[i].key = jobs[j].key /\ jobs[i].key # None => i = j

(* The queue limit holds although retries come back without admission.     *)
QueueBounded ==
    Cardinality({ j \in DOMAIN jobs : jobs[j].status \in ACTIVE }) <= QueueLimit

(* No window of RateWindow ever admits more than the configured number.    *)
RateBounded ==
    Cardinality({ j \in DOMAIN jobs : jobs[j].age <= RateWindow }) <= SubmissionsPerMinute

(* Table events tells each job's story: SUBMITTED, QUEUED, then only legal *)
(* transitions up to its status, with one LEASED for every attempt.        *)
AuditTrail ==
    \A j \in DOMAIN jobs :
        LET log == events[j]
        IN  /\ Len(log) >= 2 /\ log[1] = "SUBMITTED" /\ log[2] = "QUEUED"
            /\ \A i \in 2 .. (Len(log) - 1) : Allowed(log[i], log[i + 1])
            /\ log[Len(log)] = jobs[j].status
            /\ Cardinality({ i \in DOMAIN log : log[i] = "LEASED" }) = jobs[j].attempt_count

(***************************************************************************)
(* Action properties.                                                      *)
(***************************************************************************)

(* While a lease lasts nobody but its worker ends the attempt, and once it *)
(* is over no completion by that worker is taken (owned, recover_jobs).    *)
LeaseDecides ==
    [][ \A c \in DOMAIN attempts :
            ~Finished(attempts[c]) /\ Finished(attempts[c])' =>
                (Expired(attempts[c]) <=> attempts'[c].outcome = "LEASE_EXPIRED") ]_vars

(* What is finished stays as it was: no late, repeated or reordered call   *)
(* moves a terminal job, rewrites a result or touches a finished attempt.  *)
HistoryIsFinal ==
    [][ /\ \A j \in DOMAIN jobs : jobs[j].status \in TERMINAL =>
            /\ jobs'[j].status = jobs[j].status
            /\ jobs'[j].attempt_count = jobs[j].attempt_count
        /\ \A j \in DOMAIN results : j \in DOMAIN results' /\ results'[j] = results[j]
        /\ \A c \in DOMAIN attempts : Finished(attempts[c]) =>
            c \in DOMAIN attempts' /\ attempts'[c] = attempts[c] ]_vars

(***************************************************************************)
(* Liveness.  Time goes on; every coordinator's maintenance loop sweeps    *)
(* again and again, so a lease or child that stays due is dealt with.      *)
(***************************************************************************)
SweepOf(j) ==
    \E E \in SUBSET Expirable, B \in SUBSET DOMAIN jobs :
        j \in JobsOf(E) \cup B /\ RecoverSome(E, B)

RecoveryFairness == WF_vars(Tick) /\ \A j \in JobId : WF_vars(SweepOf(j))

(* Every attempt ends, whatever its worker does: it may crash, never       *)
(* start, or renew for ever (recover_jobs, renew's cap).                   *)
AttemptEnds ==
    \A c \in ClaimId : c \in Unfinished ~> (c \in DOMAIN attempts /\ Finished(attempts[c]))

(* A child admitted while its parent could still succeed does not wait for *)
(* ever once it cannot (the sweep in recover_jobs).                        *)
BlockedChildEnds ==
    \A j \in JobId :
        (j \in DOMAIN jobs /\ \E i \in DOMAIN jobs :
            jobs[j].def.depends_on = i /\ jobs[i].status \in {"FAILED", "DEAD_LETTER", "CANCELLED"})
        ~> (j \in DOMAIN jobs /\ jobs[j].status = "CANCELLED")

(* Some worker that can run what is waiting keeps asking for work. *)
WorkersPoll == WF_vars(\E j \in JobId : ClaimFor(j))

(* If so, every admitted job reaches a terminal state: no job is lost. *)
EveryJobConcludes ==
    WorkersPoll =>
        \A j \in JobId : j \in DOMAIN jobs ~> (j \in DOMAIN jobs /\ jobs[j].status \in TERMINAL)

(***************************************************************************)
(* The promise to clients.                                                 *)
(***************************************************************************)
PhaseOf(status) ==
    CASE status \in Waiting        -> "waiting"
      [] status \in Held           -> "held"
      [] status = "SUCCEEDED"      -> "succeeded"
      [] status = "FAILED"         -> "failed"
      [] status = "DEAD_LETTER"    -> "exhausted"
      [] OTHER                     -> "withdrawn"

phaseBar == [j \in JobId |-> IF j \in DOMAIN jobs THEN PhaseOf(jobs[j].status) ELSE "absent"]
triesBar == [j \in JobId |-> IF j \in DOMAIN jobs THEN jobs[j].attempt_count ELSE 0]
budgetBar == [j \in JobId |-> IF j \in DOMAIN jobs THEN jobs[j].def.max_retries ELSE 0]
needsBar == [j \in JobId |-> IF j \in DOMAIN jobs THEN jobs[j].def.depends_on ELSE None]
answerBar == [j \in JobId |-> IF j \in DOMAIN results THEN results[j] ELSE None]

Promise == INSTANCE Delivery WITH
    Job <- JobId, Answer <- Output \cup Error \cup {ExpiredError},
    phase <- phaseBar, tries <- triesBar, budget <- budgetBar,
    needs <- needsBar, answer <- answerBar

(* The tables behave as the promise allows: every step of every handler    *)
(* and of the sweep is one of Delivery's, or changes nothing it can see.   *)
KeepsPromise == Promise!Spec

(***************************************************************************)
(* ADR 007 (docs/design-decisions.md:22) says that, as leases cannot be    *)
(* renewed before start, "the timeout-plus-five-seconds cap always bounds  *)
(* ownership": no started attempt is still owned when its cap has passed.  *)
(***************************************************************************)
CapBoundsOwnership ==
    \A c \in Unfinished : attempts[c].started /\ attempts[c].cap = 0 => Expired(attempts[c])
=============================================================================
