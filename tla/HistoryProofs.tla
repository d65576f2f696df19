---------------------------- MODULE HistoryProofs ----------------------------
(***************************************************************************)
(* What the tables say about the past, for every value of the constants:   *)
(* whose word a result is, what table events tells of a job, and how many  *)
(* jobs admission has let in.  With the external sink of EffectSink, also  *)
(* how often a job's effect has happened.                                  *)
(***************************************************************************)
EXTENDS EffectSink, DeliveryProofs, FiniteSetTheorems

(***************************************************************************)
(* Results.                                                                *)
(***************************************************************************)

(* Attempt c has had the last word on job j. *)
LastWord(j, c) ==
    /\ attempts[c].job = j
    /\ attempts[c].fence = jobs[j].attempt_count
    /\ attempts[c].outcome # None
    /\ attempts[c].body = results[j]
    /\ attempts[c].outcome = "SUCCEEDED" <=> jobs[j].status = "SUCCEEDED"
    /\ jobs[j].status = "FAILED" => attempts[c].outcome = "FAILED"

Ended(j) == \E c \in Unfinished : c \in DOMAIN attempts' /\ LastWord(j, c)'

LEMMA FinishSucceededEnds ==
    ASSUME Base, NEW w, NEW i \in DOMAIN jobs, NEW c \in DOMAIN attempts, NEW output \in Output,
           FinishSucceeded(w, i, c, output), NEW j \in DOMAIN jobs, Concluded(j)
    PROVE  Ended(j)
  <1> DEFINE a == FinishedAttempt(attempts[c], "SUCCEEDED", output)
             row == Moved(jobs[i], "SUCCEEDED")
  <1>1. /\ jobs \in [DOMAIN jobs -> JobRow] /\ jobs[i] \in JobRow
        /\ attempts \in [DOMAIN attempts -> AttemptRow] /\ attempts[c] \in AttemptRow
        /\ "SUCCEEDED" \in STATUSES /\ "SUCCEEDED" \in Outcome
    BY DEF Base, Core, TypeOK, STATUSES, Outcome
  <1>2. /\ attempts' = [attempts EXCEPT ![c] = a] /\ jobs' = [jobs EXCEPT ![i] = row]
        /\ results' = Put(results, i, output) /\ Owned(w, i, c)
    BY DEF FinishSucceeded
  <1>3. /\ a.job = attempts[c].job /\ a.fence = attempts[c].fence
        /\ a.outcome = "SUCCEEDED" /\ a.body = output
    BY <1>1, FinishedAttemptType
  <1>4. row.status = "SUCCEEDED" /\ row.attempt_count = jobs[i].attempt_count
    BY <1>1, MovedType
  <1> HIDE DEF a, row
  <1>5. j = i
    BY <1>1, <1>2 DEF Concluded, Held
  <1>6. /\ c \in Unfinished /\ attempts[c].job = i /\ attempts[c].fence = jobs[i].attempt_count
    BY <1>2 DEF Owned, Unfinished
  <1>7. c \in DOMAIN attempts' /\ attempts'[c] = a /\ jobs'[i] = row /\ results'[i] = output
    BY <1>1, <1>2 DEF Put
  <1>8. LastWord(j, c)'
    BY <1>3, <1>4, <1>5, <1>6, <1>7, PayloadAssumption DEF LastWord, Outcome
  <1> QED BY <1>6, <1>7, <1>8 DEF Ended

LEMMA FinishFailedEnds ==
    ASSUME Base, NEW w, NEW i \in DOMAIN jobs, NEW c \in DOMAIN attempts, NEW error \in Error,
           NEW retryable \in BOOLEAN, NEW delay \in Nat,
           FinishFailed(w, i, c, error, retryable, delay), NEW j \in DOMAIN jobs, Concluded(j)
    PROVE  Ended(j)
  <1> DEFINE a == FinishedAttempt(attempts[c], "FAILED", error)
             row == FailedRow(jobs[i], retryable, delay)
             status == FailedStatus(jobs[i], retryable)
  <1>1. /\ jobs \in [DOMAIN jobs -> JobRow] /\ jobs[i] \in JobRow
        /\ attempts \in [DOMAIN attempts -> AttemptRow] /\ attempts[c] \in AttemptRow
        /\ "FAILED" \in Outcome
    BY DEF Base, Core, TypeOK, Outcome
  <1>2. /\ attempts' = [attempts EXCEPT ![c] = a] /\ jobs' = [jobs EXCEPT ![i] = row]
        /\ results' = IF status = "RETRY_WAIT" THEN results ELSE Put(results, i, error)
        /\ Owned(w, i, c)
    BY DEF FinishFailed
  <1>3. /\ a.job = attempts[c].job /\ a.fence = attempts[c].fence
        /\ a.outcome = "FAILED" /\ a.body = error
    BY <1>1, FinishedAttemptType
  <1>4. /\ row.status = status /\ row.attempt_count = jobs[i].attempt_count
        /\ status \in {"RETRY_WAIT", "DEAD_LETTER", "FAILED"}
    BY <1>1, FailedRowType
  <1> HIDE DEF a, row, status
  <1>5. j = i
    BY <1>1, <1>2 DEF Concluded, Held
  <1>6. /\ c \in Unfinished /\ attempts[c].job = i /\ attempts[c].fence = jobs[i].attempt_count
    BY <1>2 DEF Owned, Unfinished
  <1>7. c \in DOMAIN attempts' /\ attempts'[c] = a /\ jobs'[i] = row
    BY <1>1, <1>2
  <1>8. status # "RETRY_WAIT"
    BY <1>4, <1>5, <1>7 DEF Concluded
  <1>9. results'[i] = error
    BY <1>2, <1>8 DEF Put
  <1>10. LastWord(j, c)'
    BY <1>3, <1>4, <1>5, <1>6, <1>7, <1>9, PayloadAssumption DEF LastWord, Outcome
  <1> QED BY <1>6, <1>7, <1>10 DEF Ended

LEMMA RecoverEnds ==
    ASSUME Base, NEW E \in SUBSET Expirable, NEW B, NEW delay \in [JobsOf(E) -> Nat],
           RecoverJobs(E, B, delay), NEW j \in DOMAIN jobs, Concluded(j)
    PROVE  Ended(j)
  <1>1. /\ TypeOK /\ Core /\ jobs \in [DOMAIN jobs -> JobRow]
        /\ attempts \in [DOMAIN attempts -> AttemptRow] /\ "LEASE_EXPIRED" \in Outcome
    BY DEF Base, Core, TypeOK, Outcome
  <1>2. j \in JobsOf(E) /\ j \notin B
    BY <1>1, RecoverEffect, SweepsApart DEF Concluded, Held
  <1>3. PICK c \in E : attempts[c].job = j
    BY <1>2 DEF JobsOf
  <1>4. c \in Unfinished /\ c \in DOMAIN attempts /\ c \in DOMAIN attempts'
        /\ attempts[c].fence = jobs[j].attempt_count
    BY <1>1, <1>3, RecoverEffect DEF Expirable, Unfinished, Core, Ownership, NewestHolds
  <1> DEFINE a == FinishedAttempt(attempts[c], "LEASE_EXPIRED", ExpiredError)
  <1>5. attempts'[c] = a
    BY <1>1, <1>3, <1>4, RecoverEffect
  <1>6. /\ a.job = attempts[c].job /\ a.fence = attempts[c].fence
        /\ a.outcome = "LEASE_EXPIRED" /\ a.body = ExpiredError
    BY <1>1, <1>4, FinishedAttemptType
  <1> HIDE DEF a
  <1>7. jobs'[j].status = ExpiredStatus(jobs[j]) /\ jobs'[j].attempt_count = jobs[j].attempt_count
    BY <1>1, <1>2, RecoverEffect
  <1>8. ExpiredStatus(jobs[j]) = "DEAD_LETTER"
    BY <1>7 DEF Concluded, ExpiredStatus
  <1>9. ExpiredRow(jobs[j], 0).status = "DEAD_LETTER"
    <2>1. jobs[j] \in JobRow /\ 0 \in Nat
      BY <1>1
    <2> QED BY <1>8, <2>1, ExpiredRowType
  <1>10. results'[j] = ExpiredError
    BY <1>2, <1>9 DEF RecoverJobs, ExpiredResults
  <1>11. LastWord(j, c)'
    BY <1>3, <1>4, <1>5, <1>6, <1>7, <1>8, <1>10, PayloadAssumption DEF LastWord, Outcome
  <1> QED BY <1>4, <1>11 DEF Ended

(* A job is concluded only by finishing the attempt that holds it. *)
LEMMA ConcludedBy ==
    ASSUME Base, [Next]_vars, NEW j \in DOMAIN jobs, Concluded(j)
    PROVE  Ended(j)
  <1>0. TypeOK /\ jobs \in [DOMAIN jobs -> JobRow] /\ jobs[j] \in JobRow
        /\ jobs[j].status \in Held /\ jobs'[j].status \notin Held \cup Waiting \cup {"CANCELLED"}
        /\ "RUNNING" \in STATUSES /\ "CANCELLED" \in STATUSES
    BY DEF Base, Core, TypeOK, Concluded, Held, Waiting, STATUSES
  <1>same. jobs'[j].status # jobs[j].status
    BY <1>0
  <1>1. CASE AdmitAny
    BY <1>1, <1>same DEF AdmitAny, Admit, Put
  <1>2. CASE \E i \in JobId : ClaimFor(i)
    <2> PICK i \in DOMAIN jobs : jobs' = [jobs EXCEPT ![i] = LeasedRow(@)]
      BY <1>2 DEF ClaimFor, Claim
    <2>1. jobs[i] \in JobRow /\ LeasedRow(jobs[i]).status = "LEASED"
      BY <1>0, LeasedRowType
    <2> QED BY <1>0, <1>same, <2>1 DEF Held
  <1>3. CASE \E w \in WorkerId, i \in DOMAIN jobs, c \in DOMAIN attempts : Report(w, i, c)
    <2> PICK w \in WorkerId, i \in DOMAIN jobs, c \in DOMAIN attempts : Report(w, i, c)
      BY <1>3
    <2>1. 0 .. (2 * MaxBackoff) \subseteq Nat
      BY TimingAssumption
    <2>2. ~Renew(w, i, c)
      BY <1>same DEF Renew
    <2>3. ~Start(w, i, c)
      <3>1. Moved(jobs[i], "RUNNING").status = "RUNNING"
        BY <1>0, MovedType
      <3> QED BY <1>0, <1>same, <3>1 DEF Start, Held
    <2> QED BY <2>1, <2>2, <2>3, FinishSucceededEnds, FinishFailedEnds DEF Report
  <1>4. CASE \E i \in JobId : Cancel(i)
    <2> PICK i \in DOMAIN jobs : jobs' = [jobs EXCEPT ![i] = Moved(@, "CANCELLED")]
      BY <1>4 DEF Cancel
    <2>1. Moved(jobs[i], "CANCELLED").status = "CANCELLED"
      BY <1>0, MovedType
    <2> QED BY <1>0, <1>same, <2>1
  <1>5. CASE \E E \in SUBSET Expirable, B \in SUBSET DOMAIN jobs : RecoverSome(E, B)
    <2> PICK E \in SUBSET Expirable, B \in SUBSET DOMAIN jobs : RecoverSome(E, B)
      BY <1>5
    <2> PICK delay \in [JobsOf(E) -> 0 .. (2 * MaxBackoff)] : RecoverJobs(E, B, delay)
      BY DEF RecoverSome
    <2>1. delay \in [JobsOf(E) -> Nat]
      BY TimingAssumption
    <2> QED BY <2>1, RecoverEnds
  <1>6. CASE Tick
    BY <1>0, <1>6, <1>same, OlderRowType DEF Tick
  <1>7. CASE UNCHANGED vars
    BY <1>7, <1>same DEF vars
  <1> QED BY <1>1, <1>2, <1>3, <1>4, <1>5, <1>6, <1>7 DEF Next

LEMMA ResultStep ==
    ASSUME Kept, TimersStopped, ResultIsLastWord, [Next]_vars
    PROVE  ResultIsLastWord'
  <1>0. Kept' /\ TypeOK /\ TypeOK' /\ Base /\ AllJobs /\ AttemptsKept
    BY NextKept, NextJobs, NextAttempts DEF Kept, Base, Core
  <1>1. DOMAIN results' =
          { j \in DOMAIN jobs' : jobs'[j].status \in {"SUCCEEDED", "FAILED", "DEAD_LETTER"} }
    BY <1>0 DEF Kept, ResultsOfEnded, TypeOK
  <1>2. ASSUME NEW j \in DOMAIN results'
        PROVE  \E c \in DOMAIN attempts' : LastWord(j, c)'
    <2>1. j \in DOMAIN jobs
      BY <1>0 DEF AllJobs, JobAdded, TypeOK
    <2>2. JobChange(j)
      BY <1>0, <2>1 DEF AllJobs
    <2>3. CASE Concluded(j)
      BY <1>0, <2>1, <2>3, ConcludedBy DEF Ended
    <2>4. CASE ~Concluded(j)
      <3>1. AnswerKept(j) /\ j \in DOMAIN results /\ results'[j] = results[j]
        BY <2>2, <2>4, <1>2 DEF JobChange, AnswerKept
      <3>2. jobs[j].status \in {"SUCCEEDED", "FAILED", "DEAD_LETTER"}
        BY <2>1, <3>1 DEF Kept, ResultsOfEnded
      <3>3. Unmoved(j)
        BY <2>2, <2>4, <3>2 DEF JobChange, HandedOut, Begun, TakenBack, CalledOff, Waiting, Held
      <3>4. PICK c \in DOMAIN attempts : LastWord(j, c)
        BY <3>1 DEF ResultIsLastWord, LastWord, Finished
      <3>5. c \in DOMAIN attempts' /\ attempts'[c] = attempts[c]
        BY <1>0, <3>4 DEF AttemptsKept, LastWord, Finished
      <3> QED BY <3>1, <3>3, <3>4, <3>5 DEF LastWord, Unmoved
    <2> QED BY <2>3, <2>4
  <1> QED BY <1>1, <1>2 DEF ResultIsLastWord, LastWord, Finished

(***************************************************************************)
(* A result is the body of the newest attempt, and agrees with the job's   *)
(* final state: no late completion, retry or sweep ever leaves a client    *)
(* with the answer of an attempt that had lost its lease.                  *)
(***************************************************************************)
THEOREM ResultsAreLastWords == Spec => []ResultIsLastWord
  <1>1. Init => TimersStopped /\ ResultIsLastWord
    BY DEF Init, Empty, TimersStopped, ResultIsLastWord
  <1>2. Kept /\ TimersStopped /\ ResultIsLastWord /\ [Next]_vars
            => (TimersStopped /\ ResultIsLastWord)'
    BY ResultStep, NextAttempts DEF AttemptsKept, Kept, Base, Core
  <1> QED BY <1>1, <1>2, KeptInvariant, PTL DEF Spec

-----------------------------------------------------------------------------
(***************************************************************************)
(* Admission.  No step makes a job younger, and none adds a job unless     *)
(* admit found room for it.                                                *)
(***************************************************************************)
AgesGrow == \A j \in DOMAIN jobs : jobs'[j].age \in Nat /\ jobs'[j].age >= jobs[j].age

LEMMA OneAge ==
    ASSUME TypeOK, NEW i \in DOMAIN jobs, NEW row, row.age = jobs[i].age,
           jobs' = [jobs EXCEPT ![i] = row]
    PROVE  AgesGrow /\ DOMAIN jobs' = DOMAIN jobs
  <1>1. jobs \in [DOMAIN jobs -> JobRow] /\ \A j \in DOMAIN jobs : jobs[j].age \in Nat
    BY TimingAssumption DEF TypeOK, JobRow
  <1>2. \A j \in DOMAIN jobs : jobs'[j].age = jobs[j].age
    BY <1>1
  <1> QED BY <1>1, <1>2 DEF AgesGrow

LEMMA NextAges ==
    ASSUME TypeOK, [Next]_vars
    PROVE  AgesGrow /\ (DOMAIN jobs' = DOMAIN jobs \/ RoomToAdmit)
  <1>0. /\ jobs \in [DOMAIN jobs -> JobRow]
        /\ \A j \in DOMAIN jobs : jobs[j].age \in 0 .. (RateWindow + 1)
        /\ "RUNNING" \in STATUSES /\ "CANCELLED" \in STATUSES /\ "SUCCEEDED" \in STATUSES
    BY DEF TypeOK, JobRow, STATUSES
  <1>nat. \A j \in DOMAIN jobs : jobs[j].age \in Nat
    BY <1>0, TimingAssumption
  <1>same. jobs' = jobs => AgesGrow /\ DOMAIN jobs' = DOMAIN jobs
    BY <1>nat DEF AgesGrow
  <1>1. CASE AdmitAny
    <2>1. RoomToAdmit /\ \A j \in DOMAIN jobs : jobs'[j] = jobs[j]
      BY <1>1 DEF AdmitAny, Admit, Put
    <2> QED BY <1>nat, <2>1 DEF AgesGrow
  <1>2. CASE \E i \in JobId : ClaimFor(i)
    <2> PICK i \in DOMAIN jobs : jobs' = [jobs EXCEPT ![i] = LeasedRow(@)]
      BY <1>2 DEF ClaimFor, Claim
    <2>1. LeasedRow(jobs[i]).age = jobs[i].age
      BY <1>0, LeasedRowType
    <2> QED BY <2>1, OneAge
  <1>3. CASE \E w \in WorkerId, i \in DOMAIN jobs, c \in DOMAIN attempts : Report(w, i, c)
    <2> PICK w \in WorkerId, i \in DOMAIN jobs, c \in DOMAIN attempts : Report(w, i, c)
      BY <1>3
    <2>0. jobs[i] \in JobRow
      BY <1>0
    <2>1. CASE Start(w, i, c)
      BY <1>0, <2>0, <2>1, MovedType, OneAge DEF Start
    <2>2. CASE Renew(w, i, c)
      BY <1>same, <2>2 DEF Renew
    <2>3. CASE \E output \in Output : FinishSucceeded(w, i, c, output)
      BY <1>0, <2>0, <2>3, MovedType, OneAge DEF FinishSucceeded
    <2>4. CASE \E error \in Error, retryable \in BOOLEAN, delay \in 0 .. (2 * MaxBackoff) :
                  FinishFailed(w, i, c, error, retryable, delay)
      <3> PICK retryable \in BOOLEAN, delay \in 0 .. (2 * MaxBackoff) :
                  jobs' = [jobs EXCEPT ![i] = FailedRow(@, retryable, delay)]
        BY <2>4 DEF FinishFailed
      <3>1. FailedRow(jobs[i], retryable, delay).age = jobs[i].age
        BY <2>0, FailedRowType, TimingAssumption
      <3> QED BY <3>1, OneAge
    <2> QED BY <2>1, <2>2, <2>3, <2>4 DEF Report
  <1>4. CASE \E i \in JobId : Cancel(i)
    <2> PICK i \in DOMAIN jobs : jobs' = [jobs EXCEPT ![i] = Moved(@, "CANCELLED")]
      BY <1>4 DEF Cancel
    <2>1. Moved(jobs[i], "CANCELLED").age = jobs[i].age
      BY <1>0, MovedType
    <2> QED BY <2>1, OneAge
  <1>5. CASE \E E \in SUBSET Expirable, B \in SUBSET DOMAIN jobs : RecoverSome(E, B)
    <2> PICK E \in SUBSET Expirable, B \in SUBSET DOMAIN jobs : RecoverSome(E, B)
      BY <1>5
    <2> PICK delay \in [JobsOf(E) -> 0 .. (2 * MaxBackoff)] : RecoverJobs(E, B, delay)
      BY DEF RecoverSome
    <2>1. delay \in [JobsOf(E) -> Nat]
      BY TimingAssumption
    <2>2. DOMAIN jobs' = DOMAIN jobs /\ \A j \in DOMAIN jobs : jobs'[j].age = jobs[j].age
      BY <2>1, RecoverEffect
    <2> QED BY <1>nat, <2>2 DEF AgesGrow
  <1>6. CASE Tick
    <2>1. DOMAIN jobs' = DOMAIN jobs /\ \A j \in DOMAIN jobs : jobs'[j] = OlderRow(jobs[j])
      BY <1>6 DEF Tick
    <2>2. ASSUME NEW j \in DOMAIN jobs
          PROVE  OlderRow(jobs[j]).age = Smaller(jobs[j].age + 1, RateWindow + 1)
      BY <1>0 DEF OlderRow, JobRow
    <2>3. ASSUME NEW j \in DOMAIN jobs
          PROVE  jobs'[j].age \in Nat /\ jobs'[j].age >= jobs[j].age
      BY <1>0, <2>1, <2>2, TimingAssumption DEF Smaller
    <2> QED BY <2>1, <2>3 DEF AgesGrow
  <1>7. CASE UNCHANGED vars
    BY <1>7, <1>same DEF vars
  <1> QED BY <1>1, <1>2, <1>3, <1>4, <1>5, <1>6, <1>7 DEF Next

ActiveJobs == { j \in DOMAIN jobs : jobs[j].status \in ACTIVE }
RecentJobs == { j \in DOMAIN jobs : jobs[j].age <= RateWindow }

(* A set that admission adds one member to, when it has room, or that      *)
(* loses members, stays within its limit.                                  *)
LEMMA WithinLimit ==
    ASSUME NEW S, NEW T, NEW new, NEW limit \in Nat, IsFiniteSet(S), Cardinality(S) <= limit,
           T \subseteq S \cup {new}, T \subseteq S \/ Cardinality(S) < limit
    PROVE  IsFiniteSet(T) /\ Cardinality(T) <= limit
  <1>1. Cardinality(S) \in Nat
    BY FS_CardinalityType
  <1>2. CASE T \subseteq S
    <2>1. IsFiniteSet(T) /\ Cardinality(T) <= Cardinality(S)
      BY <1>2, FS_Subset
    <2>2. Cardinality(T) \in Nat
      BY <2>1, FS_CardinalityType
    <2> QED BY <1>1, <2>1, <2>2
  <1>3. CASE Cardinality(S) < limit
    <2>1. /\ IsFiniteSet(S \cup {new})
          /\ Cardinality(S \cup {new}) = IF new \in S THEN Cardinality(S) ELSE Cardinality(S) + 1
      BY FS_AddElement
    <2>2. IsFiniteSet(T) /\ Cardinality(T) <= Cardinality(S \cup {new})
      BY <2>1, FS_Subset
    <2>3. Cardinality(T) \in Nat
      BY <2>2, FS_CardinalityType
    <2> QED BY <1>1, <1>3, <2>1, <2>2, <2>3
  <1> QED BY <1>2, <1>3

Admitted == IsFiniteSet(ActiveJobs) /\ IsFiniteSet(RecentJobs) /\ QueueBounded /\ RateBounded

LEMMA AdmittedStep ==
    ASSUME Kept, Admitted, [Next]_vars
    PROVE  Admitted'
  <1>0. /\ TypeOK /\ AllJobs /\ AgesGrow /\ (DOMAIN jobs' = DOMAIN jobs \/ RoomToAdmit)
    BY NextJobs, NextAges DEF Kept, Base, Core
  <1>1. \E new : DOMAIN jobs' \subseteq DOMAIN jobs \cup {new}
    BY <1>0 DEF AllJobs
  <1>2. PICK new : DOMAIN jobs' \subseteq DOMAIN jobs \cup {new}
    BY <1>1
  <1>3. \A j \in DOMAIN jobs : jobs'[j].status \in ACTIVE => jobs[j].status \in ACTIVE
    BY <1>0 DEF AllJobs, JobChange, Unmoved, HandedOut, Begun, TakenBack, Concluded, CalledOff,
                Waiting, Held, ACTIVE
  <1>4. \A j \in DOMAIN jobs : jobs'[j].age <= RateWindow => jobs[j].age <= RateWindow
    BY <1>0, TimingAssumption DEF AgesGrow, TypeOK, JobRow
  <1>5. /\ ActiveJobs' \subseteq ActiveJobs \cup {new} /\ RecentJobs' \subseteq RecentJobs \cup {new}
        /\ DOMAIN jobs' = DOMAIN jobs => ActiveJobs' \subseteq ActiveJobs /\ RecentJobs' \subseteq RecentJobs
    BY <1>2, <1>3, <1>4 DEF ActiveJobs, RecentJobs
  <1>6. RoomToAdmit => Cardinality(ActiveJobs) < QueueLimit /\ Cardinality(RecentJobs) < SubmissionsPerMinute
    BY DEF RoomToAdmit, ActiveJobs, RecentJobs
  <1>7. /\ IsFiniteSet(ActiveJobs) /\ Cardinality(ActiveJobs) <= QueueLimit
        /\ IsFiniteSet(RecentJobs) /\ Cardinality(RecentJobs) <= SubmissionsPerMinute
    BY DEF Admitted, QueueBounded, RateBounded, ActiveJobs, RecentJobs
  <1>8. IsFiniteSet(ActiveJobs') /\ Cardinality(ActiveJobs') <= QueueLimit
    BY <1>0, <1>5, <1>6, <1>7, LimitAssumption, WithinLimit
  <1>9. IsFiniteSet(RecentJobs') /\ Cardinality(RecentJobs') <= SubmissionsPerMinute
    BY <1>0, <1>5, <1>6, <1>7, LimitAssumption, WithinLimit
  <1> QED BY <1>8, <1>9 DEF Admitted, QueueBounded, RateBounded, ActiveJobs, RecentJobs

LEMMA AdmittedInvariant == Spec => []Admitted
  <1>1. Init => Admitted
    <2> SUFFICES ASSUME Init PROVE Admitted
      OBVIOUS
    <2>1. ActiveJobs = {} /\ RecentJobs = {}
      BY DEF Init, Empty, ActiveJobs, RecentJobs
    <2> QED BY <2>1, FS_EmptySet, LimitAssumption
            DEF Admitted, QueueBounded, RateBounded, ActiveJobs, RecentJobs
  <1>2. Kept /\ Admitted /\ [Next]_vars => Admitted'
    BY AdmittedStep
  <1> QED BY <1>1, <1>2, KeptInvariant, PTL DEF Spec

(***************************************************************************)
(* The number of active jobs never exceeds queue_limit: what comes back    *)
(* for a retry was active all along, so it needs no second admission.      *)
(***************************************************************************)
THEOREM QueueStaysBounded == Spec => []QueueBounded
  <1>1. Admitted => QueueBounded
    BY DEF Admitted
  <1> QED BY <1>1, AdmittedInvariant, PTL

(***************************************************************************)
(* Whenever it is asked, at most submissions_per_minute jobs are younger   *)
(* than the window, whatever has become of them since.                     *)
(***************************************************************************)
THEOREM RateStaysBounded == Spec => []RateBounded
  <1>1. Admitted => RateBounded
    BY DEF Admitted
  <1> QED BY <1>1, AdmittedInvariant, PTL

-----------------------------------------------------------------------------
(***************************************************************************)
(* Table events.  A step leaves a job and its log alone, or moves the job  *)
(* by an allowed transition and logs its new status.                       *)
(***************************************************************************)
LogSame(j) ==
    /\ events'[j] = events[j]
    /\ jobs'[j].status = jobs[j].status
    /\ jobs'[j].attempt_count = jobs[j].attempt_count

Logged(j, status) ==
    /\ events'[j] = Append(events[j], status)
    /\ jobs'[j].status = status
    /\ Allowed(jobs[j].status, status)
    /\ jobs'[j].attempt_count = IF status = "LEASED" THEN jobs[j].attempt_count + 1
                                                     ELSE jobs[j].attempt_count

LogOpened(j) ==
    /\ events'[j] = <<"SUBMITTED", "QUEUED">>
    /\ jobs'[j].status = "QUEUED" /\ jobs'[j].attempt_count = 0

LogStep ==
    \A j \in DOMAIN jobs' :
        \/ j \in DOMAIN jobs /\ (LogSame(j) \/ \E status \in STATUSES : Logged(j, status))
        \/ j \notin DOMAIN jobs /\ LogOpened(j)

LEMMA LogUnmoved ==
    ASSUME jobs' = jobs, events' = events PROVE LogStep
  BY DEF LogStep, LogSame

LEMMA OneLog ==
    ASSUME TypeOK, NEW i \in DOMAIN jobs, NEW status \in STATUSES, NEW row,
           row.status = status, Allowed(jobs[i].status, status),
           row.attempt_count = IF status = "LEASED" THEN jobs[i].attempt_count + 1
                                                    ELSE jobs[i].attempt_count,
           jobs' = [jobs EXCEPT ![i] = row],
           events' = [events EXCEPT ![i] = Append(@, status)]
    PROVE  LogStep
  <1>1. /\ DOMAIN jobs' = DOMAIN jobs /\ jobs'[i] = row /\ events'[i] = Append(events[i], status)
        /\ \A j \in DOMAIN jobs : j # i => jobs'[j] = jobs[j] /\ events'[j] = events[j]
    BY DEF TypeOK
  <1>2. Logged(i, status)
    BY <1>1 DEF Logged
  <1>3. \A j \in DOMAIN jobs : j # i => LogSame(j)
    BY <1>1 DEF LogSame
  <1> QED BY <1>1, <1>2, <1>3 DEF LogStep

LEMMA RecoverLogs ==
    ASSUME Base, NEW E \in SUBSET Expirable, NEW B, NEW delay \in [JobsOf(E) -> Nat],
           RecoverJobs(E, B, delay)
    PROVE  LogStep
  <1> DEFINE mid == ExpiredJobs(E, delay)
             first == Log(events, JobsOf(E), [j \in JobsOf(E) |-> mid[j].status])
  <1>1. /\ TypeOK /\ DOMAIN jobs' = DOMAIN jobs /\ DOMAIN events = DOMAIN jobs
        /\ JobsOf(E) \subseteq DOMAIN jobs /\ B \subseteq DOMAIN jobs
        /\ jobs \in [DOMAIN jobs -> JobRow]
    BY RecoverEffect DEF Base, Core, TypeOK
  <1>2. \A j \in JobsOf(E) : Allowed(jobs[j].status, mid[j].status) /\ j \notin B
    BY SweepsApart DEF RecoverJobs
  <1>3. \A j \in B : Allowed(mid[j].status, "CANCELLED") /\ j \notin JobsOf(E)
    BY SweepsApart DEF RecoverJobs
  <1>4. \A j \in DOMAIN jobs : j \notin JobsOf(E) => mid[j] = jobs[j]
    BY DEF ExpiredJobs
  <1>5. \A j \in JobsOf(E) : mid[j].status = ExpiredStatus(jobs[j])
    <2> SUFFICES ASSUME NEW j \in JobsOf(E) PROVE mid[j].status = ExpiredStatus(jobs[j])
      OBVIOUS
    <2>1. mid[j] = ExpiredRow(jobs[j], delay[j]) /\ delay[j] \in Nat /\ jobs[j] \in JobRow
      BY <1>1 DEF ExpiredJobs
    <2> HIDE DEF mid
    <2> QED BY <2>1, ExpiredRowType
  <1>6. events' = Log(first, B, [j \in B |-> "CANCELLED"])
    BY DEF RecoverJobs
  <1> HIDE DEF mid
  <1>7. /\ DOMAIN first = DOMAIN jobs
        /\ \A j \in DOMAIN jobs :
            first[j] = IF j \in JobsOf(E) THEN Append(events[j], mid[j].status) ELSE events[j]
    BY <1>1 DEF Log
  <1> HIDE DEF first
  <1>8. \A j \in DOMAIN jobs : events'[j] = IF j \in B THEN Append(first[j], "CANCELLED") ELSE first[j]
    BY <1>6, <1>7 DEF Log
  <1>9. ASSUME NEW j \in DOMAIN jobs
        PROVE  LogSame(j) \/ \E status \in STATUSES : Logged(j, status)
    <2>1. jobs'[j].attempt_count = jobs[j].attempt_count
      BY <1>1, RecoverEffect
    <2>2. CASE j \in JobsOf(E)
      <3>1. jobs'[j].status = ExpiredStatus(jobs[j]) /\ events'[j] = Append(events[j], mid[j].status)
        <4>1. jobs'[j].status = ExpiredStatus(jobs[j])
          BY <1>1, <1>2, <2>2, RecoverEffect
        <4> QED BY <1>2, <1>7, <1>8, <2>2, <4>1
      <3>2. ExpiredStatus(jobs[j]) \in STATUSES \ {"LEASED"}
        BY DEF ExpiredStatus, STATUSES
      <3>3. Logged(j, ExpiredStatus(jobs[j]))
        BY <1>2, <1>5, <2>1, <2>2, <3>1, <3>2 DEF Logged
      <3> QED BY <3>2, <3>3
    <2>3. CASE j \in B
      <3>1. jobs'[j].status = "CANCELLED" /\ events'[j] = Append(events[j], "CANCELLED")
        <4>1. jobs'[j].status = "CANCELLED"
          BY <1>1, <2>3, RecoverEffect
        <4> QED BY <1>3, <1>7, <1>8, <2>3, <4>1
      <3>2. Logged(j, "CANCELLED")
        BY <1>3, <1>4, <2>1, <2>3, <3>1 DEF Logged
      <3> QED BY <3>2 DEF STATUSES
    <2>4. CASE j \notin B \cup JobsOf(E)
      <3>1. jobs'[j] = jobs[j] /\ events'[j] = events[j]
        BY <1>1, <1>7, <1>8, <2>4, RecoverEffect
      <3> QED BY <3>1 DEF LogSame
    <2> QED BY <2>2, <2>3, <2>4
  <1> QED BY <1>1, <1>9 DEF LogStep

LEMMA NextLogs ==
    ASSUME Base, [Next]_vars
    PROVE  LogStep
  <1>0. /\ TypeOK /\ jobs \in [DOMAIN jobs -> JobRow] /\ DOMAIN events = DOMAIN jobs
        /\ {"LEASED", "RUNNING", "CANCELLED", "SUCCEEDED"} \subseteq STATUSES
    BY DEF Base, Core, TypeOK, STATUSES
  <1>1. CASE AdmitAny
    <2> PICK i \in JobId, key \in Key \cup {None}, def \in Definition : Admit(i, key, def)
      BY <1>1 DEF AdmitAny
    <2>1. /\ i \notin DOMAIN jobs /\ DOMAIN jobs' = DOMAIN jobs \cup {i}
          /\ jobs'[i].status = "QUEUED" /\ jobs'[i].attempt_count = 0
          /\ events'[i] = <<"SUBMITTED", "QUEUED">>
          /\ \A j \in DOMAIN jobs : jobs'[j] = jobs[j] /\ events'[j] = events[j]
      BY <1>0 DEF Admit, Put
    <2>2. LogOpened(i) /\ \A j \in DOMAIN jobs : LogSame(j)
      BY <2>1 DEF LogOpened, LogSame
    <2> QED BY <2>1, <2>2 DEF LogStep
  <1>2. CASE \E i \in JobId : ClaimFor(i)
    <2> PICK i \in DOMAIN jobs : /\ Allowed(jobs[i].status, "LEASED")
                                 /\ jobs' = [jobs EXCEPT ![i] = LeasedRow(@)]
                                 /\ events' = [events EXCEPT ![i] = Append(@, "LEASED")]
      BY <1>2 DEF ClaimFor, Claim
    <2> DEFINE row == LeasedRow(jobs[i])
    <2>1. row.status = "LEASED" /\ row.attempt_count = jobs[i].attempt_count + 1
      BY <1>0, LeasedRowType
    <2>2. jobs' = [jobs EXCEPT ![i] = row]
      OBVIOUS
    <2> HIDE DEF row
    <2> QED BY <1>0, <2>1, <2>2, OneLog
  <1>3. CASE \E w \in WorkerId, i \in DOMAIN jobs, c \in DOMAIN attempts : Report(w, i, c)
    <2> PICK w \in WorkerId, i \in DOMAIN jobs, c \in DOMAIN attempts : Report(w, i, c)
      BY <1>3
    <2>1. CASE Renew(w, i, c)
      BY <2>1, LogUnmoved DEF Renew
    <2>2. ASSUME NEW status \in {"RUNNING", "SUCCEEDED"}, Allowed(jobs[i].status, status),
                 jobs' = [jobs EXCEPT ![i] = Moved(@, status)],
                 events' = [events EXCEPT ![i] = Append(@, status)]
          PROVE  LogStep
      <3> DEFINE row == Moved(jobs[i], status)
      <3>1. row.status = status /\ row.attempt_count = jobs[i].attempt_count
        BY <1>0, MovedType
      <3>2. jobs' = [jobs EXCEPT ![i] = row]
        BY <2>2
      <3> HIDE DEF row
      <3> QED BY <1>0, <2>2, <3>1, <3>2, OneLog
    <2>3. CASE Start(w, i, c)
      BY <2>2, <2>3 DEF Start
    <2>4. CASE \E output \in Output : FinishSucceeded(w, i, c, output)
      BY <2>2, <2>4 DEF FinishSucceeded
    <2>5. CASE \E error \in Error, retryable \in BOOLEAN, delay \in 0 .. (2 * MaxBackoff) :
                  FinishFailed(w, i, c, error, retryable, delay)
      <3> PICK error \in Error, retryable \in BOOLEAN, delay \in 0 .. (2 * MaxBackoff) :
                  FinishFailed(w, i, c, error, retryable, delay)
        BY <2>5
      <3> DEFINE row == FailedRow(jobs[i], retryable, delay)
                 status == FailedStatus(jobs[i], retryable)
      <3>0. jobs[i] \in JobRow /\ delay \in Nat
        BY <1>0, TimingAssumption
      <3>1. /\ row.status = status /\ row.attempt_count = jobs[i].attempt_count
            /\ status \in {"RETRY_WAIT", "DEAD_LETTER", "FAILED"}
        BY <3>0, FailedRowType
      <3>2. /\ jobs' = [jobs EXCEPT ![i] = row] /\ Allowed(jobs[i].status, status)
            /\ events' = [events EXCEPT ![i] = Append(@, status)]
        BY DEF FinishFailed
      <3> HIDE DEF row, status
      <3>3. status \in STATUSES /\ status # "LEASED"
        BY <3>1 DEF STATUSES
      <3> QED BY <1>0, <3>1, <3>2, <3>3, OneLog
    <2> QED BY <2>1, <2>3, <2>4, <2>5 DEF Report
  <1>4. CASE \E i \in JobId : Cancel(i)
    <2> PICK i \in DOMAIN jobs : /\ Allowed(jobs[i].status, "CANCELLED")
                                 /\ jobs' = [jobs EXCEPT ![i] = Moved(@, "CANCELLED")]
                                 /\ events' = [events EXCEPT ![i] = Append(@, "CANCELLED")]
      BY <1>4 DEF Cancel
    <2> DEFINE row == Moved(jobs[i], "CANCELLED")
    <2>1. row.status = "CANCELLED" /\ row.attempt_count = jobs[i].attempt_count
      BY <1>0, MovedType
    <2>2. jobs' = [jobs EXCEPT ![i] = row]
      OBVIOUS
    <2> HIDE DEF row
    <2> QED BY <1>0, <2>1, <2>2, OneLog
  <1>5. CASE \E E \in SUBSET Expirable, B \in SUBSET DOMAIN jobs : RecoverSome(E, B)
    <2> PICK E \in SUBSET Expirable, B \in SUBSET DOMAIN jobs : RecoverSome(E, B)
      BY <1>5
    <2> PICK delay \in [JobsOf(E) -> 0 .. (2 * MaxBackoff)] : RecoverJobs(E, B, delay)
      BY DEF RecoverSome
    <2>1. delay \in [JobsOf(E) -> Nat]
      BY TimingAssumption
    <2> QED BY <2>1, RecoverLogs
  <1>6. CASE Tick
    <2>1. DOMAIN jobs' = DOMAIN jobs /\ events' = events
          /\ \A j \in DOMAIN jobs : jobs'[j] = OlderRow(jobs[j])
      BY <1>6 DEF Tick
    <2>2. \A j \in DOMAIN jobs : LogSame(j)
      BY <1>0, <2>1, OlderRowType DEF LogSame
    <2> QED BY <2>1, <2>2 DEF LogStep
  <1>7. CASE UNCHANGED vars
    BY <1>7, LogUnmoved DEF vars
  <1> QED BY <1>1, <1>2, <1>3, <1>4, <1>5, <1>6, <1>7 DEF Next

-----------------------------------------------------------------------------
(* What AuditTrail asks of one log. *)
Leases(log) == { i \in DOMAIN log : log[i] = "LEASED" }

Story(log, status, count) ==
    /\ Len(log) >= 2 /\ log[1] = "SUBMITTED" /\ log[2] = "QUEUED"
    /\ \A i \in 2 .. (Len(log) - 1) : Allowed(log[i], log[i + 1])
    /\ log[Len(log)] = status
    /\ Cardinality(Leases(log)) = count

LEMMA AuditTrailIsStories ==
    AuditTrail <=> \A j \in DOMAIN jobs : Story(events[j], jobs[j].status, jobs[j].attempt_count)
  BY DEF AuditTrail, Story, Leases

LEMMA StoryOpens == Story(<<"SUBMITTED", "QUEUED">>, "QUEUED", 0)
  <1> DEFINE log == <<"SUBMITTED", "QUEUED">>
  <1>1. Len(log) = 2 /\ log[1] = "SUBMITTED" /\ log[2] = "QUEUED" /\ DOMAIN log = 1 .. 2
    OBVIOUS
  <1> HIDE DEF log
  <1>2. Leases(log) = {}
    BY <1>1 DEF Leases
  <1>3. Story(log, "QUEUED", 0)
    BY <1>1, <1>2, FS_EmptySet DEF Story
  <1> QED BY <1>3 DEF log

LEMMA StoryGoesOn ==
    ASSUME NEW log \in Seq(STATUSES \cup {"SUBMITTED"}), NEW from, NEW to \in STATUSES,
           NEW count \in Nat, Story(log, from, count), Allowed(from, to)
    PROVE  Story(Append(log, to), to, IF to = "LEASED" THEN count + 1 ELSE count)
  <1> DEFINE longer == Append(log, to)
             n == Len(log)
  <1>1. n \in Nat /\ DOMAIN log = 1 .. n
    OBVIOUS
  <1>2. /\ Len(longer) = n + 1 /\ DOMAIN longer = 1 .. (n + 1) /\ longer[n + 1] = to
        /\ \A i \in 1 .. n : longer[i] = log[i]
    OBVIOUS
  <1>3. /\ n >= 2 /\ log[1] = "SUBMITTED" /\ log[2] = "QUEUED" /\ log[n] = from
        /\ \A i \in 2 .. (n - 1) : Allowed(log[i], log[i + 1])
        /\ Cardinality(Leases(log)) = count
    BY DEF Story
  <1> HIDE DEF longer, n
  <1>4. \A i \in 2 .. (Len(longer) - 1) : Allowed(longer[i], longer[i + 1])
    <2> SUFFICES ASSUME NEW i \in 2 .. n PROVE Allowed(longer[i], longer[i + 1])
      BY <1>1, <1>2
    <2>1. CASE i = n
      BY <1>1, <1>2, <1>3, <2>1
    <2>2. CASE i # n
      <3>1. i \in 2 .. (n - 1) /\ i \in 1 .. n /\ i + 1 \in 1 .. n
        BY <1>1, <2>2
      <3> QED BY <1>2, <1>3, <3>1
    <2> QED BY <2>1, <2>2
  <1>5. IsFiniteSet(Leases(log)) /\ n + 1 \notin Leases(log)
    <2>1. IsFiniteSet(1 .. n) /\ Leases(log) \in SUBSET (1 .. n)
      BY <1>1, FS_Interval DEF Leases
    <2> QED BY <1>1, <2>1, FS_Subset
  <1>6. Leases(longer) = IF to = "LEASED" THEN Leases(log) \cup {n + 1} ELSE Leases(log)
    BY <1>1, <1>2 DEF Leases
  <1>7. Cardinality(Leases(longer)) = IF to = "LEASED" THEN count + 1 ELSE count
    <2>1. Cardinality(Leases(log) \cup {n + 1}) = Cardinality(Leases(log)) + 1
      BY <1>5, FS_AddElement
    <2> QED BY <1>3, <1>6, <2>1
  <1>8. Len(longer) >= 2 /\ longer[1] = "SUBMITTED" /\ longer[2] = "QUEUED"
        /\ longer[Len(longer)] = to
    BY <1>1, <1>2, <1>3
  <1>9. Story(longer, to, IF to = "LEASED" THEN count + 1 ELSE count)
    BY <1>4, <1>7, <1>8 DEF Story
  <1> QED BY <1>9 DEF longer

(***************************************************************************)
(* Table events is a faithful history: for every job it begins with the    *)
(* admission, moves only along TRANSITIONS, ends at the job's status and   *)
(* has one LEASED for each attempt, through every finish, cancellation and *)
(* sweep, the two halves of a sweep included.                              *)
(***************************************************************************)
THEOREM EventsTellTheStory == Spec => []AuditTrail
  <1>1. Init => AuditTrail
    BY DEF Init, Empty, AuditTrail
  <1>2. ASSUME Kept, AuditTrail, [Next]_vars PROVE AuditTrail'
    <2>0. TypeOK /\ LogStep
      BY <1>2, NextLogs DEF Kept, Base, Core
    <2> SUFFICES ASSUME NEW j \in DOMAIN jobs'
                 PROVE  Story(events'[j], jobs'[j].status, jobs'[j].attempt_count)
      BY AuditTrailIsStories DEF AuditTrail, Story, Leases
    <2>1. CASE j \in DOMAIN jobs
      <3>1. /\ Story(events[j], jobs[j].status, jobs[j].attempt_count)
            /\ events[j] \in Seq(STATUSES \cup {"SUBMITTED"}) /\ jobs[j].attempt_count \in Nat
        BY <1>2, <2>0, <2>1, AuditTrailIsStories, RowFacts DEF TypeOK
      <3>2. CASE LogSame(j)
        BY <3>1, <3>2 DEF LogSame
      <3>3. CASE \E status \in STATUSES : Logged(j, status)
        BY <3>1, <3>3, StoryGoesOn DEF Logged
      <3> QED BY <2>0, <2>1, <3>2, <3>3 DEF LogStep
    <2>2. CASE j \notin DOMAIN jobs
      BY <2>0, <2>2, StoryOpens DEF LogStep, LogOpened
    <2> QED BY <2>1, <2>2
  <1> QED BY <1>1, <1>2, KeptInvariant, PTL DEF Spec

-----------------------------------------------------------------------------
(***************************************************************************)
(* The external sink.  Its steps are steps of the queue or leave it alone, *)
(* so everything proved of the queue holds with it.                        *)
(***************************************************************************)
SinkCounts ==
    /\ effects \in [JobId -> Nat]
    /\ \A j \in JobId : effects[j] = IF j \in receipts THEN 1 ELSE 0

(* What has been committed has a receipt, and what succeeded was committed. *)
Receipts ==
    /\ \A c \in committed : c \in DOMAIN attempts /\ attempts[c].job \in receipts
    /\ \A j \in DOMAIN jobs : jobs[j].status = "SUCCEEDED" => j \in receipts

LEMMA QueueStepReceipts ==
    ASSUME Kept, Receipts, QueueStep
    PROVE  Receipts'
  <1>0. TypeOK /\ Base /\ AllJobs /\ AttemptsStay /\ [Next]_vars
        /\ receipts' = receipts /\ committed' = committed
    BY NextJobs, NextAttemptsStay DEF Kept, Base, Core, QueueStep, sink
  <1>1. \A c \in committed' : c \in DOMAIN attempts' /\ attempts'[c].job \in receipts'
    BY <1>0 DEF Receipts, AttemptsStay, SamePlace
  <1>2. ASSUME NEW j \in DOMAIN jobs', jobs'[j].status = "SUCCEEDED"
        PROVE  j \in receipts'
    <2>1. j \in DOMAIN jobs /\ JobChange(j)
      BY <1>0, <1>2 DEF AllJobs, JobAdded
    <2>2. CASE Concluded(j)
      <3>1. PICK c \in Unfinished : c \in DOMAIN attempts' /\ LastWord(j, c)'
        BY <1>0, <2>1, <2>2, ConcludedBy DEF Ended
      <3>2. c \in committed /\ attempts'[c].job = j
        BY <1>2, <3>1 DEF QueueStep, LastWord
      <3> QED BY <1>0, <3>2 DEF Receipts, AttemptsStay, SamePlace
    <2>3. CASE ~Concluded(j)
      <3>1. jobs[j].status = "SUCCEEDED"
        BY <1>2, <2>1, <2>3 DEF JobChange, Unmoved, HandedOut, Begun, TakenBack, CalledOff
      <3> QED BY <1>0, <2>1, <3>1 DEF Receipts
    <2> QED BY <2>2, <2>3
  <1> QED BY <1>1, <1>2 DEF Receipts

LEMMA CommitReceipts ==
    ASSUME TypeOK, Receipts, SinkCounts, NEW c \in DOMAIN attempts, CommitEffect(c)
    PROVE  Receipts' /\ SinkCounts'
  <1> DEFINE j == attempts[c].job
  <1>1. /\ j \in JobId /\ receipts' = receipts \cup {j} /\ committed' = committed \cup {c}
        /\ effects' = IF j \notin receipts THEN [effects EXCEPT ![j] = @ + 1] ELSE effects
        /\ jobs' = jobs /\ attempts' = attempts
    BY DEF CommitEffect, Applies, TypeOK, vars
  <1> HIDE DEF j
  <1>2. Receipts'
    BY <1>1 DEF Receipts, j
  <1>3. SinkCounts'
    BY <1>1 DEF SinkCounts
  <1> QED BY <1>2, <1>3

(***************************************************************************)
(* However often a job is executed, its effect is in the sink at most      *)
(* once, and exactly once when the queue says SUCCEEDED, although sink and *)
(* queue share no transaction.  The receipts carry the argument: nothing   *)
(* succeeds but by finishing an attempt whose execution has committed, and *)
(* a commit adds an effect only with its receipt.                          *)
(***************************************************************************)
THEOREM EffectsHappenOnce == SinkSpec => []EffectOnce
  <1> DEFINE Inv == Receipts /\ SinkCounts
  <1>1. SinkInit => Inv /\ Init
    BY DEF SinkInit, Init, Empty, Receipts, SinkCounts
  <1>2. [SinkNext]_sinkVars => [Next]_vars
    BY DEF SinkNext, QueueStep, CommitEffect, sinkVars, vars
  <1>3. Kept /\ Inv /\ [SinkNext]_sinkVars => Inv'
    <2> SUFFICES ASSUME Kept, Receipts, SinkCounts, [SinkNext]_sinkVars
                 PROVE  Receipts' /\ SinkCounts'
      OBVIOUS
    <2>1. CASE QueueStep
      BY <2>1, QueueStepReceipts DEF SinkCounts, QueueStep, sink
    <2>2. CASE \E c \in DOMAIN attempts : CommitEffect(c)
      BY <2>2, CommitReceipts DEF Kept, Base, Core
    <2>3. CASE UNCHANGED sinkVars
      BY <2>3 DEF sinkVars, sink, vars, Receipts, SinkCounts
    <2> QED BY <2>1, <2>2, <2>3 DEF SinkNext
  <1>4. Kept /\ Inv => EffectOnce
    <2> SUFFICES ASSUME Kept, Inv, NEW j \in DOMAIN jobs
                 PROVE  effects[j] <= 1 /\ (jobs[j].status = "SUCCEEDED" => effects[j] = 1)
      BY DEF EffectOnce
    <2>1. j \in JobId
      BY DEF Kept, Base, Core, TypeOK
    <2> QED BY <2>1 DEF Receipts, SinkCounts
  <1>5. SinkSpec => Spec
    BY <1>1, <1>2, PTL DEF SinkSpec, Spec
  <1> HIDE DEF Inv
  <1> QED BY <1>1, <1>3, <1>4, <1>5, KeptInvariant, PTL DEF SinkSpec
=============================================================================
