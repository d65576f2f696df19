--------------------------- MODULE DeliveryProofs ---------------------------
(***************************************************************************)
(* What a client can rely on, for every value of the constants: how a      *)
(* job's row may change in one transaction, and from that the retry        *)
(* budget, the order of dependent jobs, idempotent admission, the finality *)
(* of what has ended, and that JobStore implements Delivery.               *)
(***************************************************************************)
EXTENDS JobStoreProofs

Payload == Output \cup Error \cup {ExpiredError}

(* The changes of status and counter that a step can make to job j. *)
Unmoved(j) ==
    jobs'[j].status = jobs[j].status /\ jobs'[j].attempt_count = jobs[j].attempt_count

HandedOut(j) ==
    LET parent == jobs[j].def.depends_on
    IN  /\ jobs[j].status \in Waiting /\ jobs'[j].status = "LEASED"
        /\ jobs'[j].attempt_count = jobs[j].attempt_count + 1
        /\ parent # None => parent \in DOMAIN jobs /\ jobs[parent].status = "SUCCEEDED"

Begun(j) ==
    /\ jobs[j].status = "LEASED" /\ jobs'[j].status = "RUNNING"
    /\ jobs'[j].attempt_count = jobs[j].attempt_count

TakenBack(j) ==
    /\ jobs[j].status \in Held /\ jobs'[j].status = "RETRY_WAIT"
    /\ jobs'[j].attempt_count = jobs[j].attempt_count
    /\ jobs[j].attempt_count <= jobs[j].def.max_retries

Concluded(j) ==
    /\ jobs[j].status \in Held /\ jobs'[j].status \in {"SUCCEEDED", "FAILED", "DEAD_LETTER"}
    /\ jobs'[j].attempt_count = jobs[j].attempt_count
    /\ jobs'[j].status = "DEAD_LETTER" => jobs[j].attempt_count > jobs[j].def.max_retries

CalledOff(j) ==
    /\ jobs[j].status \in Waiting /\ jobs'[j].status = "CANCELLED"
    /\ jobs'[j].attempt_count = jobs[j].attempt_count

(* And to its result. *)
Answered(j) == j \in DOMAIN results' /\ results'[j] \in Payload

AnswerKept(j) ==
    /\ j \in DOMAIN results' <=> j \in DOMAIN results
    /\ j \in DOMAIN results => results'[j] = results[j]

JobChange(j) ==
    /\ j \in DOMAIN jobs' /\ jobs'[j].key = jobs[j].key /\ jobs'[j].def = jobs[j].def
    /\ \/ Concluded(j) /\ Answered(j)
       \/ AnswerKept(j) /\ (Unmoved(j) \/ HandedOut(j) \/ Begun(j) \/ TakenBack(j) \/ CalledOff(j))

JobAdded(j) ==
    /\ jobs'[j].status = "QUEUED" /\ jobs'[j].attempt_count = 0
    /\ ~KeyUsed(jobs'[j].key)
    /\ ParentAcceptable(jobs'[j].def.depends_on)
    /\ jobs'[j].def \in Definition
    /\ j \notin DOMAIN results' /\ j \notin DOMAIN results

AllJobs ==
    /\ \A j \in DOMAIN jobs : JobChange(j)
    /\ \A j \in DOMAIN jobs' : j \in DOMAIN jobs \/ JobAdded(j)
    /\ \A i, j \in DOMAIN jobs' : i \in DOMAIN jobs \/ j \in DOMAIN jobs \/ i = j

(***************************************************************************)
(* A sweep could cancel a job it has just taken back.  It never does: a    *)
(* job that was held has a parent that succeeded.  That is why the changes *)
(* need DependencyRespected.                                               *)
(***************************************************************************)
Base == Core /\ DependencyRespected

LEMMA StillAll ==
    ASSUME jobs' = jobs, results' = results PROVE AllJobs
  BY DEF AllJobs, JobChange, Unmoved, AnswerKept

LEMMA AdmitJobs ==
    ASSUME Base, NEW j \in JobId, NEW key \in Key \cup {None}, NEW def \in Definition,
           Admit(j, key, def)
    PROVE  AllJobs
  <1>1. /\ j \notin DOMAIN jobs /\ j \notin DOMAIN results /\ results' = results
        /\ DOMAIN jobs' = DOMAIN jobs \cup {j}
        /\ \A k \in DOMAIN jobs : jobs'[k] = jobs[k]
        /\ jobs'[j].status = "QUEUED" /\ jobs'[j].attempt_count = 0
        /\ jobs'[j].key = key /\ jobs'[j].def = def
        /\ ~KeyUsed(key) /\ ParentAcceptable(def.depends_on)
    BY DEF Admit, Put, Base, Core, TypeOK
  <1>2. JobAdded(j)
    BY <1>1 DEF JobAdded
  <1>3. \A k \in DOMAIN jobs : JobChange(k)
    BY <1>1 DEF JobChange, Unmoved, AnswerKept
  <1> QED BY <1>1, <1>2, <1>3 DEF AllJobs

(* One job's row is replaced. *)
LEMMA OneJob ==
    ASSUME Base, NEW j \in DOMAIN jobs, NEW row, jobs' = [jobs EXCEPT ![j] = row],
           JobChange(j), \A k \in DOMAIN jobs : k # j => AnswerKept(k)
    PROVE  AllJobs
  <1>1. /\ DOMAIN jobs' = DOMAIN jobs
        /\ \A k \in DOMAIN jobs : k # j => jobs'[k] = jobs[k]
    BY DEF Base, Core, TypeOK
  <1>2. \A k \in DOMAIN jobs : k # j => JobChange(k)
    BY <1>1 DEF JobChange, Unmoved
  <1> QED BY <1>1, <1>2 DEF AllJobs

LEMMA ClaimJobs ==
    ASSUME Base, NEW w, NEW slot, NEW c, NEW j \in DOMAIN jobs, NEW capabilities,
           Claim(w, slot, c, j, capabilities)
    PROVE  AllJobs
  <1>1. jobs \in [DOMAIN jobs -> JobRow] /\ jobs[j] \in JobRow
    BY DEF Base, Core, TypeOK
  <1>2. jobs' = [jobs EXCEPT ![j] = LeasedRow(jobs[j])] /\ results' = results
    BY DEF Claim
  <1>3. jobs'[j] = LeasedRow(jobs[j]) /\ j \in DOMAIN jobs'
    BY <1>1, <1>2
  <1>4. HandedOut(j)
    BY <1>1, <1>3, LeasedRowType DEF HandedOut, Claim, Eligible
  <1>5. JobChange(j) /\ \A k : AnswerKept(k)
    BY <1>1, <1>2, <1>3, <1>4, LeasedRowType DEF JobChange, AnswerKept
  <1> QED BY <1>2, <1>5, OneJob

LEMMA StartJobs ==
    ASSUME Base, NEW w, NEW j \in DOMAIN jobs, NEW c, Start(w, j, c)
    PROVE  AllJobs
  <1>1. jobs \in [DOMAIN jobs -> JobRow] /\ jobs[j] \in JobRow /\ "RUNNING" \in STATUSES
    BY DEF Base, Core, TypeOK, STATUSES
  <1>2. jobs' = [jobs EXCEPT ![j] = Moved(jobs[j], "RUNNING")] /\ results' = results
        /\ jobs[j].status = "LEASED"
    BY DEF Start
  <1>3. jobs'[j] = Moved(jobs[j], "RUNNING") /\ j \in DOMAIN jobs'
    BY <1>1, <1>2
  <1>4. Begun(j) /\ jobs'[j].key = jobs[j].key /\ jobs'[j].def = jobs[j].def
    BY <1>1, <1>2, <1>3, MovedType DEF Begun
  <1>5. JobChange(j) /\ \A k : AnswerKept(k)
    BY <1>2, <1>3, <1>4 DEF JobChange, AnswerKept
  <1> QED BY <1>2, <1>5, OneJob

LEMMA CancelJobs ==
    ASSUME Base, NEW j, Cancel(j)
    PROVE  AllJobs
  <1>1. jobs \in [DOMAIN jobs -> JobRow] /\ j \in DOMAIN jobs /\ jobs[j] \in JobRow
        /\ "CANCELLED" \in STATUSES
    BY DEF Base, Core, TypeOK, STATUSES, Cancel
  <1>2. jobs' = [jobs EXCEPT ![j] = Moved(jobs[j], "CANCELLED")] /\ results' = results
        /\ jobs[j].status \in Waiting
    BY DEF Cancel
  <1>3. jobs'[j] = Moved(jobs[j], "CANCELLED") /\ j \in DOMAIN jobs'
    BY <1>1, <1>2
  <1>4. CalledOff(j) /\ jobs'[j].key = jobs[j].key /\ jobs'[j].def = jobs[j].def
    BY <1>1, <1>2, <1>3, MovedType DEF CalledOff
  <1>5. JobChange(j) /\ \A k : AnswerKept(k)
    BY <1>2, <1>3, <1>4 DEF JobChange, AnswerKept
  <1> QED BY <1>1, <1>2, <1>5, OneJob

LEMMA FinishSucceededJobs ==
    ASSUME Base, NEW w, NEW j \in DOMAIN jobs, NEW c, NEW output \in Output,
           FinishSucceeded(w, j, c, output)
    PROVE  AllJobs
  <1>1. jobs \in [DOMAIN jobs -> JobRow] /\ jobs[j] \in JobRow /\ "SUCCEEDED" \in STATUSES
    BY DEF Base, Core, TypeOK, STATUSES
  <1>2. jobs' = [jobs EXCEPT ![j] = Moved(jobs[j], "SUCCEEDED")]
        /\ results' = Put(results, j, output) /\ jobs[j].status = "RUNNING"
    BY DEF FinishSucceeded
  <1>3. jobs'[j] = Moved(jobs[j], "SUCCEEDED") /\ j \in DOMAIN jobs'
    BY <1>1, <1>2
  <1>4. Concluded(j) /\ jobs'[j].key = jobs[j].key /\ jobs'[j].def = jobs[j].def
    BY <1>1, <1>2, <1>3, MovedType DEF Concluded, Held
  <1>5. Answered(j) /\ \A k \in DOMAIN jobs : k # j => AnswerKept(k)
    BY <1>2 DEF Answered, AnswerKept, Put, Payload
  <1>6. JobChange(j)
    BY <1>3, <1>4, <1>5 DEF JobChange
  <1> QED BY <1>2, <1>5, <1>6, OneJob

LEMMA FinishFailedJobs ==
    ASSUME Base, NEW w, NEW j \in DOMAIN jobs, NEW c, NEW error \in Error,
           NEW retryable \in BOOLEAN, NEW delay \in Nat,
           FinishFailed(w, j, c, error, retryable, delay)
    PROVE  AllJobs
  <1> DEFINE row == FailedRow(jobs[j], retryable, delay)
             status == FailedStatus(jobs[j], retryable)
  <1>1. jobs \in [DOMAIN jobs -> JobRow] /\ jobs[j] \in JobRow
    BY DEF Base, Core, TypeOK
  <1>2. /\ jobs' = [jobs EXCEPT ![j] = row] /\ jobs[j].status = "RUNNING"
        /\ results' = IF status = "RETRY_WAIT" THEN results ELSE Put(results, j, error)
    BY DEF FinishFailed
  <1>3. /\ row.status = status /\ row.attempt_count = jobs[j].attempt_count
        /\ row.key = jobs[j].key /\ row.def = jobs[j].def
        /\ status \in {"RETRY_WAIT", "DEAD_LETTER", "FAILED"}
    BY <1>1, FailedRowType
  <1>4. /\ status = "RETRY_WAIT" => jobs[j].attempt_count <= jobs[j].def.max_retries
        /\ status = "DEAD_LETTER" => jobs[j].attempt_count > jobs[j].def.max_retries
    BY DEF FailedStatus
  <1> HIDE DEF row, status
  <1>5. jobs'[j] = row /\ j \in DOMAIN jobs'
    BY <1>1, <1>2
  <1>6. CASE status = "RETRY_WAIT"
    <2>1. TakenBack(j) /\ \A k : AnswerKept(k)
      BY <1>2, <1>3, <1>4, <1>5, <1>6 DEF TakenBack, AnswerKept, Held
    <2>2. JobChange(j)
      BY <1>3, <1>5, <2>1 DEF JobChange
    <2> QED BY <1>2, <2>1, <2>2, OneJob
  <1>7. CASE status # "RETRY_WAIT"
    <2>1. Concluded(j)
      BY <1>2, <1>3, <1>4, <1>5, <1>7 DEF Concluded, Held
    <2>2. Answered(j) /\ \A k \in DOMAIN jobs : k # j => AnswerKept(k)
      BY <1>2, <1>7 DEF Answered, AnswerKept, Put, Payload
    <2>3. JobChange(j)
      BY <1>3, <1>5, <2>1, <2>2 DEF JobChange
    <2> QED BY <1>2, <2>2, <2>3, OneJob
  <1> QED BY <1>6, <1>7

LEMMA TickJobs ==
    ASSUME Base, Tick
    PROVE  AllJobs
  <1>1. jobs \in [DOMAIN jobs -> JobRow]
    BY DEF Base, Core, TypeOK
  <1>2. /\ DOMAIN jobs' = DOMAIN jobs /\ results' = results
        /\ \A j \in DOMAIN jobs : jobs'[j] = OlderRow(jobs[j])
    BY DEF Tick
  <1>3. \A j \in DOMAIN jobs : JobChange(j)
    BY <1>1, <1>2, OlderRowType DEF JobChange, Unmoved, AnswerKept
  <1> QED BY <1>2, <1>3 DEF AllJobs

(* No job is both taken back and cancelled by one sweep. *)
LEMMA SweepsApart ==
    ASSUME Base, NEW E \in SUBSET Expirable, NEW B, NEW delay \in [JobsOf(E) -> Nat],
           RecoverJobs(E, B, delay)
    PROVE  /\ \A j \in JobsOf(E) : jobs[j].status \in Held /\ j \notin B
           /\ \A j \in B : jobs[j].status \in Waiting
  <1> DEFINE mid == ExpiredJobs(E, delay)
  <1>1. /\ TypeOK /\ Core /\ JobsOf(E) \subseteq DOMAIN jobs /\ B \subseteq DOMAIN jobs
        /\ DOMAIN jobs \subseteq JobId /\ DOMAIN mid = DOMAIN jobs
        /\ jobs \in [DOMAIN jobs -> JobRow]
    BY RecoverEffect DEF Base, Core, TypeOK, ExpiredJobs
  <1>2. \A c \in E : /\ jobs[attempts[c].job].status \in Held
                     /\ c \in DOMAIN attempts
                     /\ attempts[c].fence \in 1 .. jobs[attempts[c].job].attempt_count
                     /\ jobs[attempts[c].job] \in JobRow
    BY <1>1, FenceBound DEF Expirable, Unfinished
  <1>3. \A j \in JobsOf(E) : jobs[j].status \in Held /\ jobs[j].attempt_count > 0
    BY <1>2 DEF JobsOf, JobRow
  <1>4. B \subseteq Blocked(mid)
    BY DEF RecoverJobs
  <1>5. \A j \in DOMAIN jobs : j \notin JobsOf(E) => mid[j] = jobs[j]
    BY DEF ExpiredJobs
  <1>def. \A j \in DOMAIN jobs : mid[j].def = jobs[j].def
    <2> TAKE j \in DOMAIN jobs
    <2>1. CASE j \in JobsOf(E)
      <3>1. mid[j] = ExpiredRow(jobs[j], delay[j]) /\ delay[j] \in Nat /\ jobs[j] \in JobRow
        BY <1>1, <2>1 DEF ExpiredJobs
      <3> HIDE DEF mid
      <3> QED BY <3>1, ExpiredRowType
    <2> QED BY <1>5, <2>1
  <1> HIDE DEF mid
  <1>6. ASSUME NEW j \in JobsOf(E), j \in B PROVE FALSE
    <2> DEFINE parent == jobs[j].def.depends_on
    <2>1. parent \in DOMAIN jobs /\ mid[parent].status \in Unsuccessful
      BY <1>1, <1>4, <1>6, <1>def DEF Blocked
    <2>2. parent # None
      BY <1>1, <2>1, PayloadAssumption
    <2>3. jobs[parent].status = "SUCCEEDED"
      BY <1>1, <1>3, <2>2 DEF Base, DependencyRespected
    <2>4. parent \notin JobsOf(E)
      BY <1>3, <2>3 DEF Held
    <2> QED BY <1>5, <2>1, <2>3, <2>4 DEF Unsuccessful
  <1>7. \A j \in B : j \in DOMAIN jobs /\ mid[j].status \in Waiting
    BY <1>1, <1>4 DEF Blocked
  <1> QED BY <1>3, <1>5, <1>6, <1>7

LEMMA RecoverJobsChange ==
    ASSUME Base, NEW E \in SUBSET Expirable, NEW B, NEW delay \in [JobsOf(E) -> Nat],
           RecoverJobs(E, B, delay)
    PROVE  AllJobs
  <1> DEFINE dead == { j \in JobsOf(E) : ExpiredRow(jobs[j], 0).status = "DEAD_LETTER" }
  <1>1. /\ TypeOK /\ jobs \in [DOMAIN jobs -> JobRow]
        /\ \A j \in DOMAIN jobs : /\ jobs[j].attempt_count \in Nat
                                  /\ jobs[j].def.max_retries \in Nat
    BY DefinitionAssumption DEF Base, Core, TypeOK, JobRow, DefinitionRow
  <1>2. DOMAIN jobs' = DOMAIN jobs /\ JobsOf(E) \subseteq DOMAIN jobs /\ B \subseteq DOMAIN jobs
    BY <1>1, RecoverEffect
  <1>3. results' = [ j \in DOMAIN results \cup dead |->
                        IF j \in dead THEN ExpiredError ELSE results[j] ]
    BY DEF RecoverJobs, ExpiredResults
  <1>4. \A j \in JobsOf(E) : j \in dead <=> ExpiredStatus(jobs[j]) = "DEAD_LETTER"
    <2> SUFFICES ASSUME NEW j \in JobsOf(E) PROVE j \in dead <=> ExpiredStatus(jobs[j]) = "DEAD_LETTER"
      OBVIOUS
    <2>1. jobs[j] \in JobRow /\ 0 \in Nat
      BY <1>1, <1>2
    <2> QED BY <2>1, ExpiredRowType
  <1> HIDE DEF dead
  <1>d. dead \subseteq JobsOf(E)
    BY DEF dead
  <1>5. \A j \in DOMAIN jobs : JobChange(j)
    <2> SUFFICES ASSUME NEW j \in DOMAIN jobs PROVE JobChange(j)
      OBVIOUS
    <2>1. /\ j \in DOMAIN jobs' /\ jobs'[j].key = jobs[j].key /\ jobs'[j].def = jobs[j].def
          /\ jobs'[j].attempt_count = jobs[j].attempt_count
      BY <1>1, <1>2, RecoverEffect
    <2>2. CASE j \in B
      <3>1. jobs'[j].status = "CANCELLED" /\ jobs[j].status \in Waiting /\ j \notin JobsOf(E)
        BY <1>1, <2>2, RecoverEffect, SweepsApart
      <3>2. CalledOff(j) /\ AnswerKept(j)
        BY <1>3, <1>d, <2>1, <3>1 DEF CalledOff, AnswerKept
      <3> QED BY <2>1, <3>2 DEF JobChange
    <2>3. CASE j \in JobsOf(E)
      <3>1. j \notin B /\ jobs[j].status \in Held
        BY <2>3, SweepsApart
      <3>2. jobs'[j].status = ExpiredStatus(jobs[j])
        BY <1>1, <2>3, <3>1, RecoverEffect
      <3>3. CASE ExpiredStatus(jobs[j]) = "RETRY_WAIT"
        <4>1. j \notin dead /\ jobs[j].attempt_count <= jobs[j].def.max_retries
          BY <1>4, <2>3, <3>3 DEF ExpiredStatus
        <4>2. TakenBack(j) /\ AnswerKept(j)
          BY <1>3, <2>1, <3>1, <3>2, <3>3, <4>1 DEF TakenBack, AnswerKept
        <4> QED BY <2>1, <4>2 DEF JobChange
      <3>4. CASE ExpiredStatus(jobs[j]) # "RETRY_WAIT"
        <4>1. ExpiredStatus(jobs[j]) = "DEAD_LETTER" /\ jobs[j].attempt_count > jobs[j].def.max_retries
          BY <1>1, <3>4 DEF ExpiredStatus
        <4>2. j \in dead
          BY <1>4, <2>3, <4>1
        <4>3. Concluded(j) /\ Answered(j)
          BY <1>3, <2>1, <3>1, <3>2, <4>1, <4>2 DEF Concluded, Answered, Payload
        <4> QED BY <2>1, <4>3 DEF JobChange
      <3> QED BY <3>3, <3>4
    <2>4. CASE j \notin B \cup JobsOf(E)
      <3>1. jobs'[j] = jobs[j]
        BY <1>1, <2>4, RecoverEffect
      <3>2. Unmoved(j) /\ AnswerKept(j)
        BY <1>3, <1>d, <2>4, <3>1 DEF Unmoved, AnswerKept
      <3> QED BY <2>1, <3>2 DEF JobChange
    <2> QED BY <2>2, <2>3, <2>4
  <1> QED BY <1>2, <1>5 DEF AllJobs

LEMMA NextJobs == Base /\ [Next]_vars => AllJobs
  <1> SUFFICES ASSUME Base, [Next]_vars PROVE AllJobs
    OBVIOUS
  <1>1. CASE AdmitAny
    BY <1>1, AdmitJobs DEF AdmitAny
  <1>2. CASE \E j \in JobId : ClaimFor(j)
    BY <1>2, ClaimJobs DEF ClaimFor
  <1>3. CASE \E w \in WorkerId, j \in DOMAIN jobs, c \in DOMAIN attempts : Report(w, j, c)
    <2> PICK w \in WorkerId, j \in DOMAIN jobs, c \in DOMAIN attempts : Report(w, j, c)
      BY <1>3
    <2>1. 0 .. (2 * MaxBackoff) \subseteq Nat
      BY TimingAssumption
    <2>2. Renew(w, j, c) => AllJobs
      BY StillAll DEF Renew
    <2> QED BY <2>1, <2>2, StartJobs, FinishSucceededJobs, FinishFailedJobs DEF Report
  <1>4. CASE \E j \in JobId : Cancel(j)
    BY <1>4, CancelJobs
  <1>5. CASE \E E \in SUBSET Expirable, B \in SUBSET DOMAIN jobs : RecoverSome(E, B)
    <2> PICK E \in SUBSET Expirable, B \in SUBSET DOMAIN jobs : RecoverSome(E, B)
      BY <1>5
    <2> PICK delay \in [JobsOf(E) -> 0 .. (2 * MaxBackoff)] : RecoverJobs(E, B, delay)
      BY DEF RecoverSome
    <2>1. delay \in [JobsOf(E) -> Nat]
      BY TimingAssumption
    <2> QED BY <2>1, RecoverJobsChange
  <1>6. CASE Tick
    BY <1>6, TickJobs
  <1>7. CASE UNCHANGED vars
    BY <1>7, StillAll DEF vars
  <1> QED BY <1>1, <1>2, <1>3, <1>4, <1>5, <1>6, <1>7 DEF Next

-----------------------------------------------------------------------------
(* The invariant behind the promise: the results are those of the jobs     *)
(* that an attempt ended.                                                  *)
ResultsOfEnded ==
    \A j \in DOMAIN jobs :
        j \in DOMAIN results <=> jobs[j].status \in {"SUCCEEDED", "FAILED", "DEAD_LETTER"}

Kept == Base /\ RetryBudget /\ KeyAdmitsOnce /\ ResultsOfEnded

LEMMA RowFacts ==
    ASSUME TypeOK, NEW j \in DOMAIN jobs
    PROVE  /\ jobs[j].status \in STATUSES /\ jobs[j].attempt_count \in Nat
           /\ jobs[j].def \in DefinitionRow /\ jobs[j].def.max_retries \in Nat
           /\ jobs[j].def.depends_on \in JobId \cup {None} /\ j \in JobId
  BY DefinitionAssumption DEF TypeOK, JobRow, DefinitionRow

LEMMA NextKept == Kept /\ [Next]_vars => Kept'
  <1> SUFFICES ASSUME Kept, [Next]_vars PROVE Kept'
    OBVIOUS
  <1>0. TypeOK /\ Core /\ Core' /\ TypeOK' /\ AllJobs
    BY NextCore, NextJobs DEF Kept, Base, Core
  <1>1. /\ \A j \in DOMAIN jobs : JobChange(j)
        /\ \A j \in DOMAIN jobs' : j \in DOMAIN jobs \/ JobAdded(j)
        /\ \A i, j \in DOMAIN jobs' : i \in DOMAIN jobs \/ j \in DOMAIN jobs \/ i = j
    BY <1>0 DEF AllJobs
  <1>stay. \A j \in DOMAIN jobs : jobs[j].status = "SUCCEEDED" => /\ j \in DOMAIN jobs'
                                                               /\ jobs'[j].status = "SUCCEEDED"
    BY <1>1 DEF JobChange, Unmoved, HandedOut, Begun, TakenBack, Concluded, CalledOff, Waiting, Held
  <1>2. DependencyRespected'
    <2> SUFFICES ASSUME NEW j \in DOMAIN jobs', jobs'[j].def.depends_on # None
                 PROVE  /\ jobs'[j].def.depends_on \in DOMAIN jobs'
                        /\ jobs'[j].attempt_count > 0 =>
                                jobs'[jobs'[j].def.depends_on].status = "SUCCEEDED"
      BY DEF DependencyRespected
    <2>1. CASE j \in DOMAIN jobs
      <3> DEFINE parent == jobs[j].def.depends_on
      <3>1. JobChange(j) /\ jobs'[j].def = jobs[j].def
        BY <1>1, <2>1 DEF JobChange
      <3>2. parent \in DOMAIN jobs /\ JobChange(parent)
        BY <1>1, <2>1, <3>1 DEF Kept, Base, DependencyRespected
      <3>3. parent \in DOMAIN jobs'
        BY <3>2 DEF JobChange
      <3>4. \/ jobs'[j].attempt_count = jobs[j].attempt_count
            \/ jobs[parent].status = "SUCCEEDED"
        BY <2>1, <3>1 DEF JobChange, Unmoved, HandedOut, Begun, TakenBack, Concluded, CalledOff
      <3>5. jobs'[j].attempt_count > 0 => jobs[parent].status = "SUCCEEDED"
        BY <2>1, <3>1, <3>4 DEF Kept, Base, DependencyRespected
      <3> QED BY <1>stay, <3>1, <3>2, <3>3, <3>5
    <2>2. CASE j \notin DOMAIN jobs
      <3>1. JobAdded(j)
        BY <1>1, <2>2
      <3>2. jobs'[j].def.depends_on \in DOMAIN jobs /\ jobs'[j].attempt_count = 0
        BY <3>1 DEF JobAdded, ParentAcceptable
      <3> QED BY <1>1, <3>2 DEF JobChange
    <2> QED BY <2>1, <2>2
  <1>3. RetryBudget'
    <2> SUFFICES ASSUME NEW j \in DOMAIN jobs'
                 PROVE  /\ jobs'[j].attempt_count <= jobs'[j].def.max_retries + 1
                        /\ jobs'[j].status \in Waiting =>
                                jobs'[j].attempt_count <= jobs'[j].def.max_retries
                        /\ jobs'[j].status = "DEAD_LETTER" =>
                                jobs'[j].attempt_count = jobs'[j].def.max_retries + 1
      BY DEF RetryBudget
    <2>1. jobs'[j].def.max_retries \in Nat /\ jobs'[j].attempt_count \in Nat
      BY <1>0, DefinitionAssumption DEF TypeOK, JobRow, DefinitionRow
    <2>2. CASE j \in DOMAIN jobs
      <3>1. /\ jobs[j].attempt_count <= jobs[j].def.max_retries + 1
            /\ jobs[j].status \in Waiting => jobs[j].attempt_count <= jobs[j].def.max_retries
            /\ jobs[j].status = "DEAD_LETTER" => jobs[j].attempt_count = jobs[j].def.max_retries + 1
            /\ jobs[j].attempt_count \in Nat
        BY <1>0, <2>2, RowFacts DEF Kept, RetryBudget
      <3>2. JobChange(j)
        BY <1>1, <2>2
      <3> QED BY <2>1, <3>1, <3>2 DEF JobChange, Unmoved, HandedOut, Begun, TakenBack,
                                      Concluded, CalledOff, Waiting, Held
    <2>3. CASE j \notin DOMAIN jobs
      BY <1>1, <2>1, <2>3 DEF JobAdded
    <2> QED BY <2>2, <2>3
  <1>4. KeyAdmitsOnce'
    <2> SUFFICES ASSUME NEW i \in DOMAIN jobs', NEW j \in DOMAIN jobs',
                        jobs'[i].key = jobs'[j].key, jobs'[i].key # None
                 PROVE  i = j
      BY DEF KeyAdmitsOnce
    <2>1. \A k \in DOMAIN jobs : jobs'[k].key = jobs[k].key
      BY <1>1 DEF JobChange
    <2>2. CASE i \in DOMAIN jobs /\ j \in DOMAIN jobs
      BY <2>1, <2>2 DEF Kept, KeyAdmitsOnce
    <2>3. CASE i \in DOMAIN jobs /\ j \notin DOMAIN jobs
      BY <1>1, <2>1, <2>3 DEF JobAdded, KeyUsed
    <2>4. CASE i \notin DOMAIN jobs /\ j \in DOMAIN jobs
      BY <1>1, <2>1, <2>4 DEF JobAdded, KeyUsed
    <2>5. CASE i \notin DOMAIN jobs /\ j \notin DOMAIN jobs
      BY <1>1, <2>5
    <2> QED BY <2>2, <2>3, <2>4, <2>5
  <1>5. ResultsOfEnded'
    <2> SUFFICES ASSUME NEW j \in DOMAIN jobs'
                 PROVE  j \in DOMAIN results' <=>
                            jobs'[j].status \in {"SUCCEEDED", "FAILED", "DEAD_LETTER"}
      BY DEF ResultsOfEnded
    <2>1. CASE j \in DOMAIN jobs
      BY <1>1, <2>1 DEF Kept, ResultsOfEnded, JobChange, Unmoved, HandedOut, Begun, TakenBack,
                        Concluded, CalledOff, Answered, AnswerKept, Waiting, Held
    <2>2. CASE j \notin DOMAIN jobs
      BY <1>1, <2>2 DEF JobAdded
    <2> QED BY <2>1, <2>2
  <1> QED BY <1>0, <1>2, <1>3, <1>4, <1>5 DEF Kept, Base

LEMMA KeptInvariant == Spec => []Kept
  <1>1. Init => Kept
    <2> SUFFICES ASSUME Init PROVE Kept
      OBVIOUS
    <2>1. TypeOK /\ DOMAIN jobs = {} /\ DOMAIN attempts = {}
      BY DEF Init, TypeOK, Empty
    <2>2. Unfinished = {}
      BY <2>1 DEF Unfinished
    <2>3. Core
      BY <2>1, <2>2 DEF Core, Ownership, NewestHolds, HeldHasHolder, FenceHistory,
                        FencesUnique, FencesFill, SlotExclusive
    <2> QED BY <2>1, <2>3 DEF Kept, Base, DependencyRespected, RetryBudget, KeyAdmitsOnce,
                              ResultsOfEnded
  <1> QED BY <1>1, NextKept, PTL DEF Spec

(***************************************************************************)
(* fail_attempt's comparison keeps the budget: however its attempts fail   *)
(* or are lost, a job is handed out at most max_retries + 1 times, and is  *)
(* a DEAD_LETTER only when all of them are used up.                        *)
(***************************************************************************)
THEOREM RetriesAreBounded == Spec => []RetryBudget
  <1>1. Kept => RetryBudget
    BY DEF Kept
  <1> QED BY <1>1, KeptInvariant, PTL

(***************************************************************************)
(* No attempt of a dependent job exists unless its parent succeeded,       *)
(* although admission and claim read the parent's row without locking it.  *)
(***************************************************************************)
THEOREM DependenciesHold == Spec => []DependencyRespected
  <1>1. Kept => DependencyRespected
    BY DEF Kept, Base
  <1> QED BY <1>1, KeptInvariant, PTL

(***************************************************************************)
(* An idempotency key admits one job, for ever.                            *)
(***************************************************************************)
THEOREM KeysAdmitOnce == Spec => []KeyAdmitsOnce
  <1>1. Kept => KeyAdmitsOnce
    BY DEF Kept
  <1> QED BY <1>1, KeptInvariant, PTL

-----------------------------------------------------------------------------
(* The mapping to Delivery, one job at a time. *)
LEMMA BarValues ==
    ASSUME NEW j \in JobId
    PROVE  /\ phaseBar[j] = IF j \in DOMAIN jobs THEN PhaseOf(jobs[j].status) ELSE "absent"
           /\ triesBar[j] = IF j \in DOMAIN jobs THEN jobs[j].attempt_count ELSE 0
           /\ budgetBar[j] = IF j \in DOMAIN jobs THEN jobs[j].def.max_retries ELSE 0
           /\ needsBar[j] = IF j \in DOMAIN jobs THEN jobs[j].def.depends_on ELSE None
           /\ answerBar[j] = IF j \in DOMAIN results THEN results[j] ELSE None
           /\ phaseBar'[j] = IF j \in DOMAIN jobs' THEN PhaseOf(jobs'[j].status) ELSE "absent"
           /\ triesBar'[j] = IF j \in DOMAIN jobs' THEN jobs'[j].attempt_count ELSE 0
           /\ budgetBar'[j] = IF j \in DOMAIN jobs' THEN jobs'[j].def.max_retries ELSE 0
           /\ needsBar'[j] = IF j \in DOMAIN jobs' THEN jobs'[j].def.depends_on ELSE None
           /\ answerBar'[j] = IF j \in DOMAIN results' THEN results'[j] ELSE None
  BY DEF phaseBar, triesBar, budgetBar, needsBar, answerBar

LEMMA Phases ==
    /\ \A s \in Waiting : PhaseOf(s) = "waiting"
    /\ \A s \in Held : PhaseOf(s) = "held"
    /\ PhaseOf("SUCCEEDED") = "succeeded" /\ PhaseOf("FAILED") = "failed"
    /\ PhaseOf("DEAD_LETTER") = "exhausted" /\ PhaseOf("CANCELLED") = "withdrawn"
  BY DEF PhaseOf, Waiting, Held

LEMMA PromiseStep ==
    ASSUME Kept, Kept', AllJobs, NEW j \in JobId
    PROVE  Promise!Step(j) \/ Promise!Same(j)
  <1>0. TypeOK /\ TypeOK'
    BY DEF Kept, Base, Core
  <1>1. CASE j \in DOMAIN jobs
    <2>1. JobChange(j) /\ j \in DOMAIN jobs' /\ jobs'[j].def = jobs[j].def
      BY <1>1 DEF AllJobs, JobChange
    <2>2. /\ phaseBar[j] = PhaseOf(jobs[j].status) /\ phaseBar'[j] = PhaseOf(jobs'[j].status)
          /\ triesBar[j] = jobs[j].attempt_count /\ triesBar'[j] = jobs'[j].attempt_count
          /\ budgetBar[j] = jobs[j].def.max_retries /\ budgetBar'[j] = budgetBar[j]
          /\ needsBar[j] = jobs[j].def.depends_on /\ needsBar'[j] = needsBar[j]
      BY <1>1, <2>1, BarValues
    <2>3. AnswerKept(j) => answerBar'[j] = answerBar[j]
      BY BarValues DEF AnswerKept
    <2>4. CASE Concluded(j) /\ Answered(j)
      <3>1. answerBar[j] = None /\ answerBar'[j] \in Payload
        BY <1>1, <2>4, BarValues DEF Concluded, Answered, Kept, ResultsOfEnded, Held
      <3>2. Promise!Conclude(j)
        BY <2>2, <2>4, <3>1, Phases DEF Promise!Conclude, Concluded, Payload
      <3> QED BY <3>2 DEF Promise!Step
    <2>5. CASE AnswerKept(j) /\ Unmoved(j)
      BY <2>2, <2>3, <2>5 DEF Promise!Same, Unmoved
    <2>6. CASE AnswerKept(j) /\ HandedOut(j)
      <3>1. needsBar[j] # None => phaseBar[needsBar[j]] = "succeeded"
        BY <1>0, <1>1, <2>2, <2>6, RowFacts, BarValues, Phases DEF HandedOut
      <3>2. triesBar[j] <= budgetBar[j]
        BY <1>1, <2>2, <2>6 DEF HandedOut, Kept, RetryBudget
      <3>3. Promise!HandOut(j)
        BY <2>2, <2>3, <2>6, <3>1, <3>2, Phases DEF Promise!HandOut, HandedOut, Held
      <3> QED BY <3>3 DEF Promise!Step
    <2>7. CASE AnswerKept(j) /\ Begun(j)
      BY <2>2, <2>3, <2>7, Phases DEF Promise!Same, Begun, Held
    <2>8. CASE AnswerKept(j) /\ TakenBack(j)
      <3>1. Promise!TakeBack(j)
        BY <2>2, <2>3, <2>8, Phases DEF Promise!TakeBack, TakenBack, Waiting
      <3> QED BY <3>1 DEF Promise!Step
    <2>9. CASE AnswerKept(j) /\ CalledOff(j)
      <3>1. Promise!Withdraw(j)
        BY <2>2, <2>3, <2>9, Phases DEF Promise!Withdraw, CalledOff
      <3> QED BY <3>1 DEF Promise!Step
    <2> QED BY <2>1, <2>4, <2>5, <2>6, <2>7, <2>8, <2>9 DEF JobChange
  <1>2. CASE j \notin DOMAIN jobs /\ j \in DOMAIN jobs'
    <2> DEFINE parent == jobs'[j].def.depends_on
    <2>1. JobAdded(j)
      BY <1>2 DEF AllJobs
    <2>2. /\ phaseBar[j] = "absent" /\ phaseBar'[j] = PhaseOf("QUEUED") /\ triesBar'[j] = 0
          /\ budgetBar'[j] = jobs'[j].def.max_retries /\ needsBar'[j] = parent
          /\ answerBar'[j] = None
      BY <1>2, <2>1, BarValues DEF JobAdded
    <2>3. budgetBar'[j] \in Nat
      BY <2>1, <2>2, DefinitionAssumption DEF JobAdded, DefinitionRow
    <2>4. ASSUME parent # None
          PROVE  phaseBar[parent] \notin {"absent"} \cup (Promise!Over \ {"succeeded"})
      <3>1. parent \in DOMAIN jobs /\ jobs[parent].status \notin Unsuccessful
        BY <2>1, <2>4 DEF JobAdded, ParentAcceptable
      <3>2. jobs[parent].status \in Waiting \cup Held \cup {"SUCCEEDED"} /\ parent \in JobId
        BY <1>0, <3>1, RowFacts DEF Unsuccessful, TERMINAL, STATUSES, Waiting, Held
      <3>3. phaseBar[parent] = PhaseOf(jobs[parent].status)
        BY <3>1, <3>2, BarValues
      <3>4. phaseBar[parent] \in {"waiting", "held", "succeeded"}
        BY <3>2, <3>3, Phases
      <3> QED BY <3>4 DEF Promise!Over
    <2>5. Promise!Submit(j)
      BY <2>2, <2>3, <2>4, Phases DEF Promise!Submit, Waiting
    <2> QED BY <2>5 DEF Promise!Step
  <1>3. CASE j \notin DOMAIN jobs /\ j \notin DOMAIN jobs'
    <2>1. j \notin DOMAIN results /\ j \notin DOMAIN results'
      BY <1>0, <1>3 DEF TypeOK
    <2>2. /\ phaseBar'[j] = phaseBar[j] /\ triesBar'[j] = triesBar[j]
          /\ budgetBar'[j] = budgetBar[j] /\ needsBar'[j] = needsBar[j]
          /\ answerBar'[j] = answerBar[j]
      BY <1>3, <2>1, BarValues
    <2> QED BY <2>2 DEF Promise!Same
  <1> QED BY <1>1, <1>2, <1>3

(***************************************************************************)
(* The tables and transactions implement Delivery: whatever the workers,   *)
(* the clients and the clock do, every transaction is for every job one of *)
(* the promise's steps or invisible to the client.                         *)
(***************************************************************************)
THEOREM PromiseKept == Spec => KeepsPromise
  <1>1. Init => Promise!Init
    BY DEF Init, Empty, Promise!Init, phaseBar, triesBar, budgetBar, needsBar, answerBar
  <1>2. Kept /\ Kept' /\ [Next]_vars => [Promise!Next]_(Promise!vars)
    BY NextJobs, PromiseStep DEF Kept, Promise!Next
  <1> QED BY <1>1, <1>2, KeptInvariant, PTL DEF Spec, KeepsPromise, Promise!Spec

-----------------------------------------------------------------------------
(* A finished attempt has no time left to lose. *)
TimersStopped ==
    \A c \in DOMAIN attempts : Finished(attempts[c]) => attempts[c].lease = 0 /\ attempts[c].cap = 0

(* What a step does to the attempts: it keeps them, leaves the finished    *)
(* ones as they are, and stops the timers of the ones it finishes.         *)
AttemptsKept ==
    /\ \A c \in DOMAIN attempts :
        /\ c \in DOMAIN attempts'
        /\ Finished(attempts[c]) => attempts'[c] = attempts[c]
    /\ TimersStopped'

(* One unfinished attempt is replaced. *)
LEMMA OneAttempt ==
    ASSUME TypeOK, TimersStopped, NEW d \in Unfinished, NEW row \in AttemptRow,
           attempts' = [attempts EXCEPT ![d] = row],
           row.outcome # None => row.lease = 0 /\ row.cap = 0
    PROVE  AttemptsKept
  <1>1. attempts \in [DOMAIN attempts -> AttemptRow] /\ d \in DOMAIN attempts
        /\ ~Finished(attempts[d])
    BY DEF TypeOK, Unfinished
  <1>2. /\ DOMAIN attempts' = DOMAIN attempts /\ attempts'[d] = row
        /\ \A c \in DOMAIN attempts : c # d => attempts'[c] = attempts[c]
    BY <1>1
  <1> QED BY <1>1, <1>2 DEF AttemptsKept, TimersStopped, Finished

LEMMA NextAttempts == TypeOK /\ TimersStopped /\ [Next]_vars => AttemptsKept
  <1> SUFFICES ASSUME TypeOK, TimersStopped, [Next]_vars PROVE AttemptsKept
    OBVIOUS
  <1>0. attempts \in [DOMAIN attempts -> AttemptRow]
    BY DEF TypeOK
  <1>same. attempts' = attempts => AttemptsKept
    BY DEF AttemptsKept, TimersStopped
  <1>1. CASE AdmitAny
    BY <1>1, <1>same DEF AdmitAny, Admit
  <1>2. CASE \E j \in JobId : ClaimFor(j)
    <2> PICK c, row : /\ c \notin DOMAIN attempts /\ attempts' = Put(attempts, c, row)
                      /\ row.outcome = None
      BY <1>2 DEF ClaimFor, Claim, NewAttempt
    <2>1. /\ DOMAIN attempts' = DOMAIN attempts \cup {c} /\ attempts'[c] = row
          /\ \A d \in DOMAIN attempts : attempts'[d] = attempts[d]
      BY DEF Put
    <2> QED BY <2>1 DEF AttemptsKept, TimersStopped, Finished
  <1>3. CASE \E w \in WorkerId, j \in DOMAIN jobs, c \in DOMAIN attempts : Report(w, j, c)
    <2> PICK w \in WorkerId, j \in DOMAIN jobs, c \in DOMAIN attempts : Report(w, j, c)
      BY <1>3
    <2>1. c \in Unfinished /\ attempts[c] \in AttemptRow /\ ~Finished(attempts[c])
      BY <1>0 DEF Report, Start, Renew, FinishSucceeded, FinishFailed, Owned, Unfinished
    <2>2. CASE Start(w, j, c)
      <3>1. jobs[j].def.timeout \in Nat
        BY DefinitionAssumption DEF TypeOK, JobRow, DefinitionRow
      <3> DEFINE row == StartedAttempt(attempts[c], jobs[j].def.timeout)
      <3>2. row \in AttemptRow /\ row.outcome = attempts[c].outcome
        BY <2>1, <3>1, StartedAttemptType
      <3>3. attempts' = [attempts EXCEPT ![c] = row]
        BY <2>2 DEF Start
      <3> HIDE DEF row
      <3> QED BY <2>1, <3>2, <3>3, OneAttempt DEF Finished
    <2>3. CASE Renew(w, j, c)
      <3>1. Smaller(LeaseSeconds, attempts[c].cap) \in Nat
        BY <2>1, TimingAssumption DEF Smaller, AttemptRow
      <3> DEFINE row == RenewedAttempt(attempts[c], Smaller(LeaseSeconds, attempts[c].cap))
      <3>2. row \in AttemptRow /\ row.outcome = attempts[c].outcome
        BY <2>1, <3>1, RenewedAttemptType
      <3>3. attempts' = [attempts EXCEPT ![c] = row]
        BY <2>3 DEF Renew
      <3> HIDE DEF row
      <3> QED BY <2>1, <3>2, <3>3, OneAttempt DEF Finished
    <2>4. ASSUME NEW outcome \in {"SUCCEEDED", "FAILED"}, NEW body \in Output \cup Error,
                 attempts' = [attempts EXCEPT ![c] = FinishedAttempt(@, outcome, body)]
          PROVE  AttemptsKept
      <3> DEFINE row == FinishedAttempt(attempts[c], outcome, body)
      <3>1. row \in AttemptRow
        BY <2>1, FinishedAttemptType DEF Outcome
      <3>2. row.lease = 0 /\ row.cap = 0
        BY <2>1 DEF FinishedAttempt, AttemptRow
      <3>3. attempts' = [attempts EXCEPT ![c] = row]
        BY <2>4
      <3> HIDE DEF row
      <3> QED BY <2>1, <3>1, <3>2, <3>3, OneAttempt
    <2>5. CASE \E output \in Output : FinishSucceeded(w, j, c, output)
      BY <2>4, <2>5 DEF FinishSucceeded
    <2>6. CASE \E error \in Error, retryable \in BOOLEAN, delay \in 0 .. (2 * MaxBackoff) :
                  FinishFailed(w, j, c, error, retryable, delay)
      BY <2>4, <2>6 DEF FinishFailed
    <2> QED BY <2>2, <2>3, <2>5, <2>6 DEF Report
  <1>4. CASE \E j \in JobId : Cancel(j)
    BY <1>4, <1>same DEF Cancel
  <1>5. CASE \E E \in SUBSET Expirable, B \in SUBSET DOMAIN jobs : RecoverSome(E, B)
    <2> PICK E \in SUBSET Expirable, B \in SUBSET DOMAIN jobs : RecoverSome(E, B)
      BY <1>5
    <2>1. attempts' = [ c \in DOMAIN attempts |->
                            IF c \in E
                            THEN FinishedAttempt(attempts[c], "LEASE_EXPIRED", ExpiredError)
                            ELSE attempts[c] ]
      BY DEF RecoverSome, RecoverJobs
    <2>2. \A c \in E : c \in DOMAIN attempts /\ ~Finished(attempts[c])
      BY DEF Expirable, Unfinished
    <2>3. \A c \in DOMAIN attempts :
            LET row == FinishedAttempt(attempts[c], "LEASE_EXPIRED", ExpiredError)
            IN  row.lease = 0 /\ row.cap = 0
      BY <1>0 DEF FinishedAttempt, AttemptRow
    <2> QED BY <2>1, <2>2, <2>3 DEF AttemptsKept, TimersStopped
  <1>6. CASE Tick
    <2>1. attempts' = [ c \in DOMAIN attempts |-> OlderAttempt(attempts[c]) ]
      BY <1>6 DEF Tick
    <2>2. ASSUME NEW c \in DOMAIN attempts, Finished(attempts[c])
          PROVE  OlderAttempt(attempts[c]) = attempts[c]
      <3>1. attempts[c] \in AttemptRow /\ attempts[c].lease = 0 /\ attempts[c].cap = 0
        BY <1>0, <2>2 DEF TimersStopped
      <3> QED BY <3>1 DEF OlderAttempt, Down, AttemptRow
    <2>3. \A c \in DOMAIN attempts : Finished(OlderAttempt(attempts[c])) => Finished(attempts[c])
      BY <1>0, OlderAttemptType DEF Finished
    <2> QED BY <2>1, <2>2, <2>3 DEF AttemptsKept, TimersStopped
  <1>7. CASE UNCHANGED vars
    BY <1>7, <1>same DEF vars
  <1> QED BY <1>1, <1>2, <1>3, <1>4, <1>5, <1>6, <1>7 DEF Next

(***************************************************************************)
(* Nothing that has ended changes: terminal jobs, results and finished     *)
(* attempts are final under every transaction, so a late, repeated or      *)
(* reordered start, renew, finish, cancel or sweep cannot rewrite them.    *)
(***************************************************************************)
THEOREM HistoryStaysFinal == Spec => HistoryIsFinal
  <1> DEFINE A ==
        /\ \A j \in DOMAIN jobs : jobs[j].status \in TERMINAL =>
            /\ jobs'[j].status = jobs[j].status
            /\ jobs'[j].attempt_count = jobs[j].attempt_count
        /\ \A j \in DOMAIN results : j \in DOMAIN results' /\ results'[j] = results[j]
        /\ \A c \in DOMAIN attempts : Finished(attempts[c]) =>
            c \in DOMAIN attempts' /\ attempts'[c] = attempts[c]
  <1>1. Init => TimersStopped
    BY DEF Init, Empty, TimersStopped
  <1>2. Kept /\ TimersStopped /\ [Next]_vars => TimersStopped'
    BY NextAttempts DEF AttemptsKept, Kept, Base, Core
  <1>3. Kept /\ TimersStopped /\ [Next]_vars => [A]_vars
    <2> SUFFICES ASSUME Kept, TimersStopped, Next PROVE A
      OBVIOUS
    <2>1. AllJobs /\ AttemptsKept /\ TypeOK
      BY NextJobs, NextAttempts DEF Kept, Base, Core
    <2>2. \A j \in DOMAIN jobs : JobChange(j)
      BY <2>1 DEF AllJobs
    <2>3. \A j \in DOMAIN jobs : jobs[j].status \in TERMINAL => Unmoved(j)
      BY <2>2 DEF JobChange, HandedOut, Begun, TakenBack, Concluded, CalledOff, Waiting, Held,
                  TERMINAL
    <2>4. \A j \in DOMAIN results : j \in DOMAIN jobs /\ jobs[j].status \notin Held
      BY <2>1 DEF TypeOK, Kept, ResultsOfEnded, Held
    <2>5. \A j \in DOMAIN results : j \in DOMAIN results' /\ results'[j] = results[j]
      BY <2>2, <2>4 DEF JobChange, Concluded, AnswerKept
    <2> QED BY <2>1, <2>3, <2>5 DEF Unmoved, AttemptsKept
  <1> QED BY <1>1, <1>2, <1>3, KeptInvariant, PTL DEF Spec, HistoryIsFinal

-----------------------------------------------------------------------------
(* An attempt is its job's, worker's and slot's for good. *)
SamePlace(a, b) == a.job = b.job /\ a.worker = b.worker /\ a.slot = b.slot

AttemptsStay ==
    \A c \in DOMAIN attempts : c \in DOMAIN attempts' /\ SamePlace(attempts'[c], attempts[c])

LEMMA OneAttemptStays ==
    ASSUME TypeOK, NEW c \in DOMAIN attempts, NEW row, SamePlace(row, attempts[c]),
           attempts' = [attempts EXCEPT ![c] = row]
    PROVE  AttemptsStay
  BY DEF AttemptsStay, SamePlace, TypeOK

LEMMA NextAttemptsStay ==
    ASSUME TypeOK, [Next]_vars
    PROVE  AttemptsStay
  <1>0. attempts \in [DOMAIN attempts -> AttemptRow] /\ Outcome = {"SUCCEEDED", "FAILED", "LEASE_EXPIRED"}
    BY DEF TypeOK, Outcome
  <1>same. attempts' = attempts => AttemptsStay
    BY DEF AttemptsStay, SamePlace
  <1>1. CASE AdmitAny
    BY <1>1, <1>same DEF AdmitAny, Admit
  <1>2. CASE \E i \in JobId : ClaimFor(i)
    <2> PICK c, row : c \notin DOMAIN attempts /\ attempts' = Put(attempts, c, row)
      BY <1>2 DEF ClaimFor, Claim
    <2> QED BY DEF AttemptsStay, SamePlace, Put
  <1>3. CASE \E w \in WorkerId, i \in DOMAIN jobs, c \in DOMAIN attempts : Report(w, i, c)
    <2> PICK w \in WorkerId, i \in DOMAIN jobs, c \in DOMAIN attempts : Report(w, i, c)
      BY <1>3
    <2>0. attempts[c] \in AttemptRow
      BY <1>0
    <2>1. CASE Start(w, i, c)
      <3>1. jobs[i].def.timeout \in Nat
        BY DefinitionAssumption DEF TypeOK, JobRow, DefinitionRow
      <3>2. SamePlace(StartedAttempt(attempts[c], jobs[i].def.timeout), attempts[c])
        BY <2>0, <3>1, StartedAttemptType DEF SamePlace
      <3> QED BY <2>1, <3>2, OneAttemptStays DEF Start
    <2>2. CASE Renew(w, i, c)
      <3>1. Smaller(LeaseSeconds, attempts[c].cap) \in Nat
        BY <2>0, TimingAssumption DEF Smaller, AttemptRow
      <3>2. SamePlace(RenewedAttempt(attempts[c], Smaller(LeaseSeconds, attempts[c].cap)), attempts[c])
        BY <2>0, <3>1, RenewedAttemptType DEF SamePlace
      <3> QED BY <2>2, <3>2, OneAttemptStays DEF Renew
    <2>3. ASSUME NEW outcome \in {"SUCCEEDED", "FAILED"}, NEW body \in Output \cup Error,
                 attempts' = [attempts EXCEPT ![c] = FinishedAttempt(@, outcome, body)]
          PROVE  AttemptsStay
      <3>1. SamePlace(FinishedAttempt(attempts[c], outcome, body), attempts[c])
        BY <1>0, <2>0, FinishedAttemptType DEF SamePlace
      <3> QED BY <2>3, <3>1, OneAttemptStays
    <2>4. CASE \E output \in Output : FinishSucceeded(w, i, c, output)
      BY <2>3, <2>4 DEF FinishSucceeded
    <2>5. CASE \E error \in Error, retryable \in BOOLEAN, delay \in 0 .. (2 * MaxBackoff) :
                  FinishFailed(w, i, c, error, retryable, delay)
      BY <2>3, <2>5 DEF FinishFailed
    <2> QED BY <2>1, <2>2, <2>4, <2>5 DEF Report
  <1>4. CASE \E i \in JobId : Cancel(i)
    BY <1>4, <1>same DEF Cancel
  <1>5. CASE \E E \in SUBSET Expirable, B \in SUBSET DOMAIN jobs : RecoverSome(E, B)
    <2> PICK E \in SUBSET Expirable :
            attempts' = [ c \in DOMAIN attempts |->
                            IF c \in E
                            THEN FinishedAttempt(attempts[c], "LEASE_EXPIRED", ExpiredError)
                            ELSE attempts[c] ]
      BY <1>5 DEF RecoverSome, RecoverJobs
    <2>1. \A c \in DOMAIN attempts :
            SamePlace(FinishedAttempt(attempts[c], "LEASE_EXPIRED", ExpiredError), attempts[c])
      BY <1>0, FinishedAttemptType DEF SamePlace
    <2> QED BY <2>1 DEF AttemptsStay, SamePlace
  <1>6. CASE Tick
    BY <1>0, <1>6, OlderAttemptType DEF Tick, AttemptsStay, SamePlace
  <1>7. CASE UNCHANGED vars
    BY <1>7, <1>same DEF vars
  <1> QED BY <1>1, <1>2, <1>3, <1>4, <1>5, <1>6, <1>7 DEF Next
=============================================================================
