--------------------------- MODULE JobStoreProofs ---------------------------
(***************************************************************************)
(* What holds of the job tables for any number of jobs, workers, slots and *)
(* claims and any timing: proofs about JobStore.                           *)
(***************************************************************************)
EXTENDS JobStore, TLAPS

(* A refused or accepted delay is a number, whatever was drawn. *)
LEMMA DelaysAreNumbers ==
    ASSUME NEW row, NEW d \in Delays(row) PROVE d \in Nat
  BY TimingAssumption DEF Delays

(* fail_attempt ends in one of three states, and keeps a row a row. *)
LEMMA FailedRowType ==
    ASSUME NEW row \in JobRow, NEW retryable \in BOOLEAN, NEW d \in Nat
    PROVE  /\ FailedStatus(row, retryable) \in {"RETRY_WAIT", "DEAD_LETTER", "FAILED"}
           /\ FailedRow(row, retryable, d) \in JobRow
           /\ FailedRow(row, retryable, d).status = FailedStatus(row, retryable)
           /\ FailedRow(row, retryable, d).attempt_count = row.attempt_count
           /\ FailedRow(row, retryable, d).key = row.key
           /\ FailedRow(row, retryable, d).def = row.def
           /\ FailedRow(row, retryable, d).age = row.age
  <1>1. FailedStatus(row, retryable) \in {"RETRY_WAIT", "DEAD_LETTER", "FAILED"}
    BY DEF FailedStatus
  <1>2. FailedRow(row, retryable, d) =
            [row EXCEPT !.status = FailedStatus(row, retryable),
                        !.wait = IF FailedStatus(row, retryable) = "RETRY_WAIT" THEN d ELSE @]
    BY DEF FailedRow
  <1> QED BY <1>1, <1>2 DEF JobRow, STATUSES

(* The state an expired lease leaves its job in. *)
ExpiredStatus(row) ==
    IF row.attempt_count <= row.def.max_retries THEN "RETRY_WAIT" ELSE "DEAD_LETTER"

LEMMA ExpiredRowType ==
    ASSUME NEW row \in JobRow, NEW d \in Nat
    PROVE  /\ ExpiredRow(row, d) \in JobRow
           /\ ExpiredRow(row, d).status = ExpiredStatus(row)
           /\ ExpiredRow(row, d).attempt_count = row.attempt_count
           /\ ExpiredRow(row, d).key = row.key
           /\ ExpiredRow(row, d).def = row.def
           /\ ExpiredRow(row, d).age = row.age
  <1>1. row.attempt_count \in Nat /\ row.def.max_retries \in Nat
    BY DefinitionAssumption DEF JobRow, DefinitionRow
  <1>2. FailedStatus(row, TRUE) = ExpiredStatus(row)
    BY <1>1 DEF FailedStatus, ExpiredStatus
  <1>3. ExpiredRow(row, d) =
            [row EXCEPT !.status = ExpiredStatus(row),
                        !.wait = IF ExpiredStatus(row) = "RETRY_WAIT" THEN d ELSE @]
    BY <1>2 DEF FailedRow, ExpiredRow
  <1>4. ExpiredStatus(row) \in STATUSES
    BY DEF ExpiredStatus, STATUSES
  <1> QED BY <1>3, <1>4 DEF JobRow

(* The other rewrites of a job's row. *)
LEMMA MovedType ==
    ASSUME NEW row \in JobRow, NEW s \in STATUSES
    PROVE  /\ Moved(row, s) \in JobRow
           /\ Moved(row, s).status = s
           /\ Moved(row, s).attempt_count = row.attempt_count
           /\ Moved(row, s).key = row.key
           /\ Moved(row, s).def = row.def
           /\ Moved(row, s).age = row.age
  BY DEF Moved, JobRow

LEMMA LeasedRowType ==
    ASSUME NEW row \in JobRow
    PROVE  /\ LeasedRow(row) \in JobRow
           /\ LeasedRow(row).status = "LEASED"
           /\ LeasedRow(row).attempt_count = row.attempt_count + 1
           /\ LeasedRow(row).key = row.key
           /\ LeasedRow(row).def = row.def
           /\ LeasedRow(row).age = row.age
  <1>1. row.attempt_count + 1 \in Nat
    BY DEF JobRow
  <1>2. "LEASED" \in STATUSES
    BY DEF STATUSES
  <1> QED BY <1>1, <1>2 DEF LeasedRow, JobRow

LEMMA OlderRowType ==
    ASSUME NEW row \in JobRow
    PROVE  /\ OlderRow(row) \in JobRow
           /\ OlderRow(row).status = row.status
           /\ OlderRow(row).attempt_count = row.attempt_count
           /\ OlderRow(row).key = row.key
           /\ OlderRow(row).def = row.def
  <1>1. Down(row.wait) \in Nat
    BY DEF Down, JobRow
  <1>2. Smaller(row.age + 1, RateWindow + 1) \in 0 .. (RateWindow + 1)
    BY TimingAssumption DEF Smaller, JobRow
  <1> QED BY <1>1, <1>2 DEF OlderRow, JobRow

(* The rewrites of an attempt's row: none changes whose it is. *)
LEMMA NewAttemptType ==
    ASSUME NEW w \in WorkerId, NEW slot \in Slot, NEW j \in JobId, NEW n \in Nat \ {0}
    PROVE  /\ NewAttempt(w, slot, j, n) \in AttemptRow
           /\ NewAttempt(w, slot, j, n).job = j
           /\ NewAttempt(w, slot, j, n).worker = w
           /\ NewAttempt(w, slot, j, n).slot = slot
           /\ NewAttempt(w, slot, j, n).fence = n
           /\ NewAttempt(w, slot, j, n).started <=> FALSE
           /\ NewAttempt(w, slot, j, n).outcome = None
  BY TimingAssumption DEF NewAttempt, AttemptRow

LEMMA StartedAttemptType ==
    ASSUME NEW a \in AttemptRow, NEW t \in Nat
    PROVE  /\ StartedAttempt(a, t) \in AttemptRow
           /\ StartedAttempt(a, t).job = a.job
           /\ StartedAttempt(a, t).worker = a.worker
           /\ StartedAttempt(a, t).slot = a.slot
           /\ StartedAttempt(a, t).fence = a.fence
           /\ StartedAttempt(a, t).started <=> TRUE
           /\ StartedAttempt(a, t).outcome = a.outcome
           /\ StartedAttempt(a, t).body = a.body
  <1>1. t + Grace \in Nat
    BY TimingAssumption
  <1> QED BY <1>1 DEF StartedAttempt, AttemptRow

LEMMA RenewedAttemptType ==
    ASSUME NEW a \in AttemptRow, NEW t \in Nat
    PROVE  /\ RenewedAttempt(a, t) \in AttemptRow
           /\ RenewedAttempt(a, t).job = a.job
           /\ RenewedAttempt(a, t).worker = a.worker
           /\ RenewedAttempt(a, t).slot = a.slot
           /\ RenewedAttempt(a, t).fence = a.fence
           /\ RenewedAttempt(a, t).started = a.started
           /\ RenewedAttempt(a, t).outcome = a.outcome
           /\ RenewedAttempt(a, t).body = a.body
  BY DEF RenewedAttempt, AttemptRow

LEMMA OlderAttemptType ==
    ASSUME NEW a \in AttemptRow
    PROVE  /\ OlderAttempt(a) \in AttemptRow
           /\ OlderAttempt(a).job = a.job
           /\ OlderAttempt(a).worker = a.worker
           /\ OlderAttempt(a).slot = a.slot
           /\ OlderAttempt(a).fence = a.fence
           /\ OlderAttempt(a).started = a.started
           /\ OlderAttempt(a).outcome = a.outcome
           /\ OlderAttempt(a).body = a.body
  <1>1. Down(a.lease) \in Nat /\ Down(a.cap) \in Nat
    BY DEF Down, AttemptRow
  <1> QED BY <1>1 DEF OlderAttempt, AttemptRow

(* A finished attempt is still a row, of the same job and fence. *)
LEMMA FinishedAttemptType ==
    ASSUME NEW a \in AttemptRow, NEW outcome \in Outcome,
           NEW body \in Output \cup Error \cup {ExpiredError}
    PROVE  /\ FinishedAttempt(a, outcome, body) \in AttemptRow
           /\ FinishedAttempt(a, outcome, body).job = a.job
           /\ FinishedAttempt(a, outcome, body).fence = a.fence
           /\ FinishedAttempt(a, outcome, body).worker = a.worker
           /\ FinishedAttempt(a, outcome, body).slot = a.slot
           /\ FinishedAttempt(a, outcome, body).started = a.started
           /\ FinishedAttempt(a, outcome, body).outcome = outcome
           /\ FinishedAttempt(a, outcome, body).body = body
  BY DEF FinishedAttempt, AttemptRow

-----------------------------------------------------------------------------
LEMMA AdmitType ==
    ASSUME TypeOK, NEW j \in JobId, NEW key \in Key \cup {None}, NEW def \in Definition,
           Admit(j, key, def)
    PROVE  TypeOK'
  <1> DEFINE row == [ status |-> "QUEUED", attempt_count |-> 0, wait |-> def.scheduled,
                      age |-> 0, key |-> key, def |-> def ]
  <1>1. row \in JobRow
    BY DefinitionAssumption, TimingAssumption DEF JobRow, STATUSES, DefinitionRow
  <1> HIDE DEF row
  <1>2. jobs' = Put(jobs, j, row) /\ events' = Put(events, j, <<"SUBMITTED", "QUEUED">>)
    BY DEF Admit, row
  <1>3. DOMAIN jobs' = DOMAIN jobs \cup {j} /\ jobs' \in [DOMAIN jobs' -> JobRow]
    BY <1>1, <1>2 DEF Put, TypeOK
  <1>4. <<"SUBMITTED", "QUEUED">> \in Seq(STATUSES \cup {"SUBMITTED"})
    BY DEF STATUSES
  <1>5. events' \in [DOMAIN jobs' -> Seq(STATUSES \cup {"SUBMITTED"})]
    BY <1>2, <1>3, <1>4 DEF Put, TypeOK
  <1> QED BY <1>3, <1>5 DEF TypeOK, Admit

LEMMA ClaimType ==
    ASSUME TypeOK, NEW w \in WorkerId, NEW slot \in Slot, NEW c \in ClaimId,
           NEW j \in DOMAIN jobs, NEW capabilities, Claim(w, slot, c, j, capabilities)
    PROVE  TypeOK'
  <1> DEFINE fence == jobs[j].attempt_count + 1
             row == NewAttempt(w, slot, j, fence)
  <1>1. jobs[j] \in JobRow /\ j \in JobId
    BY DEF TypeOK
  <1>2. row \in AttemptRow /\ row.job = j
    <2>1. fence \in Nat \ {0}
      BY <1>1 DEF JobRow
    <2> HIDE DEF fence
    <2> QED BY <1>1, <2>1, NewAttemptType
  <1> HIDE DEF row
  <1>3. attempts' = Put(attempts, c, row)
    BY DEF Claim, row
  <1>4. /\ DOMAIN attempts' = DOMAIN attempts \cup {c}
        /\ attempts' \in [DOMAIN attempts' -> AttemptRow]
        /\ \A d \in DOMAIN attempts' : attempts'[d].job \in DOMAIN jobs
    BY <1>2, <1>3 DEF Put, TypeOK
  <1>5. DOMAIN jobs' = DOMAIN jobs /\ jobs' \in [DOMAIN jobs' -> JobRow]
    BY <1>1, LeasedRowType DEF Claim, TypeOK
  <1>6. events' \in [DOMAIN jobs' -> Seq(STATUSES \cup {"SUBMITTED"})]
    BY <1>5 DEF Claim, TypeOK, STATUSES
  <1> QED BY <1>4, <1>5, <1>6 DEF TypeOK, Claim

LEMMA StartType ==
    ASSUME TypeOK, NEW w, NEW j \in DOMAIN jobs, NEW c \in DOMAIN attempts, Start(w, j, c)
    PROVE  TypeOK'
  <1>1. DOMAIN jobs' = DOMAIN jobs /\ jobs' \in [DOMAIN jobs' -> JobRow]
    BY MovedType DEF Start, TypeOK, STATUSES
  <1>2. jobs[j].def.timeout \in Nat
    BY DefinitionAssumption DEF TypeOK, JobRow, DefinitionRow
  <1>3. /\ DOMAIN attempts' = DOMAIN attempts
        /\ attempts' \in [DOMAIN attempts' -> AttemptRow]
        /\ \A d \in DOMAIN attempts' : attempts'[d].job = attempts[d].job
    <2> DEFINE a == StartedAttempt(attempts[c], jobs[j].def.timeout)
    <2>1. a \in AttemptRow /\ a.job = attempts[c].job
      BY <1>2, StartedAttemptType DEF TypeOK
    <2>2. attempts' = [attempts EXCEPT ![c] = a]
      BY DEF Start
    <2> HIDE DEF a
    <2> QED BY <2>1, <2>2 DEF TypeOK
  <1>4. events' \in [DOMAIN jobs' -> Seq(STATUSES \cup {"SUBMITTED"})]
    BY <1>1 DEF Start, TypeOK, STATUSES
  <1> QED BY <1>1, <1>3, <1>4 DEF TypeOK, Start

LEMMA RenewType ==
    ASSUME TypeOK, NEW w, NEW j \in DOMAIN jobs, NEW c \in DOMAIN attempts, Renew(w, j, c)
    PROVE  TypeOK'
  <1> DEFINE expiry == Smaller(LeaseSeconds, attempts[c].cap)
  <1>1. expiry \in Nat
    BY TimingAssumption DEF Smaller, TypeOK, AttemptRow
  <1>2. attempts' = [attempts EXCEPT ![c] = RenewedAttempt(@, expiry)]
    BY DEF Renew
  <1> HIDE DEF expiry
  <1>3. /\ DOMAIN attempts' = DOMAIN attempts
        /\ attempts' \in [DOMAIN attempts' -> AttemptRow]
        /\ \A d \in DOMAIN attempts' : attempts'[d].job = attempts[d].job
    BY <1>1, <1>2, RenewedAttemptType DEF TypeOK
  <1> QED BY <1>3 DEF TypeOK, Renew

LEMMA FinishSucceededType ==
    ASSUME TypeOK, NEW w, NEW j \in DOMAIN jobs, NEW c \in DOMAIN attempts,
           NEW output \in Output, FinishSucceeded(w, j, c, output)
    PROVE  TypeOK'
  <1>1. DOMAIN jobs' = DOMAIN jobs /\ jobs' \in [DOMAIN jobs' -> JobRow]
    BY MovedType DEF FinishSucceeded, TypeOK, STATUSES
  <1>2. /\ DOMAIN attempts' = DOMAIN attempts
        /\ attempts' \in [DOMAIN attempts' -> AttemptRow]
        /\ \A d \in DOMAIN attempts' : attempts'[d].job = attempts[d].job
    BY FinishedAttemptType DEF FinishSucceeded, TypeOK, Outcome
  <1>3. /\ DOMAIN results' \subseteq DOMAIN jobs
        /\ results' \in [DOMAIN results' -> Output \cup Error \cup {ExpiredError}]
    BY DEF FinishSucceeded, TypeOK, Put
  <1>4. events' \in [DOMAIN jobs' -> Seq(STATUSES \cup {"SUBMITTED"})]
    BY <1>1 DEF FinishSucceeded, TypeOK, STATUSES
  <1> QED BY <1>1, <1>2, <1>3, <1>4 DEF TypeOK

LEMMA FinishFailedType ==
    ASSUME TypeOK, NEW w, NEW j \in DOMAIN jobs, NEW c \in DOMAIN attempts,
           NEW error \in Error, NEW retryable \in BOOLEAN, NEW delay \in Nat,
           FinishFailed(w, j, c, error, retryable, delay)
    PROVE  TypeOK'
  <1> DEFINE status == FailedStatus(jobs[j], retryable)
  <1>0. jobs[j] \in JobRow
    BY DEF TypeOK
  <1>1. /\ attempts' = [attempts EXCEPT ![c] = FinishedAttempt(@, "FAILED", error)]
        /\ jobs' = [jobs EXCEPT ![j] = FailedRow(@, retryable, delay)]
        /\ results' = IF status = "RETRY_WAIT" THEN results ELSE Put(results, j, error)
        /\ events' = [events EXCEPT ![j] = Append(@, status)]
    BY DEF FinishFailed
  <1>2. status \in STATUSES
    BY <1>0, FailedRowType DEF STATUSES
  <1> HIDE DEF status
  <1>3. DOMAIN jobs' = DOMAIN jobs /\ jobs' \in [DOMAIN jobs' -> JobRow]
    BY <1>0, <1>1, FailedRowType DEF TypeOK
  <1>4. /\ DOMAIN attempts' = DOMAIN attempts
        /\ attempts' \in [DOMAIN attempts' -> AttemptRow]
        /\ \A d \in DOMAIN attempts' : attempts'[d].job = attempts[d].job
    BY <1>1, FinishedAttemptType DEF TypeOK, Outcome
  <1>5. /\ DOMAIN results' \subseteq DOMAIN jobs
        /\ results' \in [DOMAIN results' -> Output \cup Error \cup {ExpiredError}]
    BY <1>1 DEF TypeOK, Put
  <1>6. events' \in [DOMAIN jobs' -> Seq(STATUSES \cup {"SUBMITTED"})]
    BY <1>1, <1>2, <1>3 DEF TypeOK
  <1> QED BY <1>3, <1>4, <1>5, <1>6 DEF TypeOK

LEMMA CancelType ==
    ASSUME TypeOK, NEW j \in JobId, Cancel(j)
    PROVE  TypeOK'
  <1>1. DOMAIN jobs' = DOMAIN jobs /\ jobs' \in [DOMAIN jobs' -> JobRow]
    BY MovedType DEF Cancel, TypeOK, STATUSES
  <1>2. events' \in [DOMAIN jobs' -> Seq(STATUSES \cup {"SUBMITTED"})]
    BY <1>1 DEF Cancel, TypeOK, STATUSES
  <1> QED BY <1>1, <1>2 DEF TypeOK, Cancel

LEMMA TickType ==
    ASSUME TypeOK, Tick
    PROVE  TypeOK'
  <1>1. DOMAIN jobs' = DOMAIN jobs /\ jobs' \in [DOMAIN jobs' -> JobRow]
    BY OlderRowType DEF Tick, TypeOK
  <1>2. /\ DOMAIN attempts' = DOMAIN attempts
        /\ attempts' \in [DOMAIN attempts' -> AttemptRow]
        /\ \A d \in DOMAIN attempts' : attempts'[d].job = attempts[d].job
    BY OlderAttemptType DEF Tick, TypeOK
  <1> QED BY <1>1, <1>2 DEF TypeOK, Tick

LEMMA RecoverType ==
    ASSUME TypeOK, NEW E \in SUBSET Expirable, NEW B,
           NEW delay \in [JobsOf(E) -> Nat], RecoverJobs(E, B, delay)
    PROVE  TypeOK'
  <1> DEFINE mid == ExpiredJobs(E, delay)
  <1>1. E \subseteq DOMAIN attempts /\ JobsOf(E) \subseteq DOMAIN jobs
    BY DEF Expirable, Unfinished, JobsOf, TypeOK
  <1>2. DOMAIN mid = DOMAIN jobs /\ mid \in [DOMAIN jobs -> JobRow]
    BY ExpiredRowType DEF ExpiredJobs, TypeOK
  <1>3. B \subseteq DOMAIN jobs
    BY <1>2 DEF RecoverJobs, Blocked
  <1>4. jobs' = [ j \in DOMAIN jobs |-> IF j \in B THEN Moved(mid[j], "CANCELLED") ELSE mid[j] ]
    BY DEF RecoverJobs
  <1>5. events' = Log(Log(events, JobsOf(E), [j \in JobsOf(E) |-> mid[j].status]),
                      B, [j \in B |-> "CANCELLED"])
    BY DEF RecoverJobs
  <1> HIDE DEF mid
  <1>6. DOMAIN jobs' = DOMAIN jobs /\ jobs' \in [DOMAIN jobs' -> JobRow]
    BY <1>2, <1>4, MovedType DEF STATUSES
  <1>7. /\ DOMAIN attempts' = DOMAIN attempts
        /\ attempts' \in [DOMAIN attempts' -> AttemptRow]
        /\ \A d \in DOMAIN attempts' : attempts'[d].job = attempts[d].job
    BY FinishedAttemptType DEF RecoverJobs, TypeOK, Outcome
  <1>8. /\ DOMAIN results' \subseteq DOMAIN jobs
        /\ results' \in [DOMAIN results' -> Output \cup Error \cup {ExpiredError}]
    BY <1>1 DEF RecoverJobs, ExpiredResults, TypeOK
  <1>9. events' \in [DOMAIN jobs' -> Seq(STATUSES \cup {"SUBMITTED"})]
    <2> DEFINE log == Log(events, JobsOf(E), [j \in JobsOf(E) |-> mid[j].status])
    <2>1. \A j \in DOMAIN jobs : mid[j].status \in STATUSES
      BY <1>2 DEF JobRow
    <2>2. log \in [DOMAIN jobs -> Seq(STATUSES \cup {"SUBMITTED"})]
      BY <1>1, <2>1 DEF Log, TypeOK
    <2> HIDE DEF log
    <2>3. events' = Log(log, B, [j \in B |-> "CANCELLED"])
      BY <1>5 DEF log
    <2> QED BY <1>3, <1>6, <2>2, <2>3 DEF Log, STATUSES
  <1> QED BY <1>6, <1>7, <1>8, <1>9 DEF TypeOK

LEMMA NextType == TypeOK /\ [Next]_vars => TypeOK'
  <1> SUFFICES ASSUME TypeOK, [Next]_vars PROVE TypeOK'
    OBVIOUS
  <1>1. CASE AdmitAny
    BY <1>1, AdmitType DEF AdmitAny
  <1>2. CASE \E j \in JobId : ClaimFor(j)
    BY <1>2, ClaimType DEF ClaimFor
  <1>3. CASE \E w \in WorkerId, j \in DOMAIN jobs, c \in DOMAIN attempts : Report(w, j, c)
    <2> PICK w \in WorkerId, j \in DOMAIN jobs, c \in DOMAIN attempts : Report(w, j, c)
      BY <1>3
    <2>1. 0 .. (2 * MaxBackoff) \subseteq Nat
      BY TimingAssumption
    <2> QED BY <2>1, StartType, RenewType, FinishSucceededType, FinishFailedType DEF Report
  <1>4. CASE \E j \in JobId : Cancel(j)
    BY <1>4, CancelType
  <1>5. CASE \E E \in SUBSET Expirable, B \in SUBSET DOMAIN jobs : RecoverSome(E, B)
    <2> PICK E \in SUBSET Expirable, B \in SUBSET DOMAIN jobs : RecoverSome(E, B)
      BY <1>5
    <2> PICK delay \in [JobsOf(E) -> 0 .. (2 * MaxBackoff)] : RecoverJobs(E, B, delay)
      BY DEF RecoverSome
    <2>1. delay \in [JobsOf(E) -> Nat]
      BY TimingAssumption
    <2> QED BY <2>1, RecoverType
  <1>6. CASE Tick
    BY <1>6, TickType
  <1>7. CASE UNCHANGED vars
    BY <1>7 DEF vars, TypeOK
  <1> QED BY <1>1, <1>2, <1>3, <1>4, <1>5, <1>6, <1>7 DEF Next

(***************************************************************************)
(* Type correctness, with the foreign keys from attempts and results to    *)
(* jobs: every transaction leaves well-formed tables.                      *)
(***************************************************************************)
THEOREM TypeCorrect == Spec => []TypeOK
  <1>1. Init => TypeOK
    BY DEF Init, TypeOK, Empty
  <1> QED BY <1>1, NextType, PTL DEF Spec

-----------------------------------------------------------------------------
(***************************************************************************)
(* Ownership is not inductive alone.  That the newest attempt is the only  *)
(* unfinished one needs the uniqueness of fences; that a new attempt gets  *)
(* a new fence needs all fences to be at most attempt_count; and that a    *)
(* slot is free when it is claimed needs nothing else.                     *)
(***************************************************************************)
Core == TypeOK /\ Ownership /\ FenceHistory /\ SlotExclusive

(* An attempt without an outcome is unfinished. *)
LEMMA UnfinishedDef ==
    \A c : c \in Unfinished <=> c \in DOMAIN attempts /\ attempts[c].outcome = None
  BY DEF Unfinished, Finished


(* A job has at most one unfinished attempt. *)
LEMMA OneHolder ==
    ASSUME Core, NEW c \in Unfinished, NEW d \in Unfinished, attempts[c].job = attempts[d].job
    PROVE  c = d
  BY UnfinishedDef DEF Core, Ownership, NewestHolds, FenceHistory, FencesUnique

(* Fences never run ahead of the counter. *)
LEMMA FenceBound ==
    ASSUME Core, NEW c \in DOMAIN attempts
    PROVE  /\ attempts[c].fence \in 1 .. jobs[attempts[c].job].attempt_count
           /\ attempts[c].job \in DOMAIN jobs
           /\ jobs[attempts[c].job] \in JobRow
           /\ attempts[c] \in AttemptRow
  <1>1. attempts[c].job \in DOMAIN jobs /\ jobs[attempts[c].job] \in JobRow
        /\ attempts[c] \in AttemptRow
    BY DEF Core, TypeOK
  <1>2. attempts[c].fence \in FencesOf(attempts[c].job)
    BY DEF FencesOf
  <1> QED BY <1>1, <1>2 DEF Core, FenceHistory, FencesFill

(***************************************************************************)
(* Steps that change nothing that Ownership, FenceHistory or SlotExclusive *)
(* looks at.                                                               *)
(***************************************************************************)
LEMMA CoreUnseen ==
    ASSUME Core, TypeOK',
           DOMAIN jobs' = DOMAIN jobs, DOMAIN attempts' = DOMAIN attempts,
           \A j \in DOMAIN jobs : /\ jobs'[j].status = jobs[j].status
                                  /\ jobs'[j].attempt_count = jobs[j].attempt_count,
           \A c \in DOMAIN attempts :
                /\ attempts'[c].job = attempts[c].job
                /\ attempts'[c].fence = attempts[c].fence
                /\ attempts'[c].worker = attempts[c].worker
                /\ attempts'[c].slot = attempts[c].slot
                /\ attempts'[c].started = attempts[c].started
                /\ attempts'[c].outcome = attempts[c].outcome
    PROVE  Core'
  <1>1. Unfinished' = Unfinished
    BY DEF Unfinished, Finished
  <1>2. \A c \in Unfinished : c \in DOMAIN attempts /\ attempts[c].job \in DOMAIN jobs
    BY DEF Core, TypeOK, Unfinished
  <1>3. NewestHolds'
    BY <1>1, <1>2 DEF Core, Ownership, NewestHolds
  <1>4. HeldHasHolder'
    BY <1>1, <1>2 DEF Core, Ownership, HeldHasHolder
  <1>5. FencesUnique'
    BY DEF Core, FenceHistory, FencesUnique
  <1>6. FencesFill'
    <2>1. \A j \in DOMAIN jobs : FencesOf(j)' = FencesOf(j)
      BY DEF FencesOf
    <2> QED BY <2>1 DEF Core, FenceHistory, FencesFill
  <1>7. SlotExclusive'
    BY <1>1, <1>2 DEF Core, SlotExclusive
  <1> QED BY <1>3, <1>4, <1>5, <1>6, <1>7 DEF Core, Ownership, FenceHistory

LEMMA RenewCore ==
    ASSUME Core, NEW w, NEW j \in DOMAIN jobs, NEW c \in DOMAIN attempts, Renew(w, j, c)
    PROVE  Core'
  <1> DEFINE expiry == Smaller(LeaseSeconds, attempts[c].cap)
  <1>1. TypeOK'
    BY RenewType DEF Core
  <1>2. expiry \in Nat /\ attempts \in [DOMAIN attempts -> AttemptRow]
    BY TimingAssumption DEF Smaller, Core, TypeOK, AttemptRow
  <1>3. attempts' = [attempts EXCEPT ![c] = RenewedAttempt(@, expiry)] /\ jobs' = jobs
    BY DEF Renew
  <1> HIDE DEF expiry
  <1>4. \A d \in DOMAIN attempts : attempts'[d] = IF d = c THEN RenewedAttempt(attempts[c], expiry)
                                                         ELSE attempts[d]
    BY <1>2, <1>3
  <1>5. DOMAIN attempts' = DOMAIN attempts
    BY <1>3
  <1> QED BY <1>1, <1>2, <1>3, <1>4, <1>5, RenewedAttemptType, CoreUnseen

LEMMA TickCore ==
    ASSUME Core, Tick
    PROVE  Core'
  <1>1. TypeOK' /\ jobs \in [DOMAIN jobs -> JobRow] /\ attempts \in [DOMAIN attempts -> AttemptRow]
    BY TickType DEF Core, TypeOK
  <1>2. /\ DOMAIN jobs' = DOMAIN jobs /\ DOMAIN attempts' = DOMAIN attempts
        /\ \A j \in DOMAIN jobs : jobs'[j] = OlderRow(jobs[j])
        /\ \A c \in DOMAIN attempts : attempts'[c] = OlderAttempt(attempts[c])
    BY DEF Tick
  <1> QED BY <1>1, <1>2, OlderRowType, OlderAttemptType, CoreUnseen

(* A job is added, or moves without an attempt holding it before or after. *)
LEMMA AdmitCore ==
    ASSUME Core, NEW j \in JobId, NEW key \in Key \cup {None}, NEW def \in Definition,
           Admit(j, key, def)
    PROVE  Core'
  <1>1. TypeOK'
    BY AdmitType DEF Core
  <1>2. /\ j \notin DOMAIN jobs /\ attempts' = attempts
        /\ DOMAIN jobs' = DOMAIN jobs \cup {j}
        /\ \A k \in DOMAIN jobs : jobs'[k] = jobs[k]
        /\ jobs'[j].status = "QUEUED" /\ jobs'[j].attempt_count = 0
    BY DEF Admit, Put
  <1>3. Unfinished' = Unfinished /\ \A k : FencesOf(k)' = FencesOf(k)
    BY <1>2 DEF Unfinished, Finished, FencesOf
  <1>4. \A c \in DOMAIN attempts : attempts[c].job \in DOMAIN jobs /\ attempts[c].job # j
    BY <1>2 DEF Core, TypeOK
  <1>5. NewestHolds'
    BY <1>2, <1>3, <1>4, UnfinishedDef DEF Core, Ownership, NewestHolds
  <1>6. HeldHasHolder'
    BY <1>2, <1>3 DEF Core, Ownership, HeldHasHolder, Held
  <1>7. FencesUnique' /\ SlotExclusive'
    BY <1>2, <1>3 DEF Core, FenceHistory, FencesUnique, SlotExclusive
  <1>8. FencesFill'
    <2>1. FencesOf(j) = 1 .. 0
      BY <1>4 DEF FencesOf
    <2> QED BY <1>2, <1>3, <2>1 DEF Core, FenceHistory, FencesFill
  <1> QED BY <1>1, <1>5, <1>6, <1>7, <1>8 DEF Core, Ownership, FenceHistory

LEMMA ClaimCore ==
    ASSUME Core, NEW w \in WorkerId, NEW slot \in Slot, NEW c \in ClaimId,
           NEW j \in DOMAIN jobs, NEW capabilities, Claim(w, slot, c, j, capabilities)
    PROVE  Core'
  <1> DEFINE fence == jobs[j].attempt_count + 1
             row == NewAttempt(w, slot, j, fence)
  <1>1. /\ TypeOK' /\ j \in JobId /\ jobs \in [DOMAIN jobs -> JobRow]
        /\ attempts \in [DOMAIN attempts -> AttemptRow]
    BY ClaimType DEF Core, TypeOK
  <1>2. /\ c \notin DOMAIN attempts /\ SlotFree(w, slot) /\ jobs[j].status \in Waiting
        /\ DOMAIN jobs' = DOMAIN jobs
        /\ \A k \in DOMAIN jobs : jobs'[k] = IF k = j THEN LeasedRow(jobs[j]) ELSE jobs[k]
        /\ DOMAIN attempts' = DOMAIN attempts \cup {c}
        /\ \A d \in DOMAIN attempts : attempts'[d] = attempts[d]
        /\ attempts'[c] = row
    BY <1>1 DEF Claim, Eligible, Put
  <1>3. fence \in Nat \ {0} /\ jobs[j].attempt_count \in Nat
    BY <1>1 DEF JobRow
  <1>4. jobs'[j].status = "LEASED" /\ jobs'[j].attempt_count = fence
    BY <1>1, <1>2, LeasedRowType
  <1>fresh. \A d \in DOMAIN attempts : attempts[d].job = j => attempts[d].fence # fence
    BY <1>3, FenceBound
  <1>fill. 1 .. fence = (1 .. jobs[j].attempt_count) \cup {fence}
    BY <1>3
  <1> HIDE DEF fence
  <1>5. /\ row.job = j /\ row.worker = w /\ row.slot = slot /\ row.fence = fence
        /\ (row.started <=> FALSE) /\ row.outcome = None
    BY <1>1, <1>3, NewAttemptType
  <1> HIDE DEF row
  <1>6. Unfinished' = Unfinished \cup {c}
    BY <1>2, <1>5 DEF Unfinished, Finished
  <1>7. \A d \in Unfinished : /\ d \in DOMAIN attempts /\ attempts[d].job \in DOMAIN jobs
                              /\ attempts[d].job # j /\ attempts'[d] = attempts[d]
    BY <1>2, UnfinishedDef DEF Core, TypeOK, Ownership, NewestHolds, Waiting
  <1>8. NewestHolds'
    <2> SUFFICES ASSUME NEW d \in Unfinished'
                 PROVE  /\ attempts'[d].fence = jobs'[attempts'[d].job].attempt_count
                        /\ jobs'[attempts'[d].job].status =
                                IF attempts'[d].started THEN "RUNNING" ELSE "LEASED"
      BY DEF NewestHolds
    <2>1. CASE d = c
      BY <1>2, <1>4, <1>5, <2>1
    <2>2. CASE d \in Unfinished
      BY <1>2, <1>7, <2>2 DEF Core, Ownership, NewestHolds
    <2> QED BY <1>6, <2>1, <2>2
  <1>9. HeldHasHolder'
    BY <1>2, <1>5, <1>6, <1>7 DEF Core, Ownership, HeldHasHolder
  <1>10. FencesUnique'
    BY <1>2, <1>5, <1>fresh DEF Core, FenceHistory, FencesUnique
  <1>11. FencesFill'
    <2>1. FencesOf(j)' = FencesOf(j) \cup {fence}
      BY <1>2, <1>5 DEF FencesOf
    <2>2. \A k \in DOMAIN jobs : k # j => FencesOf(k)' = FencesOf(k)
      BY <1>2, <1>5 DEF FencesOf
    <2> QED BY <1>2, <1>4, <1>fill, <2>1, <2>2 DEF Core, FenceHistory, FencesFill
  <1>12. SlotExclusive'
    BY <1>2, <1>5, <1>6, <1>7 DEF Core, SlotExclusive, SlotFree
  <1> QED BY <1>1, <1>8, <1>9, <1>10, <1>11, <1>12 DEF Core, Ownership, FenceHistory

LEMMA StartCore ==
    ASSUME Core, NEW w, NEW j \in DOMAIN jobs, NEW c \in DOMAIN attempts, Start(w, j, c)
    PROVE  Core'
  <1> DEFINE a == StartedAttempt(attempts[c], jobs[j].def.timeout)
  <1>1. /\ TypeOK' /\ jobs \in [DOMAIN jobs -> JobRow]
        /\ attempts \in [DOMAIN attempts -> AttemptRow]
    BY StartType DEF Core, TypeOK
  <1>2. /\ attempts[c].job = j /\ c \in Unfinished
        /\ DOMAIN jobs' = DOMAIN jobs
        /\ \A k \in DOMAIN jobs : jobs'[k] = IF k = j THEN Moved(jobs[j], "RUNNING") ELSE jobs[k]
        /\ DOMAIN attempts' = DOMAIN attempts
        /\ \A d \in DOMAIN attempts : attempts'[d] = IF d = c THEN a ELSE attempts[d]
    BY <1>1 DEF Start, Owned, Unfinished
  <1>3. jobs'[j].status = "RUNNING" /\ jobs'[j].attempt_count = jobs[j].attempt_count
    BY <1>1, <1>2, MovedType DEF STATUSES
  <1>4. jobs[j].def.timeout \in Nat
    BY <1>1, DefinitionAssumption DEF JobRow, DefinitionRow
  <1>5. /\ a.job = j /\ a.worker = attempts[c].worker /\ a.slot = attempts[c].slot
        /\ a.fence = attempts[c].fence /\ (a.started <=> TRUE) /\ a.outcome = attempts[c].outcome
    BY <1>1, <1>2, <1>4, StartedAttemptType
  <1> HIDE DEF a
  <1>6. Unfinished' = Unfinished
    BY <1>2, <1>5 DEF Unfinished, Finished
  <1>7. \A d \in Unfinished : /\ d \in DOMAIN attempts /\ attempts[d].job \in DOMAIN jobs
                              /\ (attempts[d].job = j => d = c)
    BY <1>2, UnfinishedDef, OneHolder DEF Core, TypeOK
  <1>8. NewestHolds'
    <2> SUFFICES ASSUME NEW d \in Unfinished
                 PROVE  /\ attempts'[d].fence = jobs'[attempts'[d].job].attempt_count
                        /\ jobs'[attempts'[d].job].status =
                                IF attempts'[d].started THEN "RUNNING" ELSE "LEASED"
      BY <1>6 DEF NewestHolds
    <2>1. CASE d = c
      BY <1>2, <1>3, <1>5, <2>1 DEF Core, Ownership, NewestHolds
    <2>2. CASE d # c
      BY <1>2, <1>7, <2>2 DEF Core, Ownership, NewestHolds
    <2> QED BY <2>1, <2>2
  <1>9. HeldHasHolder'
    <2>1. \A d \in Unfinished : attempts'[d].job = attempts[d].job
      BY <1>2, <1>5, <1>7
    <2>2. \A k \in DOMAIN jobs : k # j => jobs'[k].status = jobs[k].status
      BY <1>2
    <2> QED BY <1>2, <1>6, <2>1, <2>2 DEF Core, Ownership, HeldHasHolder
  <1>10. FencesUnique' /\ SlotExclusive'
    BY <1>2, <1>5, <1>6, <1>7 DEF Core, FenceHistory, FencesUnique, SlotExclusive
  <1>11. FencesFill'
    <2>1. \A k \in DOMAIN jobs : FencesOf(k)' = FencesOf(k)
      BY <1>2, <1>5 DEF FencesOf
    <2> QED BY <1>2, <1>3, <2>1 DEF Core, FenceHistory, FencesFill
  <1> QED BY <1>1, <1>8, <1>9, <1>10, <1>11 DEF Core, Ownership, FenceHistory

(***************************************************************************)
(* Steps that end the attempts F and let go of their jobs; a job that none *)
(* of them holds keeps its state or moves from one unheld state to another.*)
(***************************************************************************)
LEMMA CoreReleased ==
    ASSUME Core, TypeOK', NEW F \in SUBSET Unfinished,
           DOMAIN jobs' = DOMAIN jobs, DOMAIN attempts' = DOMAIN attempts,
           \A j \in DOMAIN jobs :
                /\ jobs'[j].attempt_count = jobs[j].attempt_count
                /\ j \in JobsOf(F) => jobs'[j].status \notin Held
                /\ j \notin JobsOf(F) => \/ jobs'[j].status = jobs[j].status
                                         \/ jobs[j].status \notin Held /\ jobs'[j].status \notin Held,
           \A c \in DOMAIN attempts :
                /\ attempts'[c].job = attempts[c].job
                /\ attempts'[c].fence = attempts[c].fence
                /\ attempts'[c].worker = attempts[c].worker
                /\ attempts'[c].slot = attempts[c].slot
                /\ attempts'[c].started = attempts[c].started
                /\ c \in F => attempts'[c].outcome # None
                /\ c \notin F => attempts'[c].outcome = attempts[c].outcome
    PROVE  Core'
  <1>1. Unfinished' = Unfinished \ F
    BY DEF Unfinished, Finished
  <1>2. \A c \in Unfinished : /\ c \in DOMAIN attempts /\ attempts[c].job \in DOMAIN jobs
                              /\ jobs[attempts[c].job].status \in Held
    BY UnfinishedDef DEF Core, TypeOK, Ownership, NewestHolds, Held
  <1>3. \A c \in Unfinished \ F : attempts[c].job \notin JobsOf(F)
    BY OneHolder DEF JobsOf
  <1>4. NewestHolds'
    BY <1>1, <1>2, <1>3 DEF Core, Ownership, NewestHolds
  <1>5. HeldHasHolder'
    <2> SUFFICES ASSUME NEW j \in DOMAIN jobs, jobs'[j].status \in Held
                 PROVE  \E c \in Unfinished' : attempts'[c].job = j
      BY DEF HeldHasHolder
    <2>1. j \notin JobsOf(F) /\ jobs[j].status \in Held
      OBVIOUS
    <2>2. PICK c \in Unfinished : attempts[c].job = j
      BY <2>1 DEF Core, Ownership, HeldHasHolder
    <2>3. c \notin F
      BY <2>1, <2>2 DEF JobsOf
    <2> QED BY <1>1, <1>2, <2>2, <2>3
  <1>6. FencesUnique'
    BY DEF Core, FenceHistory, FencesUnique
  <1>7. FencesFill'
    <2>1. \A j \in DOMAIN jobs : FencesOf(j)' = FencesOf(j)
      BY DEF FencesOf
    <2> QED BY <2>1 DEF Core, FenceHistory, FencesFill
  <1>8. SlotExclusive'
    BY <1>1, <1>2 DEF Core, SlotExclusive
  <1> QED BY <1>4, <1>5, <1>6, <1>7, <1>8 DEF Core, Ownership, FenceHistory

LEMMA CancelCore ==
    ASSUME Core, NEW j \in JobId, Cancel(j)
    PROVE  Core'
  <1>1. TypeOK' /\ jobs \in [DOMAIN jobs -> JobRow]
    BY CancelType DEF Core, TypeOK
  <1>2. /\ j \in DOMAIN jobs /\ jobs[j].status \in Waiting /\ attempts' = attempts
        /\ DOMAIN jobs' = DOMAIN jobs
        /\ \A k \in DOMAIN jobs : jobs'[k] = IF k = j THEN Moved(jobs[j], "CANCELLED") ELSE jobs[k]
    BY <1>1 DEF Cancel
  <1>3. jobs'[j].status = "CANCELLED" /\ jobs'[j].attempt_count = jobs[j].attempt_count
    BY <1>1, <1>2, MovedType DEF STATUSES
  <1>4. JobsOf({}) = {}
    BY DEF JobsOf
  <1>5. jobs[j].status \notin Held /\ jobs'[j].status \notin Held
    BY <1>2, <1>3 DEF Waiting, Held
  <1> QED BY <1>1, <1>2, <1>3, <1>4, <1>5, CoreReleased

(* What both ends of an attempt have in common. *)
LEMMA FinishCore ==
    ASSUME Core, TypeOK', NEW w, NEW j \in DOMAIN jobs, NEW c \in DOMAIN attempts, Owned(w, j, c),
           NEW outcome \in Outcome, NEW body \in Output \cup Error \cup {ExpiredError},
           attempts' = [attempts EXCEPT ![c] = FinishedAttempt(@, outcome, body)],
           NEW row, row.status \notin Held, row.attempt_count = jobs[j].attempt_count,
           jobs' = [jobs EXCEPT ![j] = row]
    PROVE  Core'
  <1> DEFINE a == FinishedAttempt(attempts[c], outcome, body)
  <1>1. /\ jobs \in [DOMAIN jobs -> JobRow] /\ attempts \in [DOMAIN attempts -> AttemptRow]
        /\ c \in Unfinished /\ attempts[c].job = j
    BY DEF Core, TypeOK, Owned, Unfinished
  <1>2. /\ a.job = attempts[c].job /\ a.fence = attempts[c].fence /\ a.worker = attempts[c].worker
        /\ a.slot = attempts[c].slot /\ a.started = attempts[c].started /\ a.outcome # None
    BY <1>1, FinishedAttemptType, PayloadAssumption
  <1> HIDE DEF a
  <1>3. /\ DOMAIN attempts' = DOMAIN attempts
        /\ \A d \in DOMAIN attempts : attempts'[d] = IF d = c THEN a ELSE attempts[d]
    BY <1>1 DEF a
  <1>4. /\ DOMAIN jobs' = DOMAIN jobs
        /\ \A k \in DOMAIN jobs : jobs'[k] = IF k = j THEN row ELSE jobs[k]
    BY <1>1
  <1>5. JobsOf({c}) = {j}
    BY <1>1 DEF JobsOf
  <1> QED BY <1>1, <1>2, <1>3, <1>4, <1>5, CoreReleased

LEMMA FinishSucceededCore ==
    ASSUME Core, NEW w, NEW j \in DOMAIN jobs, NEW c \in DOMAIN attempts,
           NEW output \in Output, FinishSucceeded(w, j, c, output)
    PROVE  Core'
  <1> DEFINE row == Moved(jobs[j], "SUCCEEDED")
  <1>1. TypeOK' /\ jobs[j] \in JobRow
    BY FinishSucceededType DEF Core, TypeOK
  <1>2. row.status \notin Held /\ row.attempt_count = jobs[j].attempt_count
    BY <1>1, MovedType DEF STATUSES, Held
  <1>3. /\ Owned(w, j, c) /\ jobs' = [jobs EXCEPT ![j] = row]
        /\ attempts' = [attempts EXCEPT ![c] = FinishedAttempt(@, "SUCCEEDED", output)]
    BY DEF FinishSucceeded
  <1> HIDE DEF row
  <1>4. "SUCCEEDED" \in Outcome
    BY DEF Outcome
  <1> QED BY <1>1, <1>2, <1>3, <1>4, FinishCore

LEMMA FinishFailedCore ==
    ASSUME Core, NEW w, NEW j \in DOMAIN jobs, NEW c \in DOMAIN attempts,
           NEW error \in Error, NEW retryable \in BOOLEAN, NEW delay \in Nat,
           FinishFailed(w, j, c, error, retryable, delay)
    PROVE  Core'
  <1> DEFINE row == FailedRow(jobs[j], retryable, delay)
  <1>0. TypeOK /\ jobs[j] \in JobRow
    BY DEF Core, TypeOK
  <1>1. TypeOK'
    BY <1>0, FinishFailedType
  <1>2. row.status \notin Held /\ row.attempt_count = jobs[j].attempt_count
    BY <1>0, FailedRowType DEF Held
  <1>3. /\ Owned(w, j, c) /\ jobs' = [jobs EXCEPT ![j] = row]
        /\ attempts' = [attempts EXCEPT ![c] = FinishedAttempt(@, "FAILED", error)]
    BY DEF FinishFailed
  <1> HIDE DEF row
  <1>4. "FAILED" \in Outcome
    BY DEF Outcome
  <1> QED BY <1>1, <1>2, <1>3, <1>4, FinishCore

(* What a sweep does to each job and each attempt. *)
LEMMA RecoverEffect ==
    ASSUME TypeOK, NEW E \in SUBSET Expirable, NEW B, NEW delay \in [JobsOf(E) -> Nat],
           RecoverJobs(E, B, delay)
    PROVE  /\ E \subseteq Unfinished /\ JobsOf(E) \subseteq DOMAIN jobs /\ B \subseteq DOMAIN jobs
           /\ DOMAIN jobs' = DOMAIN jobs /\ DOMAIN attempts' = DOMAIN attempts
           /\ \A j \in DOMAIN jobs :
                /\ jobs'[j].attempt_count = jobs[j].attempt_count
                /\ jobs'[j].key = jobs[j].key /\ jobs'[j].def = jobs[j].def
                /\ jobs'[j].age = jobs[j].age
                /\ j \in B => /\ jobs'[j].status = "CANCELLED"
                              /\ j \notin JobsOf(E) => jobs[j].status \in Waiting
                /\ j \in JobsOf(E) \ B => jobs'[j].status = ExpiredStatus(jobs[j])
                /\ j \notin B \cup JobsOf(E) => jobs'[j] = jobs[j]
           /\ \A c \in DOMAIN attempts :
                attempts'[c] = IF c \in E
                               THEN FinishedAttempt(attempts[c], "LEASE_EXPIRED", ExpiredError)
                               ELSE attempts[c]
  <1> DEFINE mid == ExpiredJobs(E, delay)
  <1>0. /\ jobs \in [DOMAIN jobs -> JobRow] /\ attempts \in [DOMAIN attempts -> AttemptRow]
    BY DEF TypeOK
  <1>1. E \subseteq Unfinished /\ JobsOf(E) \subseteq DOMAIN jobs
    BY DEF Expirable, Unfinished, JobsOf, TypeOK
  <1>2. DOMAIN mid = DOMAIN jobs /\ mid \in [DOMAIN jobs -> JobRow]
    BY ExpiredRowType DEF ExpiredJobs, TypeOK
  <1>3. \A j \in DOMAIN jobs :
            /\ mid[j].attempt_count = jobs[j].attempt_count
            /\ mid[j].key = jobs[j].key /\ mid[j].def = jobs[j].def /\ mid[j].age = jobs[j].age
            /\ j \in JobsOf(E) => mid[j].status = ExpiredStatus(jobs[j])
            /\ j \notin JobsOf(E) => mid[j] = jobs[j]
    <2> TAKE j \in DOMAIN jobs
    <2>1. CASE j \in JobsOf(E)
      <3>1. mid[j] = ExpiredRow(jobs[j], delay[j]) /\ delay[j] \in Nat /\ jobs[j] \in JobRow
        BY <1>0, <2>1 DEF ExpiredJobs
      <3> HIDE DEF mid
      <3> QED BY <2>1, <3>1, ExpiredRowType
    <2>2. CASE j \notin JobsOf(E)
      BY <2>2 DEF ExpiredJobs
    <2> QED BY <2>1, <2>2
  <1>4. /\ B \subseteq Blocked(mid)
        /\ jobs' = [ j \in DOMAIN jobs |->
                        IF j \in B THEN Moved(mid[j], "CANCELLED") ELSE mid[j] ]
        /\ attempts' = [ c \in DOMAIN attempts |->
                            IF c \in E
                            THEN FinishedAttempt(attempts[c], "LEASE_EXPIRED", ExpiredError)
                            ELSE attempts[c] ]
    BY DEF RecoverJobs
  <1> HIDE DEF mid
  <1>5. B \subseteq DOMAIN jobs /\ \A j \in B : mid[j].status \in Waiting
    BY <1>2, <1>4 DEF Blocked
  <1>6. \A j \in DOMAIN jobs : j \in B =>
            /\ jobs'[j].status = "CANCELLED" /\ jobs'[j].attempt_count = mid[j].attempt_count
            /\ jobs'[j].key = mid[j].key /\ jobs'[j].def = mid[j].def /\ jobs'[j].age = mid[j].age
    BY <1>2, <1>4, MovedType DEF STATUSES
  <1>7. \A j \in DOMAIN jobs : j \notin B => jobs'[j] = mid[j]
    BY <1>4
  <1>8. /\ DOMAIN jobs' = DOMAIN jobs /\ DOMAIN attempts' = DOMAIN attempts
        /\ \A c \in DOMAIN attempts :
                attempts'[c] = IF c \in E
                               THEN FinishedAttempt(attempts[c], "LEASE_EXPIRED", ExpiredError)
                               ELSE attempts[c]
    BY <1>4
  <1> QED BY <1>1, <1>3, <1>5, <1>6, <1>7, <1>8

LEMMA RecoverCore ==
    ASSUME Core, NEW E \in SUBSET Expirable, NEW B, NEW delay \in [JobsOf(E) -> Nat],
           RecoverJobs(E, B, delay)
    PROVE  Core'
  <1>1. TypeOK /\ TypeOK' /\ attempts \in [DOMAIN attempts -> AttemptRow]
        /\ jobs \in [DOMAIN jobs -> JobRow]
    BY RecoverType DEF Core, TypeOK
  <1>2. \A c \in E : LET a == FinishedAttempt(attempts[c], "LEASE_EXPIRED", ExpiredError)
                     IN  /\ a.job = attempts[c].job /\ a.fence = attempts[c].fence
                         /\ a.worker = attempts[c].worker /\ a.slot = attempts[c].slot
                         /\ a.started = attempts[c].started /\ a.outcome # None
    BY <1>1, FinishedAttemptType, PayloadAssumption DEF Outcome, Expirable, Unfinished
  <1>3. \A j \in DOMAIN jobs : ExpiredStatus(jobs[j]) \notin Held
    BY DEF ExpiredStatus, Held
  <1>4. \A j \in DOMAIN jobs :
            /\ jobs'[j].attempt_count = jobs[j].attempt_count
            /\ j \in JobsOf(E) => jobs'[j].status \notin Held
            /\ j \notin JobsOf(E) => \/ jobs'[j].status = jobs[j].status
                                     \/ jobs[j].status \notin Held /\ jobs'[j].status \notin Held
    BY <1>1, <1>3, RecoverEffect DEF Held, Waiting
  <1>5. \A c \in DOMAIN attempts :
            /\ attempts'[c].job = attempts[c].job
            /\ attempts'[c].fence = attempts[c].fence
            /\ attempts'[c].worker = attempts[c].worker
            /\ attempts'[c].slot = attempts[c].slot
            /\ attempts'[c].started = attempts[c].started
            /\ c \in E => attempts'[c].outcome # None
            /\ c \notin E => attempts'[c].outcome = attempts[c].outcome
    BY <1>1, <1>2, RecoverEffect
  <1>6. DOMAIN jobs' = DOMAIN jobs /\ DOMAIN attempts' = DOMAIN attempts /\ E \in SUBSET Unfinished
    BY <1>1, RecoverEffect
  <1> QED BY <1>1, <1>4, <1>5, <1>6, CoreReleased

LEMMA NextCore == Core /\ [Next]_vars => Core'
  <1> SUFFICES ASSUME Core, [Next]_vars PROVE Core'
    OBVIOUS
  <1>1. CASE AdmitAny
    BY <1>1, AdmitCore DEF AdmitAny
  <1>2. CASE \E j \in JobId : ClaimFor(j)
    BY <1>2, ClaimCore DEF ClaimFor
  <1>3. CASE \E w \in WorkerId, j \in DOMAIN jobs, c \in DOMAIN attempts : Report(w, j, c)
    <2> PICK w \in WorkerId, j \in DOMAIN jobs, c \in DOMAIN attempts : Report(w, j, c)
      BY <1>3
    <2>1. 0 .. (2 * MaxBackoff) \subseteq Nat
      BY TimingAssumption
    <2> QED BY <2>1, StartCore, RenewCore, FinishSucceededCore, FinishFailedCore DEF Report
  <1>4. CASE \E j \in JobId : Cancel(j)
    BY <1>4, CancelCore
  <1>5. CASE \E E \in SUBSET Expirable, B \in SUBSET DOMAIN jobs : RecoverSome(E, B)
    <2> PICK E \in SUBSET Expirable, B \in SUBSET DOMAIN jobs : RecoverSome(E, B)
      BY <1>5
    <2> PICK delay \in [JobsOf(E) -> 0 .. (2 * MaxBackoff)] : RecoverJobs(E, B, delay)
      BY DEF RecoverSome
    <2>1. delay \in [JobsOf(E) -> Nat]
      BY TimingAssumption
    <2> QED BY <2>1, RecoverCore
  <1>6. CASE Tick
    BY <1>6, TickCore
  <1>7. CASE UNCHANGED vars
    <2>1. jobs' = jobs /\ attempts' = attempts /\ TypeOK'
      BY <1>7 DEF vars, Core, TypeOK
    <2> QED BY <2>1, CoreUnseen
  <1> QED BY <1>1, <1>2, <1>3, <1>4, <1>5, <1>6, <1>7 DEF Next

LEMMA CoreInvariant == Spec => []Core
  <1>1. Init => Core
    <2> SUFFICES ASSUME Init PROVE Core
      OBVIOUS
    <2>1. TypeOK /\ DOMAIN jobs = {} /\ DOMAIN attempts = {}
      BY DEF Init, TypeOK, Empty
    <2>2. Unfinished = {}
      BY <2>1 DEF Unfinished
    <2> QED BY <2>1, <2>2 DEF Core, Ownership, NewestHolds, HeldHasHolder, FenceHistory,
                              FencesUnique, FencesFill, SlotExclusive
  <1> QED BY <1>1, NextCore, PTL DEF Spec

(***************************************************************************)
(* A job is held exactly while one attempt, the newest, is unfinished,     *)
(* however claims, reports, sweeps and clock interleave.                   *)
(***************************************************************************)
THEOREM OwnershipHolds == Spec => []Ownership
  <1>1. Core => Ownership
    BY DEF Core
  <1> QED BY <1>1, CoreInvariant, PTL

(***************************************************************************)
(* The attempts of a job are numbered 1 .. attempt_count without a gap or  *)
(* a repetition, so a fence names one attempt for ever.                    *)
(***************************************************************************)
THEOREM FencesHold == Spec => []FenceHistory
  <1>1. Core => FenceHistory
    BY DEF Core
  <1> QED BY <1>1, CoreInvariant, PTL

(***************************************************************************)
(* No slot of any worker holds two unfinished attempts.                    *)
(***************************************************************************)
THEOREM SlotsHold == Spec => []SlotExclusive
  <1>1. Core => SlotExclusive
    BY DEF Core
  <1> QED BY <1>1, CoreInvariant, PTL

(***************************************************************************)
(* A live lease is not taken away and an expired one is not honoured: an   *)
(* attempt ends as LEASE_EXPIRED just when its lease was over.             *)
(***************************************************************************)
THEOREM LeasesDecide == Spec => LeaseDecides
  <1> DEFINE A == \A c \in DOMAIN attempts :
                    ~Finished(attempts[c]) /\ Finished(attempts[c])' =>
                        (Expired(attempts[c]) <=> attempts'[c].outcome = "LEASE_EXPIRED")
  <1>1. TypeOK /\ [Next]_vars => [A]_vars
    <2> SUFFICES ASSUME TypeOK, Next, NEW c \in DOMAIN attempts,
                        ~Finished(attempts[c]), Finished(attempts[c])'
                 PROVE  Expired(attempts[c]) <=> attempts'[c].outcome = "LEASE_EXPIRED"
      OBVIOUS
    <2>0. attempts \in [DOMAIN attempts -> AttemptRow]
      BY DEF TypeOK
    <2>1. CASE AdmitAny
      BY <2>1 DEF AdmitAny, Admit, Finished
    <2>2. CASE \E j \in JobId : ClaimFor(j)
      BY <2>2 DEF ClaimFor, Claim, Put, Finished
    <2>3. CASE \E w \in WorkerId, j \in DOMAIN jobs, d \in DOMAIN attempts : Report(w, j, d)
      <3> PICK w \in WorkerId, j \in DOMAIN jobs, d \in DOMAIN attempts : Report(w, j, d)
        BY <2>3
      <3>1. CASE Start(w, j, d)
        <4>1. jobs[j].def.timeout \in Nat
          BY DefinitionAssumption DEF TypeOK, JobRow, DefinitionRow
        <4>2. attempts'[c].outcome = attempts[c].outcome
          BY <2>0, <3>1, <4>1, StartedAttemptType DEF Start
        <4> QED BY <4>2 DEF Finished
      <3>2. CASE Renew(w, j, d)
        <4>1. Smaller(LeaseSeconds, attempts[d].cap) \in Nat
          BY <2>0, TimingAssumption DEF Smaller, AttemptRow
        <4>2. attempts'[c].outcome = attempts[c].outcome
          BY <2>0, <3>2, <4>1, RenewedAttemptType DEF Renew
        <4> QED BY <4>2 DEF Finished
      <3>3. ASSUME NEW outcome \in {"SUCCEEDED", "FAILED"}, NEW body \in Output \cup Error,
                   Owned(w, j, d),
                   attempts' = [attempts EXCEPT ![d] = FinishedAttempt(@, outcome, body)]
            PROVE  Expired(attempts[c]) <=> attempts'[c].outcome = "LEASE_EXPIRED"
        <4>1. c = d
          BY <2>0, <3>3 DEF Finished
        <4>2. attempts'[c].outcome = outcome
          BY <2>0, <3>3, <4>1, FinishedAttemptType DEF Outcome
        <4> QED BY <3>3, <4>1, <4>2 DEF Owned
      <3>4. CASE \E output \in Output : FinishSucceeded(w, j, d, output)
        BY <3>3, <3>4 DEF FinishSucceeded
      <3>5. CASE \E error \in Error, retryable \in BOOLEAN, delay \in 0 .. (2 * MaxBackoff) :
                    FinishFailed(w, j, d, error, retryable, delay)
        BY <3>3, <3>5 DEF FinishFailed
      <3> QED BY <3>1, <3>2, <3>4, <3>5 DEF Report
    <2>4. CASE \E j \in JobId : Cancel(j)
      BY <2>4 DEF Cancel, Finished
    <2>5. CASE \E E \in SUBSET Expirable, B \in SUBSET DOMAIN jobs : RecoverSome(E, B)
      <3> PICK E \in SUBSET Expirable, B \in SUBSET DOMAIN jobs : RecoverSome(E, B)
        BY <2>5
      <3>1. attempts'[c] = IF c \in E
                           THEN FinishedAttempt(attempts[c], "LEASE_EXPIRED", ExpiredError)
                           ELSE attempts[c]
        BY DEF RecoverSome, RecoverJobs
      <3>2. c \in E
        BY <3>1 DEF Finished
      <3>3. attempts'[c].outcome = "LEASE_EXPIRED"
        BY <2>0, <3>1, <3>2, FinishedAttemptType DEF Outcome
      <3> QED BY <3>2, <3>3 DEF Expirable
    <2>6. CASE Tick
      BY <2>0, <2>6, OlderAttemptType DEF Tick, Finished
    <2> QED BY <2>1, <2>2, <2>3, <2>4, <2>5, <2>6 DEF Next
  <1> QED BY <1>1, TypeCorrect, PTL DEF Spec, LeaseDecides
=============================================================================
