-------------------------- MODULE MigrationsProofs --------------------------
(***************************************************************************)
(* What Migrations promises, for any number of rows, any workers and slots *)
(* and whatever versions the operator asks for.                            *)
(*                                                                         *)
(* The invariant says what the tables are like at every version, as the    *)
(* program left them or a revision made them: who holds a job is the same  *)
(* at all versions, what is counted depends on the version.  It is stated  *)
(* for tables, since it holds both for those the transaction sees and for  *)
(* those a rollback restores.                                              *)
(***************************************************************************)
EXTENDS Migrations, FiniteSetTheorems, TLAPS

Status == OldStatus \cup NewStatus
WorkerState == {"HEALTHY", "SUSPECT", "DEAD", "DRAINING"}

JobRow == [status : Status, attempt_count : Nat \cup {None}, max_retries : Nat \cup {None}]

AttemptRow ==
    [ job : Nat, worker : WorkerId, finished : BOOLEAN, slot : Slot \cup {None},
      fence : Nat \cup {None}, lease : {"lasts", "over", None},
      outcome : Status \cup {"LEASE_EXPIRED", None} ]

WorkerRow == [state : WorkerState \cup {None}, drain_requested : BOOLEAN \cup {None}]

Open(as) == { a \in DOMAIN as : ~as[a].finished }
Tries(as, j) == { a \in DOMAIN as : as[a].job = j }

Shaped(js, as) ==
    /\ js \in [DOMAIN js -> JobRow] /\ as \in [DOMAIN as -> AttemptRow]
    /\ \E n \in Nat : DOMAIN js = 1 .. n
    /\ \E n \in Nat : DOMAIN as = 1 .. n
    /\ \A a \in DOMAIN as : as[a].job \in DOMAIN js

(* A job is held just while one unfinished attempt holds it. *)
Owned(js, as) ==
    /\ \A a \in Open(as) : js[as[a].job].status \in Held
    /\ \A a, b \in Open(as) : as[a].job = as[b].job => a = b
    /\ \A j \in DOMAIN js :
        /\ js[j].status \in Held => \E a \in Open(as) : as[a].job = j
        /\ js[j].status = "QUEUED" => Tries(as, j) = {}

(* v0.1: a job under way is tried for the first time, and alone by its     *)
(* worker.  A downgrade that finds it otherwise refuses.                   *)
TriedOnce(js, as) ==
    /\ \A a \in Open(as) : Tries(as, as[a].job) = {a}
    /\ \A a, b \in Open(as) : as[a].worker = as[b].worker => a = b
    /\ \A j \in DOMAIN js : js[j].status # "RETRY_WAIT"

(* From 4c3b17726280 on: attempts are counted, fenced and have slots. *)
Counted(js, as) ==
    /\ \A j \in DOMAIN js :
        /\ js[j].attempt_count = Cardinality(Tries(as, j)) /\ js[j].max_retries \in Nat
        /\ js[j].status = "RETRY_WAIT" => js[j].attempt_count <= js[j].max_retries
    /\ \A a \in Open(as) : as[a].fence = js[as[a].job].attempt_count
    /\ \A a, b \in Open(as) :
        as[a].worker = as[b].worker /\ as[a].slot = as[b].slot => a = b

(* From b8f1c3a7d952 on. *)
Marked(ws) ==
    \A w \in DOMAIN ws :
        /\ ws[w].drain_requested \in BOOLEAN
        /\ ws[w].state = "DRAINING" => ws[w].drain_requested
        /\ ws[w].drain_requested => ws[w].state \in {"DRAINING", "DEAD"}

Crew(ws) == ws \in [DOMAIN ws -> WorkerRow] /\ DOMAIN ws \subseteq WorkerId

Sane(v, js, as, ws) ==
    /\ Shaped(js, as) /\ Owned(js, as) /\ Crew(ws)
    /\ v = 1 => TriedOnce(js, as)
    /\ v \in 2 .. Head => Counted(js, as)
    /\ v = Head => Marked(ws)

(* A rollback restores, as a whole, what was there when the command began. *)
Undoable ==
    /\ Sane(tx.undo.version, tx.undo.jobs, tx.undo.attempts, tx.undo.workers)
    /\ tx.undo = tx.began
    /\ tx.began = [ version |-> tx.began.version, jobs |-> tx.began.jobs,
                    attempts |-> tx.began.attempts, workers |-> tx.began.workers,
                    check |-> tx.began.check, wide |-> tx.began.wide ]

MigrationInv ==
    /\ Sane(version, jobs, attempts, workers)
    /\ Running => Undoable

-----------------------------------------------------------------------------
(***************************************************************************)
(* Commands.                                                               *)
(***************************************************************************)
(* Whatever changes the tables, within a command or in service, leaves     *)
(* what a rollback would restore.                                          *)
LEMMA TablesStep ==
    ASSUME MigrationInv, Sane(version, jobs, attempts, workers)', UNCHANGED tx
    PROVE  MigrationInv'
  BY DEF MigrationInv, Undoable, Running

LEMMA CommandKeeps ==
    ASSUME MigrationInv, NEW target \in Target, Command(target)
    PROVE  MigrationInv'
  <1>1. /\ ~Running /\ UNCHANGED <<version, jobs, attempts, workers>>
        /\ tx' = [target |-> target, undo |-> Content, began |-> Content]
    BY DEF Command, tables
  <1>2. /\ tx'.undo = Content /\ tx'.began = Content
        /\ Content.version = version /\ Content.jobs = jobs /\ Content.attempts = attempts
        /\ Content.workers = workers /\ Content.check = check /\ Content.wide = wide
    BY <1>1 DEF Content
  <1>3. Sane(version, jobs, attempts, workers)'
    BY <1>1 DEF MigrationInv
  <1>4. Sane(tx.undo.version, tx.undo.jobs, tx.undo.attempts, tx.undo.workers)'
    BY <1>2 DEF MigrationInv
  <1>5. tx'.began = [ version |-> tx'.began.version, jobs |-> tx'.began.jobs,
                      attempts |-> tx'.began.attempts, workers |-> tx'.began.workers,
                      check |-> tx'.began.check, wide |-> tx'.began.wide ]
    BY <1>2 DEF Content
  <1>6. Undoable'
    BY <1>2, <1>4, <1>5 DEF Undoable
  <1> QED BY <1>3, <1>6 DEF MigrationInv

LEMMA CommitKeeps ==
    ASSUME MigrationInv, Commit
    PROVE  MigrationInv'
  <1>1. UNCHANGED <<version, jobs, attempts, workers>> /\ tx' = None
    BY DEF Commit, tables
  <1>2. Sane(version, jobs, attempts, workers)'
    BY <1>1 DEF MigrationInv
  <1> QED BY <1>1, <1>2 DEF MigrationInv, Running

LEMMA AbandonKeeps ==
    ASSUME MigrationInv, Abandon
    PROVE  MigrationInv'
  <1>1. /\ version' = tx.undo.version /\ jobs' = tx.undo.jobs /\ attempts' = tx.undo.attempts
        /\ workers' = tx.undo.workers /\ tx' = None /\ Undoable
    BY DEF Abandon, Restore, MigrationInv
  <1>2. Sane(version, jobs, attempts, workers)'
    BY <1>1 DEF Undoable
  <1> QED BY <1>1, <1>2 DEF MigrationInv, Running

-----------------------------------------------------------------------------
(***************************************************************************)
(* The rows.                                                               *)
(***************************************************************************)
LEMMA EmptySane == Sane(0, Empty, Empty, Empty) /\ Sane(1, Empty, Empty, Empty)
  <1>1. DOMAIN Empty = {} /\ {} = 1 .. 0
    BY DEF Empty
  <1>2. Empty \in [DOMAIN Empty -> JobRow] /\ Empty \in [DOMAIN Empty -> AttemptRow]
        /\ Crew(Empty)
    BY DEF Empty, Crew
  <1>3. Open(Empty) = {}
    BY <1>1 DEF Open
  <1>4. Shaped(Empty, Empty)
    BY <1>1, <1>2 DEF Shaped
  <1>5. Owned(Empty, Empty) /\ TriedOnce(Empty, Empty)
    BY <1>1, <1>3 DEF Owned, TriedOnce
  <1> QED BY <1>2, <1>4, <1>5 DEF Sane, Head

(* Attempts are finitely many. *)
LEMMA TriesFinite ==
    ASSUME NEW js, NEW as, Shaped(js, as), NEW j
    PROVE  IsFiniteSet(Tries(as, j)) /\ Cardinality(Tries(as, j)) \in Nat
  <1>1. PICK n \in Nat : DOMAIN as = 1 .. n
    BY DEF Shaped
  <1>2. IsFiniteSet(DOMAIN as)
    BY <1>1, FS_Interval
  <1>3. Tries(as, j) \subseteq DOMAIN as
    BY DEF Tries
  <1>4. IsFiniteSet(Tries(as, j))
    BY <1>2, <1>3, FS_Subset
  <1> QED BY <1>4, FS_CardinalityType

(* A row put under the next number is new. *)
LEMMA NextNumber ==
    ASSUME NEW table, NEW n \in Nat, DOMAIN table = 1 .. n,
           NEW k, k = Cardinality(DOMAIN table) + 1
    PROVE  k = n + 1 /\ k \notin DOMAIN table /\ DOMAIN table \cup {k} = 1 .. (n + 1)
  <1>1. Cardinality(DOMAIN table) = n
    BY FS_Interval
  <1> QED BY <1>1

(* Columns come and go: who holds what is the same. *)
SameHold(js, as, js2, as2) ==
    /\ DOMAIN js2 = DOMAIN js /\ DOMAIN as2 = DOMAIN as
    /\ \A j \in DOMAIN js : js2[j].status = js[j].status
    /\ \A a \in DOMAIN as : /\ as2[a].job = as[a].job /\ as2[a].finished = as[a].finished
                            /\ as2[a].worker = as[a].worker

LEMMA SameHoldKeeps ==
    ASSUME NEW js, NEW as, NEW js2, NEW as2, Shaped(js, as), Owned(js, as),
           SameHold(js, as, js2, as2),
           js2 \in [DOMAIN js2 -> JobRow], as2 \in [DOMAIN as2 -> AttemptRow]
    PROVE  /\ Shaped(js2, as2) /\ Owned(js2, as2)
           /\ Open(as2) = Open(as)
           /\ \A j : Tries(as2, j) = Tries(as, j)
  <1>1. Open(as2) = Open(as)
    BY DEF Open, SameHold
  <1>2. \A j : Tries(as2, j) = Tries(as, j)
    BY DEF Tries, SameHold
  <1>3. Shaped(js2, as2)
    BY DEF Shaped, SameHold
  <1>4. Owned(js2, as2)
    <2>1. \A a \in Open(as) : a \in DOMAIN as /\ as[a].job \in DOMAIN js
      BY DEF Open, Shaped
    <2>2. ASSUME NEW a \in Open(as2) PROVE js2[as2[a].job].status \in Held
      <3>1. a \in Open(as) /\ a \in DOMAIN as /\ as[a].job \in DOMAIN js
        BY <1>1, <2>1
      <3>2. as2[a].job = as[a].job /\ js2[as[a].job].status = js[as[a].job].status
        BY <3>1 DEF SameHold
      <3>3. js[as[a].job].status \in Held
        BY <3>1 DEF Owned
      <3> QED BY <3>2, <3>3
    <2>3. \A a, b \in Open(as2) : as2[a].job = as2[b].job => a = b
      BY <1>1, <2>1 DEF Owned, SameHold
    <2>4. ASSUME NEW j \in DOMAIN js2
          PROVE  /\ js2[j].status \in Held => \E a \in Open(as2) : as2[a].job = j
                 /\ js2[j].status = "QUEUED" => Tries(as2, j) = {}
      <3>1. /\ j \in DOMAIN js /\ js2[j].status = js[j].status
            /\ \A a \in Open(as) : as2[a].job = as[a].job
        BY <2>1 DEF SameHold
      <3>2. js[j].status \in Held => \E a \in Open(as) : as[a].job = j
        BY <3>1 DEF Owned
      <3>3. js[j].status = "QUEUED" => Tries(as, j) = {}
        BY <3>1 DEF Owned
      <3> QED BY <1>1, <1>2, <3>1, <3>2, <3>3
    <2> QED BY <2>2, <2>3, <2>4 DEF Owned
  <1> QED BY <1>1, <1>2, <1>3, <1>4

(* 4c3b17726280, with work under way. *)
LEMMA AddLeasesKeeps ==
    ASSUME MigrationInv, AddLeases
    PROVE  MigrationInv'
  <1>0. /\ Shaped(jobs, attempts) /\ Owned(jobs, attempts) /\ TriedOnce(jobs, attempts)
        /\ Crew(workers) /\ version = 1 /\ version' = 2
        /\ UNCHANGED tx /\ Running
    BY DEF MigrationInv, Sane, AddLeases, Ascending, Reaches
  <1>1. ASSUME NEW j \in DOMAIN jobs
        PROVE  /\ DOMAIN jobs' = DOMAIN jobs /\ jobs'[j] \in JobRow
               /\ jobs'[j].status = jobs[j].status /\ jobs'[j].max_retries = 0
               /\ jobs'[j].attempt_count = Cardinality(Tries(attempts, j))
    <2> DEFINE count == Cardinality(Tries(attempts, j))
    <2>1. count \in Nat
      BY <1>0, TriesFinite
    <2>2. jobs' = [ i \in DOMAIN jobs |-> NewJobRow(jobs[i], Cardinality(Tries(attempts, i))) ]
      BY DEF AddLeases, AttemptsOf, Tries
    <2>3. jobs'[j] = NewJobRow(jobs[j], count)
      BY <2>2
    <2>4. jobs[j] \in JobRow
      BY <1>0 DEF Shaped
    <2>5. DOMAIN jobs' = DOMAIN jobs
      BY <2>2
    <2> HIDE DEF count
    <2>6. /\ NewJobRow(jobs[j], count) \in JobRow
          /\ NewJobRow(jobs[j], count).status = jobs[j].status
          /\ NewJobRow(jobs[j], count).max_retries = 0
          /\ NewJobRow(jobs[j], count).attempt_count = count
      BY <2>1, <2>4 DEF NewJobRow, JobRow
    <2> QED BY <2>3, <2>5, <2>6 DEF count
  <1>2. ASSUME NEW a \in DOMAIN attempts
        PROVE  /\ attempts'[a] \in AttemptRow /\ attempts'[a].job = attempts[a].job
               /\ attempts'[a].finished = attempts[a].finished
               /\ attempts'[a].worker = attempts[a].worker /\ attempts'[a].fence = 1
    <2> DEFINE outcome == IF attempts[a].finished THEN jobs[attempts[a].job].status ELSE None
    <2>1. attempts[a] \in AttemptRow /\ attempts[a].job \in DOMAIN jobs
      BY <1>0 DEF Shaped
    <2>2. outcome \in Status \cup {"LEASE_EXPIRED", None}
      BY <1>0, <2>1 DEF Shaped, JobRow
    <2>3. attempts'[a] = [attempts[a] EXCEPT !.slot = 0, !.fence = 1, !.lease = "over",
                                             !.outcome = outcome]
      BY DEF AddLeases, NewAttemptRow
    <2>4. /\ 0 \in Slot \cup {None} /\ 1 \in Nat \cup {None} /\ "over" \in {"lasts", "over", None}
      BY MigrationAssumption
    <2> HIDE DEF outcome
    <2> QED BY <2>1, <2>2, <2>3, <2>4 DEF AttemptRow
  <1>3. /\ jobs' \in [DOMAIN jobs' -> JobRow] /\ attempts' \in [DOMAIN attempts' -> AttemptRow]
        /\ SameHold(jobs, attempts, jobs', attempts')
    <2>1. /\ DOMAIN jobs' = DOMAIN jobs /\ DOMAIN attempts' = DOMAIN attempts
          /\ jobs' = [ j \in DOMAIN jobs' |-> jobs'[j] ]
          /\ attempts' = [ a \in DOMAIN attempts' |-> attempts'[a] ]
      BY DEF AddLeases
    <2>2. jobs' \in [DOMAIN jobs' -> JobRow]
      BY <1>1, <2>1
    <2>3. attempts' \in [DOMAIN attempts' -> AttemptRow]
      BY <1>2, <2>1
    <2>4. SameHold(jobs, attempts, jobs', attempts')
      BY <1>1, <1>2, <2>1 DEF SameHold
    <2> QED BY <2>2, <2>3, <2>4
  <1>4. /\ Shaped(jobs', attempts') /\ Owned(jobs', attempts')
        /\ Open(attempts') = Open(attempts)
        /\ \A j : Tries(attempts', j) = Tries(attempts, j)
    BY <1>0, <1>3, SameHoldKeeps
  <1>5. ASSUME NEW a \in Open(attempts)
        PROVE  /\ attempts'[a].fence = jobs'[attempts'[a].job].attempt_count
               /\ a \in DOMAIN attempts
    <2>1. a \in DOMAIN attempts /\ attempts[a].job \in DOMAIN jobs
      BY <1>0 DEF Open, Shaped
    <2>2. Tries(attempts, attempts[a].job) = {a}
      BY <1>0 DEF TriedOnce
    <2>3. Cardinality(Tries(attempts, attempts[a].job)) = 1
      BY <2>2, FS_Singleton
    <2> QED BY <1>1, <1>2, <2>1, <2>3
  <1>6. Counted(jobs', attempts')
    <2>1. \A a, b \in Open(attempts') : attempts'[a].worker = attempts'[b].worker => a = b
      BY <1>0, <1>2, <1>4, <1>5 DEF TriedOnce
    <2>2. ASSUME NEW j \in DOMAIN jobs'
          PROVE  /\ jobs'[j].attempt_count = Cardinality(Tries(attempts', j))
                 /\ jobs'[j].max_retries \in Nat /\ jobs'[j].status # "RETRY_WAIT"
      BY <1>0, <1>1, <1>3, <1>4 DEF TriedOnce, SameHold
    <2> QED BY <1>4, <1>5, <2>1, <2>2 DEF Counted
  <1>7. Crew(workers')
    <2>1. workers' = [ w \in DOMAIN workers |-> NewWorkerRow(workers[w]) ]
      BY DEF AddLeases
    <2>2. ASSUME NEW w \in DOMAIN workers PROVE NewWorkerRow(workers[w]) \in WorkerRow
      BY <1>0 DEF NewWorkerRow, WorkerRow, WorkerState, Crew
    <2> QED BY <1>0, <2>1, <2>2 DEF Crew
  <1>8. Sane(version, jobs, attempts, workers)'
    BY <1>0, <1>4, <1>6, <1>7 DEF Sane, Head
  <1> QED BY <1>0, <1>8, TablesStep

LEMMA DropLeasesKeeps ==
    ASSUME MigrationInv, DropLeases
    PROVE  MigrationInv'
  <1>0. /\ Shaped(jobs, attempts) /\ Owned(jobs, attempts)
        /\ Crew(workers) /\ version = 2 /\ version' = 1
        /\ UNCHANGED tx /\ Running
        /\ Open(attempts) = {} /\ \A j \in DOMAIN jobs : jobs[j].status \notin NewStatus
    BY DEF MigrationInv, Sane, DropLeases, Descending, Reaches, AtRest, Unfinished, Open
  <1>1. ASSUME NEW j \in DOMAIN jobs
        PROVE  jobs'[j] \in JobRow /\ jobs'[j].status = jobs[j].status
    <2>1. jobs'[j] = [jobs[j] EXCEPT !.attempt_count = None, !.max_retries = None]
      BY DEF DropLeases
    <2> QED BY <1>0, <2>1 DEF Shaped, JobRow
  <1>2. ASSUME NEW a \in DOMAIN attempts
        PROVE  /\ attempts'[a] \in AttemptRow /\ attempts'[a].job = attempts[a].job
               /\ attempts'[a].finished = attempts[a].finished
               /\ attempts'[a].worker = attempts[a].worker
    <2>1. attempts'[a] = [attempts[a] EXCEPT !.slot = None, !.fence = None, !.lease = None,
                                             !.outcome = None]
      BY DEF DropLeases
    <2>2. attempts[a] \in AttemptRow
      BY <1>0 DEF Shaped
    <2> QED BY <2>1, <2>2 DEF AttemptRow
  <1>3. /\ jobs' \in [DOMAIN jobs' -> JobRow] /\ attempts' \in [DOMAIN attempts' -> AttemptRow]
        /\ SameHold(jobs, attempts, jobs', attempts')
    <2>1. /\ DOMAIN jobs' = DOMAIN jobs /\ DOMAIN attempts' = DOMAIN attempts
          /\ jobs' = [ j \in DOMAIN jobs' |-> jobs'[j] ]
          /\ attempts' = [ a \in DOMAIN attempts' |-> attempts'[a] ]
      BY DEF DropLeases
    <2> QED BY <1>1, <1>2, <2>1 DEF SameHold
  <1>4. /\ Shaped(jobs', attempts') /\ Owned(jobs', attempts') /\ Open(attempts') = {}
    BY <1>0, <1>3, SameHoldKeeps
  <1>5. TriedOnce(jobs', attempts')
    BY <1>0, <1>1, <1>3, <1>4 DEF TriedOnce, SameHold, NewStatus
  <1>6. Crew(workers')
    <2>1. workers' = [ w \in DOMAIN workers |-> [workers[w] EXCEPT !.state = None] ]
      BY DEF DropLeases
    <2>2. ASSUME NEW w \in DOMAIN workers PROVE [workers[w] EXCEPT !.state = None] \in WorkerRow
      BY <1>0 DEF WorkerRow, Crew
    <2> QED BY <1>0, <2>1, <2>2 DEF Crew
  <1>7. Sane(version, jobs, attempts, workers)'
    BY <1>0, <1>4, <1>5, <1>6 DEF Sane, Head
  <1> QED BY <1>0, <1>7, TablesStep

LEMMA RevisionKeeps ==
    ASSUME MigrationInv, Revision
    PROVE  MigrationInv'
  <1>1. CASE CreateTables \/ DropTables
    <2>1. /\ jobs' = Empty /\ attempts' = Empty /\ workers' = Empty /\ version' \in {0, 1}
          /\ UNCHANGED tx /\ Running
      BY <1>1 DEF CreateTables, DropTables, Reaches, Ascending, Descending
    <2>2. Sane(version, jobs, attempts, workers)'
      BY <2>1, EmptySane
    <2> QED BY <2>1, <2>2, TablesStep
  <1>2. CASE WidenIds \/ NarrowIds
    <2>1. /\ UNCHANGED <<jobs, attempts, workers, tx>> /\ version \in {2, 3} /\ version' \in {2, 3}
          /\ Running
      BY <1>2 DEF WidenIds, NarrowIds, Reaches, Ascending, Descending
    <2>2. Sane(version, jobs, attempts, workers)'
      BY <2>1 DEF MigrationInv, Sane, Head
    <2> QED BY <2>1, <2>2, TablesStep
  <1>3. CASE AddDrainIntent
    <2>1. /\ UNCHANGED <<jobs, attempts, tx>> /\ version = 3 /\ version' = 4 /\ Running
          /\ workers' = [ w \in DOMAIN workers |->
                [workers[w] EXCEPT !.drain_requested = (workers[w].state = "DRAINING")] ]
      BY <1>3 DEF AddDrainIntent, Reaches, Ascending
    <2>2. ASSUME NEW w \in DOMAIN workers
          PROVE  /\ workers'[w] \in WorkerRow /\ workers'[w].drain_requested \in BOOLEAN
                 /\ workers'[w].state = "DRAINING" => workers'[w].drain_requested
                 /\ workers'[w].drain_requested => workers'[w].state \in {"DRAINING", "DEAD"}
      <3>1. workers[w] \in WorkerRow
        BY DEF MigrationInv, Sane, Crew
      <3> DEFINE mark == (workers[w].state = "DRAINING")
      <3>2. mark \in BOOLEAN /\ workers'[w] = [workers[w] EXCEPT !.drain_requested = mark]
        BY <2>1
      <3>3. mark <=> workers[w].state = "DRAINING"
        OBVIOUS
      <3> HIDE DEF mark
      <3>4. /\ workers'[w] \in WorkerRow /\ workers'[w].drain_requested = mark
            /\ workers'[w].state = workers[w].state
        BY <3>1, <3>2 DEF WorkerRow
      <3> QED BY <3>2, <3>3, <3>4
    <2>3. DOMAIN workers' = DOMAIN workers /\ Crew(workers')
      BY <2>1, <2>2 DEF MigrationInv, Sane, Crew
    <2>4. Marked(workers')
      BY <2>2, <2>3 DEF Marked
    <2>5. Sane(version, jobs, attempts, workers)'
      BY <2>1, <2>3, <2>4 DEF MigrationInv, Sane, Head
    <2> QED BY <2>1, <2>5, TablesStep
  <1>4. CASE DropDrainIntent
    <2>1. /\ UNCHANGED <<jobs, attempts, tx>> /\ version = 4 /\ version' = 3 /\ Running
          /\ workers' = [ w \in DOMAIN workers |-> [workers[w] EXCEPT !.drain_requested = None] ]
      BY <1>4 DEF DropDrainIntent, Reaches, Descending
    <2>2. ASSUME NEW w \in DOMAIN workers
          PROVE  [workers[w] EXCEPT !.drain_requested = None] \in WorkerRow
      BY DEF MigrationInv, Sane, WorkerRow, Crew
    <2>3. Crew(workers')
      BY <2>1, <2>2 DEF MigrationInv, Sane, Crew
    <2>4. Sane(version, jobs, attempts, workers)'
      BY <2>1, <2>3 DEF MigrationInv, Sane, Head
    <2> QED BY <2>1, <2>4, TablesStep
  <1> QED BY <1>1, <1>2, <1>3, <1>4, AddLeasesKeeps, DropLeasesKeeps DEF Revision

-----------------------------------------------------------------------------
(***************************************************************************)
(* The program at the head version.                                        *)
(***************************************************************************)
LEMMA ServiceStep ==
    ASSUME MigrationInv, InService, UNCHANGED <<version, tx>>,
           Shaped(jobs', attempts'), Owned(jobs', attempts'), Counted(jobs', attempts'),
           Crew(workers'), Marked(workers')
    PROVE  MigrationInv'
  <1>1. Sane(version, jobs, attempts, workers)'
    BY DEF Sane, InService, Head
  <1> QED BY <1>1, TablesStep

LEMMA HeadFacts ==
    ASSUME MigrationInv, InService
    PROVE  /\ Shaped(jobs, attempts) /\ Owned(jobs, attempts) /\ Counted(jobs, attempts)
           /\ Crew(workers) /\ Marked(workers)
  BY DEF MigrationInv, InService, Sane, Head

LEMMA WorkersKeep ==
    ASSUME MigrationInv,
           \/ \E w \in WorkerId : Register(w)
           \/ \E w \in DOMAIN workers : Drain(w) \/ FallSilent(w) \/ Return(w)
    PROVE  MigrationInv'
  <1>0. InService /\ UNCHANGED <<version, jobs, attempts, tx>>
    BY DEF Register, Drain, FallSilent, Return
  <1>1. /\ Shaped(jobs', attempts') /\ Owned(jobs', attempts') /\ Counted(jobs', attempts')
        /\ Crew(workers) /\ Marked(workers)
    BY <1>0, HeadFacts
  <1> DEFINE Good(row) == /\ row \in WorkerRow /\ row.drain_requested \in BOOLEAN
                          /\ row.state = "DRAINING" => row.drain_requested
                          /\ row.drain_requested => row.state \in {"DRAINING", "DEAD"}
  <1>2. \A w \in DOMAIN workers : Good(workers[w])
    BY <1>1 DEF Marked, Crew
  <1>3. ASSUME \A w \in DOMAIN workers' : Good(workers'[w]),
               workers' = [ w \in DOMAIN workers' |-> workers'[w] ],
               DOMAIN workers' \subseteq WorkerId
        PROVE  MigrationInv'
    <2>1. Crew(workers') /\ Marked(workers')
      BY <1>3 DEF Marked, Crew
    <2> QED BY <1>0, <1>1, <2>1, ServiceStep
  <1>4. ASSUME NEW w \in WorkerId, Register(w) PROVE MigrationInv'
    <2> DEFINE row == [state |-> "HEALTHY", drain_requested |-> FALSE]
    <2>1. Good(row)
      BY DEF WorkerRow, WorkerState
    <2> HIDE DEF Good, row
    <2>2. workers' = Put(workers, w, row)
      BY <1>4 DEF Register, row
    <2>3. workers' = [ v \in DOMAIN workers' |-> workers'[v] ] /\ DOMAIN workers' \subseteq WorkerId
      BY <1>1, <2>2 DEF Put, Crew
    <2>4. \A v \in DOMAIN workers' : Good(workers'[v])
      BY <1>2, <2>1, <2>2 DEF Put
    <2> QED BY <1>3, <2>3, <2>4
  <1>5. ASSUME NEW w \in DOMAIN workers, NEW row, Good(row), workers' = [workers EXCEPT ![w] = row]
        PROVE  MigrationInv'
    <2> HIDE DEF Good
    <2>1. \A v \in DOMAIN workers' : Good(workers'[v])
      BY <1>1, <1>2, <1>5 DEF Crew
    <2>2. workers' = [ v \in DOMAIN workers' |-> workers'[v] ] /\ DOMAIN workers' \subseteq WorkerId
      BY <1>1, <1>5 DEF Crew
    <2> QED BY <1>3, <2>1, <2>2
  <1>6. ASSUME NEW w \in DOMAIN workers, Drain(w) PROVE MigrationInv'
    <2> DEFINE row == [state |-> "DRAINING", drain_requested |-> TRUE]
    <2>1. Good(row)
      BY DEF WorkerRow, WorkerState
    <2>2. workers' = [workers EXCEPT ![w] = row]
      BY <1>6 DEF Drain
    <2> HIDE DEF row, Good
    <2> QED BY <1>5, <2>1, <2>2
  <1>7. ASSUME NEW w \in DOMAIN workers, FallSilent(w) PROVE MigrationInv'
    <2> DEFINE row == [workers[w] EXCEPT !.state = "DEAD"]
    <2>1. /\ row \in WorkerRow /\ row.state = "DEAD"
          /\ row.drain_requested = workers[w].drain_requested
      BY <1>2 DEF WorkerRow, WorkerState
    <2>2. workers' = [workers EXCEPT ![w] = row]
      BY <1>7 DEF FallSilent
    <2> HIDE DEF row
    <2>3. Good(row)
      BY <1>2, <2>1
    <2> HIDE DEF Good
    <2> QED BY <1>5, <2>2, <2>3
  <1>8. ASSUME NEW w \in DOMAIN workers, Return(w) PROVE MigrationInv'
    <2> DEFINE state == IF workers[w].drain_requested THEN "DRAINING" ELSE "HEALTHY"
               row == [workers[w] EXCEPT !.state = state]
    <2>1. state \in WorkerState /\ (state = "DRAINING" <=> workers[w].drain_requested)
      BY DEF WorkerState
    <2>2. workers' = [workers EXCEPT ![w] = row]
      BY <1>8 DEF Return
    <2> HIDE DEF state
    <2>3. /\ row \in WorkerRow /\ row.state = state
          /\ row.drain_requested = workers[w].drain_requested
      BY <1>2, <2>1 DEF WorkerRow
    <2> HIDE DEF row
    <2>4. Good(row)
      BY <1>2, <2>1, <2>3
    <2> HIDE DEF Good
    <2> QED BY <1>5, <2>2, <2>4
  <1> QED BY <1>4, <1>6, <1>7, <1>8

LEMMA SubmitKeeps ==
    ASSUME MigrationInv, NEW j, NEW retries \in Retries, Submit(j, retries)
    PROVE  MigrationInv'
  <1>0. /\ InService /\ UNCHANGED <<version, attempts, workers, tx>>
        /\ j = Cardinality(DOMAIN jobs) + 1
    BY DEF Submit
  <1>1. /\ Shaped(jobs, attempts) /\ Owned(jobs, attempts) /\ Counted(jobs, attempts)
        /\ Crew(workers) /\ Marked(workers)
    BY <1>0, HeadFacts
  <1> DEFINE row == [status |-> "QUEUED", attempt_count |-> 0, max_retries |-> retries]
  <1>2. /\ row \in JobRow /\ row.status = "QUEUED" /\ row.attempt_count = 0
        /\ row.max_retries \in Nat
    BY MigrationAssumption DEF JobRow, Status, OldStatus
  <1>3. PICK n \in Nat : DOMAIN jobs = 1 .. n
    BY <1>1 DEF Shaped
  <1>4. j \notin DOMAIN jobs /\ DOMAIN jobs \cup {j} = 1 .. (n + 1)
    BY <1>0, <1>3, NextNumber
  <1>5. jobs' = Put(jobs, j, row)
    BY DEF Submit
  <1> HIDE DEF row
  <1>6. /\ DOMAIN jobs' = DOMAIN jobs \cup {j} /\ jobs'[j] = row
        /\ \A i \in DOMAIN jobs : jobs'[i] = jobs[i]
    BY <1>4, <1>5 DEF Put
  <1>7. jobs' \in [DOMAIN jobs' -> JobRow]
    BY <1>1, <1>2, <1>5, <1>6 DEF Put, Shaped
  <1>8. Shaped(jobs', attempts')
    <2>1. DOMAIN jobs' = 1 .. (n + 1) /\ n + 1 \in Nat
      BY <1>4, <1>6
    <2> QED BY <1>0, <1>1, <1>6, <1>7, <2>1 DEF Shaped
  <1>9. Tries(attempts, j) = {}
    BY <1>1, <1>4 DEF Tries, Shaped
  <1>10. \A a \in Open(attempts) : attempts[a].job \in DOMAIN jobs
    BY <1>1 DEF Open, Shaped
  <1>11. Owned(jobs', attempts')
    <2>1. ASSUME NEW i \in DOMAIN jobs'
          PROVE  /\ jobs'[i].status \in Held => \E a \in Open(attempts) : attempts[a].job = i
                 /\ jobs'[i].status = "QUEUED" => Tries(attempts, i) = {}
      BY <1>1, <1>2, <1>6, <1>9 DEF Owned, Held
    <2>2. \A a \in Open(attempts) : jobs'[attempts[a].job].status \in Held
      BY <1>1, <1>6, <1>10 DEF Owned
    <2>3. \A a, b \in Open(attempts) : attempts[a].job = attempts[b].job => a = b
      BY <1>1 DEF Owned
    <2> QED BY <1>0, <2>1, <2>2, <2>3 DEF Owned
  <1>12. Counted(jobs', attempts')
    <2>1. Cardinality(Tries(attempts, j)) = 0
      BY <1>9, FS_EmptySet
    <2>2. ASSUME NEW i \in DOMAIN jobs'
          PROVE  /\ jobs'[i].attempt_count = Cardinality(Tries(attempts, i))
                 /\ jobs'[i].max_retries \in Nat
                 /\ jobs'[i].status = "RETRY_WAIT" => jobs'[i].attempt_count <= jobs'[i].max_retries
      <3>1. CASE i = j
        BY <1>2, <1>6, <2>1, <3>1
      <3>2. CASE i \in DOMAIN jobs
        BY <1>1, <1>6, <3>2 DEF Counted
      <3> QED BY <1>6, <3>1, <3>2
    <2>3. \A a \in Open(attempts) : attempts[a].fence = jobs'[attempts[a].job].attempt_count
      BY <1>1, <1>6, <1>10 DEF Counted
    <2>4. \A a, b \in Open(attempts) :
            attempts[a].worker = attempts[b].worker /\ attempts[a].slot = attempts[b].slot => a = b
      BY <1>1 DEF Counted
    <2> QED BY <1>0, <2>2, <2>3, <2>4 DEF Counted
  <1> QED BY <1>0, <1>1, <1>8, <1>11, <1>12, ServiceStep

LEMMA ClaimKeeps ==
    ASSUME MigrationInv, NEW j \in DOMAIN jobs, NEW a, NEW w \in DOMAIN workers, NEW slot \in Slot,
           Claim(j, a, w, slot)
    PROVE  MigrationInv'
  <1>0. /\ InService /\ UNCHANGED <<version, workers, tx>>
        /\ a = Cardinality(DOMAIN attempts) + 1 /\ jobs[j].status \in Waiting
        /\ \A b \in Open(attempts) : ~(attempts[b].worker = w /\ attempts[b].slot = slot)
    BY DEF Claim, Open, Unfinished
  <1>1. /\ Shaped(jobs, attempts) /\ Owned(jobs, attempts) /\ Counted(jobs, attempts)
        /\ Crew(workers) /\ Marked(workers)
    BY <1>0, HeadFacts
  <1> DEFINE n == jobs[j].attempt_count
             job == [jobs[j] EXCEPT !.status = "LEASED", !.attempt_count = n + 1]
             try == [ job |-> j, worker |-> w, finished |-> FALSE, slot |-> slot, fence |-> n + 1,
                      lease |-> "lasts", outcome |-> None ]
  <1>2. n = Cardinality(Tries(attempts, j)) /\ n \in Nat /\ jobs[j] \in JobRow
        /\ IsFiniteSet(Tries(attempts, j))
    <2>1. IsFiniteSet(Tries(attempts, j)) /\ Cardinality(Tries(attempts, j)) \in Nat
      BY <1>1, TriesFinite
    <2>2. n = Cardinality(Tries(attempts, j)) /\ jobs[j] \in JobRow
      BY <1>1 DEF Counted, Shaped
    <2> QED BY <2>1, <2>2
  <1>3. /\ jobs' = [jobs EXCEPT ![j] = job] /\ attempts' = Put(attempts, a, try)
    BY <1>1 DEF Claim, Shaped
  <1> HIDE DEF n
  <1>4. /\ job \in JobRow /\ job.status = "LEASED" /\ job.attempt_count = n + 1
        /\ job.max_retries = jobs[j].max_retries
    <2>1. n + 1 \in Nat \cup {None} /\ "LEASED" \in Status
      BY <1>2 DEF Status, OldStatus
    <2> QED BY <1>2, <2>1 DEF JobRow
  <1>5. j \in Nat
    BY <1>1 DEF Shaped
  <1>6. /\ try \in AttemptRow /\ try.job = j /\ try.worker = w /\ try.finished = FALSE
        /\ try.slot = slot /\ try.fence = n + 1
    <2>1. /\ w \in WorkerId /\ n + 1 \in Nat \cup {None} /\ slot \in Slot \cup {None}
          /\ None \in Status \cup {"LEASE_EXPIRED", None} /\ "lasts" \in {"lasts", "over", None}
      BY <1>1, <1>2 DEF Crew
    <2> QED BY <1>5, <2>1 DEF AttemptRow
  <1> HIDE DEF job, try
  <1>7. PICK m \in Nat : DOMAIN attempts = 1 .. m
    BY <1>1 DEF Shaped
  <1>8. a \notin DOMAIN attempts /\ DOMAIN attempts \cup {a} = 1 .. (m + 1)
    BY <1>0, <1>7, NextNumber
  <1>9. /\ DOMAIN attempts' = DOMAIN attempts \cup {a} /\ attempts'[a] = try
        /\ \A b \in DOMAIN attempts : attempts'[b] = attempts[b]
        /\ attempts' \in [DOMAIN attempts' -> AttemptRow]
    BY <1>1, <1>3, <1>6, <1>8 DEF Put, Shaped
  <1>10. /\ DOMAIN jobs' = DOMAIN jobs /\ jobs'[j] = job
         /\ \A i \in DOMAIN jobs : i # j => jobs'[i] = jobs[i]
         /\ jobs' \in [DOMAIN jobs' -> JobRow]
    BY <1>1, <1>3, <1>4 DEF Shaped
  <1>11. Shaped(jobs', attempts')
    <2>1. DOMAIN attempts' = 1 .. (m + 1) /\ m + 1 \in Nat
      BY <1>8, <1>9
    <2>2. \A b \in DOMAIN attempts' : attempts'[b].job \in DOMAIN jobs'
      BY <1>1, <1>6, <1>9, <1>10 DEF Shaped
    <2> QED BY <1>1, <1>9, <1>10, <2>1, <2>2 DEF Shaped
  <1>12. Open(attempts') = Open(attempts) \cup {a}
    BY <1>6, <1>8, <1>9 DEF Open
  <1>13. \A b \in Open(attempts) :
            /\ b # a /\ attempts'[b] = attempts[b] /\ attempts[b].job \in DOMAIN jobs
            /\ attempts[b].job # j
    BY <1>0, <1>1, <1>8, <1>9 DEF Open, Shaped, Owned, Waiting, Held
  <1>14. Tries(attempts', j) = Tries(attempts, j) \cup {a}
    BY <1>6, <1>8, <1>9 DEF Tries
  <1>15. \A i : i # j => Tries(attempts', i) = Tries(attempts, i)
    BY <1>6, <1>8, <1>9 DEF Tries
  <1>16. Owned(jobs', attempts')
    <2>1. \A b \in Open(attempts') : jobs'[attempts'[b].job].status \in Held
      BY <1>1, <1>4, <1>6, <1>9, <1>10, <1>12, <1>13 DEF Owned, Held
    <2>2. \A b, c \in Open(attempts') : attempts'[b].job = attempts'[c].job => b = c
      BY <1>1, <1>6, <1>9, <1>12, <1>13 DEF Owned
    <2>3. ASSUME NEW i \in DOMAIN jobs'
          PROVE  /\ jobs'[i].status \in Held => \E b \in Open(attempts') : attempts'[b].job = i
                 /\ jobs'[i].status = "QUEUED" => Tries(attempts', i) = {}
      <3>1. CASE i = j
        BY <1>4, <1>6, <1>9, <1>10, <1>12, <3>1
      <3>2. CASE i # j
        <4>1. jobs'[i] = jobs[i] /\ i \in DOMAIN jobs
          BY <1>10, <3>2
        <4>2. jobs[i].status \in Held => \E b \in Open(attempts) : attempts[b].job = i
          BY <1>1, <4>1 DEF Owned
        <4>3. jobs[i].status = "QUEUED" => Tries(attempts, i) = {}
          BY <1>1, <4>1 DEF Owned
        <4> QED BY <1>12, <1>13, <1>15, <3>2, <4>1, <4>2, <4>3
      <3> QED BY <3>1, <3>2
    <2> QED BY <2>1, <2>2, <2>3 DEF Owned
  <1>17. Counted(jobs', attempts')
    <2>1. Cardinality(Tries(attempts', j)) = n + 1
      <3>1. a \notin Tries(attempts, j)
        BY <1>8 DEF Tries
      <3>2. Cardinality(Tries(attempts, j) \cup {a}) = Cardinality(Tries(attempts, j)) + 1
        BY <1>2, <3>1, FS_AddElement
      <3> QED BY <1>2, <1>14, <3>2
    <2>2. ASSUME NEW i \in DOMAIN jobs'
          PROVE  /\ jobs'[i].attempt_count = Cardinality(Tries(attempts', i))
                 /\ jobs'[i].max_retries \in Nat
                 /\ jobs'[i].status = "RETRY_WAIT" => jobs'[i].attempt_count <= jobs'[i].max_retries
      <3>1. CASE i = j
        BY <1>1, <1>4, <1>10, <2>1, <3>1 DEF Counted
      <3>2. CASE i # j
        <4>1. jobs'[i] = jobs[i] /\ i \in DOMAIN jobs /\ Tries(attempts', i) = Tries(attempts, i)
          BY <1>10, <1>15, <3>2
        <4> QED BY <1>1, <4>1 DEF Counted
      <3> QED BY <3>1, <3>2
    <2>3. ASSUME NEW b \in Open(attempts')
          PROVE  attempts'[b].fence = jobs'[attempts'[b].job].attempt_count
      <3>1. CASE b = a
        BY <1>4, <1>6, <1>9, <1>10, <3>1
      <3>2. CASE b \in Open(attempts)
        BY <1>1, <1>10, <1>13, <3>2 DEF Counted
      <3> QED BY <1>12, <3>1, <3>2
    <2>4. \A b, c \in Open(attempts') :
            attempts'[b].worker = attempts'[c].worker /\ attempts'[b].slot = attempts'[c].slot
                => b = c
      BY <1>0, <1>1, <1>6, <1>9, <1>12, <1>13 DEF Counted
    <2> QED BY <2>2, <2>3, <2>4 DEF Counted
  <1> QED BY <1>0, <1>1, <1>11, <1>16, <1>17, ServiceStep

(* An attempt ends, and the job is no longer held: nobody else holds it. *)
LEMMA EndKeeps ==
    ASSUME MigrationInv, InService, NEW a \in Open(attempts), NEW status \in Status,
           status \notin Held \cup {"QUEUED"}, NEW outcome \in Status \cup {"LEASE_EXPIRED"},
           status = "RETRY_WAIT" =>
             jobs[attempts[a].job].attempt_count <= jobs[attempts[a].job].max_retries,
           SetStatus(attempts[a].job, status), FinishAs(a, outcome),
           UNCHANGED <<version, workers, tx>>
    PROVE  MigrationInv'
  <1>1. /\ Shaped(jobs, attempts) /\ Owned(jobs, attempts) /\ Counted(jobs, attempts)
        /\ Crew(workers) /\ Marked(workers)
    BY HeadFacts
  <1> DEFINE j == attempts[a].job
             job == [jobs[j] EXCEPT !.status = status]
             try == [attempts[a] EXCEPT !.finished = TRUE, !.outcome = outcome, !.lease = "over"]
  <1>2. /\ a \in DOMAIN attempts /\ j \in DOMAIN jobs /\ jobs[j] \in JobRow
        /\ attempts[a] \in AttemptRow
    BY <1>1 DEF Open, Shaped
  <1>3. /\ jobs' = [jobs EXCEPT ![j] = job] /\ attempts' = [attempts EXCEPT ![a] = try]
    BY <1>1, <1>2 DEF SetStatus, FinishAs, Shaped
  <1>4. /\ job \in JobRow /\ job.status = status /\ job.attempt_count = jobs[j].attempt_count
        /\ job.max_retries = jobs[j].max_retries
    BY <1>2 DEF JobRow
  <1>5. outcome \in Status \cup {"LEASE_EXPIRED", None} /\ "over" \in {"lasts", "over", None}
    OBVIOUS
  <1>6. /\ try \in AttemptRow /\ try.job = j /\ try.finished = TRUE
    BY <1>2, <1>5 DEF AttemptRow
  <1> HIDE DEF job, try, j
  <1>7. /\ DOMAIN attempts' = DOMAIN attempts /\ attempts'[a] = try
        /\ \A b \in DOMAIN attempts : b # a => attempts'[b] = attempts[b]
        /\ attempts' \in [DOMAIN attempts' -> AttemptRow]
    BY <1>1, <1>2, <1>3, <1>6 DEF Shaped
  <1>8. /\ DOMAIN jobs' = DOMAIN jobs /\ jobs'[j] = job
        /\ \A i \in DOMAIN jobs : i # j => jobs'[i] = jobs[i]
        /\ jobs' \in [DOMAIN jobs' -> JobRow]
    BY <1>1, <1>2, <1>3, <1>4 DEF Shaped
  <1>9. Shaped(jobs', attempts')
    <2>1. \A b \in DOMAIN attempts' : attempts'[b].job \in DOMAIN jobs'
      BY <1>1, <1>2, <1>6, <1>7, <1>8 DEF Shaped
    <2> QED BY <1>1, <1>7, <1>8, <2>1 DEF Shaped
  <1>10. Open(attempts') = Open(attempts) \ {a}
    BY <1>6, <1>7 DEF Open
  <1>11. \A b \in Open(attempts) \ {a} :
            /\ attempts'[b] = attempts[b] /\ attempts[b].job \in DOMAIN jobs
            /\ attempts[b].job # j
    BY <1>1, <1>7 DEF Open, Shaped, Owned, j
  <1>12. \A i : Tries(attempts', i) = Tries(attempts, i)
    BY <1>2, <1>6, <1>7 DEF Tries, j
  <1>13. Owned(jobs', attempts')
    <2>1. \A b \in Open(attempts') : jobs'[attempts'[b].job].status \in Held
      BY <1>1, <1>8, <1>10, <1>11 DEF Owned
    <2>2. \A b, c \in Open(attempts') : attempts'[b].job = attempts'[c].job => b = c
      BY <1>1, <1>10, <1>11 DEF Owned
    <2>3. ASSUME NEW i \in DOMAIN jobs'
          PROVE  /\ jobs'[i].status \in Held => \E b \in Open(attempts') : attempts'[b].job = i
                 /\ jobs'[i].status = "QUEUED" => Tries(attempts', i) = {}
      <3>1. CASE i = j
        BY <1>4, <1>8, <3>1
      <3>2. CASE i # j
        <4>1. jobs'[i] = jobs[i] /\ i \in DOMAIN jobs
          BY <1>8, <3>2
        <4>2. jobs[i].status \in Held => \E b \in Open(attempts) : attempts[b].job = i
          BY <1>1, <4>1 DEF Owned
        <4>3. jobs[i].status = "QUEUED" => Tries(attempts, i) = {}
          BY <1>1, <4>1 DEF Owned
        <4>4. attempts[a].job = j
          BY DEF j
        <4> QED BY <1>10, <1>11, <1>12, <3>2, <4>1, <4>2, <4>3, <4>4
      <3> QED BY <3>1, <3>2
    <2> QED BY <2>1, <2>2, <2>3 DEF Owned
  <1>14. Counted(jobs', attempts')
    <2>1. ASSUME NEW i \in DOMAIN jobs'
          PROVE  /\ jobs'[i].attempt_count = Cardinality(Tries(attempts', i))
                 /\ jobs'[i].max_retries \in Nat
                 /\ jobs'[i].status = "RETRY_WAIT" => jobs'[i].attempt_count <= jobs'[i].max_retries
      <3>1. CASE i = j
        BY <1>1, <1>2, <1>4, <1>8, <1>12, <3>1 DEF Counted, j
      <3>2. CASE i # j
        <4>1. jobs'[i] = jobs[i] /\ i \in DOMAIN jobs /\ Tries(attempts', i) = Tries(attempts, i)
          BY <1>8, <1>12, <3>2
        <4> QED BY <1>1, <4>1 DEF Counted
      <3> QED BY <3>1, <3>2
    <2>2. ASSUME NEW b \in Open(attempts')
          PROVE  attempts'[b].fence = jobs'[attempts'[b].job].attempt_count
      BY <1>1, <1>8, <1>10, <1>11 DEF Counted
    <2>3. \A b, c \in Open(attempts') :
            attempts'[b].worker = attempts'[c].worker /\ attempts'[b].slot = attempts'[c].slot
                => b = c
      BY <1>1, <1>10, <1>11 DEF Counted
    <2> QED BY <2>1, <2>2, <2>3 DEF Counted
  <1> QED BY <1>1, <1>9, <1>13, <1>14, ServiceStep

LEMMA LapseKeeps ==
    ASSUME MigrationInv, NEW a \in DOMAIN attempts, Lapse(a)
    PROVE  MigrationInv'
  <1>0. /\ InService /\ UNCHANGED <<version, jobs, workers, tx>>
        /\ attempts' = [attempts EXCEPT ![a].lease = "over"]
    BY DEF Lapse
  <1>1. /\ Shaped(jobs, attempts) /\ Owned(jobs, attempts) /\ Counted(jobs, attempts)
        /\ Crew(workers) /\ Marked(workers)
    BY <1>0, HeadFacts
  <1> DEFINE try == [attempts[a] EXCEPT !.lease = "over"]
  <1>2. /\ try \in AttemptRow /\ try.job = attempts[a].job
        /\ try.finished = attempts[a].finished /\ try.worker = attempts[a].worker
        /\ try.slot = attempts[a].slot /\ try.fence = attempts[a].fence
    BY <1>1 DEF Shaped, AttemptRow
  <1>3. attempts' = [attempts EXCEPT ![a] = try]
    BY <1>0
  <1> HIDE DEF try
  <1>4. /\ DOMAIN attempts' = DOMAIN attempts /\ attempts' \in [DOMAIN attempts' -> AttemptRow]
        /\ \A b \in DOMAIN attempts :
            /\ attempts'[b].job = attempts[b].job /\ attempts'[b].finished = attempts[b].finished
            /\ attempts'[b].worker = attempts[b].worker /\ attempts'[b].slot = attempts[b].slot
            /\ attempts'[b].fence = attempts[b].fence
    BY <1>1, <1>2, <1>3 DEF Shaped
  <1>5. SameHold(jobs, attempts, jobs', attempts') /\ jobs' \in [DOMAIN jobs' -> JobRow]
    BY <1>0, <1>1, <1>4 DEF SameHold, Shaped
  <1>6. /\ Shaped(jobs', attempts') /\ Owned(jobs', attempts')
        /\ Open(attempts') = Open(attempts)
        /\ \A j : Tries(attempts', j) = Tries(attempts, j)
    BY <1>1, <1>4, <1>5, SameHoldKeeps
  <1>7. Open(attempts) \subseteq DOMAIN attempts
    BY DEF Open
  <1>8. Counted(jobs', attempts')
    <2>1. \A b \in Open(attempts') : attempts'[b].fence = jobs'[attempts'[b].job].attempt_count
      BY <1>0, <1>1, <1>4, <1>6, <1>7 DEF Counted
    <2>2. \A b, c \in Open(attempts') :
            attempts'[b].worker = attempts'[c].worker /\ attempts'[b].slot = attempts'[c].slot
                => b = c
      BY <1>1, <1>4, <1>6, <1>7 DEF Counted
    <2>3. \A j \in DOMAIN jobs' :
            /\ jobs'[j].attempt_count = Cardinality(Tries(attempts', j)) /\ jobs'[j].max_retries \in Nat
            /\ jobs'[j].status = "RETRY_WAIT" => jobs'[j].attempt_count <= jobs'[j].max_retries
      BY <1>0, <1>1, <1>6 DEF Counted
    <2> QED BY <2>1, <2>2, <2>3 DEF Counted
  <1> QED BY <1>0, <1>1, <1>6, <1>8, ServiceStep

LEMMA AttemptsKeep ==
    ASSUME MigrationInv, NEW a \in DOMAIN attempts, Succeed(a) \/ Lapse(a) \/ Recover(a)
    PROVE  MigrationInv'
  <1>1. CASE Succeed(a)
    <2>1. /\ InService /\ a \in Open(attempts) /\ SetStatus(attempts[a].job, "SUCCEEDED")
          /\ FinishAs(a, "SUCCEEDED") /\ UNCHANGED <<version, workers, tx>>
      BY <1>1 DEF Succeed, Open, Unfinished
    <2>2. "SUCCEEDED" \in Status /\ "SUCCEEDED" \notin Held \cup {"QUEUED"} /\ "SUCCEEDED" # "RETRY_WAIT"
      BY DEF Status, OldStatus, Held
    <2> QED BY <2>1, <2>2, EndKeeps
  <1>2. CASE Lapse(a)
    BY <1>2, LapseKeeps
  <1>3. CASE Recover(a)
    <2> DEFINE row == jobs[attempts[a].job]
               status == IF row.attempt_count <= row.max_retries THEN "RETRY_WAIT"
                                                                 ELSE "DEAD_LETTER"
    <2>1. /\ InService /\ a \in Open(attempts) /\ SetStatus(attempts[a].job, status)
          /\ FinishAs(a, "LEASE_EXPIRED") /\ UNCHANGED <<version, workers, tx>>
      BY <1>3 DEF Recover, Open, Unfinished
    <2>2. /\ status \in Status /\ status \notin Held \cup {"QUEUED"}
          /\ status = "RETRY_WAIT" => row.attempt_count <= row.max_retries
      BY DEF Status, NewStatus, Held
    <2> HIDE DEF status
    <2> QED BY <2>1, <2>2, EndKeeps
  <1> QED BY <1>1, <1>2, <1>3

-----------------------------------------------------------------------------
LEMMA OneRow ==
    ASSUME NEW k, NEW row, NEW R, row \in R
    PROVE  /\ DOMAIN Put(Empty, k, row) = {k} /\ Put(Empty, k, row)[k] = row
           /\ Put(Empty, k, row) \in [DOMAIN Put(Empty, k, row) -> R]
  BY DEF Put, Empty

(* What v0.1 left. *)
LEMMA OldTablesSane ==
    ASSUME OldTables
    PROVE  Sane(1, jobs, attempts, workers)
  <1>1. PICK w \in WorkerId, status \in OldStatus :
            /\ workers = Put(Empty, w, [state |-> None, drain_requested |-> None])
            /\ jobs = Put(Empty, 1, OldJob(status))
            /\ attempts = IF status \in {"QUEUED", "CANCELLED"} THEN Empty
                          ELSE Put(Empty, 1, OldAttempt(1, w, status))
    BY DEF OldTables
  <1>2. Crew(workers)
    <2>1. [state |-> None, drain_requested |-> None] \in WorkerRow
      BY DEF WorkerRow
    <2>2. DOMAIN workers = {w} /\ workers \in [DOMAIN workers -> WorkerRow]
      BY <1>1, <2>1, OneRow
    <2> QED BY <2>2 DEF Crew
  <1> DEFINE job == OldJob(status)
             try == OldAttempt(1, w, status)
  <1>3. job \in JobRow /\ job.status = status
    BY DEF OldJob, JobRow, Status
  <1>4. /\ try \in AttemptRow /\ try.job = 1 /\ (try.finished <=> status \notin Held)
    BY DEF OldAttempt, AttemptRow
  <1> HIDE DEF job, try
  <1>5. DOMAIN jobs = {1} /\ jobs[1] = job /\ jobs \in [DOMAIN jobs -> JobRow]
    BY <1>1, <1>3, OneRow DEF job
  <1>6. {1} = 1 .. 1 /\ {} = 1 .. 0
    OBVIOUS
  <1>7. CASE status \in {"QUEUED", "CANCELLED"}
    <2>1. attempts = Empty /\ DOMAIN Empty = {} /\ Empty \in [DOMAIN Empty -> AttemptRow]
      BY <1>1, <1>7 DEF Empty
    <2>2. Open(attempts) = {} /\ \A j : Tries(attempts, j) = {}
      BY <2>1 DEF Open, Tries
    <2>3. Shaped(jobs, attempts)
      BY <1>5, <1>6, <2>1 DEF Shaped
    <2>4. Owned(jobs, attempts) /\ TriedOnce(jobs, attempts)
      BY <1>3, <1>5, <1>7, <2>2 DEF Owned, TriedOnce, Held
    <2> QED BY <1>2, <2>3, <2>4 DEF Sane, Head
  <1>8. CASE status \notin {"QUEUED", "CANCELLED"}
    <2>1. /\ DOMAIN attempts = {1} /\ attempts[1] = try
          /\ attempts \in [DOMAIN attempts -> AttemptRow]
      <3>1. attempts = Put(Empty, 1, try)
        BY <1>1, <1>8 DEF try
      <3> QED BY <1>4, <3>1, OneRow
    <2>2. /\ \A a \in Open(attempts) : a = 1 /\ status \in Held
          /\ status \in Held => 1 \in Open(attempts)
          /\ Tries(attempts, 1) = {1}
      BY <1>4, <2>1 DEF Open, Tries
    <2>3. Shaped(jobs, attempts)
      BY <1>4, <1>5, <1>6, <2>1 DEF Shaped
    <2>4. Owned(jobs, attempts)
      BY <1>3, <1>4, <1>5, <1>8, <2>1, <2>2 DEF Owned
    <2>5. TriedOnce(jobs, attempts)
      BY <1>3, <1>4, <1>5, <2>1, <2>2 DEF TriedOnce, OldStatus
    <2> QED BY <1>2, <2>3, <2>4, <2>5 DEF Sane, Head
  <1> QED BY <1>7, <1>8

LEMMA InitSane ==
    ASSUME Init
    PROVE  MigrationInv
  <1>1. tx = None /\ version \in {0, 1, 3}
    BY DEF Init
  <1>2. Sane(version, jobs, attempts, workers)
    <2>1. CASE version = 0 /\ jobs = Empty /\ attempts = Empty /\ workers = Empty
      BY <2>1, EmptySane
    <2>2. CASE version = 1 /\ OldTables
      BY <2>2, OldTablesSane
    <2>3. CASE /\ version = 3 /\ jobs = Empty /\ attempts = Empty
               /\ \E w \in WorkerId, state \in {"HEALTHY", "SUSPECT", "DEAD", "DRAINING"} :
                    workers = Put(Empty, w, [state |-> state, drain_requested |-> None])
      <3>1. PICK w \in WorkerId, state \in {"HEALTHY", "SUSPECT", "DEAD", "DRAINING"} :
                workers = Put(Empty, w, [state |-> state, drain_requested |-> None])
        BY <2>3
      <3>2. [state |-> state, drain_requested |-> None] \in WorkerRow
        BY DEF WorkerRow, WorkerState
      <3>3. Crew(workers)
        <4>1. DOMAIN workers = {w} /\ workers \in [DOMAIN workers -> WorkerRow]
          BY <3>1, <3>2, OneRow
        <4> QED BY <4>1 DEF Crew
      <3>4. Shaped(Empty, Empty) /\ Owned(Empty, Empty)
        BY EmptySane DEF Sane
      <3>5. Counted(Empty, Empty)
        BY DEF Counted, Empty, Open
      <3> QED BY <2>3, <3>3, <3>4, <3>5 DEF Sane, Head
    <2> QED BY <2>1, <2>2, <2>3 DEF Init
  <1> QED BY <1>1, <1>2 DEF MigrationInv, Running

LEMMA MigrationInvariant == Spec => []MigrationInv
  <1>1. Init => MigrationInv
    BY InitSane
  <1>2. MigrationInv /\ [Next]_vars => MigrationInv'
    <2> SUFFICES ASSUME MigrationInv, [Next]_vars PROVE MigrationInv'
      OBVIOUS
    <2>1. ASSUME NEW target \in Target, Command(target) PROVE MigrationInv'
      BY <2>1, CommandKeeps
    <2>2. CASE Revision
      BY <2>2, RevisionKeeps
    <2>3. CASE Commit \/ Abandon
      BY <2>3, CommitKeeps, AbandonKeeps
    <2>4. CASE Program
      <3>1. CASE \/ \E w \in WorkerId : Register(w)
                 \/ \E w \in DOMAIN workers : Drain(w) \/ FallSilent(w) \/ Return(w)
        BY <3>1, WorkersKeep
      <3>2. CASE \E j \in JobId, retries \in Retries : Submit(j, retries)
        BY <3>2, SubmitKeeps
      <3>3. CASE \E j \in DOMAIN jobs, a \in AttemptId, w \in DOMAIN workers, slot \in Slot :
                    Claim(j, a, w, slot)
        BY <3>3, ClaimKeeps
      <3>4. CASE \E a \in DOMAIN attempts : Succeed(a) \/ Lapse(a) \/ Recover(a)
        BY <3>4, AttemptsKeep
      <3>5. CASE HistoryGrows
        <4>1. UNCHANGED <<version, jobs, attempts, workers, tx>>
          BY <3>5 DEF HistoryGrows
        <4>2. Sane(version, jobs, attempts, workers)'
          BY <4>1 DEF MigrationInv
        <4> QED BY <4>1, <4>2, TablesStep
      <3> QED BY <2>4, <3>1, <3>2, <3>3, <3>4, <3>5 DEF Program
    <2>5. CASE UNCHANGED vars
      <3>1. UNCHANGED <<version, jobs, attempts, workers, tx>>
        BY <2>5 DEF vars, tables
      <3>2. Sane(version, jobs, attempts, workers)'
        BY <3>1 DEF MigrationInv
      <3> QED BY <3>1, <3>2, TablesStep
    <2> QED BY <2>1, <2>2, <2>3, <2>4, <2>5 DEF Next
  <1> QED BY <1>1, <1>2, PTL DEF Spec

(***************************************************************************)
(* However the tables came to the head version, they are as the program    *)
(* needs them.                                                             *)
(***************************************************************************)
THEOREM HeadAlwaysOwnsWork == Spec => []HeadOwnsWork
  <1>1. MigrationInv => HeadOwnsWork
    <2> SUFFICES ASSUME MigrationInv, InService
                 PROVE  HeadOwnsWork
      BY DEF HeadOwnsWork
    <2>1. Shaped(jobs, attempts) /\ Owned(jobs, attempts) /\ Counted(jobs, attempts)
      BY HeadFacts
    <2>2. Unfinished = Open(attempts) /\ \A j : AttemptsOf(j) = Tries(attempts, j)
      BY DEF Unfinished, Open, AttemptsOf, Tries
    <2>3. \A a \in Unfinished : /\ jobs[attempts[a].job].status \in Held
                                /\ attempts[a].fence = jobs[attempts[a].job].attempt_count
      BY <2>1, <2>2 DEF Owned, Counted
    <2>4. ASSUME NEW j \in DOMAIN jobs, jobs[j].status \in Held
          PROVE  Cardinality(AttemptsOf(j) \cap Unfinished) = 1
      <3>1. PICK a \in Open(attempts) : attempts[a].job = j
        BY <2>1, <2>4 DEF Owned
      <3>2. \A b \in Open(attempts) : attempts[b].job = j => b = a
        BY <2>1, <3>1 DEF Owned
      <3>3. a \in DOMAIN attempts
        BY DEF Open
      <3>4. AttemptsOf(j) \cap Unfinished = {a}
        BY <2>2, <3>1, <3>2, <3>3 DEF Tries
      <3> QED BY <3>4, FS_Singleton
    <2>5. \A a, b \in Unfinished :
            attempts[a].worker = attempts[b].worker /\ attempts[a].slot = attempts[b].slot => a = b
      BY <2>1, <2>2 DEF Counted
    <2>6. ASSUME NEW j \in DOMAIN jobs, jobs[j].status \in Waiting
          PROVE  Cardinality(AttemptsOf(j)) <= jobs[j].max_retries
      <3>1. jobs[j].attempt_count = Cardinality(AttemptsOf(j)) /\ jobs[j].max_retries \in Nat
        BY <2>1, <2>2 DEF Counted
      <3>2. CASE jobs[j].status = "QUEUED"
        <4>1. AttemptsOf(j) = {}
          BY <2>1, <2>2, <3>2 DEF Owned
        <4>2. Cardinality(AttemptsOf(j)) = 0
          BY <4>1, FS_EmptySet
        <4> QED BY <3>1, <4>2
      <3>3. CASE jobs[j].status = "RETRY_WAIT"
        BY <2>1, <3>1, <3>3 DEF Counted
      <3> QED BY <2>6, <3>2, <3>3 DEF Waiting
    <2> QED BY <2>3, <2>4, <2>5, <2>6 DEF HeadOwnsWork
  <1> QED BY <1>1, MigrationInvariant, PTL

(***************************************************************************)
(* A worker that was draining when drain_requested was added stays drained *)
(* through silence and return.                                             *)
(***************************************************************************)
THEOREM DrainAlwaysOutlivesUpgrade == Spec => []DrainOutlivesUpgrade
  <1>1. MigrationInv => DrainOutlivesUpgrade
    BY HeadFacts DEF DrainOutlivesUpgrade, Marked
  <1> QED BY <1>1, MigrationInvariant, PTL

(***************************************************************************)
(* A command ends at its target, or with everything as when it began: no   *)
(* revision on the way changes what a rollback restores.                   *)
(***************************************************************************)
THEOREM CommandsNeverStrand == Spec => NeverStranded
  <1> DEFINE Ends == Running /\ ~Running' => version' = tx.target \/ Content' = tx.began
  <1>1. MigrationInv /\ [Next]_vars => [Ends]_vars
    <2> SUFFICES ASSUME MigrationInv, Next, Running, ~Running'
                 PROVE  version' = tx.target \/ Content' = tx.began
      BY DEF vars
    <2>1. tx' # tx
      BY DEF Running
    <2>2. ~Revision
      BY <2>1 DEF Revision, CreateTables, AddLeases, WidenIds, AddDrainIntent, DropDrainIntent,
                  NarrowIds, DropLeases, DropTables, Reaches
    <2>3. ~Program
      BY DEF Program, Register, Submit, Claim, Succeed, Lapse, Recover, Drain, FallSilent, Return,
             HistoryGrows, InService
    <2>4. CASE Commit
      BY <2>4 DEF Commit, tables
    <2>5. CASE Abandon
      <3>1. Undoable /\ Restore(tx.undo)
        BY <2>5 DEF MigrationInv, Abandon
      <3>2. Content' = [ version |-> tx.began.version, jobs |-> tx.began.jobs,
                         attempts |-> tx.began.attempts, workers |-> tx.began.workers,
                         check |-> tx.began.check, wide |-> tx.began.wide ]
        BY <3>1 DEF Undoable, Restore, Content
      <3> QED BY <3>1, <3>2 DEF Undoable
    <2> QED BY <2>2, <2>3, <2>4, <2>5 DEF Next, Command
  <1> QED BY <1>1, MigrationInvariant, PTL DEF Spec, NeverStranded
=============================================================================
