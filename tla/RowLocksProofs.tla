--------------------------- MODULE RowLocksProofs ---------------------------
(***************************************************************************)
(* The locking discipline of the coordinators, for any number of           *)
(* connections, workers and jobs: no transactions wait for each other in a *)
(* circle, what a transaction has read nobody else writes before it        *)
(* commits, and so what it decided stands.                                 *)
(***************************************************************************)
EXTENDS RowLocks, TLAPS

-----------------------------------------------------------------------------
(* What a transaction has of a row. *)
Has(t, r) == owner[r] = t \/ t \in shared[r]

(* A connection has nothing before its transaction's first lock.  The      *)
(* failure detector alone comes back to where it began.                    *)
StartsEmpty(t) ==
    tx[t].op = "none" \/ (tx[t].pc = "begin" /\ tx[t].op # "detect") => \A r \in Row : ~Has(t, r)

(* Jobs come last: who has one needs nothing more, or is the sweep. *)
JobsLast(t) == \A j \in Job : Has(t, j) => tx[t].pc = "end" \/ tx[t].op = "sweep"

(* What a transaction x names, where it can be, and that it has read what  *)
(* it decides by.                                                          *)
WellFormed(x) ==
    /\ x.op \in ForWorker => x.w \in Worker /\ (x.pc = "begin" \/ x.w \in x.read)
    /\ x.op = "detect" /\ x.pc = "rows" => x.w \in Worker
    /\ x.op \in {"renew", "finish", "cancel"} => x.j \in Job /\ (x.pc = "end" => x.j \in x.read)
    /\ x.op = "claim" => x.j = None \/ (x.pc = "end" /\ x.j \in x.read)
    /\ x.op = "admit" /\ x.pc = "job" => x.j \in Job
    /\ x.op = "admit" /\ x.pc \in {"job", "end"} /\ x.may => Admission \in x.read
    /\ x.pc = "rows" => x.op \in {"sweep", "detect"}
    /\ x.op # "sweep" => x.due = {} /\ x.blocked = {}
    /\ x.due \cup x.blocked \subseteq x.read

(* A row that was read is locked from then on; the queue is counted under  *)
(* the admission lock.                                                     *)
Guarded(t) ==
    /\ \A r \in tx[t].read : owner[r] = t
    /\ tx[t].pc = "count" => owner[Admission] = t

(* The sweep is past the recheck of j. *)
Rechecked(t, j) == (tx[t].pc = "loop" /\ j \notin tx[t].seen) \/ tx[t].pc \in {"children", "end"}

(* What a decision is about is as it was read. *)
Decided(t) ==
    /\ tx[t].op = "claim" /\ tx[t].j # None => status[tx[t].j] = "waiting"
    /\ tx[t].op = "cancel" /\ tx[t].pc = "end" /\ tx[t].may => status[tx[t].j] = "waiting"
    /\ tx[t].op \in {"renew", "finish"} /\ tx[t].pc = "end" /\ tx[t].may
            => status[tx[t].j] = "held"
    /\ \A j \in tx[t].due : status[j] = "held" /\ (Rechecked(t, j) => lease[j] = "over")
    /\ \A j \in tx[t].blocked : status[j] = "waiting"

Orderly(t) ==
    StartsEmpty(t) /\ JobsLast(t) /\ WellFormed(tx[t]) /\ Guarded(t) /\ Decided(t)

LocksInv == LocksTypeOK /\ \A t \in Tx : Orderly(t)

-----------------------------------------------------------------------------
LEMMA Fields ==
    ASSUME LocksInv, NEW t \in Tx
    PROVE  /\ tx \in [Tx -> Transaction] /\ tx[t] \in Transaction /\ Orderly(t)
           /\ tx[t].op \in Op \cup {"none"} /\ tx[t].pc \in Place
           /\ tx[t].w \in Worker \cup {None} /\ tx[t].j \in Job \cup {None}
           /\ tx[t].may \in BOOLEAN /\ tx[t].seen \subseteq Job
           /\ tx[t].due \subseteq Job /\ tx[t].blocked \subseteq Job /\ tx[t].read \subseteq Row
  BY DEF LocksInv, LocksTypeOK, Transaction

(* A step of t leaves the others' locks alone, and writes only t's jobs. *)
Alone(t) ==
    /\ \A u \in Tx \ {t} :
        /\ tx'[u] = tx[u]
        /\ \A r \in Row : (owner'[r] = u <=> owner[r] = u) /\ (u \in shared'[r] <=> u \in shared[r])
    /\ \A j \in Job : (status'[j] = status[j] /\ lease'[j] = lease[j]) \/ owner[j] = t

LEMMA OthersStay ==
    ASSUME LocksInv, NEW t \in Tx, Alone(t), NEW u \in Tx \ {t}
    PROVE  Orderly(u)'
  <1>1. /\ tx'[u] = tx[u] /\ \A r \in Row : Has(u, r)' <=> Has(u, r)
        /\ \A r \in Row : owner'[r] = u <=> owner[r] = u
    BY DEF Alone, Has
  <1>2. /\ StartsEmpty(u) /\ JobsLast(u) /\ WellFormed(tx[u]) /\ Guarded(u) /\ Decided(u)
        /\ tx[u].read \subseteq Row /\ tx[u].due \subseteq Job /\ tx[u].blocked \subseteq Job
    BY Fields DEF Orderly
  <1>3. \A r \in Job : r \in Row
    BY DEF Row
  <1>4. StartsEmpty(u)' /\ JobsLast(u)' /\ WellFormed(tx[u])' /\ Guarded(u)'
    <2>1. StartsEmpty(u)' /\ JobsLast(u)'
      BY <1>1, <1>2, <1>3 DEF StartsEmpty, JobsLast
    <2>2. WellFormed(tx[u])'
      BY <1>1, <1>2 DEF WellFormed
    <2>3. Guarded(u)'
      BY <1>1, <1>2 DEF Guarded, Row
    <2> QED BY <2>1, <2>2, <2>3
  <1>5. ASSUME NEW j \in Job, j \in tx[u].read
        PROVE  status'[j] = status[j] /\ lease'[j] = lease[j]
    BY <1>2, <1>5 DEF Guarded, Alone
  <1>6. Decided(u)'
    <2>1. tx[u].op = "claim" /\ tx[u].j # None => tx[u].j \in Job /\ tx[u].j \in tx[u].read
      BY <1>2, Fields DEF WellFormed
    <2>2. tx[u].op \in {"renew", "finish", "cancel"} /\ tx[u].pc = "end"
                => tx[u].j \in Job /\ tx[u].j \in tx[u].read
      BY <1>2 DEF WellFormed
    <2>3. \A j \in tx[u].due \cup tx[u].blocked : j \in Job /\ j \in tx[u].read
      BY <1>2 DEF WellFormed
    <2>4. \A j \in tx[u].due : Rechecked(u, j)' <=> Rechecked(u, j)
      BY <1>1 DEF Rechecked
    <2>5. \A j \in tx[u].due : status'[j] = "held" /\ (Rechecked(u, j)' => lease'[j] = "over")
      BY <1>2, <1>5, <2>3, <2>4 DEF Decided
    <2>6. \A j \in tx[u].blocked : status'[j] = "waiting"
      BY <1>2, <1>5, <2>3 DEF Decided
    <2>7. /\ tx[u].op = "claim" /\ tx[u].j # None => status'[tx[u].j] = "waiting"
          /\ tx[u].op = "cancel" /\ tx[u].pc = "end" /\ tx[u].may => status'[tx[u].j] = "waiting"
          /\ tx[u].op \in {"renew", "finish"} /\ tx[u].pc = "end" /\ tx[u].may
                => status'[tx[u].j] = "held"
      BY <1>2, <1>5, <2>1, <2>2 DEF Decided
    <2> QED BY <1>1, <2>5, <2>6, <2>7 DEF Decided
  <1> QED BY <1>4, <1>6 DEF Orderly

(* One lock more. *)
LEMMA LockEffect ==
    ASSUME LocksTypeOK, NEW t \in Tx, NEW r \in Row, Free(r, t), Lock(r, t), shared' = shared
    PROVE  /\ owner' \in [Row -> Tx \cup {None}]
           /\ owner'[r] = t
           /\ \A q \in Row : q # r => owner'[q] = owner[q]
           /\ \A u \in Tx \ {t}, q \in Row : owner'[q] = u <=> owner[q] = u
           /\ \A q \in Row : Has(t, q)' <=> Has(t, q) \/ q = r
  BY LocksAssumption DEF LocksTypeOK, Free, Lock, Has

LEMMA AloneLocking ==
    ASSUME LocksTypeOK, NEW t \in Tx, NEW new, tx' = [tx EXCEPT ![t] = new],
           UNCHANGED <<shared, data>>,
           \/ \E r \in Row : Free(r, t) /\ Lock(r, t)
           \/ owner' = owner
    PROVE  Alone(t)
  <1>1. \A u \in Tx \ {t} : tx'[u] = tx[u]
    BY DEF LocksTypeOK
  <1>2. \A u \in Tx \ {t}, q \in Row : owner'[q] = u <=> owner[q] = u
    BY LockEffect
  <1> QED BY <1>1, <1>2 DEF Alone, data

(* What remains to show of a step of t that takes locks only. *)
LEMMA LockingStep ==
    ASSUME LocksInv, NEW t \in Tx, NEW new \in Transaction, tx' = [tx EXCEPT ![t] = new],
           UNCHANGED <<shared, data>>,
           \/ \E r \in Row : Free(r, t) /\ Lock(r, t)
           \/ owner' = owner,
           \A r \in new.read : r \in tx[t].read \/ owner'[r] = t,
           new.pc = "count" => owner'[Admission] = t,
           WellFormed(new), StartsEmpty(t)', JobsLast(t)', Decided(t)'
    PROVE  LocksInv'
  <1>1. LocksTypeOK
    BY DEF LocksInv
  <1>2. Alone(t)
    BY <1>1, AloneLocking
  <1>3. LocksTypeOK'
    <2>1. owner' \in [Row -> Tx \cup {None}]
      BY <1>1, LockEffect DEF LocksTypeOK
    <2>2. tx' \in [Tx -> Transaction]
      BY <1>1 DEF LocksTypeOK
    <2> QED BY <1>1, <2>1, <2>2 DEF LocksTypeOK, data
  <1>4. tx'[t] = new
    BY Fields
  <1>5. Guarded(t)'
    <2>1. \A q \in Row : owner[q] = t => owner'[q] = t
      <3>1. CASE owner' = owner
        BY <3>1
      <3>2. ASSUME NEW r \in Row, Free(r, t), Lock(r, t)
            PROVE  \A q \in Row : owner[q] = t => owner'[q] = t
        BY <1>1, <3>2, LockEffect
      <3> QED BY <3>1, <3>2
    <2>2. Guarded(t) /\ tx[t].read \subseteq Row
      BY Fields DEF Orderly
    <2> QED BY <1>4, <2>1, <2>2 DEF Guarded
  <1>6. Orderly(t)'
    BY <1>4, <1>5 DEF Orderly
  <1> QED BY <1>2, <1>3, <1>6, OthersStay DEF LocksInv

(* The record of a transaction that only goes on to another place. *)
LEMMA MovesTo ==
    ASSUME NEW row \in Transaction, NEW pc \in Place
    PROVE  LET new == [row EXCEPT !.pc = pc]
           IN  /\ new \in Transaction /\ new.pc = pc /\ new.op = row.op /\ new.w = row.w
               /\ new.j = row.j /\ new.may = row.may /\ new.seen = row.seen /\ new.due = row.due
               /\ new.blocked = row.blocked /\ new.read = row.read
  BY DEF Transaction

LEMMA BeginInv ==
    ASSUME LocksInv, NEW t \in Tx, NEW op \in Op, NEW w \in Worker \cup {None},
           NEW j \in Job \cup {None}, Begin(t, op, w, j),
           op \in ForWorker => w \in Worker,
           op \in {"renew", "finish", "cancel"} => j \in Job,
           op = "claim" => j = None
    PROVE  LocksInv'
  <1> DEFINE new == [NoTx EXCEPT !.op = op, !.w = w, !.j = j]
  <1>1. /\ new \in Transaction /\ new.op = op /\ new.pc = "begin" /\ new.w = w /\ new.j = j
        /\ new.due = {} /\ new.blocked = {} /\ new.read = {}
    BY DEF NoTx, Transaction, Place
  <1>2. tx' = [tx EXCEPT ![t] = new] /\ UNCHANGED <<owner, shared, data>> /\ tx[t].op = "none"
    BY DEF Begin
  <1> HIDE DEF new
  <1>3. tx'[t] = new
    BY <1>2, Fields
  <1>4. \A r \in Row : ~Has(t, r) /\ ~Has(t, r)'
    BY <1>2, Fields DEF Orderly, StartsEmpty, Has
  <1>5. WellFormed(new)
    BY <1>1 DEF WellFormed
  <1>6. StartsEmpty(t)' /\ JobsLast(t)'
    BY <1>4 DEF StartsEmpty, JobsLast, Row
  <1>7. Decided(t)'
    BY <1>1, <1>3 DEF Decided
  <1> QED BY <1>1, <1>2, <1>5, <1>6, <1>7, LockingStep

LEMMA AskInv ==
    ASSUME LocksInv, NEW t \in Tx, Ask(t)
    PROVE  LocksInv'
  <1>1. ASSUME NEW w \in Worker, NEW op \in {"claim", "touch"}, Begin(t, op, w, None)
        PROVE  LocksInv'
    BY <1>1, BeginInv DEF Op
  <1>2. ASSUME NEW w \in Worker, NEW j \in Job, NEW op \in {"renew", "finish"}, Begin(t, op, w, j)
        PROVE  LocksInv'
    BY <1>2, BeginInv DEF Op
  <1>3. ASSUME NEW j \in Job, NEW op \in {"cancel", "admit"}, Begin(t, op, None, j)
        PROVE  LocksInv'
    BY <1>3, BeginInv DEF Op, ForWorker
  <1>4. ASSUME NEW op \in {"admit", "sweep", "detect"}, Begin(t, op, None, None) PROVE LocksInv'
    BY <1>4, BeginInv DEF Op, ForWorker
  <1> QED BY <1>1, <1>2, <1>3, <1>4 DEF Ask

(* The first lock of a request or of an admission is not a job's. *)
LEMMA FirstLock ==
    ASSUME LocksInv, NEW t \in Tx, NEW r \in Row \ Job, tx[t].op # "detect", tx[t].pc = "begin",
           Free(r, t), Lock(r, t), shared' = shared
    PROVE  owner'[r] = t /\ \A j \in Job : ~Has(t, j)'
  <1>1. \A q \in Row : ~Has(t, q)
    BY Fields DEF Orderly, StartsEmpty
  <1> QED BY <1>1, LockEffect DEF LocksInv, Row

LEMMA LockWorkerInv ==
    ASSUME LocksInv, NEW t \in Tx, LockWorker(t)
    PROVE  LocksInv'
  <1> DEFINE w == tx[t].w
             pc == IF tx[t].op = "touch" THEN "end" ELSE "job"
             new == [tx[t] EXCEPT !.pc = pc, !.read = @ \cup {w}]
  <1>0. /\ tx[t].op \in ForWorker /\ tx[t].pc = "begin" /\ Free(w, t) /\ Lock(w, t)
        /\ UNCHANGED <<shared, data>> /\ WellFormed(tx[t]) /\ w \in Row \ Job /\ w \in Worker
    BY Fields, LocksAssumption DEF LockWorker, Orderly, WellFormed, Row
  <1>1. pc \in Place \ {"begin", "count", "rows"} /\ (pc = "end" => tx[t].op = "touch")
    BY DEF Place
  <1>2. tx' = [tx EXCEPT ![t] = new]
    BY Fields DEF LockWorker, AfterWorker
  <1> HIDE DEF pc
  <1>3. /\ new \in Transaction /\ new.pc = pc /\ new.op = tx[t].op /\ new.w = w /\ new.j = tx[t].j
        /\ new.due = tx[t].due /\ new.blocked = tx[t].blocked /\ new.read = tx[t].read \cup {w}
    BY <1>0, <1>1, Fields DEF Transaction
  <1> HIDE DEF new, w
  <1>4. tx'[t] = new
    BY <1>2, Fields
  <1>5. owner'[w] = t /\ \A j \in Job : ~Has(t, j)'
    BY <1>0, FirstLock DEF ForWorker
  <1>6. WellFormed(new) /\ new.due = {} /\ new.blocked = {} /\ (new.op = "claim" => new.j = None)
        /\ new.op # "none"
    BY <1>0, <1>1, <1>3 DEF WellFormed, ForWorker
  <1>7. StartsEmpty(t)' /\ JobsLast(t)'
    BY <1>1, <1>3, <1>4, <1>5, <1>6 DEF StartsEmpty, JobsLast
  <1>8. Decided(t)'
    BY <1>1, <1>3, <1>4, <1>6 DEF Decided
  <1> QED BY <1>0, <1>1, <1>2, <1>3, <1>5, <1>6, <1>7, <1>8, LockingStep

LEMMA LockAdmissionInv ==
    ASSUME LocksInv, NEW t \in Tx, LockAdmission(t)
    PROVE  LocksInv'
  <1> DEFINE new == [tx[t] EXCEPT !.pc = "count"]
  <1>0. /\ tx[t].op = "admit" /\ tx[t].pc = "begin" /\ Free(Admission, t) /\ Lock(Admission, t)
        /\ UNCHANGED <<shared, data>> /\ WellFormed(tx[t]) /\ Admission \in Row \ Job
        /\ tx' = [tx EXCEPT ![t] = new]
    BY Fields, LocksAssumption DEF LockAdmission, Orderly, Row
  <1>1. /\ new \in Transaction /\ new.pc = "count" /\ new.op = "admit"
        /\ new.due = tx[t].due /\ new.blocked = tx[t].blocked /\ new.read = tx[t].read
    BY <1>0, Fields, MovesTo DEF Place
  <1> HIDE DEF new
  <1>2. tx'[t] = new
    BY <1>0, Fields
  <1>3. owner'[Admission] = t /\ \A j \in Job : ~Has(t, j)'
    BY <1>0, FirstLock
  <1>4. WellFormed(new) /\ new.due = {} /\ new.blocked = {}
    BY <1>0, <1>1 DEF WellFormed, ForWorker
  <1>5. StartsEmpty(t)' /\ JobsLast(t)'
    BY <1>1, <1>2, <1>3 DEF StartsEmpty, JobsLast
  <1>6. Decided(t)'
    BY <1>1, <1>2, <1>4 DEF Decided
  <1> QED BY <1>0, <1>1, <1>3, <1>4, <1>5, <1>6, LockingStep

LEMMA CountQueueInv ==
    ASSUME LocksInv, NEW t \in Tx, CountQueue(t)
    PROVE  LocksInv'
  <1>0. /\ tx[t].op = "admit" /\ tx[t].pc = "count" /\ UNCHANGED <<owner, shared, data>>
        /\ WellFormed(tx[t]) /\ JobsLast(t) /\ owner[Admission] = t /\ Admission \in Row
        /\ tx[t] \in Transaction
    BY Fields DEF CountQueue, Orderly, Guarded, Row
  <1>1. PICK may \in BOOLEAN :
            tx' = [tx EXCEPT ![t].pc = IF may /\ tx[t].j # None THEN "job" ELSE "end",
                             ![t].may = may, ![t].read = @ \cup {Admission}]
    BY DEF CountQueue
  <1> DEFINE pc == IF may /\ tx[t].j # None THEN "job" ELSE "end"
             new == [tx[t] EXCEPT !.pc = pc, !.may = may, !.read = @ \cup {Admission}]
  <1>2. pc \in Place /\ pc \notin {"begin", "count", "rows"} /\ (pc = "job" => tx[t].j # None)
    BY DEF Place
  <1>3. tx' = [tx EXCEPT ![t] = new]
    BY <1>1, Fields
  <1> HIDE DEF pc
  <1>4. /\ new \in Transaction /\ new.pc = pc /\ new.op = "admit" /\ new.j = tx[t].j
        /\ new.due = tx[t].due /\ new.blocked = tx[t].blocked
        /\ new.read = tx[t].read \cup {Admission}
    BY <1>0, <1>2 DEF Transaction
  <1> HIDE DEF new
  <1>5. tx'[t] = new
    BY <1>3, Fields
  <1>6. WellFormed(new) /\ new.due = {} /\ new.blocked = {}
    BY <1>0, <1>2, <1>4, Fields DEF WellFormed, ForWorker
  <1>7. StartsEmpty(t)' /\ JobsLast(t)'
    BY <1>0, <1>2, <1>4, <1>5 DEF StartsEmpty, JobsLast, Has
  <1>8. Decided(t)'
    BY <1>4, <1>5, <1>6 DEF Decided
  <1> QED BY <1>0, <1>2, <1>3, <1>4, <1>6, <1>7, <1>8, LockingStep

LEMMA ChooseJobInv ==
    ASSUME LocksInv, NEW t \in Tx, ChooseJob(t)
    PROVE  LocksInv'
  <1>0. /\ tx[t].op = "claim" /\ tx[t].pc = "job" /\ tx[t].j = None /\ UNCHANGED <<shared, data>>
        /\ tx[t] \in Transaction /\ WellFormed(tx[t]) /\ "end" \in Place
    BY Fields DEF ChooseJob, Orderly, WellFormed, Place
  <1>1. ASSUME NEW j \in Job, status[j] = "waiting", Free(j, t), Lock(j, t),
               tx' = [tx EXCEPT ![t].pc = "end", ![t].j = j, ![t].read = @ \cup {j}]
        PROVE  LocksInv'
    <2> DEFINE new == [tx[t] EXCEPT !.pc = "end", !.j = j, !.read = @ \cup {j}]
    <2>0. j \in Row
      BY DEF Row
    <2>1. /\ new \in Transaction /\ new.pc = "end" /\ new.op = "claim" /\ new.w = tx[t].w
          /\ new.j = j /\ new.due = tx[t].due /\ new.blocked = tx[t].blocked
          /\ new.read = tx[t].read \cup {j}
      BY <1>0, <2>0 DEF Transaction
    <2>2. tx' = [tx EXCEPT ![t] = new]
      BY <1>1, Fields
    <2> HIDE DEF new
    <2>3. tx'[t] = new
      BY <2>2, Fields
    <2>4. owner'[j] = t /\ status'[j] = "waiting"
      BY <1>0, <1>1, <2>0, LockEffect DEF LocksInv, data
    <2>5. WellFormed(new) /\ new.due = {} /\ new.blocked = {}
      BY <1>0, <2>1 DEF WellFormed, ForWorker
    <2>6. StartsEmpty(t)' /\ JobsLast(t)' /\ Decided(t)'
      BY <2>1, <2>3, <2>4, <2>5 DEF StartsEmpty, JobsLast, Decided
    <2> QED BY <1>0, <1>1, <2>0, <2>1, <2>2, <2>4, <2>5, <2>6, LockingStep
  <1>2. ASSUME tx' = [tx EXCEPT ![t].pc = "end"], owner' = owner
        PROVE  LocksInv'
    <2> DEFINE new == [tx[t] EXCEPT !.pc = "end"]
    <2>1. /\ new \in Transaction /\ new.pc = "end" /\ new.op = "claim" /\ new.w = tx[t].w
          /\ new.j = None /\ new.due = tx[t].due /\ new.blocked = tx[t].blocked
          /\ new.read = tx[t].read
      BY <1>0, MovesTo
    <2>2. tx' = [tx EXCEPT ![t] = new]
      BY <1>2
    <2> HIDE DEF new
    <2>3. tx'[t] = new
      BY <2>2, Fields
    <2>4. WellFormed(new) /\ new.due = {} /\ new.blocked = {}
      BY <1>0, <2>1 DEF WellFormed, ForWorker
    <2>5. StartsEmpty(t)' /\ JobsLast(t)' /\ Decided(t)'
      BY <2>1, <2>3, <2>4 DEF StartsEmpty, JobsLast, Decided
    <2> QED BY <1>0, <1>2, <2>1, <2>2, <2>4, <2>5, LockingStep
  <1> QED BY <1>1, <1>2 DEF ChooseJob

LEMMA LockJobInv ==
    ASSUME LocksInv, NEW t \in Tx, LockJob(t)
    PROVE  LocksInv'
  <1> DEFINE j == tx[t].j
             may == IF tx[t].op = "cancel" THEN status[j] = "waiting"
                                           ELSE status[j] = "held" /\ lease[j] = "lasts"
             new == [tx[t] EXCEPT !.pc = "end", !.may = may, !.read = @ \cup {j}]
  <1>0. /\ tx[t].op \in {"renew", "finish", "cancel"} /\ UNCHANGED <<shared, data>>
        /\ tx[t] \in Transaction /\ WellFormed(tx[t]) /\ j \in Job /\ j \in Row
        /\ Free(j, t) /\ Lock(j, t) /\ "end" \in Place
        /\ (tx[t].op \in {"renew", "finish"} => tx[t].pc = "job")
    BY Fields DEF LockJob, Orderly, WellFormed, Row, Place
  <1>1. may \in BOOLEAN
    OBVIOUS
  <1>2. tx' = [tx EXCEPT ![t] = new]
    BY Fields DEF LockJob
  <1>3. /\ tx[t].op = "cancel" /\ may => status[j] = "waiting"
        /\ tx[t].op # "cancel" /\ may => status[j] = "held"
    OBVIOUS
  <1> HIDE DEF may
  <1>4. /\ new \in Transaction /\ new.pc = "end" /\ new.op = tx[t].op /\ new.w = tx[t].w
        /\ new.j = j /\ new.may = may /\ new.due = tx[t].due /\ new.blocked = tx[t].blocked
        /\ new.read = tx[t].read \cup {j}
    BY <1>0, <1>1 DEF Transaction
  <1> HIDE DEF new, j
  <1>5. tx'[t] = new
    BY <1>2, Fields
  <1>6. owner'[j] = t /\ status'[j] = status[j]
    BY <1>0, LockEffect DEF LocksInv, data
  <1>7. WellFormed(new) /\ new.due = {} /\ new.blocked = {}
    BY <1>0, <1>4 DEF WellFormed, ForWorker
  <1>8. StartsEmpty(t)' /\ JobsLast(t)'
    BY <1>0, <1>4, <1>5 DEF StartsEmpty, JobsLast
  <1>9. Decided(t)'
    BY <1>0, <1>3, <1>4, <1>5, <1>6, <1>7 DEF Decided
  <1> QED BY <1>0, <1>2, <1>4, <1>6, <1>7, <1>8, <1>9, LockingStep

LEMMA ShareParentInv ==
    ASSUME LocksInv, NEW t \in Tx, ShareParent(t)
    PROVE  LocksInv'
  <1> DEFINE j == tx[t].j
             new == [tx[t] EXCEPT !.pc = "end"]
  <1>1. /\ tx[t].op = "admit" /\ tx' = [tx EXCEPT ![t] = new] /\ UNCHANGED <<owner, data>>
        /\ shared' = [shared EXCEPT ![j] = @ \cup {t}] /\ tx[t].pc = "job"
        /\ tx[t] \in Transaction /\ WellFormed(tx[t]) /\ Guarded(t) /\ LocksTypeOK
        /\ "end" \in Place
    BY Fields DEF ShareParent, Orderly, LocksInv, Place
  <1>2. /\ new \in Transaction /\ new.pc = "end" /\ new.op = "admit" /\ new.may = tx[t].may
        /\ new.due = tx[t].due /\ new.blocked = tx[t].blocked /\ new.read = tx[t].read
    BY <1>1, MovesTo
  <1> HIDE DEF new, j
  <1>3. tx'[t] = new /\ tx' \in [Tx -> Transaction] /\ \A u \in Tx \ {t} : tx'[u] = tx[u]
    BY <1>1, <1>2, Fields
  <1>4. /\ shared' \in [Row -> SUBSET Tx]
        /\ \A u \in Tx \ {t}, r \in Row : u \in shared'[r] <=> u \in shared[r]
    BY <1>1 DEF LocksTypeOK
  <1>5. LocksTypeOK' /\ Alone(t)
    BY <1>1, <1>3, <1>4 DEF LocksTypeOK, Alone, data
  <1>6. WellFormed(new) /\ new.due = {} /\ new.blocked = {}
    BY <1>1, <1>2 DEF WellFormed, ForWorker
  <1>7. StartsEmpty(t)' /\ JobsLast(t)' /\ Guarded(t)' /\ Decided(t)'
    BY <1>1, <1>2, <1>3, <1>6 DEF StartsEmpty, JobsLast, Guarded, Decided
  <1> QED BY <1>3, <1>5, <1>6, <1>7, OthersStay DEF LocksInv, Orderly

-----------------------------------------------------------------------------
(* A sweep goes on: what is new in what it got is locked and as it was     *)
(* found, and what it is past rechecking was over.                         *)
LEMMA SweepingStep ==
    ASSUME LocksInv, NEW t \in Tx, NEW new \in Transaction, new.op = "sweep",
           new.pc \notin {"begin", "count"},
           tx' = [tx EXCEPT ![t] = new], UNCHANGED <<shared, data>>,
           \/ \E r \in Row : Free(r, t) /\ Lock(r, t)
           \/ owner' = owner,
           \A r \in new.read : r \in tx[t].read \/ owner'[r] = t,
           new.due \cup new.blocked \subseteq new.read,
           \A j \in new.due : j \in tx[t].due \/ status[j] = "held",
           \A j \in new.blocked : j \in tx[t].blocked \/ status[j] = "waiting",
           \A j \in new.due :
                (new.pc = "loop" /\ j \notin new.seen) \/ new.pc \in {"children", "end"}
                    => lease[j] = "over" \/ (j \in tx[t].due /\ Rechecked(t, j))
    PROVE  LocksInv'
  <1>1. tx'[t] = new
    BY Fields
  <1>2. WellFormed(new) /\ StartsEmpty(t)' /\ JobsLast(t)'
    BY <1>1 DEF WellFormed, ForWorker, StartsEmpty, JobsLast
  <1>3. Decided(t)'
    <2>1. Decided(t) /\ status' = status /\ lease' = lease
      BY Fields DEF Orderly, data
    <2>2. \A j \in new.due : status[j] = "held"
      BY <2>1 DEF Decided
    <2>3. \A j \in new.blocked : status[j] = "waiting"
      BY <2>1 DEF Decided
    <2>4. \A j \in new.due : Rechecked(t, j)' => lease[j] = "over"
      BY <1>1, <2>1 DEF Decided, Rechecked
    <2> QED BY <1>1, <2>1, <2>2, <2>3, <2>4 DEF Decided
  <1> QED BY <1>2, <1>3, LockingStep

(* Before its first query the sweep has nothing. *)
LEMMA SweepStartsEmpty ==
    ASSUME LocksInv, NEW t \in Tx, tx[t].op = "sweep", tx[t].pc = "begin"
    PROVE  tx[t].due = {} /\ tx[t].blocked = {} /\ tx[t].read = {}
  <1>1. \A r \in Row : owner[r] # t
    BY Fields DEF Orderly, StartsEmpty, Has
  <1>2. tx[t].read = {}
    BY <1>1, Fields DEF Orderly, Guarded
  <1> QED BY <1>2, Fields DEF Orderly, WellFormed

LEMMA BeginSweepInv ==
    ASSUME LocksInv, NEW t \in Tx, BeginSweep(t)
    PROVE  LocksInv'
  <1>0. /\ tx[t] \in Transaction /\ tx[t].op = "sweep" /\ UNCHANGED <<shared, data>>
        /\ Recovery \in Row /\ tx[t].due = {} /\ tx[t].blocked = {} /\ tx[t].read = {}
        /\ {"rows", "end"} \subseteq Place
    BY Fields, SweepStartsEmpty DEF BeginSweep, Row, Place
  <1>1. ASSUME NEW S \in SUBSET Job, Free(Recovery, t), Lock(Recovery, t),
               tx' = [tx EXCEPT ![t].pc = "rows", ![t].seen = S]
        PROVE  LocksInv'
    <2> DEFINE new == [tx[t] EXCEPT !.pc = "rows", !.seen = S]
    <2>1. /\ new \in Transaction /\ new.op = "sweep" /\ new.pc = "rows"
          /\ new.due = {} /\ new.blocked = {} /\ new.read = {}
      BY <1>0 DEF Transaction
    <2>2. tx' = [tx EXCEPT ![t] = new]
      BY <1>1, Fields
    <2> HIDE DEF new
    <2> QED BY <1>0, <1>1, <2>1, <2>2, SweepingStep
  <1>2. ASSUME tx' = [tx EXCEPT ![t].pc = "end"], owner' = owner
        PROVE  LocksInv'
    <2> DEFINE new == [tx[t] EXCEPT !.pc = "end"]
    <2>1. /\ new \in Transaction /\ new.op = "sweep" /\ new.pc = "end"
          /\ new.due = {} /\ new.blocked = {} /\ new.read = {}
      BY <1>0, MovesTo
    <2>2. tx' = [tx EXCEPT ![t] = new]
      BY <1>2
    <2> HIDE DEF new
    <2> QED BY <1>0, <1>2, <2>1, <2>2, SweepingStep
  <1>3. CASE tx' = [tx EXCEPT ![t].pc = "end"] /\ owner' = owner
    BY <1>2, <1>3
  <1>4. CASE Free(Recovery, t) /\ Lock(Recovery, t)
             /\ \E S \in SUBSET Job : tx' = [tx EXCEPT ![t].pc = "rows", ![t].seen = S]
    BY <1>1, <1>4
  <1> QED BY <1>3, <1>4 DEF BeginSweep

LEMMA PassesInv ==
    ASSUME LocksInv, NEW t \in Tx, NEW j \in Job, Passes(t, j), tx[t].op = "sweep",
           tx[t].pc \in {"rows", "children"}, UNCHANGED <<shared, data>>
    PROVE  LocksInv'
  <1> DEFINE new == [tx[t] EXCEPT !.seen = @ \ {j}]
  <1>1. tx' = [tx EXCEPT ![t] = new] /\ owner' = owner
    BY DEF Passes
  <1>2. /\ new \in Transaction /\ new.op = "sweep" /\ new.pc = tx[t].pc
        /\ new.due = tx[t].due /\ new.blocked = tx[t].blocked /\ new.read = tx[t].read
    BY Fields DEF Transaction
  <1> HIDE DEF new
  <1>3. tx[t].due \cup tx[t].blocked \subseteq tx[t].read
    BY Fields DEF Orderly, WellFormed
  <1>4. tx[t].pc = "children" => \A i \in tx[t].due : Rechecked(t, i)
    BY DEF Rechecked
  <1> QED BY <1>1, <1>2, <1>3, <1>4, SweepingStep

LEMMA SweepRowInv ==
    ASSUME LocksInv, NEW t \in Tx, NEW j \in Job, SweepRow(t, j)
    PROVE  LocksInv'
  <1>0. tx[t].op = "sweep" /\ tx[t].pc = "rows" /\ UNCHANGED <<shared, data>> /\ j \in Row
    BY DEF SweepRow, Row
  <1>1. ASSUME Free(j, t), status[j] = "held", Lock(j, t), Takes(t, j)
        PROVE  LocksInv'
    <2> DEFINE new == [tx[t] EXCEPT !.seen = @ \ {j}, !.due = @ \cup {j}, !.read = @ \cup {j}]
    <2>1. tx' = [tx EXCEPT ![t] = new]
      BY <1>1, Fields DEF Takes
    <2>2. /\ new \in Transaction /\ new.op = "sweep" /\ new.pc = "rows"
          /\ new.due = tx[t].due \cup {j} /\ new.blocked = tx[t].blocked
          /\ new.read = tx[t].read \cup {j}
      BY <1>0, Fields DEF Transaction
    <2> HIDE DEF new
    <2>3. tx[t].due \cup tx[t].blocked \subseteq tx[t].read
      BY Fields DEF Orderly, WellFormed
    <2>4. owner'[j] = t
      BY <1>0, <1>1, LockEffect DEF LocksInv
    <2> QED BY <1>0, <1>1, <2>1, <2>2, <2>3, <2>4, SweepingStep
  <1>2. ASSUME Passes(t, j) PROVE LocksInv'
    BY <1>0, <1>2, PassesInv
  <1> QED BY <1>1, <1>2 DEF SweepRow

LEMMA SweepChildInv ==
    ASSUME LocksInv, NEW t \in Tx, NEW j \in Job, SweepChild(t, j)
    PROVE  LocksInv'
  <1>0. tx[t].op = "sweep" /\ tx[t].pc = "children" /\ UNCHANGED <<shared, data>> /\ j \in Row
    BY DEF SweepChild, Row
  <1>1. ASSUME Free(j, t), status[j] = "waiting", Lock(j, t),
               tx' = [tx EXCEPT ![t].seen = @ \ {j}, ![t].blocked = @ \cup {j},
                                ![t].read = @ \cup {j}]
        PROVE  LocksInv'
    <2> DEFINE new == [tx[t] EXCEPT !.seen = @ \ {j}, !.blocked = @ \cup {j}, !.read = @ \cup {j}]
    <2>1. tx' = [tx EXCEPT ![t] = new]
      BY <1>1, Fields
    <2>2. /\ new \in Transaction /\ new.op = "sweep" /\ new.pc = "children"
          /\ new.due = tx[t].due /\ new.blocked = tx[t].blocked \cup {j}
          /\ new.read = tx[t].read \cup {j}
      BY <1>0, Fields DEF Transaction
    <2> HIDE DEF new
    <2>3. tx[t].due \cup tx[t].blocked \subseteq tx[t].read
      BY Fields DEF Orderly, WellFormed
    <2>4. owner'[j] = t /\ \A i \in tx[t].due : Rechecked(t, i)
      BY <1>0, <1>1, LockEffect DEF LocksInv, Rechecked
    <2> QED BY <1>0, <1>1, <2>1, <2>2, <2>3, <2>4, SweepingStep
  <1>2. ASSUME Passes(t, j) PROVE LocksInv'
    BY <1>0, <1>2, PassesInv
  <1> QED BY <1>1, <1>2 DEF SweepChild

(* The loop: every job got is still to be rechecked, then one by one. *)
LEMMA LoopOverInv ==
    ASSUME LocksInv, NEW t \in Tx, LoopOver(t)
    PROVE  LocksInv'
  <1> DEFINE new == [tx[t] EXCEPT !.pc = "loop", !.seen = tx[t].due]
  <1>1. /\ tx' = [tx EXCEPT ![t] = new] /\ UNCHANGED <<owner, shared, data>>
        /\ tx[t].op = "sweep"
    BY Fields DEF LoopOver
  <1>2. /\ new \in Transaction /\ new.op = "sweep" /\ new.pc = "loop" /\ new.seen = tx[t].due
        /\ new.due = tx[t].due /\ new.blocked = tx[t].blocked /\ new.read = tx[t].read
    BY <1>1, Fields DEF Transaction, Place
  <1> HIDE DEF new
  <1>3. tx[t].due \cup tx[t].blocked \subseteq tx[t].read
    BY Fields DEF Orderly, WellFormed
  <1> QED BY <1>1, <1>2, <1>3, SweepingStep

LEMMA RecheckInv ==
    ASSUME LocksInv, NEW t \in Tx, NEW j \in Job, Recheck(t, j)
    PROVE  LocksInv'
  <1> DEFINE due == IF lease[j] = "over" THEN tx[t].due ELSE tx[t].due \ {j}
             new == [tx[t] EXCEPT !.seen = @ \ {j}, !.due = due]
  <1>0. /\ tx[t].op = "sweep" /\ tx[t].pc = "loop" /\ UNCHANGED <<owner, shared, data>>
        /\ tx' = [tx EXCEPT ![t] = new] /\ tx[t].due \subseteq Job
    BY Fields DEF Recheck
  <1>1. due \subseteq tx[t].due /\ (lease[j] # "over" => j \notin due)
    OBVIOUS
  <1> HIDE DEF due
  <1>2. /\ new \in Transaction /\ new.op = "sweep" /\ new.pc = "loop" /\ new.seen = tx[t].seen \ {j}
        /\ new.due = due /\ new.blocked = tx[t].blocked /\ new.read = tx[t].read
    BY <1>0, <1>1, Fields DEF Transaction
  <1> HIDE DEF new
  <1>3. tx[t].due \cup tx[t].blocked \subseteq tx[t].read
    BY Fields DEF Orderly, WellFormed
  <1>4. \A i \in due : i \notin new.seen => lease[i] = "over" \/ Rechecked(t, i)
    BY <1>0, <1>1, <1>2 DEF Rechecked
  <1> QED BY <1>0, <1>1, <1>2, <1>3, <1>4, SweepingStep

LEMMA FindChildrenInv ==
    ASSUME LocksInv, NEW t \in Tx, FindChildren(t)
    PROVE  LocksInv'
  <1>0. tx[t] \in Transaction /\ tx[t].op = "sweep" /\ "children" \in Place
    BY Fields DEF FindChildren, Place
  <1>1. PICK J \in SUBSET Job : tx' = [tx EXCEPT ![t].pc = "children", ![t].seen = J]
    BY DEF FindChildren
  <1> DEFINE new == [tx[t] EXCEPT !.pc = "children", !.seen = J]
  <1>2. /\ new \in Transaction /\ new.op = "sweep" /\ new.pc = "children"
        /\ new.due = tx[t].due /\ new.blocked = tx[t].blocked /\ new.read = tx[t].read
    BY <1>0 DEF Transaction
  <1>3. tx' = [tx EXCEPT ![t] = new] /\ UNCHANGED <<owner, shared, data>>
    BY <1>1, Fields DEF FindChildren
  <1> HIDE DEF new
  <1>4. tx[t].due \cup tx[t].blocked \subseteq tx[t].read
    BY Fields DEF Orderly, WellFormed
  <1>5. \A i \in tx[t].due : Rechecked(t, i)
    BY DEF FindChildren, Rechecked
  <1> QED BY <1>2, <1>3, <1>4, <1>5, SweepingStep

(* The failure detector takes workers only. *)
LEMMA DetectingStep ==
    ASSUME LocksInv, NEW t \in Tx, tx[t].op = "detect", tx[t].pc # "end",
           NEW new \in Transaction, new.op = "detect", new.pc = "rows" => new.w \in Worker,
           new.pc # "count", new.due = tx[t].due, new.blocked = tx[t].blocked,
           tx' = [tx EXCEPT ![t] = new], UNCHANGED <<shared, data>>,
           \/ \E r \in Worker : Free(r, t) /\ Lock(r, t)
           \/ owner' = owner,
           \A r \in new.read : r \in tx[t].read \/ owner'[r] = t
    PROVE  LocksInv'
  <1>1. tx'[t] = new
    BY Fields
  <1>2. (\A j \in Job : ~Has(t, j)) /\ WellFormed(tx[t])
    BY Fields DEF Orderly, JobsLast
  <1>3. \A j \in Job : ~Has(t, j)'
    <2>1. CASE owner' = owner
      BY <1>2, <2>1 DEF Has
    <2>2. CASE \E r \in Worker : Free(r, t) /\ Lock(r, t)
      BY <1>2, <2>2, LockEffect, LocksAssumption DEF LocksInv, Row
    <2> QED BY <2>1, <2>2
  <1>4. new.due = {} /\ new.blocked = {} /\ WellFormed(new)
    BY <1>2 DEF WellFormed, ForWorker
  <1>5. StartsEmpty(t)' /\ JobsLast(t)' /\ Decided(t)'
    BY <1>1, <1>3, <1>4 DEF StartsEmpty, JobsLast, Decided
  <1>6. \/ \E r \in Row : Free(r, t) /\ Lock(r, t)
        \/ owner' = owner
    BY DEF Row
  <1> QED BY <1>4, <1>5, <1>6, LockingStep

LEMMA VisitWorkerInv ==
    ASSUME LocksInv, NEW t \in Tx, NEW w \in Worker, VisitWorker(t, w)
    PROVE  LocksInv'
  <1> DEFINE new == [tx[t] EXCEPT !.pc = "rows", !.w = w]
  <1>1. /\ new \in Transaction /\ new.op = "detect" /\ new.w = w /\ new.pc = "rows"
        /\ new.due = tx[t].due /\ new.blocked = tx[t].blocked /\ new.read = tx[t].read
    BY Fields DEF Transaction, VisitWorker, Place
  <1>2. tx' = [tx EXCEPT ![t] = new] /\ UNCHANGED <<owner, shared, data>>
        /\ tx[t].op = "detect" /\ tx[t].pc # "end"
    BY Fields DEF VisitWorker
  <1> HIDE DEF new
  <1> QED BY <1>1, <1>2, DetectingStep

LEMMA DetectRowInv ==
    ASSUME LocksInv, NEW t \in Tx, DetectRow(t)
    PROVE  LocksInv'
  <1>0. /\ UNCHANGED <<shared, data>> /\ tx[t].w \in Worker /\ tx[t].w \in Row
        /\ tx[t].op = "detect" /\ tx[t].pc # "end" /\ "begin" \in Place
    BY Fields DEF DetectRow, Orderly, WellFormed, Place, Row
  <1>1. ASSUME Free(tx[t].w, t), Lock(tx[t].w, t),
               tx' = [tx EXCEPT ![t].pc = "begin", ![t].w = None, ![t].read = @ \cup {tx[t].w}]
        PROVE  LocksInv'
    <2> DEFINE new == [tx[t] EXCEPT !.pc = "begin", !.w = None, !.read = @ \cup {tx[t].w}]
    <2>1. /\ new \in Transaction /\ new.op = "detect" /\ new.pc = "begin"
          /\ new.due = tx[t].due /\ new.blocked = tx[t].blocked
          /\ new.read = tx[t].read \cup {tx[t].w}
      BY <1>0, Fields DEF Transaction
    <2>2. tx' = [tx EXCEPT ![t] = new]
      BY <1>1, Fields
    <2> HIDE DEF new
    <2>3. owner'[tx[t].w] = t
      BY <1>0, <1>1, LockEffect DEF LocksInv
    <2>4. \E r \in Worker : Free(r, t) /\ Lock(r, t)
      BY <1>0, <1>1
    <2>5. \A r \in new.read : r \in tx[t].read \/ owner'[r] = t
      BY <2>1, <2>3
    <2> QED BY <1>0, <2>1, <2>2, <2>4, <2>5, DetectingStep
  <1>2. ASSUME owner' = owner, tx' = [tx EXCEPT ![t].pc = "begin", ![t].w = None]
        PROVE  LocksInv'
    <2> DEFINE new == [tx[t] EXCEPT !.pc = "begin", !.w = None]
    <2>1. /\ new \in Transaction /\ new.op = "detect" /\ new.pc = "begin"
          /\ new.due = tx[t].due /\ new.blocked = tx[t].blocked /\ new.read = tx[t].read
      BY <1>0, Fields DEF Transaction
    <2>2. tx' = [tx EXCEPT ![t] = new]
      BY <1>2, Fields
    <2> HIDE DEF new
    <2> QED BY <1>0, <1>2, <2>1, <2>2, DetectingStep
  <1> QED BY <1>1, <1>2 DEF DetectRow

LEMMA RowsDoneInv ==
    ASSUME LocksInv, NEW t \in Tx, RowsDone(t)
    PROVE  LocksInv'
  <1> DEFINE new == [tx[t] EXCEPT !.pc = "end"]
  <1>1. /\ new \in Transaction /\ new.pc = "end" /\ new.op = tx[t].op
        /\ new.due = tx[t].due /\ new.blocked = tx[t].blocked /\ new.read = tx[t].read
    BY Fields, MovesTo DEF Place
  <1>2. /\ tx' = [tx EXCEPT ![t] = new] /\ UNCHANGED <<owner, shared, data>>
        /\ \/ tx[t].op = "sweep" /\ tx[t].pc = "children"
           \/ tx[t].op = "detect" /\ tx[t].pc # "end"
    BY DEF RowsDone
  <1> HIDE DEF new
  <1>3. tx[t].due \cup tx[t].blocked \subseteq tx[t].read
    BY Fields DEF Orderly, WellFormed
  <1>4. tx[t].pc = "children" => \A i \in tx[t].due : Rechecked(t, i)
    BY DEF Rechecked
  <1>5. CASE tx[t].op = "sweep" /\ tx[t].pc = "children"
    BY <1>1, <1>2, <1>3, <1>4, <1>5, SweepingStep
  <1>6. CASE tx[t].op = "detect" /\ tx[t].pc # "end"
    BY <1>1, <1>2, <1>6, DetectingStep
  <1> QED BY <1>2, <1>5, <1>6

-----------------------------------------------------------------------------
(* The end of a transaction. *)
LEMMA NoTxFields ==
    /\ NoTx \in Transaction /\ NoTx.op = "none" /\ NoTx.pc = "begin" /\ WellFormed(NoTx)
    /\ NoTx.due = {} /\ NoTx.blocked = {} /\ NoTx.read = {}
  <1>1. /\ NoTx \in Transaction /\ NoTx.op = "none" /\ NoTx.pc = "begin"
        /\ NoTx.due = {} /\ NoTx.blocked = {} /\ NoTx.read = {}
    BY DEF NoTx, Transaction, Place
  <1> QED BY <1>1 DEF WellFormed, ForWorker

LEMMA ReleasingStep ==
    ASSUME LocksInv, NEW t \in Tx, Release(t),
           status' \in [Job -> {"waiting", "held", "ended"}], lease' \in [Job -> {"none", "lasts", "over"}],
           \A j \in Job : (status'[j] = status[j] /\ lease'[j] = lease[j]) \/ owner[j] = t
    PROVE  LocksInv'
  <1>0. LocksTypeOK
    BY DEF LocksInv
  <1>2. tx' \in [Tx -> Transaction] /\ tx'[t] = NoTx /\ \A u \in Tx \ {t} : tx'[u] = tx[u]
    BY <1>0, NoTxFields DEF Release, LocksTypeOK
  <1>3. /\ owner' \in [Row -> Tx \cup {None}] /\ shared' \in [Row -> SUBSET Tx]
        /\ \A r \in Row : ~Has(t, r)'
        /\ \A u \in Tx \ {t}, r \in Row : (owner'[r] = u <=> owner[r] = u)
                                       /\ (u \in shared'[r] <=> u \in shared[r])
    BY <1>0, LocksAssumption DEF Release, LocksTypeOK, Has
  <1>4. LocksTypeOK' /\ Alone(t)
    BY <1>0, <1>2, <1>3 DEF LocksTypeOK, Alone
  <1>5. StartsEmpty(t)' /\ JobsLast(t)' /\ Guarded(t)' /\ Decided(t)'
    BY <1>2, <1>3, NoTxFields DEF StartsEmpty, JobsLast, Guarded, Decided, Row
  <1> QED BY <1>2, <1>4, <1>5, NoTxFields, OthersStay DEF LocksInv, Orderly

LEMMA WritesEffect ==
    ASSUME LocksTypeOK, NEW J \in SUBSET Job, NEW s \in {"waiting", "held", "ended"},
           NEW l \in {"none", "lasts", "over"}, Writes(J, s, l)
    PROVE  /\ status' \in [Job -> {"waiting", "held", "ended"}]
           /\ lease' \in [Job -> {"none", "lasts", "over"}]
           /\ \A j \in Job : (status'[j] = status[j] /\ lease'[j] = lease[j]) \/ j \in J
  BY DEF LocksTypeOK, Writes

LEMMA CommitInv ==
    ASSUME LocksInv, NEW t \in Tx, Commit(t)
    PROVE  LocksInv'
  <1>0. LocksTypeOK /\ tx[t].pc = "end" /\ Release(t) /\ WellFormed(tx[t]) /\ Guarded(t)
        /\ tx[t].j \in Job \cup {None} /\ tx[t].due \subseteq Job /\ tx[t].blocked \subseteq Job
    BY Fields DEF LocksInv, Commit, Orderly
  <1>u. UNCHANGED data => LocksInv'
    <2> SUFFICES ASSUME UNCHANGED data PROVE LocksInv'
      OBVIOUS
    <2>1. status' = status /\ lease' = lease
      BY DEF data
    <2> QED BY <1>0, <2>1, ReleasingStep DEF LocksTypeOK
  <1>w. ASSUME NEW J \in SUBSET Job, NEW s \in {"waiting", "held", "ended"},
               NEW l \in {"none", "lasts", "over"}, Writes(J, s, l), \A j \in J : owner[j] = t
        PROVE  LocksInv'
    <2>1. /\ status' \in [Job -> {"waiting", "held", "ended"}]
          /\ lease' \in [Job -> {"none", "lasts", "over"}]
          /\ \A j \in Job : (status'[j] = status[j] /\ lease'[j] = lease[j]) \/ j \in J
      BY <1>0, <1>w, WritesEffect
    <2> QED BY <1>0, <1>w, <2>1, ReleasingStep
  <1>1. CASE tx[t].op = "claim"
    <2>1. Writes({tx[t].j} \ {None}, "held", "lasts")
      BY <1>1 DEF Commit
    <2>2. \A j \in {tx[t].j} \ {None} : j \in Job /\ owner[j] = t
      BY <1>0, <1>1 DEF WellFormed, Guarded
    <2> QED BY <1>w, <2>1, <2>2
  <1>2. CASE tx[t].op \in {"renew", "finish", "cancel"}
    <2>1. tx[t].j \in Job /\ owner[tx[t].j] = t
      BY <1>0, <1>2 DEF WellFormed, Guarded
    <2>2. \/ \E s \in {"waiting", "held", "ended"}, l \in {"none", "lasts", "over"} :
                Writes({tx[t].j}, s, l)
          \/ UNCHANGED data
      BY <1>2 DEF Commit
    <2> QED BY <1>u, <1>w, <2>1, <2>2
  <1>3. CASE tx[t].op = "sweep"
    <2>1. PICK J \in SUBSET tx[t].due :
            /\ status' = [ j \in Job |-> IF j \in J \cup tx[t].blocked THEN "ended" ELSE
                                         IF j \in tx[t].due THEN "waiting" ELSE status[j] ]
            /\ lease' = [ j \in Job |-> IF j \in tx[t].due THEN "none" ELSE lease[j] ]
      BY <1>3 DEF Commit
    <2>2. \A j \in tx[t].due \cup tx[t].blocked : owner[j] = t
      BY <1>0 DEF WellFormed, Guarded
    <2>3. /\ status' \in [Job -> {"waiting", "held", "ended"}]
          /\ lease' \in [Job -> {"none", "lasts", "over"}]
          /\ \A j \in Job : (status'[j] = status[j] /\ lease'[j] = lease[j]) \/ owner[j] = t
      BY <1>0, <2>1, <2>2 DEF LocksTypeOK
    <2> QED BY <1>0, <2>3, ReleasingStep
  <1>4. CASE tx[t].op \notin {"claim", "renew", "finish", "cancel", "sweep"}
    BY <1>4, <1>u DEF Commit
  <1> QED BY <1>1, <1>2, <1>3, <1>4

LEMMA RollbackInv ==
    ASSUME LocksInv, NEW t \in Tx, Rollback(t)
    PROVE  LocksInv'
  <1>1. status' = status /\ lease' = lease /\ Release(t)
    BY DEF Rollback, data
  <1> QED BY <1>1, ReleasingStep DEF LocksInv, LocksTypeOK

(* Time only ever takes a lease to its end. *)
LEMMA UndisturbedInv ==
    ASSUME LocksInv, UNCHANGED <<tx, owner, shared, status>>,
           lease' \in [Job -> {"none", "lasts", "over"}],
           \A j \in Job : lease[j] = "over" => lease'[j] = "over"
    PROVE  LocksInv'
  <1>1. LocksTypeOK'
    BY DEF LocksInv, LocksTypeOK
  <1>2. ASSUME NEW t \in Tx PROVE Orderly(t)'
    <2>1. Orderly(t) /\ tx[t].due \subseteq Job
      BY Fields
    <2>2. StartsEmpty(t)' /\ JobsLast(t)' /\ Guarded(t)'
      BY <2>1 DEF Orderly, StartsEmpty, JobsLast, Guarded, Has
    <2>3. WellFormed(tx[t])'
      BY <2>1 DEF Orderly, WellFormed
    <2>4. Decided(t)'
      BY <2>1 DEF Orderly, Decided, Rechecked
    <2> QED BY <2>2, <2>3, <2>4 DEF Orderly
  <1> QED BY <1>1, <1>2 DEF LocksInv

LEMMA LocksInvariant == Spec => []LocksInv
  <1>1. Init => LocksInv
    <2> SUFFICES ASSUME Init PROVE LocksInv
      OBVIOUS
    <2>1. LocksTypeOK
      BY NoTxFields DEF Init, LocksTypeOK
    <2>2. \A t \in Tx, r \in Row : ~Has(t, r)
      BY LocksAssumption DEF Init, Has
    <2>3. ASSUME NEW t \in Tx PROVE Orderly(t)
      <3>1. tx[t] = NoTx
        BY DEF Init
      <3> QED BY <2>2, <3>1, NoTxFields DEF Orderly, StartsEmpty, JobsLast, Guarded, Decided, Row
    <2> QED BY <2>1, <2>3 DEF LocksInv
  <1>2. LocksInv /\ [Next]_vars => LocksInv'
    <2> SUFFICES ASSUME LocksInv, [Next]_vars PROVE LocksInv'
      OBVIOUS
    <2>1. ASSUME NEW t \in Tx,
                 \/ Ask(t) \/ LockWorker(t) \/ ChooseJob(t) \/ LockJob(t)
                 \/ LockAdmission(t) \/ CountQueue(t) \/ ShareParent(t) \/ BeginSweep(t)
                 \/ \E j \in Job : SweepRow(t, j) \/ Recheck(t, j) \/ SweepChild(t, j)
                 \/ LoopOver(t) \/ FindChildren(t)
                 \/ \E w \in Worker : VisitWorker(t, w)
                 \/ DetectRow(t) \/ RowsDone(t) \/ Commit(t) \/ Rollback(t)
          PROVE  LocksInv'
      BY <2>1, AskInv, LockWorkerInv, ChooseJobInv, LockJobInv, LockAdmissionInv, CountQueueInv,
         ShareParentInv, BeginSweepInv, SweepRowInv, RecheckInv, SweepChildInv, LoopOverInv,
         FindChildrenInv, VisitWorkerInv, DetectRowInv, RowsDoneInv, CommitInv, RollbackInv
    <2>2. ASSUME NEW j \in Job, LeaseLapses(j) PROVE LocksInv'
      BY <2>2, UndisturbedInv DEF LeaseLapses, LocksInv, LocksTypeOK
    <2>3. CASE UNCHANGED vars
      BY <2>3, UndisturbedInv DEF vars, LocksInv, LocksTypeOK
    <2> QED BY <2>1, <2>2, <2>3 DEF Next
  <1> QED BY <1>1, <1>2, PTL DEF Spec

(***************************************************************************)
(* Every transaction keeps its shape, whichever statement comes next.      *)
(***************************************************************************)
THEOREM LocksTypeCorrect == Spec => []LocksTypeOK
  <1>1. LocksInv => LocksTypeOK
    BY DEF LocksInv
  <1> QED BY <1>1, LocksInvariant, PTL

(***************************************************************************)
(* What claim, renew, finish, cancel and the sweep read under the job's    *)
(* lock is still so when they write, and two claims never take one job:    *)
(* this is what lets JobStore take each of them for one step.              *)
(***************************************************************************)
THEOREM DecisionsStand == Spec => []DecisionStands
  <1>1. LocksInv => DecisionStands
    <2> SUFFICES ASSUME LocksInv, NEW t \in Tx, tx[t].pc = "end"
                 PROVE  /\ (tx[t].op = "claim" /\ tx[t].j # None) \/ (tx[t].op = "cancel" /\ tx[t].may)
                                => status[tx[t].j] = "waiting"
                        /\ tx[t].op \in {"renew", "finish"} /\ tx[t].may => status[tx[t].j] = "held"
                        /\ \A u \in Tx \ {t} :
                                tx[t].op = "claim" /\ tx[u].op = "claim" /\ tx[t].j # None
                                    => tx[u].j # tx[t].j
                        /\ \A j \in tx[t].due : status[j] = "held"
                        /\ \A j \in tx[t].blocked : status[j] = "waiting"
      BY DEF DecisionStands
    <2>1. Decided(t) /\ WellFormed(tx[t]) /\ Guarded(t)
      BY Fields DEF Orderly
    <2>2. ASSUME NEW u \in Tx \ {t}, tx[t].op = "claim", tx[u].op = "claim", tx[t].j # None
          PROVE  tx[u].j # tx[t].j
      <3>1. WellFormed(tx[u]) /\ Guarded(u)
        BY Fields DEF Orderly
      <3> QED BY <2>1, <2>2, <3>1 DEF WellFormed, Guarded
    <2> QED BY <2>1, <2>2 DEF Decided
  <1> QED BY <1>1, LocksInvariant, PTL

(***************************************************************************)
(* Nobody writes what another transaction has read and still goes by: a    *)
(* session, a slot, a last_seen, the queue that admission counted, or a    *)
(* job.  Whatever is written was read by its writer, and what was read is  *)
(* locked by its reader.                                                   *)
(***************************************************************************)
THEOREM NobodyWritesWhatOthersRead == Spec => []ReadsStayCurrent
  <1>1. ASSUME LocksInv, NEW t \in Tx PROVE Written(t) \subseteq tx[t].read
    <2>1. WellFormed(tx[t]) /\ tx[t].op \in Op \cup {"none"}
      BY <1>1, Fields DEF Orderly
    <2>2. CASE tx[t].op \in {"touch", "claim"}
      BY <2>1, <2>2 DEF Written, WellFormed, ForWorker
    <2>3. CASE tx[t].op \in {"renew", "finish", "cancel"}
      BY <2>1, <2>3 DEF Written, WellFormed
    <2>4. CASE tx[t].op = "admit"
      BY <2>1, <2>4 DEF Written, WellFormed
    <2>5. CASE tx[t].op = "sweep"
      BY <2>1, <2>5 DEF Written, WellFormed
    <2>6. CASE tx[t].op \in {"detect", "none"}
      BY <2>6 DEF Written
    <2> QED BY <2>1, <2>2, <2>3, <2>4, <2>5, <2>6 DEF Op
  <1>2. LocksInv => ReadsStayCurrent
    <2> SUFFICES ASSUME LocksInv, NEW t \in Tx, NEW u \in Tx, t # u,
                        NEW r \in Written(t), r \in tx[u].read
                 PROVE  FALSE
      BY DEF ReadsStayCurrent
    <2>1. r \in tx[t].read
      BY <1>1
    <2>2. Guarded(t) /\ Guarded(u)
      BY Fields DEF Orderly
    <2> QED BY <2>1, <2>2 DEF Guarded
  <1> QED BY <1>2, LocksInvariant, PTL

(* Who waits and is waited for has only worker rows or the admission lock, *)
(* and waits for a job; who has a job waits for nothing.                   *)
LEMMA Waiters ==
    ASSUME LocksInv, NEW t \in Tx, NEW u \in WaitsFor(t)
    PROVE  /\ Wanted(t) # None
           /\ Wanted(t) \in Row
           /\ Has(u, Wanted(t))
           /\ u \in Tx
  <1>1. Wanted(t) # None /\ u # None /\ (owner[Wanted(t)] = u \/ u \in shared[Wanted(t)])
    BY DEF WaitsFor
  <1>2. WellFormed(tx[t])
    BY Fields DEF Orderly
  <1>3. Wanted(t) \in Row
    BY <1>1, <1>2, Fields DEF Wanted, Row, SkipLocked, WellFormed
  <1>4. u \in Tx
    BY <1>1, <1>3 DEF LocksInv, LocksTypeOK
  <1> QED BY <1>1, <1>3, <1>4 DEF Has

LEMMA WaitersHaveNoJob ==
    ASSUME LocksInv, NEW t \in Tx, NEW r \in Row, Has(t, r), Wanted(t) # None
    PROVE  Wanted(t) \in Job /\ \A j \in Job : ~Has(t, j)
  <1>1. WellFormed(tx[t]) /\ StartsEmpty(t) /\ JobsLast(t) /\ tx[t].op \in Op \cup {"none"}
    BY Fields DEF Orderly
  <1>2. tx[t].op # "none" /\ (tx[t].pc = "begin" => tx[t].op = "detect")
    BY <1>1 DEF StartsEmpty
  <1>3. tx[t].op \in {"renew", "finish", "admit"} /\ tx[t].pc = "job" /\ Wanted(t) = tx[t].j
    BY <1>1, <1>2 DEF Wanted, SkipLocked, WellFormed, ForWorker, Op
  <1> QED BY <1>1, <1>3 DEF WellFormed, JobsLast

(***************************************************************************)
(* No deadlock, for any number of connections: in a circle of waiting      *)
(* transactions each would have something another wants, so each would     *)
(* wait for a job, and then the next one has that job and waits for        *)
(* nothing.                                                                *)
(***************************************************************************)
THEOREM NobodyWaitsInACircle == Spec => []NoWaitCycle
  <1>1. LocksInv => NoWaitCycle
    <2> SUFFICES ASSUME LocksInv, NEW T \in SUBSET Tx, T # {},
                        \A t \in T : WaitsFor(t) \cap T # {}
                 PROVE  FALSE
      BY DEF NoWaitCycle
    <2>1. PICK t \in T : TRUE
      OBVIOUS
    <2>2. PICK u \in WaitsFor(t) : u \in T
      OBVIOUS
    <2>3. PICK v \in WaitsFor(u) : v \in T
      BY <2>2
    <2>4. PICK x \in WaitsFor(v) : x \in T
      BY <2>3
    <2>5. t \in Tx /\ u \in Tx /\ v \in Tx
      BY <2>2, <2>3
    <2>6. Wanted(u) \in Job /\ Wanted(u) \in Row
      BY <2>2, <2>3, <2>5, Waiters, WaitersHaveNoJob
    <2>7. Has(v, Wanted(u)) /\ Wanted(v) # None
      BY <2>3, <2>4, <2>5, Waiters
    <2> QED BY <2>5, <2>6, <2>7, WaitersHaveNoJob
  <1> QED BY <1>1, LocksInvariant, PTL

(***************************************************************************)
(* A sweep ends or takes back only work whose lease is over at its commit: *)
(* its loop looks at the lease after the row is locked, and nobody can     *)
(* renew between that and the commit.                                      *)
(***************************************************************************)
THEOREM SweepsTakeOnlyLapsed == Spec => SweepTakesOnlyLapsed
  <1> DEFINE A == \A t \in Tx : tx[t].op = "sweep" /\ tx'[t].op = "none" =>
                    \A j \in Job : status[j] = "held" /\ status'[j] # "held" => lease[j] = "over"
  <1>1. LocksInv /\ [Next]_vars => [A]_vars
    <2> SUFFICES ASSUME LocksInv, Next, NEW t \in Tx, tx[t].op = "sweep", tx'[t].op = "none",
                        NEW j \in Job, status[j] = "held", status'[j] # "held"
                 PROVE  lease[j] = "over"
      BY DEF vars
    <2>1. status' # status
      OBVIOUS
    <2>a. ASSUME NEW u \in Tx,
                 \/ Ask(u) \/ LockWorker(u) \/ ChooseJob(u) \/ LockJob(u) \/ LockAdmission(u)
                 \/ CountQueue(u) \/ ShareParent(u) \/ BeginSweep(u)
          PROVE  status' = status
      BY <2>a DEF Ask, Begin, LockWorker, ChooseJob, LockJob, LockAdmission, CountQueue,
                  ShareParent, BeginSweep, data
    <2>b. ASSUME NEW u \in Tx, NEW i \in Job, SweepRow(u, i) \/ Recheck(u, i) \/ SweepChild(u, i)
          PROVE  status' = status
      BY <2>b DEF SweepRow, Recheck, SweepChild, data
    <2>c. ASSUME NEW u \in Tx,
                 \/ LoopOver(u) \/ FindChildren(u) \/ DetectRow(u) \/ RowsDone(u) \/ Rollback(u)
                 \/ \E w \in Worker : VisitWorker(u, w)
          PROVE  status' = status
      BY <2>c DEF LoopOver, FindChildren, VisitWorker, DetectRow, RowsDone, Rollback, data
    <2>d. ASSUME NEW i \in Job, LeaseLapses(i) PROVE status' = status
      BY <2>d DEF LeaseLapses
    <2>2. PICK u \in Tx : Commit(u)
      BY <2>1, <2>a, <2>b, <2>c, <2>d DEF Next
    <2>3. u = t
      BY <2>2, Fields DEF Commit, Release
    <2>4. PICK J \in SUBSET tx[t].due :
            status' = [ i \in Job |-> IF i \in J \cup tx[t].blocked THEN "ended" ELSE
                                      IF i \in tx[t].due THEN "waiting" ELSE status[i] ]
      BY <2>2, <2>3 DEF Commit
    <2>5. tx[t].pc = "end" /\ Decided(t)
      BY <2>2, <2>3, Fields DEF Commit, Orderly
    <2>6. j \in tx[t].due
      BY <2>4, <2>5 DEF Decided
    <2> QED BY <2>5, <2>6 DEF Decided, Rechecked
  <1> QED BY <1>1, LocksInvariant, PTL DEF Spec, SweepTakesOnlyLapsed
=============================================================================
