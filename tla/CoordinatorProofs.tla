-------------------------- MODULE CoordinatorProofs --------------------------
(***************************************************************************)
(* Table workers for any number of workers, sessions and coordinators and  *)
(* any thresholds; then the routes and the maintenance loop over both      *)
(* halves of the database.  Seen through the job tables they are JobStore, *)
(* seen through table workers they are WorkerRegistry, so whatever is      *)
(* proved of those holds of the coordinator; and what it adds, the session *)
(* check and the choice of work by health, capacity and skill, does what   *)
(* it is for.                                                              *)
(***************************************************************************)
EXTENDS Coordinator, DeliveryProofs, FiniteSetTheorems

-----------------------------------------------------------------------------
(* The rewrites of a worker's row. *)
LEMMA NewRowType ==
    ASSUME NEW s \in Session, NEW capacity \in Capacity, NEW capabilities \in Capabilities
    PROVE  NewRow(s, capacity, capabilities) \in WorkerRow
  BY RegistryTiming DEF NewRow, WorkerRow, State

(* The row a worker that is heard again, or is told to drain, has. *)
Heard(row) == [row EXCEPT !.silent = 0, !.state = ReturnState(row)]

DrainedRow(row) == [row EXCEPT !.state = "DRAINING", !.drain_requested = TRUE]

Judged(row) == [row EXCEPT !.state = Verdict(row)]

Older(row) == [row EXCEPT !.silent = IF @ < DeadAfter THEN @ + 1 ELSE @]

LEMMA HeardType ==
    ASSUME NEW row \in WorkerRow
    PROVE  /\ Heard(row) \in WorkerRow
           /\ Heard(row).silent = 0
           /\ Heard(row).state = IF row.drain_requested THEN "DRAINING" ELSE "HEALTHY"
           /\ Heard(row).drain_requested = row.drain_requested
           /\ Heard(row).session_hash = row.session_hash
           /\ Heard(row).capacity = row.capacity
           /\ Heard(row).capabilities = row.capabilities
  <1>1. ReturnState(row) = IF row.drain_requested THEN "DRAINING" ELSE "HEALTHY"
    BY DEF ReturnState
  <1>2. ReturnState(row) \in State /\ 0 \in 0 .. DeadAfter
    BY RegistryTiming DEF ReturnState, State
  <1>3. Heard(row) = [row EXCEPT !.silent = 0, !.state = ReturnState(row)]
    BY DEF Heard
  <1> HIDE DEF ReturnState
  <1> QED BY <1>1, <1>2, <1>3 DEF WorkerRow

LEMMA DrainedRowType ==
    ASSUME NEW row \in WorkerRow
    PROVE  /\ DrainedRow(row) \in WorkerRow
           /\ DrainedRow(row).silent = row.silent
           /\ DrainedRow(row).state = "DRAINING"
           /\ DrainedRow(row).drain_requested
           /\ DrainedRow(row).session_hash = row.session_hash
           /\ DrainedRow(row).capacity = row.capacity
           /\ DrainedRow(row).capabilities = row.capabilities
  BY DEF DrainedRow, WorkerRow, State

LEMMA JudgedType ==
    ASSUME NEW row \in WorkerRow
    PROVE  /\ Judged(row) \in WorkerRow
           /\ Judged(row).silent = row.silent
           /\ \/ Judged(row).state = "DEAD" /\ row.silent >= DeadAfter
              \/ Judged(row).state = "DRAINING" /\ row.state = "DRAINING"
              \/ Judged(row).state = "SUSPECT" /\ row.state # "DRAINING" /\ row.silent < DeadAfter
           /\ Judged(row).drain_requested = row.drain_requested
           /\ Judged(row).session_hash = row.session_hash
           /\ Judged(row).capacity = row.capacity
           /\ Judged(row).capabilities = row.capabilities
  <1>1. row.silent \in 0 .. DeadAfter
    BY DEF WorkerRow
  <1>2. \/ Verdict(row) = "DEAD" /\ row.silent >= DeadAfter
        \/ Verdict(row) = "DRAINING" /\ row.state = "DRAINING"
        \/ Verdict(row) = "SUSPECT" /\ row.state # "DRAINING" /\ row.silent < DeadAfter
    BY <1>1, RegistryTiming DEF Verdict
  <1>3. Verdict(row) \in State
    BY <1>2 DEF State
  <1> QED BY <1>2, <1>3 DEF Judged, WorkerRow

LEMMA OlderType ==
    ASSUME NEW row \in WorkerRow
    PROVE  /\ Older(row) \in WorkerRow
           /\ Older(row).silent >= row.silent
           /\ Older(row).state = row.state
           /\ Older(row).drain_requested = row.drain_requested
           /\ Older(row).session_hash = row.session_hash
           /\ Older(row).capacity = row.capacity
           /\ Older(row).capabilities = row.capabilities
  <1> DEFINE t == IF row.silent < DeadAfter THEN row.silent + 1 ELSE row.silent
  <1>1. row.silent \in 0 .. DeadAfter
    BY DEF WorkerRow
  <1>2. t \in 0 .. DeadAfter /\ t >= row.silent
    BY <1>1, RegistryTiming
  <1>3. Older(row) = [row EXCEPT !.silent = t]
    BY DEF Older
  <1> HIDE DEF t
  <1> QED BY <1>2, <1>3 DEF WorkerRow

-----------------------------------------------------------------------------
(***************************************************************************)
(* What any step does: every old row is kept, replaced by another process  *)
(* after its death, heard again, drained, judged when overdue, or ages;    *)
(* and a new row is a fresh registration.                                  *)
(***************************************************************************)
Fresh(row) ==
    \E s \in Session, capacity \in Capacity, capabilities \in Capabilities :
        row = NewRow(s, capacity, capabilities)

RowStep(old, new) ==
    \/ new = old
    \/ Fresh(new) /\ old.state = "DEAD" /\ new.session_hash # old.session_hash
    \/ new = Heard(old)
    \/ new = DrainedRow(old)
    \/ new = Judged(old) /\ old.silent > SuspectAfter
    \/ new = Older(old)

RegistryStep ==
    /\ DOMAIN workers \subseteq DOMAIN workers'
    /\ DOMAIN workers' \subseteq WorkerId
    /\ workers' = [w \in DOMAIN workers' |-> workers'[w]]
    /\ \A w \in DOMAIN workers : RowStep(workers[w], workers'[w])
    /\ \A w \in DOMAIN workers' \ DOMAIN workers : Fresh(workers'[w])

(* One row is replaced. *)
LEMMA OneRow ==
    ASSUME RegistryTypeOK, NEW w \in DOMAIN workers, NEW row, RowStep(workers[w], row),
           workers' = [workers EXCEPT ![w] = row]
    PROVE  RegistryStep
  <1>1. workers = [v \in DOMAIN workers |-> workers[v]] /\ DOMAIN workers \subseteq WorkerId
    BY DEF RegistryTypeOK
  <1>2. /\ DOMAIN workers' = DOMAIN workers /\ workers'[w] = row
        /\ \A v \in DOMAIN workers : v # w => workers'[v] = workers[v]
        /\ workers' = [v \in DOMAIN workers |-> workers'[v]]
    BY <1>1
  <1> QED BY <1>1, <1>2 DEF RegistryStep, RowStep

LEMMA NextRows == RegistryTypeOK /\ [RegistryNext]_workers => RegistryStep
  <1> SUFFICES ASSUME RegistryTypeOK, [RegistryNext]_workers PROVE RegistryStep
    OBVIOUS
  <1>0. /\ workers \in [DOMAIN workers -> WorkerRow] /\ DOMAIN workers \subseteq WorkerId
        /\ workers = [v \in DOMAIN workers |-> workers[v]]
    BY DEF RegistryTypeOK
  <1>1. ASSUME NEW w \in WorkerId, NEW s \in Session, NEW capacity \in Capacity,
               NEW capabilities \in Capabilities, Register(w, s, capacity, capabilities)
        PROVE  RegistryStep
    <2> DEFINE row == NewRow(s, capacity, capabilities)
    <2>1. Fresh(row)
      BY DEF Fresh
    <2>2. /\ w \notin DOMAIN workers
          /\ workers' = [v \in DOMAIN workers \cup {w} |-> IF v = w THEN row ELSE workers[v]]
      BY <1>1 DEF Register
    <2> HIDE DEF row
    <2>3. /\ DOMAIN workers' = DOMAIN workers \cup {w} /\ workers'[w] = row
          /\ \A v \in DOMAIN workers : workers'[v] = workers[v]
      BY <2>2
    <2> QED BY <1>0, <2>1, <2>2, <2>3 DEF RegistryStep, RowStep
  <1>2. ASSUME NEW w \in WorkerId, NEW s \in Session, NEW capacity \in Capacity,
               NEW capabilities \in Capabilities, TakeOver(w, s, capacity, capabilities)
        PROVE  RegistryStep
    <2> DEFINE row == NewRow(s, capacity, capabilities)
    <2>1. /\ w \in DOMAIN workers /\ workers[w].session_hash # s /\ workers[w].state = "DEAD"
          /\ workers' = [workers EXCEPT ![w] = row]
      BY <1>2 DEF TakeOver
    <2>2. Fresh(row) /\ row.session_hash = s
      BY DEF Fresh, NewRow
    <2> HIDE DEF row
    <2>3. RowStep(workers[w], row)
      BY <2>1, <2>2 DEF RowStep
    <2> QED BY <2>1, <2>3, OneRow
  <1>3. ASSUME NEW w \in DOMAIN workers,
               workers' = [workers EXCEPT ![w].silent = 0, ![w].state = ReturnState(workers[w])]
        PROVE  RegistryStep
    <2>1. workers' = [workers EXCEPT ![w] = Heard(workers[w])]
      BY <1>0, <1>3 DEF Heard
    <2>2. RowStep(workers[w], Heard(workers[w]))
      BY DEF RowStep
    <2> QED BY <2>1, <2>2, OneRow
  <1>4. ASSUME NEW w \in WorkerId, Drain(w) PROVE RegistryStep
    <2>1. w \in DOMAIN workers /\ workers' = [workers EXCEPT ![w] = DrainedRow(workers[w])]
      BY <1>0, <1>4 DEF Drain, DrainedRow
    <2>2. RowStep(workers[w], DrainedRow(workers[w]))
      BY DEF RowStep
    <2> QED BY <2>1, <2>2, OneRow
  <1>5. ASSUME NEW W \in SUBSET Overdue, DetectWorkers(W) PROVE RegistryStep
    <2>1. workers' = [ w \in DOMAIN workers |-> IF w \in W THEN Judged(workers[w]) ELSE workers[w] ]
      BY <1>5 DEF DetectWorkers, Judged
    <2>2. \A w \in W : workers[w].silent > SuspectAfter
      BY DEF Overdue
    <2> QED BY <1>0, <2>1, <2>2 DEF RegistryStep, RowStep
  <1>6. CASE RegistryTick
    <2>1. workers' = [ w \in DOMAIN workers |-> Older(workers[w]) ]
      BY <1>6 DEF RegistryTick, Older
    <2> QED BY <1>0, <2>1 DEF RegistryStep, RowStep
  <1>7. CASE UNCHANGED workers
    BY <1>0, <1>7 DEF RegistryStep, RowStep
  <1> QED BY <1>1, <1>2, <1>3, <1>4, <1>5, <1>6, <1>7
          DEF RegistryNext, Registration, RegisterAgain, Heartbeat, Identified

-----------------------------------------------------------------------------
(***************************************************************************)
(* The inductive invariant.  That a drained worker stays drained through   *)
(* a sweep needs VerdictsAreEarned: a worker that is DEAD was silent long  *)
(* enough to be found DEAD again, and so never becomes SUSPECT.            *)
(***************************************************************************)
RowKept(row) ==
    /\ row \in WorkerRow
    /\ row.drain_requested => row.state \in {"DRAINING", "DEAD"}
    /\ row.state = "DRAINING" => row.drain_requested
    /\ row.state = "DEAD" => row.silent >= DeadAfter
    /\ row.state = "SUSPECT" => row.silent > SuspectAfter

RegistryKept == RegistryTypeOK /\ DrainHolds /\ VerdictsAreEarned

LEMMA RegistryKeptRows ==
    RegistryKept <=> /\ DOMAIN workers \subseteq WorkerId
                     /\ workers = [w \in DOMAIN workers |-> workers[w]]
                     /\ \A w \in DOMAIN workers : RowKept(workers[w])
  BY DEF RegistryKept, RegistryTypeOK, DrainHolds, VerdictsAreEarned, RowKept

LEMMA FreshRow ==
    ASSUME NEW row, Fresh(row)
    PROVE  RowKept(row)
  <1> PICK s \in Session, capacity \in Capacity, capabilities \in Capabilities :
            row = NewRow(s, capacity, capabilities)
    BY DEF Fresh
  <1>1. row \in WorkerRow
    BY NewRowType
  <1>2. row.state = "HEALTHY" /\ ~row.drain_requested
    BY DEF NewRow
  <1> QED BY <1>1, <1>2 DEF RowKept

LEMMA KeptRow ==
    ASSUME NEW old, RowKept(old), NEW new, RowStep(old, new)
    PROVE  RowKept(new)
  <1>1. old \in WorkerRow /\ old.silent \in Nat
    BY RegistryTiming DEF RowKept, WorkerRow
  <1>2. CASE new = old
    BY <1>2
  <1>3. CASE Fresh(new)
    BY <1>3, FreshRow
  <1>4. CASE new = Heard(old)
    BY <1>1, <1>4, HeardType DEF RowKept
  <1>5. CASE new = DrainedRow(old)
    BY <1>1, <1>5, DrainedRowType DEF RowKept
  <1>6. CASE new = Judged(old) /\ old.silent > SuspectAfter
    BY <1>1, <1>6, JudgedType, RegistryTiming DEF RowKept
  <1>7. CASE new = Older(old)
    <2>1. /\ new \in WorkerRow /\ new.silent >= old.silent /\ new.silent \in Nat
          /\ new.state = old.state /\ new.drain_requested = old.drain_requested
      BY <1>1, <1>7, OlderType, RegistryTiming DEF WorkerRow
    <2> QED BY <1>1, <2>1, RegistryTiming DEF RowKept
  <1> QED BY <1>2, <1>3, <1>4, <1>5, <1>6, <1>7 DEF RowStep

LEMMA RegistryKeptInvariant == RegistrySpec => []RegistryKept
  <1>1. RegistryInit => RegistryKept
    BY RegistryKeptRows DEF RegistryInit
  <1>2. RegistryKept /\ [RegistryNext]_workers => RegistryKept'
    <2> SUFFICES ASSUME RegistryKept, [RegistryNext]_workers PROVE RegistryKept'
      OBVIOUS
    <2>1. RegistryStep
      BY NextRows DEF RegistryKept
    <2>2. \A w \in DOMAIN workers' : RowKept(workers'[w])
      BY <2>1, RegistryKeptRows, FreshRow, KeptRow DEF RegistryStep
    <2> QED BY <2>1, <2>2 DEF RegistryStep, RegistryKept, RegistryTypeOK, DrainHolds,
                              VerdictsAreEarned, RowKept
  <1> QED BY <1>1, <1>2, PTL DEF RegistrySpec

(***************************************************************************)
(* Every registration, heartbeat, drain and verdict leaves rows that the   *)
(* constraints of table workers admit.                                     *)
(***************************************************************************)
THEOREM RegistryTypeCorrect == RegistrySpec => []RegistryTypeOK
  <1>1. RegistryKept => RegistryTypeOK
    BY DEF RegistryKept
  <1> QED BY <1>1, RegistryKeptInvariant, PTL

(***************************************************************************)
(* A drained worker is DRAINING or DEAD until another process takes its    *)
(* id, through any heartbeats, replays, silences and sweeps.               *)
(***************************************************************************)
THEOREM DrainAlwaysHolds == RegistrySpec => []DrainHolds
  <1>1. RegistryKept => DrainHolds
    BY DEF RegistryKept
  <1> QED BY <1>1, RegistryKeptInvariant, PTL

(***************************************************************************)
(* No worker is SUSPECT or DEAD on less silence than the configuration     *)
(* names, whatever sweeps of several coordinators overlap.                 *)
(***************************************************************************)
THEOREM VerdictsAlwaysEarned == RegistrySpec => []VerdictsAreEarned
  <1>1. RegistryKept => VerdictsAreEarned
    BY DEF RegistryKept
  <1> QED BY <1>1, RegistryKeptInvariant, PTL

(***************************************************************************)
(* An id passes to another process only after DeadAfter of silence, and an *)
(* operator's drain is forgotten by nothing else.                          *)
(***************************************************************************)
THEOREM IdsChangeHandsSafely == RegistrySpec => IdsChangeHandsOnlyWhenSilent
  <1> DEFINE A == \A w \in DOMAIN workers :
                    LET old == workers[w]
                        new == workers'[w]
                    IN  /\ new.session_hash # old.session_hash => old.silent >= DeadAfter
                        /\ old.drain_requested /\ ~new.drain_requested
                                => new.session_hash # old.session_hash
  <1>1. RegistryKept /\ [RegistryNext]_workers => [A]_workers
    <2> SUFFICES ASSUME RegistryKept, [RegistryNext]_workers, NEW w \in DOMAIN workers
                 PROVE  /\ workers'[w].session_hash # workers[w].session_hash
                                => workers[w].silent >= DeadAfter
                        /\ workers[w].drain_requested /\ ~workers'[w].drain_requested
                                => workers'[w].session_hash # workers[w].session_hash
      OBVIOUS
    <2>1. RowStep(workers[w], workers'[w]) /\ RowKept(workers[w]) /\ workers[w] \in WorkerRow
      BY NextRows, RegistryKeptRows DEF RegistryKept, RegistryStep, RowKept
    <2>2. CASE Fresh(workers'[w]) /\ workers[w].state = "DEAD"
               /\ workers'[w].session_hash # workers[w].session_hash
      BY <2>1, <2>2 DEF RowKept
    <2>3. CASE \/ workers'[w] = Heard(workers[w]) \/ workers'[w] = DrainedRow(workers[w])
               \/ workers'[w] = Judged(workers[w]) \/ workers'[w] = Older(workers[w])
      BY <2>1, <2>3, HeardType, DrainedRowType, JudgedType, OlderType
    <2> QED BY <2>1, <2>2, <2>3 DEF RowStep
  <1> QED BY <1>1, RegistryKeptInvariant, PTL DEF RegistrySpec, IdsChangeHandsOnlyWhenSilent

-----------------------------------------------------------------------------
(* Each half by itself. *)

LEMMA ProfileTypes ==
    ASSUME NEW s \in Session
    PROVE  Profile[s].capacity \in Capacity /\ Profile[s].capabilities \in Capabilities
  BY ProfileAssumption

LEMMA StepOfRegistry ==
    [CoordinatorNext]_coordinatorVars => [RegistryNext]_workers
  <1> SUFFICES ASSUME [CoordinatorNext]_coordinatorVars, workers' # workers PROVE RegistryNext
    OBVIOUS
  <1>1. \/ \E w \in WorkerId : Drain(w)
        \/ \E w \in WorkerId, s \in Session :
            \/ Register(w, s, Profile[s].capacity, Profile[s].capabilities)
            \/ RegisterAgain(w, s)
            \/ TakeOver(w, s, Profile[s].capacity, Profile[s].capabilities)
            \/ Heartbeat(w, s)
        \/ \E W \in SUBSET Overdue : DetectWorkers(W)
        \/ RegistryTick
    BY DEF CoordinatorNext, Client, Process, Maintenance, CoordinatorTick, SubmitRoute, CancelRoute,
           DrainRoute, RegisterRoute, HeartbeatRoute, ClaimRoute, StartRoute, RenewRoute, FinishRoute,
           RecoverStep, DetectStep, coordinatorVars
  <1> QED BY <1>1, ProfileTypes DEF RegistryNext, Registration

LEMMA StepOfStore ==
    TypeOK /\ RegistryTypeOK /\ [CoordinatorNext]_coordinatorVars => [Next]_vars
  <1> SUFFICES ASSUME TypeOK, RegistryTypeOK, [CoordinatorNext]_coordinatorVars PROVE [Next]_vars
    OBVIOUS
  <1>1. CASE Client
    BY <1>1 DEF Client, SubmitRoute, CancelRoute, DrainRoute, Next, AdmitAny
  <1>2. ASSUME NEW w \in WorkerId, NEW s \in Session, Process(w, s) PROVE [Next]_vars
    <2>1. CASE RegisterRoute(w, s) \/ HeartbeatRoute(w, s)
      BY <2>1 DEF RegisterRoute, HeartbeatRoute
    <2>2. ASSUME NEW slot \in Slot, NEW c \in ClaimId, NEW j \in DOMAIN jobs,
                 ClaimRoute(w, s, slot, c, j)
          PROVE  Next
      <3>1. workers[w].capabilities \in SUBSET Task /\ j \in JobId
        BY <2>2, ProfileAssumption DEF ClaimRoute, Identified, RegistryTypeOK, WorkerRow, TypeOK
      <3>2. ClaimFor(j)
        BY <2>2, <3>1 DEF ClaimRoute, ClaimFor
      <3> QED BY <3>1, <3>2 DEF Next
    <2>3. ASSUME NEW j \in DOMAIN jobs, NEW c \in DOMAIN attempts,
                 StartRoute(w, s, j, c) \/ RenewRoute(w, s, j, c) \/ FinishRoute(w, s, j, c)
          PROVE  Next
      <3>1. Report(w, j, c)
        BY <2>3 DEF StartRoute, RenewRoute, FinishRoute, Report
      <3> QED BY <3>1 DEF Next
    <2> QED BY <1>2, <2>1, <2>2, <2>3 DEF Process
  <1>3. CASE Maintenance
    BY <1>3 DEF Maintenance, RecoverStep, DetectStep, Next
  <1>4. CASE CoordinatorTick
    BY <1>4 DEF CoordinatorTick, Next
  <1>5. CASE UNCHANGED coordinatorVars
    BY <1>5 DEF coordinatorVars
  <1> QED BY <1>1, <1>2, <1>3, <1>4, <1>5 DEF CoordinatorNext

(***************************************************************************)
(* What the coordinator does to the job tables is what JobStore does, and  *)
(* what it does to the workers is what WorkerRegistry does: the theorems   *)
(* about each carry over to the whole.                                     *)
(***************************************************************************)
THEOREM PartsCompose == CoordinatorSpec => Spec /\ RegistrySpec
  <1>1. CoordinatorInit => Init /\ RegistryInit
    BY DEF CoordinatorInit
  <1>2. CoordinatorSpec => RegistrySpec
    BY <1>1, StepOfRegistry, PTL DEF CoordinatorSpec, RegistrySpec
  <1>3. CoordinatorSpec => []RegistryTypeOK
    BY <1>2, RegistryTypeCorrect, PTL
  <1>4. TypeOK /\ RegistryTypeOK /\ [CoordinatorNext]_coordinatorVars => TypeOK'
    BY StepOfStore, NextType
  <1>5. Init => TypeOK
    BY DEF Init, TypeOK, Empty
  <1>6. CoordinatorSpec => []TypeOK
    BY <1>1, <1>3, <1>4, <1>5, PTL DEF CoordinatorSpec
  <1> QED BY <1>1, <1>2, <1>3, <1>6, StepOfStore, PTL DEF CoordinatorSpec, Spec

(***************************************************************************)
(* Behind the coordinator the promise to clients still holds.              *)
(***************************************************************************)
THEOREM CoordinatorKeepsPromise == CoordinatorSpec => KeepsPromise
  BY PartsCompose, PromiseKept, PTL

LEMMA PartsKept == CoordinatorSpec => []Kept /\ []RegistryKept
  BY PartsCompose, KeptInvariant, RegistryKeptInvariant, PTL

-----------------------------------------------------------------------------
(***************************************************************************)
(* What the coordinator adds.  A row of workers describes the process of   *)
(* its session; an attempt was placed with the process that claimed it;    *)
(* and a worker drained in its present session has its drain on record.    *)
(***************************************************************************)
Describes(row) ==
    LET profile == Profile[row.session_hash]
    IN  row.capacity = profile.capacity /\ row.capabilities = profile.capabilities

Placed(c) ==
    /\ attempts[c].slot < Profile[claimant[c]].capacity
    /\ jobs[attempts[c].job].def.task \in Profile[claimant[c]].capabilities

ClaimantsKnown == claimant \in [DOMAIN attempts -> Session]

DrainsOnRecord == \A w \in drained : w \in DOMAIN workers /\ workers[w].drain_requested

Tracked ==
    /\ ClaimantsKnown
    /\ \A w \in DOMAIN workers : Describes(workers[w])
    /\ \A c \in DOMAIN attempts : Placed(c)
    /\ DrainsOnRecord

(* A step leaves the process of a worker as it is, or a registration puts  *)
(* another one in its place.                                               *)
SameProcess(old, new) ==
    /\ new.session_hash = old.session_hash
    /\ new.capacity = old.capacity /\ new.capabilities = old.capabilities
    /\ old.drain_requested => new.drain_requested

Arrived(row) == \E s \in Session : row = NewRow(s, Profile[s].capacity, Profile[s].capabilities)

ProcessStep ==
    /\ DOMAIN workers \subseteq DOMAIN workers'
    /\ \A w \in DOMAIN workers' :
        \/ w \in DOMAIN workers /\ SameProcess(workers[w], workers'[w])
        \/ Arrived(workers'[w]) /\ w \notin drained'
    /\ \A w \in drained' : w \in drained \/ (w \in DOMAIN workers' /\ workers'[w].drain_requested)

LEMMA SameRow ==
    ASSUME NEW row \in WorkerRow
    PROVE  /\ SameProcess(row, row) /\ SameProcess(row, Heard(row)) /\ SameProcess(row, DrainedRow(row))
           /\ SameProcess(row, Judged(row)) /\ SameProcess(row, Older(row))
  <1>1. SameProcess(row, row) /\ SameProcess(row, Heard(row))
    BY HeardType DEF SameProcess
  <1>2. SameProcess(row, DrainedRow(row))
    BY DrainedRowType DEF SameProcess
  <1>3. SameProcess(row, Judged(row)) /\ SameProcess(row, Older(row))
    BY JudgedType, OlderType DEF SameProcess
  <1> QED BY <1>1, <1>2, <1>3

(* One row is rewritten for the same process. *)
LEMMA OneProcess ==
    ASSUME RegistryTypeOK, NEW w \in DOMAIN workers, NEW row, SameProcess(workers[w], row),
           workers' = [workers EXCEPT ![w] = row],
           drained' \subseteq drained \/ (drained' = drained \cup {w} /\ row.drain_requested)
    PROVE  ProcessStep
  <1>1. /\ DOMAIN workers' = DOMAIN workers /\ workers'[w] = row
        /\ \A v \in DOMAIN workers : v # w => workers'[v] = workers[v]
        /\ \A v \in DOMAIN workers : workers[v] \in WorkerRow
    BY DEF RegistryTypeOK
  <1>2. \A v \in DOMAIN workers' : v \in DOMAIN workers /\ SameProcess(workers[v], workers'[v])
    BY <1>1, SameRow
  <1> QED BY <1>1, <1>2 DEF ProcessStep

LEMMA RegisterProcess ==
    ASSUME RegistryTypeOK, DrainsOnRecord, NEW w \in WorkerId, NEW s \in Session, RegisterRoute(w, s)
    PROVE  ProcessStep
  <1> DEFINE row == NewRow(s, Profile[s].capacity, Profile[s].capabilities)
  <1>0. /\ workers \in [DOMAIN workers -> WorkerRow] /\ Arrived(row)
        /\ \A v \in DOMAIN workers : SameProcess(workers[v], workers[v])
    BY SameRow DEF RegistryTypeOK, Arrived
  <1>1. CASE Register(w, s, Profile[s].capacity, Profile[s].capabilities)
    <2>1. /\ w \notin DOMAIN workers /\ drained' = drained
          /\ workers' = [v \in DOMAIN workers \cup {w} |-> IF v = w THEN row ELSE workers[v]]
      BY <1>1 DEF Register, RegisterRoute
    <2> HIDE DEF row
    <2>2. /\ DOMAIN workers' = DOMAIN workers \cup {w} /\ workers'[w] = row
          /\ \A v \in DOMAIN workers : workers'[v] = workers[v]
      BY <2>1
    <2> QED BY <1>0, <2>1, <2>2 DEF ProcessStep, DrainsOnRecord
  <1>2. CASE RegisterAgain(w, s)
    <2>1. w \in DOMAIN workers /\ workers' = [workers EXCEPT ![w] = Heard(workers[w])]
      BY <1>0, <1>2 DEF RegisterAgain, Identified, Heard
    <2>2. drained' = drained /\ workers[w] \in WorkerRow
      BY <1>0, <1>2, <2>1 DEF RegisterRoute, RegisterAgain, Identified
    <2> QED BY <2>1, <2>2, SameRow, OneProcess
  <1>3. CASE TakeOver(w, s, Profile[s].capacity, Profile[s].capabilities)
    <2>1. /\ w \in DOMAIN workers /\ drained' = drained \ {w}
          /\ workers' = [workers EXCEPT ![w] = row]
      BY <1>3 DEF TakeOver, RegisterRoute
    <2> HIDE DEF row
    <2>2. /\ DOMAIN workers' = DOMAIN workers /\ workers'[w] = row
          /\ \A v \in DOMAIN workers : v # w => workers'[v] = workers[v]
      BY <1>0, <2>1
    <2> QED BY <1>0, <2>1, <2>2 DEF ProcessStep
  <1> QED BY <1>1, <1>2, <1>3 DEF RegisterRoute

LEMMA NextProcess ==
    ASSUME RegistryTypeOK, DrainsOnRecord, [CoordinatorNext]_coordinatorVars
    PROVE  ProcessStep
  <1>0. /\ workers \in [DOMAIN workers -> WorkerRow]
        /\ \A v \in DOMAIN workers : SameProcess(workers[v], workers[v])
    BY SameRow DEF RegistryTypeOK
  <1>same. workers' = workers /\ drained' = drained => ProcessStep
    BY <1>0 DEF ProcessStep
  <1>1. CASE Client
    <2>1. ASSUME NEW w \in WorkerId, DrainRoute(w) PROVE ProcessStep
      <3>1. /\ w \in DOMAIN workers /\ workers' = [workers EXCEPT ![w] = DrainedRow(workers[w])]
            /\ drained' = drained \cup {w}
        BY <1>0, <2>1 DEF DrainRoute, Drain, DrainedRow
      <3>2. workers[w] \in WorkerRow
        BY <1>0, <3>1
      <3> QED BY <3>1, <3>2, SameRow, DrainedRowType, OneProcess
    <2> QED BY <1>1, <1>same, <2>1 DEF Client, SubmitRoute, CancelRoute, history
  <1>2. ASSUME NEW w \in WorkerId, NEW s \in Session, Process(w, s) PROVE ProcessStep
    <2>1. CASE RegisterRoute(w, s)
      BY <2>1, RegisterProcess
    <2>2. CASE HeartbeatRoute(w, s)
      <3>1. /\ w \in DOMAIN workers /\ workers' = [workers EXCEPT ![w] = Heard(workers[w])]
            /\ drained' = drained
        BY <1>0, <2>2 DEF HeartbeatRoute, Heartbeat, Identified, Heard, history
      <3>2. workers[w] \in WorkerRow
        BY <1>0, <3>1
      <3> QED BY <3>1, <3>2, SameRow, OneProcess
    <2> QED BY <1>2, <1>same, <2>1, <2>2
            DEF Process, ClaimRoute, StartRoute, RenewRoute, FinishRoute, history
  <1>3. CASE Maintenance
    <2>1. ASSUME NEW W \in SUBSET Overdue, DetectStep(W) PROVE ProcessStep
      <3>1. /\ workers' = [ w \in DOMAIN workers |->
                                IF w \in W THEN Judged(workers[w]) ELSE workers[w] ]
            /\ drained' = drained
        BY <2>1 DEF DetectStep, DetectWorkers, Judged, history
      <3>2. \A w \in DOMAIN workers : SameProcess(workers[w], workers'[w])
        BY <1>0, <3>1, SameRow
      <3> QED BY <3>1, <3>2 DEF ProcessStep
    <2> QED BY <1>3, <1>same, <2>1 DEF Maintenance, RecoverStep, history
  <1>4. CASE CoordinatorTick
    <2>1. workers' = [ w \in DOMAIN workers |-> Older(workers[w]) ] /\ drained' = drained
      BY <1>4 DEF CoordinatorTick, RegistryTick, Older, history
    <2>2. \A w \in DOMAIN workers : SameProcess(workers[w], workers'[w])
      BY <1>0, <2>1, SameRow
    <2> QED BY <2>1, <2>2 DEF ProcessStep
  <1>5. CASE UNCHANGED coordinatorVars
    BY <1>5, <1>same DEF coordinatorVars, history
  <1> QED BY <1>1, <1>2, <1>3, <1>4, <1>5 DEF CoordinatorNext

-----------------------------------------------------------------------------
(* Attempts come from claims alone. *)
LEMMA NextClaims ==
    ASSUME TypeOK, [CoordinatorNext]_coordinatorVars
    PROVE  \/ claimant' = claimant /\ DOMAIN attempts' = DOMAIN attempts
           \/ \E w \in WorkerId, s \in Session, slot \in Slot, c \in ClaimId, j \in DOMAIN jobs :
                ClaimRoute(w, s, slot, c, j)
  <1> DEFINE Quiet == claimant' = claimant /\ DOMAIN attempts' = DOMAIN attempts
  <1>1. Client => Quiet
    BY DEF Client, SubmitRoute, CancelRoute, DrainRoute, Admit, Cancel, vars, history
  <1>2. ASSUME NEW w \in WorkerId, NEW s \in Session,
               \/ RegisterRoute(w, s) \/ HeartbeatRoute(w, s)
               \/ \E j \in DOMAIN jobs, c \in DOMAIN attempts :
                    StartRoute(w, s, j, c) \/ RenewRoute(w, s, j, c) \/ FinishRoute(w, s, j, c)
        PROVE  Quiet
    <2>1. CASE RegisterRoute(w, s) \/ HeartbeatRoute(w, s)
      BY <2>1 DEF RegisterRoute, HeartbeatRoute, vars, history
    <2>2. ASSUME NEW j \in DOMAIN jobs, NEW c \in DOMAIN attempts,
                 StartRoute(w, s, j, c) \/ RenewRoute(w, s, j, c) \/ FinishRoute(w, s, j, c)
          PROVE  Quiet
      BY <2>2 DEF StartRoute, RenewRoute, FinishRoute, Start, Renew, FinishSucceeded, FinishFailed,
                  history, TypeOK
    <2> QED BY <1>2, <2>1, <2>2
  <1>3. Maintenance => Quiet
    BY DEF Maintenance, RecoverStep, DetectStep, RecoverSome, RecoverJobs, vars, history
  <1>4. CoordinatorTick => Quiet
    BY DEF CoordinatorTick, Tick, history
  <1>5. UNCHANGED coordinatorVars => Quiet
    BY DEF coordinatorVars, vars, history
  <1> HIDE DEF Quiet
  <1>6. \/ Quiet
        \/ \E w \in WorkerId, s \in Session, slot \in Slot, c \in ClaimId, j \in DOMAIN jobs :
                ClaimRoute(w, s, slot, c, j)
    BY <1>1, <1>2, <1>3, <1>4, <1>5 DEF CoordinatorNext, Process
  <1> QED BY <1>6 DEF Quiet

(* The new attempt of a claim, and who has it. *)
LEMMA ClaimEffect ==
    ASSUME TypeOK, ClaimantsKnown, NEW w \in WorkerId, NEW s \in Session, NEW slot \in Slot,
           NEW c \in ClaimId, NEW j \in DOMAIN jobs, ClaimRoute(w, s, slot, c, j)
    PROVE  /\ c \notin DOMAIN attempts /\ DOMAIN attempts' = DOMAIN attempts \cup {c}
           /\ attempts'[c].job = j /\ attempts'[c].worker = w /\ attempts'[c].slot = slot
           /\ claimant' \in [DOMAIN attempts \cup {c} -> Session] /\ claimant'[c] = s
           /\ \A d \in DOMAIN attempts : claimant'[d] = claimant[d]
           /\ w \in DOMAIN workers /\ workers[w].session_hash = s /\ workers[w].state = "HEALTHY"
           /\ slot < workers[w].capacity
           /\ jobs[j].def.task \in workers[w].capabilities
  <1>1. /\ c \notin DOMAIN attempts /\ claimant' = Put(claimant, c, s)
        /\ attempts' = Put(attempts, c, NewAttempt(w, slot, j, jobs[j].attempt_count + 1))
        /\ jobs[j].def.task \in workers[w].capabilities
    BY DEF ClaimRoute, Claim, Eligible
  <1> DEFINE row == NewAttempt(w, slot, j, jobs[j].attempt_count + 1)
  <1>2. row.job = j /\ row.worker = w /\ row.slot = slot
    BY DEF NewAttempt
  <1> HIDE DEF row
  <1>3. DOMAIN attempts' = DOMAIN attempts \cup {c} /\ attempts'[c] = row
    BY <1>1 DEF Put, row
  <1>4. /\ claimant' \in [DOMAIN attempts \cup {c} -> Session] /\ claimant'[c] = s
        /\ \A d \in DOMAIN attempts : claimant'[d] = claimant[d]
    BY <1>1 DEF Put, ClaimantsKnown
  <1> QED BY <1>1, <1>2, <1>3, <1>4 DEF ClaimRoute, Identified, MayTakeWork

LEMMA NextTracked ==
    ASSUME Kept, RegistryKept, Tracked, [CoordinatorNext]_coordinatorVars
    PROVE  Tracked'
  <1>0. /\ TypeOK /\ RegistryTypeOK /\ ClaimantsKnown /\ DrainsOnRecord /\ [Next]_vars
        /\ AllJobs /\ AttemptsStay /\ ProcessStep
    BY StepOfStore, NextJobs, NextAttemptsStay, NextProcess
       DEF Kept, Base, Core, RegistryKept, Tracked
  <1>1. ASSUME NEW w \in DOMAIN workers' PROVE Describes(workers'[w])
    <2>1. CASE w \in DOMAIN workers /\ SameProcess(workers[w], workers'[w])
      BY <2>1 DEF Tracked, Describes, SameProcess
    <2>2. CASE Arrived(workers'[w])
      BY <2>2 DEF Arrived, NewRow, Describes
    <2> QED BY <1>0, <2>1, <2>2 DEF ProcessStep
  <1>2. DrainsOnRecord'
    BY <1>0 DEF ProcessStep, DrainsOnRecord, SameProcess
  <1>3. ASSUME NEW c \in DOMAIN attempts, claimant'[c] = claimant[c]
        PROVE  Placed(c)'
    <2>1. attempts[c].job \in DOMAIN jobs /\ Placed(c)
      BY <1>0 DEF TypeOK, Tracked
    <2>2. attempts'[c].job = attempts[c].job /\ attempts'[c].slot = attempts[c].slot
      BY <1>0 DEF AttemptsStay, SamePlace
    <2>3. jobs'[attempts[c].job].def = jobs[attempts[c].job].def
      BY <1>0, <2>1 DEF AllJobs, JobChange
    <2> QED BY <1>3, <2>1, <2>2, <2>3 DEF Placed
  <1>4. CASE claimant' = claimant /\ DOMAIN attempts' = DOMAIN attempts
    BY <1>0, <1>1, <1>2, <1>3, <1>4 DEF Tracked, ClaimantsKnown
  <1>5. ASSUME NEW w \in WorkerId, NEW s \in Session, NEW slot \in Slot, NEW c \in ClaimId,
               NEW j \in DOMAIN jobs, ClaimRoute(w, s, slot, c, j)
        PROVE  Tracked'
    <2>1. /\ DOMAIN attempts' = DOMAIN attempts \cup {c}
          /\ attempts'[c].job = j /\ attempts'[c].slot = slot
          /\ claimant' \in [DOMAIN attempts \cup {c} -> Session] /\ claimant'[c] = s
          /\ \A d \in DOMAIN attempts : claimant'[d] = claimant[d]
          /\ w \in DOMAIN workers /\ workers[w].session_hash = s
          /\ slot < workers[w].capacity /\ jobs[j].def.task \in workers[w].capabilities
      BY <1>0, <1>5, ClaimEffect
    <2>2. Describes(workers[w]) /\ jobs'[j].def = jobs[j].def
      BY <1>0, <2>1 DEF Tracked, AllJobs, JobChange
    <2>3. Placed(c)'
      BY <2>1, <2>2 DEF Placed, Describes
    <2> QED BY <1>1, <1>2, <1>3, <2>1, <2>3 DEF Tracked, ClaimantsKnown
  <1> QED BY <1>0, <1>4, <1>5, NextClaims

LEMMA TrackedInvariant == CoordinatorSpec => []Tracked
  <1>1. CoordinatorInit => Tracked
    BY DEF CoordinatorInit, Init, RegistryInit, Empty, Tracked, ClaimantsKnown, DrainsOnRecord
  <1>2. Kept /\ RegistryKept /\ Tracked /\ [CoordinatorNext]_coordinatorVars => Tracked'
    BY NextTracked
  <1> QED BY <1>1, <1>2, PartsKept, PTL DEF CoordinatorSpec

(***************************************************************************)
(* A process never holds more than its slots or what it cannot run, for    *)
(* any number of workers and sessions: each of its attempts is in a slot   *)
(* below its capacity, and no two are in one slot.                         *)
(***************************************************************************)
THEOREM PlacementAlwaysFits == CoordinatorSpec => []PlacementFits
  <1>1. Kept /\ RegistryKept /\ Tracked => PlacementFits
    <2> SUFFICES ASSUME Kept, RegistryKept, Tracked, NEW w \in DOMAIN workers
                 PROVE  LET mine == { c \in Unfinished :
                                        attempts[c].worker = w
                                            /\ claimant[c] = workers[w].session_hash }
                        IN  /\ Cardinality(mine) <= workers[w].capacity
                            /\ \A c \in mine :
                                /\ attempts[c].slot < workers[w].capacity
                                /\ jobs[attempts[c].job].def.task \in workers[w].capabilities
      BY DEF PlacementFits
    <2> DEFINE mine == { c \in Unfinished :
                            attempts[c].worker = w /\ claimant[c] = workers[w].session_hash }
               n == workers[w].capacity
               f == [c \in mine |-> attempts[c].slot]
    <2>1. n \in Nat \ {0} /\ Describes(workers[w])
      BY RegistryCapacity DEF RegistryKept, RegistryTypeOK, WorkerRow, Tracked
    <2>2. \A c \in mine : c \in DOMAIN attempts /\ Placed(c) /\ attempts[c].slot \in Nat
      BY DefinitionAssumption DEF Kept, Base, Core, TypeOK, AttemptRow, Tracked, Unfinished
    <2>3. \A c \in mine : /\ attempts[c].slot < n
                          /\ jobs[attempts[c].job].def.task \in workers[w].capabilities
      BY <2>1, <2>2 DEF Placed, Describes
    <2>4. \A c, d \in mine : attempts[c].slot = attempts[d].slot => c = d
      BY DEF Kept, Base, Core, SlotExclusive
    <2> HIDE DEF n
    <2>5. \A c \in mine : attempts[c].slot \in 0 .. (n - 1)
      BY <2>1, <2>2, <2>3
    <2> HIDE DEF mine
    <2>6. f \in Injection(mine, 0 .. (n - 1))
      BY <2>4, <2>5 DEF Injection, IsInjective
    <2>7. IsFiniteSet(0 .. (n - 1)) /\ Cardinality(0 .. (n - 1)) = n
      BY <2>1, FS_Interval
    <2>8. Cardinality(mine) <= n
      BY <2>6, <2>7, FS_Injection
    <2> QED BY <2>3, <2>8 DEF mine, n
  <1> QED BY <1>1, PartsKept, TrackedInvariant, PTL

(***************************************************************************)
(* A drained worker gets no new attempt until another process has its id:  *)
(* it is DRAINING or DEAD whatever is heard of it, and claim asks for      *)
(* HEALTHY.                                                                *)
(***************************************************************************)
THEOREM DrainStopsWork == CoordinatorSpec => DrainedGetsNoWork
  <1> DEFINE A == \A c \in DOMAIN attempts' :
                    c \notin DOMAIN attempts => attempts'[c].worker \notin drained
  <1>1. Kept /\ RegistryKept /\ Tracked /\ [CoordinatorNext]_coordinatorVars => [A]_coordinatorVars
    <2> SUFFICES ASSUME Kept, RegistryKept, Tracked, [CoordinatorNext]_coordinatorVars,
                        NEW c \in DOMAIN attempts', c \notin DOMAIN attempts
                 PROVE  attempts'[c].worker \notin drained
      OBVIOUS
    <2>0. TypeOK /\ ClaimantsKnown
      BY DEF Kept, Base, Core, Tracked
    <2>1. PICK w \in WorkerId, s \in Session, slot \in Slot, d \in ClaimId, j \in DOMAIN jobs :
            ClaimRoute(w, s, slot, d, j)
      BY <2>0, NextClaims
    <2>2. /\ DOMAIN attempts' = DOMAIN attempts \cup {d} /\ attempts'[d].worker = w
          /\ w \in DOMAIN workers /\ workers[w].state = "HEALTHY"
      <3>1. attempts'[d].worker = w /\ DOMAIN attempts' = DOMAIN attempts \cup {d}
        BY ONLY <2>0, <2>1, ClaimEffect, w \in WorkerId, s \in Session, slot \in Slot, d \in ClaimId,
                j \in DOMAIN jobs
      <3>2. w \in DOMAIN workers /\ workers[w].state = "HEALTHY"
        BY <2>1 DEF ClaimRoute, Identified, MayTakeWork
      <3> QED BY <3>1, <3>2
    <2>3. c = d
      BY <2>2
    <2> QED BY <2>2, <2>3 DEF Tracked, DrainsOnRecord, RegistryKept, DrainHolds
  <1> QED BY <1>1, PartsKept, TrackedInvariant, PTL DEF CoordinatorSpec, DrainedGetsNoWork

(***************************************************************************)
(* A completion counts only when it comes from the process that claimed    *)
(* the attempt and that still owns its worker id.                          *)
(***************************************************************************)
THEOREM ReplacedProcessesAreFenced == CoordinatorSpec => ReplacedProcessIsFenced
  <1> DEFINE A == \A c \in Unfinished :
                    attempts'[c].outcome \in {"SUCCEEDED", "FAILED"} =>
                        workers[attempts[c].worker].session_hash = claimant[c]
  <1>1. Kept /\ Tracked /\ [CoordinatorNext]_coordinatorVars => [A]_coordinatorVars
    <2> SUFFICES ASSUME Kept, Tracked, [CoordinatorNext]_coordinatorVars,
                        NEW c \in Unfinished, attempts'[c].outcome \in {"SUCCEEDED", "FAILED"}
                 PROVE  workers[attempts[c].worker].session_hash = claimant[c]
      OBVIOUS
    <2>0. /\ attempts \in [DOMAIN attempts -> AttemptRow] /\ c \in DOMAIN attempts
          /\ attempts[c].outcome = None /\ TypeOK
          /\ None \notin {"SUCCEEDED", "FAILED"} /\ "LEASE_EXPIRED" \in Outcome
      BY PayloadAssumption DEF Kept, Base, Core, TypeOK, Unfinished, Finished, Outcome
    <2>same. attempts'[c].outcome # attempts[c].outcome
      BY <2>0
    <2>1. ASSUME NEW w \in WorkerId, NEW s \in Session, NEW j \in DOMAIN jobs,
                 NEW d \in DOMAIN attempts, FinishRoute(w, s, j, d)
          PROVE  workers[attempts[c].worker].session_hash = claimant[c]
      <3>1. c = d
        BY <2>0, <2>1, <2>same DEF FinishRoute, FinishSucceeded, FinishFailed
      <3>2. Owned(w, j, d)
        BY <2>1 DEF FinishRoute, FinishSucceeded, FinishFailed
      <3> QED BY <2>1, <3>1, <3>2 DEF FinishRoute, MayReport, Identified, Owned
    <2>2. ASSUME NEW w \in WorkerId, NEW s \in Session, NEW j \in DOMAIN jobs,
                 NEW d \in DOMAIN attempts, StartRoute(w, s, j, d) \/ RenewRoute(w, s, j, d)
          PROVE  FALSE
      <3>1. CASE StartRoute(w, s, j, d)
        <4>1. attempts' = [attempts EXCEPT ![d] = StartedAttempt(@, jobs[j].def.timeout)]
          BY <3>1 DEF StartRoute, Start
        <4>2. jobs[j].def.timeout \in Nat
          BY <2>0, RowFacts DEF DefinitionRow
        <4> QED BY <2>0, <2>same, <4>1, <4>2, StartedAttemptType
      <3>2. CASE RenewRoute(w, s, j, d)
        <4>1. attempts' = [attempts EXCEPT ![d] =
                                RenewedAttempt(@, Smaller(LeaseSeconds, attempts[d].cap))]
          BY <3>2 DEF RenewRoute, Renew
        <4>2. Smaller(LeaseSeconds, attempts[d].cap) \in Nat
          BY <2>0, TimingAssumption DEF Smaller, AttemptRow
        <4> QED BY <2>0, <2>same, <4>1, <4>2, RenewedAttemptType
      <3> QED BY <2>2, <3>1, <3>2
    <2>3. ASSUME NEW w \in WorkerId, NEW s \in Session, NEW slot \in Slot, NEW d \in ClaimId,
                 NEW j \in DOMAIN jobs, ClaimRoute(w, s, slot, d, j)
          PROVE  FALSE
      BY <2>0, <2>3, <2>same DEF ClaimRoute, Claim, Put
    <2>4. ~Client
      BY <2>same DEF Client, SubmitRoute, CancelRoute, DrainRoute, Admit, Cancel, vars
    <2>5. ASSUME NEW w \in WorkerId, NEW s \in Session, RegisterRoute(w, s) \/ HeartbeatRoute(w, s)
          PROVE  FALSE
      BY <2>5, <2>same DEF RegisterRoute, HeartbeatRoute, vars
    <2>6. ~Maintenance
      <3>1. ASSUME NEW E \in SUBSET Expirable, NEW B \in SUBSET DOMAIN jobs, RecoverStep(E, B)
            PROVE  FALSE
        <4>1. attempts' = [ d \in DOMAIN attempts |->
                                IF d \in E
                                THEN FinishedAttempt(attempts[d], "LEASE_EXPIRED", ExpiredError)
                                ELSE attempts[d] ]
          BY <3>1 DEF RecoverStep, RecoverSome, RecoverJobs
        <4>2. FinishedAttempt(attempts[c], "LEASE_EXPIRED", ExpiredError).outcome = "LEASE_EXPIRED"
          BY <2>0, FinishedAttemptType
        <4> QED BY <2>0, <2>same, <4>1, <4>2
      <3> QED BY <2>same, <3>1 DEF Maintenance, DetectStep, vars
    <2>7. ~CoordinatorTick
      <3>1. OlderAttempt(attempts[c]).outcome = attempts[c].outcome
        BY <2>0, OlderAttemptType
      <3> QED BY <2>0, <2>same, <3>1 DEF CoordinatorTick, Tick
    <2>8. ~UNCHANGED coordinatorVars
      BY <2>same DEF coordinatorVars, vars
    <2> QED BY <2>1, <2>2, <2>3, <2>4, <2>5, <2>6, <2>7, <2>8 DEF CoordinatorNext, Process
  <1> QED BY <1>1, PartsKept, TrackedInvariant, PTL DEF CoordinatorSpec, ReplacedProcessIsFenced
=============================================================================
