---------------------------- MODULE Coordinator ----------------------------
(***************************************************************************)
(* The coordinator's routes (api.py) and maintenance loop (recovery.tick)  *)
(* over both halves of the database: the job tables of JobStore and the    *)
(* workers of WorkerRegistry.  Every worker route first identifies the     *)
(* caller's session, with the worker's row locked until the commit.        *)
(*                                                                         *)
(* A worker process is known here by its session.  It draws its claim ids  *)
(* itself and learns a token only from the answer to its claim, so it      *)
(* reports on attempts that it claimed and on no others.                   *)
(***************************************************************************)
EXTENDS JobStore, WorkerRegistry

CONSTANT Profile    \* what the process of each session registers with

ASSUME ProfileAssumption ==
    /\ Profile \in [Session -> [capacity : Capacity, capabilities : Capabilities]]
    /\ Capabilities \subseteq SUBSET Task

VARIABLES
    claimant,   \* history: the session that claimed each attempt
    drained     \* history: the workers drained since their session began

history == <<claimant, drained>>
coordinatorVars == <<vars, workers, history>>

-----------------------------------------------------------------------------
(* Client routes. *)

SubmitRoute(j, key, def) ==
    Admit(j, key, def) /\ UNCHANGED <<workers, history>>

CancelRoute(j) ==
    Cancel(j) /\ UNCHANGED <<workers, history>>

DrainRoute(w) ==
    /\ Drain(w)
    /\ drained' = drained \cup {w}
    /\ UNCHANGED <<vars, claimant>>

-----------------------------------------------------------------------------
(* Worker routes. *)

RegisterRoute(w, s) ==
    /\ \/ Register(w, s, Profile[s].capacity, Profile[s].capabilities)
       \/ RegisterAgain(w, s)
       \/ TakeOver(w, s, Profile[s].capacity, Profile[s].capabilities)
    /\ drained' = IF w \in DOMAIN workers /\ workers[w].session_hash # s
                  THEN drained \ {w} ELSE drained
    /\ UNCHANGED <<vars, claimant>>

HeartbeatRoute(w, s) ==
    Heartbeat(w, s) /\ UNCHANGED <<vars, history>>

(* Mutant: the health of the worker is not asked for. *)
MayTakeWorkAlways(w, slot) == slot < workers[w].capacity

(* Mutant: slots are counted from one. *)
MayTakeWorkOneMore(w, slot) == workers[w].state = "HEALTHY" /\ slot <= workers[w].capacity

(* What service.claim asks of the worker's row, for new work. *)
MayTakeWork(w, slot) == workers[w].state = "HEALTHY" /\ slot < workers[w].capacity

ClaimRoute(w, s, slot, c, j) ==
    /\ Identified(w, s)
    /\ MayTakeWork(w, slot)
    /\ Claim(w, slot, c, j, workers[w].capabilities)
    /\ claimant' = Put(claimant, c, s)
    /\ UNCHANGED <<workers, drained>>

(* Mutant: a claimed token is enough, whoever owns the id by now. *)
MayReportByToken(w, s, c) == w \in DOMAIN workers /\ claimant[c] = s

(* A process reports on attempt c. *)
MayReport(w, s, c) == Identified(w, s) /\ claimant[c] = s

StartRoute(w, s, j, c) ==
    MayReport(w, s, c) /\ Start(w, j, c) /\ UNCHANGED <<workers, history>>

RenewRoute(w, s, j, c) ==
    MayReport(w, s, c) /\ Renew(w, j, c) /\ UNCHANGED <<workers, history>>

FinishRoute(w, s, j, c) ==
    /\ MayReport(w, s, c)
    /\ \/ \E output \in Output : FinishSucceeded(w, j, c, output)
       \/ \E error \in Error, retryable \in BOOLEAN, delay \in 0 .. (2 * MaxBackoff) :
            FinishFailed(w, j, c, error, retryable, delay)
    /\ UNCHANGED <<workers, history>>

-----------------------------------------------------------------------------
(* The maintenance loop runs two transactions, one after the other; with   *)
(* several coordinators they interleave.                                   *)

RecoverStep(E, B) == RecoverSome(E, B) /\ UNCHANGED <<workers, history>>

DetectStep(W) == DetectWorkers(W) /\ UNCHANGED <<vars, history>>

(* One database clock for both halves. *)
CoordinatorTick == Tick /\ RegistryTick /\ UNCHANGED history

-----------------------------------------------------------------------------
CoordinatorInit ==
    /\ Init
    /\ RegistryInit
    /\ claimant = Empty
    /\ drained = {}

Client ==
    \/ \E j \in JobId, key \in Key \cup {None}, def \in Definition : SubmitRoute(j, key, def)
    \/ \E j \in JobId : CancelRoute(j)
    \/ \E w \in WorkerId : DrainRoute(w)

Process(w, s) ==
    \/ RegisterRoute(w, s)
    \/ HeartbeatRoute(w, s)
    \/ \E slot \in Slot, c \in ClaimId, j \in DOMAIN jobs : ClaimRoute(w, s, slot, c, j)
    \/ \E j \in DOMAIN jobs, c \in DOMAIN attempts :
            StartRoute(w, s, j, c) \/ RenewRoute(w, s, j, c) \/ FinishRoute(w, s, j, c)

Maintenance ==
    \/ \E E \in SUBSET Expirable, B \in SUBSET DOMAIN jobs : RecoverStep(E, B)
    \/ \E W \in SUBSET Overdue : DetectStep(W)

CoordinatorNext ==
    \/ Client
    \/ \E w \in WorkerId, s \in Session : Process(w, s)
    \/ Maintenance
    \/ CoordinatorTick

CoordinatorSpec == CoordinatorInit /\ [][CoordinatorNext]_coordinatorVars

-----------------------------------------------------------------------------
CoordinatorTypeOK ==
    /\ TypeOK
    /\ RegistryTypeOK
    /\ claimant \in [DOMAIN attempts -> Session]
    /\ drained \subseteq DOMAIN workers

(* From the moment an operator drains a worker until another process takes *)
(* its id, it gets no new attempt: silence, death, a heartbeat and a       *)
(* repeated registration in between change nothing (ADR 009).              *)
DrainedGetsNoWork ==
    [][ \A c \in DOMAIN attempts' :
            c \notin DOMAIN attempts => attempts'[c].worker \notin drained ]_coordinatorVars

(* The unfinished attempts of a worker's current process sit in slots that *)
(* process has, at most as many as its capacity, and run tasks it knows;   *)
(* what it inherits from a process it replaced need not.                   *)
PlacementFits ==
    \A w \in DOMAIN workers :
        LET mine == { c \in Unfinished :
                        attempts[c].worker = w /\ claimant[c] = workers[w].session_hash }
        IN  /\ Cardinality(mine) <= workers[w].capacity
            /\ \A c \in mine : /\ attempts[c].slot < workers[w].capacity
                               /\ jobs[attempts[c].job].def.task \in workers[w].capabilities

(* A completion is taken only from the process that claimed the attempt    *)
(* while it still owns its worker id; what a replaced process left behind  *)
(* ends by lease expiry (ADR 007).                                         *)
ReplacedProcessIsFenced ==
    [][ \A c \in Unfinished :
            attempts'[c].outcome \in {"SUCCEEDED", "FAILED"} =>
                workers[attempts[c].worker].session_hash = claimant[c] ]_coordinatorVars
=============================================================================
