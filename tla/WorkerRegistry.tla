--------------------------- MODULE WorkerRegistry ---------------------------
(***************************************************************************)
(* Table workers and the transactions that write it: register, heartbeat   *)
(* and drain (api.py) and the failure detector of the maintenance loop     *)
(* (recovery.detect_workers).  A refused request, or a replay with nothing *)
(* to revive, is a stuttering step.  Time is relative, as in JobStore.     *)
(***************************************************************************)
EXTENDS WorkerIds, Integers

CONSTANTS
    Session,        \* sha256 of the session token a worker process draws at its start
    Capacity,       \* the slot counts processes register with
    Capabilities,   \* the task sets they register with
    SuspectAfter, DeadAfter

ASSUME RegistryTiming ==
    /\ SuspectAfter \in Nat /\ DeadAfter \in Nat
    /\ SuspectAfter < DeadAfter             \* config.Settings.timings

ASSUME RegistryCapacity == Capacity \subseteq Nat \ {0}

VARIABLE workers    \* worker id -> row of table workers

State == {"HEALTHY", "SUSPECT", "DEAD", "DRAINING"}

(* silent is now - last_seen, stopping at DeadAfter, past which nothing    *)
(* looks further.                                                          *)
WorkerRow ==
    [ state : State, capacity : Capacity, capabilities : Capabilities,
      session_hash : Session, drain_requested : BOOLEAN, silent : 0 .. DeadAfter ]

RegistryTypeOK ==
    /\ DOMAIN workers \subseteq WorkerId
    /\ workers \in [DOMAIN workers -> WorkerRow]

-----------------------------------------------------------------------------
(* Mutant: the drain request is read off the state, which DEAD has overwritten. *)
ReturnStateByState(row) == IF row.state = "DRAINING" THEN "DRAINING" ELSE "HEALTHY"

(* The state a worker that is heard again comes back to. *)
ReturnState(row) == IF row.drain_requested THEN "DRAINING" ELSE "HEALTHY"

(* api.identity: the row is locked before the session is compared. *)
Identified(w, s) == w \in DOMAIN workers /\ workers[w].session_hash = s

NewRow(s, capacity, capabilities) ==
    [ state |-> "HEALTHY", capacity |-> capacity, capabilities |-> capabilities,
      session_hash |-> s, drain_requested |-> FALSE, silent |-> 0 ]

(* register, first use of the id: the INSERT takes. *)
Register(w, s, capacity, capabilities) ==
    /\ w \notin DOMAIN workers
    /\ workers' = [ v \in DOMAIN workers \cup {w} |->
                        IF v = w THEN NewRow(s, capacity, capabilities) ELSE workers[v] ]

(* register, the same process again: a DEAD worker is revived. *)
RegisterAgain(w, s) ==
    /\ Identified(w, s)
    /\ workers[w].state = "DEAD"
    /\ workers' = [workers EXCEPT ![w].silent = 0, ![w].state = ReturnState(workers[w])]

(* Mutant: a SUSPECT worker's id is given away too. *)
TakeOverSuspect(w, s, capacity, capabilities) ==
    /\ w \in DOMAIN workers
    /\ workers[w].session_hash # s
    /\ workers[w].state \in {"SUSPECT", "DEAD"}
    /\ workers' = [workers EXCEPT ![w] = NewRow(s, capacity, capabilities)]

(* register, another process: it gets the id of a DEAD worker only, and a  *)
(* clean slate with it.                                                    *)
TakeOver(w, s, capacity, capabilities) ==
    /\ w \in DOMAIN workers
    /\ workers[w].session_hash # s
    /\ workers[w].state = "DEAD"            \* else Conflict
    /\ workers' = [workers EXCEPT ![w] = NewRow(s, capacity, capabilities)]

(* Mutant: the worker is seen, and stays condemned. *)
HeartbeatKeepingState(w, s) ==
    Identified(w, s) /\ workers' = [workers EXCEPT ![w].silent = 0]

Heartbeat(w, s) ==
    /\ Identified(w, s)                     \* else 401
    /\ workers' = [workers EXCEPT ![w].silent = 0, ![w].state = ReturnState(workers[w])]

Drain(w) ==
    /\ w \in DOMAIN workers                 \* else 404
    /\ workers[w].state # "DEAD"            \* else Conflict
    /\ workers' = [workers EXCEPT ![w].state = "DRAINING", ![w].drain_requested = TRUE]

-----------------------------------------------------------------------------
(* detect_workers.  SKIP LOCKED: a sweep judges any part W of the overdue. *)
Overdue == { w \in DOMAIN workers :
                workers[w].state # "DEAD" /\ workers[w].silent > SuspectAfter }

(* Mutant: a draining worker is never judged. *)
VerdictSparingDraining(row) ==
    CASE row.state = "DRAINING"   -> row.state
      [] row.state # "DRAINING" /\ row.silent >= DeadAfter -> "DEAD"
      [] OTHER                    -> "SUSPECT"

(* Mutant: draining hides the suspicion, and so the drain, of a worker. *)
VerdictSuspectingDraining(row) == IF row.silent >= DeadAfter THEN "DEAD" ELSE "SUSPECT"

Verdict(row) ==
    CASE row.silent >= DeadAfter  -> "DEAD"
      [] row.silent < DeadAfter /\ row.state = "DRAINING" -> "DRAINING"
      [] OTHER                    -> "SUSPECT"

DetectWorkers(W) ==
    /\ W \subseteq Overdue
    /\ workers' = [ w \in DOMAIN workers |->
                        IF w \in W THEN [workers[w] EXCEPT !.state = Verdict(workers[w])]
                                   ELSE workers[w] ]

RegistryTick ==
    workers' = [ w \in DOMAIN workers |->
                    [workers[w] EXCEPT !.silent = IF @ < DeadAfter THEN @ + 1 ELSE @] ]

-----------------------------------------------------------------------------
RegistryInit == workers = [w \in {} |-> {}]

Registration(w, s) ==
    \/ \E capacity \in Capacity, capabilities \in Capabilities :
            Register(w, s, capacity, capabilities) \/ TakeOver(w, s, capacity, capabilities)
    \/ RegisterAgain(w, s)

RegistryNext ==
    \/ \E w \in WorkerId, s \in Session : Registration(w, s) \/ Heartbeat(w, s)
    \/ \E w \in WorkerId : Drain(w)
    \/ \E W \in SUBSET Overdue : DetectWorkers(W)
    \/ RegistryTick

RegistrySpec == RegistryInit /\ [][RegistryNext]_workers

-----------------------------------------------------------------------------
(* A drained worker is DRAINING or DEAD until a new process takes its id:  *)
(* no heartbeat, replay or sweep brings it back to work (drain, heartbeat, *)
(* register, detect_workers).                                              *)
DrainHolds ==
    \A w \in DOMAIN workers :
        /\ workers[w].drain_requested => workers[w].state \in {"DRAINING", "DEAD"}
        /\ workers[w].state = "DRAINING" => workers[w].drain_requested

(* A worker is condemned only on the silence the configuration names, and  *)
(* whatever is heard of it acquits it in the same step.                    *)
VerdictsAreEarned ==
    \A w \in DOMAIN workers :
        /\ workers[w].state = "DEAD" => workers[w].silent >= DeadAfter
        /\ workers[w].state = "SUSPECT" => workers[w].silent > SuspectAfter

(* An id changes hands only after DeadAfter of silence of its owner, and   *)
(* only that forgets an operator's drain (register).                       *)
IdsChangeHandsOnlyWhenSilent ==
    [][ \A w \in DOMAIN workers :
            LET old == workers[w]
                new == workers'[w]
            IN  /\ new.session_hash # old.session_hash => old.silent >= DeadAfter
                /\ old.drain_requested /\ ~new.drain_requested
                        => new.session_hash # old.session_hash ]_workers

(* Time goes on and each coordinator sweeps for ever. *)
RegistryFairness ==
    /\ WF_workers(RegistryTick)
    /\ \A w \in WorkerId :
        WF_workers(\E W \in SUBSET Overdue : w \in W /\ DetectWorkers(W))

DetectorSpec == RegistrySpec /\ RegistryFairness

(* A worker that falls silent is heard again or found DEAD, draining or    *)
(* not, so that its id can be taken over.                                  *)
SilenceIsNoticed ==
    \A w \in WorkerId :
        (w \in DOMAIN workers /\ workers[w].silent > 0)
            ~> (w \in DOMAIN workers /\ (workers[w].silent = 0 \/ workers[w].state = "DEAD"))
=============================================================================
