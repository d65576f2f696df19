----------------------------- MODULE Lifecycle -----------------------------
(***************************************************************************)
(* The job states of GreyQueue and the only changes service.transition     *)
(* lets through (service.py, TERMINAL, ACTIVE, TRANSITIONS).               *)
(***************************************************************************)

(* The row's status column, as the CHECK constraint of table jobs lists it. *)
STATUSES == {"QUEUED", "LEASED", "RUNNING", "SUCCEEDED",
             "FAILED", "CANCELLED", "RETRY_WAIT", "DEAD_LETTER"}

TERMINAL == {"SUCCEEDED", "FAILED", "CANCELLED", "DEAD_LETTER"}

ACTIVE == {"QUEUED", "RETRY_WAIT", "LEASED", "RUNNING"}

(* The states a claim or a cancellation may take a job from. *)
Waiting == {"QUEUED", "RETRY_WAIT"}

(* The states in which some attempt owns the job. *)
Held == {"LEASED", "RUNNING"}

(* The states of a parent that make its children impossible to run. *)
Unsuccessful == TERMINAL \ {"SUCCEEDED"}

(* Mutant: a lease that expires before start cannot be given up for good. *)
TransitionsForgettingDeadLetter ==
    [ s \in STATUSES |->
        CASE s \in Waiting   -> {"LEASED", "CANCELLED"}
          [] s = "LEASED"    -> {"RUNNING", "RETRY_WAIT"}
          [] s = "RUNNING"   -> {"SUCCEEDED", "FAILED", "RETRY_WAIT", "DEAD_LETTER"}
          [] OTHER           -> {} ]

TRANSITIONS ==
    [ s \in STATUSES |->
        CASE s \in Waiting   -> {"LEASED", "CANCELLED"}
          [] s = "LEASED"    -> {"RUNNING", "RETRY_WAIT", "DEAD_LETTER"}
          [] s = "RUNNING"   -> {"SUCCEEDED", "FAILED", "RETRY_WAIT", "DEAD_LETTER"}
          [] OTHER           -> {} ]

(* service.transition raises Conflict, and its caller's transaction rolls  *)
(* back, unless this holds.                                                *)
Allowed(from, to) == to \in TRANSITIONS[from]
=============================================================================
