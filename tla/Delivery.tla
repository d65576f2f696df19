------------------------------ MODULE Delivery ------------------------------
(***************************************************************************)
(* What GreyQueue promises a client about each job, with no tables, leases *)
(* or clocks: a job is handed out at most budget + 1 times, to one holder  *)
(* at a time, only once the job it needs has succeeded; a failed try goes  *)
(* back or ends the job; a job ends once, and its answer never changes.    *)
(* JobStore is shown to implement it.                                      *)
(***************************************************************************)
EXTENDS Naturals

CONSTANTS Job, Answer, None

VARIABLES
    phase,      \* where each job is
    tries,      \* how often it was handed out
    budget,     \* the retries its submission allows
    needs,      \* the job it waits for, or None
    answer      \* the output or error a client reads, or None

vars == <<phase, tries, budget, needs, answer>>

Over == {"succeeded", "failed", "exhausted", "withdrawn"}

(* Submission: nothing was known of the job before. *)
Submit(j) ==
    /\ phase[j] = "absent" /\ phase'[j] = "waiting"
    /\ budget'[j] \in Nat
    /\ needs'[j] # None => phase[needs'[j]] \notin {"absent"} \cup (Over \ {"succeeded"})
    /\ tries'[j] = 0 /\ answer'[j] = None

(* The job goes to a worker. *)
HandOut(j) ==
    /\ phase[j] = "waiting" /\ phase'[j] = "held"
    /\ needs[j] # None => phase[needs[j]] = "succeeded"
    /\ tries[j] <= budget[j] /\ tries'[j] = tries[j] + 1
    /\ budget'[j] = budget[j] /\ needs'[j] = needs[j] /\ answer'[j] = answer[j]

(* The holder failed or was lost, and the budget allows another try. *)
TakeBack(j) ==
    /\ phase[j] = "held" /\ phase'[j] = "waiting"
    /\ tries[j] <= budget[j] /\ tries'[j] = tries[j]
    /\ budget'[j] = budget[j] /\ needs'[j] = needs[j] /\ answer'[j] = answer[j]

(* The holder's last word, or the end of the budget. *)
Conclude(j) ==
    /\ phase[j] = "held" /\ phase'[j] \in {"succeeded", "failed", "exhausted"}
    /\ phase'[j] = "exhausted" => tries[j] > budget[j]
    /\ answer[j] = None /\ answer'[j] \in Answer
    /\ tries'[j] = tries[j] /\ budget'[j] = budget[j] /\ needs'[j] = needs[j]

(* A client cancels, or the job it needs will never succeed. *)
Withdraw(j) ==
    /\ phase[j] = "waiting" /\ phase'[j] = "withdrawn"
    /\ tries'[j] = tries[j] /\ budget'[j] = budget[j]
    /\ needs'[j] = needs[j] /\ answer'[j] = answer[j]

Same(j) ==
    /\ phase'[j] = phase[j] /\ tries'[j] = tries[j] /\ budget'[j] = budget[j]
    /\ needs'[j] = needs[j] /\ answer'[j] = answer[j]

Step(j) == Submit(j) \/ HandOut(j) \/ TakeBack(j) \/ Conclude(j) \/ Withdraw(j)

Init ==
    /\ phase = [j \in Job |-> "absent"]
    /\ tries = [j \in Job |-> 0]
    /\ budget = [j \in Job |-> 0]
    /\ needs = [j \in Job |-> None]
    /\ answer = [j \in Job |-> None]

(* One recovery sweep may move many jobs at once. *)
Next == \A j \in Job : Step(j) \/ Same(j)

Spec == Init /\ [][Next]_vars
=============================================================================
