----------------------------- MODULE Dashboard ------------------------------
(***************************************************************************)
(* The operations page (dashboard/app.js).  JavaScript runs one callback   *)
(* at a time, so an action is what happens between two awaits: the start   *)
(* of a call to the coordinator, or all that follows its answer.  Answers  *)
(* come in any order, and the user clicks between them.                    *)
(*                                                                         *)
(* generation counts connections and disconnections; a callback that finds *)
(* it changed belongs to an earlier connection and must touch nothing.     *)
(***************************************************************************)
EXTENDS Integers, Bags

CONSTANTS
    Filter,         \* the values of the job filter
    Nothing,        \* an empty panel
    MaxGeneration,  \* bound on connections and disconnections
    MaxCalls        \* bound on clicks that wait for an answer

ASSUME DashboardAssumption == MaxGeneration \in Nat /\ MaxCalls \in Nat /\ Nothing \notin Filter

VARIABLES
    page,       \* the script's variables, and the chosen filter
    screen,     \* what the panels show
    refreshes,  \* the refreshes in flight, a bag
    calls,      \* the clicks and submissions in flight, a bag
    timers      \* the running intervals, and whether timer names one of them

vars == <<page, screen, refreshes, calls, timers>>

Page ==
    [ token : BOOLEAN, generation : 0 .. MaxGeneration, busyGen : -1 .. MaxGeneration,
      okGen : -1 .. MaxGeneration, again : BOOLEAN, filter : Filter ]

(* jobs: the connection and filter the tables were painted for;            *)
(* inspect: the connection the attempt inspector was filled in.            *)
Screen ==
    [ status : {"Disconnected", "Connecting", "Connected", "Connection unavailable"},
      stale : BOOLEAN,
      jobs : {Nothing} \cup [gen : 1 .. MaxGeneration, filter : Filter],
      inspect : {Nothing} \cup 1 .. MaxGeneration ]

(* connects: the refresh the connect form waits for. *)
Refresh == [gen : 1 .. MaxGeneration, filter : Filter, connects : BOOLEAN]

Call == [kind : {"change", "inspect"}, gen : 1 .. MaxGeneration]

DashboardTypeOK ==
    /\ page \in Page /\ screen \in Screen
    /\ BagToSet(refreshes) \subseteq Refresh /\ BagToSet(calls) \subseteq Call
    /\ timers \in [running : Nat, named : BOOLEAN]

-----------------------------------------------------------------------------
(***************************************************************************)
(* refresh(), up to its await, on a page p: what becomes of the page, and  *)
(* the refresh that is now in flight, if any.                              *)
(***************************************************************************)
Goes(p) == p.token /\ p.busyGen # p.generation

Refreshed(p) ==
    IF Goes(p) THEN [p EXCEPT !.busyGen = p.generation, !.again = FALSE]
    ELSE [p EXCEPT !.again = @ \/ p.token]

Sent(p, connects) ==
    IF Goes(p)
    THEN SetToBag({[gen |-> p.generation, filter |-> p.filter, connects |-> connects]})
    ELSE EmptyBag

(* resetPanels *)
Blank(status) == [status |-> status, stale |-> FALSE, jobs |-> Nothing, inspect |-> Nothing]

(* clearInterval(timer) *)
Cleared(t) == IF t.named THEN [running |-> t.running - 1, named |-> FALSE] ELSE t

(* timer = setInterval(refresh, 2000), whatever timer named before. *)
Set(t) == [running |-> t.running + 1, named |-> TRUE]

(* disconnect(): page, panels and timer. *)
Left(p) == [p EXCEPT !.token = FALSE, !.generation = @ + 1]

-----------------------------------------------------------------------------
(* The connect form.  Its interval is set once its refresh is over. *)
Connect ==
    LET p == [page EXCEPT !.token = TRUE, !.generation = @ + 1]
    IN  /\ page.generation + 2 <= MaxGeneration
        /\ page' = Refreshed(p)
        /\ refreshes' = refreshes (+) Sent(p, TRUE)
        /\ screen' = Blank("Connecting")
        /\ timers' = Cleared(timers)
        /\ UNCHANGED calls

(* The disconnect button is enabled while there is a connection. *)
Disconnect ==
    /\ page.token
    /\ page' = Left(page)
    /\ screen' = Blank("Disconnected")
    /\ timers' = Cleared(timers)
    /\ UNCHANGED <<refreshes, calls>>

(* refresh() once more: from an interval, or as the filter changes to f. *)
RefreshWith(f) ==
    LET p == [page EXCEPT !.filter = f]
    IN  page' = Refreshed(p) /\ refreshes' = refreshes (+) Sent(p, FALSE)

ChangeFilter(f) ==
    /\ f # page.filter
    /\ RefreshWith(f)
    /\ UNCHANGED <<screen, calls, timers>>

TimerFires ==
    /\ timers.running > 0
    /\ RefreshWith(page.filter)
    /\ UNCHANGED <<screen, calls, timers>>

-----------------------------------------------------------------------------
(***************************************************************************)
(* The answer to a refresh r: the try block, or catch; then finally; then  *)
(* the rest of the connect form, if it waited.                             *)
(***************************************************************************)

(* Mutant: an answer is painted whatever happened to its connection. *)
PaintsLate(r) == page.filter = r.filter

Paints(r) == page.generation = r.gen /\ page.filter = r.filter

(* Mutant: any refresh that ends frees the page. *)
FreedByAny(p, r) == [p EXCEPT !.busyGen = -1]

(* Mutant: a refresh that paints nothing leaves the page busy. *)
FreedByPainting(p, r) == IF p.okGen = r.gen THEN [p EXCEPT !.busyGen = -1] ELSE p

(* finally, on the page p that the rest of the callback leaves. *)
Freed(p, r) == IF p.busyGen = r.gen THEN [p EXCEPT !.busyGen = -1] ELSE p

Finally(p, r) ==
    LET q == Freed(p, r)
    IN  IF q.again /\ q.generation = r.gen THEN Refreshed([q EXCEPT !.again = FALSE]) ELSE q

SentByFinally(p, r) ==
    LET q == Freed(p, r)
    IN  IF q.again /\ q.generation = r.gen THEN Sent(q, FALSE) ELSE EmptyBag

(* What p, the panels s and the timer t become once r is over. *)
Ends(r, p, s, t) ==
    /\ page' = Finally(p, r)
    /\ refreshes' = (refreshes (-) SetToBag({r})) (+) SentByFinally(p, r)
    /\ screen' = s
    /\ timers' = IF r.connects THEN Set(t) ELSE t
    /\ UNCHANGED calls

Answered(r) ==
    IF Paints(r)
    THEN Ends(r, [page EXCEPT !.okGen = r.gen],
              [screen EXCEPT !.status = "Connected", !.stale = FALSE,
                             !.jobs = [gen |-> r.gen, filter |-> r.filter]], timers)
    ELSE Ends(r, [page EXCEPT !.again = @ \/ page.generation = r.gen], screen, timers)

(* 401: the token is given up. *)
Rejected(r) ==
    /\ page.generation = r.gen
    /\ Ends(r, Left(page), Blank("Disconnected"), Cleared(timers))

(* Any other error, or ten seconds without an answer. *)
Failed(r) ==
    LET painted == page.okGen = r.gen
    IN  IF page.generation = r.gen
        THEN Ends(r, page, [screen EXCEPT !.status = "Connection unavailable",
                                          !.stale = @ \/ painted], timers)
        ELSE Ends(r, page, screen, timers)

RefreshEnds(r) == Answered(r) \/ Rejected(r) \/ Failed(r)

-----------------------------------------------------------------------------
(***************************************************************************)
(* Buttons of the rows (Drain, Cancel, Inspect) and the submission form.   *)
(* A button has the generation it was painted in, a submission the one it  *)
(* was sent in.                                                            *)
(***************************************************************************)
Asks(kind, gen) ==
    /\ page.token
    /\ BagCardinality(calls) < MaxCalls
    /\ calls' = calls (+) SetToBag({[kind |-> kind, gen |-> gen]})
    /\ UNCHANGED <<page, screen, refreshes, timers>>

Click(kind) == screen.jobs # Nothing /\ Asks(kind, screen.jobs.gen)

Submit == Asks("change", page.generation)

CallSucceeds(c) ==
    /\ calls' = calls (-) SetToBag({c})
    /\ \/ c.gen # page.generation /\ UNCHANGED <<page, screen, refreshes>>
       \/ /\ c.gen = page.generation /\ c.kind = "change"
          /\ RefreshWith(page.filter) /\ UNCHANGED screen
       \/ /\ c.gen = page.generation /\ c.kind = "inspect"
          /\ screen' = [screen EXCEPT !.inspect = c.gen] /\ UNCHANGED <<page, refreshes>>
    /\ UNCHANGED timers

(* Only the notice tells. *)
CallFails(c) ==
    /\ calls' = calls (-) SetToBag({c})
    /\ UNCHANGED <<page, screen, refreshes, timers>>

-----------------------------------------------------------------------------
Init ==
    /\ page \in [ token : {FALSE}, generation : {0}, busyGen : {-1}, okGen : {-1},
                  again : {FALSE}, filter : Filter ]
    /\ screen = Blank("Disconnected")
    /\ refreshes = EmptyBag /\ calls = EmptyBag
    /\ timers = [running |-> 0, named |-> FALSE]

Next ==
    \/ Connect \/ Disconnect \/ TimerFires \/ Submit
    \/ \E f \in Filter : ChangeFilter(f)
    \/ \E kind \in {"change", "inspect"} : Click(kind)
    \/ \E r \in BagToSet(refreshes) : RefreshEnds(r)
    \/ \E c \in BagToSet(calls) : CallSucceeds(c) \/ CallFails(c)

Spec == Init /\ [][Next]_vars

(* Every request ends, by AbortSignal.timeout at the latest, and intervals *)
(* go on firing.                                                           *)
RefreshOfEnds(g) == \E r \in BagToSet(refreshes) : r.gen = g /\ RefreshEnds(r)

FairSpec ==
    /\ Spec
    /\ WF_vars(TimerFires)
    /\ \A g \in 1 .. MaxGeneration : WF_vars(RefreshOfEnds(g))

-----------------------------------------------------------------------------
(* The panels never show what an earlier connection fetched, answers that  *)
(* overtake each other included; old figures are marked stale; and jobs of *)
(* another filter are shown only while their repaint is on its way.        *)
ScreenIsCurrent ==
    /\ screen.inspect \in {Nothing, page.generation}
    /\ screen.jobs # Nothing =>
        /\ page.token /\ screen.jobs.gen = page.generation
        /\ screen.stale <=> screen.status = "Connection unavailable"
        /\ screen.jobs.filter # page.filter /\ ~screen.stale =>
            \E r \in BagToSet(refreshes) : r.gen = page.generation

(* "one refresh per connection at a time" (refresh), however many clicks,  *)
(* intervals and reconnections ask for one.                                *)
OneRefreshAtATime ==
    \A r, q \in BagToSet(refreshes) : r.gen = q.gen => r = q /\ refreshes[r] = 1

(* When the user leaves the page alone it comes to show the jobs asked     *)
(* for, again and again, or says that it cannot: no order of answers and   *)
(* clicks leaves it busy for ever (busyGen, again).                        *)
ScreenCatchesUp ==
    \A f \in Filter :
        <>[](page.token /\ page.filter = f) =>
            []<>( \/ screen.status = "Connection unavailable"
                  \/ screen.jobs # Nothing /\ screen.jobs.filter = f )
=============================================================================
