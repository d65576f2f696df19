-------------------------- MODULE DashboardProofs ---------------------------
(***************************************************************************)
(* The operations page, for any filters and any number of connections,     *)
(* clicks and answers.  Everything rests on busyGen: it is the present     *)
(* generation just while a refresh of the present connection is in flight. *)
(* So none is sent beside it, and one that the user's filter has overtaken *)
(* finds its page free and is sent again.                                  *)
(***************************************************************************)
EXTENDS Dashboard, TLAPS

PageShape ==
    [ token : BOOLEAN, generation : Nat, busyGen : Int, okGen : Int, again : BOOLEAN,
      filter : Filter ]

ScreenShape ==
    [ status : {"Disconnected", "Connecting", "Connected", "Connection unavailable"},
      stale : BOOLEAN, jobs : {Nothing} \cup [gen : Nat, filter : Filter],
      inspect : {Nothing} \cup Nat ]

RefreshShape == [gen : Nat, filter : Filter, connects : BOOLEAN]

(* The refreshes B in flight and the page p.  The bag is really a set. *)
InFlight(B, p) ==
    /\ DOMAIN B \subseteq RefreshShape
    /\ B = [r \in DOMAIN B |-> 1]
    /\ \A r, q \in DOMAIN B : r.gen = q.gen => r = q
    /\ \A r \in DOMAIN B : r.gen <= p.generation /\ (r.gen = p.generation => p.token)
    /\ p.busyGen <= p.generation
    /\ p.busyGen = p.generation <=> \E r \in DOMAIN B : r.gen = p.generation

(* ScreenIsCurrent, and that what was painted was painted in okGen. *)
Current(s, p, B) ==
    /\ s.inspect \in {Nothing, p.generation}
    /\ s.jobs # Nothing =>
        /\ p.token /\ s.jobs.gen = p.generation /\ p.okGen = p.generation
        /\ s.stale <=> s.status = "Connection unavailable"
        /\ s.jobs.filter # p.filter /\ ~s.stale => \E r \in DOMAIN B : r.gen = p.generation

DashboardInv ==
    /\ page \in PageShape /\ screen \in ScreenShape
    /\ InFlight(refreshes, page)
    /\ Current(screen, page, refreshes)

-----------------------------------------------------------------------------
(***************************************************************************)
(* Bags.                                                                   *)
(***************************************************************************)
LEMMA PlusNothing ==
    ASSUME NEW B, B = [r \in DOMAIN B |-> 1]
    PROVE  B (+) EmptyBag = B
  BY DEF EmptyBag, SetToBag, (+)

LEMMA PlusOne ==
    ASSUME NEW B, B = [r \in DOMAIN B |-> 1], NEW x, x \notin DOMAIN B,
           NEW C, C = B (+) SetToBag({x})
    PROVE  C = [r \in DOMAIN C |-> 1] /\ DOMAIN C = DOMAIN B \cup {x}
  BY DEF SetToBag, (+)

LEMMA MinusOne ==
    ASSUME NEW B, B = [r \in DOMAIN B |-> 1], NEW x \in DOMAIN B,
           NEW C, C = B (-) SetToBag({x})
    PROVE  C = [r \in DOMAIN C |-> 1] /\ DOMAIN C = DOMAIN B \ {x}
  BY DEF SetToBag, (-)

-----------------------------------------------------------------------------
(***************************************************************************)
(* refresh() and the end of a refresh.                                     *)
(***************************************************************************)
LEMMA RefreshedShape ==
    ASSUME NEW p \in PageShape
    PROVE  /\ Refreshed(p) \in PageShape
           /\ Refreshed(p).token = p.token /\ Refreshed(p).generation = p.generation
           /\ Refreshed(p).okGen = p.okGen /\ Refreshed(p).filter = p.filter
           /\ Refreshed(p).busyGen = IF Goes(p) THEN p.generation ELSE p.busyGen
  <1>1. CASE Goes(p)
    <2>1. p.generation \in Int BY DEF PageShape
    <2>2. Refreshed(p) = [p EXCEPT !.busyGen = p.generation, !.again = FALSE] BY <1>1 DEF Refreshed
    <2> QED BY <1>1, <2>1, <2>2 DEF PageShape
  <1>2. CASE ~Goes(p)
    <2>1. (p.again \/ p.token) \in BOOLEAN OBVIOUS
    <2> DEFINE more == p.again \/ p.token
    <2>2. Refreshed(p) = [p EXCEPT !.again = more] BY <1>2 DEF Refreshed
    <2> HIDE DEF more
    <2>3. more \in BOOLEAN BY <2>1 DEF more
    <2> QED BY <1>2, <2>2, <2>3 DEF PageShape
  <1> QED BY <1>1, <1>2

(* refresh() keeps one refresh at a time; with a token there is one now. *)
LEMMA RefreshFlies ==
    ASSUME NEW B, NEW p \in PageShape, InFlight(B, p), NEW connects \in BOOLEAN,
           NEW C, C = B (+) Sent(p, connects)
    PROVE  /\ InFlight(C, Refreshed(p))
           /\ p.token => \E r \in DOMAIN C : r.gen = p.generation
  <1>1. CASE ~Goes(p)
    <2>1. C = B BY <1>1, PlusNothing DEF Sent, InFlight
    <2> QED BY <1>1, <2>1, RefreshedShape DEF InFlight, Goes
  <1>2. CASE Goes(p)
    <2> DEFINE x == [gen |-> p.generation, filter |-> p.filter, connects |-> connects]
    <2>1. x \in RefreshShape /\ x.gen = p.generation BY DEF RefreshShape, PageShape
    <2>2. \A r \in DOMAIN B : r.gen # p.generation BY <1>2 DEF InFlight, Goes
    <2>3. x \notin DOMAIN B BY <2>1, <2>2
    <2>4. C = B (+) SetToBag({x}) BY <1>2 DEF Sent
    <2>5. C = [r \in DOMAIN C |-> 1] /\ DOMAIN C = DOMAIN B \cup {x}
      <3>1. B = [r \in DOMAIN B |-> 1] BY DEF InFlight
      <3> HIDE DEF x
      <3> QED BY <2>3, <2>4, <3>1, PlusOne, Zenon
    <2>6. p.token /\ p.generation \in Nat BY <1>2 DEF Goes, PageShape
    <2> HIDE DEF x
    <2> QED BY <1>2, <2>1, <2>2, <2>5, <2>6, RefreshedShape DEF InFlight, RefreshShape
  <1> QED BY <1>1, <1>2

(* InFlight asks for three fields of the page. *)
LEMMA SameFlight ==
    ASSUME NEW B, NEW p, NEW q, InFlight(B, p), q.token = p.token,
           q.generation = p.generation, q.busyGen = p.busyGen
    PROVE  InFlight(B, q)
  BY DEF InFlight

(* Every new generation begins with nothing in flight. *)
LEMMA NextGeneration ==
    ASSUME NEW B, NEW p \in PageShape, NEW q \in PageShape, InFlight(B, p),
           q.generation = p.generation + 1, q.busyGen = p.busyGen
    PROVE  InFlight(B, q) /\ ~ \E r \in DOMAIN B : r.gen = q.generation
  BY DEF InFlight, RefreshShape, PageShape

LEMMA FreedShape ==
    ASSUME NEW p \in PageShape, NEW r
    PROVE  /\ Freed(p, r) \in PageShape
           /\ Freed(p, r).token = p.token /\ Freed(p, r).generation = p.generation
           /\ Freed(p, r).okGen = p.okGen /\ Freed(p, r).filter = p.filter
           /\ Freed(p, r).again = p.again
           /\ Freed(p, r).busyGen = IF p.busyGen = r.gen THEN -1 ELSE p.busyGen
  BY DEF Freed, PageShape

LEMMA FreedFlies ==
    ASSUME NEW B, NEW p \in PageShape, InFlight(B, p), NEW r \in DOMAIN B,
           NEW C, C = B (-) SetToBag({r})
    PROVE  InFlight(C, Freed(p, r)) /\ DOMAIN C = DOMAIN B \ {r}
  <1>1. C = [q \in DOMAIN C |-> 1] /\ DOMAIN C = DOMAIN B \ {r}
    <2>1. B = [q \in DOMAIN B |-> 1] BY DEF InFlight
    <2> QED BY <2>1 DEF SetToBag, (-)
  <1>2. p.generation \in Nat /\ r.gen \in Nat /\ p.busyGen \in Int
    BY DEF InFlight, RefreshShape, PageShape
  <1> DEFINE f == Freed(p, r)
  <1>3. /\ f.token = p.token /\ f.generation = p.generation
        /\ f.busyGen = IF p.busyGen = r.gen THEN -1 ELSE p.busyGen
    BY FreedShape
  <1> HIDE DEF f
  <1>4. f.busyGen <= f.generation BY <1>2, <1>3 DEF InFlight
  <1>5. ASSUME f.busyGen = f.generation PROVE \E q \in DOMAIN C : q.gen = f.generation
    <2>1. p.busyGen = p.generation /\ p.busyGen # r.gen BY <1>2, <1>3, <1>5
    <2>2. PICK q \in DOMAIN B : q.gen = p.generation BY <2>1 DEF InFlight
    <2> QED BY <1>1, <1>3, <2>1, <2>2
  <1>6. ASSUME NEW q \in DOMAIN C, q.gen = f.generation PROVE f.busyGen = f.generation
    <2>1. q \in DOMAIN B /\ q # r /\ q.gen = p.generation BY <1>1, <1>3, <1>6
    <2>2. p.busyGen = p.generation /\ q.gen # r.gen BY <2>1 DEF InFlight
    <2> QED BY <1>3, <2>1, <2>2
  <1>7. InFlight(C, f) BY <1>1, <1>3, <1>4, <1>5, <1>6 DEF InFlight
  <1> QED BY <1>1, <1>7 DEF f

(* The finally clause: whoever waited for the refresh is served. *)
LEMMA FinallyFlies ==
    ASSUME NEW B, NEW p \in PageShape, InFlight(B, p), NEW r \in DOMAIN B,
           NEW C, C = (B (-) SetToBag({r})) (+) SentByFinally(p, r)
    PROVE  /\ Finally(p, r) \in PageShape /\ InFlight(C, Finally(p, r))
           /\ Finally(p, r).token = p.token /\ Finally(p, r).generation = p.generation
           /\ Finally(p, r).okGen = p.okGen /\ Finally(p, r).filter = p.filter
           /\ r.gen = p.generation /\ p.again => \E q \in DOMAIN C : q.gen = p.generation
           /\ r.gen # p.generation =>
                \A q \in DOMAIN B : q.gen = p.generation => q \in DOMAIN C
  <1> DEFINE A == B (-) SetToBag({r})
             f == Freed(p, r)
             g == [f EXCEPT !.again = FALSE]
  <1>1. /\ f \in PageShape /\ f.token = p.token /\ f.generation = p.generation
        /\ f.okGen = p.okGen /\ f.filter = p.filter /\ f.again = p.again
    BY FreedShape
  <1>2. InFlight(A, f) /\ DOMAIN A = DOMAIN B \ {r} BY FreedFlies
  <1>3. CASE ~(p.again /\ p.generation = r.gen)
    <2>1. Finally(p, r) = f /\ SentByFinally(p, r) = EmptyBag
      BY <1>1, <1>3 DEF Finally, SentByFinally
    <2>2. C = A BY <1>2, <2>1, PlusNothing DEF InFlight
    <2> HIDE DEF A, f
    <2> QED BY <1>1, <1>2, <1>3, <2>1, <2>2
  <1>4. CASE p.again /\ p.generation = r.gen
    <2>1. Finally(p, r) = Refreshed(g) /\ SentByFinally(p, r) = Sent(f, FALSE)
      BY <1>1, <1>4 DEF Finally, SentByFinally
    <2>2. /\ g \in PageShape /\ g.token = f.token /\ g.generation = f.generation
          /\ g.okGen = f.okGen /\ g.filter = f.filter /\ g.busyGen = f.busyGen
      <3> HIDE DEF f
      <3> QED BY <1>1 DEF PageShape
    <2> HIDE DEF g, f
    <2>3. Sent(f, FALSE) = Sent(g, FALSE) BY <2>2 DEF Sent, Goes
    <2>4. C = A (+) Sent(g, FALSE) BY <2>1, <2>3
    <2>5. InFlight(A, g) BY <1>2, <2>2, SameFlight
    <2> HIDE DEF A
    <2>6. InFlight(C, Refreshed(g)) /\ (g.token => \E q \in DOMAIN C : q.gen = g.generation)
      BY <2>2, <2>4, <2>5, RefreshFlies
    <2>7. p.token BY <1>4 DEF InFlight
    <2> QED BY <1>1, <1>4, <2>1, <2>2, <2>6, <2>7, RefreshedShape
  <1> QED BY <1>3, <1>4

-----------------------------------------------------------------------------
(***************************************************************************)
(* Each action keeps the invariant.                                        *)
(***************************************************************************)
LEMMA BlankShape ==
    ASSUME NEW status \in {"Disconnected", "Connecting"}
    PROVE  Blank(status) \in ScreenShape /\ \A p, B : Current(Blank(status), p, B)
  BY DEF Blank, ScreenShape, Current

LEMMA ConnectKeeps ==
    ASSUME DashboardInv, Connect
    PROVE  DashboardInv'
  <1> DEFINE p == [page EXCEPT !.token = TRUE, !.generation = @ + 1]
  <1>1. /\ p \in PageShape /\ p.generation = page.generation + 1 /\ p.busyGen = page.busyGen
    <2> DEFINE g == page.generation + 1
    <2>1. page \in PageShape BY DEF DashboardInv
    <2>2. g \in Nat BY <2>1 DEF PageShape
    <2>3. p = [page EXCEPT !.token = TRUE, !.generation = g] OBVIOUS
    <2> HIDE DEF g, p
    <2>4. p \in PageShape /\ p.generation = g /\ p.busyGen = page.busyGen
      BY <2>1, <2>2, <2>3 DEF PageShape
    <2> QED BY <2>4 DEF g
  <1>2. /\ page' = Refreshed(p) /\ refreshes' = refreshes (+) Sent(p, TRUE)
        /\ screen' = Blank("Connecting")
    BY DEF Connect
  <1> HIDE DEF p
  <1>3. InFlight(refreshes, p) BY <1>1, NextGeneration DEF DashboardInv
  <1>4. InFlight(refreshes', Refreshed(p)) BY <1>1, <1>2, <1>3, RefreshFlies
  <1>5. Refreshed(p) \in PageShape BY <1>1, RefreshedShape
  <1> QED BY <1>2, <1>4, <1>5, BlankShape DEF DashboardInv

LEMMA LeftShape ==
    ASSUME NEW p \in PageShape
    PROVE  /\ Left(p) \in PageShape /\ Left(p).generation = p.generation + 1
           /\ Left(p).busyGen = p.busyGen
  <1> DEFINE g == p.generation + 1
  <1>1. g \in Nat BY DEF PageShape
  <1>2. Left(p) = [p EXCEPT !.token = FALSE, !.generation = g] BY DEF Left
  <1> HIDE DEF g
  <1>3. Left(p) \in PageShape /\ Left(p).generation = g /\ Left(p).busyGen = p.busyGen
    BY <1>1, <1>2 DEF PageShape
  <1> QED BY <1>3 DEF g

LEMMA DisconnectKeeps ==
    ASSUME DashboardInv, Disconnect
    PROVE  DashboardInv'
  <1>1. page' = Left(page) /\ refreshes' = refreshes /\ screen' = Blank("Disconnected")
    BY DEF Disconnect
  <1>2. page' \in PageShape /\ InFlight(refreshes, page')
    BY <1>1, LeftShape, NextGeneration DEF DashboardInv
  <1> QED BY <1>1, <1>2, BlankShape DEF DashboardInv

LEMMA RefreshWithKeeps ==
    ASSUME DashboardInv, NEW f \in Filter, RefreshWith(f), screen' = screen
    PROVE  DashboardInv'
  <1> DEFINE p == [page EXCEPT !.filter = f]
  <1>1. /\ p \in PageShape /\ p.generation = page.generation /\ p.busyGen = page.busyGen
        /\ p.token = page.token /\ p.okGen = page.okGen /\ p.filter = f
    BY DEF DashboardInv, PageShape
  <1>2. page' = Refreshed(p) /\ refreshes' = refreshes (+) Sent(p, FALSE)
    BY DEF RefreshWith
  <1> HIDE DEF p
  <1>3. InFlight(refreshes, p) BY <1>1, SameFlight DEF DashboardInv
  <1>4. /\ InFlight(refreshes', page')
        /\ p.token => \E r \in DOMAIN refreshes' : r.gen = p.generation
    BY <1>1, <1>2, <1>3, RefreshFlies
  <1>5. /\ page' \in PageShape /\ page'.generation = page.generation
        /\ page'.token = page.token /\ page'.okGen = page.okGen
    BY <1>1, <1>2, RefreshedShape
  <1>6. Current(screen, page', refreshes')
    BY <1>1, <1>4, <1>5 DEF DashboardInv, Current
  <1> QED BY <1>4, <1>5, <1>6 DEF DashboardInv

(* What the rest of a callback leaves of page and panels, p and s, is made *)
(* good by its finally clause: jobs of another filter are fetched again.   *)
LEMMA EndsKeeps ==
    ASSUME DashboardInv, NEW r \in DOMAIN refreshes, NEW p \in PageShape, NEW s \in ScreenShape,
           NEW t, Ends(r, p, s, t), InFlight(refreshes, p), Current(s, p, refreshes),
           s.jobs # Nothing /\ s.jobs.filter # p.filter /\ ~s.stale /\ r.gen = p.generation
             => p.again
    PROVE  DashboardInv'
  <1>1. /\ page' = Finally(p, r) /\ screen' = s
        /\ refreshes' = (refreshes (-) SetToBag({r})) (+) SentByFinally(p, r)
    BY DEF Ends
  <1>2. /\ page' \in PageShape /\ InFlight(refreshes', page')
        /\ page'.token = p.token /\ page'.generation = p.generation
        /\ page'.okGen = p.okGen /\ page'.filter = p.filter
        /\ r.gen = p.generation /\ p.again => \E q \in DOMAIN refreshes' : q.gen = p.generation
        /\ r.gen # p.generation =>
             \A q \in DOMAIN refreshes : q.gen = p.generation => q \in DOMAIN refreshes'
    BY <1>1, FinallyFlies
  <1>3. Current(s, page', refreshes')
    BY <1>2 DEF Current
  <1> QED BY <1>1, <1>2, <1>3 DEF DashboardInv

LEMMA AnsweredKeeps ==
    ASSUME DashboardInv, NEW r \in DOMAIN refreshes, Answered(r)
    PROVE  DashboardInv'
  <1>0. /\ page \in PageShape /\ screen \in ScreenShape /\ r \in RefreshShape
        /\ InFlight(refreshes, page) /\ Current(screen, page, refreshes)
    BY DEF DashboardInv, InFlight
  <1>1. CASE Paints(r)
    <2> DEFINE p == [page EXCEPT !.okGen = r.gen]
               s == [screen EXCEPT !.status = "Connected", !.stale = FALSE,
                                   !.jobs = [gen |-> r.gen, filter |-> r.filter]]
    <2>1. Ends(r, p, s, timers) BY <1>1 DEF Answered
    <2>2. /\ p \in PageShape /\ p.token = page.token /\ p.generation = page.generation
          /\ p.busyGen = page.busyGen /\ p.okGen = r.gen /\ p.filter = page.filter
      BY <1>0 DEF PageShape, RefreshShape
    <2>3. /\ s \in ScreenShape /\ s.inspect = screen.inspect /\ s.status = "Connected"
          /\ s.stale = FALSE /\ s.jobs = [gen |-> r.gen, filter |-> r.filter]
      BY <1>0 DEF ScreenShape, RefreshShape
    <2>4. r.gen = page.generation /\ r.filter = page.filter /\ page.token
      BY <1>0, <1>1 DEF Paints, InFlight
    <2> HIDE DEF p, s
    <2>5. s.jobs.gen = r.gen /\ s.jobs.filter = r.filter BY <2>3
    <2>6. InFlight(refreshes, p) BY <1>0, <2>2, SameFlight
    <2>7. Current(s, p, refreshes) BY <1>0, <2>2, <2>3, <2>4, <2>5 DEF Current
    <2> QED BY <2>1, <2>2, <2>3, <2>4, <2>5, <2>6, <2>7, EndsKeeps
  <1>2. CASE ~Paints(r)
    <2> DEFINE more == page.again \/ page.generation = r.gen
               p == [page EXCEPT !.again = more]
    <2>1. Ends(r, p, screen, timers) BY <1>2 DEF Answered
    <2>2. more \in BOOLEAN BY <1>0 DEF PageShape
    <2>3. r.gen = page.generation => more OBVIOUS
    <2> HIDE DEF more
    <2>4. /\ p \in PageShape /\ p.token = page.token /\ p.generation = page.generation
          /\ p.busyGen = page.busyGen /\ p.okGen = page.okGen /\ p.filter = page.filter
          /\ p.again = more
      BY <1>0, <2>2 DEF PageShape
    <2> HIDE DEF p
    <2>5. InFlight(refreshes, p) BY <1>0, <2>4, SameFlight
    <2>6. Current(screen, p, refreshes) BY <1>0, <2>4 DEF Current
    <2> QED BY <1>0, <2>1, <2>3, <2>4, <2>5, <2>6, EndsKeeps
  <1> QED BY <1>1, <1>2

LEMMA RejectedKeeps ==
    ASSUME DashboardInv, NEW r \in DOMAIN refreshes, Rejected(r)
    PROVE  DashboardInv'
  <1> DEFINE p == Left(page)
             s == Blank("Disconnected")
  <1>1. Ends(r, p, s, Cleared(timers)) BY DEF Rejected
  <1>2. p \in PageShape /\ InFlight(refreshes, p)
    BY LeftShape, NextGeneration DEF DashboardInv
  <1>3. s \in ScreenShape /\ Current(s, p, refreshes) /\ s.jobs = Nothing
    BY BlankShape DEF Blank
  <1> HIDE DEF p, s
  <1> QED BY <1>1, <1>2, <1>3, EndsKeeps

(* Jobs that are shown were painted in this connection, so they are stale. *)
LEMMA FailedKeeps ==
    ASSUME DashboardInv, NEW r \in DOMAIN refreshes, Failed(r)
    PROVE  DashboardInv'
  <1>0. /\ page \in PageShape /\ screen \in ScreenShape
        /\ InFlight(refreshes, page) /\ Current(screen, page, refreshes)
    BY DEF DashboardInv
  <1>1. CASE page.generation # r.gen
    <2>1. Ends(r, page, screen, timers) BY <1>1 DEF Failed
    <2> QED BY <1>0, <1>1, <2>1, EndsKeeps
  <1>2. CASE page.generation = r.gen
    <2> DEFINE late == screen.stale \/ page.okGen = r.gen
               s == [screen EXCEPT !.status = "Connection unavailable", !.stale = late]
    <2>1. Ends(r, page, s, timers) BY <1>2 DEF Failed
    <2>2. late \in BOOLEAN BY <1>0 DEF ScreenShape
    <2>3. screen.jobs # Nothing => late BY <1>0, <1>2 DEF Current
    <2> HIDE DEF late
    <2>4. /\ s \in ScreenShape /\ s.inspect = screen.inspect /\ s.jobs = screen.jobs
          /\ s.status = "Connection unavailable" /\ s.stale = late
      BY <1>0, <2>2 DEF ScreenShape
    <2> HIDE DEF s
    <2>5. Current(s, page, refreshes) BY <1>0, <2>2, <2>3, <2>4 DEF Current
    <2> QED BY <1>0, <2>1, <2>3, <2>4, <2>5, EndsKeeps
  <1> QED BY <1>1, <1>2

LEMMA UnseenKeeps ==
    ASSUME DashboardInv, UNCHANGED <<page, screen, refreshes>>
    PROVE  DashboardInv'
  BY DEF DashboardInv

LEMMA CallSucceedsKeeps ==
    ASSUME DashboardInv, NEW c, CallSucceeds(c)
    PROVE  DashboardInv'
  <1>0. page \in PageShape /\ screen \in ScreenShape BY DEF DashboardInv
  <1>1. CASE UNCHANGED <<page, screen, refreshes>> BY <1>1, UnseenKeeps
  <1>2. CASE RefreshWith(page.filter) /\ screen' = screen
    BY <1>0, <1>2, RefreshWithKeeps DEF PageShape
  <1>3. CASE /\ c.gen = page.generation
             /\ screen' = [screen EXCEPT !.inspect = c.gen] /\ UNCHANGED <<page, refreshes>>
    <2>1. /\ screen' \in ScreenShape /\ screen'.inspect = page.generation
          /\ screen'.jobs = screen.jobs /\ screen'.status = screen.status
          /\ screen'.stale = screen.stale
      BY <1>0, <1>3 DEF ScreenShape, PageShape
    <2> QED BY <1>3, <2>1 DEF DashboardInv, Current
  <1> QED BY <1>1, <1>2, <1>3 DEF CallSucceeds

LEMMA DashboardStep ==
    ASSUME DashboardInv, [Next]_vars
    PROVE  DashboardInv'
  <1>0. page.filter \in Filter BY DEF DashboardInv, PageShape
  <1>1. CASE Connect BY <1>1, ConnectKeeps
  <1>2. CASE Disconnect BY <1>2, DisconnectKeeps
  <1>3. CASE TimerFires BY <1>0, <1>3, RefreshWithKeeps DEF TimerFires
  <1>4. CASE Submit BY <1>4, UnseenKeeps DEF Submit, Asks
  <1>5. ASSUME NEW f \in Filter, ChangeFilter(f) PROVE DashboardInv'
    BY <1>5, RefreshWithKeeps DEF ChangeFilter
  <1>6. ASSUME NEW kind, Click(kind) PROVE DashboardInv'
    BY <1>6, UnseenKeeps DEF Click, Asks
  <1>7. ASSUME NEW r \in BagToSet(refreshes), RefreshEnds(r) PROVE DashboardInv'
    <2>1. r \in DOMAIN refreshes BY DEF BagToSet
    <2> QED BY <1>7, <2>1, AnsweredKeeps, RejectedKeeps, FailedKeeps DEF RefreshEnds
  <1>8. ASSUME NEW c, CallSucceeds(c) PROVE DashboardInv' BY <1>8, CallSucceedsKeeps
  <1>9. ASSUME NEW c, CallFails(c) PROVE DashboardInv' BY <1>9, UnseenKeeps DEF CallFails
  <1>10. CASE UNCHANGED vars BY <1>10, UnseenKeeps DEF vars
  <1> QED BY <1>1, <1>2, <1>3, <1>4, <1>5, <1>6, <1>7, <1>8, <1>9, <1>10 DEF Next

LEMMA DashboardInitially == Init => DashboardInv
  <1> SUFFICES ASSUME Init PROVE DashboardInv OBVIOUS
  <1>1. /\ page \in PageShape /\ page.generation = 0 /\ page.busyGen = -1
    <2>1. {FALSE} \subseteq BOOLEAN /\ {0} \subseteq Nat /\ {-1} \subseteq Int OBVIOUS
    <2> QED BY <2>1 DEF Init, PageShape
  <1>2. refreshes = [r \in {} |-> 1] /\ screen = Blank("Disconnected")
    BY DEF Init, EmptyBag, SetToBag
  <1>3. InFlight(refreshes, page) BY <1>1, <1>2 DEF InFlight
  <1> QED BY <1>1, <1>2, <1>3, BlankShape DEF DashboardInv

LEMMA DashboardAlways == Spec => []DashboardInv
  BY DashboardInitially, DashboardStep, PTL DEF Spec

(***************************************************************************)
(* The panels show what the present connection fetched, whichever answers  *)
(* of earlier ones come late; old figures are marked stale; and jobs of    *)
(* another filter are shown only while a refresh is on its way.            *)
(***************************************************************************)
THEOREM ScreenStaysCurrent == Spec => []ScreenIsCurrent
  <1>1. DashboardInv => ScreenIsCurrent
    BY DEF DashboardInv, Current, ScreenIsCurrent, BagToSet
  <1> QED BY <1>1, DashboardAlways, PTL

(***************************************************************************)
(* However intervals, clicks, filters and reconnections ask for a refresh, *)
(* a connection has one in flight at a time.                               *)
(***************************************************************************)
THEOREM RefreshesNeverOverlap == Spec => []OneRefreshAtATime
  <1>1. DashboardInv => OneRefreshAtATime
    BY DEF DashboardInv, InFlight, OneRefreshAtATime, BagToSet
  <1> QED BY <1>1, DashboardAlways, PTL
=============================================================================
