--------------------------- MODULE TeamCacheProofs ---------------------------
(***************************************************************************)
(* Proofs about what the application derives from its tables: the cached   *)
(* pages of TeamCache, what they show by Statistics and TeamPages, and the *)
(* recommendation of Formation; for any number of teams, members, matches, *)
(* requests and changes.                                                   *)
(*                                                                         *)
(* What a page owes to the requests in flight is not inductive: the page   *)
(* of a reader that has not stored it yet needs the same promise, and a    *)
(* request has pages to drop only while it drops them.                     *)
(*                                                                         *)
(* What the pages show, and what is recommended, are folds.  That a fold   *)
(* unfolds is proved from the definition by a least counterexample: it is  *)
(* the only function that makes its steps, so it is what steps make of it. *)
(* All that is needed of sums and of folds from the left follows by the    *)
(* same kind of argument, for subsets of a finite set and for prefixes.    *)
(***************************************************************************)
EXTENDS TeamCache, Formation, SequencesExt, FiniteSetTheorems, WellFoundedInduction, TLAPS

-----------------------------------------------------------------------------
(* The cache.                                                               *)

\* the log has a change after which k is dropped, later than from
Missed(k, from, l) == \E i \in from + 1 .. Len(l) : DropsAfter(k, l[i])

ReaderWarned(r) ==
  /\ At(r, "store") /\ ~ req[r].overtaken
  /\ Missed(req[r].page, req[r].from, log)
  => \E s \in Request : Dropping(s, req[r].page)

PageWarned(k) ==
  /\ Present(k) /\ ~ cache[k].overtaken
  /\ Missed(k, cache[k].from, log)
  => \E s \in Request : Dropping(s, k)

PageTimed(k) ==
  Present(k) /\ ~ cache[k].ttl => \E r \in Request : At(r, "ttl") /\ req[r].page = k

DropsInTurn == \A r \in Request : IF At(r, "drop") THEN req[r].todo # <<>> ELSE req[r].todo = <<>>

IInv ==
  /\ TypeOK
  /\ DropsInTurn
  /\ fails = 0 =>
       /\ \A r \in Request : ReaderWarned(r)
       /\ \A k \in Page : PageWarned(k)
       /\ \A k \in Page : PageTimed(k)

-----------------------------------------------------------------------------
(* Constant facts.                                                          *)

LEMMA SomePage == (CHOOSE k \in Page : TRUE) \in Page
<1>1. PICK t \in Team : TRUE
  BY CacheAssumption
<1>2. <<"detail", t>> \in Page
  BY <1>1 DEF Page, PageKind
<1> QED BY <1>2

LEMMA IdleState == Idle \in RequestState /\ Idle.pc = "idle" /\ Idle.todo = <<>>
  BY SomePage DEF Idle, RequestState

\* Nothing is missed by who reads the whole log.
LEMMA NothingMissed ==
  ASSUME NEW k, NEW l \in Seq(Entry)
  PROVE  ~ Missed(k, Len(l), l)
  BY DEF Missed

\* A longer log is missed for what was missed before, or for the last change.
LEMMA MissedLast ==
  ASSUME NEW k, NEW l \in Seq(Entry), NEW e \in Entry, NEW from \in Nat,
         Missed(k, from, Append(l, e))
  PROVE  Missed(k, from, l) \/ DropsAfter(k, e)
<1>1. PICK i \in from + 1 .. Len(l) + 1 : DropsAfter(k, Append(l, e)[i])
  BY DEF Missed
<1>2. CASE i = Len(l) + 1
  BY <1>1, <1>2
<1>3. CASE i # Len(l) + 1
  <2>1. i \in 1 .. Len(l) /\ i \in from + 1 .. Len(l)
    BY <1>3
  <2>2. Append(l, e)[i] = l[i]
    BY <2>1
  <2> QED BY <1>1, <2>1, <2>2 DEF Missed
<1> QED BY <1>2, <1>3

\* A report drops the four pages its team's statistics are on.
LEMMA RecordPagesCover ==
  ASSUME NEW t \in Team
  PROVE  /\ RecordPages(t) \in Seq(Page) /\ RecordPages(t) # <<>>
         /\ \A k \in Page : k[1] \in RecordPage /\ k[2] = t =>
              \E i \in DOMAIN RecordPages(t) : RecordPages(t)[i] = k
<1>1. /\ <<"stats", t>> \in Page /\ <<"topPlayer", t>> \in Page
      /\ <<"cards", t>> \in Page /\ <<"players", t>> \in Page
  BY DEF Page, PageKind, RecordPage
<1>2. RecordPages(t) \in Seq(Page) /\ Len(RecordPages(t)) = 4
  BY <1>1 DEF RecordPages
<1>3. ASSUME NEW k \in Page, k[1] \in RecordPage, k[2] = t
      PROVE  \E i \in DOMAIN RecordPages(t) : RecordPages(t)[i] = k
  <2>1. k = <<k[1], t>>
    BY <1>3 DEF Page
  <2>2. k[1] \in {"stats", "topPlayer", "cards", "players"}
    BY <1>3 DEF RecordPage
  <2> QED BY <2>1, <2>2, <1>2 DEF RecordPages
<1> QED BY <1>2, <1>3

-----------------------------------------------------------------------------
(* Types.                                                                   *)

LEMMA InitTypeOK == Init => TypeOK
  BY CacheAssumption, IdleState DEF Init, TypeOK, CachedPage, NoPage

LEMMA NextTypeOK == TypeOK /\ DropsInTurn /\ [Next]_vars => TypeOK'
<1> SUFFICES ASSUME TypeOK, DropsInTurn, [Next]_vars PROVE TypeOK'
  OBVIOUS
<1> USE DEF TypeOK
<1>a. ASSUME NEW r \in Request, NEW state \in RequestState, Move(r, state)
      PROVE  req' \in [Request -> RequestState]
  BY <1>a DEF Move
<1>b. NoPage \in CachedPage
  BY DEF NoPage, CachedPage
<1>1. ASSUME NEW r \in Request, NEW k \in Visited, ReadMiss(r, k) PROVE TypeOK'
  <2>1. k \in Page /\ Len(log) \in Nat
    BY CacheAssumption
  <2>2. [Idle EXCEPT !.pc = "store", !.page = k, !.from = Len(log)] \in RequestState
    BY IdleState, <2>1 DEF RequestState
  <2> QED BY <2>2, <1>1, <1>a DEF ReadMiss
<1>2. ASSUME NEW r \in Request, StorePage(r) PROVE TypeOK'
  <2>1. /\ req[r].page \in Page /\ req[r].from \in Nat /\ req[r].overtaken \in BOOLEAN
    BY DEF RequestState
  <2>2. [Idle EXCEPT !.pc = "ttl", !.page = req[r].page] \in RequestState
    BY IdleState, <2>1 DEF RequestState
  <2>3. [stored |-> TRUE, from |-> req[r].from, ttl |-> FALSE, overtaken |-> req[r].overtaken]
          \in CachedPage
    BY <2>1 DEF CachedPage
  <2> QED BY <2>1, <2>2, <2>3, <1>2, <1>a DEF StorePage
<1>3. ASSUME NEW r \in Request, SetTtl(r) PROVE TypeOK'
  <2>1. \A k \in Page : [cache EXCEPT ![k].ttl = TRUE] \in [Page -> CachedPage]
    BY DEF CachedPage
  <2>2. req[r].page \in Page
    BY DEF RequestState
  <2>3. cache' \in [Page -> CachedPage]
    BY <2>1, <2>2, <1>3 DEF SetTtl
  <2>4. req' \in [Request -> RequestState]
    BY IdleState, <1>3, <1>a DEF SetTtl
  <2> QED BY <2>3, <2>4, <1>3 DEF SetTtl
<1>4. ASSUME NEW r \in Request, NEW t \in Team, UpdateTeam(r, t) PROVE TypeOK'
  <2>1. [kind |-> "update", team |-> t] \in Entry
    BY DEF Entry
  <2>2. <<<<"detail", t>>>> \in Seq(Page)
    BY DEF Page, PageKind
  <2>3. [Idle EXCEPT !.pc = "drop", !.todo = <<<<"detail", t>>>>] \in RequestState
    BY IdleState, <2>2 DEF RequestState
  <2> QED BY <2>1, <2>3, <1>4, <1>a DEF UpdateTeam, Commit, DropAll
<1>5. ASSUME NEW r \in Request, NEW t \in Team, NEW m \in Open, NEW lineup \in Lineups[t],
             Report(r, t, m, lineup)
      PROVE TypeOK'
  <2>1. [kind |-> "report", team |-> t, match |-> m, lineup |-> lineup] \in Entry
    BY CacheAssumption DEF Entry
  <2>2. [Idle EXCEPT !.pc = "drop", !.todo = RecordPages(t)] \in RequestState
    BY IdleState, RecordPagesCover DEF RequestState
  <2> QED BY <2>1, <2>2, <1>5, <1>a DEF Report, Commit, DropAll
<1>6. ASSUME NEW r \in Request, DropPage(r) PROVE TypeOK'
  <2>1. req[r].todo \in Seq(Page) /\ req[r].todo # <<>>
    BY <1>6 DEF RequestState, DropsInTurn, DropPage
  <2>2. Head(req[r].todo) \in Page /\ Tail(req[r].todo) \in Seq(Page)
    BY <2>1
  <2>3. Overtaken(Head(req[r].todo)) \in [Request -> RequestState]
    BY DEF Overtaken, RequestState
  <2>4. [req[r] EXCEPT !.todo = Tail(req[r].todo)] \in RequestState
    BY <2>2 DEF RequestState
  <2>5. req' \in [Request -> RequestState]
    BY <2>3, <2>4, IdleState, <1>6 DEF DropPage
  <2> QED BY <2>2, <2>5, <1>b, <1>6 DEF DropPage
<1>7. ASSUME NEW r \in Request, Fail(r) PROVE TypeOK'
  <2>1. fails' \in 0 .. MaxFails
    BY CacheAssumption, <1>7 DEF Fail
  <2> QED BY <2>1, IdleState, <1>7, <1>a DEF Fail
<1>8. ASSUME NEW k \in Page, Expire(k) PROVE TypeOK'
  BY <1>8, <1>b DEF Expire
<1>9. ASSUME NEW t \in Team, CreateTeam(t) \/ DeleteTeam(t) PROVE TypeOK'
  <2>1. [kind |-> "create", team |-> t] \in Entry /\ [kind |-> "delete", team |-> t] \in Entry
    BY DEF Entry
  <2>2. log' \in Seq(Entry) /\ UNCHANGED <<cache, req, fails>>
    <3>1. CASE CreateTeam(t)
      BY <2>1, <3>1 DEF CreateTeam, Commit
    <3>2. CASE DeleteTeam(t)
      BY <2>1, <3>2 DEF DeleteTeam, Commit
    <3> QED BY <1>9, <3>1, <3>2
  <2> QED BY <2>2
<1>10. ASSUME NEW p \in Member, ExpulsionMember(p) PROVE TypeOK'
  <2>1. [kind |-> "expel", member |-> p] \in Entry
    BY DEF Entry
  <2> QED BY <2>1, <1>10 DEF ExpulsionMember, Commit
<1>11. CASE UNCHANGED vars
  BY <1>11 DEF vars
<1>12. CASE \E r \in Request : Handle(r) \/ Fail(r)
  BY <1>12, <1>2, <1>3, <1>6, <1>7 DEF Handle
<1> QED BY <1>1, <1>4, <1>5, <1>8, <1>9, <1>10, <1>11, <1>12 DEF Next

-----------------------------------------------------------------------------
(* Preservation of the promises, action by action.                          *)

\* A change that is committed is missed only by pages and readers of pages that
\* some request is about to drop.
LEMMA CommitWarns ==
  ASSUME TypeOK, NEW e \in Entry, log' = Append(log, e), UNCHANGED <<cache, fails>>,
         \A k \in Page : DropsAfter(k, e) => \E s \in Request : Dropping(s, k)',
         \A k \in Page, s \in Request : Dropping(s, k) => Dropping(s, k)',
         \A s \in Request : At(s, "store")' => req'[s] = req[s],
         \A s \in Request : At(s, "ttl") => req'[s] = req[s],
         fails = 0 => /\ \A r \in Request : ReaderWarned(r)
                      /\ \A k \in Page : PageWarned(k)
                      /\ \A k \in Page : PageTimed(k)
  PROVE  fails' = 0 => /\ \A r \in Request : ReaderWarned(r)'
                       /\ \A k \in Page : PageWarned(k)'
                       /\ \A k \in Page : PageTimed(k)'
<1> SUFFICES ASSUME fails = 0
    PROVE  /\ \A r \in Request : ReaderWarned(r)'
           /\ \A k \in Page : PageWarned(k)'
           /\ \A k \in Page : PageTimed(k)'
  OBVIOUS
<1>a. log \in Seq(Entry)
  BY DEF TypeOK
<1>1. ASSUME NEW r \in Request, At(r, "store")', ~ req'[r].overtaken,
             Missed(req'[r].page, req'[r].from, log')
      PROVE  \E s \in Request : Dropping(s, req[r].page)'
  <2>1. req'[r] = req[r] /\ req[r].page \in Page /\ req[r].from \in Nat
    BY <1>1 DEF TypeOK, RequestState
  <2>2. Missed(req[r].page, req[r].from, log) \/ DropsAfter(req[r].page, e)
    BY <1>1, <1>a, <2>1, MissedLast
  <2>3. CASE Missed(req[r].page, req[r].from, log)
    <3>1. ReaderWarned(r) /\ At(r, "store") /\ ~ req[r].overtaken
      BY <1>1, <2>1 DEF At
    <3>2. PICK s \in Request : Dropping(s, req[r].page)
      BY <3>1, <2>3 DEF ReaderWarned
    <3>3. Dropping(s, req[r].page)'
      BY <3>2, <2>1 DEF Dropping
    <3> QED BY <3>3
  <2>4. CASE DropsAfter(req[r].page, e)
    <3>1. PICK s \in Request : Dropping(s, req[r].page)'
      BY <2>4, <2>1 DEF Dropping
    <3> QED BY <3>1
  <2> QED BY <2>2, <2>3, <2>4
<1>2. ASSUME NEW k \in Page, Present(k), ~ cache[k].overtaken,
             Missed(k, cache[k].from, log')
      PROVE  \E s \in Request : Dropping(s, k)'
  <2>1. cache[k].from \in Nat
    BY DEF TypeOK, CachedPage
  <2>2. Missed(k, cache[k].from, log) \/ DropsAfter(k, e)
    BY <1>2, <1>a, <2>1, MissedLast
  <2>3. CASE Missed(k, cache[k].from, log)
    <3>1. PICK s \in Request : Dropping(s, k)
      BY <1>2, <2>3 DEF PageWarned
    <3> QED BY <3>1
  <2> QED BY <2>2, <2>3
<1>3. ASSUME NEW k \in Page, Present(k), ~ cache[k].ttl
      PROVE  \E s \in Request : At(s, "ttl")' /\ req'[s].page = k
  <2>1. PICK s \in Request : At(s, "ttl") /\ req[s].page = k
    BY <1>3 DEF PageTimed
  <2>2. req'[s] = req[s]
    BY <2>1
  <2> QED BY <2>1, <2>2 DEF At
<1>4. \A r \in Request : ReaderWarned(r)'
  BY <1>1 DEF ReaderWarned
<1>5. \A k \in Page : PageWarned(k)'
  BY <1>2 DEF PageWarned, Present
<1>6. \A k \in Page : PageTimed(k)'
  BY <1>3 DEF PageTimed, Present
<1> QED BY <1>4, <1>5, <1>6

Warned ==
  fails = 0 => /\ \A r \in Request : ReaderWarned(r)
               /\ \A k \in Page : PageWarned(k)
               /\ \A k \in Page : PageTimed(k)

LEMMA IdleDropsNothing ==
  ASSUME NEW r \in Request, TypeOK, DropsInTurn, ~ At(r, "drop"), NEW k
  PROVE  ~ Dropping(r, k)
  BY DEF DropsInTurn, Dropping

LEMMA ReportWarns ==
  ASSUME TypeOK, DropsInTurn, Warned, NEW r \in Request, NEW t \in Team, NEW m \in Open,
         NEW lineup \in Lineups[t], Report(r, t, m, lineup)
  PROVE  Warned'
<1> DEFINE e == [kind |-> "report", team |-> t, match |-> m, lineup |-> lineup]
<1>1. e \in Entry
  BY CacheAssumption DEF Entry
<1>2. req' = [req EXCEPT ![r] = [Idle EXCEPT !.pc = "drop", !.todo = RecordPages(t)]]
  BY DEF Report, DropAll, Move
<1>3. req'[r].pc = "drop" /\ req'[r].todo = RecordPages(t)
  BY <1>2, IdleState DEF TypeOK, RequestState
<1>4. \A s \in Request : s # r => req'[s] = req[s]
  BY <1>2 DEF TypeOK
<1>5. ASSUME NEW k \in Page, DropsAfter(k, e)
      PROVE  \E s \in Request : Dropping(s, k)'
  <2>1. k[1] \in RecordPage /\ k[2] = t
    BY <1>5 DEF DropsAfter
  <2> QED BY <2>1, <1>3, RecordPagesCover DEF Dropping
<1>6. ASSUME NEW k \in Page, NEW s \in Request, Dropping(s, k) PROVE Dropping(s, k)'
  <2>1. s # r
    BY <1>6, IdleDropsNothing DEF Report, At
  <2> QED BY <2>1, <1>4, <1>6 DEF Dropping
<1>7. \A s \in Request : At(s, "store")' => req'[s] = req[s]
  BY <1>3, <1>4 DEF At
<1>8. \A s \in Request : At(s, "ttl") => req'[s] = req[s]
  BY <1>4 DEF At, Report
<1>9. log' = Append(log, e) /\ UNCHANGED <<cache, fails>>
  BY DEF Report, Commit
<1> HIDE DEF e
<1> QED BY <1>1, <1>5, <1>6, <1>7, <1>8, <1>9, CommitWarns DEF Warned

LEMMA UpdateWarns ==
  ASSUME TypeOK, DropsInTurn, Warned, NEW r \in Request, NEW t \in Team, UpdateTeam(r, t)
  PROVE  Warned'
<1> DEFINE e == [kind |-> "update", team |-> t]
<1>1. e \in Entry
  BY DEF Entry
<1>2. req' = [req EXCEPT ![r] = [Idle EXCEPT !.pc = "drop", !.todo = <<<<"detail", t>>>>]]
  BY DEF UpdateTeam, DropAll, Move
<1>3. req'[r].pc = "drop" /\ req'[r].todo = <<<<"detail", t>>>>
  BY <1>2, IdleState DEF TypeOK, RequestState
<1>4. \A s \in Request : s # r => req'[s] = req[s]
  BY <1>2 DEF TypeOK
<1>5. ASSUME NEW k \in Page, DropsAfter(k, e)
      PROVE  \E s \in Request : Dropping(s, k)'
  <2>1. k = <<"detail", t>>
    BY <1>5 DEF DropsAfter, Page
  <2> QED BY <2>1, <1>3 DEF Dropping
<1>6. ASSUME NEW k \in Page, NEW s \in Request, Dropping(s, k) PROVE Dropping(s, k)'
  <2>1. s # r
    BY <1>6, IdleDropsNothing DEF UpdateTeam, At
  <2> QED BY <2>1, <1>4, <1>6 DEF Dropping
<1>7. \A s \in Request : At(s, "store")' => req'[s] = req[s]
  BY <1>3, <1>4 DEF At
<1>8. \A s \in Request : At(s, "ttl") => req'[s] = req[s]
  BY <1>4 DEF At, UpdateTeam
<1>9. log' = Append(log, e) /\ UNCHANGED <<cache, fails>>
  BY DEF UpdateTeam, Commit
<1> HIDE DEF e
<1> QED BY <1>1, <1>5, <1>6, <1>7, <1>8, <1>9, CommitWarns DEF Warned

\* The other changes drop no page, and none needs to.
LEMMA QuietChangeWarns ==
  ASSUME TypeOK, Warned, NEW e \in Entry, e.kind \notin {"report", "update"},
         log' = Append(log, e), UNCHANGED <<cache, req, fails>>
  PROVE  Warned'
<1>1. \A k \in Page : ~ DropsAfter(k, e)
  BY DEF DropsAfter
<1>2. \A k \in Page, s \in Request : Dropping(s, k) => Dropping(s, k)'
  BY DEF Dropping
<1> QED BY <1>1, <1>2, CommitWarns DEF Warned

LEMMA ReadWarns ==
  ASSUME TypeOK, DropsInTurn, Warned, NEW r \in Request, NEW k \in Visited, ReadMiss(r, k)
  PROVE  Warned'
<1> SUFFICES ASSUME fails = 0
    PROVE  /\ \A s \in Request : ReaderWarned(s)'
           /\ \A l \in Page : PageWarned(l)'
           /\ \A l \in Page : PageTimed(l)'
  BY DEF Warned, ReadMiss
<1>1. req' = [req EXCEPT ![r] = [Idle EXCEPT !.pc = "store", !.page = k, !.from = Len(log)]]
  BY DEF ReadMiss, Move
<1>2. req'[r].page = k /\ req'[r].from = Len(log)
  BY <1>1, IdleState DEF TypeOK, RequestState
<1>3. \A s \in Request : s # r => req'[s] = req[s]
  BY <1>1 DEF TypeOK
<1>4. UNCHANGED <<log, cache, fails>> /\ At(r, "idle")
  BY DEF ReadMiss
<1>5. ASSUME NEW l \in Page, NEW s \in Request, Dropping(s, l) PROVE Dropping(s, l)'
  <2>1. s # r
    BY <1>5, <1>4, IdleDropsNothing DEF At
  <2> QED BY <2>1, <1>3, <1>5 DEF Dropping
<1>6. ASSUME NEW s \in Request PROVE ReaderWarned(s)'
  <2>1. CASE s = r
    BY <2>1, <1>2, <1>4, NothingMissed DEF ReaderWarned, TypeOK
  <2>2. CASE s # r
    <3>1. req[s].page \in Page /\ req'[s] = req[s]
      BY <2>2, <1>3 DEF TypeOK, RequestState
    <3> QED BY <3>1, <1>4, <1>5 DEF ReaderWarned, Warned, At
  <2> QED BY <2>1, <2>2
<1>7. ASSUME NEW l \in Page PROVE PageWarned(l)'
  BY <1>4, <1>5 DEF PageWarned, Warned, Present
<1>8. ASSUME NEW l \in Page PROVE PageTimed(l)'
  BY <1>3, <1>4 DEF PageTimed, Warned, Present, At
<1> QED BY <1>6, <1>7, <1>8

LEMMA StoreWarns ==
  ASSUME TypeOK, DropsInTurn, Warned, NEW r \in Request, StorePage(r)
  PROVE  Warned'
<1> DEFINE q == req[r]
<1> SUFFICES ASSUME fails = 0
    PROVE  /\ \A s \in Request : ReaderWarned(s)'
           /\ \A l \in Page : PageWarned(l)'
           /\ \A l \in Page : PageTimed(l)'
  BY DEF Warned, StorePage
<1>1. req' = [req EXCEPT ![r] = [Idle EXCEPT !.pc = "ttl", !.page = q.page]]
  BY DEF StorePage, Move
<1>2. req'[r].pc = "ttl" /\ req'[r].page = q.page
  BY <1>1, IdleState DEF TypeOK, RequestState
<1>3. \A s \in Request : s # r => req'[s] = req[s]
  BY <1>1 DEF TypeOK
<1>4. UNCHANGED <<log, fails>> /\ At(r, "store") /\ q.page \in Page
  BY DEF StorePage, TypeOK, RequestState
<1>5. cache'[q.page] = [stored |-> TRUE, from |-> q.from, ttl |-> FALSE, overtaken |-> q.overtaken]
  BY <1>4 DEF StorePage, TypeOK
<1>6. \A l \in Page : l # q.page => cache'[l] = cache[l]
  BY DEF StorePage, TypeOK
<1>7. ASSUME NEW l \in Page, NEW s \in Request, Dropping(s, l) PROVE Dropping(s, l)'
  <2>1. s # r
    BY <1>7, <1>4, IdleDropsNothing DEF At
  <2> QED BY <2>1, <1>3, <1>7 DEF Dropping
<1>8. ASSUME NEW s \in Request PROVE ReaderWarned(s)'
  <2>1. CASE s = r
    BY <2>1, <1>2 DEF ReaderWarned, At
  <2>2. CASE s # r
    <3>1. req[s].page \in Page /\ req'[s] = req[s]
      BY <2>2, <1>3 DEF TypeOK, RequestState
    <3> QED BY <3>1, <1>4, <1>7 DEF ReaderWarned, Warned, At
  <2> QED BY <2>1, <2>2
<1>9. ASSUME NEW l \in Page PROVE PageWarned(l)'
  <2>1. CASE l = q.page
    <3>1. ReaderWarned(r)
      BY DEF Warned
    <3> QED BY <3>1, <2>1, <1>4, <1>5, <1>7 DEF PageWarned, ReaderWarned
  <2>2. CASE l # q.page
    BY <2>2, <1>4, <1>6, <1>7 DEF PageWarned, Warned, Present
  <2> QED BY <2>1, <2>2
<1>10. ASSUME NEW l \in Page PROVE PageTimed(l)'
  <2>1. CASE l = q.page
    BY <2>1, <1>2 DEF PageTimed, At
  <2>2. CASE l # q.page
    BY <2>2, <1>3, <1>4, <1>6 DEF PageTimed, Warned, Present, At
  <2> QED BY <2>1, <2>2
<1> QED BY <1>8, <1>9, <1>10

LEMMA TtlWarns ==
  ASSUME TypeOK, DropsInTurn, Warned, NEW r \in Request, SetTtl(r)
  PROVE  Warned'
<1> DEFINE k == req[r].page
<1> SUFFICES ASSUME fails = 0
    PROVE  /\ \A s \in Request : ReaderWarned(s)'
           /\ \A l \in Page : PageWarned(l)'
           /\ \A l \in Page : PageTimed(l)'
  BY DEF Warned, SetTtl
<1>1. req' = [req EXCEPT ![r] = Idle]
  BY DEF SetTtl, Move
<1>2. req'[r].pc = "idle"
  BY <1>1, IdleState DEF TypeOK
<1>3. \A s \in Request : s # r => req'[s] = req[s]
  BY <1>1 DEF TypeOK
<1>4. UNCHANGED <<log, fails>> /\ At(r, "ttl") /\ k \in Page
  BY DEF SetTtl, TypeOK, RequestState
<1>5. \A l \in Page : /\ cache'[l].stored = cache[l].stored /\ cache'[l].from = cache[l].from
                      /\ cache'[l].overtaken = cache[l].overtaken
                      /\ l # k => cache'[l].ttl = cache[l].ttl
                      /\ l = k /\ cache[l].stored => cache'[l].ttl
  <2>1. CASE cache[k].stored
    <3>1. cache' = [cache EXCEPT ![k].ttl = TRUE]
      BY <2>1 DEF SetTtl, Present
    <3> QED BY <3>1, <1>4 DEF TypeOK, CachedPage
  <2>2. CASE ~ cache[k].stored
    BY <2>2 DEF SetTtl, Present
  <2> QED BY <2>1, <2>2
<1>6. ASSUME NEW l \in Page, NEW s \in Request, Dropping(s, l) PROVE Dropping(s, l)'
  <2>1. s # r
    BY <1>6, <1>4, IdleDropsNothing DEF At
  <2> QED BY <2>1, <1>3, <1>6 DEF Dropping
<1>7. ASSUME NEW s \in Request PROVE ReaderWarned(s)'
  <2>1. CASE s = r
    BY <2>1, <1>2 DEF ReaderWarned, At
  <2>2. CASE s # r
    <3>1. req[s].page \in Page /\ req'[s] = req[s]
      BY <2>2, <1>3 DEF TypeOK, RequestState
    <3> QED BY <3>1, <1>4, <1>6 DEF ReaderWarned, Warned, At
  <2> QED BY <2>1, <2>2
<1>8. ASSUME NEW l \in Page PROVE PageWarned(l)'
  BY <1>4, <1>5, <1>6 DEF PageWarned, Warned, Present
<1>9. ASSUME NEW l \in Page PROVE PageTimed(l)'
  BY <1>3, <1>4, <1>5 DEF PageTimed, Warned, Present, At
<1> QED BY <1>7, <1>8, <1>9

LEMMA DropWarns ==
  ASSUME TypeOK, DropsInTurn, Warned, NEW r \in Request, DropPage(r)
  PROVE  Warned' /\ DropsInTurn'
<1> DEFINE k == Head(req[r].todo)
           rest == Tail(req[r].todo)
<1>1. At(r, "drop") /\ req[r].todo \in Seq(Page) /\ req[r].todo # <<>>
  BY DEF DropPage, DropsInTurn, TypeOK, RequestState
<1>2. k \in Page /\ rest \in Seq(Page)
  BY <1>1
<1>3. UNCHANGED <<log, fails>> /\ cache' = [cache EXCEPT ![k] = NoPage]
  BY DEF DropPage
<1>4. req' = [Overtaken(k) EXCEPT ![r] =
                IF rest = <<>> THEN Idle ELSE [req[r] EXCEPT !.todo = rest]]
  BY DEF DropPage
<1>5. /\ req'[r].todo = rest
      /\ req'[r].pc = IF rest = <<>> THEN "idle" ELSE "drop"
  <2>1. req'[r] = IF rest = <<>> THEN Idle ELSE [req[r] EXCEPT !.todo = rest]
    BY <1>4 DEF Overtaken
  <2> QED BY <2>1, IdleState, <1>1, <1>2 DEF TypeOK, RequestState, At
<1>6. ASSUME NEW s \in Request, s # r
      PROVE  /\ req'[s].todo = req[s].todo /\ req'[s].pc = req[s].pc
             /\ req'[s].page = req[s].page /\ req'[s].from = req[s].from
             /\ At(s, "store") /\ req[s].page = k => req'[s].overtaken
             /\ ~ (At(s, "store") /\ req[s].page = k) => req'[s].overtaken = req[s].overtaken
  <2>1. req'[s] = IF At(s, "store") /\ req[s].page = k
                  THEN [req[s] EXCEPT !.overtaken = TRUE] ELSE req[s]
    BY <1>4, <1>6 DEF Overtaken
  <2> HIDE DEF k, rest
  <2> QED BY <2>1 DEF TypeOK, RequestState
<1>7. ASSUME NEW l \in Page, l # k, NEW s \in Request, Dropping(s, l) PROVE Dropping(s, l)'
  <2>1. CASE s # r
    BY <2>1, <1>6, <1>7 DEF Dropping
  <2>2. CASE s = r
    <3>1. PICK i \in DOMAIN req[r].todo : req[r].todo[i] = l
      BY <2>2, <1>7 DEF Dropping
    <3>2. i # 1
      BY <3>1, <1>1, <1>7
    <3>3. i \in Nat /\ i >= 1 /\ i <= Len(req[r].todo)
      BY <3>1, <1>1
    <3>4. /\ Len(rest) = Len(req[r].todo) - 1
          /\ \A j \in 1 .. Len(req[r].todo) - 1 : rest[j] = req[r].todo[j + 1]
      BY <1>1
    <3>5. i - 1 \in 1 .. Len(req[r].todo) - 1 /\ (i - 1) + 1 = i
      BY <3>2, <3>3, <1>1
    <3>6. rest[i - 1] = l
      BY <3>1, <3>4, <3>5
    <3>7. i - 1 \in DOMAIN rest
      BY <1>2, <3>4, <3>5
    <3> QED BY <3>6, <3>7, <2>2, <1>5 DEF Dropping
  <2> QED BY <2>1, <2>2
<1>8. \A l \in Page : l # k => cache'[l] = cache[l]
  BY <1>3 DEF TypeOK
<1>9. ~ cache'[k].stored
  BY <1>2, <1>3 DEF TypeOK, NoPage
<1>10. DropsInTurn'
  <2>1. ASSUME NEW s \in Request
        PROVE  (IF At(s, "drop") THEN req[s].todo # <<>> ELSE req[s].todo = <<>>)'
    <3>1. CASE s = r
      <4> HIDE DEF rest
      <4> QED BY <3>1, <1>5 DEF At
    <3>2. CASE s # r
      BY <3>2, <1>6 DEF DropsInTurn, At
    <3> QED BY <3>1, <3>2
  <2> QED BY <2>1 DEF DropsInTurn
<1>11. Warned'
  <2> SUFFICES ASSUME fails = 0
      PROVE  /\ \A s \in Request : ReaderWarned(s)'
             /\ \A l \in Page : PageWarned(l)'
             /\ \A l \in Page : PageTimed(l)'
    BY <1>3 DEF Warned
  <2> HIDE DEF k, rest
  <2>1. ASSUME NEW s \in Request PROVE ReaderWarned(s)'
    <3>1. CASE s = r
      BY <3>1, <1>5 DEF ReaderWarned, At
    <3>2. CASE s # r /\ At(s, "store") /\ req[s].page = k
      BY <3>2, <1>6 DEF ReaderWarned
    <3>3. CASE s # r /\ At(s, "store") /\ req[s].page # k
      <4>1. req[s].page \in Page
        BY DEF TypeOK, RequestState
      <4> QED BY <4>1, <3>3, <1>3, <1>6, <1>7 DEF ReaderWarned, Warned, At
    <3>4. CASE s # r /\ ~ At(s, "store")
      BY <3>4, <1>6 DEF ReaderWarned, At
    <3> QED BY <3>1, <3>2, <3>3, <3>4
  <2>2. ASSUME NEW l \in Page PROVE PageWarned(l)'
    <3>1. CASE l = k
      BY <3>1, <1>9 DEF PageWarned, Present
    <3>2. CASE l # k
      BY <3>2, <1>3, <1>7, <1>8 DEF PageWarned, Warned, Present
    <3> QED BY <3>1, <3>2
  <2>3. ASSUME NEW l \in Page PROVE PageTimed(l)'
    <3>1. CASE l = k
      BY <3>1, <1>9 DEF PageTimed, Present
    <3>2. CASE l # k
      BY <3>2, <1>1, <1>6, <1>8 DEF PageTimed, Warned, Present, At
    <3> QED BY <3>1, <3>2
  <2> QED BY <2>1, <2>2, <2>3
<1> QED BY <1>10, <1>11

LEMMA ExpireWarns ==
  ASSUME TypeOK, Warned, NEW k \in Page, Expire(k)
  PROVE  Warned'
<1>1. UNCHANGED <<log, req, fails>> /\ cache' = [cache EXCEPT ![k] = NoPage]
  BY DEF Expire
<1>2. ~ cache'[k].stored
  BY <1>1 DEF TypeOK, NoPage
<1>3. \A l \in Page : l # k => cache'[l] = cache[l]
  BY <1>1 DEF TypeOK
<1>4. \A l \in Page, s \in Request : Dropping(s, l) => Dropping(s, l)'
  BY <1>1 DEF Dropping
<1> SUFFICES ASSUME fails = 0
    PROVE  /\ \A s \in Request : ReaderWarned(s)'
           /\ \A l \in Page : PageWarned(l)'
           /\ \A l \in Page : PageTimed(l)'
  BY <1>1 DEF Warned
<1>5. ASSUME NEW s \in Request PROVE ReaderWarned(s)'
  BY <1>1 DEF ReaderWarned, Warned, At, Dropping
<1>6. ASSUME NEW l \in Page PROVE PageWarned(l)'
  BY <1>1, <1>2, <1>3, <1>4 DEF PageWarned, Warned, Present
<1>7. ASSUME NEW l \in Page PROVE PageTimed(l)'
  BY <1>1, <1>2, <1>3 DEF PageTimed, Warned, Present, At
<1> QED BY <1>5, <1>6, <1>7

-----------------------------------------------------------------------------
(* The invariant and its theorems.                                          *)

LEMMA NextDropsInTurn ==
  ASSUME TypeOK, DropsInTurn, NEW r \in Request, NEW state \in RequestState, Move(r, state),
         IF state.pc = "drop" THEN state.todo # <<>> ELSE state.todo = <<>>
  PROVE  DropsInTurn'
<1>1. ASSUME NEW s \in Request
      PROVE  (IF At(s, "drop") THEN req[s].todo # <<>> ELSE req[s].todo = <<>>)'
  <2>1. req'[s] = IF s = r THEN state ELSE req[s]
    BY DEF Move, TypeOK
  <2> QED BY <2>1 DEF DropsInTurn, At
<1> QED BY <1>1 DEF DropsInTurn

LEMMA InitIInv == Init => IInv
<1> SUFFICES ASSUME Init PROVE IInv
  OBVIOUS
<1>1. TypeOK
  BY InitTypeOK
<1>2. \A r \in Request : req[r] = Idle
  BY DEF Init
<1>3. \A k \in Page : ~ Present(k)
  BY DEF Init, Present, NoPage
<1>4. DropsInTurn
  BY <1>2, IdleState DEF DropsInTurn, At
<1>5. \A r \in Request : ReaderWarned(r)
  BY <1>2, IdleState DEF ReaderWarned, At
<1> QED BY <1>1, <1>3, <1>4, <1>5 DEF IInv, PageWarned, PageTimed

LEMMA NextIInv == IInv /\ [Next]_vars => IInv'
<1> SUFFICES ASSUME IInv, [Next]_vars PROVE DropsInTurn' /\ Warned'
  BY NextTypeOK DEF IInv, Warned
<1>0. TypeOK /\ DropsInTurn /\ Warned
  BY DEF IInv, Warned
<1>1. ASSUME NEW r \in Request, NEW k \in Visited, ReadMiss(r, k)
      PROVE  DropsInTurn' /\ Warned'
  <2>1. k \in Page /\ Len(log) \in Nat
    BY <1>0, CacheAssumption DEF TypeOK
  <2>2. /\ [Idle EXCEPT !.pc = "store", !.page = k, !.from = Len(log)] \in RequestState
        /\ [Idle EXCEPT !.pc = "store", !.page = k, !.from = Len(log)].pc = "store"
        /\ [Idle EXCEPT !.pc = "store", !.page = k, !.from = Len(log)].todo = <<>>
    BY <2>1, IdleState DEF RequestState
  <2>3. Move(r, [Idle EXCEPT !.pc = "store", !.page = k, !.from = Len(log)])
    BY <1>1 DEF ReadMiss
  <2>4. DropsInTurn'
    BY <1>0, <2>2, <2>3, NextDropsInTurn
  <2> QED BY <1>0, <1>1, <2>4, ReadWarns
<1>2. ASSUME NEW r \in Request, StorePage(r)
      PROVE  DropsInTurn' /\ Warned'
  <2>1. req[r].page \in Page
    BY <1>0 DEF TypeOK, RequestState
  <2>2. /\ [Idle EXCEPT !.pc = "ttl", !.page = req[r].page] \in RequestState
        /\ [Idle EXCEPT !.pc = "ttl", !.page = req[r].page].pc = "ttl"
        /\ [Idle EXCEPT !.pc = "ttl", !.page = req[r].page].todo = <<>>
    BY <2>1, IdleState DEF RequestState
  <2>3. Move(r, [Idle EXCEPT !.pc = "ttl", !.page = req[r].page])
    BY <1>2 DEF StorePage
  <2>4. DropsInTurn'
    BY <1>0, <2>2, <2>3, NextDropsInTurn
  <2> QED BY <1>0, <1>2, <2>4, StoreWarns
<1>3. ASSUME NEW r \in Request, SetTtl(r)
      PROVE  DropsInTurn' /\ Warned'
  <2>1. DropsInTurn'
    BY <1>0, <1>3, IdleState, NextDropsInTurn DEF SetTtl
  <2> QED BY <1>0, <1>3, <2>1, TtlWarns
<1>4. ASSUME NEW r \in Request, NEW t \in Team, UpdateTeam(r, t)
      PROVE  DropsInTurn' /\ Warned'
  <2>1. <<<<"detail", t>>>> \in Seq(Page) /\ <<<<"detail", t>>>> # <<>>
    BY DEF Page, PageKind
  <2>2. /\ [Idle EXCEPT !.pc = "drop", !.todo = <<<<"detail", t>>>>] \in RequestState
        /\ [Idle EXCEPT !.pc = "drop", !.todo = <<<<"detail", t>>>>].pc = "drop"
        /\ [Idle EXCEPT !.pc = "drop", !.todo = <<<<"detail", t>>>>].todo # <<>>
    BY <2>1, IdleState DEF RequestState
  <2>3. Move(r, [Idle EXCEPT !.pc = "drop", !.todo = <<<<"detail", t>>>>])
    BY <1>4 DEF UpdateTeam, DropAll
  <2>4. DropsInTurn'
    BY <1>0, <2>2, <2>3, NextDropsInTurn
  <2> QED BY <1>0, <1>4, <2>4, UpdateWarns
<1>5. ASSUME NEW r \in Request, NEW t \in Team, NEW m \in Open, NEW lineup \in Lineups[t],
             Report(r, t, m, lineup)
      PROVE  DropsInTurn' /\ Warned'
  <2>1. RecordPages(t) \in Seq(Page) /\ RecordPages(t) # <<>>
    BY RecordPagesCover
  <2>2. /\ [Idle EXCEPT !.pc = "drop", !.todo = RecordPages(t)] \in RequestState
        /\ [Idle EXCEPT !.pc = "drop", !.todo = RecordPages(t)].pc = "drop"
        /\ [Idle EXCEPT !.pc = "drop", !.todo = RecordPages(t)].todo # <<>>
    BY <2>1, IdleState DEF RequestState
  <2>3. Move(r, [Idle EXCEPT !.pc = "drop", !.todo = RecordPages(t)])
    BY <1>5 DEF Report, DropAll
  <2>4. DropsInTurn'
    BY <1>0, <2>2, <2>3, NextDropsInTurn
  <2> QED BY <1>0, <1>5, <2>4, ReportWarns
<1>6. ASSUME NEW r \in Request, DropPage(r)
      PROVE  DropsInTurn' /\ Warned'
  BY <1>0, <1>6, DropWarns
<1>7. ASSUME NEW r \in Request, Fail(r)
      PROVE  DropsInTurn' /\ Warned'
  <2>1. DropsInTurn'
    BY <1>0, <1>7, IdleState, NextDropsInTurn DEF Fail
  <2>2. fails \in Nat /\ fails' = fails + 1
    BY <1>0, <1>7, CacheAssumption DEF Fail, TypeOK
  <2> QED BY <2>1, <2>2 DEF Warned
<1>8. ASSUME NEW k \in Page, Expire(k)
      PROVE  DropsInTurn' /\ Warned'
  <2>1. DropsInTurn'
    BY <1>0, <1>8 DEF DropsInTurn, At, Expire
  <2> QED BY <1>0, <1>8, <2>1, ExpireWarns
<1>9. ASSUME NEW e \in Entry, e.kind \notin {"report", "update"}, log' = Append(log, e),
             UNCHANGED <<cache, req, fails>>
      PROVE  DropsInTurn' /\ Warned'
  <2>1. DropsInTurn'
    BY <1>0, <1>9 DEF DropsInTurn, At
  <2> QED BY <1>0, <1>9, <2>1, QuietChangeWarns
<1>10. ASSUME NEW t \in Team, CreateTeam(t) PROVE DropsInTurn' /\ Warned'
  <2> DEFINE e == [kind |-> "create", team |-> t]
  <2>1. e \in Entry /\ e.kind = "create"
    BY DEF Entry
  <2>2. log' = Append(log, e) /\ UNCHANGED <<cache, req, fails>>
    BY <1>10 DEF CreateTeam, Commit
  <2> HIDE DEF e
  <2> QED BY <2>1, <2>2, <1>9
<1>11. ASSUME NEW t \in Team, DeleteTeam(t) PROVE DropsInTurn' /\ Warned'
  <2> DEFINE e == [kind |-> "delete", team |-> t]
  <2>1. e \in Entry /\ e.kind = "delete"
    BY DEF Entry
  <2>2. log' = Append(log, e) /\ UNCHANGED <<cache, req, fails>>
    BY <1>11 DEF DeleteTeam, Commit
  <2> HIDE DEF e
  <2> QED BY <2>1, <2>2, <1>9
<1>12. ASSUME NEW p \in Member, ExpulsionMember(p) PROVE DropsInTurn' /\ Warned'
  <2> DEFINE e == [kind |-> "expel", member |-> p]
  <2>1. e \in Entry /\ e.kind = "expel"
    BY DEF Entry
  <2>2. log' = Append(log, e) /\ UNCHANGED <<cache, req, fails>>
    BY <1>12 DEF ExpulsionMember, Commit
  <2> HIDE DEF e
  <2> QED BY <2>1, <2>2, <1>9
<1>13. CASE UNCHANGED vars
  BY <1>0, <1>13
  DEF vars, DropsInTurn, Warned, ReaderWarned, PageWarned, PageTimed, At, Present, Dropping
<1>14. CASE \E r \in Request :
              \/ \E k \in Visited : ReadMiss(r, k)
              \/ \E t \in Team :
                   \/ UpdateTeam(r, t)
                   \/ \E m \in Open, lineup \in Lineups[t] : Report(r, t, m, lineup)
              \/ Handle(r) \/ Fail(r)
  BY <1>14, <1>1, <1>2, <1>3, <1>4, <1>5, <1>6, <1>7 DEF Handle
<1>15. CASE \/ \E k \in Page : Expire(k)
            \/ \E t \in Team : CreateTeam(t) \/ DeleteTeam(t)
            \/ \E p \in Member : ExpulsionMember(p)
  BY <1>15, <1>8, <1>10, <1>11, <1>12
<1> QED BY <1>13, <1>14, <1>15 DEF Next

\* The invariant, with what a reader and a page are owed.
THEOREM Invariance == Spec => []IInv
  BY InitIInv, NextIInv, PTL DEF Spec

\* Every reachable state of the cache is well typed.
THEOREM TypeCorrect == Spec => []TypeOK
<1>1. IInv => TypeOK
  BY DEF IInv
<1> QED BY <1>1, Invariance, PTL

\* However many requests read, report and update at a time: without a failure a
\* page lacks a result or an update of its own team only if its reader was
\* overtaken, or for the moment until it is dropped.
THEOREM OvertakingOutdates == Spec => []OutdatedOnlyByOvertaking
<1>1. IInv => OutdatedOnlyByOvertaking
  BY DEF IInv, PageWarned, Missed, OutdatedOnlyByOvertaking, OutdatedByUpdate
<1> QED BY <1>1, Invariance, PTL

\* However many readers store one page at a time: without a failure it has a time
\* to live or is about to get one.
THEOREM PagesGetTtl == Spec => []PagesLapse
<1>1. IInv => PagesLapse
  BY DEF IInv, PageTimed, PagesLapse
<1> QED BY <1>1, Invariance, PTL

-----------------------------------------------------------------------------
(* Folds over subsets of a finite set, and sums.                            *)

\* Every set of numbers that has an element has a least one.
LEMMA Least ==
  ASSUME NEW S \in SUBSET Nat, S # {}
  PROVE  \E x \in S : \A y \in S : x <= y
<1>1. PICK x \in S : \A y \in S : ~ (<<y, x>> \in OpToRel(<, Nat))
  BY NatLessThanWellFounded, WFMin
<1>2. \A y \in S : y < x => <<y, x>> \in OpToRel(<, Nat)
  BY DEF OpToRel
<1>3. \A y \in S : ~ (y < x)
  BY <1>1, <1>2
<1> QED
  BY <1>3

\* it folds the subsets of S of at most k elements, taking ch[s] off s first.
Folds(it, k, S, A, base, ch, g) ==
  LET small == {s \in SUBSET S : Cardinality(s) <= k} IN
  /\ it \in [small -> A]
  /\ \A s \in small :
       it[s] = IF s = {} THEN base ELSE g[<<ch[s], it[s \ {ch[s]}]>>]

\* A fold of sets of k elements extends to a fold of sets of one more.
LEMMA FoldStep ==
  ASSUME NEW S, IsFiniteSet(S), NEW A, NEW base \in A, NEW g \in [S \X A -> A],
         NEW ch, \A s \in SUBSET S : s # {} => ch[s] \in s,
         NEW k \in Nat, NEW it, Folds(it, k, S, A, base, ch, g)
  PROVE  \E nt : Folds(nt, k + 1, S, A, base, ch, g)
<1> DEFINE small == {s \in SUBSET S : Cardinality(s) <= k}
           big == {s \in SUBSET S : Cardinality(s) <= k + 1}
           step(s, h) == IF s = {} THEN base ELSE g[<<ch[s], h[s \ {ch[s]}]>>]
           nt == [s \in big |-> step(s, it)]
<1>1. /\ it \in [small -> A]
      /\ \A s \in small : it[s] = step(s, it)
  BY DEF Folds
<1>2. \A s \in big : s # {} => ch[s] \in S /\ s \ {ch[s]} \in small
  <2> SUFFICES ASSUME NEW s \in big, s # {} PROVE ch[s] \in S /\ s \ {ch[s]} \in small
    OBVIOUS
  <2>1. ch[s] \in s /\ s \in SUBSET S /\ IsFiniteSet(s) /\ Cardinality(s) \in Nat
    BY FS_Subset, FS_CardinalityType
  <2>2. Cardinality(s \ {ch[s]}) = Cardinality(s) - 1
    BY <2>1, FS_RemoveElement
  <2> QED
    BY <2>1, <2>2
<1>3. \A s \in big : step(s, it) \in A
  BY <1>1, <1>2
<1>4. small \subseteq big
  <2>1. \A s \in SUBSET S : Cardinality(s) \in Nat
    BY FS_Subset, FS_CardinalityType
  <2> QED
    BY <2>1
<1>5. \A s \in small : nt[s] = it[s]
  BY <1>1, <1>4
<1>6. \A s \in big : nt[s] = step(s, nt)
  BY <1>2, <1>5
<1>7. nt \in [big -> A]
  BY <1>3
<1> QED
  BY <1>6, <1>7 DEF Folds

\* it folds every subset of S.
IsFold(it, S, base, ch, g) ==
  \A s \in SUBSET S : it[s] = IF s = {} THEN base ELSE g[<<ch[s], it[s \ {ch[s]}]>>]

\* ch picks an element of each set.
Picks(ch, S) == \A s \in SUBSET S : s # {} => ch[s] \in s

\* There is a function that makes the steps of a fold.
LEMMA FoldExists ==
  ASSUME NEW S, IsFiniteSet(S), NEW A, NEW base \in A, NEW g \in [S \X A -> A],
         NEW ch, Picks(ch, S)
  PROVE  \E it : it \in [SUBSET S -> A] /\ IsFold(it, S, base, ch, g)
<1> USE DEF Picks
<1> DEFINE K == {k \in Nat : ~ \E it : Folds(it, k, S, A, base, ch, g)}
<1>1. \A s \in SUBSET S : /\ IsFiniteSet(s) /\ Cardinality(s) \in Nat
                          /\ Cardinality(s) <= Cardinality(S)
                          /\ (Cardinality(s) = 0 <=> s = {})
  BY FS_Subset, FS_CardinalityType, FS_EmptySet
<1>2. \E it : Folds(it, 0, S, A, base, ch, g)
  <2>1. {s \in SUBSET S : Cardinality(s) <= 0} = {{}}
    BY <1>1
  <2>2. Folds([s \in {{}} |-> base], 0, S, A, base, ch, g)
    BY <2>1 DEF Folds
  <2> QED
    BY <2>2
<1>3. K = {}
  <2> SUFFICES ASSUME K # {} PROVE FALSE
    OBVIOUS
  <2>1. PICK k \in K : \A j \in K : k <= j
    BY Least
  <2>2. k \in Nat /\ k # 0 /\ k - 1 \in Nat /\ k - 1 \notin K
    BY <1>2, <2>1
  <2>3. PICK it : Folds(it, k - 1, S, A, base, ch, g)
    BY <2>2
  <2>4. \E nt : Folds(nt, k - 1 + 1, S, A, base, ch, g)
    BY <2>2, <2>3, FoldStep
  <2> QED
    BY <2>1, <2>2, <2>4
<1>4. PICK it : Folds(it, Cardinality(S), S, A, base, ch, g)
  BY <1>1, <1>3
<1>5. {s \in SUBSET S : Cardinality(s) <= Cardinality(S)} = SUBSET S
  BY <1>1
<1>6. /\ it \in [SUBSET S -> A]
      /\ \A s \in SUBSET S : it[s] = IF s = {} THEN base ELSE g[<<ch[s], it[s \ {ch[s]}]>>]
  BY <1>4, <1>5 DEF Folds
<1> QED
  BY <1>6 DEF IsFold

\* Where h and it agree before a step, they agree after it.
StepsAgree(h, it, S, ch) ==
  \A s \in SUBSET S : (s = {} \/ h[s \ {ch[s]}] = it[s \ {ch[s]}]) => h[s] = it[s]

\* Two folds are equal if they are after every step before which they are.
LEMMA FoldUnique ==
  ASSUME NEW S, IsFiniteSet(S), NEW ch, Picks(ch, S), NEW h, NEW it,
         StepsAgree(h, it, S, ch)
  PROVE  \A s \in SUBSET S : h[s] = it[s]
<1> DEFINE K == {Cardinality(s) : s \in {s \in SUBSET S : h[s] # it[s]}}
<1> SUFFICES ASSUME K # {} PROVE FALSE
  OBVIOUS
<1>1. \A s \in SUBSET S : IsFiniteSet(s) /\ Cardinality(s) \in Nat
  BY FS_Subset, FS_CardinalityType
<1>2. PICK k \in K : \A j \in K : k <= j
  <2>1. K \in SUBSET Nat
    BY <1>1
  <2> HIDE DEF K
  <2> QED
    BY <2>1, Least
<1>3. PICK s \in SUBSET S : h[s] # it[s] /\ Cardinality(s) = k
  BY <1>2
<1>4. s # {} /\ ch[s] \in s
  BY <1>3 DEF Picks, StepsAgree
<1>5. Cardinality(s \ {ch[s]}) = k - 1 /\ k \in Nat
  BY <1>1, <1>3, <1>4, FS_RemoveElement
<1>6. h[s \ {ch[s]}] = it[s \ {ch[s]}]
  <2>1. k - 1 \notin K
    BY <1>2, <1>5
  <2> QED
    BY <1>5, <2>1
<1> QED
  BY <1>3, <1>6 DEF StepsAgree

\* The element a sum takes off first.
First(s) == CHOOSE x \in s : TRUE

\* it sums f over every subset of S.
SumsUp(it, S, f) ==
  /\ it \in [SUBSET S -> Nat]
  /\ \A s \in SUBSET S : it[s] = IF s = {} THEN 0 ELSE f[First(s)] + it[s \ {First(s)}]

\* SumFunction sums: its definition unfolds element by element.
LEMMA SumUnfolds ==
  ASSUME NEW S, IsFiniteSet(S), NEW f \in [S -> Nat]
  PROVE  \E it : SumsUp(it, S, f) /\ SumFunction(f) = it[S]
<1> DEFINE Q(it) == it = [s \in SUBSET S |-> IF s = {} THEN 0 ELSE f[First(s)] + it[s \ {First(s)}]]
<1>1. PICK ch : ch = [s \in SUBSET S |-> First(s)]
  OBVIOUS
<1>2. PICK g : g = [p \in S \X Nat |-> f[p[1]] + p[2]]
  OBVIOUS
<1>3. Picks(ch, S)
  BY <1>1 DEF First, Picks
<1>4. g \in [S \X Nat -> Nat] /\ 0 \in Nat
  BY <1>2
<1>5. PICK it : it \in [SUBSET S -> Nat] /\ IsFold(it, S, 0, ch, g)
  BY <1>3, <1>4, FoldExists
<1>6. Q(it)
  <2>1. \A s \in SUBSET S : s # {} => g[<<ch[s], it[s \ {ch[s]}]>>] = f[First(s)] + it[s \ {First(s)}]
    BY <1>1, <1>2, <1>3, <1>5 DEF Picks
  <2> QED
    BY <1>5, <2>1 DEF IsFold
<1>7. SumFunction(f) = (CHOOSE it1 : Q(it1))[S]
  BY DEF SumFunction, SumFunctionOnSet, FoldFunctionOnSet, MapThenFoldSet, First
<1>8. PICK h : h = CHOOSE it1 : Q(it1)
  OBVIOUS
<1>9. Q(h)
  <2> HIDE DEF Q
  <2> QED
    BY <1>6, <1>8
<1>10. \A s \in SUBSET S : h[s] = IF s = {} THEN 0 ELSE f[First(s)] + h[s \ {First(s)}]
  BY <1>9
<1>11. \A s \in SUBSET S : h[s] = it[s]
  <2>1. \A s \in SUBSET S : s # {} => ch[s] = First(s)
    BY <1>1
  <2>2. \A s \in SUBSET S : it[s] = IF s = {} THEN 0 ELSE f[First(s)] + it[s \ {First(s)}]
    BY <1>6
  <2>3. StepsAgree(h, it, S, ch)
    <3> HIDE DEF Q
    <3> SUFFICES ASSUME NEW s \in SUBSET S, s = {} \/ h[s \ {ch[s]}] = it[s \ {ch[s]}]
                 PROVE  h[s] = it[s]
      BY DEF StepsAgree
    <3>1. CASE s = {}
      BY <1>10, <2>2, <3>1
    <3>2. CASE s # {}
      <4>1. h[s \ {First(s)}] = it[s \ {First(s)}]
        BY <2>1, <3>2
      <4> QED
        BY <1>10, <2>2, <3>2, <4>1
    <3> QED
      BY <3>1, <3>2
  <2> QED
    BY <1>3, <2>3, FoldUnique
<1>12. h \in [SUBSET S -> Nat]
  BY <1>5, <1>9, <1>11
<1>13. SumsUp(h, S, f)
  BY <1>10, <1>12 DEF SumsUp
<1> QED
  BY <1>7, <1>8, <1>13
\* The lemmas on sums that the rest uses.
LEMMA SumOnSubset ==
  ASSUME NEW S, IsFiniteSet(S), NEW f \in [S -> Nat], NEW it, SumsUp(it, S, f),
         NEW T \in SUBSET S
  PROVE  SumFunction([x \in T |-> f[x]]) = it[T]
<1>1. PICK g : g = [x \in T |-> f[x]]
  OBVIOUS
<1>2. g \in [T -> Nat] /\ IsFiniteSet(T)
  BY <1>1, FS_Subset
<1>3. PICK h : SumsUp(h, T, g) /\ SumFunction(g) = h[T]
  BY <1>2, SumUnfolds
<1>4. PICK ch : ch = [s \in SUBSET T |-> First(s)]
  OBVIOUS
<1>5. Picks(ch, T)
  BY <1>4 DEF First, Picks
<1>6. StepsAgree(h, it, T, ch)
  <2> SUFFICES ASSUME NEW s \in SUBSET T, s = {} \/ h[s \ {ch[s]}] = it[s \ {ch[s]}]
               PROVE  h[s] = it[s]
    BY DEF StepsAgree
  <2>1. s \in SUBSET S
    OBVIOUS
  <2>2. CASE s = {}
    BY <1>3, <2>1, <2>2 DEF SumsUp
  <2>3. CASE s # {}
    <3>1. ch[s] = First(s) /\ First(s) \in T /\ g[First(s)] = f[First(s)]
      BY <1>1, <1>4, <1>5, <2>3 DEF Picks
    <3>2. h[s] = g[First(s)] + h[s \ {First(s)}] /\ it[s] = f[First(s)] + it[s \ {First(s)}]
      BY <1>3, <2>1, <2>3 DEF SumsUp
    <3> QED
      BY <2>3, <3>1, <3>2
  <2> QED
    BY <2>2, <2>3
<1>7. \A s \in SUBSET T : h[s] = it[s]
  BY <1>2, <1>5, <1>6, FoldUnique
<1> QED
  BY <1>1, <1>3, <1>7

\* A sum is that without x, and x.
LEMMA SumStep ==
  ASSUME NEW S, IsFiniteSet(S), NEW f \in [S -> Nat], NEW x \in S
  PROVE  SumFunction(f) = f[x] + SumFunction([y \in S \ {x} |-> f[y]])
<1>1. PICK it : SumsUp(it, S, f) /\ SumFunction(f) = it[S]
  BY SumUnfolds
<1>2. SumFunction([y \in S \ {x} |-> f[y]]) = it[S \ {x}]
  BY <1>1, SumOnSubset
<1> DEFINE Steps(s) == \A z \in s : it[s] = f[z] + it[s \ {z}]
           K == {Cardinality(s) : s \in {s \in SUBSET S : ~ Steps(s)}}
<1>3. K = {}
  <2> SUFFICES ASSUME K # {} PROVE FALSE
    OBVIOUS
  <2>1. \A s \in SUBSET S : IsFiniteSet(s) /\ Cardinality(s) \in Nat
    BY FS_Subset, FS_CardinalityType
  <2>2. PICK k \in K : \A j \in K : k <= j
    <3>1. K \in SUBSET Nat
      BY <2>1
    <3> HIDE DEF K
    <3> QED
      BY <3>1, Least
  <2>3. PICK s \in SUBSET S : ~ Steps(s) /\ Cardinality(s) = k
    BY <2>2
  <2>4. PICK z \in s : it[s] # f[z] + it[s \ {z}]
    BY <2>3
  <2>5. PICK y \in s : y = First(s)
    BY DEF First
  <2>6. it[s] = f[y] + it[s \ {y}] /\ y # z
    BY <1>1, <2>4, <2>5 DEF SumsUp
  <2>7. \A a \in s : Steps(s \ {a})
    <3> SUFFICES ASSUME NEW a \in s PROVE Steps(s \ {a})
      OBVIOUS
    <3>1. Cardinality(s \ {a}) = k - 1 /\ k \in Nat /\ s \ {a} \in SUBSET S
      BY <2>1, <2>3, FS_RemoveElement
    <3>2. k - 1 \notin K
      BY <2>2, <3>1
    <3> QED
      BY <3>1, <3>2
  <2>8. it[s \ {y}] = f[z] + it[(s \ {y}) \ {z}]
    BY <2>6, <2>7
  <2>9. it[s \ {z}] = f[y] + it[(s \ {z}) \ {y}]
    BY <2>6, <2>7
  <2>10. (s \ {z}) \ {y} = (s \ {y}) \ {z}
    OBVIOUS
  <2>11. PICK a \in Nat, b \in Nat, c \in Nat : a = f[y] /\ b = f[z] /\ c = it[(s \ {y}) \ {z}]
    BY <1>1 DEF SumsUp
  <2>12. it[s] = a + (b + c) /\ it[s \ {z}] = a + c
    BY <2>6, <2>8, <2>9, <2>10, <2>11
  <2> QED
    BY <2>4, <2>11, <2>12
<1>4. Steps(S)
  BY <1>3
<1> QED
  BY <1>1, <1>2, <1>4

\* The sum of f over T.
SumOver(f, T) == SumFunction([x \in T |-> f[x]])

\* The sum of a function is that over its domain.
LEMMA SumAll ==
  ASSUME NEW S, NEW f \in [S -> Nat]
  PROVE  SumFunction(f) = SumOver(f, S)
<1>1. f = [x \in S |-> f[x]]
  OBVIOUS
<1> QED
  BY <1>1 DEF SumOver

\* A sum grows by what is added.
LEMMA SumGrows ==
  ASSUME NEW S, IsFiniteSet(S), NEW f \in [S -> Nat], NEW T \in SUBSET S
  PROVE  /\ SumOver(f, T) \in Nat
         /\ SumOver(f, {}) = 0
         /\ \A x \in S \ T : SumOver(f, T \cup {x}) = SumOver(f, T) + f[x]
<1>1. PICK it : SumsUp(it, S, f) /\ SumFunction(f) = it[S]
  BY SumUnfolds
<1>2. \A U \in SUBSET S : SumOver(f, U) = it[U]
  BY <1>1, SumOnSubset DEF SumOver
<1>3. SumOver(f, T) \in Nat /\ SumOver(f, {}) = 0
  <2>1. it \in [SUBSET S -> Nat] /\ it[{}] = 0
    BY <1>1 DEF SumsUp
  <2> QED
    BY <1>2, <2>1
<1>4. ASSUME NEW x \in S \ T
      PROVE  SumOver(f, T \cup {x}) = SumOver(f, T) + f[x]
  <2>1. PICK U : U = T \cup {x}
    OBVIOUS
  <2>2. U \in SUBSET S /\ x \in U /\ U \ {x} = T
    BY <2>1
  <2>3. IsFiniteSet(U)
    BY <2>2, FS_Subset
  <2>4. PICK g : g = [y \in U |-> f[y]]
    OBVIOUS
  <2>5. g \in [U -> Nat] /\ g[x] = f[x]
    BY <2>2, <2>4
  <2>6. SumFunction(g) = g[x] + SumFunction([y \in U \ {x} |-> g[y]])
    BY <2>2, <2>3, <2>5, SumStep
  <2>7. [y \in U \ {x} |-> g[y]] = [y \in T |-> f[y]]
    BY <2>2, <2>4
  <2>8. SumOver(f, U) = f[x] + SumOver(f, T)
    BY <2>4, <2>5, <2>6, <2>7 DEF SumOver
  <2> QED
    BY <1>3, <2>1, <2>5, <2>8
<1> QED
  BY <1>3, <1>4

\* A set of subsets that is closed under adding an element holds them all.
Inductive(G, S) == {} \in G /\ \A T \in G : \A x \in S \ T : T \cup {x} \in G

\* Induction over the subsets of a finite set.
LEMMA SubsetInduction ==
  ASSUME NEW S, IsFiniteSet(S), NEW G \in SUBSET (SUBSET S), Inductive(G, S)
  PROVE  S \in G
<1>1. PICK K : K = {Cardinality(S \ T) : T \in G}
  OBVIOUS
<1>2. \A T \in SUBSET S : IsFiniteSet(S \ T) /\ Cardinality(S \ T) \in Nat
  BY FS_Subset, FS_CardinalityType
<1>3. K \in SUBSET Nat /\ K # {}
  BY <1>1, <1>2 DEF Inductive
<1>4. PICK k \in K : \A j \in K : k <= j
  BY <1>3, Least
<1>5. PICK T \in G : k = Cardinality(S \ T)
  BY <1>1, <1>4
<1>6. S \ T = {}
  <2> SUFFICES ASSUME NEW x \in S \ T PROVE FALSE
    OBVIOUS
  <2>1. T \cup {x} \in G
    BY DEF Inductive
  <2>2. PICK D : D = S \ T
    OBVIOUS
  <2>3. Cardinality(D \ {x}) = Cardinality(D) - 1
    BY <1>2, <2>2, FS_RemoveElement
  <2>4. S \ (T \cup {x}) = D \ {x}
    BY <2>2
  <2>5. Cardinality(D \ {x}) \in K
    BY <1>1, <2>1, <2>4
  <2> QED
    <3>1. k \in Nat /\ k = Cardinality(D)
      BY <1>2, <1>5, <2>2
    <3>2. k <= k - 1
      BY <1>4, <2>3, <2>5, <3>1
    <3> QED
      BY <3>1, <3>2
<1> QED
  BY <1>5, <1>6

\* The sum over two disjoint sets.
LEMMA SumUnion ==
  ASSUME NEW S, IsFiniteSet(S), NEW f \in [S -> Nat],
         NEW T \in SUBSET S, NEW U \in SUBSET S, T \cap U = {}
  PROVE  SumOver(f, T \cup U) = SumOver(f, T) + SumOver(f, U)
<1> DEFINE G == {V \in SUBSET U : SumOver(f, T \cup V) = SumOver(f, T) + SumOver(f, V)}
<1>1. IsFiniteSet(U)
  BY FS_Subset
<1>2. {} \in G
  <2>1. SumOver(f, T) \in Nat /\ SumOver(f, {}) = 0 /\ T \cup {} = T
    BY SumGrows
  <2> QED
    BY <2>1
<1>3. ASSUME NEW V \in G, NEW x \in U \ V
      PROVE  V \cup {x} \in G
  <2>1. V \in SUBSET S /\ T \cup V \in SUBSET S /\ x \in S \ V /\ x \in S \ (T \cup V)
    OBVIOUS
  <2>2. SumOver(f, V \cup {x}) = SumOver(f, V) + f[x] /\ SumOver(f, V) \in Nat
    BY <2>1, SumGrows
  <2>3. SumOver(f, (T \cup V) \cup {x}) = SumOver(f, T \cup V) + f[x]
    <3>1. ASSUME NEW P \in SUBSET S, NEW y \in S \ P
          PROVE  SumOver(f, P \cup {y}) = SumOver(f, P) + f[y]
      BY SumGrows
    <3> QED
      BY <2>1, <3>1
  <2>4. SumOver(f, T) \in Nat /\ f[x] \in Nat
    BY SumGrows
  <2>5. (T \cup V) \cup {x} = T \cup (V \cup {x})
    OBVIOUS
  <2>6. SumOver(f, T \cup V) = SumOver(f, T) + SumOver(f, V)
    OBVIOUS
  <2>7. SumOver(f, T \cup (V \cup {x})) = SumOver(f, T) + SumOver(f, V \cup {x})
    <3>1. PICK a \in Nat, b \in Nat, c \in Nat :
            a = SumOver(f, T) /\ b = SumOver(f, V) /\ c = f[x]
      BY <2>2, <2>4
    <3>2. SumOver(f, V \cup {x}) = b + c /\ SumOver(f, T \cup (V \cup {x})) = (a + b) + c
      BY <2>2, <2>3, <2>5, <2>6, <3>1
    <3> QED
      BY <3>1, <3>2
  <2> QED
    BY <2>7
<1>4. Inductive(G, U)
  BY <1>2, <1>3 DEF Inductive
<1>5. U \in G
  <2>1. G \in SUBSET (SUBSET U)
    OBVIOUS
  <2> HIDE DEF G
  <2> QED
    BY <1>1, <1>4, <2>1, SubsetInduction
<1> QED
  BY <1>5

\* The sum over a part is no more than that over the whole.
LEMMA SumAtMost ==
  ASSUME NEW S, IsFiniteSet(S), NEW f \in [S -> Nat], NEW T \in SUBSET S
  PROVE  SumOver(f, T) <= SumOver(f, S)
<1>1. T \cup (S \ T) = S /\ T \cap (S \ T) = {} /\ S \ T \in SUBSET S
  OBVIOUS
<1>2. SumOver(f, S) = SumOver(f, T) + SumOver(f, S \ T)
  BY <1>1, SumUnion
<1>3. SumOver(f, T) \in Nat /\ SumOver(f, S \ T) \in Nat
  BY SumGrows
<1> QED
  BY <1>2, <1>3

\* The sum of two columns.
LEMMA SumAdds ==
  ASSUME NEW S, IsFiniteSet(S), NEW f \in [S -> Nat], NEW g \in [S -> Nat]
  PROVE  SumOver([x \in S |-> f[x] + g[x]], S) = SumOver(f, S) + SumOver(g, S)
<1>1. PICK h : h = [x \in S |-> f[x] + g[x]]
  OBVIOUS
<1>2. h \in [S -> Nat]
  BY <1>1
<1> DEFINE G == {T \in SUBSET S : SumOver(h, T) = SumOver(f, T) + SumOver(g, T)}
<1>3. {} \in G
  <2>1. SumOver(h, {}) = 0 /\ SumOver(f, {}) = 0 /\ SumOver(g, {}) = 0
    BY <1>2, SumGrows
  <2> QED
    BY <2>1
<1>4. ASSUME NEW T \in G, NEW x \in S \ T
      PROVE  T \cup {x} \in G
  <2>1. /\ SumOver(h, T \cup {x}) = SumOver(h, T) + h[x]
        /\ SumOver(f, T \cup {x}) = SumOver(f, T) + f[x]
        /\ SumOver(g, T \cup {x}) = SumOver(g, T) + g[x]
        /\ SumOver(f, T) \in Nat /\ SumOver(g, T) \in Nat
    BY <1>2, SumGrows
  <2>2. h[x] = f[x] + g[x] /\ f[x] \in Nat /\ g[x] \in Nat
    BY <1>1
  <2>3. SumOver(h, T) = SumOver(f, T) + SumOver(g, T)
    OBVIOUS
  <2>4. SumOver(h, T \cup {x}) = SumOver(f, T \cup {x}) + SumOver(g, T \cup {x})
    BY <2>1, <2>2, <2>3
  <2> QED
    BY <2>4
<1>5. Inductive(G, S)
  BY <1>3, <1>4 DEF Inductive
<1>6. S \in G
  <2>1. G \in SUBSET (SUBSET S)
    OBVIOUS
  <2> HIDE DEF G
  <2> QED
    BY <1>5, <2>1, SubsetInduction
<1> QED
  BY <1>1, <1>6

\* A sum of ones is a count.
LEMMA SumCounts ==
  ASSUME NEW S, IsFiniteSet(S), NEW f \in [S -> {1}]
  PROVE  SumOver(f, S) = Cardinality(S)
<1>1. f \in [S -> Nat]
  OBVIOUS
<1> DEFINE G == {T \in SUBSET S : SumOver(f, T) = Cardinality(T)}
<1>2. {} \in G
  BY <1>1, SumGrows, FS_EmptySet
<1>3. ASSUME NEW T \in G, NEW x \in S \ T
      PROVE  T \cup {x} \in G
  <2>1. SumOver(f, T \cup {x}) = SumOver(f, T) + f[x]
    BY <1>1, SumGrows
  <2>2. IsFiniteSet(T)
    BY FS_Subset
  <2>3. Cardinality(T \cup {x}) = Cardinality(T) + 1
    BY <2>2, FS_AddElement
  <2>4. SumOver(f, T \cup {x}) = Cardinality(T \cup {x})
    BY <2>1, <2>3
  <2> QED
    BY <2>4
<1>4. Inductive(G, S)
  BY <1>2, <1>3 DEF Inductive
<1>5. S \in G
  <2>1. G \in SUBSET (SUBSET S)
    OBVIOUS
  <2> HIDE DEF G
  <2> QED
    BY <1>4, <2>1, SubsetInduction
<1> QED
  BY <1>5

\* A sum may be taken group by group.
Groups(f, S, h, T) == [t \in T |-> SumOver(f, {x \in S : h[x] = t})]

LEMMA SumByGroups ==
  ASSUME NEW S, IsFiniteSet(S), NEW f \in [S -> Nat],
         NEW T, IsFiniteSet(T), NEW h \in [S -> T]
  PROVE  /\ Groups(f, S, h, T) \in [T -> Nat]
         /\ SumFunction(Groups(f, S, h, T)) = SumOver(f, S)
<1>1. PICK g : g = Groups(f, S, h, T)
  OBVIOUS
<1>2. g \in [T -> Nat]
  <2>1. \A t \in T : SumOver(f, {x \in S : h[x] = t}) \in Nat
    BY SumGrows
  <2> QED
    BY <1>1, <2>1 DEF Groups
<1> DEFINE In(U) == {x \in S : h[x] \in U}
           G == {U \in SUBSET T : SumOver(g, U) = SumOver(f, In(U))}
<1>3. {} \in G
  <2>1. In({}) = {}
    OBVIOUS
  <2>2. SumOver(g, {}) = 0 /\ SumOver(f, {}) = 0
    BY <1>2, SumGrows
  <2> QED
    BY <2>1, <2>2
<1>4. ASSUME NEW U \in G, NEW t \in T \ U
      PROVE  U \cup {t} \in G
  <2>1. PICK A, B : A = In(U) /\ B = {x \in S : h[x] = t}
    OBVIOUS
  <2>2. A \in SUBSET S /\ B \in SUBSET S /\ A \cap B = {} /\ In(U \cup {t}) = A \cup B
    BY <2>1
  <2>3. SumOver(f, A \cup B) = SumOver(f, A) + SumOver(f, B)
    BY <2>2, SumUnion
  <2>4. SumOver(g, U \cup {t}) = SumOver(g, U) + g[t]
    BY <1>2, SumGrows
  <2>5. g[t] = SumOver(f, B) /\ SumOver(g, U) = SumOver(f, A)
    BY <1>1, <2>1 DEF Groups
  <2>6. SumOver(g, U \cup {t}) = SumOver(f, In(U \cup {t}))
    BY <2>2, <2>3, <2>4, <2>5
  <2> QED
    BY <2>6
<1>5. Inductive(G, T)
  BY <1>3, <1>4 DEF Inductive
<1>6. T \in G
  <2>1. G \in SUBSET (SUBSET T)
    OBVIOUS
  <2> HIDE DEF G
  <2> QED
    BY <1>5, <2>1, SubsetInduction
<1>7. In(T) = S
  OBVIOUS
<1>8. SumFunction(g) = SumOver(g, T)
  BY <1>2, SumAll
<1> QED
  BY <1>1, <1>2, <1>6, <1>7, <1>8

-----------------------------------------------------------------------------
(* The pages of the statistics.                                             *)

\* Rows as reports leave them: of members for their teams, by sides of a match,
\* one of a report for a member.
RowsFit(rows) ==
  /\ IsFiniteSet(rows)
  /\ rows \subseteq [day : Nat, match : Match, team : Team, member : Member,
                     goals : Nat, assists : Nat, save : Nat, yellow : Nat]
  /\ \A x \in rows : x.team = TeamOf[x.member] /\ x.team \in Sides[x.match]
  /\ \A x, y \in rows : x.day = y.day /\ x.member = y.member => x = y

\* The image of a finite set is finite.
LEMMA ImageFinite ==
  ASSUME NEW S, IsFiniteSet(S), NEW T, NEW f \in [S -> T], T = {f[x] : x \in S}
  PROVE  IsFiniteSet(T) /\ Cardinality(T) <= Cardinality(S)
<1>1. f \in Surjection(S, T)
  BY DEF Surjection
<1> QED
  BY <1>1, FS_Surjection

\* A total is a sum over the rows.
LEMMA TotalIsSum ==
  ASSUME NEW rows, RowsFit(rows), NEW column \in Column, NEW R \in SUBSET rows,
         NEW f, f = [x \in rows |-> x[column]]
  PROVE  /\ f \in [rows -> Nat]
         /\ IsFiniteSet(R)
         /\ Total(R, column) = SumOver(f, R)
         /\ Total(R, column) \in Nat
<1>1. \A x \in rows : x[column] \in Nat
  BY DEF RowsFit, Column
<1>2. f \in [rows -> Nat]
  BY <1>1
<1>3. [x \in R |-> x[column]] = [x \in R |-> f[x]]
  OBVIOUS
<1>4. Total(R, column) = SumOver(f, R)
  BY <1>3 DEF Total, SumOver
<1>5. SumOver(f, R) \in Nat /\ IsFiniteSet(R)
  BY <1>2, SumGrows, FS_Subset DEF RowsFit
<1> QED
  BY <1>2, <1>4, <1>5

\* Totals of disjoint sets of rows.
LEMMA TotalSplits ==
  ASSUME NEW rows, RowsFit(rows), NEW column \in Column,
         NEW R \in SUBSET rows, NEW Q \in SUBSET rows, R \cap Q = {}
  PROVE  /\ Total(R \cup Q, column) = Total(R, column) + Total(Q, column)
         /\ Total(R, column) \in Nat /\ Total(Q, column) \in Nat
<1>1. PICK f : f = [x \in rows |-> x[column]]
  OBVIOUS
<1>2. SumOver(f, R \cup Q) = SumOver(f, R) + SumOver(f, Q)
  BY <1>1, TotalIsSum, SumUnion DEF RowsFit
<1>3. R \cup Q \in SUBSET rows
  OBVIOUS
<1> QED
  BY <1>1, <1>2, <1>3, TotalIsSum

\* Fewer rows have no greater total.
LEMMA TotalAtMost ==
  ASSUME NEW rows, RowsFit(rows), NEW column \in Column,
         NEW R \in SUBSET rows, NEW Q \in SUBSET R
  PROVE  Total(Q, column) <= Total(R, column)
<1>1. PICK P \in SUBSET rows : P = R \ Q
  OBVIOUS
<1>2. R = Q \cup P /\ Q \in SUBSET rows /\ Q \cap P = {}
  BY <1>1
<1>3. /\ Total(Q \cup P, column) = Total(Q, column) + Total(P, column)
      /\ Total(Q, column) \in Nat /\ Total(P, column) \in Nat
  BY <1>2, TotalSplits
<1> QED
  BY <1>2, <1>3

\* A total is that of its groups: GROUP BY loses no row.
LEMMA TotalByGroups ==
  ASSUME NEW rows, RowsFit(rows), NEW column \in Column, NEW R \in SUBSET rows,
         NEW T, IsFiniteSet(T), NEW h \in [R -> T]
  PROVE  SumFunction([t \in T |-> Total({x \in R : h[x] = t}, column)]) = Total(R, column)
<1>1. PICK f : f = [x \in rows |-> x[column]]
  OBVIOUS
<1>2. PICK g : g = [x \in R |-> f[x]]
  OBVIOUS
<1>3. g \in [R -> Nat] /\ IsFiniteSet(R)
  BY <1>1, <1>2, TotalIsSum
<1>4. ASSUME NEW Q \in SUBSET R
      PROVE  SumOver(g, Q) = Total(Q, column)
  <2>1. [x \in Q |-> g[x]] = [x \in Q |-> f[x]]
    BY <1>2
  <2>2. SumOver(g, Q) = SumOver(f, Q)
    BY <2>1 DEF SumOver
  <2> QED
    BY <1>1, <2>2, TotalIsSum
<1>5. SumFunction(Groups(g, R, h, T)) = SumOver(g, R)
  BY <1>3, SumByGroups
<1>6. Groups(g, R, h, T) = [t \in T |-> Total({x \in R : h[x] = t}, column)]
  BY <1>4 DEF Groups
<1> QED
  BY <1>4, <1>5, <1>6

\* The goals of a team are those of its players and of who has left.
LEMMA PlayersAddUp ==
  ASSUME NEW rows, RowsFit(rows), NEW gone, NEW t \in Team
  PROVE  getGoals(rows, t) = Shown(getPlayers(rows, gone, t), "goals")
                               + Total({x \in RowsOf(rows, t) : x.member \in gone}, "goals")
<1>1. PICK stay, gave : /\ stay = {x \in RowsOf(rows, t) : x.member \notin gone}
                        /\ gave = {x \in RowsOf(rows, t) : x.member \in gone}
  OBVIOUS
<1>2. /\ RowsOf(rows, t) = stay \cup gave /\ stay \cap gave = {}
      /\ stay \in SUBSET rows /\ gave \in SUBSET rows
  BY <1>1 DEF RowsOf
<1>3. "goals" \in Column
  BY DEF Column
<1>4. getGoals(rows, t) = Total(stay, "goals") + Total(gave, "goals")
  BY <1>2, <1>3, TotalSplits DEF getGoals
<1>5. PICK listed : listed = Listed(gone, t)
  OBVIOUS
<1>6. IsFiniteSet(listed)
  BY <1>5, StatisticsAssumption, FS_Subset DEF Listed
<1>7. PICK h : h = [x \in stay |-> x.member]
  OBVIOUS
<1>8. \A x \in rows : x.member \in Member /\ x.team = TeamOf[x.member]
  BY DEF RowsFit
<1>9. h \in [stay -> listed]
  BY <1>1, <1>2, <1>5, <1>7, <1>8 DEF Listed, RowsOf
<1>10. SumFunction([p \in listed |-> Total({x \in stay : h[x] = p}, "goals")]) = Total(stay, "goals")
  BY <1>2, <1>3, <1>6, <1>9, TotalByGroups
<1>11. \A p \in listed : {x \in stay : h[x] = p} = RecordOf(rows, p)
  BY <1>1, <1>5, <1>7, <1>8 DEF RecordOf, RowsOf, Listed
<1>12. Shown(getPlayers(rows, gone, t), "goals")
         = SumFunction([p \in listed |-> Total({x \in stay : h[x] = p}, "goals")])
  <2>1. PICK page : page = getPlayers(rows, gone, t)
    OBVIOUS
  <2>2. DOMAIN page = listed
    BY <1>5, <2>1 DEF getPlayers
  <2>3. \A p \in listed : page[p]["goals"] = Total(RecordOf(rows, p), "goals")
    BY <1>3, <1>5, <2>1 DEF getPlayers
  <2>4. [p \in DOMAIN page |-> page[p]["goals"]]
          = [p \in listed |-> Total({x \in stay : h[x] = p}, "goals")]
    BY <1>11, <2>2, <2>3
  <2> QED
    BY <2>1, <2>4 DEF Shown
<1> QED
  BY <1>1, <1>4, <1>10, <1>12

\* While there are few days, the cards are all shown.
LEMMA CardsAddUp ==
  ASSUME NEW rows, RowsFit(rows), NEW t \in Team,
         Cardinality(DOMAIN getYellowAndRedCards(rows, t)) < CardDays
  PROVE  SumFunction(getYellowAndRedCards(rows, t)) = Total(RowsOf(rows, t), "yellow")
<1>1. PICK own : own = RowsOf(rows, t)
  OBVIOUS
<1>2. PICK h : h = [x \in own |-> x.day]
  OBVIOUS
<1>3. PICK days : days = {x.day : x \in own}
  OBVIOUS
<1>4. PICK shown : shown = {d \in days : Cardinality({e \in days : e < d}) < CardDays}
  OBVIOUS
<1>5. own \in SUBSET rows /\ IsFiniteSet(own)
  BY <1>1, FS_Subset DEF RowsOf, RowsFit
<1>6. IsFiniteSet(days) /\ days \in SUBSET Nat
  <2>1. \A x \in own : x.day \in Nat
    BY <1>5 DEF RowsFit
  <2> QED
    <3>1. days = {h[x] : x \in own}
      BY <1>2, <1>3
    <3>2. h \in [own -> days]
      BY <1>2, <1>3
    <3>3. IsFiniteSet(days)
      BY <1>5, <3>1, <3>2, ImageFinite
    <3>4. days \in SUBSET Nat
      BY <1>3, <2>1
    <3> QED
      BY <3>3, <3>4
<1>7. DOMAIN getYellowAndRedCards(rows, t) = shown
  BY <1>1, <1>3, <1>4 DEF getYellowAndRedCards
<1>8. shown = days
  <2> SUFFICES ASSUME days \ shown # {} PROVE FALSE
    BY <1>4
  <2>1. PICK d \in days \ shown : \A e \in days \ shown : d <= e
    <3>1. days \ shown \in SUBSET Nat
      BY <1>6
    <3> QED
      BY <3>1, Least
  <2>2. PICK early : early = {e \in days : e < d}
    OBVIOUS
  <2>3. early \subseteq shown
    <3>1. \A e \in early : e \in days /\ e < d /\ e \in Nat /\ d \in Nat
      BY <1>6, <2>1, <2>2
    <3> QED
      BY <2>1, <3>1
  <2>4. IsFiniteSet(shown)
    BY <1>4, <1>6, FS_Subset
  <2>5. Cardinality(early) <= Cardinality(shown)
    BY <2>3, <2>4, FS_Subset
  <2>6. ~ (Cardinality(early) < CardDays)
    BY <1>4, <2>1, <2>2
  <2>7. Cardinality(early) \in Nat /\ Cardinality(shown) \in Nat /\ CardDays \in Nat
    BY <2>3, <2>4, FS_Subset, FS_CardinalityType, StatisticsAssumption
  <2> QED
    BY <1>7, <2>5, <2>6, <2>7
<1>9. h \in [own -> days] /\ "yellow" \in Column
  BY <1>2, <1>3 DEF Column
<1>10. SumFunction([d \in days |-> Total({x \in own : h[x] = d}, "yellow")]) = Total(own, "yellow")
  <2>1. IsFiniteSet(days) /\ h \in [own -> days] /\ own \in SUBSET rows /\ "yellow" \in Column
    BY <1>5, <1>6, <1>9
  <2> QED
    BY <2>1, TotalByGroups
<1>11. getYellowAndRedCards(rows, t) = [d \in days |-> Total({x \in own : h[x] = d}, "yellow")]
  <2>1. getYellowAndRedCards(rows, t) = [d \in shown |-> Total({x \in own : x.day = d}, "yellow")]
    BY <1>1, <1>3, <1>4 DEF getYellowAndRedCards
  <2>2. \A d : {x \in own : x.day = d} = {x \in own : h[x] = d}
    BY <1>2
  <2> QED
    BY <1>8, <2>1, <2>2
<1> QED
  BY <1>1, <1>10, <1>11

\* What is shown of the others is no more than they have.
LEMMA OthersAddUp ==
  ASSUME NEW rows, RowsFit(rows), NEW t \in Team,
         NEW shown \in getStatsForOtherTeams(rows, t)
  PROVE  shown.goals <= SumFunction([o \in Team \ {t} |-> getGoals(rows, o)])
<1>1. PICK others : others = rows \ RowsOf(rows, t)
  OBVIOUS
<1>2. PICK S : shown = [c \in {"goals", "assists"} |-> Total({x \in others : x.match \in S}, c)]
  BY <1>1 DEF getStatsForOtherTeams
<1>3. PICK some : some = {x \in others : x.match \in S}
  OBVIOUS
<1>4. others \in SUBSET rows /\ some \in SUBSET others /\ "goals" \in Column
  BY <1>1, <1>3 DEF Column
<1>5. shown.goals = Total(some, "goals")
  BY <1>2, <1>3
<1>6. Total(some, "goals") <= Total(others, "goals")
  BY <1>4, TotalAtMost
<1>7. PICK T : T = Team \ {t}
  OBVIOUS
<1>8. PICK h : h = [x \in others |-> x.team]
  OBVIOUS
<1>9. IsFiniteSet(T)
  BY <1>7, StatisticsAssumption, FS_Subset
<1>10. h \in [others -> T]
  BY <1>1, <1>7, <1>8 DEF RowsOf, RowsFit
<1>11. SumFunction([o \in T |-> Total({x \in others : h[x] = o}, "goals")]) = Total(others, "goals")
  <2>1. IsFiniteSet(T) /\ h \in [others -> T] /\ others \in SUBSET rows /\ "goals" \in Column
    BY <1>4, <1>9, <1>10
  <2> QED
    BY <2>1, TotalByGroups
<1>12. \A o \in T : {x \in others : h[x] = o} = RowsOf(rows, o)
  BY <1>1, <1>7, <1>8 DEF RowsOf
<1>13. [o \in T |-> Total({x \in others : h[x] = o}, "goals")] = [o \in T |-> getGoals(rows, o)]
  BY <1>12 DEF getGoals
<1> QED
  BY <1>5, <1>6, <1>7, <1>11, <1>13

\* A goal is conceded by the other side of its match, if that has reported.
LEMMA ConcededAddsUp ==
  ASSUME NEW rows, RowsFit(rows)
  PROVE  LET answered == {x \in rows : \E y \in rows : y.match = x.match /\ y.team # x.team}
         IN  SumFunction([t \in Team |-> getConceded(rows, t)]) = Total(answered, "goals")
<1>1. PICK answered :
        answered = {x \in rows : \E y \in rows : y.match = x.match /\ y.team # x.team}
  OBVIOUS
<1>2. \A x \in rows : x.match \in Match /\ x.team \in Team /\ x.team \in Sides[x.match]
  BY DEF RowsFit
<1>3. \A m \in Match : \E a, b \in Team : a # b /\ Sides[m] = {a, b}
  BY CacheAssumption
<1>4. PICK h : h = [x \in answered |-> CHOOSE o \in Team : o \in Sides[x.match] /\ o # x.team]
  OBVIOUS
<1>5. \A x \in answered : h[x] \in Team /\ h[x] \in Sides[x.match] /\ h[x] # x.team
  <2> SUFFICES ASSUME NEW x \in answered
               PROVE  h[x] \in Team /\ h[x] \in Sides[x.match] /\ h[x] # x.team
    OBVIOUS
  <2>1. x \in rows
    BY <1>1
  <2>2. \E o \in Team : o \in Sides[x.match] /\ o # x.team
    BY <1>2, <1>3, <2>1
  <2> QED
    BY <1>4, <2>2
<1>6. \A m \in Match : \A a, b, c \in Sides[m] : a # b /\ c # b => a = c
  BY <1>3
<1>7. answered \in SUBSET rows /\ "goals" \in Column
  BY <1>1 DEF Column
<1>8. h \in [answered -> Team]
  BY <1>4, <1>5
<1>9. SumFunction([t \in Team |-> Total({x \in answered : h[x] = t}, "goals")])
        = Total(answered, "goals")
  <2>1. IsFiniteSet(Team) /\ h \in [answered -> Team] /\ answered \in SUBSET rows
          /\ "goals" \in Column
    BY <1>7, <1>8, StatisticsAssumption
  <2> QED
    BY <2>1, TotalByGroups
<1>10. ASSUME NEW t \in Team
       PROVE  getConceded(rows, t) = Total({x \in answered : h[x] = t}, "goals")
  <2>1. PICK played : played = {x.match : x \in RowsOf(rows, t)}
    OBVIOUS
  <2>2. getConceded(rows, t) = Total({x \in rows : x.match \in played /\ x.team # t}, "goals")
    BY <2>1 DEF getConceded
  <2>3. ASSUME NEW x \in rows, x.match \in played, x.team # t
        PROVE  x \in answered /\ h[x] = t
    <3>1. PICK y \in rows : y.team = t /\ y.match = x.match
      BY <2>1, <2>3 DEF RowsOf
    <3>2. x \in answered
      BY <1>1, <2>3, <3>1
    <3> QED
      BY <1>2, <1>5, <1>6, <2>3, <3>1, <3>2
  <2>4. ASSUME NEW x \in answered, h[x] = t
        PROVE  x \in rows /\ x.match \in played /\ x.team # t
    <3>1. PICK y \in rows : y.match = x.match /\ y.team # x.team
      BY <1>1
    <3>2. y.team = t
      BY <1>1, <1>2, <1>5, <1>6, <2>4, <3>1
    <3> QED
      BY <1>1, <2>1, <3>1, <3>2 DEF RowsOf
  <2>5. {x \in rows : x.match \in played /\ x.team # t} = {x \in answered : h[x] = t}
    BY <1>7, <2>3, <2>4
  <2> QED
    BY <2>2, <2>5
<1>11. [t \in Team |-> getConceded(rows, t)]
         = [t \in Team |-> Total({x \in answered : h[x] = t}, "goals")]
  BY <1>10
<1> QED
  BY <1>1, <1>9, <1>11

\* A history holds all rows of its user.
LEMMA HistoryAddsUp ==
  ASSUME NEW rows, RowsFit(rows), NEW u
  PROVE  SumFunction(getMemberHistory(rows, u))
           = Total({x \in rows : UserOf[x.member] = u}, "goals")
<1>1. PICK own : own = {x \in rows : UserOf[x.member] = u}
  OBVIOUS
<1>2. PICK T : T = {x.team : x \in own}
  OBVIOUS
<1>3. PICK h : h = [x \in own |-> x.team]
  OBVIOUS
<1>4. own \in SUBSET rows /\ "goals" \in Column /\ h \in [own -> T]
  BY <1>1, <1>2, <1>3 DEF Column
<1>5. T \in SUBSET Team
  BY <1>1, <1>2 DEF RowsFit
<1>6. IsFiniteSet(T)
  BY <1>5, StatisticsAssumption, FS_Subset
<1>7. SumFunction([t \in T |-> Total({x \in own : h[x] = t}, "goals")]) = Total(own, "goals")
  <2>1. IsFiniteSet(T) /\ h \in [own -> T] /\ own \in SUBSET rows /\ "goals" \in Column
    BY <1>4, <1>6
  <2> QED
    BY <2>1, TotalByGroups
<1>8. \A t \in T : {x \in own : h[x] = t} = RowsOf(own, t)
  BY <1>3 DEF RowsOf
<1>9. getMemberHistory(rows, u) = [t \in T |-> Total({x \in own : h[x] = t}, "goals")]
  BY <1>1, <1>2, <1>8 DEF getMemberHistory
<1> QED
  BY <1>1, <1>7, <1>9

\* The pages of a league agree.
LEMMA PagesAgreeOnRows ==
  ASSUME NEW rows, RowsFit(rows), NEW gone
  PROVE  PagesAgree(rows, gone)
BY PlayersAddUp, CardsAddUp, OthersAddUp, ConcededAddsUp, HistoryAddsUp DEF PagesAgree

\* The cards of the players of a team in some games.
CardsIn(rows, t, games) ==
  [p \in {x.member : x \in RowsOf(rows, t)} |->
     Total({x \in RecordOf(rows, p) : x.match \in games}, "yellow")]

\* Who is warned is a player, with no more cards than the player has.
LEMMA WarnedArePlayers ==
  ASSUME NEW rows, RowsFit(rows), NEW gone, NEW t \in Team,
         NEW warned \in getWarningmember(rows, gone, t), NEW p \in DOMAIN warned
  PROVE  /\ p \in Listed(gone, t)
         /\ warned[p] <= getPlayers(rows, gone, t)[p].yellow
<1>1. PICK latest : \E L \in SUBSET DOMAIN CardsIn(rows, t, latest) :
        warned = [q \in L \ gone |-> CardsIn(rows, t, latest)[q]]
  <2> DEFINE games == {x.match : x \in RowsOf(rows, t)}
             late == {g \in games : Cardinality({h \in games : h > g}) < WarnedGames}
             sums == CardsIn(rows, t, late)
             carded == {q \in DOMAIN sums : sums[q] > 0}
  <2>1. \E L \in SUBSET carded : warned = [q \in L \ gone |-> sums[q]]
    BY DEF getWarningmember, CardsIn
  <2>2. \E L \in SUBSET DOMAIN sums : warned = [q \in L \ gone |-> sums[q]]
    BY <2>1
  <2>3. PICK a : a = late
    OBVIOUS
  <2> HIDE DEF late
  <2> QED
    BY <2>2, <2>3
<1> DEFINE cards == CardsIn(rows, t, latest)
<1>2. p \in DOMAIN cards /\ p \notin gone /\ warned[p] = cards[p]
  BY <1>1
<1>3. p \in Listed(gone, t)
  BY <1>2 DEF CardsIn, RowsOf, RowsFit, Listed
<1>4. warned[p] = Total({x \in RecordOf(rows, p) : x.match \in latest}, "yellow")
  BY <1>2 DEF CardsIn
<1>5. "yellow" \in Column /\ RecordOf(rows, p) \in SUBSET rows
  BY DEF Column, RecordOf
<1>6. getPlayers(rows, gone, t)[p].yellow = Total(RecordOf(rows, p), "yellow")
  BY <1>3, <1>5 DEF getPlayers
<1>7. Total({x \in RecordOf(rows, p) : x.match \in latest}, "yellow")
        <= Total(RecordOf(rows, p), "yellow")
  <2>1. PICK R \in SUBSET rows : R = RecordOf(rows, p)
    BY <1>5
  <2>2. PICK Q \in SUBSET R : Q = {x \in R : x.match \in latest}
    OBVIOUS
  <2>3. Total(Q, "yellow") <= Total(R, "yellow")
    BY <1>5, <2>1, <2>2, TotalAtMost
  <2> QED
    BY <2>1, <2>2, <2>3
<1> QED
  BY <1>3, <1>4, <1>6, <1>7

\* The lesser of two numbers.
LEMMA MinOfTwo ==
  ASSUME NEW a \in Nat, NEW b \in Nat
  PROVE  Min({a, b}) = IF a <= b THEN a ELSE b
<1>1. PICK m : m = IF a <= b THEN a ELSE b
  OBVIOUS
<1>2. m \in {a, b} /\ \A y \in {a, b} : m <= y
  BY <1>1
<1>3. \A x \in {a, b} : (\A y \in {a, b} : x <= y) => x = m
  BY <1>1
<1> QED
  BY <1>1, <1>2, <1>3 DEF Min

\* The list of players shows the points of every ranking.
LEMMA PointsListed ==
  ASSUME NEW rows, NEW gone, NEW t \in Team, NEW by \in Ranking, NEW p \in Listed(gone, t)
  PROVE  ListedPoints(getPlayers(rows, gone, t)[p], by) = Points(rows, p, by)
<1>1. PICK own : own = RecordOf(rows, p)
  OBVIOUS
<1>2. PICK player : player = getPlayers(rows, gone, t)[p]
  OBVIOUS
<1>3. player.games = Cardinality(own)
  BY <1>1, <1>2 DEF getPlayers
<1>4. \A c \in Column : player[c] = Total(own, c)
  BY <1>1, <1>2 DEF getPlayers, Column
<1>5. player.goals = Total(own, "goals") /\ player.assists = Total(own, "assists")
  BY <1>4 DEF Column
<1>6. CASE by = "joining"
  BY <1>1, <1>2, <1>3, <1>6 DEF ListedPoints, Points
<1>7. CASE by = "attackPoint"
  BY <1>1, <1>2, <1>5, <1>7 DEF ListedPoints, Points
<1>8. CASE by \notin {"joining", "attackPoint"}
  <2>1. by \in Column
    BY <1>8 DEF Ranking, Column
  <2>2. ListedPoints(player, by) = player[by] /\ Points(rows, p, by) = Total(own, by)
    BY <1>1, <1>8 DEF ListedPoints, Points
  <2> QED
    BY <1>2, <1>4, <2>1, <2>2
<1> QED
  BY <1>6, <1>7, <1>8

\* Who can be ranked, by the rows or by the list of players.
LEMMA RankedArePlayers ==
  ASSUME NEW rows, RowsFit(rows), NEW gone, NEW t \in Team
  PROVE  LET players == getPlayers(rows, gone, t) IN
         /\ DOMAIN players = Listed(gone, t)
         /\ Ranked(rows, gone, t)
              = {p \in DOMAIN players : players[p].games > 0 /\ UserOf[p] \in Profiled}
<1>1. PICK players : players = getPlayers(rows, gone, t)
  OBVIOUS
<1>2. DOMAIN players = Listed(gone, t)
  BY <1>1 DEF getPlayers
<1>3. \A p \in Listed(gone, t) : players[p].games = Cardinality(RecordOf(rows, p))
  BY <1>1 DEF getPlayers
<1>4. \A p : IsFiniteSet(RecordOf(rows, p)) /\ Cardinality(RecordOf(rows, p)) \in Nat
  <2>1. \A p : RecordOf(rows, p) \in SUBSET rows
    BY DEF RecordOf
  <2> QED
    BY <2>1, FS_Subset, FS_CardinalityType DEF RowsFit
<1>5. \A p : Cardinality(RecordOf(rows, p)) > 0 <=> RecordOf(rows, p) # {}
  BY <1>4, FS_EmptySet
<1>6. \A p \in Listed(gone, t) :
        RecordOf(rows, p) # {} <=> p \in {x.member : x \in RowsOf(rows, t)}
  BY DEF RowsOf, RecordOf, RowsFit, Listed
<1>7. \A p \in {x.member : x \in RowsOf(rows, t)} \ gone : p \in Listed(gone, t)
  BY DEF RowsOf, RowsFit, Listed
<1>8. \A p \in Listed(gone, t) : p \notin gone
  BY DEF Listed
<1>9. Ranked(rows, gone, t)
        = {p \in DOMAIN players : players[p].games > 0 /\ UserOf[p] \in Profiled}
  BY <1>2, <1>3, <1>5, <1>6, <1>7, <1>8 DEF Ranked
<1> QED
  BY <1>1, <1>2, <1>9

\* A ranking agrees with the list of players.
LEMMA LeadersArePlayers ==
  ASSUME NEW rows, RowsFit(rows), NEW gone, NEW t \in Team, NEW by \in Ranking,
         NEW L \in Leaders(rows, gone, t, by)
  PROVE  RankingFitsPlayers(rows, gone, t, by, L)
<1>1. PICK players : players = getPlayers(rows, gone, t)
  OBVIOUS
<1>2. PICK all : all = Ranked(rows, gone, t)
  OBVIOUS
<1>3. /\ DOMAIN players = Listed(gone, t)
      /\ all = {p \in DOMAIN players : players[p].games > 0 /\ UserOf[p] \in Profiled}
  BY <1>1, <1>2, RankedArePlayers
<1>4. /\ L \in SUBSET all
      /\ Cardinality(L) = Min({TopPlaces, Cardinality(all)})
      /\ \A p \in L, q \in all \ L : Points(rows, p, by) >= Points(rows, q, by)
  BY <1>2 DEF Leaders
<1>5. \A p \in DOMAIN players : Points(rows, p, by) = ListedPoints(players[p], by)
  BY <1>1, <1>3, PointsListed
<1>6. IsFiniteSet(all) /\ Cardinality(all) \in Nat
  <2>1. all \in SUBSET Member
    BY <1>3 DEF Listed
  <2> QED
    BY <2>1, StatisticsAssumption, FS_Subset, FS_CardinalityType
<1>7. ASSUME Cardinality(L) < TopPlaces PROVE L = all
  <2>1. TopPlaces \in Nat
    BY StatisticsAssumption
  <2>2. Cardinality(L) = Cardinality(all)
    BY <1>4, <1>6, <1>7, <2>1, MinOfTwo
  <2> QED
    BY <1>4, <1>6, <2>2, FS_Subset
<1>8. PICK listed : listed = [p \in DOMAIN players |-> ListedPoints(players[p], by)]
  OBVIOUS
<1>9. \A p \in all : Points(rows, p, by) = listed[p]
  BY <1>3, <1>5, <1>8
<1> QED
  BY <1>1, <1>3, <1>4, <1>7, <1>8, <1>9 DEF RankingFitsPlayers

\* Rankings and warnings name players.
LEMMA RankingsNameThem ==
  ASSUME NEW rows, RowsFit(rows), NEW gone
  PROVE  RankingsNamePlayers(rows, gone)
BY WarnedArePlayers, LeadersArePlayers DEF RankingsNamePlayers

-----------------------------------------------------------------------------
(* The lists of teams and members.                                          *)

\* Counting group by group counts everything once.
LEMMA GroupsCount ==
  ASSUME NEW S, IsFiniteSet(S), NEW T, IsFiniteSet(T), NEW h \in [S -> T]
  PROVE  SumFunction([t \in T |-> Cardinality({x \in S : h[x] = t})]) = Cardinality(S)
<1>1. PICK f : f = [x \in S |-> 1]
  OBVIOUS
<1>2. f \in [S -> {1}] /\ f \in [S -> Nat]
  BY <1>1
<1>3. ASSUME NEW Q \in SUBSET S
      PROVE  SumOver(f, Q) = Cardinality(Q)
  <2>1. PICK g : g = [x \in Q |-> f[x]]
    OBVIOUS
  <2>2. g \in [Q -> {1}] /\ IsFiniteSet(Q)
    BY <1>2, <2>1, FS_Subset
  <2>3. SumOver(g, Q) = SumOver(f, Q)
    <3>1. [x \in Q |-> g[x]] = [x \in Q |-> f[x]]
      BY <2>1
    <3> QED
      BY <3>1 DEF SumOver
  <2> QED
    BY <2>2, <2>3, SumCounts
<1>4. SumFunction(Groups(f, S, h, T)) = SumOver(f, S)
  BY <1>2, SumByGroups
<1>5. Groups(f, S, h, T) = [t \in T |-> Cardinality({x \in S : h[x] = t})]
  BY <1>3 DEF Groups
<1> QED
  BY <1>3, <1>4, <1>5

\* A list that fits on a page is its first page.
LEMMA FullPage ==
  ASSUME NEW n \in Nat, NEW take \in Nat, n <= take
  PROVE  PageOf(1 .. n, "ASC", take, 1) = 1 .. n
<1>1. Skip(take, 1) = 0
  BY DEF Skip
<1>2. ASSUME NEW i \in 1 .. n
      PROVE  Cardinality(Before(1 .. n, "ASC", i)) \in 0 .. take - 1
  <2>1. i \in Nat /\ i - 1 \in Nat
    OBVIOUS
  <2>2. Before(1 .. n, "ASC", i) = 1 .. (i - 1)
    BY <2>1 DEF Before
  <2>3. Cardinality(1 .. (i - 1)) = i - 1
    BY <2>1, FS_Interval
  <2> QED
    BY <2>1, <2>2, <2>3
<1>3. \A i \in 1 .. n :
        Cardinality(Before(1 .. n, "ASC", i)) \in Skip(take, 1) .. Skip(take, 1) + take - 1
  BY <1>1, <1>2
<1> QED
  BY <1>3 DEF PageOf

\* Every place of a list is on one page, and on a page of its own number.
OnPage(r, take, n) == take * (n - 1) <= r /\ r < take * n

\* Every place is on one of the pages up to its own number.
LEMMA PageFound ==
  ASSUME NEW take \in Nat \ {0}, NEW r \in Nat
  PROVE  \E n \in 1 .. r + 1 : OnPage(r, take, n)
<1> DEFINE D == {n \in Nat : r < take * n}
<1>1. D \in SUBSET Nat
  OBVIOUS
<1>2. r + 1 \in D
  <2>1. take * (r + 1) >= r + 1
    OBVIOUS
  <2> QED
    BY <2>1
<1>3. PICK n \in D : \A m \in D : n <= m
  <2> HIDE DEF D
  <2> QED
    BY <1>1, <1>2, Least
<1>4. n # 0
  BY <1>3
<1>5. n - 1 \in Nat /\ n - 1 \notin D
  BY <1>3, <1>4
<1>6. take * (n - 1) <= r
  <2>1. ~ (r < take * (n - 1))
    BY <1>5
  <2>2. take * (n - 1) \in Nat
    BY <1>5
  <2> QED
    BY <2>1, <2>2
<1>7. r < take * n /\ n \in 1 .. r + 1
  BY <1>1, <1>2, <1>3, <1>4
<1> QED
  BY <1>6, <1>7 DEF OnPage

\* No place is on two pages.
LEMMA PageSingle ==
  ASSUME NEW take \in Nat \ {0}, NEW r \in Nat, NEW n \in Nat \ {0}, NEW m \in Nat \ {0},
         OnPage(r, take, n), OnPage(r, take, m)
  PROVE  ~ (n < m)
<1> SUFFICES ASSUME n < m PROVE FALSE
  OBVIOUS
<1>1. PICK k \in Nat : m - 1 = n + k
  <2>1. m - 1 - n \in Nat /\ m - 1 = n + (m - 1 - n)
    OBVIOUS
  <2> QED
    BY <2>1
<1>2. take * (n + k) = take * n + take * k
  BY <1>1
<1>3. take * k \in Nat /\ take * n \in Nat
  BY <1>1
<1>4. take * n <= take * (m - 1)
  BY <1>1, <1>2, <1>3
<1>5. take * (m - 1) <= r /\ r < take * n
  BY DEF OnPage
<1>6. PICK u \in Nat, v \in Nat : u = take * n /\ v = take * (m - 1)
  BY <1>1, <1>2, <1>3
<1> QED
  BY <1>4, <1>5, <1>6

\* A row is on the page of its place in the list.
LEMMA PageRows ==
  ASSUME NEW S \in SUBSET Nat, IsFiniteSet(S), NEW take \in Nat \ {0}, NEW n \in Nat \ {0},
         NEW i \in S
  PROVE  /\ Cardinality(Before(S, "ASC", i)) \in 0 .. Cardinality(S) - 1
         /\ i \in PageOf(S, "ASC", take, n)
              <=> OnPage(Cardinality(Before(S, "ASC", i)), take, n)
<1>1. PICK B : B = Before(S, "ASC", i)
  OBVIOUS
<1>2. B \in SUBSET S /\ i \notin B
  BY <1>1 DEF Before
<1>3. PICK r \in Nat : r = Cardinality(B)
  BY <1>2, FS_Subset, FS_CardinalityType
<1>4. PICK k \in Nat : k = Cardinality(S)
  BY FS_CardinalityType
<1>5. r <= k /\ r # k
  BY <1>2, <1>3, <1>4, FS_Subset
<1>6. PICK a \in Nat : a = take * (n - 1)
  <2>1. take * (n - 1) \in Nat
    OBVIOUS
  <2> QED
    BY <2>1
<1>7. take * n = a + take
  BY <1>6
<1>8. i \in PageOf(S, "ASC", take, n) <=> r \in a .. a + take - 1
  BY <1>1, <1>3, <1>6 DEF PageOf, Skip
<1> QED
  BY <1>1, <1>3, <1>4, <1>5, <1>6, <1>7, <1>8 DEF OnPage

\* The members of a team are finitely many numbers.
LEMMA ListedFinite ==
  ASSUME NEW gone, NEW t
  PROVE  /\ Listed(gone, t) \in SUBSET Nat
         /\ IsFiniteSet(Listed(gone, t))
         /\ Cardinality(Listed(gone, t)) \in Nat
<1>1. Listed(gone, t) \in SUBSET Member
  BY DEF Listed
<1> QED
  BY <1>1, StatisticsAssumption, TeamPagesAssumption, FS_Subset, FS_CardinalityType

\* Each element of S lies in one of the pages, and in no two.
IsPartition(S, pages) ==
  /\ \A P \in pages : P \in SUBSET S
  /\ \A i \in S : \E P \in pages : i \in P
  /\ \A i \in S, P, Q \in pages : i \in P /\ i \in Q => P = Q

\* The parts of a set have as many elements as the set.
LEMMA PartitionCounts ==
  ASSUME NEW S, IsFiniteSet(S), NEW pages, IsFiniteSet(pages), IsPartition(S, pages)
  PROVE  SumFunction([P \in pages |-> Cardinality(P)]) = Cardinality(S)
<1>1. PICK h : h = [i \in S |-> CHOOSE P \in pages : i \in P]
  OBVIOUS
<1>2. \A i \in S : h[i] \in pages /\ i \in h[i]
  BY <1>1 DEF IsPartition
<1>3. h \in [S -> pages]
  BY <1>1, <1>2
<1>4. SumFunction([P \in pages |-> Cardinality({i \in S : h[i] = P})]) = Cardinality(S)
  BY <1>3, GroupsCount
<1>5. ASSUME NEW P \in pages
      PROVE  {i \in S : h[i] = P} = P
  <2>1. \A i \in P : i \in S /\ h[i] = P
    BY <1>2 DEF IsPartition
  <2>2. \A i \in S : h[i] = P => i \in P
    BY <1>2
  <2> QED
    BY <2>1, <2>2
<1>6. [P \in pages |-> Cardinality({i \in S : h[i] = P})] = [P \in pages |-> Cardinality(P)]
  BY <1>5
<1> QED
  BY <1>4, <1>6

\* The pages of a list that can be read hold each of its rows once.
LEMMA PagesPartition ==
  ASSUME NEW S \in SUBSET Nat, IsFiniteSet(S), NEW take \in Nat \ {0},
         NEW pages, pages = {PageOf(S, "ASC", take, n) : n \in 1 .. Cardinality(S)}
  PROVE  /\ UNION pages = S
         /\ SumFunction([P \in pages |-> Cardinality(P)]) = Cardinality(S)
<1>1. PICK k \in Nat : k = Cardinality(S)
  BY FS_CardinalityType
<1>2. PICK p : p = [n \in 1 .. k |-> PageOf(S, "ASC", take, n)]
  OBVIOUS
<1>3. pages = {p[n] : n \in 1 .. k}
  BY <1>1, <1>2
<1>4. IsFiniteSet(pages)
  <2>1. \A n \in 1 .. k : p[n] \in pages
    BY <1>3
  <2>2. p \in [1 .. k -> pages]
    BY <1>2, <2>1
  <2>3. 1 \in Int /\ k \in Int
    OBVIOUS
  <2>4. IsFiniteSet(1 .. k)
    BY <2>3, FS_Interval
  <2> QED
    BY <1>3, <2>2, <2>4, ImageFinite
<1>5. \A P \in pages : P \in SUBSET S
  BY <1>2, <1>3 DEF PageOf
<1>6. \A i \in S : \E n \in 1 .. k : i \in p[n]
  <2> SUFFICES ASSUME NEW i \in S PROVE \E n \in 1 .. k : i \in p[n]
    OBVIOUS
  <2>1. PICK r \in 0 .. k - 1 : r = Cardinality(Before(S, "ASC", i))
    BY <1>1, PageRows
  <2>2. PICK n \in 1 .. r + 1 : OnPage(r, take, n)
    <3>1. r \in Nat
      BY <2>1
    <3> QED
      BY <3>1, PageFound
  <2>3. n \in 1 .. k /\ n \in Nat \ {0}
    BY <2>1
  <2>4. i \in PageOf(S, "ASC", take, n)
    BY <2>1, <2>2, <2>3, PageRows
  <2> QED
    BY <1>2, <2>3, <2>4
<1>7. \A i \in S, n, m \in 1 .. k : i \in p[n] /\ i \in p[m] => n = m
  <2> SUFFICES ASSUME NEW i \in S, NEW n \in 1 .. k, NEW m \in 1 .. k, i \in p[n], i \in p[m]
               PROVE  n = m
    OBVIOUS
  <2>1. PICK r \in Nat : r = Cardinality(Before(S, "ASC", i))
    BY <1>1, PageRows
  <2>2. n \in Nat \ {0} /\ m \in Nat \ {0}
    OBVIOUS
  <2>3. OnPage(r, take, n) /\ OnPage(r, take, m)
    BY <1>2, <2>1, <2>2, PageRows
  <2>4. ~ (n < m) /\ ~ (m < n)
    BY <2>2, <2>3, PageSingle
  <2> QED
    BY <2>2, <2>4
<1>8. \A i \in S : \E P \in pages : i \in P
  <2> SUFFICES ASSUME NEW i \in S PROVE \E P \in pages : i \in P
    OBVIOUS
  <2>1. PICK n \in 1 .. k : i \in p[n]
    BY <1>6
  <2>2. p[n] \in pages
    BY <1>3
  <2> QED
    BY <2>1, <2>2
<1>9. \A i \in S, P, Q \in pages : i \in P /\ i \in Q => P = Q
  <2> SUFFICES ASSUME NEW i \in S, NEW P \in pages, NEW Q \in pages, i \in P, i \in Q
               PROVE  P = Q
    OBVIOUS
  <2>1. PICK n \in 1 .. k, m \in 1 .. k : P = p[n] /\ Q = p[m]
    BY <1>3
  <2>2. n = m
    BY <1>7, <2>1
  <2> QED
    BY <2>1, <2>2
<1>10. UNION pages = S
  BY <1>5, <1>8
<1>11. SumFunction([P \in pages |-> Cardinality(P)]) = Cardinality(S)
  <2>1. /\ IsFiniteSet(S) /\ IsFiniteSet(pages)
        /\ IsPartition(S, pages)
    BY <1>4, <1>5, <1>8, <1>9 DEF IsPartition
  <2> QED
    BY <2>1, PartitionCounts
<1> QED
  BY <1>10, <1>11

\* What ListsAgree says of the pages of the list of members of t.
PagesHold(gone, t, take) ==
  LET count == getMemberCountByTeamId(gone, TRUE, t)
      pages == UNION {getTeamMembers(gone, TRUE, t, take, i) : i \in 1 .. count}
      readable == {p \in Member : getMemberOfTeam(gone, TRUE, t, p) # {}} IN
  IF readable = Listed(gone, t)
  THEN UNION pages = readable /\ SumFunction([S \in pages |-> Cardinality(S)]) = count
  ELSE pages = {}

\* The pages of the members of a team hold each once, or none can be read.
LEMMA MemberPagesHold ==
  ASSUME NEW gone, NEW t \in Team, NEW take \in Nat \ {0}
  PROVE  PagesHold(gone, t, take)
<1>1. PICK S : S = Listed(gone, t)
  OBVIOUS
<1>2. PICK count : count = getMemberCountByTeamId(gone, TRUE, t)
  OBVIOUS
<1>3. PICK pages : pages = UNION {getTeamMembers(gone, TRUE, t, take, i) : i \in 1 .. count}
  OBVIOUS
<1>4. PICK readable : readable = {p \in Member : getMemberOfTeam(gone, TRUE, t, p) # {}}
  OBVIOUS
<1>5. S \in SUBSET Nat /\ IsFiniteSet(S) /\ S \in SUBSET Member
  BY <1>1, ListedFinite DEF Listed
<1>6. count = Cardinality(S)
  BY <1>1, <1>2 DEF getMemberCountByTeamId, MembersOf
<1>7. readable = {p \in S : UserOf[p] \in Profiled}
  BY <1>1, <1>4, <1>5 DEF getMemberOfTeam, MembersOf, Reachable
<1>8. readable = S <=> Reachable(S)
  BY <1>7 DEF Reachable
<1>9. CASE Reachable(S)
  <2>1. \A i : getTeamMembers(gone, TRUE, t, take, i) = {PageOf(S, "ASC", take, i)}
    BY <1>1, <1>9 DEF getTeamMembers, MembersOf
  <2>2. pages = {PageOf(S, "ASC", take, n) : n \in 1 .. Cardinality(S)}
    <3>1. pages = UNION {{PageOf(S, "ASC", take, n)} : n \in 1 .. count}
      BY <1>3, <2>1
    <3>2. UNION {{PageOf(S, "ASC", take, n)} : n \in 1 .. count}
            = {PageOf(S, "ASC", take, n) : n \in 1 .. count}
      <4> HIDE DEF PageOf
      <4> QED
        OBVIOUS
    <3> QED
      BY <1>6, <3>1, <3>2
  <2>3. UNION pages = S /\ SumFunction([P \in pages |-> Cardinality(P)]) = Cardinality(S)
    BY <1>5, <2>2, PagesPartition
  <2> QED
    BY <1>1, <1>2, <1>3, <1>4, <1>6, <1>8, <1>9, <2>3 DEF PagesHold
<1>10. CASE ~ Reachable(S)
  <2>1. \A i : getTeamMembers(gone, TRUE, t, take, i) = {}
    BY <1>1, <1>10 DEF getTeamMembers, MembersOf
  <2>2. pages = {}
    BY <1>3, <2>1
  <2> QED
    BY <1>1, <1>2, <1>3, <1>4, <1>8, <1>10, <2>2 DEF PagesHold
<1> QED
  BY <1>9, <1>10

\* The records of the matches are those of the members.
LEMMA MatchesAddUp ==
  ASSUME NEW rows, RowsFit(rows), NEW t \in Team
  PROVE  SumFunction([m \in Match |-> Total(getMembersMatchResult(rows, m, t), "goals")])
           = getGoals(rows, t)
<1>1. PICK own : own = RowsOf(rows, t)
  OBVIOUS
<1>2. PICK h : h = [x \in own |-> x.match]
  OBVIOUS
<1>3. h \in [own -> Match] /\ own \in SUBSET rows /\ "goals" \in Column /\ IsFiniteSet(Match)
  BY <1>1, <1>2, StatisticsAssumption DEF RowsOf, RowsFit, Column
<1>4. SumFunction([m \in Match |-> Total({x \in own : h[x] = m}, "goals")]) = Total(own, "goals")
  BY <1>3, TotalByGroups
<1>5. \A m \in Match : {x \in own : h[x] = m} = getMembersMatchResult(rows, m, t)
  BY <1>1, <1>2 DEF RowsOf, getMembersMatchResult
<1>6. [m \in Match |-> Total({x \in own : h[x] = m}, "goals")]
        = [m \in Match |-> Total(getMembersMatchResult(rows, m, t), "goals")]
  BY <1>5
<1> QED
  BY <1>1, <1>4, <1>6 DEF getGoals

\* The list of teams counts every member once.
LEMMA TeamListCounts ==
  ASSUME NEW gone, NEW existing \in SUBSET Team,
         NEW list \in getTeam(gone, existing, Cardinality(existing), 1)
  PROVE  SumFunction(list) = Cardinality(UNION {getMembers(gone, t) : t \in existing})
<1>1. IsFiniteSet(existing)
  BY StatisticsAssumption, FS_Subset
<1>2. PICK n \in Nat : n = Cardinality(existing)
  BY <1>1, FS_CardinalityType
<1>3. Cardinality(PageOf(1 .. n, "ASC", n, 1)) = n
  BY <1>2, FullPage, FS_Interval
<1>4. PICK S \in SUBSET existing :
        Cardinality(S) = n /\ list = [t \in S |-> getMemberCountByTeamId(gone, TRUE, t)]
  BY <1>2, <1>3 DEF getTeam
<1>5. S = existing
  BY <1>1, <1>2, <1>4, FS_Subset
<1>6. PICK all : all = UNION {getMembers(gone, t) : t \in existing}
  OBVIOUS
<1>7. PICK h : h = [p \in all |-> TeamOf[p]]
  OBVIOUS
<1>8. all \in SUBSET Member /\ \A p \in all : TeamOf[p] \in existing
  BY <1>6 DEF getMembers, Listed
<1>9. IsFiniteSet(all) /\ h \in [all -> existing]
  BY <1>7, <1>8, StatisticsAssumption, FS_Subset
<1>10. SumFunction([t \in existing |-> Cardinality({p \in all : h[p] = t})]) = Cardinality(all)
  BY <1>1, <1>9, GroupsCount
<1>11. \A t \in existing : {p \in all : h[p] = t} = Listed(gone, t)
  BY <1>6, <1>7 DEF getMembers, Listed
<1>12. list = [t \in existing |-> Cardinality({p \in all : h[p] = t})]
  BY <1>4, <1>5, <1>11 DEF getMemberCountByTeamId, MembersOf
<1> QED
  BY <1>6, <1>10, <1>12

\* Whoever has a profile is listed by a team or has none, and not both.
LEMMA FreeProfiles ==
  ASSUME NEW gone
  PROVE  LET listed == UNION {getMembers(gone, t) : t \in Team} IN
         paginateProfile(gone, Cardinality(Profiled) + 1, 1)
           = {Profiled \ {UserOf[p] : p \in listed}}
<1>1. PICK listed : listed = UNION {getMembers(gone, t) : t \in Team}
  OBVIOUS
<1>2. listed = Member \ gone
  BY <1>1, StatisticsAssumption DEF getMembers, Listed
<1>3. PICK free : free = Profiled \ {UserOf[p] : p \in Member \ gone}
  OBVIOUS
<1>4. IsFiniteSet(Profiled) /\ free \in SUBSET Profiled
  BY <1>3, StatisticsAssumption
<1>5. PICK n \in Nat, k \in Nat : n = Cardinality(free) /\ k = Cardinality(Profiled) /\ n <= k
  BY <1>4, FS_Subset, FS_CardinalityType
<1>6. PageOf(1 .. n, "ASC", k + 1, 1) = 1 .. n
  BY <1>5, FullPage
<1>7. Cardinality(PageOf(1 .. n, "ASC", k + 1, 1)) = n
  BY <1>6, FS_Interval
<1>8. paginateProfile(gone, k + 1, 1) = {S \in SUBSET free : Cardinality(S) = n}
  BY <1>3, <1>5, <1>7 DEF paginateProfile
<1>9. {S \in SUBSET free : Cardinality(S) = n} = {free}
  <2>1. \A S \in SUBSET free : Cardinality(S) = n => S = free
    BY <1>4, <1>5, FS_Subset
  <2> QED
    BY <1>5, <2>1
<1> QED
  BY <1>1, <1>2, <1>3, <1>5, <1>8, <1>9

\* A member's matches show the points of the ranking.
LEMMA PointsShown ==
  ASSUME NEW rows, RowsFit(rows), NEW p
  PROVE  LET record == getMembetMatchRecord(rows, p) IN
         /\ {x.match : x \in record} = {x.match : x \in RecordOf(rows, p)}
         /\ SumFunction([x \in record |-> x.point]) = Points(rows, p, "attackPoint")
<1>1. PICK own : own = RecordOf(rows, p)
  OBVIOUS
<1>2. PICK record : record = getMembetMatchRecord(rows, p)
  OBVIOUS
<1>3. PICK h : h = [x \in own |-> [match |-> x.match, day |-> x.day,
                                   point |-> x.goals + x.assists]]
  OBVIOUS
<1>4. record = {h[x] : x \in own}
  BY <1>1, <1>2, <1>3 DEF getMembetMatchRecord
<1>5. own \in SUBSET rows /\ IsFiniteSet(own)
  BY <1>1, FS_Subset DEF RecordOf, RowsFit
<1>6. \A x \in own : /\ h[x].match = x.match /\ h[x].day = x.day
                     /\ h[x].point = x.goals + x.assists
  BY <1>3
<1>7. h \in [own -> record]
  BY <1>3, <1>4
<1>8. IsFiniteSet(record)
  BY <1>4, <1>5, <1>7, ImageFinite
<1>9. \A x, y \in own : h[x] = h[y] => x = y
  <2> SUFFICES ASSUME NEW x \in own, NEW y \in own, h[x] = h[y] PROVE x = y
    OBVIOUS
  <2>1. x.day = y.day
    BY <1>6
  <2>2. x.member = y.member /\ x \in rows /\ y \in rows
    BY <1>1, <1>5 DEF RecordOf
  <2> QED
    BY <2>1, <2>2 DEF RowsFit
<1>10. PICK g, a : g = [x \in own |-> x["goals"]] /\ a = [x \in own |-> x["assists"]]
  OBVIOUS
<1>11. g \in [own -> Nat] /\ a \in [own -> Nat]
  <2>1. \A x \in own : x["goals"] \in Nat /\ x["assists"] \in Nat
    BY <1>5 DEF RowsFit
  <2> QED
    BY <1>10, <2>1
<1>12. PICK f : f = [x \in own |-> g[x] + a[x]]
  OBVIOUS
<1>13. f \in [own -> Nat]
  BY <1>11, <1>12
<1>14. SumOver(f, own) = Total(own, "goals") + Total(own, "assists")
  <2>1. SumOver(f, own) = SumOver(g, own) + SumOver(a, own)
    BY <1>5, <1>11, <1>12, SumAdds
  <2>2. SumFunction(g) = SumOver(g, own) /\ SumFunction(a) = SumOver(a, own)
    BY <1>11, SumAll
  <2>3. Total(own, "goals") = SumFunction(g) /\ Total(own, "assists") = SumFunction(a)
    BY <1>10 DEF Total
  <2> QED
    BY <2>1, <2>2, <2>3
<1>15. \A x \in own : SumOver(f, {x}) = f[x]
  <2> SUFFICES ASSUME NEW x \in own PROVE SumOver(f, {x}) = f[x]
    OBVIOUS
  <2>1. {} \in SUBSET own /\ x \in own \ {} /\ {} \cup {x} = {x} /\ f[x] \in Nat
    BY <1>13
  <2>2. SumOver(f, {}) = 0 /\ SumOver(f, {} \cup {x}) = SumOver(f, {}) + f[x]
    BY <1>5, <1>13, <2>1, SumGrows
  <2> QED
    BY <2>1, <2>2
<1>16. \A r \in record : SumOver(f, {x \in own : h[x] = r}) = r.point
  <2> SUFFICES ASSUME NEW r \in record PROVE SumOver(f, {x \in own : h[x] = r}) = r.point
    OBVIOUS
  <2>1. PICK y \in own : r = h[y]
    BY <1>4
  <2>2. {x \in own : h[x] = r} = {y}
    BY <1>9, <2>1
  <2>3. f[y] = r.point
    BY <1>6, <1>10, <1>12, <2>1
  <2> QED
    BY <1>15, <2>2, <2>3
<1>17. SumFunction(Groups(f, own, h, record)) = SumOver(f, own)
  <2>1. f \in [own -> Nat] /\ IsFiniteSet(own) /\ IsFiniteSet(record) /\ h \in [own -> record]
    BY <1>5, <1>7, <1>8, <1>13
  <2> QED
    BY <2>1, SumByGroups
<1>18. Groups(f, own, h, record) = [r \in record |-> r.point]
  BY <1>16 DEF Groups
<1>19. Points(rows, p, "attackPoint") = Total(own, "goals") + Total(own, "assists")
  BY <1>1 DEF Points
<1>20. {x.match : x \in record} = {x.match : x \in own}
  BY <1>4, <1>6
<1> QED
  BY <1>1, <1>2, <1>14, <1>17, <1>18, <1>19, <1>20

\* The lists agree with each other and with the statistics.
LEMMA ListsAgreeOnRows ==
  ASSUME NEW rows, RowsFit(rows), NEW gone, NEW existing \in SUBSET Team,
         NEW take \in Nat \ {0}
  PROVE  ListsAgree(rows, gone, existing, take)
<1>1. ASSUME NEW t \in existing
      PROVE  /\ getMemberCountByTeamId(gone, TRUE, t)
                  = Cardinality(DOMAIN getPlayers(rows, gone, t))
             /\ Ranked(rows, gone, t) \subseteq getMembers(gone, t)
  <2>1. getMemberCountByTeamId(gone, TRUE, t) = Cardinality(DOMAIN getPlayers(rows, gone, t))
    BY DEF getMemberCountByTeamId, MembersOf, getPlayers
  <2>2. Ranked(rows, gone, t) \subseteq getMembers(gone, t)
    BY DEF Ranked, RowsOf, RowsFit, Listed, getMembers
  <2> QED
    BY <2>1, <2>2
<1>2. ASSUME NEW u, NEW shown \in getMember(rows, gone, u)
      PROVE  LET record == getMembetMatchRecord(rows, shown.member) IN
             /\ {x.match : x \in record} = {x.match : x \in shown.records}
             /\ SumFunction([x \in record |-> x.point])
                  = Points(rows, shown.member, "attackPoint")
  <2>1. shown.records = RecordOf(rows, shown.member)
    BY DEF getMember
  <2>2. PICK p : p = shown.member
    OBVIOUS
  <2>3. LET record == getMembetMatchRecord(rows, p) IN
        /\ {x.match : x \in record} = {x.match : x \in RecordOf(rows, p)}
        /\ SumFunction([x \in record |-> x.point]) = Points(rows, p, "attackPoint")
    BY PointsShown
  <2> QED
    BY <2>1, <2>2, <2>3
<1>3. \A t \in existing :
        SumFunction([m \in Match |-> Total(getMembersMatchResult(rows, m, t), "goals")])
          = getGoals(rows, t)
  BY MatchesAddUp
<1>4. \A t \in existing : PagesHold(gone, t, take)
  BY MemberPagesHold
<1>5. \A list \in getTeam(gone, existing, Cardinality(existing), 1) :
        SumFunction(list) = Cardinality(UNION {getMembers(gone, t) : t \in existing})
  BY TeamListCounts
<1> QED
  BY <1>1, <1>2, <1>3, <1>4, <1>5, FreeProfiles DEF ListsAgree, PagesHold

-----------------------------------------------------------------------------
(* The tables that the pages are computed from.                             *)

\* Every report in the log was made by a side of its match, with a lineup of its own.
LogFits == \A i \in DOMAIN log : Fits(log[i])

\* The log fits if its new entry does.
LEMMA AppendFits ==
  ASSUME TypeOK, LogFits, NEW e \in Entry, Fits(e), log' = Append(log, e)
  PROVE  LogFits'
<1>1. \A i \in DOMAIN log' : log'[i] = e \/ (i \in DOMAIN log /\ log'[i] = log[i])
  <2> SUFFICES ASSUME NEW i \in DOMAIN log'
               PROVE  log'[i] = e \/ (i \in DOMAIN log /\ log'[i] = log[i])
    OBVIOUS
  <2>1. log \in Seq(Entry)
    BY DEF TypeOK
  <2>2. i \in 1 .. Len(log) + 1
    BY <2>1
  <2>3. CASE i = Len(log) + 1
    BY <2>1, <2>3
  <2>4. CASE i # Len(log) + 1
    BY <2>1, <2>2, <2>4
  <2> QED
    BY <2>3, <2>4
<1>2. \A i \in DOMAIN log' : Fits(log'[i])
  BY <1>1 DEF LogFits
<1> QED
  BY <1>2 DEF LogFits, Fits

\* No step commits a report that does not fit.
LEMMA NextLogFits ==
  ASSUME TypeOK, LogFits, [Next]_vars
  PROVE  LogFits'
<1>1. CASE UNCHANGED log
  BY <1>1 DEF LogFits, Fits
<1>2. CASE \E e \in Entry : Fits(e) /\ log' = Append(log, e)
  BY <1>2, AppendFits
<1>3. ASSUME NEW r \in Request, NEW t \in Team, NEW m \in Open, NEW lineup \in Lineups[t],
             Report(r, t, m, lineup)
      PROVE  \E e \in Entry : Fits(e) /\ log' = Append(log, e)
  <2>1. PICK e : e = [kind |-> "report", team |-> t, match |-> m, lineup |-> lineup]
    OBVIOUS
  <2>2. e \in Entry
    BY <2>1, CacheAssumption DEF Entry
  <2>3. Fits(e) /\ log' = Append(log, e)
    BY <1>3, <2>1 DEF Fits, Report, Commit
  <2> QED
    BY <2>2, <2>3
<1>4. ASSUME NEW r \in Request, NEW t \in Team, UpdateTeam(r, t)
      PROVE  \E e \in Entry : Fits(e) /\ log' = Append(log, e)
  <2>1. PICK e : e = [kind |-> "update", team |-> t]
    OBVIOUS
  <2>2. e \in Entry /\ Fits(e) /\ log' = Append(log, e)
    BY <1>4, <2>1 DEF Entry, Fits, UpdateTeam, Commit
  <2> QED
    BY <2>2
<1>5. ASSUME NEW t \in Team, CreateTeam(t)
      PROVE  \E e \in Entry : Fits(e) /\ log' = Append(log, e)
  <2>1. PICK e : e = [kind |-> "create", team |-> t]
    OBVIOUS
  <2>2. e \in Entry /\ Fits(e) /\ log' = Append(log, e)
    BY <1>5, <2>1 DEF Entry, Fits, CreateTeam, Commit
  <2> QED
    BY <2>2
<1>6. ASSUME NEW t \in Team, DeleteTeam(t)
      PROVE  \E e \in Entry : Fits(e) /\ log' = Append(log, e)
  <2>1. PICK e : e = [kind |-> "delete", team |-> t]
    OBVIOUS
  <2>2. e \in Entry /\ Fits(e) /\ log' = Append(log, e)
    BY <1>6, <2>1 DEF Entry, Fits, DeleteTeam, Commit
  <2> QED
    BY <2>2
<1>7. ASSUME NEW p \in Member, ExpulsionMember(p)
      PROVE  \E e \in Entry : Fits(e) /\ log' = Append(log, e)
  <2>1. PICK e : e = [kind |-> "expel", member |-> p]
    OBVIOUS
  <2>2. e \in Entry /\ Fits(e) /\ log' = Append(log, e)
    BY <1>7, <2>1 DEF Entry, Fits, ExpulsionMember, Commit
  <2> QED
    BY <2>2
<1>8. ASSUME NEW r \in Request, (\E k \in Visited : ReadMiss(r, k)) \/ Handle(r) \/ Fail(r)
      PROVE  UNCHANGED log
  BY <1>8 DEF ReadMiss, Handle, StorePage, SetTtl, DropPage, Fail
<1>9. ASSUME NEW k \in Page, Expire(k)
      PROVE  UNCHANGED log
  BY <1>9 DEF Expire
<1> QED
  BY <1>1, <1>2, <1>3, <1>4, <1>5, <1>6, <1>7, <1>8, <1>9 DEF Next, vars

\* The rows of the log's i-th entry.
RowsAt(i) ==
  {[day |-> i, match |-> log[i].match, team |-> log[i].team, member |-> p,
    goals |-> log[i].lineup[p].goals, assists |-> log[i].lineup[p].assists,
    save |-> log[i].lineup[p].save, yellow |-> log[i].lineup[p].yellow] :
      p \in DOMAIN log[i].lineup}

\* The rows of one report.
LEMMA EntryRows ==
  ASSUME TypeOK, LogFits, NEW i \in DOMAIN log, log[i].kind = "report"
  PROVE  /\ IsFiniteSet(RowsAt(i))
         /\ \A x \in RowsAt(i) :
              /\ x \in [day : Nat, match : Match, team : Team, member : Member,
                        goals : Nat, assists : Nat, save : Nat, yellow : Nat]
              /\ x.day = i
              /\ x.team = TeamOf[x.member] /\ x.team \in Sides[x.match]
         /\ \A x, y \in RowsAt(i) : x.member = y.member => x = y
<1>1. i \in Nat /\ log[i] \in Entry /\ Fits(log[i])
  BY DEF TypeOK, LogFits
<1>2. log[i].match \in Match /\ log[i].team \in Team
  BY <1>1 DEF Entry
<1>3. log[i].team \in Sides[log[i].match] /\ log[i].lineup \in Lineups[log[i].team]
  BY <1>1 DEF Fits
<1>4. PICK lineup : lineup = log[i].lineup
  OBVIOUS
<1>5. \A p \in DOMAIN lineup :
        p \in Member /\ TeamOf[p] = log[i].team /\ lineup[p] \in Line
  BY <1>2, <1>3, <1>4, CacheAssumption
<1>6. PICK f : f = [p \in DOMAIN lineup |->
        [day |-> i, match |-> log[i].match, team |-> log[i].team, member |-> p,
         goals |-> lineup[p].goals, assists |-> lineup[p].assists,
         save |-> lineup[p].save, yellow |-> lineup[p].yellow]]
  OBVIOUS
<1>7. RowsAt(i) = {f[p] : p \in DOMAIN lineup}
  BY <1>4, <1>6 DEF RowsAt
<1>8. IsFiniteSet(DOMAIN lineup)
  BY <1>5, StatisticsAssumption, FS_Subset
<1>9. f \in [DOMAIN lineup -> RowsAt(i)]
  BY <1>6, <1>7
<1>10. IsFiniteSet(RowsAt(i))
  BY <1>7, <1>8, <1>9, ImageFinite
<1>11. ASSUME NEW p \in DOMAIN lineup
       PROVE  /\ f[p] \in [day : Nat, match : Match, team : Team, member : Member,
                           goals : Nat, assists : Nat, save : Nat, yellow : Nat]
              /\ f[p].day = i /\ f[p].member = p
              /\ f[p].team = TeamOf[f[p].member] /\ f[p].team \in Sides[f[p].match]
  <2>1. p \in Member /\ TeamOf[p] = log[i].team /\ lineup[p] \in Line
    BY <1>5
  <2>2. /\ lineup[p].goals \in Nat /\ lineup[p].assists \in Nat
        /\ lineup[p].save \in Nat /\ lineup[p].yellow \in Nat
    BY <2>1 DEF Line
  <2> QED
    BY <1>1, <1>2, <1>3, <1>6, <2>1, <2>2
<1> QED
  BY <1>7, <1>10, <1>11

\* So the rows of the log are as the lemmas on pages require.
LEMMA RowsOfLogFit ==
  ASSUME TypeOK, LogFits
  PROVE  RowsFit(Rows)
<1>1. PICK D : D = {j \in DOMAIN log : log[j].kind = "report"}
  OBVIOUS
<1>2. Rows = UNION {RowsAt(i) : i \in D}
  BY <1>1 DEF Rows, RowsAt
<1>3. \A x \in Rows : x \in RowsAt(x.day) /\ x.day \in D
  BY <1>1, <1>2, EntryRows
<1>4. IsFiniteSet(Rows)
  <2>1. PICK all : all = {RowsAt(i) : i \in D}
    OBVIOUS
  <2>2. PICK f : f = [i \in D |-> RowsAt(i)]
    OBVIOUS
  <2>3. f \in [D -> all] /\ all = {f[i] : i \in D}
    BY <2>1, <2>2
  <2>4. IsFiniteSet(D)
    <3>1. Len(log) \in Int /\ 1 \in Int /\ D \subseteq 1 .. Len(log)
      BY <1>1 DEF TypeOK
    <3> QED
      BY <3>1, FS_Interval, FS_Subset
  <2>5. IsFiniteSet(all)
    BY <2>3, <2>4, ImageFinite
  <2>6. \A S \in all : IsFiniteSet(S)
    BY <1>1, <2>1, EntryRows
  <2> QED
    BY <1>2, <2>1, <2>5, <2>6, FS_UNION
<1>5. \A x \in Rows :
        /\ x \in [day : Nat, match : Match, team : Team, member : Member,
                  goals : Nat, assists : Nat, save : Nat, yellow : Nat]
        /\ x.team = TeamOf[x.member] /\ x.team \in Sides[x.match]
  BY <1>1, <1>3, EntryRows
<1>6. \A x, y \in Rows : x.day = y.day /\ x.member = y.member => x = y
  BY <1>1, <1>3, EntryRows
<1> QED
  BY <1>4, <1>5, <1>6 DEF RowsFit

\* Between requests the pages and the lists that are computed from the reports
\* and the expulsions committed so far agree with each other, and rankings and
\* warnings name players of the team: for every number of teams, members and
\* matches, whatever a lineup says, and in whatever order it happened.
THEOREM PagesAgreeAlways == Spec => []PagesAddUp
<1>1. Init => LogFits
  BY CacheAssumption DEF Init, LogFits
<1>2. IInv /\ LogFits /\ [Next]_vars => LogFits'
  BY NextLogFits DEF IInv
<1>3. IInv /\ LogFits => PagesAddUp
  <2> SUFFICES ASSUME IInv, LogFits PROVE PagesAddUp
    OBVIOUS
  <2>1. RowsFit(Rows)
    BY RowsOfLogFit DEF IInv
  <2>2. Existing \in SUBSET Team /\ Take \in Nat \ {0}
    BY CacheAssumption DEF Existing
  <2>3. PagesAgree(Rows, Gone)
    BY <2>1, PagesAgreeOnRows
  <2>4. RankingsNamePlayers(Rows, Gone)
    BY <2>1, RankingsNameThem
  <2>5. ListsAgree(Rows, Gone, Existing, Take)
    BY <2>1, <2>2, ListsAgreeOnRows
  <2> QED
    BY <2>3, <2>4, <2>5 DEF PagesAddUp
<1> QED
  BY <1>1, <1>2, <1>3, Invariance, PTL DEF Spec

-----------------------------------------------------------------------------
(* Saving a lineup.                                                         *)

\* A save that is alone has the match for itself, and what it saw is still so:
\* if there was no lineup to replace, none has come up.
Alone(r) ==
  saves[r].alone =>
    \A m \in Fixture : Saving(r, m) =>
      /\ \A s \in Saver : Saving(s, m) => s = r
      /\ ~ saves[r].found => MatchFormation(m) = {}

SavesAlone == \A r \in Saver : Alone(r)

\* A slot without a save.
LEMMA LineupIdle == NoSave \in SaveState /\ NoSave.pc = "idle" /\ ~ NoSave.alone
<1>1. PICK f \in Shape : f = CHOOSE g \in Shape : TRUE
  BY FormationAssumption
<1> QED
  BY <1>1, FormationAssumption DEF NoSave, SaveState, Lineup, Fixture

\* The initial state.
LEMMA LineupInit ==
  ASSUME FormationInit
  PROVE  FormationTypeOK /\ SavesAlone
BY LineupIdle, FormationAssumption DEF FormationInit, FormationTypeOK, Score, SavesAlone, Alone, Saving

\* What a save leaves of a match's lineups.
LEMMA SavedLineups ==
  ASSUME FormationTypeOK, NEW r \in Saver, SaveWrite(r),
         NEW q \in SaveState, q = saves[r],
         NEW rows, rows = {l \in Lineup : l.players # {}}
  PROVE  /\ q.match \in Fixture /\ q.lineup \in Lineup
         /\ Kept(r) \in Seq(rows)
         /\ Kept(r) = IF q.found THEN <<>> ELSE lineups[q.match]
         /\ Inserted(r) \in Seq(rows)
         /\ Inserted(r) = IF q.lineup.players = {} THEN <<>> ELSE <<q.lineup>>
         /\ lineups' = [lineups EXCEPT ![q.match] = Kept(r) \o Inserted(r)]
<1>1. q.match \in Fixture /\ q.lineup \in Lineup
  BY DEF SaveState
<1>2. lineups[q.match] \in Seq(rows)
  BY <1>1 DEF FormationTypeOK
<1>3. Kept(r) = IF q.found THEN <<>> ELSE lineups[q.match]
  BY DEF Kept
<1>4. Inserted(r) = IF q.lineup.players = {} THEN <<>> ELSE <<q.lineup>>
  BY DEF Inserted
<1>5. q.lineup.players # {} => <<q.lineup>> \in Seq(rows)
  BY <1>1
<1>6. <<>> \in Seq(rows)
  OBVIOUS
<1>7. Kept(r) \in Seq(rows) /\ Inserted(r) \in Seq(rows)
  BY <1>2, <1>3, <1>4, <1>5, <1>6
<1>8. lineups' = [lineups EXCEPT ![q.match] = Kept(r) \o Inserted(r)]
  BY DEF SaveWrite
<1> QED
  BY <1>1, <1>3, <1>4, <1>7, <1>8

\* Every step keeps the types.
LEMMA LineupTypes ==
  ASSUME FormationTypeOK, [FormationNext]_formationVars
  PROVE  FormationTypeOK'
<1> USE DEF FormationTypeOK
<1>1. ASSUME NEW r \in Saver, NEW m \in Fixture, NEW lineup \in Offered,
             SaveRead(r, m, lineup)
      PROVE  FormationTypeOK'
  <2>1. [pc |-> "write", match |-> m, lineup |-> lineup, found |-> MatchFormation(m) # {},
         alone |-> ~ \E q \in Saver : Saving(q, m)] \in SaveState
    BY LineupAssumption DEF SaveState, Lineup
  <2>2. \A s \in Saver : [saves[s] EXCEPT !.alone = FALSE] \in SaveState
    BY DEF SaveState
  <2>3. saves' \in [Saver -> SaveState]
    BY <1>1, <2>1, <2>2 DEF SaveRead
  <2> QED
    BY <1>1, <2>3 DEF SaveRead
<1>2. ASSUME NEW r \in Saver, SaveWrite(r)
      PROVE  FormationTypeOK'
  <2>1. PICK q \in SaveState : q = saves[r]
    OBVIOUS
  <2>2. PICK rows : rows = {l \in Lineup : l.players # {}}
    OBVIOUS
  <2>3. Kept(r) \o Inserted(r) \in Seq(rows)
    <3>1. Kept(r) \in Seq(rows) /\ Inserted(r) \in Seq(rows)
      BY <1>2, <2>1, <2>2, SavedLineups
    <3> QED
      BY <3>1
  <2>4. lineups' = [lineups EXCEPT ![q.match] = Kept(r) \o Inserted(r)]
    BY <1>2, <2>1, <2>2, SavedLineups
  <2>5. lineups' \in [Fixture -> Seq(rows)]
    BY <2>2, <2>3, <2>4
  <2> QED
    BY <1>2, <2>2, <2>5, LineupIdle DEF SaveWrite
<1>3. ASSUME NEW r \in Saver, SaveFail(r)
      PROVE  FormationTypeOK'
  BY <1>3, LineupIdle DEF SaveFail
<1>4. ASSUME NEW p \in Player, Expel(p)
      PROVE  FormationTypeOK'
  BY <1>4 DEF Expel
<1>5. ASSUME NEW m \in Fixture, NEW side \in {"own", "other"}, ReportGoal(m, side)
      PROVE  FormationTypeOK'
  <2>1. PICK g \in Score : g = goals[m]
    OBVIOUS
  <2>2. g.own + g.other < MaxGoals /\ g.own \in Nat /\ g.other \in Nat
    BY <1>5, <2>1, FormationAssumption DEF ReportGoal, Score
  <2>3. [g EXCEPT ![side] = @ + 1] \in Score
    BY <2>2, FormationAssumption DEF Score
  <2>4. goals' = [goals EXCEPT ![m] = [g EXCEPT ![side] = @ + 1]]
    BY <1>5, <2>1 DEF ReportGoal
  <2>5. goals' \in [Fixture -> Score]
    BY <2>3, <2>4
  <2> QED
    BY <1>5, <2>5 DEF ReportGoal
<1>6. CASE UNCHANGED formationVars
  BY <1>6 DEF formationVars
<1> QED
  BY <1>1, <1>2, <1>3, <1>4, <1>5, <1>6 DEF FormationNext

\* Every step keeps what a lone save saw.
LEMMA AloneStep ==
  ASSUME FormationTypeOK, SavesAlone, [FormationNext]_formationVars
  PROVE  SavesAlone'
<1> USE DEF FormationTypeOK
<1>0. /\ saves \in [Saver -> SaveState]
      /\ NoSave.pc = "idle"
  BY LineupIdle
<1>1. ASSUME NEW r \in Saver, NEW m \in Fixture, NEW lineup \in Offered,
             SaveRead(r, m, lineup)
      PROVE  SavesAlone'
  <2> SUFFICES ASSUME NEW a \in Saver, saves'[a].alone,
                      NEW n \in Fixture, Saving(a, n)'
               PROVE  /\ \A s \in Saver : Saving(s, n)' => s = a
                      /\ ~ saves'[a].found => MatchFormation(n)' = {}
    BY DEF SavesAlone, Alone
  <2>1. MatchFormation(n)' = MatchFormation(n)
    BY <1>1 DEF SaveRead, MatchFormation
  <2>2. \A s \in Saver : s # r =>
          /\ Saving(s, m) => saves'[s] = [saves[s] EXCEPT !.alone = FALSE]
          /\ ~ Saving(s, m) => saves'[s] = saves[s]
    BY <1>1 DEF SaveRead
  <2>3. saves'[r] = [pc |-> "write", match |-> m, lineup |-> lineup,
                     found |-> MatchFormation(m) # {},
                     alone |-> ~ \E q \in Saver : Saving(q, m)]
    BY <1>1 DEF SaveRead
  <2>4. \A s \in Saver : s # r => (Saving(s, n)' <=> Saving(s, n))
    <3> SUFFICES ASSUME NEW s \in Saver, s # r
                 PROVE  Saving(s, n)' <=> Saving(s, n)
      OBVIOUS
    <3>1. PICK old \in SaveState : old = saves[s]
      BY <1>0
    <3>2. PICK new : new = [old EXCEPT !.alone = FALSE]
      OBVIOUS
    <3>3. new.pc = old.pc /\ new.match = old.match
      BY <3>2 DEF SaveState
    <3>4. saves'[s] = new \/ saves'[s] = old
      BY <2>2, <3>1, <3>2
    <3>5. saves'[s].pc = saves[s].pc /\ saves'[s].match = saves[s].match
      BY <3>1, <3>3, <3>4
    <3> QED
      BY <3>5 DEF Saving
  <2>5. CASE a = r
    <3>1. n = m
      BY <2>3, <2>5 DEF Saving
    <3> DEFINE other == \E q \in Saver : Saving(q, m)
               found == MatchFormation(m) # {}
    <3>2. ~ other /\ saves'[a].found = found
      <4>1. PICK x \in BOOLEAN, y \in BOOLEAN : x = ~ other /\ y = found
        BY Zenon
      <4>2. saves'[r] = [pc |-> "write", match |-> m, lineup |-> lineup, found |-> y, alone |-> x]
        BY <2>3, <4>1, Zenon
      <4>3. saves'[a].alone = x /\ saves'[a].found = y
        BY <2>5, <4>2
      <4> QED
        BY <4>1, <4>3
    <3>3. \A q \in Saver : Saving(q, n)' => q = a
      BY <2>4, <2>5, <3>1, <3>2
    <3>4. ~ saves'[a].found => MatchFormation(n)' = {}
      BY <2>1, <3>1, <3>2
    <3> QED
      BY <3>3, <3>4
  <2>6. CASE a # r
    <3>1. ~ Saving(a, m) /\ saves'[a] = saves[a]
      <4>1. saves[a] \in SaveState
        BY <1>0
      <4> QED
        BY <2>2, <2>6, <4>1 DEF SaveState
    <3>2. Saving(a, n) /\ n # m
      BY <2>4, <2>6, <3>1
    <3>3. ~ Saving(r, n)'
      BY <2>3, <3>2 DEF Saving
    <3> QED
      BY <2>1, <2>4, <3>1, <3>2, <3>3 DEF SavesAlone, Alone
  <2> QED
    BY <2>5, <2>6
<1>2. ASSUME NEW r \in Saver, SaveWrite(r) \/ SaveFail(r)
      PROVE  SavesAlone'
  <2> SUFFICES ASSUME NEW a \in Saver, saves'[a].alone,
                      NEW n \in Fixture, Saving(a, n)'
               PROVE  /\ \A s \in Saver : Saving(s, n)' => s = a
                      /\ ~ saves'[a].found => MatchFormation(n)' = {}
    BY DEF SavesAlone, Alone
  <2>1. saves' = [saves EXCEPT ![r] = NoSave] /\ saves[r].pc = "write" /\ left' = left
    BY <1>2 DEF SaveWrite, SaveFail
  <2>2. a # r /\ saves'[a] = saves[a] /\ Saving(a, n)
    BY <1>0, <2>1 DEF Saving
  <2>3. \A s \in Saver : Saving(s, n)' => Saving(s, n)
    BY <1>0, <2>1 DEF Saving
  <2>4. n # saves[r].match
    BY <2>1, <2>2 DEF SavesAlone, Alone, Saving
  <2>5. lineups'[n] = lineups[n]
    BY <1>2, <2>4 DEF SaveWrite, SaveFail
  <2>6. MatchFormation(n)' = MatchFormation(n)
    BY <2>1, <2>5 DEF MatchFormation
  <2> QED
    BY <2>2, <2>3, <2>6 DEF SavesAlone, Alone
<1>3. ASSUME saves' = saves, lineups' = lineups, left \subseteq left'
      PROVE  SavesAlone'
  <2>1. \A n \in Fixture : MatchFormation(n) = {} => MatchFormation(n)' = {}
    BY <1>3 DEF MatchFormation
  <2>2. \A s \in Saver, n \in Fixture : Saving(s, n)' <=> Saving(s, n)
    BY <1>3 DEF Saving
  <2> QED
    BY <1>3, <2>1, <2>2 DEF SavesAlone, Alone
<1>4. ASSUME NEW p \in Player, Expel(p)
      PROVE  SavesAlone'
  BY <1>3, <1>4 DEF Expel
<1>5. ASSUME NEW m \in Fixture, NEW side \in {"own", "other"}, ReportGoal(m, side)
      PROVE  SavesAlone'
  BY <1>3, <1>5 DEF ReportGoal
<1>6. CASE UNCHANGED formationVars
  BY <1>3, <1>6 DEF formationVars
<1> QED
  BY <1>1, <1>2, <1>4, <1>5, <1>6 DEF FormationNext

\* What a lone save leaves.
LEMMA LoneStep ==
  ASSUME FormationTypeOK, SavesAlone,
         NEW r \in Saver, NEW m \in Fixture, Saving(r, m), saves[r].alone, SaveWrite(r)
  PROVE  /\ MatchFormation(m)' =
               {i \in {Len(lineups[m])'} : saves[r].lineup.players \ left # {}}
         /\ \A i \in MatchFormation(m)' : lineups'[m][i] = saves[r].lineup
         /\ MatchMembers(m)' = Squad \cap (saves[r].lineup.players \ left)
<1>1. PICK q \in SaveState : q = saves[r]
  BY DEF FormationTypeOK
<1>2. PICK rows : rows = {l \in Lineup : l.players # {}}
  OBVIOUS
<1>3. PICK old \in Seq(rows) : old = Kept(r)
  BY <1>1, <1>2, SavedLineups
<1>4. \A i \in DOMAIN old : old[i].players \ left = {}
  <2>1. old = IF q.found THEN <<>> ELSE lineups[m]
    BY <1>1, <1>2, <1>3, SavedLineups DEF Saving
  <2>2. ~ q.found => MatchFormation(m) = {}
    BY <1>1 DEF SavesAlone, Alone
  <2> QED
    BY <2>1, <2>2 DEF MatchFormation
<1>5. PICK new \in Seq(rows) : new = IF q.lineup.players = {} THEN old ELSE Append(old, q.lineup)
  <2>1. q.lineup \in Lineup
    BY DEF SaveState
  <2>2. q.lineup.players # {} => q.lineup \in rows
    BY <1>2, <2>1
  <2>3. q.lineup.players # {} => Append(old, q.lineup) \in Seq(rows)
    BY <2>2
  <2> QED
    BY <2>3
<1>6. lineups'[m] = new /\ left' = left
  <2>1. lineups' = [lineups EXCEPT ![m] = old \o Inserted(r)]
    BY <1>1, <1>2, <1>3, SavedLineups DEF Saving
  <2>2. Inserted(r) = IF q.lineup.players = {} THEN <<>> ELSE <<q.lineup>>
    BY <1>1, <1>2, SavedLineups
  <2>3. old \o Inserted(r) = new
    <3>1. CASE q.lineup.players = {}
      BY <1>5, <2>2, <3>1
    <3>2. CASE q.lineup.players # {}
      BY <1>5, <2>2, <3>2
    <3> QED
      BY <3>1, <3>2
  <2> QED
    BY <2>1, <2>3 DEF SaveWrite, FormationTypeOK
<1>7. MatchFormation(m)' = {i \in DOMAIN new : new[i].players \ left # {}}
  BY <1>6 DEF MatchFormation
<1>8. MatchMembers(m)' = Squad \cap ((UNION {new[i].players : i \in DOMAIN new}) \ left)
  BY <1>6 DEF MatchMembers
<1>9. CASE q.lineup.players = {}
  <2>1. MatchFormation(m)' = {}
    BY <1>4, <1>5, <1>7, <1>9
  <2>2. MatchMembers(m)' = {}
    <3>1. ASSUME NEW p \in (UNION {old[i].players : i \in DOMAIN old}) \ left
          PROVE  FALSE
      <4>1. PICK i \in DOMAIN old : p \in old[i].players
        OBVIOUS
      <4>2. p \in old[i].players \ left
        BY <4>1
      <4> QED
        BY <1>4, <4>2
    <3> QED
      BY <1>5, <1>8, <1>9, <3>1
  <2> QED
    BY <1>1, <1>9, <2>1, <2>2
<1>10. CASE q.lineup.players # {}
  <2>1. /\ DOMAIN new = DOMAIN old \cup {Len(new)}
        /\ Len(new) \notin DOMAIN old
        /\ new[Len(new)] = q.lineup
        /\ \A i \in DOMAIN old : new[i] = old[i]
    BY <1>5, <1>10
  <2>2. MatchFormation(m)' = {i \in {Len(new)} : q.lineup.players \ left # {}}
    BY <1>4, <1>7, <2>1
  <2>3. MatchMembers(m)' = Squad \cap (q.lineup.players \ left)
    <3>1. \A p : p \in (UNION {new[i].players : i \in DOMAIN new}) \ left
                  <=> p \in q.lineup.players \ left
      <4>1. ASSUME NEW p, NEW i \in DOMAIN old, p \in new[i].players
            PROVE  p \in left
        <5>1. p \in old[i].players
          BY <2>1, <4>1
        <5> QED
          BY <1>4, <5>1
      <4>2. ASSUME NEW p, p \in UNION {new[i].players : i \in DOMAIN new}
            PROVE  p \in left \/ p \in q.lineup.players
        <5>1. PICK i \in DOMAIN new : p \in new[i].players
          BY <4>2
        <5> QED
          BY <2>1, <4>1, <5>1
      <4>3. ASSUME NEW p \in q.lineup.players
            PROVE  p \in UNION {new[i].players : i \in DOMAIN new}
        BY <2>1
      <4> QED
        BY <4>2, <4>3
    <3> QED
      BY <1>8, <3>1
  <2> QED
    BY <1>1, <1>6, <2>1, <2>2, <2>3
<1> QED
  BY <1>9, <1>10

\* Every reachable state of the formations is well typed, and a lineup in the
\* table has rows.
THEOREM LineupsTyped == FormationSpec => []FormationTypeOK
<1>1. FormationInit => FormationTypeOK
  BY LineupInit
<1>2. FormationTypeOK /\ [FormationNext]_formationVars => FormationTypeOK'
  BY LineupTypes
<1> QED
  BY <1>1, <1>2, PTL DEF FormationSpec

\* However many saves are in flight: one that overlaps no other for its match
\* leaves its lineup and no other, whatever was saved before and whoever leaves.
THEOREM LoneSavesReplace == FormationSpec => LoneSaveReplaces
<1>1. FormationInit => FormationTypeOK /\ SavesAlone
  BY LineupInit
<1>2. FormationTypeOK /\ SavesAlone /\ [FormationNext]_formationVars => (FormationTypeOK /\ SavesAlone)'
  BY LineupTypes, AloneStep
<1> DEFINE Replaces ==
  \A r \in Saver, m \in Fixture :
    /\ Saving(r, m) /\ saves[r].alone
    /\ SaveWrite(r)
    => /\ MatchFormation(m)' =
            {i \in {Len(lineups[m])'} : saves[r].lineup.players \ left # {}}
       /\ \A i \in MatchFormation(m)' : lineups'[m][i] = saves[r].lineup
       /\ MatchMembers(m)' = Squad \cap (saves[r].lineup.players \ left)
<1>3. FormationTypeOK /\ SavesAlone /\ [FormationNext]_formationVars => [Replaces]_(formationVars)
  <2>1. FormationTypeOK /\ SavesAlone => Replaces
    BY LoneStep
  <2> QED
    BY <2>1
<1>4. [][Replaces]_(formationVars) => LoneSaveReplaces
  BY DEF LoneSaveReplaces
<1> QED
  BY <1>1, <1>2, <1>3, <1>4, PTL DEF FormationSpec

-----------------------------------------------------------------------------
(* Folds from the left, and counts.                                         *)

\* The greatest number of s.
Latest(s) == CHOOSE x \in s : \A y \in s : x >= y

\* A finite set of numbers has a greatest one.
LEMMA Greatest ==
  ASSUME NEW n \in Nat, NEW s \in SUBSET (1 .. n), s # {}
  PROVE  Latest(s) \in s /\ \A y \in s : Latest(s) >= y
<1> DEFINE D == {n - x : x \in s}
<1>1. D \in SUBSET Nat /\ D # {}
  <2>1. \A x \in s : n - x \in Nat
    OBVIOUS
  <2> QED
    BY <2>1
<1>2. PICK d \in D : \A e \in D : d <= e
  <2> HIDE DEF D
  <2> QED
    BY <1>1, Least
<1>3. PICK x \in s : d = n - x
  BY <1>2
<1>4. \A y \in s : x >= y
  <2> SUFFICES ASSUME NEW y \in s PROVE x >= y
    OBVIOUS
  <2>1. n - x <= n - y
    BY <1>2, <1>3
  <2> QED
    BY <2>1
<1> QED
  BY <1>3, <1>4 DEF Latest

\* A fold from the left, one element of 1 .. n after the other.
FoldsLeft(h, n, A, base, g, result) ==
  /\ h \in [0 .. n -> A]
  /\ h[0] = base
  /\ \A k \in 1 .. n : h[k] = g[<<k, h[k - 1]>>]
  /\ h[n] = result

\* it folds the subsets of 1 .. n, the latest element last.
IsLeftFold(it, n, base, g) ==
  \A s \in SUBSET (1 .. n) :
    it[s] = IF s = {} THEN base ELSE g[<<Latest(s), it[s \ {Latest(s)}]>>]

\* A fold that takes the latest element last makes its steps from the left.
LEMMA FoldLeftSteps ==
  ASSUME NEW n \in Nat, NEW A, NEW base \in A, NEW g \in [(1 .. n) \X A -> A],
         NEW it, IsLeftFold(it, n, base, g)
  PROVE  \E h : FoldsLeft(h, n, A, base, g, it[1 .. n])
<1>1. PICK S : S = 1 .. n
  OBVIOUS
<1>2. IsFiniteSet(S)
  BY <1>1, FS_Interval
<1>3. PICK ch : ch = [s \in SUBSET S |-> Latest(s)]
  OBVIOUS
<1>4. Picks(ch, S)
  BY <1>1, <1>3, Greatest DEF Picks
<1>5. PICK f : f \in [SUBSET S -> A] /\ IsFold(f, S, base, ch, g)
  BY <1>1, <1>2, <1>4, FoldExists
<1>6. StepsAgree(it, f, S, ch)
  <2> SUFFICES ASSUME NEW s \in SUBSET S, s = {} \/ it[s \ {ch[s]}] = f[s \ {ch[s]}]
               PROVE  it[s] = f[s]
    BY DEF StepsAgree
  <2>1. ch[s] = Latest(s) /\ s \in SUBSET (1 .. n)
    BY <1>1, <1>3
  <2>2. it[s] = IF s = {} THEN base ELSE g[<<ch[s], it[s \ {ch[s]}]>>]
    BY <2>1 DEF IsLeftFold
  <2>3. f[s] = IF s = {} THEN base ELSE g[<<ch[s], f[s \ {ch[s]}]>>]
    BY <1>5 DEF IsFold
  <2> QED
    BY <2>2, <2>3
<1>7. \A s \in SUBSET S : it[s] = f[s]
  BY <1>2, <1>4, <1>6, FoldUnique
<1>8. PICK h : h = [k \in 0 .. n |-> f[1 .. k]]
  OBVIOUS
<1>9. \A k \in 0 .. n : 1 .. k \in SUBSET S
  BY <1>1
<1>10. h \in [0 .. n -> A]
  BY <1>5, <1>8, <1>9
<1>11. h[0] = base
  <2>1. 1 .. 0 = {} /\ {} \in SUBSET S
    OBVIOUS
  <2>2. f[{}] = base
    BY <1>5, <2>1 DEF IsFold
  <2> QED
    BY <1>8, <2>1, <2>2
<1>12. \A k \in 1 .. n : h[k] = g[<<k, h[k - 1]>>]
  <2> SUFFICES ASSUME NEW k \in 1 .. n PROVE h[k] = g[<<k, h[k - 1]>>]
    OBVIOUS
  <2>1. PICK s : s = 1 .. k
    OBVIOUS
  <2>2. s \in SUBSET S /\ k \in s /\ s # {} /\ s \ {k} = 1 .. (k - 1)
    <3>1. k \in Nat /\ 1 <= k /\ k <= n
      OBVIOUS
    <3>2. (1 .. k) \ {k} = 1 .. (k - 1)
      BY <3>1
    <3>3. s \in SUBSET S /\ k \in s
      BY <1>1, <2>1, <3>1
    <3> QED
      BY <2>1, <3>2, <3>3
  <2>3. Latest(s) = k
    <3>1. Latest(s) \in s /\ Latest(s) >= k
      BY <1>1, <2>2, Greatest
    <3>2. \A x \in s : x <= k /\ x \in Nat
      BY <2>1
    <3> QED
      BY <3>1, <3>2
  <2>4. f[s] = g[<<k, f[s \ {k}]>>]
    BY <1>3, <1>5, <2>2, <2>3 DEF IsFold
  <2>5. h[k] = f[s] /\ h[k - 1] = f[s \ {k}]
    <3>1. k \in 0 .. n /\ k - 1 \in 0 .. n
      OBVIOUS
    <3> QED
      BY <1>8, <2>1, <2>2, <3>1
  <2> QED
    BY <2>4, <2>5
<1> QED
  <2>1. h[n] = it[1 .. n]
    BY <1>1, <1>7, <1>8
  <2> QED
    BY <1>10, <1>11, <1>12, <2>1 DEF FoldsLeft

\* There is a function that makes the steps of a fold from the left.
LEMMA FoldLeftExists ==
  ASSUME NEW n \in Nat, NEW A, NEW base \in A, NEW g \in [(1 .. n) \X A -> A]
  PROVE  \E it \in [SUBSET (1 .. n) -> A] : IsLeftFold(it, n, base, g)
<1>1. PICK S : S = 1 .. n
  OBVIOUS
<1>2. IsFiniteSet(S)
  BY <1>1, FS_Interval
<1>3. PICK ch : ch = [s \in SUBSET S |-> Latest(s)]
  OBVIOUS
<1>4. Picks(ch, S)
  BY <1>1, <1>3, Greatest DEF Picks
<1>5. PICK f : f \in [SUBSET S -> A] /\ IsFold(f, S, base, ch, g)
  BY <1>1, <1>2, <1>4, FoldExists
<1> QED
  BY <1>1, <1>3, <1>5 DEF IsFold, IsLeftFold

\* Where h and it agree before a step, they agree after it.
LeftStepsAgree(h, it, n) ==
  \A s \in SUBSET (1 .. n) :
    (s = {} \/ h[s \ {Latest(s)}] = it[s \ {Latest(s)}]) => h[s] = it[s]

\* Two folds from the left are equal if one makes the steps of the other.
LEMMA FoldLeftUnique ==
  ASSUME NEW n \in Nat, NEW h, NEW it, LeftStepsAgree(h, it, n)
  PROVE  h[1 .. n] = it[1 .. n]
<1>1. PICK S : S = 1 .. n
  OBVIOUS
<1>2. IsFiniteSet(S)
  BY <1>1, FS_Interval
<1>3. PICK ch : ch = [s \in SUBSET S |-> Latest(s)]
  OBVIOUS
<1>4. Picks(ch, S)
  BY <1>1, <1>3, Greatest DEF Picks
<1>5. StepsAgree(h, it, S, ch)
  BY <1>1, <1>3 DEF StepsAgree, LeftStepsAgree
<1> QED
  BY <1>1, <1>2, <1>4, <1>5, FoldUnique

\* How many of the first k numbers are in S.
Count(S, k) == Cardinality({m \in 1 .. k : m \in S})

\* A count grows with the number after it, or does not.
LEMMA CountStep ==
  ASSUME NEW k \in Nat, NEW S
  PROVE  /\ Count(S, k) \in Nat
         /\ Count(S, 0) = 0
         /\ Count(S, k + 1) = Count(S, k) + (IF k + 1 \in S THEN 1 ELSE 0)
         /\ Count(S, k) = 0 <=> \A m \in 1 .. k : m \notin S
<1> DEFINE C == {m \in 1 .. k : m \in S}
<1>1. IsFiniteSet(1 .. k)
  BY FS_Interval
<1>2. IsFiniteSet(C)
  BY <1>1, FS_Subset
<1>3. Cardinality(C) \in Nat /\ (Cardinality(C) = 0 <=> C = {})
  BY <1>2, FS_CardinalityType, FS_EmptySet
<1>4. {m \in 1 .. 0 : m \in S} = {}
  OBVIOUS
<1>5. {m \in 1 .. k + 1 : m \in S} = IF k + 1 \in S THEN C \cup {k + 1} ELSE C
  OBVIOUS
<1>6. Cardinality(C \cup {k + 1}) = Cardinality(C) + 1
  BY <1>2, FS_AddElement
<1>7. Count(S, k) = Cardinality(C)
  BY DEF Count
<1>8. Count(S, k + 1) = Count(S, k) + (IF k + 1 \in S THEN 1 ELSE 0)
  <2>1. Count(S, k + 1) = Cardinality({m \in 1 .. k + 1 : m \in S})
    BY DEF Count
  <2>2. CASE k + 1 \in S
    <3>1. Count(S, k + 1) = Cardinality(C \cup {k + 1})
      BY <1>5, <2>1, <2>2
    <3> QED
      BY <1>6, <1>7, <2>2, <3>1
  <2>3. CASE k + 1 \notin S
    <3>1. Count(S, k + 1) = Cardinality(C)
      BY <1>5, <2>1, <2>3
    <3> QED
      BY <1>3, <1>7, <2>3, <3>1
  <2> QED
    BY <2>2, <2>3
<1>9. Count(S, 0) = 0
  BY <1>4, FS_EmptySet DEF Count
<1>10. Count(S, k) = 0 <=> \A m \in 1 .. k : m \notin S
  BY <1>3, <1>7
<1> QED
  BY <1>3, <1>7, <1>8, <1>9, <1>10

\* The rate a/b is at most, or below, c/d.
AtMost(a, b, c, d) == a * d <= c * b
Below(a, b, c, d) == a * d < c * b

\* A rate that is at most another, which is below a third, is below the third.
LEMMA RatesCompare ==
  ASSUME NEW a \in Nat, NEW b \in Nat \ {0}, NEW c \in Nat, NEW d \in Nat \ {0},
         NEW e \in Nat, NEW f \in Nat, AtMost(a, b, c, d), Below(c, d, e, f)
  PROVE  Below(a, b, e, f)
<1> USE DEF AtMost, Below
<1> SUFFICES ASSUME a * f >= e * b PROVE FALSE
  OBVIOUS
<1>1. PICK u \in Nat, v \in Nat, w \in Nat, x \in Nat :
        u = a * d /\ v = c * b /\ w = c * f /\ x = e * d
  OBVIOUS
<1>2. u * f <= v * f
  BY <1>1
<1>3. w * b < x * b
  BY <1>1
<1>4. v * f = w * b
  BY <1>1
<1>5. u * f = (a * f) * d
  BY <1>1
<1>6. x * b = (e * b) * d
  BY <1>1
<1>7. (e * b) * d <= (a * f) * d
  <2>1. PICK p \in Nat, q \in Nat : p = a * f /\ q = e * b /\ q <= p
    OBVIOUS
  <2>2. q * d <= p * d
    BY <2>1
  <2> QED
    BY <2>1, <2>2
<1> QED
  BY <1>1, <1>2, <1>3, <1>4, <1>5, <1>6, <1>7

-----------------------------------------------------------------------------
(* The recommendation.                                                      *)

\* The formations a match may count for, and the shape of the rows computed.
Used == Shape \cup {NoShape}
Info == [result : {-1, 0, 1}, formation : Used]
Stat == [formation : Used, wins : Nat, losses : Nat, games : Nat]

\* The matches played with f, and those of them with a result.
Played(seq, f) == {m \in DOMAIN seq : seq[m].formation = f}
Ended(seq, f, result) == {m \in DOMAIN seq : seq[m].formation = f /\ seq[m].result = result}

\* s counts the first k matches.
CountsAre(s, seq, k) ==
  /\ s.games = Count(Played(seq, s.formation), k)
  /\ s.wins = Count(Ended(seq, s.formation, 1), k)
  /\ s.losses = Count(Ended(seq, s.formation, -1), k)

\* The statistics of the first k matches: the formations in the order in which
\* they were first used, each with its counts.
Tallied(stats, seq, k) ==
  /\ stats \in Seq(Stat)
  /\ \A i \in DOMAIN stats : CountsAre(stats[i], seq, k)
  /\ \A m \in 1 .. k : \E i \in DOMAIN stats : stats[i].formation = seq[m].formation
  /\ \A i \in DOMAIN stats : \E m \in 1 .. k :
       /\ seq[m].formation = stats[i].formation
       /\ \A j \in DOMAIN stats, l \in 1 .. k :
            i < j /\ seq[l].formation = stats[j].formation => m < l

\* What Counted adds.
LEMMA CountedOnce ==
  ASSUME NEW s \in Stat, NEW x \in Info, s.formation = x.formation
  PROVE  /\ Counted(s, x) \in Stat
         /\ Counted(s, x).formation = s.formation
         /\ Counted(s, x).games = s.games + 1
         /\ Counted(s, x).wins = s.wins + (IF x.result = 1 THEN 1 ELSE 0)
         /\ Counted(s, x).losses = s.losses + (IF x.result = -1 THEN 1 ELSE 0)
<1>1. PICK f \in Used, w \in Nat, l \in Nat, g \in Nat :
        s = [formation |-> f, wins |-> w, losses |-> l, games |-> g]
  BY DEF Stat
<1>2. PICK u \in Nat, v \in Nat :
        u = (IF x.result = 1 THEN 1 ELSE 0) /\ v = (IF x.result = -1 THEN 1 ELSE 0)
  OBVIOUS
<1>3. Counted(s, x) = [formation |-> f, wins |-> w + u, losses |-> l + v, games |-> g + 1]
  <2>1. PICK a : a = [s EXCEPT !.games = g + 1]
    OBVIOUS
  <2>2. a = [formation |-> f, wins |-> w, losses |-> l, games |-> g + 1]
    BY <1>1, <2>1
  <2>3. PICK b : b = [a EXCEPT !.wins = w + u]
    OBVIOUS
  <2>4. b = [formation |-> f, wins |-> w + u, losses |-> l, games |-> g + 1]
    BY <2>2, <2>3
  <2>5. [b EXCEPT !.losses = l + v]
          = [formation |-> f, wins |-> w + u, losses |-> l + v, games |-> g + 1]
    BY <2>4
  <2>6. Counted(s, x) = [b EXCEPT !.losses = l + v]
    BY <1>1, <1>2, <2>1, <2>2, <2>3, <2>4 DEF Counted
  <2> QED
    BY <2>5, <2>6
<1>4. [formation |-> f, wins |-> w + u, losses |-> l + v, games |-> g + 1] \in Stat
  BY DEF Stat
<1> QED
  BY <1>1, <1>2, <1>3, <1>4

\* Counts stay right when a match is counted for its formation, and for no other.
LEMMA CountsFollow ==
  ASSUME NEW n \in Nat, NEW seq \in [1 .. n -> Info], NEW k \in 0 .. n - 1,
         NEW s \in Stat, CountsAre(s, seq, k), NEW x, x = seq[k + 1]
  PROVE  /\ s.formation = x.formation => CountsAre(Counted(s, x), seq, k + 1)
         /\ s.formation # x.formation => CountsAre(s, seq, k + 1)
<1>1. k \in Nat /\ k + 1 \in DOMAIN seq /\ x \in Info /\ x.result \in {-1, 0, 1}
  BY DEF Info
<1>2. PICK f : f = s.formation
  OBVIOUS
<1>3. /\ k + 1 \in Played(seq, f) <=> x.formation = f
      /\ \A e : k + 1 \in Ended(seq, f, e) <=> x.formation = f /\ x.result = e
  BY <1>1 DEF Played, Ended
<1>4. /\ Count(Played(seq, f), k + 1) = s.games + (IF x.formation = f THEN 1 ELSE 0)
      /\ Count(Ended(seq, f, 1), k + 1)
           = s.wins + (IF x.formation = f /\ x.result = 1 THEN 1 ELSE 0)
      /\ Count(Ended(seq, f, -1), k + 1)
           = s.losses + (IF x.formation = f /\ x.result = -1 THEN 1 ELSE 0)
  <2>1. \A S : Count(S, k + 1) = Count(S, k) + (IF k + 1 \in S THEN 1 ELSE 0)
    BY <1>1, CountStep
  <2>2. /\ Count(Played(seq, f), k) = s.games
        /\ Count(Ended(seq, f, 1), k) = s.wins
        /\ Count(Ended(seq, f, -1), k) = s.losses
    BY <1>2 DEF CountsAre
  <2> QED
    BY <1>3, <2>1, <2>2
<1>5. s.games \in Nat /\ s.wins \in Nat /\ s.losses \in Nat
  BY DEF Stat
<1>6. CASE f = x.formation
  <2>1. PICK t \in Stat : /\ t = Counted(s, x)
                          /\ t.formation = f
                          /\ t.games = s.games + 1
                          /\ t.wins = s.wins + (IF x.result = 1 THEN 1 ELSE 0)
                          /\ t.losses = s.losses + (IF x.result = -1 THEN 1 ELSE 0)
    <3>1. s.formation = x.formation
      BY <1>2, <1>6
    <3> QED
      BY <1>1, <1>2, <3>1, CountedOnce
  <2>2. CountsAre(t, seq, k + 1)
    BY <1>4, <1>6, <2>1 DEF CountsAre
  <2> QED
    BY <1>2, <1>6, <2>1, <2>2
<1>7. CASE f # x.formation
  BY <1>2, <1>4, <1>5, <1>7 DEF CountsAre
<1> QED
  BY <1>2, <1>6, <1>7

\* WinRate turns the statistics of k matches into those of one more.
LEMMA TallyStep ==
  ASSUME NEW n \in Nat, NEW seq \in [1 .. n -> Info], NEW k \in 0 .. n - 1,
         NEW stats, Tallied(stats, seq, k)
  PROVE  Tallied(WinRate(stats, seq[k + 1]), seq, k + 1)
<1>1. PICK x \in Info : x = seq[k + 1]
  OBVIOUS
<1>2. stats \in Seq(Stat) /\ k \in Nat
  BY DEF Tallied
<1>3. \A m \in 1 .. k + 1 : m \in 1 .. k \/ m = k + 1
  BY <1>2
<1>4. \A m \in 1 .. k : m \in 1 .. k + 1 /\ m < k + 1
  BY <1>2
<1>5. CASE \E i \in DOMAIN stats : stats[i].formation = x.formation
  <2>1. PICK new : new = [i \in DOMAIN stats |->
                           IF stats[i].formation = x.formation THEN Counted(stats[i], x)
                           ELSE stats[i]]
    OBVIOUS
  <2>2. WinRate(stats, x) = new
    BY <1>5, <2>1 DEF WinRate
  <2>3. \A i \in DOMAIN stats : /\ new[i] \in Stat
                                /\ new[i].formation = stats[i].formation
                                /\ CountsAre(new[i], seq, k + 1)
    <3> SUFFICES ASSUME NEW i \in DOMAIN stats
                 PROVE  /\ new[i] \in Stat
                        /\ new[i].formation = stats[i].formation
                        /\ CountsAre(new[i], seq, k + 1)
      OBVIOUS
    <3>1. stats[i] \in Stat /\ CountsAre(stats[i], seq, k)
      BY <1>2 DEF Tallied
    <3>2. CASE stats[i].formation = x.formation
      <4>1. new[i] = Counted(stats[i], x)
        BY <2>1, <3>2
      <4> QED
        <5>1. CountsAre(Counted(stats[i], x), seq, k + 1)
          BY <1>1, <3>1, <3>2, CountsFollow
        <5>2. Counted(stats[i], x) \in Stat /\ Counted(stats[i], x).formation = stats[i].formation
          BY <3>1, <3>2, CountedOnce
        <5> QED
          BY <4>1, <5>1, <5>2
    <3>3. CASE stats[i].formation # x.formation
      <4>1. new[i] = stats[i]
        BY <2>1, <3>3
      <4> QED
        BY <1>1, <3>1, <3>3, <4>1, CountsFollow
    <3> QED
      BY <3>2, <3>3
  <2>4. DOMAIN new = DOMAIN stats /\ new \in Seq(Stat)
    <3>1. new \in [1 .. Len(stats) -> Stat]
      BY <1>2, <2>1, <2>3
    <3> QED
      BY <1>2, <2>1, <3>1
  <2>5. \A m \in 1 .. k + 1 : \E i \in DOMAIN new : new[i].formation = seq[m].formation
    <3> SUFFICES ASSUME NEW m \in 1 .. k + 1
                 PROVE  \E i \in DOMAIN stats : new[i].formation = seq[m].formation
      BY <2>4
    <3>1. CASE m = k + 1
      BY <1>1, <1>5, <2>3, <3>1
    <3>2. CASE m \in 1 .. k
      <4>1. PICK i \in DOMAIN stats : stats[i].formation = seq[m].formation
        BY <3>2 DEF Tallied
      <4> QED
        BY <2>3, <4>1
    <3> QED
      BY <1>3, <3>1, <3>2
  <2>6. ASSUME NEW i \in DOMAIN new
        PROVE  \E m \in 1 .. k + 1 :
                 /\ seq[m].formation = new[i].formation
                 /\ \A j \in DOMAIN new, l \in 1 .. k + 1 :
                      i < j /\ seq[l].formation = new[j].formation => m < l
    <3>1. PICK m \in 1 .. k :
            /\ seq[m].formation = stats[i].formation
            /\ \A j \in DOMAIN stats, l \in 1 .. k :
                 i < j /\ seq[l].formation = stats[j].formation => m < l
      BY <2>4, <2>6 DEF Tallied
    <3>2. \A j \in DOMAIN new, l \in 1 .. k + 1 :
            i < j /\ seq[l].formation = new[j].formation => m < l
      BY <1>3, <1>4, <2>3, <2>4, <3>1
    <3> QED
      BY <1>4, <2>3, <2>4, <2>6, <3>1, <3>2
  <2> QED
    BY <1>1, <2>2, <2>3, <2>4, <2>5, <2>6 DEF Tallied
<1>6. CASE ~ \E i \in DOMAIN stats : stats[i].formation = x.formation
  <2>1. PICK s \in Stat : s = [formation |-> x.formation, wins |-> 0, losses |-> 0, games |-> 0]
    <3>1. x.formation \in Used
      BY DEF Info
    <3> QED
      BY <3>1 DEF Stat
  <2>2. \A m \in 1 .. k : seq[m].formation # x.formation
    BY <1>6 DEF Tallied
  <2>3. CountsAre(s, seq, k)
    <3>1. \A e : \A m \in 1 .. k :
            m \notin Played(seq, x.formation) /\ m \notin Ended(seq, x.formation, e)
      BY <2>2 DEF Played, Ended
    <3>2. /\ Count(Played(seq, x.formation), k) = 0
          /\ Count(Ended(seq, x.formation, 1), k) = 0
          /\ Count(Ended(seq, x.formation, -1), k) = 0
      BY <1>2, <3>1, CountStep
    <3> QED
      BY <2>1, <3>2 DEF CountsAre
  <2>4. PICK t \in Stat : /\ t = Counted(s, x)
                          /\ t.formation = x.formation
                          /\ CountsAre(t, seq, k + 1)
    <3>1. Counted(s, x) \in Stat /\ Counted(s, x).formation = x.formation
      BY <2>1, CountedOnce
    <3>2. CountsAre(Counted(s, x), seq, k + 1)
      BY <1>1, <2>1, <2>3, CountsFollow
    <3> QED
      BY <3>1, <3>2
  <2>5. PICK new \in Seq(Stat) : new = Append(stats, t)
    <3>1. Append(stats, t) \in Seq(Stat)
      BY <1>2
    <3> QED
      BY <3>1
  <2>6. WinRate(stats, x) = new
    BY <1>6, <2>1, <2>4, <2>5 DEF WinRate
  <2>7. PICK z \in Nat : z = Len(stats) + 1 /\ z >= 1
    BY <1>2
  <2>8. /\ DOMAIN new = 1 .. z
        /\ new[z] = t
        /\ DOMAIN stats = 1 .. z - 1
        /\ \A i \in 1 .. z - 1 : new[i] = stats[i]
    BY <1>2, <2>5, <2>7
  <2>9. \A i \in DOMAIN new : CountsAre(new[i], seq, k + 1)
    <3> SUFFICES ASSUME NEW i \in 1 .. z - 1 PROVE CountsAre(stats[i], seq, k + 1)
      BY <2>4, <2>8
    <3>1. stats[i] \in Stat /\ CountsAre(stats[i], seq, k) /\ stats[i].formation # x.formation
      BY <1>2, <1>6, <2>8 DEF Tallied
    <3> QED
      BY <1>1, <3>1, CountsFollow
  <2>10. \A m \in 1 .. k + 1 : \E i \in DOMAIN new : new[i].formation = seq[m].formation
    <3> SUFFICES ASSUME NEW m \in 1 .. k + 1
                 PROVE  \E i \in DOMAIN new : new[i].formation = seq[m].formation
      OBVIOUS
    <3>1. CASE m = k + 1
      <4>1. z \in DOMAIN new
        BY <2>7, <2>8
      <4>2. new[z].formation = x.formation /\ seq[m] = x
        BY <1>1, <2>4, <2>8, <3>1
      <4> QED
        BY <4>1, <4>2
    <3>2. CASE m \in 1 .. k
      <4>1. PICK i \in DOMAIN stats : stats[i].formation = seq[m].formation
        BY <3>2 DEF Tallied
      <4> QED
        BY <2>8, <4>1
    <3> QED
      BY <1>3, <3>1, <3>2
  <2>11. ASSUME NEW i \in DOMAIN new
         PROVE  \E m \in 1 .. k + 1 :
                  /\ seq[m].formation = new[i].formation
                  /\ \A j \in DOMAIN new, l \in 1 .. k + 1 :
                       i < j /\ seq[l].formation = new[j].formation => m < l
    <3>1. CASE i = z
      <4>1. \A j \in DOMAIN new : ~ (i < j)
        BY <2>8, <3>1
      <4>2. k + 1 \in 1 .. k + 1 /\ seq[k + 1].formation = new[i].formation
        BY <1>1, <1>2, <2>4, <2>8, <3>1
      <4> QED
        BY <4>1, <4>2
    <3>2. CASE i \in 1 .. z - 1
      <4>1. PICK m \in 1 .. k :
              /\ seq[m].formation = stats[i].formation
              /\ \A j \in DOMAIN stats, l \in 1 .. k :
                   i < j /\ seq[l].formation = stats[j].formation => m < l
        BY <2>8, <3>2 DEF Tallied
      <4>2. ASSUME NEW j \in DOMAIN new, NEW l \in 1 .. k + 1,
                   i < j, seq[l].formation = new[j].formation
            PROVE  m < l
        <5>1. CASE l = k + 1
          BY <1>4, <5>1
        <5>2. CASE l \in 1 .. k
          <6>1. j # z
            BY <2>2, <2>4, <2>8, <4>2, <5>2
          <6>2. j \in DOMAIN stats /\ new[j] = stats[j]
            BY <2>8, <6>1
          <6> QED
            BY <4>1, <4>2, <5>2, <6>2
        <5> QED
          BY <1>3, <5>1, <5>2
      <4>3. m \in 1 .. k + 1 /\ seq[m].formation = new[i].formation
        BY <1>4, <2>8, <3>2, <4>1
      <4> QED
        BY <4>2, <4>3
    <3> QED
      BY <2>8, <3>1, <3>2
  <2> QED
    BY <1>1, <2>6, <2>9, <2>10, <2>11 DEF Tallied
<1> QED
  BY <1>5, <1>6

\* The matches of the team as rows.
LEMMA MatchesTyped ==
  ASSUME FormationTypeOK
  PROVE  TeamMatchInfo \in [1 .. NumMatches -> Info]
<1>1. \A m \in 1 .. NumMatches : Result(m) \in {-1, 0, 1}
  BY DEF Result
<1>2. ASSUME NEW m \in 1 .. NumMatches
      PROVE  UsedFormation(m) \in Used
  <2>1. PICK D : D = MatchFormation(m)
    OBVIOUS
  <2>2. lineups[m] \in Seq({l \in Lineup : l.players # {}})
    BY DEF FormationTypeOK, Fixture
  <2>3. D \in SUBSET Nat /\ D \subseteq DOMAIN lineups[m]
    BY <2>1, <2>2 DEF MatchFormation
  <2>4. CASE D = {}
    BY <2>1, <2>4 DEF UsedFormation, Used
  <2>5. CASE D # {}
    <3>1. PICK i : i = CHOOSE x \in D : \A y \in D : x <= y
      OBVIOUS
    <3>2. i \in D
      BY <2>3, <2>5, <3>1, Least
    <3>3. lineups[m][i] \in Lineup
      BY <2>2, <2>3, <3>2
    <3>4. UsedFormation(m) = lineups[m][i].formation
      BY <2>1, <2>5, <3>1 DEF UsedFormation, Min
    <3> QED
      BY <3>3, <3>4 DEF Lineup, Used
  <2> QED
    BY <2>4, <2>5
<1> QED
  BY <1>1, <1>2 DEF TeamMatchInfo, Fixture, Info

\* WinRate keeps the type of the statistics.
LEMMA WinRateTyped ==
  ASSUME NEW st \in Seq(Stat), NEW x \in Info
  PROVE  WinRate(st, x) \in Seq(Stat)
<1>1. CASE \E i \in DOMAIN st : st[i].formation = x.formation
  <2>1. PICK new : new = [i \in DOMAIN st |->
                           IF st[i].formation = x.formation THEN Counted(st[i], x) ELSE st[i]]
    OBVIOUS
  <2>2. \A i \in DOMAIN st : new[i] \in Stat
    BY <2>1, CountedOnce
  <2>3. new \in [1 .. Len(st) -> Stat]
    BY <2>1, <2>2
  <2> QED
    BY <1>1, <2>1, <2>3 DEF WinRate
<1>2. CASE ~ \E i \in DOMAIN st : st[i].formation = x.formation
  <2>1. PICK s \in Stat : s = [formation |-> x.formation, wins |-> 0, losses |-> 0, games |-> 0]
    BY DEF Stat, Info
  <2>2. Counted(s, x) \in Stat
    BY <2>1, CountedOnce
  <2>3. Append(st, Counted(s, x)) \in Seq(Stat)
    BY <2>2
  <2> QED
    BY <1>2, <2>1, <2>3 DEF WinRate
<1> QED
  BY <1>1, <1>2

\* FormationWinRate holds the counts of all matches.
LEMMA StatsTally ==
  ASSUME FormationTypeOK
  PROVE  Tallied(FormationWinRate, TeamMatchInfo, NumMatches)
<1>1. PICK n \in Nat : n = NumMatches
  BY FormationAssumption
<1>2. PICK seq \in [1 .. n -> Info] : seq = TeamMatchInfo
  BY <1>1, MatchesTyped
<1> DEFINE Q(it) == it = [s \in SUBSET (1 .. n) |->
                            IF s = {} THEN <<>>
                            ELSE WinRate(it[s \ {Latest(s)}], seq[Latest(s)])]
<1>3. FormationWinRate = (CHOOSE it : Q(it))[1 .. n]
  BY <1>1, <1>2 DEF FormationWinRate, FoldLeft, MapThenFoldSet, Max, Latest
<1>4. PICK A : A = Seq(Stat)
  OBVIOUS
<1>5. PICK g : g = [p \in (1 .. n) \X A |-> WinRate(p[2], seq[p[1]])]
  OBVIOUS
<1>6. g \in [(1 .. n) \X A -> A] /\ <<>> \in A
  BY <1>4, <1>5, WinRateTyped
<1>7. PICK it \in [SUBSET (1 .. n) -> A] : IsLeftFold(it, n, <<>>, g)
  BY <1>6, FoldLeftExists
<1>8. \A s \in SUBSET (1 .. n) : it[s] =
         IF s = {} THEN <<>> ELSE WinRate(it[s \ {Latest(s)}], seq[Latest(s)])
  <2>1. \A s \in SUBSET (1 .. n) : s # {} =>
          g[<<Latest(s), it[s \ {Latest(s)}]>>] = WinRate(it[s \ {Latest(s)}], seq[Latest(s)])
    BY <1>5, <1>7, Greatest
  <2> QED
    BY <1>7, <2>1 DEF IsLeftFold
<1>9. PICK f : f = (CHOOSE x : Q(x)) /\ Q(f)
  <2>1. Q(it)
    BY <1>8
  <2> HIDE DEF Q
  <2> QED
    BY <2>1
<1>10. LeftStepsAgree(f, it, n)
  <2>1. \A s \in SUBSET (1 .. n) : f[s] =
          IF s = {} THEN <<>> ELSE WinRate(f[s \ {Latest(s)}], seq[Latest(s)])
    BY <1>9
  <2>2. ASSUME NEW s \in SUBSET (1 .. n), s = {} \/ f[s \ {Latest(s)}] = it[s \ {Latest(s)}]
        PROVE  f[s] = it[s]
    <3>1. CASE s = {}
      BY <1>8, <2>1, <3>1
    <3>2. CASE s # {}
      <4>1. f[s] = WinRate(f[s \ {Latest(s)}], seq[Latest(s)])
        BY <2>1, <3>2
      <4>2. it[s] = WinRate(it[s \ {Latest(s)}], seq[Latest(s)])
        BY <1>8, <3>2
      <4> QED
        BY <2>2, <3>2, <4>1, <4>2
    <3> QED
      BY <3>1, <3>2
  <2> QED
    BY <2>2 DEF LeftStepsAgree
<1>11. FormationWinRate = it[1 .. n]
  BY <1>3, <1>9, <1>10, FoldLeftUnique
<1>12. PICK h : FoldsLeft(h, n, A, <<>>, g, it[1 .. n])
  BY <1>6, <1>7, FoldLeftSteps
<1> DEFINE Wrong == {k \in 0 .. n : ~ Tallied(h[k], seq, k)}
<1>13. Tallied(<<>>, seq, 0)
  BY DEF Tallied
<1>14. \A k \in 0 .. n - 1 : Tallied(h[k], seq, k) => Tallied(h[k + 1], seq, k + 1)
  <2> SUFFICES ASSUME NEW k \in 0 .. n - 1, Tallied(h[k], seq, k)
               PROVE  Tallied(h[k + 1], seq, k + 1)
    OBVIOUS
  <2>0. h \in [0 .. n -> A] /\ k + 1 \in 1 .. n
    BY <1>12 DEF FoldsLeft
  <2>1. h[k + 1] = g[<<k + 1, h[k]>>]
    BY <1>12, <2>0 DEF FoldsLeft
  <2>2. h[k + 1] = WinRate(h[k], seq[k + 1])
    BY <1>5, <2>0, <2>1
  <2> QED
    BY <2>2, TallyStep
<1>15. Wrong = {}
  <2> SUFFICES ASSUME Wrong # {} PROVE FALSE
    OBVIOUS
  <2>1. PICK k \in Wrong : \A j \in Wrong : k <= j
    <3>1. Wrong \in SUBSET Nat
      OBVIOUS
    <3> HIDE DEF Wrong
    <3> QED
      BY <3>1, Least
  <2>2. k # 0
    BY <1>12, <1>13, <2>1 DEF FoldsLeft
  <2>3. k - 1 \in 0 .. n - 1 /\ k - 1 \notin Wrong
    BY <2>1, <2>2
  <2>4. Tallied(h[k - 1], seq, k - 1)
    BY <2>3
  <2>5. Tallied(h[k - 1 + 1], seq, k - 1 + 1)
    BY <1>14, <2>3, <2>4
  <2> QED
    BY <2>1, <2>5
<1>16. Tallied(h[n], seq, n)
  BY <1>15
<1> QED
  BY <1>1, <1>2, <1>11, <1>12, <1>16 DEF FoldsLeft

\* The best rate found so far.
Rate == [formation : Used \cup {""}, n : Nat, d : Nat \ {0}]

\* The rate of a formation.
RateOf(s, count) == [formation |-> s.formation, n |-> s[count], d |-> s.games]

\* The better of best and s.
Candidate(best, s, count) == IF Higher(s[count], s.games, best) THEN RateOf(s, count) ELSE best

\* best is the highest of the first j rates, the first if it is shared, or none
\* of them is positive.
LeadsFirst(best, stats, count, j) ==
  \/ best = NoneYet /\ \A i \in 1 .. j : stats[i][count] = 0
  \/ \E p \in 1 .. j :
       /\ best = RateOf(stats[p], count)
       /\ stats[p][count] > 0
       /\ \A i \in 1 .. j :
            /\ stats[i][count] * stats[p].games <= stats[p][count] * stats[i].games
            /\ i < p => stats[i][count] * stats[p].games < stats[p][count] * stats[i].games

\* Formations that were used.
PositiveStat == {s \in Stat : s.games > 0}

\* A product of numbers is one.
LEMMA ProductNat ==
  ASSUME NEW x \in Nat, NEW y \in Nat
  PROVE  x * y \in Nat
OBVIOUS

\* The better of the leader and the next one leads.
LEMMA LeadStep ==
  ASSUME NEW stats \in Seq(PositiveStat), NEW count \in {"wins", "losses"},
         NEW j \in 0 .. Len(stats) - 1, NEW best, LeadsFirst(best, stats, count, j)
  PROVE  LeadsFirst(Candidate(best, stats[j + 1], count), stats, count, j + 1)
<1>1. PICK s \in Stat : s = stats[j + 1] /\ s.games > 0
  BY DEF PositiveStat
<1>2. PICK c \in Nat, d \in Nat \ {0} : c = s[count] /\ d = s.games
  BY <1>1 DEF Stat
<1>3. \A i \in 1 .. j + 1 : stats[i][count] \in Nat /\ stats[i].games \in Nat \ {0}
  <2> SUFFICES ASSUME NEW i \in 1 .. j + 1
               PROVE  stats[i][count] \in Nat /\ stats[i].games \in Nat \ {0}
    OBVIOUS
  <2>1. stats[i] \in PositiveStat
    OBVIOUS
  <2>2. PICK x \in Stat : x = stats[i] /\ x.games > 0
    BY <2>1 DEF PositiveStat
  <2>3. x.wins \in Nat /\ x.losses \in Nat /\ x.games \in Nat
    BY DEF Stat
  <2>4. x.games \in Nat \ {0}
    BY <2>2, <2>3
  <2> QED
    BY <2>2, <2>3, <2>4
<1>4. \A i \in 1 .. j + 1 : i \in 1 .. j \/ i = j + 1
  OBVIOUS
<1>5. \A i \in 1 .. j : i \in 1 .. j + 1 /\ i < j + 1
  OBVIOUS
<1>6. j + 1 \in 1 .. j + 1
  OBVIOUS
<1>7. ASSUME best = NoneYet, \A i \in 1 .. j : stats[i][count] = 0
      PROVE  LeadsFirst(Candidate(best, s, count), stats, count, j + 1)
  <2>1. Higher(s[count], s.games, best) <=> c > 0
    <3>1. best.n = 0 /\ best.d = 1
      BY <1>7 DEF NoneYet
    <3>2. c * 1 = c /\ 0 * d = 0
      BY <1>2
    <3> QED
      BY <1>2, <3>1, <3>2 DEF Higher
  <2>2. CASE c = 0
    <3>1. Candidate(best, s, count) = NoneYet
      BY <1>7, <2>1, <2>2 DEF Candidate
    <3>2. \A i \in 1 .. j + 1 : stats[i][count] = 0
      BY <1>1, <1>2, <1>4, <1>7, <2>2
    <3> QED
      BY <3>1, <3>2 DEF LeadsFirst
  <2>3. CASE c > 0
    <3>1. Candidate(best, s, count) = RateOf(stats[j + 1], count)
      BY <1>1, <2>1, <2>3 DEF Candidate
    <3>2. ASSUME NEW i \in 1 .. j + 1
          PROVE  /\ stats[i][count] * d <= c * stats[i].games
                 /\ i < j + 1 => stats[i][count] * d < c * stats[i].games
      <4>1. CASE i = j + 1
        BY <1>1, <1>2, <4>1
      <4>2. CASE i \in 1 .. j
        <5>1. stats[i][count] * d = 0
          BY <1>2, <1>7, <4>2
        <5>2. PICK e \in Nat \ {0} : e = stats[i].games
          BY <1>3
        <5>3. c * e > 0
          BY <1>2, <2>3, <5>2
        <5> QED
          BY <5>1, <5>2, <5>3
      <4> QED
        BY <1>4, <4>1, <4>2
    <3> QED
      BY <1>1, <1>2, <1>6, <2>3, <3>1, <3>2 DEF LeadsFirst
  <2> QED
    BY <1>2, <2>2, <2>3
<1>8. ASSUME NEW p \in 1 .. j, best = RateOf(stats[p], count), stats[p][count] > 0,
             \A i \in 1 .. j :
               /\ stats[i][count] * stats[p].games <= stats[p][count] * stats[i].games
               /\ i < p => stats[i][count] * stats[p].games < stats[p][count] * stats[i].games
      PROVE  LeadsFirst(Candidate(best, s, count), stats, count, j + 1)
  <2>1. PICK a \in Nat, b \in Nat \ {0} : a = stats[p][count] /\ b = stats[p].games
    BY <1>3, <1>5
  <2>2. best.n = a /\ best.d = b
    BY <1>8, <2>1 DEF RateOf
  <2>3. Higher(s[count], s.games, best) <=> c * b > a * d
    BY <1>2, <2>2 DEF Higher
  <2>4. CASE c * b <= a * d
    <3>1. ~ Higher(s[count], s.games, best)
      <4>2. PICK u \in Nat, v \in Nat : u = c * b /\ v = a * d
        BY <1>2, <2>1, ProductNat
      <4> QED
        BY <2>3, <2>4, <4>2
    <3>2. Candidate(best, s, count) = best
      BY <3>1 DEF Candidate
    <3>3. ASSUME NEW i \in 1 .. j + 1
          PROVE  /\ stats[i][count] * b <= a * stats[i].games
                 /\ i < p => stats[i][count] * b < a * stats[i].games
      <4>1. CASE i = j + 1
        BY <1>1, <1>2, <1>5, <2>4, <4>1
      <4>2. CASE i \in 1 .. j
        BY <1>8, <2>1, <4>2
      <4> QED
        BY <1>4, <4>1, <4>2
    <3> QED
      BY <1>5, <1>8, <2>1, <3>2, <3>3 DEF LeadsFirst
  <2>5. CASE c * b > a * d
    <3>1. Candidate(best, s, count) = RateOf(stats[j + 1], count)
      BY <1>1, <2>3, <2>5 DEF Candidate
    <3>2. c > 0
      <4>1. PICK v \in Nat : v = a * d
        BY <1>2, <2>1
      <4>2. c # 0
        BY <2>1, <2>5, <4>1
      <4> QED
        BY <1>2, <4>2
    <3>3. ASSUME NEW i \in 1 .. j + 1
          PROVE  /\ stats[i][count] * d <= c * stats[i].games
                 /\ i < j + 1 => stats[i][count] * d < c * stats[i].games
      <4>1. CASE i = j + 1
        BY <1>1, <1>2, <4>1
      <4>2. CASE i \in 1 .. j
        <5>1. PICK e \in Nat, f \in Nat \ {0} : e = stats[i][count] /\ f = stats[i].games
          BY <1>3
        <5>2. AtMost(e, f, a, b)
          BY <1>8, <2>1, <4>2, <5>1 DEF AtMost
        <5>3. Below(a, b, c, d)
          BY <1>2, <2>1, <2>5 DEF Below
        <5>4. Below(e, f, c, d)
          BY <1>2, <2>1, <5>1, <5>2, <5>3, RatesCompare
        <5>5. e * d < c * f
          BY <5>4 DEF Below
        <5>6. PICK u \in Nat, v \in Nat : u = e * d /\ v = c * f
          BY <1>2, <5>1, ProductNat
        <5> QED
          BY <1>2, <5>1, <5>5, <5>6
      <4> QED
        BY <1>4, <4>1, <4>2
    <3> QED
      BY <1>1, <1>2, <1>6, <3>1, <3>2, <3>3 DEF LeadsFirst
  <2>6. PICK u \in Nat, v \in Nat : u = c * b /\ v = a * d
    BY <1>2, <2>1, ProductNat
  <2>7. c * b <= a * d \/ c * b > a * d
    BY <2>6
  <2> QED
    BY <1>2, <2>1, <2>4, <2>5, <2>7
<1> QED
  BY <1>1, <1>7, <1>8 DEF LeadsFirst

\* No formation without a match has statistics.
LEMMA UsedStats ==
  ASSUME NEW n \in Nat, NEW seq \in [1 .. n -> Info], NEW stats, Tallied(stats, seq, n)
  PROVE  stats \in Seq(PositiveStat)
<1>1. stats \in Seq(Stat)
  BY DEF Tallied
<1>2. ASSUME NEW i \in DOMAIN stats
      PROVE  stats[i] \in PositiveStat
  <2>1. stats[i] \in Stat
    BY <1>1
  <2>2. PICK m \in 1 .. n : seq[m].formation = stats[i].formation
    BY DEF Tallied
  <2>3. m \in Played(seq, stats[i].formation)
    BY <2>2 DEF Played
  <2>4. stats[i].games # 0
    <3>1. stats[i].games = Count(Played(seq, stats[i].formation), n)
      BY DEF Tallied, CountsAre
    <3>2. \A S : Count(S, n) = 0 <=> \A l \in 1 .. n : l \notin S
      BY CountStep
    <3> QED
      BY <2>3, <3>1, <3>2
  <2> QED
    BY <2>1, <2>4 DEF PositiveStat, Stat
<1>3. stats \in [1 .. Len(stats) -> PositiveStat]
  BY <1>1, <1>2
<1> QED
  BY <1>1, <1>3

\* Leader returns who leads the statistics.
LEMMA LeaderLeads ==
  ASSUME NEW stats \in Seq(PositiveStat), stats = FormationWinRate,
         NEW count \in {"wins", "losses"}
  PROVE  LeadsFirst(Leader(count), stats, count, Len(stats))
<1>1. PICK n \in Nat : n = Len(stats) /\ DOMAIN stats = 1 .. n
  OBVIOUS
<1> DEFINE Q(it) == it = [s \in SUBSET (1 .. n) |->
                            IF s = {} THEN NoneYet
                            ELSE Candidate(it[s \ {Latest(s)}], stats[Latest(s)], count)]
<1>2. Leader(count) = (CHOOSE it : Q(it))[1 .. n]
  BY <1>1 DEF Leader, FoldLeft, MapThenFoldSet, Max, Latest, Candidate, RateOf
<1>3. PICK g : g = [p \in (1 .. n) \X Rate |-> Candidate(p[2], stats[p[1]], count)]
  OBVIOUS
<1>4. NoneYet \in Rate
  BY DEF NoneYet, Rate
<1>5. \A i \in 1 .. n, best \in Rate : Candidate(best, stats[i], count) \in Rate
  <2> SUFFICES ASSUME NEW i \in 1 .. n, NEW best \in Rate
               PROVE  Candidate(best, stats[i], count) \in Rate
    OBVIOUS
  <2>1. PICK s \in Stat : s = stats[i] /\ s.games # 0
    <3>1. stats[i] \in PositiveStat
      BY <1>1
    <3> QED
      BY <3>1 DEF PositiveStat, Stat
  <2>2. RateOf(s, count) \in Rate
    BY <2>1 DEF RateOf, Rate, Stat
  <2> QED
    BY <2>1, <2>2 DEF Candidate
<1>6. g \in [(1 .. n) \X Rate -> Rate]
  BY <1>3, <1>5
<1>7. PICK it \in [SUBSET (1 .. n) -> Rate] : IsLeftFold(it, n, NoneYet, g)
  BY <1>4, <1>6, FoldLeftExists
<1>8. \A s \in SUBSET (1 .. n) : it[s] =
         IF s = {} THEN NoneYet ELSE Candidate(it[s \ {Latest(s)}], stats[Latest(s)], count)
  <2>1. \A s \in SUBSET (1 .. n) : s # {} =>
          g[<<Latest(s), it[s \ {Latest(s)}]>>]
            = Candidate(it[s \ {Latest(s)}], stats[Latest(s)], count)
    BY <1>3, <1>7, Greatest
  <2> QED
    BY <1>7, <2>1 DEF IsLeftFold
<1>9. PICK f : f = (CHOOSE x : Q(x)) /\ Q(f)
  <2>1. Q(it)
    BY <1>8
  <2> HIDE DEF Q
  <2> QED
    BY <2>1
<1>10. LeftStepsAgree(f, it, n)
  <2>1. \A s \in SUBSET (1 .. n) : f[s] =
           IF s = {} THEN NoneYet ELSE Candidate(f[s \ {Latest(s)}], stats[Latest(s)], count)
    BY <1>9
  <2> HIDE DEF Q
  <2> QED
    BY <1>8, <2>1 DEF LeftStepsAgree
<1>11. Leader(count) = it[1 .. n]
  BY <1>2, <1>9, <1>10, FoldLeftUnique
<1>12. PICK h : FoldsLeft(h, n, Rate, NoneYet, g, it[1 .. n])
  BY <1>4, <1>6, <1>7, FoldLeftSteps
<1> DEFINE Wrong == {k \in 0 .. n : ~ LeadsFirst(h[k], stats, count, k)}
<1>13. LeadsFirst(NoneYet, stats, count, 0)
  BY DEF LeadsFirst
<1>14. \A k \in 0 .. n - 1 :
         LeadsFirst(h[k], stats, count, k) => LeadsFirst(h[k + 1], stats, count, k + 1)
  <2> SUFFICES ASSUME NEW k \in 0 .. n - 1, LeadsFirst(h[k], stats, count, k)
               PROVE  LeadsFirst(h[k + 1], stats, count, k + 1)
    OBVIOUS
  <2>1. h \in [0 .. n -> Rate] /\ k + 1 \in 1 .. n
    BY <1>12 DEF FoldsLeft
  <2>2. h[k + 1] = g[<<k + 1, h[k]>>]
    BY <1>12, <2>1 DEF FoldsLeft
  <2>3. h[k + 1] = Candidate(h[k], stats[k + 1], count)
    BY <1>3, <2>1, <2>2
  <2> QED
    BY <1>1, <2>3, LeadStep
<1>15. Wrong = {}
  <2> SUFFICES ASSUME Wrong # {} PROVE FALSE
    OBVIOUS
  <2>1. PICK k \in Wrong : \A j \in Wrong : k <= j
    <3>1. Wrong \in SUBSET Nat
      OBVIOUS
    <3> HIDE DEF Wrong
    <3> QED
      BY <3>1, Least
  <2>2. k # 0
    BY <1>12, <1>13, <2>1 DEF FoldsLeft
  <2>3. k - 1 \in 0 .. n - 1 /\ k - 1 \notin Wrong
    BY <2>1, <2>2
  <2>4. LeadsFirst(h[k - 1], stats, count, k - 1)
    BY <2>3
  <2>5. LeadsFirst(h[k - 1 + 1], stats, count, k - 1 + 1)
    BY <1>14, <2>3, <2>4
  <2> QED
    BY <2>1, <2>5
<1>16. LeadsFirst(h[n], stats, count, n)
  BY <1>15
<1> QED
  BY <1>1, <1>11, <1>12, <1>16 DEF FoldsLeft

\* Who leads the statistics leads by the matches themselves.
LEMMA LeaderChosen ==
  ASSUME FormationTypeOK, NEW count, NEW result,
         \/ count = "wins" /\ result = 1
         \/ count = "losses" /\ result = -1
  PROVE  Leads(Leader(count), result)
<1>1. PICK n \in Nat : n = NumMatches
  BY FormationAssumption
<1>2. PICK seq \in [1 .. n -> Info] : seq = TeamMatchInfo
  BY <1>1, MatchesTyped
<1>3. PICK stats \in Seq(PositiveStat) : stats = FormationWinRate /\ Tallied(stats, seq, n)
  <2>1. Tallied(FormationWinRate, seq, n)
    BY <1>1, <1>2, StatsTally
  <2> QED
    BY <2>1, UsedStats
<1>4. PICK best : best = Leader(count) /\ LeadsFirst(best, stats, count, Len(stats))
  BY <1>3, LeaderLeads
<1>5. \A f : Games(f) = {m \in 1 .. n : seq[m].formation = f}
  BY <1>1, <1>2 DEF Games, Fixture, TeamMatchInfo
<1> DEFINE Hits(f) == {m \in Games(f) : Result(m) = result}
<1>6. \A f : Hits(f) = {m \in 1 .. n : seq[m].formation = f /\ seq[m].result = result}
  BY <1>1, <1>2 DEF Games, Fixture, TeamMatchInfo
<1>7. \A f : /\ Cardinality(Games(f)) = Count(Played(seq, f), n)
             /\ Cardinality(Hits(f)) = Count(Ended(seq, f, result), n)
  <2>1. \A f : Games(f) = {m \in 1 .. n : m \in Played(seq, f)}
    BY <1>5 DEF Played
  <2>2. \A f : Hits(f) = {m \in 1 .. n : m \in Ended(seq, f, result)}
    BY <1>6 DEF Ended
  <2> HIDE DEF Hits
  <2> QED
    BY <2>1, <2>2 DEF Count
<1>8. \A i \in DOMAIN stats :
        /\ stats[i].formation \in Used
        /\ stats[i].games = Cardinality(Games(stats[i].formation))
        /\ stats[i][count] = Cardinality(Hits(stats[i].formation))
        /\ stats[i].games \in Nat /\ stats[i][count] \in Nat
  <2> SUFFICES ASSUME NEW i \in DOMAIN stats
               PROVE  /\ stats[i].formation \in Used
                      /\ stats[i].games = Cardinality(Games(stats[i].formation))
                      /\ stats[i][count] = Cardinality(Hits(stats[i].formation))
                      /\ stats[i].games \in Nat /\ stats[i][count] \in Nat
    OBVIOUS
  <2>1. stats[i] \in Stat
    BY DEF PositiveStat
  <2>2. CountsAre(stats[i], seq, n)
    BY <1>3 DEF Tallied
  <2>3. stats[i][count] = Count(Ended(seq, stats[i].formation, result), n)
    BY <2>2 DEF CountsAre
  <2> HIDE DEF Hits
  <2> QED
    BY <1>7, <2>1, <2>2, <2>3 DEF CountsAre, Stat
<1>9. \A m \in 1 .. n : \E i \in DOMAIN stats :
        /\ m \in Games(stats[i].formation)
        /\ Result(m) = result => m \in Hits(stats[i].formation)
  BY <1>3, <1>5 DEF Tallied
<1>10. \A f : /\ IsFiniteSet(Games(f)) /\ IsFiniteSet(Hits(f))
              /\ Cardinality(Games(f)) = 0 <=> Games(f) = {}
              /\ Cardinality(Hits(f)) = 0 <=> Hits(f) = {}
              /\ Games(f) = {} => Hits(f) = {}
              /\ Cardinality(Games(f)) \in Nat
  <2> SUFFICES ASSUME NEW f
               PROVE  /\ IsFiniteSet(Games(f)) /\ IsFiniteSet(Hits(f))
                      /\ Cardinality(Games(f)) = 0 <=> Games(f) = {}
                      /\ Cardinality(Hits(f)) = 0 <=> Hits(f) = {}
                      /\ Games(f) = {} => Hits(f) = {}
                      /\ Cardinality(Games(f)) \in Nat
    OBVIOUS
  <2>1. Hits(f) \subseteq Games(f) /\ Games(f) \subseteq 1 .. n /\ IsFiniteSet(1 .. n)
    BY <1>5, FS_Interval
  <2>2. Games(f) = {} => Hits(f) = {}
    OBVIOUS
  <2> HIDE DEF Hits
  <2>3. IsFiniteSet(Games(f)) /\ IsFiniteSet(Hits(f))
    BY <2>1, FS_Subset
  <2> QED
    BY <2>2, <2>3, FS_EmptySet, FS_CardinalityType
<1>11. CASE \A m \in Fixture : Result(m) # result
  <2>1. \A i \in DOMAIN stats : stats[i][count] = 0
    BY <1>8, <1>10, <1>11 DEF Games
  <2>2. best = NoneYet
    BY <1>4, <2>1 DEF LeadsFirst
  <2> QED
    BY <1>4, <1>11, <2>2 DEF Leads
<1>12. CASE ~ \A m \in Fixture : Result(m) # result
  <2>1. PICK m \in 1 .. n : Result(m) = result
    BY <1>1, <1>12 DEF Fixture
  <2>2. PICK i \in DOMAIN stats : m \in Hits(stats[i].formation)
    BY <1>9, <2>1
  <2>3. stats[i][count] # 0
    BY <1>8, <1>10, <2>2
  <2>4. PICK p \in DOMAIN stats :
          /\ best = RateOf(stats[p], count)
          /\ stats[p][count] > 0
          /\ \A j \in DOMAIN stats :
               /\ stats[j][count] * stats[p].games <= stats[p][count] * stats[j].games
               /\ j < p => stats[j][count] * stats[p].games < stats[p][count] * stats[j].games
    BY <1>4, <2>3 DEF LeadsFirst
  <2>5. /\ best.formation = stats[p].formation
        /\ best.n = stats[p][count]
        /\ best.d = stats[p].games
    BY <2>4 DEF RateOf
  <2>6. best.formation \in Used /\ best.n \in Nat /\ best.d \in Nat
    BY <1>8, <2>5
  <2>7. ASSUME NEW f \in Used
        PROVE  /\ Cardinality(Hits(f)) * best.d <= best.n * Cardinality(Games(f))
               /\ /\ Cardinality(Hits(f)) * best.d = best.n * Cardinality(Games(f))
                  /\ Games(f) # {}
                  => \E a \in Games(best.formation) : \A b \in Games(f) : a <= b
    <3>1. CASE Games(f) = {}
      <4>1. Cardinality(Hits(f)) = 0 /\ Cardinality(Games(f)) = 0
        BY <1>10, <3>1
      <4>2. 0 * best.d = 0 /\ best.n * 0 = 0
        BY <2>6
      <4> QED
        BY <3>1, <4>1, <4>2
    <3>2. CASE Games(f) # {}
      <4>1. PICK a \in 1 .. n : a \in Games(f) /\ seq[a].formation = f
        BY <1>5, <3>2
      <4>2. PICK j \in DOMAIN stats : stats[j].formation = f
        BY <1>3, <4>1 DEF Tallied
      <4>3. stats[j][count] = Cardinality(Hits(f)) /\ stats[j].games = Cardinality(Games(f))
        BY <1>8, <4>2
      <4>4. Cardinality(Hits(f)) * best.d <= best.n * Cardinality(Games(f))
        BY <2>4, <2>5, <4>3
      <4>5. ASSUME Cardinality(Hits(f)) * best.d = best.n * Cardinality(Games(f))
            PROVE  \E b \in Games(best.formation) : \A c \in Games(f) : b <= c
        <5>1. ~ (j < p)
          <6>1. PICK u \in Int, v \in Int :
                  u = stats[j][count] * stats[p].games /\ v = stats[p][count] * stats[j].games
            <7>1. /\ stats[j][count] \in Nat /\ stats[p].games \in Nat
                  /\ stats[p][count] \in Nat /\ stats[j].games \in Nat
              BY <1>8
            <7> QED
              BY <7>1
          <6>2. u = v
            BY <2>5, <4>3, <4>5, <6>1
          <6> QED
            BY <2>4, <6>1, <6>2
        <5>2. CASE j = p
          <6>1. PICK S : S = Games(f)
            OBVIOUS
          <6>2. S \in SUBSET Nat /\ S # {}
            BY <1>5, <3>2, <6>1
          <6>3. \E b \in S : \A c \in S : b <= c
            BY <6>2, Least
          <6> QED
            BY <2>5, <4>2, <5>2, <6>1, <6>3
        <5>3. CASE p < j
          <6>1. PICK b \in 1 .. n :
                  /\ seq[b].formation = stats[p].formation
                  /\ \A k \in DOMAIN stats, c \in 1 .. n :
                       p < k /\ seq[c].formation = stats[k].formation => b < c
            BY <1>3 DEF Tallied
          <6>2. \A c \in Games(f) : b <= c
            BY <1>5, <4>2, <5>3, <6>1
          <6>3. b \in Games(best.formation)
            BY <1>5, <2>5, <6>1
          <6> QED
            BY <6>2, <6>3
        <5> QED
          BY <5>1, <5>2, <5>3
      <4> QED
        BY <4>4, <4>5
    <3> QED
      BY <3>1, <3>2
  <2>8. /\ best.n = Cardinality(Hits(best.formation))
        /\ best.d = Cardinality(Games(best.formation))
    BY <1>8, <2>5
  <2> QED
    <3>1. \A f \in Used :
            LET mine == best.n * Cardinality(Games(f))
                theirs == Cardinality(Hits(f)) * best.d
            IN /\ theirs <= mine
               /\ theirs = mine /\ Games(f) # {} =>
                    \E a \in Games(best.formation) : \A b \in Games(f) : a <= b
      BY <2>7
    <3> QED
      BY <1>4, <1>12, <2>6, <2>8, <3>1 DEF Leads, Used
<1> QED
  BY <1>11, <1>12

\* So both recommendations lead.
LEMMA LeadersChosen ==
  ASSUME FormationTypeOK
  PROVE  RecommendationLeads
BY LeaderChosen DEF RecommendationLeads, BestFormation, WorstFormation

\* Whatever lineups are saved, overlapping or not, whoever leaves and whatever
\* goals are reported: the recommended formation has the highest rate of matches
\* won, or lost, and of those that share the rate it is the one used first.
THEOREM RecommendationsLead == FormationSpec => []RecommendationLeads
<1>1. FormationSpec => []FormationTypeOK
  BY LineupsTyped
<1>2. FormationTypeOK => RecommendationLeads
  BY LeadersChosen
<1> QED
  BY <1>1, <1>2, PTL

=============================================================================
