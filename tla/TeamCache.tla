------------------------------ MODULE TeamCache ------------------------------
(***************************************************************************)
(* The cached pages of a team: four statistics pages and the team detail,  *)
(* read through Redis (statistics.service.ts, team.service.ts and          *)
(* redis.service.ts), while results, updates, expulsions and deletions     *)
(* change what they show.                                                  *)
(*                                                                         *)
(* The database is the log of what has been committed; a query sees a      *)
(* prefix of it.  A page is computed by several queries: from is where the *)
(* first one stands, so a page with a relevant entry after from is         *)
(* outdated or mixes two states.  Redis runs one command at a time, and    *)
(* every command of a request is a step.  The last look-up of a reader,    *)
(* which returns what is stored by then, changes nothing and is left out.  *)
(*                                                                         *)
(* A definition D_Variant is D with a plausible mistake; nothing uses it   *)
(* but the runs that show which property the mistake breaks.               *)
(***************************************************************************)
EXTENDS TeamPages

CONSTANTS
  Sides,     \* Sides[m]: the home and the away team of m
  Lineups,   \* Lineups[t]: lineups with their records t may submit
  Founded,   \* teams that exist at the start
  Past,      \* what has been committed before the start
  Take,      \* size of a page of the list of members
  Request,   \* slots for requests in flight
  Open,      \* bound: matches that are still reported
  Visited,   \* bound: pages that are read
  MaxLog,    \* bound: changes of the database
  MaxFails   \* bound: failures of a behaviour

RecordPage == {"stats", "topPlayer", "cards", "players"}
PageKind == RecordPage \cup {"detail"}
Page == PageKind \X Team

Entry ==
  [kind : {"report"}, team : Team, match : Match, lineup : UNION {Lineups[t] : t \in Team}]
    \cup [kind : {"expel"}, member : Member]
    \cup [kind : {"update", "create", "delete"}, team : Team]

\* a report by a side of the match, with a lineup of its own
Fits(e) == e.kind = "report" => e.team \in Sides[e.match] /\ e.lineup \in Lineups[e.team]

ASSUME CacheAssumption ==
  /\ Team # {}
  /\ \A m \in Match : \E a, b \in Team : a # b /\ Sides[m] = {a, b}
  /\ \A t \in Team : \A lineup \in Lineups[t] : \A p \in DOMAIN lineup :
       p \in Member /\ TeamOf[p] = t /\ lineup[p] \in Line
  /\ Founded \subseteq Team
  /\ Past \in Seq(Entry) /\ \A i \in DOMAIN Past : Fits(Past[i])
  /\ Take \in Nat \ {0}
  /\ Open \subseteq Match
  /\ Visited \subseteq Page
  /\ MaxLog \in Nat
  /\ MaxFails \in Nat

VARIABLES
  log,    \* committed changes, oldest first
  cache,  \* the pages in Redis
  req,    \* requests in flight
  fails

vars == <<log, cache, req, fails>>

\* overtaken (history): the page was dropped after its first query
CachedPage == [stored : BOOLEAN, from : Nat, ttl : BOOLEAN, overtaken : BOOLEAN]
NoPage == [stored |-> FALSE, from |-> 0, ttl |-> FALSE, overtaken |-> FALSE]

RequestState ==
  [pc : {"idle", "store", "ttl", "drop"}, page : Page, from : Nat, overtaken : BOOLEAN,
   todo : Seq(Page)]
Idle == [pc |-> "idle", page |-> CHOOSE k \in Page : TRUE, from |-> 0,
         overtaken |-> FALSE, todo |-> <<>>]

Init ==
  /\ log = Past
  /\ cache = [k \in Page |-> NoPage]
  /\ req = [r \in Request |-> Idle]
  /\ fails = 0

-----------------------------------------------------------------------------
(* The database.                                                            *)

At(r, pc) == req[r].pc = pc
Move(r, state) == req' = [req EXCEPT ![r] = state]
Present(k) == cache[k].stored

Happened(kind, t) == \E i \in DOMAIN log : log[i].kind = kind /\ log[i].team = t
Exists(t) == (t \in Founded \/ Happened("create", t)) /\ ~ Happened("delete", t)

Gone == {log[i].member : i \in {j \in DOMAIN log : log[j].kind = "expel"}}

Rows ==
  UNION {{[day |-> i, match |-> log[i].match, team |-> log[i].team, member |-> p,
           goals |-> log[i].lineup[p].goals, assists |-> log[i].lineup[p].assists,
           save |-> log[i].lineup[p].save, yellow |-> log[i].lineup[p].yellow] :
             p \in DOMAIN log[i].lineup} :
         i \in {j \in DOMAIN log : log[j].kind = "report"}}

Commit(e) == Len(log) < MaxLog /\ log' = Append(log, e)

\* The changes a page shows: every report is in the statistics of every team,
\* by way of the other teams' record.
Shows(k, e) ==
  CASE e.kind = "report" -> k[1] = "stats" \/ (k[1] \in RecordPage /\ e.team = k[2])
    [] e.kind = "expel" -> k[1] \in {"topPlayer", "players"} /\ TeamOf[e.member] = k[2]
    [] OTHER -> k[1] = "detail" /\ e.team = k[2]

\* The changes after which the code drops a page.
DropsAfter(k, e) ==
  \/ e.kind = "report" /\ k[1] \in RecordPage /\ e.team = k[2]
  \/ e.kind = "update" /\ k[1] = "detail" /\ e.team = k[2]

-----------------------------------------------------------------------------
(* Reading a page.                                                          *)

\* get finds nothing; the first query of the page
ReadMiss(r, k) ==
  /\ At(r, "idle")
  /\ ~ Present(k)
  /\ Move(r, [Idle EXCEPT !.pc = "store", !.page = k, !.from = Len(log)])
  /\ UNCHANGED <<log, cache, fails>>

\* without the expire that follows
StorePage_NoTtl(r) ==
  LET q == req[r] IN
  /\ At(r, "store")
  /\ cache' = [cache EXCEPT ![q.page] =
       [stored |-> TRUE, from |-> q.from, ttl |-> FALSE, overtaken |-> q.overtaken]]
  /\ Move(r, Idle)
  /\ UNCHANGED <<log, fails>>

\* set, which takes a time to live away
StorePage(r) ==
  LET q == req[r] IN
  /\ At(r, "store")
  /\ cache' = [cache EXCEPT ![q.page] =
       [stored |-> TRUE, from |-> q.from, ttl |-> FALSE, overtaken |-> q.overtaken]]
  /\ Move(r, [Idle EXCEPT !.pc = "ttl", !.page = q.page])
  /\ UNCHANGED <<log, fails>>

\* expire, which does nothing without a key
SetTtl(r) ==
  LET k == req[r].page IN
  /\ At(r, "ttl")
  /\ cache' = IF Present(k) THEN [cache EXCEPT ![k].ttl = TRUE] ELSE cache
  /\ Move(r, Idle)
  /\ UNCHANGED <<log, fails>>

\* an hour for statistics, three minutes for the detail
Expire(k) ==
  /\ Present(k) /\ cache[k].ttl
  /\ cache' = [cache EXCEPT ![k] = NoPage]
  /\ UNCHANGED <<log, req, fails>>

-----------------------------------------------------------------------------
(* Changing what the pages show.                                            *)

DropAll(r, pages) == Move(r, [Idle EXCEPT !.pc = "drop", !.todo = pages])

RecordPages_NoStats(t) == <<<<"topPlayer", t>>, <<"cards", t>>, <<"players", t>>>>

RecordPages_OtherKey(t) == <<<<"stats", t>>, <<"topPlayers", t>>, <<"cards", t>>, <<"players", t>>>>

\* delTeamStats
RecordPages(t) == <<<<"stats", t>>, <<"topPlayer", t>>, <<"cards", t>>, <<"players", t>>>>

\* resultMathfinal up to its commit, then delTeamStats for the own team
Report(r, t, m, lineup) ==
  /\ At(r, "idle")
  /\ Exists(t) /\ t \in Sides[m]
  /\ Commit([kind |-> "report", team |-> t, match |-> m, lineup |-> lineup])
  /\ DropAll(r, RecordPages(t))
  /\ UNCHANGED <<cache, fails>>

\* updateTeam, then delTeamDetail
UpdateTeam(r, t) ==
  /\ At(r, "idle")
  /\ Exists(t)
  /\ Commit([kind |-> "update", team |-> t])
  /\ DropAll(r, <<<<"detail", t>>>>)
  /\ UNCHANGED <<cache, fails>>

Overtaken(k) ==
  [s \in Request |-> IF At(s, "store") /\ req[s].page = k
                     THEN [req[s] EXCEPT !.overtaken = TRUE] ELSE req[s]]

\* del of one key
DropPage(r) ==
  LET k == Head(req[r].todo)  rest == Tail(req[r].todo) IN
  /\ At(r, "drop")
  /\ cache' = [cache EXCEPT ![k] = NoPage]
  /\ req' = [Overtaken(k) EXCEPT ![r] =
               IF rest = <<>> THEN Idle ELSE [req[r] EXCEPT !.todo = rest]]
  /\ UNCHANGED <<log, fails>>

\* Changes that drop no page.
CreateTeam(t) ==
  /\ t \notin Founded /\ ~ Happened("create", t)
  /\ Commit([kind |-> "create", team |-> t])
  /\ UNCHANGED <<cache, req, fails>>

DeleteTeam(t) ==
  /\ Exists(t)
  /\ Commit([kind |-> "delete", team |-> t])
  /\ UNCHANGED <<cache, req, fails>>

ExpulsionMember(p) ==
  /\ Exists(TeamOf[p]) /\ p \notin Gone
  /\ Commit([kind |-> "expel", member |-> p])
  /\ UNCHANGED <<cache, req, fails>>

\* A query or a command of Redis fails: the rest of the request is not run.
Fail(r) ==
  /\ ~ At(r, "idle")
  /\ fails < MaxFails
  /\ fails' = fails + 1
  /\ Move(r, Idle)
  /\ UNCHANGED <<log, cache>>

-----------------------------------------------------------------------------
Handle(r) == StorePage(r) \/ SetTtl(r) \/ DropPage(r)

Next ==
  \/ \E r \in Request :
       \/ \E k \in Visited : ReadMiss(r, k)
       \/ \E t \in Team :
            \/ UpdateTeam(r, t)
            \/ \E m \in Open, lineup \in Lineups[t] : Report(r, t, m, lineup)
       \/ Handle(r) \/ Fail(r)
  \/ \E k \in Page : Expire(k)
  \/ \E t \in Team : CreateTeam(t) \/ DeleteTeam(t)
  \/ \E p \in Member : ExpulsionMember(p)

Spec == Init /\ [][Next]_vars

\* Node runs every handler on and Redis removes what has expired.
FairSpec ==
  /\ Spec
  /\ \A r \in Request : WF_vars(Handle(r))
  /\ \A k \in Visited : WF_vars(Expire(k))

-----------------------------------------------------------------------------
(* Properties.                                                              *)

\* Every variable has its type.
TypeOK ==
  /\ log \in Seq(Entry)
  /\ cache \in [Page -> CachedPage]
  /\ req \in [Request -> RequestState]
  /\ fails \in 0 .. MaxFails

Dropping(r, k) == \E i \in DOMAIN req[r].todo : req[r].todo[i] = k

OutdatedByUpdate(k) ==
  \E i \in cache[k].from + 1 .. Len(log) : DropsAfter(k, log[i])

\* A page that lacks a result or an update of its own team is about to be
\* dropped, unless its reader was overtaken: it had started before the drop and
\* stored its page after it.  Without a failure there is no third way.
OutdatedOnlyByOvertaking ==
  fails = 0 =>
    \A k \in Page : Present(k) /\ ~ cache[k].overtaken /\ OutdatedByUpdate(k) =>
      \E r \in Request : Dropping(r, k)

\* Without a failure a page has a time to live or is about to get one, although
\* set and expire are two commands and readers of one page interleave.
PagesLapse ==
  fails = 0 =>
    \A k \in Page : Present(k) /\ ~ cache[k].ttl =>
      \E r \in Request : At(r, "ttl") /\ req[r].page = k

Outdated(k) == Present(k) /\ \E i \in cache[k].from + 1 .. Len(log) : Shows(k, log[i])

\* Without a failure an outdated page goes, whatever outdated it: a result of
\* another team, an expulsion, the creation or deletion of the team, an update
\* its reader was overtaken by.
OutdatedPageGoes ==
  \A k \in Visited : Outdated(k) ~> (~ Outdated(k) \/ fails > 0)

Quiet == \A r \in Request : At(r, "idle")

Existing == {t \in Team : Exists(t)}

\* Between requests: whatever has been reported, whoever has left and whichever
\* teams there are, the pages and lists computed from it agree with each other,
\* and rankings name players.
PagesAddUp ==
  Quiet =>
    /\ PagesAgree(Rows, Gone)
    /\ RankingsNamePlayers(Rows, Gone)
    /\ ListsAgree(Rows, Gone, Existing, Take)

=============================================================================
