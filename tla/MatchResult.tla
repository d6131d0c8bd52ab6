----------------------------- MODULE MatchResult -----------------------------
(***************************************************************************)
(* Registration of match results and aggregation of the league standings,  *)
(* src/src/match/match.service.ts: resultMatchCreate, resultMathfinal and  *)
(* the helpers they call.                                                  *)
(*                                                                         *)
(* Every HTTP request runs in a slot of Request.  A handler is cut at each *)
(* await whose effect another request can see: a read of committed data, a *)
(* statement that is written outside the transaction, the commit.  Row     *)
(* locks are taken only by the last statements of the transaction, which   *)
(* read nothing afterwards, so those statements and the commit are one     *)
(* step.  A handler that only reads and rejects is a stuttering step.      *)
(*                                                                         *)
(* A definition D_Variant is D with a plausible mistake; nothing uses it   *)
(* but the runs that show which property the mistake breaks.               *)
(***************************************************************************)
EXTENDS Integers, Sequences, FiniteSets

CONSTANTS
  Team,       \* teams, each with its owner (teams.creator_id)
  Match,      \* matches that are over: findIfMatchOver holds
  Sides,      \* Sides[m]: the home and the away team of m
  Score,      \* goals one submission can add up to
  Request,    \* slots for requests in flight; one slot: requests in sequence
  Diligent,   \* matches whose owners keep submitting (fairness only)
  Viewed,     \* bound: teams whose cached page is visited
  ManyCopies, \* bound: a lineup stored this often or more looks the same
  MaxGames,   \* bound: no submission starts once a row counts this many games
  MaxFaults   \* bound: statements that fail in a behaviour

ASSUME SidesAssumption ==
  /\ Match # {}
  /\ Sides \in [Match -> SUBSET Team]
  /\ \A m \in Match : \E a, b \in Team : a # b /\ Sides[m] = {a, b}
ASSUME ScoreAssumption == Score \subseteq Nat /\ 0 \in Score
ASSUME RequestAssumption == IsFiniteSet(Request)
ASSUME BoundAssumption ==
  /\ Diligent \subseteq Match
  /\ Viewed \subseteq Team
  /\ ManyCopies \in Nat \ {0}
  /\ MaxGames \in Nat
  /\ MaxFaults \in Nat

VARIABLES
  results,    \* match_results: the rows of a match and a team
  standings,  \* team_statistics: the rows of a team
  players,    \* player_statistics: submissions stored for a match and a team
  page,       \* Redis team pages, and whether the own team's write outdated them
  reader,     \* getTeamStats between its queries and its store (bound: one per team)
  req,        \* requests in flight
  faults      \* failures so far

vars == <<results, standings, players, page, reader, req, faults>>

-----------------------------------------------------------------------------
(* Rows.  "reported" is FALSE while the json column goals is NULL.          *)

ResultRow == [reported : BOOLEAN, goals : Score, clean : BOOLEAN]
Standing  == [wins : Nat, loses : Nat, draws : Nat, total : Nat]
PageState == {"none", "fresh", "stale", "staleByOwn"}
ReaderState == {"none", "fresh", "stale"}

NewResult == [reported |-> FALSE, goals |-> 0, clean |-> FALSE]
NoGames == [wins |-> 0, loses |-> 0, draws |-> 0, total |-> 0]

(* The local variables of a handler: the submission, what it read before    *)
(* the transaction, and the rows of team_statistics it found (0: none).     *)
PC == {"idle", "save", "count", "opponent", "ownTotal", "ownRow", "ownWrite",
       "otherTotal", "otherRow", "commit", "dropPage"}

RequestState ==
  [pc : PC, team : Team, match : Match, score : Score, lineup : BOOLEAN,
   everyReported : BOOLEAN, counting : BOOLEAN, other : Team,
   otherScore : Score, ownRow : Nat, own : Standing,
   otherRow : Nat, others : Standing]

Idle ==
  [pc |-> "idle", team |-> CHOOSE t \in Team : TRUE,
   match |-> CHOOSE m \in Match : TRUE, score |-> 0, lineup |-> FALSE,
   everyReported |-> FALSE, counting |-> FALSE,
   other |-> CHOOSE t \in Team : TRUE, otherScore |-> 0,
   ownRow |-> 0, own |-> NoGames, otherRow |-> 0, others |-> NoGames]

Init ==
  /\ results = [m \in Match |-> [t \in Team |-> <<>>]]
  /\ standings = [t \in Team |-> <<>>]
  /\ players = [m \in Match |-> [t \in Team |-> 0]]
  /\ page = [t \in Team |-> "none"]
  /\ reader = [t \in Team |-> "none"]
  /\ req = [r \in Request |-> Idle]
  /\ faults = 0

-----------------------------------------------------------------------------
(* Queries and updates of a row.                                            *)

\* the rows of a match
ResultCount(m) ==
  Cardinality(UNION {{<<t, i>> : i \in DOMAIN results[m][t]} : t \in Team})

NoResultYet_Unchecked(m, t) == TRUE

\* isMatchDetail, negated
NoResultYet(m, t) == results[m][t] = <<>>

EveryRowReported_Never(m) == FALSE

EveryRowReported_Some(m) ==
  \E t \in Team : \E i \in DOMAIN results[m][t] : results[m][t][i].reported

\* matches.every(...): TRUE when the match has no row at all
EveryRowReported(m) ==
  \A t \in Team : \A i \in DOMAIN results[m][t] : results[m][t][i].reported

Tally_LossTakesWin(mine, theirs) ==
  [wins  |-> IF mine > theirs THEN 1 ELSE IF mine < theirs THEN -1 ELSE 0,
   loses |-> IF mine < theirs THEN 1 ELSE 0,
   draws |-> IF mine = theirs THEN 1 ELSE 0,
   total |-> 1]

Tally_DrawWins(mine, theirs) ==
  [wins  |-> IF mine >= theirs THEN 1 ELSE 0,
   loses |-> IF mine < theirs THEN 1 ELSE 0,
   draws |-> 0,
   total |-> 1]

\* the columns one match adds to
Tally(mine, theirs) ==
  [wins  |-> IF mine > theirs THEN 1 ELSE 0,
   loses |-> IF mine < theirs THEN 1 ELSE 0,
   draws |-> IF mine = theirs THEN 1 ELSE 0,
   total |-> 1]

CleanSheet_OwnGoals(scored, conceded) == scored = 0

CleanSheet(scored, conceded) == conceded = 0

Plus(row, tally) == [c \in DOMAIN row |-> row[c] + tally[c]]

\* a row that was found is overwritten with read values, else one is inserted
Put(rows, i, row) == IF i = 0 THEN Append(rows, row) ELSE [rows EXCEPT ![i] = row]

\* findOne without ORDER BY: any row of the team; none: index 0 and zeroes
SomeRow(t) == IF standings[t] = <<>> THEN {0} ELSE DOMAIN standings[t]
RowOf(t, i) == IF i = 0 THEN NoGames ELSE standings[t][i]

\* the pages after a write of team t to data the pages of ts show
Outdate(t, ts) ==
  /\ page' = [s \in Team |->
                IF page[s] # "none" /\ s = t THEN "staleByOwn"
                ELSE IF page[s] = "fresh" /\ s \in ts THEN "stale"
                ELSE page[s]]
  /\ reader' = [s \in Team |->
                  IF reader[s] # "none" /\ s \in ts \cup {t} THEN "stale" ELSE reader[s]]

Goto(r, state) == req' = [req EXCEPT ![r] = state]
Reply(r) == Goto(r, Idle)

-----------------------------------------------------------------------------
(* resultMatchCreate: check for a row, then insert one in a transaction.    *)

CreateCheck(r, t, m) ==
  /\ req[r].pc = "idle"
  /\ t \in Sides[m]
  /\ NoResultYet(m, t)
  /\ Goto(r, [Idle EXCEPT !.pc = "save", !.team = t, !.match = m])
  /\ UNCHANGED <<results, standings, players, page, reader, faults>>

CreateSave(r) ==
  LET q == req[r] IN
  /\ q.pc = "save"
  /\ results' = [results EXCEPT ![q.match][q.team] = Append(@, NewResult)]
  /\ Reply(r)
  /\ UNCHANGED <<standings, players, page, reader, faults>>

-----------------------------------------------------------------------------
(* resultMathfinal.                                                         *)

\* The checks, and the rows of the match read before the transaction starts.
\* lineup: the submission names a player, whose row the transaction inserts.
FinalBegin(r, t, m, g, lineup) ==
  /\ req[r].pc = "idle"
  /\ t \in Sides[m]
  /\ g > 0 => lineup
  /\ \A s \in Team : \A i \in DOMAIN standings[s] : standings[s][i].total < MaxGames
  /\ Goto(r, [Idle EXCEPT !.pc = "count", !.team = t, !.match = m, !.score = g,
                          !.lineup = lineup, !.everyReported = EveryRowReported(m)])
  /\ UNCHANGED <<results, standings, players, page, reader, faults>>

\* isTeamMember finds a player of another team, or results is missing: rollback.
FinalRejectLineup(r) ==
  /\ req[r].pc = "count"
  /\ Reply(r)
  /\ UNCHANGED <<results, standings, players, page, reader, faults>>

\* Two rows: count the match unless it was counted when the request arrived.
FinalCount(r) ==
  LET q == req[r] IN
  /\ q.pc = "count"
  /\ \/ /\ ResultCount(q.match) # 2
        /\ Goto(r, [q EXCEPT !.pc = "commit"])
     \/ /\ ResultCount(q.match) = 2
        /\ ~ q.everyReported
        /\ Goto(r, [q EXCEPT !.pc = "opponent", !.counting = TRUE])
     \/ /\ ResultCount(q.match) = 2
        /\ q.everyReported
        /\ Reply(r)
  /\ UNCHANGED <<results, standings, players, page, reader, faults>>

GoalsKnown_NullIsZero(row) == TRUE

GoalsKnown(row) == row.reported

\* No row of the opponent, or one whose goals are NULL: TypeError, rollback.
FinalOpponent(r) ==
  LET q == req[r]
      Others == {t \in Team \ {q.team} : ~ NoResultYet(q.match, t)} IN
  /\ q.pc = "opponent"
  /\ \/ /\ Others = {}
        /\ Reply(r)
     \/ \E t \in Others : \E i \in DOMAIN results[q.match][t] :
          LET row == results[q.match][t][i] IN
          IF GoalsKnown(row)
          THEN Goto(r, [q EXCEPT !.pc = "ownTotal", !.other = t, !.otherScore = row.goals])
          ELSE Reply(r)
  /\ UNCHANGED <<results, standings, players, page, reader, faults>>

\* teamTotalGames(own team)
FinalOwnTotal(r) ==
  LET q == req[r] IN
  /\ q.pc = "ownTotal"
  /\ \E i \in SomeRow(q.team) :
       Goto(r, [q EXCEPT !.pc = "ownRow", !.own.total = RowOf(q.team, i).total])
  /\ UNCHANGED <<results, standings, players, page, reader, faults>>

FinalOwnRow(r) ==
  LET q == req[r] IN
  /\ q.pc = "ownRow"
  /\ \E i \in SomeRow(q.team) :
       Goto(r, [q EXCEPT !.pc = "ownWrite", !.ownRow = i,
                         !.own = [RowOf(q.team, i) EXCEPT !.total = q.own.total]])
  /\ UNCHANGED <<results, standings, players, page, reader, faults>>

\* An existing row is updated through the repository: it commits on its own.
FinalOwnWrite(r) ==
  LET q == req[r] IN
  /\ q.pc = "ownWrite"
  /\ Goto(r, [q EXCEPT !.pc = "otherTotal"])
  /\ IF q.ownRow = 0
     THEN UNCHANGED <<standings, page, reader>>
     ELSE /\ standings' = [standings EXCEPT ![q.team] =
                             Put(@, q.ownRow, Plus(q.own, Tally(q.score, q.otherScore)))]
          /\ Outdate(q.team, {})
  /\ UNCHANGED <<results, players, faults>>

FinalOtherTotal(r) ==
  LET q == req[r] IN
  /\ q.pc = "otherTotal"
  /\ \E i \in SomeRow(q.other) :
       Goto(r, [q EXCEPT !.pc = "otherRow", !.others.total = RowOf(q.other, i).total])
  /\ UNCHANGED <<results, standings, players, page, reader, faults>>

FinalOtherRow(r) ==
  LET q == req[r] IN
  /\ q.pc = "otherRow"
  /\ \E i \in SomeRow(q.other) :
       Goto(r, [q EXCEPT !.pc = "commit", !.otherRow = i,
                         !.others = [RowOf(q.other, i) EXCEPT !.total = q.others.total]])
  /\ UNCHANGED <<results, standings, players, page, reader, faults>>

\* The rows of the match as the transaction leaves them.
ReportedResults(q) ==
  [t \in Team |-> [i \in DOMAIN results[q.match][t] |->
     IF t = q.team
     THEN [reported |-> TRUE, goals |-> q.score,
           clean |-> q.counting /\ CleanSheet(q.score, q.otherScore)]
     ELSE IF q.counting /\ t = q.other
     THEN [results[q.match][t][i] EXCEPT !.clean = CleanSheet(q.otherScore, q.score)]
     ELSE results[q.match][t][i]]]

\* The standings as the transaction leaves them: an inserted own row, and the
\* opponent's row.
CountedStandings(q) ==
  [t \in Team |->
     IF t = q.team /\ q.ownRow = 0
     THEN Append(standings[t], Plus(NoGames, Tally(q.score, q.otherScore)))
     ELSE IF t = q.other
     THEN Put(standings[t], q.otherRow, Plus(q.others, Tally(q.otherScore, q.score)))
     ELSE standings[t]]

StoredPlayers_OnlyCounted(q) ==
  IF q.lineup /\ q.counting
  THEN [players EXCEPT ![q.match][q.team] = ManyCopies]
  ELSE players

\* The player rows the transaction inserted, beside the ones of a resubmission.
StoredPlayers(q) ==
  IF q.lineup /\ players[q.match][q.team] < ManyCopies
  THEN [players EXCEPT ![q.match][q.team] = @ + 1]
  ELSE players

FinalCommit(r) ==
  LET q == req[r] IN
  /\ q.pc = "commit"
  /\ results' = [results EXCEPT ![q.match] = ReportedResults(q)]
  /\ standings' = IF q.counting THEN CountedStandings(q) ELSE standings
  /\ players' = StoredPlayers(q)
  /\ Outdate(q.team, Sides[q.match])
  /\ Goto(r, [q EXCEPT !.pc = "dropPage"])
  /\ UNCHANGED faults

DroppedPage_Other(q) == q.other

DroppedPage(q) == q.team

\* redisService.delTeamStats(own team)
FinalDropPage(r) ==
  /\ req[r].pc = "dropPage"
  /\ page' = [page EXCEPT ![DroppedPage(req[r])] = "none"]
  /\ Reply(r)
  /\ UNCHANGED <<results, standings, players, reader, faults>>

-----------------------------------------------------------------------------
(* Failures, and the readers of the cache.                                  *)

\* A statement fails (lost connection, deadlock, lock timeout): the catch block
\* rolls the transaction back.  A failure of Redis comes after the commit and
\* rolls nothing back.
Fail(r) ==
  /\ req[r].pc # "idle"
  /\ faults < MaxFaults
  /\ faults' = faults + 1
  /\ Reply(r)
  /\ UNCHANGED <<results, standings, players, page, reader>>

\* statistics.service getTeamStats: an absent page is computed from the tables,
\* then stored; a page expires by its TTL.
PageRead(t) ==
  /\ page[t] = "none"
  /\ reader[t] = "none"
  /\ reader' = [reader EXCEPT ![t] = "fresh"]
  /\ UNCHANGED <<results, standings, players, page, req, faults>>

PageStore(t) ==
  /\ reader[t] # "none"
  /\ page' = [page EXCEPT ![t] = reader[t]]
  /\ reader' = [reader EXCEPT ![t] = "none"]
  /\ UNCHANGED <<results, standings, players, req, faults>>

PageExpire(t) ==
  /\ page[t] # "none"
  /\ page' = [page EXCEPT ![t] = "none"]
  /\ UNCHANGED <<results, standings, players, reader, req, faults>>

\* the rows the page counts as clean sheets
getCleanSheet(t) ==
  UNION {{<<m, i>> : i \in {j \in DOMAIN results[m][t] : results[m][t][j].clean}} : m \in Match}

\* what the page may show as standings: one of the rows, zeros without one
getWinsAndLosesAndDraws(t) == {RowOf(t, i) : i \in SomeRow(t)}

\* The statistics of a member, which no cache stands before: the member's id is
\* taken for that of a team.  Its goals are those of Statistics.
getMemberStats(t) ==
  {[standings |-> row, cleanSheet |-> Cardinality(getCleanSheet(t))] :
     row \in getWinsAndLosesAndDraws(t)}

\* The page of a match: the goals it may show for each side with a row.  A side
\* without goals shows 0 like one that did not score, and of two rows of a side
\* the one that is read last is shown.
getMatchResultByMatchId(m) ==
  [t \in {o \in Sides[m] : results[m][o] # <<>>} |->
     {results[m][t][i].goals : i \in DOMAIN results[m][t]}]

-----------------------------------------------------------------------------
Handle(r) ==
  \/ CreateSave(r)
  \/ FinalCount(r)
  \/ FinalOpponent(r)
  \/ FinalOwnTotal(r)
  \/ FinalOwnRow(r)
  \/ FinalOwnWrite(r)
  \/ FinalOtherTotal(r)
  \/ FinalOtherRow(r)
  \/ FinalCommit(r)
  \/ FinalDropPage(r)

Next ==
  \/ \E r \in Request, t \in Team, m \in Match :
       \/ CreateCheck(r, t, m)
       \/ \E g \in Score, lineup \in BOOLEAN : FinalBegin(r, t, m, g, lineup)
  \/ \E r \in Request : Handle(r) \/ FinalRejectLineup(r) \/ Fail(r)
  \/ \E t \in Viewed : PageRead(t) \/ PageStore(t) \/ PageExpire(t)

Spec == Init /\ [][Next]_vars

\* The server runs every handler to its end.  The owners of a diligent match keep
\* submitting: each one gets to register a result while it has none, and to
\* report with players of the own team.  Nobody else need submit anything.
FairSpec ==
  /\ Spec
  /\ \A r \in Request : WF_vars(Handle(r))
  /\ \A m \in Diligent : \A t \in Sides[m] :
       /\ SF_vars(\E r \in Request : CreateCheck(r, t, m))
       /\ SF_vars(\E r \in Request, g \in Score, lineup \in BOOLEAN :
                    FinalBegin(r, t, m, g, lineup))
       /\ SF_vars(\E r \in Request :
                    req[r].team = t /\ req[r].match = m /\ FinalCount(r))

-----------------------------------------------------------------------------
(* Properties.                                                              *)

\* Every variable has its type.
TypeOK ==
  /\ results \in [Match -> [Team -> Seq(ResultRow)]]
  /\ standings \in [Team -> Seq(Standing)]
  /\ players \in [Match -> [Team -> 0..ManyCopies]]
  /\ page \in [Team -> PageState]
  /\ reader \in [Team -> ReaderState]
  /\ req \in [Request -> RequestState]
  /\ faults \in 0..MaxFaults

Quiet == \A r \in Request : req[r].pc = "idle"
Registered(m, t) == results[m][t] # <<>>
Reported(m, t) == \E i \in DOMAIN results[m][t] : results[m][t][i].reported
Complete(m) == \A t \in Sides[m] : Reported(m, t)
Goals(m, t) == CHOOSE g \in getMatchResultByMatchId(m)[t] : TRUE
OpponentGoals(m, t) == Goals(m, CHOOSE o \in Sides[m] : o # t)

Played(t) == {m \in Match : t \in Sides[m] /\ Complete(m)}
Recount(t) ==
  [wins  |-> Cardinality({m \in Played(t) : Goals(m, t) > OpponentGoals(m, t)}),
   loses |-> Cardinality({m \in Played(t) : Goals(m, t) < OpponentGoals(m, t)}),
   draws |-> Cardinality({m \in Played(t) : Goals(m, t) = OpponentGoals(m, t)}),
   total |-> Cardinality(Played(t))]

\* Between requests the statistics of a team are what a recount of the pages of
\* its matches gives: each reported match is in the standings of both teams once,
\* with the outcome the stored goals have, and the clean sheets are those of the
\* reported matches in which the opponent did not score, although the two
\* submissions of a match write rows of both teams (requests in sequence, no
\* failure), and whoever is shown the team as a member reads just that.
StandingsMatchResults ==
  Quiet => \A t \in Team :
             LET clean == {m \in Played(t) : OpponentGoals(m, t) = 0} IN
             /\ standings[t] = IF Played(t) = {} THEN <<>> ELSE <<Recount(t)>>
             /\ {x[1] : x \in getCleanSheet(t)} = clean
             /\ getMemberStats(t) = {[standings |-> Recount(t), cleanSheet |-> Cardinality(clean)]}

\* Goals of a result are backed by player rows: the two tables are written by
\* one transaction, whatever fails or runs beside it.
ScoredResultHasPlayers ==
  \A m \in Match, t \in Team : \A i \in DOMAIN results[m][t] :
    results[m][t][i].goals > 0 => players[m][t] > 0

\* A team's standings change only by a match of the team for which one of the
\* two sides has committed its goals, whatever fails or runs beside it.
StandingsNeedReport ==
  [][\A t \in Team :
       standings'[t] # standings[t] =>
         \E m \in Match : /\ t \in Sides[m]
                          /\ \E o \in Sides[m] : Reported(m, o)]_vars

\* While nothing has failed, a page that was stored when the team's own
\* submission outdated it is about to be dropped by a request in flight.  (A
\* reader that straddles the submission still stores an outdated page: "stale".)
OwnWriteDropsPage ==
  faults = 0 =>
    \A t \in Team : page[t] = "staleByOwn" =>
      \E r \in Request : /\ req[r].team = t
                         /\ req[r].pc \in {"otherTotal", "otherRow", "commit", "dropPage"}

\* A second result of a team is refused (match.service.ts:415), but nothing
\* backs the look-up: a team gets as many rows as submissions can pass it at a
\* time, one if they come in sequence, and never more.
DuplicatesOnlyByRace ==
  \A m \in Match, t \in Team : Len(results[m][t]) <= Cardinality(Request)

\* An error in the transaction is rolled back (match.service.spec.ts:991): the
\* standings count no match that is not completely reported.
RollbackLeavesNoTrace ==
  Quiet => \A t \in Team : \A i \in DOMAIN standings[t] :
             standings[t][i].total <= Cardinality(Played(t))

\* A diligent match one side has reported before the other registered gets
\* counted, whatever the owners of other matches do.
ReportInTurnCompletes ==
  \A m \in Diligent :
    (\E t, o \in Sides[m] : Reported(m, t) /\ ~ Registered(m, o)) ~> Complete(m)

\* Owners can register the result and the players' records after the match
\* (README.md:101): a match both have registered gets reported by both.
RegisteredMatchCompletes ==
  \A m \in Diligent : (\A t \in Sides[m] : Registered(m, t)) ~> Complete(m)

(* Refinement of League.  The own row a request has already committed is not *)
(* in the table until the request commits.                                   *)

Uncommitted(r, t) ==
  /\ req[r].pc \in {"otherTotal", "otherRow", "commit"}
  /\ req[r].counting
  /\ req[r].team = t
  /\ req[r].ownRow # 0

TableRow(t) ==
  IF \E r \in Request : Uncommitted(r, t)
  THEN req[CHOOSE r \in Request : Uncommitted(r, t)].own
  ELSE RowOf(t, IF standings[t] = <<>> THEN 0 ELSE 1)

ReportedGoals(m, t) == IF Reported(m, t) THEN Goals(m, t) ELSE -1

Promise == INSTANCE League WITH
  score <- [m \in Match |-> [t \in Team |-> ReportedGoals(m, t)]],
  table <- [t \in Team |-> TableRow(t)]

\* Requests in sequence without a failure implement the league: the multi-step
\* handler counts each match once, at its commit, with the stored goals.
ImplementsLeague == Promise!Spec

=============================================================================
