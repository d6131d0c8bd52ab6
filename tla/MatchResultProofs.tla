-------------------------- MODULE MatchResultProofs --------------------------
(***************************************************************************)
(* Theorems about MatchResult for any teams, fixtures, number of           *)
(* concurrent requests and number of failures; and, for requests that come *)
(* one after the other, that the standings are a recount of the results.   *)
(***************************************************************************)
EXTENDS MatchResult, FiniteSetTheorems, SequenceTheorems, TLAPS

-----------------------------------------------------------------------------
(* Lemmas about rows.                                                       *)

\* A column-wise sum of two standings is a standing.
LEMMA PlusType ==
  ASSUME NEW row \in Standing, NEW a \in Nat, NEW b \in Nat
  PROVE  Plus(row, Tally(a, b)) \in Standing
<1>1. DOMAIN row = {"wins", "loses", "draws", "total"}
  BY DEF Standing
<1>2. /\ row.wins \in Nat /\ row.loses \in Nat
      /\ row.draws \in Nat /\ row.total \in Nat
  BY DEF Standing
<1>3. /\ Tally(a, b).wins \in Nat /\ Tally(a, b).loses \in Nat
      /\ Tally(a, b).draws \in Nat /\ Tally(a, b).total \in Nat
  BY DEF Tally
<1>4. Plus(row, Tally(a, b)) =
        [wins  |-> row.wins + Tally(a, b).wins,
         loses |-> row.loses + Tally(a, b).loses,
         draws |-> row.draws + Tally(a, b).draws,
         total |-> row.total + Tally(a, b).total]
  BY <1>1 DEF Plus
<1> QED
  BY <1>2, <1>3, <1>4 DEF Standing

LEMMA NoGamesType == NoGames \in Standing
BY DEF NoGames, Standing

\* Putting a standing into rows of standings gives rows of standings.
LEMMA PutType ==
  ASSUME NEW rows \in Seq(Standing), NEW i \in Nat, NEW row \in Standing
  PROVE  Put(rows, i, row) \in Seq(Standing)
<1>1. CASE i = 0
  BY <1>1 DEF Put
<1>2. CASE i # 0
  <2>1. rows \in [1..Len(rows) -> Standing] /\ Len(rows) \in Nat
    BY LenProperties
  <2>2. Put(rows, i, row) \in [1..Len(rows) -> Standing]
    BY <1>2, <2>1 DEF Put
  <2> QED
    BY <2>1, <2>2, SeqDef
<1> QED
  BY <1>1, <1>2

\* The row findOne returns, or the zeroes that stand for no row.
LEMMA RowOfType ==
  ASSUME standings \in [Team -> Seq(Standing)], NEW t \in Team, NEW i \in SomeRow(t)
  PROVE  i \in Nat /\ RowOf(t, i) \in Standing
<1>1. CASE standings[t] = <<>>
  BY <1>1, NoGamesType DEF SomeRow, RowOf
<1>2. CASE standings[t] # <<>>
  <2>1. standings[t] \in Seq(Standing)
    OBVIOUS
  <2>2. i \in 1..Len(standings[t]) /\ Len(standings[t]) \in Nat
    BY <1>2, <2>1, LenProperties DEF SomeRow
  <2>3. standings[t][i] \in Standing
    BY <2>1, <2>2, ElementOfSeq
  <2> QED
    BY <2>2, <2>3 DEF RowOf
<1> QED
  BY <1>1, <1>2

\* The defaults of an idle slot have the type of a request.
LEMMA IdleType == Idle \in RequestState
<1>1. (CHOOSE t \in Team : TRUE) \in Team
  BY SidesAssumption
<1>2. (CHOOSE m \in Match : TRUE) \in Match
  BY SidesAssumption
<1> QED
  BY <1>1, <1>2, NoGamesType, ScoreAssumption DEF Idle, RequestState, PC

\* The rows of a match keep their number and their type at a commit.
LEMMA ReportedResultsType ==
  ASSUME results \in [Match -> [Team -> Seq(ResultRow)]], NEW q \in RequestState
  PROVE  /\ ReportedResults(q) \in [Team -> Seq(ResultRow)]
         /\ \A t \in Team : DOMAIN ReportedResults(q)[t] = DOMAIN results[q.match][t]
<1> q.match \in Match /\ q.team \in Team /\ q.score \in Score
  BY DEF RequestState
<1> SUFFICES ASSUME NEW t \in Team
             PROVE  /\ ReportedResults(q)[t] \in Seq(ResultRow)
                    /\ DOMAIN ReportedResults(q)[t] = DOMAIN results[q.match][t]
  BY DEF ReportedResults
<1> DEFINE rows == results[q.match][t]
<1>1. rows \in Seq(ResultRow)
  OBVIOUS
<1>2. Len(rows) \in Nat /\ DOMAIN rows = 1..Len(rows)
  BY <1>1, LenProperties
<1>3. ASSUME NEW i \in DOMAIN rows
      PROVE  ReportedResults(q)[t][i] \in ResultRow
  <2>1. rows[i] \in ResultRow
    BY <1>1, <1>2, ElementOfSeq
  <2>2. [rows[i] EXCEPT !.clean = CleanSheet(q.otherScore, q.score)] \in ResultRow
    BY <2>1 DEF ResultRow, CleanSheet
  <2>3. [reported |-> TRUE, goals |-> q.score,
         clean |-> q.counting /\ CleanSheet(q.score, q.otherScore)] \in ResultRow
    BY DEF ResultRow, CleanSheet, RequestState
  <2> QED
    BY <2>1, <2>2, <2>3 DEF ReportedResults
<1>4. DOMAIN ReportedResults(q)[t] = DOMAIN rows
  BY DEF ReportedResults
<1>5. ReportedResults(q)[t] \in [1..Len(rows) -> ResultRow]
  <2>1. ReportedResults(q)[t] = [i \in DOMAIN rows |-> ReportedResults(q)[t][i]]
    BY DEF ReportedResults
  <2> QED
    BY <1>2, <1>3, <2>1
<1>6. ReportedResults(q)[t] \in Seq(ResultRow)
  BY <1>2, <1>5, SeqDef
<1> QED
  BY <1>4, <1>6

\* The standings keep their type at a commit.
LEMMA CountedStandingsType ==
  ASSUME standings \in [Team -> Seq(Standing)], NEW q \in RequestState
  PROVE  CountedStandings(q) \in [Team -> Seq(Standing)]
<1> SUFFICES ASSUME NEW t \in Team
             PROVE  CountedStandings(q)[t] \in Seq(Standing)
  BY DEF CountedStandings
<1>1. /\ q.score \in Nat /\ q.otherScore \in Nat /\ q.otherRow \in Nat
      /\ q.others \in Standing
  BY ScoreAssumption DEF RequestState
<1>2. Append(standings[t], Plus(NoGames, Tally(q.score, q.otherScore))) \in Seq(Standing)
  BY <1>1, PlusType, NoGamesType
<1>3. Put(standings[t], q.otherRow, Plus(q.others, Tally(q.otherScore, q.score)))
        \in Seq(Standing)
  BY <1>1, PlusType, PutType
<1> QED
  BY <1>2, <1>3 DEF CountedStandings

-----------------------------------------------------------------------------
(* Type correctness.                                                        *)

\* A handler that goes to a typed state keeps the requests typed.
LEMMA GotoType ==
  ASSUME req \in [Request -> RequestState], NEW r \in Request,
         NEW s \in RequestState, Goto(r, s)
  PROVE  req' \in [Request -> RequestState]
BY DEF Goto

LEMMA ReplyType ==
  ASSUME req \in [Request -> RequestState], NEW r \in Request, Reply(r)
  PROVE  req' \in [Request -> RequestState]
BY IdleType, GotoType DEF Reply

\* Each step of a handler keeps the types.
LEMMA CreateCheckType ==
  ASSUME TypeOK, NEW r \in Request, NEW t \in Team, NEW m \in Match, CreateCheck(r, t, m)
  PROVE  TypeOK'
<1>1. [Idle EXCEPT !.pc = "save", !.team = t, !.match = m] \in RequestState
  BY IdleType DEF RequestState, PC
<1> QED
  BY <1>1, GotoType DEF TypeOK, CreateCheck

LEMMA CreateSaveType ==
  ASSUME TypeOK, NEW r \in Request, CreateSave(r)
  PROVE  TypeOK'
<1>1. req[r].match \in Match /\ req[r].team \in Team
  BY DEF TypeOK, RequestState
<1>2. NewResult \in ResultRow
  BY ScoreAssumption DEF NewResult, ResultRow
<1>3. Append(results[req[r].match][req[r].team], NewResult) \in Seq(ResultRow)
  BY <1>1, <1>2 DEF TypeOK
<1>4. results' \in [Match -> [Team -> Seq(ResultRow)]]
  BY <1>1, <1>3 DEF TypeOK, CreateSave
<1> QED
  BY <1>4, ReplyType DEF TypeOK, CreateSave

LEMMA FinalBeginType ==
  ASSUME TypeOK, NEW r \in Request, NEW t \in Team, NEW m \in Match,
         NEW g \in Score, NEW lineup \in BOOLEAN, FinalBegin(r, t, m, g, lineup)
  PROVE  TypeOK'
<1>1. EveryRowReported(m) \in BOOLEAN
  BY DEF EveryRowReported
<1>2. [Idle EXCEPT !.pc = "count", !.team = t, !.match = m, !.score = g,
                   !.lineup = lineup, !.everyReported = EveryRowReported(m)] \in RequestState
  BY <1>1, IdleType DEF RequestState, PC
<1> QED
  BY <1>2, GotoType DEF TypeOK, FinalBegin

LEMMA FinalCountType ==
  ASSUME TypeOK, NEW r \in Request, FinalCount(r)
  PROVE  TypeOK'
<1> DEFINE q == req[r]
<1>1. q \in RequestState
  BY DEF TypeOK
<1>2. /\ [q EXCEPT !.pc = "commit"] \in RequestState
      /\ [q EXCEPT !.pc = "opponent", !.counting = TRUE] \in RequestState
  BY <1>1 DEF RequestState, PC
<1> QED
  BY <1>2, GotoType, ReplyType DEF TypeOK, FinalCount

LEMMA FinalOpponentType ==
  ASSUME TypeOK, NEW r \in Request, FinalOpponent(r)
  PROVE  TypeOK'
<1> DEFINE q == req[r]
<1>1. q \in RequestState
  BY DEF TypeOK
<1>2. ASSUME NEW t \in Team, NEW i \in DOMAIN results[q.match][t]
      PROVE  [q EXCEPT !.pc = "ownTotal", !.other = t,
                       !.otherScore = results[q.match][t][i].goals] \in RequestState
  <2>1. results[q.match][t] \in Seq(ResultRow)
    BY <1>1 DEF TypeOK, RequestState
  <2>2. results[q.match][t][i] \in ResultRow
    BY <2>1, LenProperties, ElementOfSeq
  <2>3. results[q.match][t][i].goals \in Score
    BY <2>2 DEF ResultRow
  <2> QED
    BY <1>1, <2>3 DEF RequestState, PC
<1>3. req' \in [Request -> RequestState]
  BY <1>2, GotoType, ReplyType DEF TypeOK, FinalOpponent
<1> QED
  BY <1>3 DEF TypeOK, FinalOpponent

LEMMA FinalOwnTotalType ==
  ASSUME TypeOK, NEW r \in Request, FinalOwnTotal(r)
  PROVE  TypeOK'
<1> DEFINE q == req[r]
<1>1. q \in RequestState
  BY DEF TypeOK
<1>2. ASSUME NEW i \in SomeRow(q.team)
      PROVE  [q EXCEPT !.pc = "ownRow", !.own.total = RowOf(q.team, i).total] \in RequestState
  <2>1. RowOf(q.team, i) \in Standing
    BY <1>1, RowOfType DEF TypeOK, RequestState
  <2>2. [q.own EXCEPT !.total = RowOf(q.team, i).total] \in Standing
    BY <1>1, <2>1 DEF RequestState, Standing
  <2> QED
    BY <1>1, <2>2 DEF RequestState, PC
<1> QED
  BY <1>2, GotoType DEF TypeOK, FinalOwnTotal

LEMMA FinalOwnRowType ==
  ASSUME TypeOK, NEW r \in Request, FinalOwnRow(r)
  PROVE  TypeOK'
<1> DEFINE q == req[r]
<1>1. q \in RequestState
  BY DEF TypeOK
<1>2. ASSUME NEW i \in SomeRow(q.team)
      PROVE  [q EXCEPT !.pc = "ownWrite", !.ownRow = i,
                       !.own = [RowOf(q.team, i) EXCEPT !.total = q.own.total]] \in RequestState
  <2>1. i \in Nat /\ RowOf(q.team, i) \in Standing
    BY <1>1, RowOfType DEF TypeOK, RequestState
  <2>2. [RowOf(q.team, i) EXCEPT !.total = q.own.total] \in Standing
    BY <1>1, <2>1 DEF RequestState, Standing
  <2> QED
    BY <1>1, <2>1, <2>2 DEF RequestState, PC
<1> QED
  BY <1>2, GotoType DEF TypeOK, FinalOwnRow

\* A write outdates pages and leaves them typed.
LEMMA OutdateType ==
  ASSUME page \in [Team -> PageState], reader \in [Team -> ReaderState],
         NEW t, NEW ts, Outdate(t, ts)
  PROVE  page' \in [Team -> PageState] /\ reader' \in [Team -> ReaderState]
BY DEF Outdate, PageState, ReaderState

LEMMA FinalOwnWriteType ==
  ASSUME TypeOK, NEW r \in Request, FinalOwnWrite(r)
  PROVE  TypeOK'
<1> DEFINE q == req[r]
           new == Put(standings[q.team], q.ownRow, Plus(q.own, Tally(q.score, q.otherScore)))
<1>1. q \in RequestState
  BY DEF TypeOK
<1>2. /\ q.team \in Team /\ q.ownRow \in Nat /\ q.own \in Standing
      /\ q.score \in Nat /\ q.otherScore \in Nat
  BY <1>1, ScoreAssumption DEF RequestState
<1>3. new \in Seq(Standing)
  BY <1>2, PlusType, PutType DEF TypeOK
<1>4. standings' \in [Team -> Seq(Standing)]
  BY <1>2, <1>3 DEF TypeOK, FinalOwnWrite
<1>5. page' \in [Team -> PageState] /\ reader' \in [Team -> ReaderState]
  BY OutdateType DEF TypeOK, FinalOwnWrite
<1>6. [q EXCEPT !.pc = "otherTotal"] \in RequestState
  BY <1>1 DEF RequestState, PC
<1> QED
  BY <1>4, <1>5, <1>6, GotoType DEF TypeOK, FinalOwnWrite

LEMMA FinalOtherTotalType ==
  ASSUME TypeOK, NEW r \in Request, FinalOtherTotal(r)
  PROVE  TypeOK'
<1> DEFINE q == req[r]
<1>1. q \in RequestState
  BY DEF TypeOK
<1>2. ASSUME NEW i \in SomeRow(q.other)
      PROVE  [q EXCEPT !.pc = "otherRow", !.others.total = RowOf(q.other, i).total] \in RequestState
  <2>1. RowOf(q.other, i) \in Standing
    BY <1>1, RowOfType DEF TypeOK, RequestState
  <2>2. [q.others EXCEPT !.total = RowOf(q.other, i).total] \in Standing
    BY <1>1, <2>1 DEF RequestState, Standing
  <2> QED
    BY <1>1, <2>2 DEF RequestState, PC
<1> QED
  BY <1>2, GotoType DEF TypeOK, FinalOtherTotal

LEMMA FinalOtherRowType ==
  ASSUME TypeOK, NEW r \in Request, FinalOtherRow(r)
  PROVE  TypeOK'
<1> DEFINE q == req[r]
<1>1. q \in RequestState
  BY DEF TypeOK
<1>2. ASSUME NEW i \in SomeRow(q.other)
      PROVE  [q EXCEPT !.pc = "commit", !.otherRow = i,
                       !.others = [RowOf(q.other, i) EXCEPT !.total = q.others.total]] \in RequestState
  <2>1. i \in Nat /\ RowOf(q.other, i) \in Standing
    BY <1>1, RowOfType DEF TypeOK, RequestState
  <2>2. [RowOf(q.other, i) EXCEPT !.total = q.others.total] \in Standing
    BY <1>1, <2>1 DEF RequestState, Standing
  <2> QED
    BY <1>1, <2>1, <2>2 DEF RequestState, PC
<1> QED
  BY <1>2, GotoType DEF TypeOK, FinalOtherRow

LEMMA FinalCommitType ==
  ASSUME TypeOK, NEW r \in Request, FinalCommit(r)
  PROVE  TypeOK'
<1> DEFINE q == req[r]
<1>1. q \in RequestState
  BY DEF TypeOK
<1>2. q.match \in Match /\ q.team \in Team
  BY <1>1 DEF RequestState
<1>3. results' \in [Match -> [Team -> Seq(ResultRow)]]
  BY <1>1, ReportedResultsType DEF TypeOK, FinalCommit
<1>4. standings' \in [Team -> Seq(Standing)]
  BY <1>1, CountedStandingsType DEF TypeOK, FinalCommit
<1>5. players' \in [Match -> [Team -> 0..ManyCopies]]
  <2>1. players' = StoredPlayers(q) /\ players \in [Match -> [Team -> 0..ManyCopies]]
    BY DEF TypeOK, FinalCommit
  <2>2. players[q.match][q.team] \in 0..ManyCopies
    BY <1>2, <2>1
  <2>3. players[q.match][q.team] < ManyCopies =>
          players[q.match][q.team] + 1 \in 0..ManyCopies
    BY <2>2, BoundAssumption
  <2> QED
    BY <1>2, <2>1, <2>3 DEF StoredPlayers
<1>6. page' \in [Team -> PageState] /\ reader' \in [Team -> ReaderState]
  BY OutdateType DEF TypeOK, FinalCommit
<1>7. [q EXCEPT !.pc = "dropPage"] \in RequestState
  BY <1>1 DEF RequestState, PC
<1> QED
  BY <1>3, <1>4, <1>5, <1>6, <1>7, GotoType DEF TypeOK, FinalCommit

\* Type correctness is inductive.
LEMMA TypeStep == TypeOK /\ [Next]_vars => TypeOK'
<1> SUFFICES ASSUME TypeOK, [Next]_vars
             PROVE  TypeOK'
  OBVIOUS
<1>1. ASSUME NEW r \in Request, Handle(r)
      PROVE  TypeOK'
  <2>1. CASE FinalDropPage(r)
    BY <2>1, ReplyType DEF TypeOK, FinalDropPage, PageState
  <2> QED
    BY <1>1, <2>1, CreateSaveType, FinalCountType, FinalOpponentType, FinalOwnTotalType,
       FinalOwnRowType, FinalOwnWriteType, FinalOtherTotalType, FinalOtherRowType,
       FinalCommitType DEF Handle
<1>2. ASSUME NEW r \in Request, FinalRejectLineup(r)
      PROVE  TypeOK'
  BY <1>2, ReplyType DEF TypeOK, FinalRejectLineup
<1>3. ASSUME NEW r \in Request, Fail(r)
      PROVE  TypeOK'
  BY <1>3, ReplyType, BoundAssumption DEF TypeOK, Fail
<1>4. ASSUME NEW t \in Viewed, PageRead(t) \/ PageStore(t) \/ PageExpire(t)
      PROVE  TypeOK'
  BY <1>4, BoundAssumption DEF TypeOK, PageRead, PageStore, PageExpire, PageState, ReaderState
<1>5. CASE UNCHANGED vars
  BY <1>5 DEF TypeOK, vars
<1> QED
  BY <1>1, <1>2, <1>3, <1>4, <1>5, CreateCheckType, FinalBeginType DEF Next

LEMMA TypeInit == Init => TypeOK
<1> SUFFICES ASSUME Init
             PROVE  TypeOK
  OBVIOUS
<1>1. <<>> \in Seq(ResultRow) /\ <<>> \in Seq(Standing)
  BY EmptySeq
<1> QED
  BY <1>1, IdleType, BoundAssumption DEF Init, TypeOK, PageState, ReaderState

\* Every variable keeps its type, for any number of requests and failures.
THEOREM TypeCorrect == Spec => []TypeOK
BY TypeInit, TypeStep, PTL DEF Spec

-----------------------------------------------------------------------------
(* The inductive invariant behind the safety properties.                    *)

\* Only the two sides of a match have result rows.
RowsOfSides ==
  \A m \in Match, t \in Team : results[m][t] # <<>> => t \in Sides[m]

\* A handler works for a side of its match; goals come with a lineup; once it
\* has read the opponent's goals, the opponent is a side that has reported.
ReadOpponent(q) ==
  \/ q.pc \in {"ownTotal", "ownRow", "ownWrite", "otherTotal", "otherRow"}
  \/ q.pc = "commit" /\ q.counting

InFlight(q) ==
  /\ q.pc # "idle" => q.team \in Sides[q.match]
  /\ q.score > 0 => q.lineup
  /\ q.pc = "count" => ~ q.counting
  /\ ReadOpponent(q) => q.other \in Sides[q.match] /\ Reported(q.match, q.other)

IInv ==
  /\ TypeOK
  /\ RowsOfSides
  /\ \A r \in Request : InFlight(req[r])
  /\ ScoredResultHasPlayers
  /\ OwnWriteDropsPage

\* Rows are only added or filled in: what is registered stays registered, what
\* is reported stays reported, and new rows belong to the side that wrote them.
LEMMA ResultsGrow ==
  ASSUME IInv, [Next]_vars, NEW m \in Match, NEW t \in Team
  PROVE  /\ Reported(m, t) => Reported(m, t)'
         /\ (results[m][t] # <<>> => t \in Sides[m])'
<1>0. TypeOK /\ RowsOfSides /\ results[m][t] \in Seq(ResultRow)
  BY DEF IInv, TypeOK
<1>1. CASE results' = results
  BY <1>0, <1>1 DEF Reported, RowsOfSides
<1>2. ASSUME NEW r \in Request, CreateSave(r)
      PROVE  /\ Reported(m, t) => Reported(m, t)'
             /\ (results[m][t] # <<>> => t \in Sides[m])'
  <2>1. /\ req[r] \in RequestState /\ req[r].match \in Match /\ req[r].team \in Team
        /\ req[r].team \in Sides[req[r].match]
    BY <1>2 DEF IInv, TypeOK, RequestState, InFlight, CreateSave
  <2>2. CASE m = req[r].match /\ t = req[r].team
    <3>1. results'[m][t] = Append(results[m][t], NewResult)
      BY <1>0, <1>2, <2>1, <2>2 DEF CreateSave, TypeOK
    <3>2. \A i \in DOMAIN results[m][t] :
            i \in DOMAIN results'[m][t] /\ results'[m][t][i] = results[m][t][i]
      BY <1>0, <3>1
    <3> QED
      BY <2>1, <2>2, <3>2 DEF Reported
  <2>3. CASE ~ (m = req[r].match /\ t = req[r].team)
    <3>1. results'[m][t] = results[m][t]
      BY <1>0, <1>2, <2>1, <2>3 DEF CreateSave, TypeOK
    <3> QED
      BY <1>0, <3>1 DEF Reported, RowsOfSides
  <2> QED
    BY <2>2, <2>3
<1>3. ASSUME NEW r \in Request, FinalCommit(r)
      PROVE  /\ Reported(m, t) => Reported(m, t)'
             /\ (results[m][t] # <<>> => t \in Sides[m])'
  <2>1. req[r] \in RequestState /\ req[r].match \in Match
    BY DEF IInv, TypeOK, RequestState
  <2>2. CASE m = req[r].match
    <3>1. results'[m] = ReportedResults(req[r])
      BY <1>0, <1>3, <2>1, <2>2 DEF FinalCommit, TypeOK
    <3>2. DOMAIN results'[m][t] = DOMAIN results[m][t]
      BY <1>0, <2>1, <2>2, <3>1, ReportedResultsType DEF TypeOK
    <3>3. \A i \in DOMAIN results[m][t] :
            results[m][t][i].reported => results'[m][t][i].reported
      <4> SUFFICES ASSUME NEW i \in DOMAIN results[m][t], results[m][t][i].reported
                   PROVE  results'[m][t][i].reported
        OBVIOUS
      <4>1. results[m][t][i] \in ResultRow
        BY <1>0, LenProperties, ElementOfSeq
      <4>2. [results[m][t][i] EXCEPT !.clean = CleanSheet(req[r].otherScore, req[r].score)].reported
        BY <4>1 DEF ResultRow
      <4>3. ReportedResults(req[r])[t][i].reported
        BY <2>2, <4>2 DEF ReportedResults
      <4> QED
        BY <3>1, <4>3
    <3>4. results'[m][t] \in Seq(ResultRow)
      BY <1>0, <2>1, <2>2, <3>1, ReportedResultsType DEF TypeOK
    <3>5. results'[m][t] # <<>> => results[m][t] # <<>>
      BY <1>0, <3>2, <3>4
    <3> QED
      BY <1>0, <3>2, <3>3, <3>5 DEF Reported, RowsOfSides
  <2>3. CASE m # req[r].match
    <3>1. results'[m] = results[m]
      BY <1>0, <1>3, <2>1, <2>3 DEF FinalCommit, TypeOK
    <3> QED
      BY <1>0, <3>1 DEF Reported, RowsOfSides
  <2> QED
    BY <2>2, <2>3
<1> QED
  BY <1>1, <1>2, <1>3 DEF Next, Handle, vars, CreateCheck, FinalBegin, FinalCount, FinalOpponent,
     FinalOwnTotal, FinalOwnRow, FinalOwnWrite, FinalOtherTotal, FinalOtherRow, FinalDropPage,
     FinalRejectLineup, Fail, PageRead, PageStore, PageExpire

\* A request that is not touched keeps its part of the invariant.
LEMMA InFlightKept ==
  ASSUME IInv, [Next]_vars, NEW r \in Request, req'[r] = req[r]
  PROVE  InFlight(req[r])'
<1>1. InFlight(req[r]) /\ req[r] \in RequestState
  BY DEF IInv, TypeOK
<1>2. req[r].match \in Match /\ req[r].other \in Team
  BY <1>1 DEF RequestState
<1>3. Reported(req[r].match, req[r].other) => Reported(req[r].match, req[r].other)'
  <2> DEFINE mm == req[r].match
             oo == req[r].other
  <2>1. Reported(mm, oo) => \E i \in DOMAIN results'[mm][oo] : results'[mm][oo][i].reported
    BY <1>2, ResultsGrow DEF Reported
  <2> QED
    BY <2>1 DEF Reported
<1> QED
  BY <1>1, <1>3 DEF InFlight, ReadOpponent, Reported

\* The request that takes the step keeps its part of the invariant.
LEMMA InFlightStep ==
  ASSUME IInv, [Next]_vars, NEW r \in Request
  PROVE  InFlight(req[r])'
<1> DEFINE q == req[r]
<1>0. /\ q \in RequestState /\ InFlight(q)
      /\ q.match \in Match /\ q.other \in Team /\ req \in [Request -> RequestState]
      /\ RowsOfSides
  BY DEF IInv, TypeOK, RequestState
<1>1. CASE req'[r] = q
  BY <1>1, InFlightKept
<1>2. CASE req'[r] = Idle
  BY <1>2 DEF InFlight, Idle, ReadOpponent
<1>3. ASSUME NEW t \in Team, NEW m \in Match, CreateCheck(r, t, m)
      PROVE  InFlight(req[r])'
  BY <1>0, <1>3 DEF CreateCheck, Goto, Idle, InFlight, ReadOpponent
<1>4. ASSUME NEW t \in Team, NEW m \in Match, NEW g \in Score, NEW lineup \in BOOLEAN,
             FinalBegin(r, t, m, g, lineup)
      PROVE  InFlight(req[r])'
  BY <1>0, <1>4 DEF FinalBegin, Goto, Idle, InFlight, ReadOpponent
<1>5. CASE FinalCount(r)
  <2>1. q.pc = "count" /\ ~ ReadOpponent(q)
    BY <1>5 DEF FinalCount, ReadOpponent
  <2>2. CASE req' = [req EXCEPT ![r] = [q EXCEPT !.pc = "opponent", !.counting = TRUE]]
    BY <1>0, <2>1, <2>2 DEF InFlight, ReadOpponent, RequestState
  <2>3. CASE req' = [req EXCEPT ![r] = [q EXCEPT !.pc = "commit"]] /\ ~ q.counting
    BY <1>0, <2>1, <2>3 DEF InFlight, ReadOpponent, RequestState
  <2>4. ~ q.counting
    BY <1>0, <2>1 DEF InFlight
  <2>5. CASE req' = [req EXCEPT ![r] = Idle]
    BY <1>0, <1>2, <2>5
  <2> QED
    BY <1>5, <2>2, <2>3, <2>4, <2>5 DEF FinalCount, Goto, Reply
<1>6. CASE FinalOpponent(r)
  <2>1. CASE \E t \in Team \ {q.team} : \E i \in DOMAIN results[q.match][t] :
               /\ results[q.match][t][i].reported
               /\ req' = [req EXCEPT ![r] = [q EXCEPT !.pc = "ownTotal", !.other = t,
                            !.otherScore = results[q.match][t][i].goals]]
               /\ results' = results /\ q.pc = "opponent" /\ ~ NoResultYet(q.match, t)
    <3>1. PICK t \in Team \ {q.team} : \E i \in DOMAIN results[q.match][t] :
               /\ results[q.match][t][i].reported
               /\ req' = [req EXCEPT ![r] = [q EXCEPT !.pc = "ownTotal", !.other = t,
                            !.otherScore = results[q.match][t][i].goals]]
               /\ results' = results /\ q.pc = "opponent" /\ ~ NoResultYet(q.match, t)
      BY <2>1
    <3>2. t \in Sides[q.match] /\ Reported(q.match, t)'
      BY <1>0, <3>1 DEF NoResultYet, RowsOfSides, Reported
    <3>3. /\ req'[r].pc = "ownTotal" /\ req'[r].other = t /\ req'[r].match = q.match
          /\ req'[r].team = q.team /\ req'[r].score = q.score /\ req'[r].lineup = q.lineup
      BY <1>0, <3>1 DEF RequestState
    <3> QED
      BY <1>0, <3>1, <3>2, <3>3 DEF InFlight, ReadOpponent, Reported
  <2> QED
    BY <1>0, <1>2, <1>6, <2>1 DEF FinalOpponent, GoalsKnown, Goto, Reply
<1>7. CASE FinalOwnTotal(r) \/ FinalOwnRow(r) \/ FinalOwnWrite(r)
           \/ FinalOtherTotal(r) \/ FinalOtherRow(r)
  <2>1. ReadOpponent(q)
    BY <1>7 DEF FinalOwnTotal, FinalOwnRow, FinalOwnWrite, FinalOtherTotal, FinalOtherRow,
       ReadOpponent
  <2> DEFINE Kept == /\ req'[r].match = q.match /\ req'[r].team = q.team
                     /\ req'[r].other = q.other /\ req'[r].score = q.score
                     /\ req'[r].lineup = q.lineup /\ req'[r].pc # "count"
  <2>a. ASSUME FinalOwnTotal(r) PROVE Kept
    BY <1>0, <2>a DEF FinalOwnTotal, Goto, RequestState
  <2>b. ASSUME FinalOwnRow(r) PROVE Kept
    BY <1>0, <2>b DEF FinalOwnRow, Goto, RequestState
  <2>c. ASSUME FinalOwnWrite(r) PROVE Kept
    BY <1>0, <2>c DEF FinalOwnWrite, Goto, RequestState
  <2>d. ASSUME FinalOtherTotal(r) PROVE Kept
    BY <1>0, <2>d DEF FinalOtherTotal, Goto, RequestState
  <2>e. ASSUME FinalOtherRow(r) PROVE Kept
    BY <1>0, <2>e DEF FinalOtherRow, Goto, RequestState
  <2>2. Kept
    BY <1>7, <2>a, <2>b, <2>c, <2>d, <2>e
  <2>3. q.pc # "idle" /\ results' = results
    BY <1>7 DEF FinalOwnTotal, FinalOwnRow, FinalOwnWrite, FinalOtherTotal, FinalOtherRow
  <2> QED
    BY <1>0, <2>1, <2>2, <2>3 DEF InFlight, ReadOpponent, Reported
<1>8. CASE FinalCommit(r)
  <2>1. req'[r] = [q EXCEPT !.pc = "dropPage"] /\ q.pc = "commit"
    BY <1>0, <1>8 DEF FinalCommit, Goto
  <2> QED
    BY <1>0, <2>1 DEF InFlight, ReadOpponent, RequestState
<1>9. CASE CreateSave(r) \/ FinalDropPage(r) \/ FinalRejectLineup(r) \/ Fail(r)
  BY <1>0, <1>2, <1>9 DEF CreateSave, FinalDropPage, FinalRejectLineup, Fail, Reply, Goto
<1>10. ASSUME NEW s \in Request, s # r, Handle(s) \/ FinalRejectLineup(s) \/ Fail(s)
       PROVE  req'[r] = q
  BY <1>0, <1>10 DEF Handle, CreateSave, FinalCount, FinalOpponent, FinalOwnTotal, FinalOwnRow,
     FinalOwnWrite, FinalOtherTotal, FinalOtherRow, FinalCommit, FinalDropPage,
     FinalRejectLineup, Fail, Reply, Goto
<1>11. ASSUME NEW s \in Request, s # r, NEW t \in Team, NEW m \in Match,
              CreateCheck(s, t, m) \/ \E g \in Score, l \in BOOLEAN : FinalBegin(s, t, m, g, l)
       PROVE  req'[r] = q
  BY <1>0, <1>11 DEF CreateCheck, FinalBegin, Goto
<1>12. CASE UNCHANGED vars \/ \E t \in Viewed : PageRead(t) \/ PageStore(t) \/ PageExpire(t)
  BY <1>1, <1>12 DEF vars, PageRead, PageStore, PageExpire
<1> QED
  BY <1>1, <1>3, <1>4, <1>5, <1>6, <1>7, <1>8, <1>9, <1>10, <1>11, <1>12 DEF Next, Handle

\* Goals and player rows are written by one step, the commit.
LEMMA ScoredStep ==
  ASSUME IInv, [Next]_vars
  PROVE  ScoredResultHasPlayers'
<1> USE BoundAssumption, ScoreAssumption
<1> SUFFICES ASSUME NEW m \in Match, NEW t \in Team, NEW i \in DOMAIN results'[m][t],
                    results'[m][t][i].goals > 0
             PROVE  players'[m][t] > 0
  BY DEF ScoredResultHasPlayers
<1>0. /\ results \in [Match -> [Team -> Seq(ResultRow)]]
      /\ players \in [Match -> [Team -> 0..ManyCopies]]
      /\ ScoredResultHasPlayers
  BY DEF IInv, TypeOK
<1>1. CASE results' = results /\ players' = players
  BY <1>0, <1>1 DEF ScoredResultHasPlayers
<1>2. ASSUME NEW r \in Request, CreateSave(r)
      PROVE  players'[m][t] > 0
  <2>1. req[r].match \in Match /\ req[r].team \in Team
    BY DEF IInv, TypeOK, RequestState
  <2>2. players' = players
    BY <1>2 DEF CreateSave
  <2>3. CASE m = req[r].match /\ t = req[r].team
    <3>1. results'[m][t] = Append(results[m][t], NewResult)
      BY <1>0, <1>2, <2>1, <2>3 DEF CreateSave
    <3>2. i \in DOMAIN results[m][t] /\ results[m][t][i] = results'[m][t][i]
      BY <1>0, <3>1 DEF NewResult
    <3> QED
      BY <1>0, <2>2, <3>2 DEF ScoredResultHasPlayers
  <2>4. CASE ~ (m = req[r].match /\ t = req[r].team)
    <3>1. results'[m][t] = results[m][t]
      BY <1>0, <1>2, <2>1, <2>4 DEF CreateSave
    <3> QED
      BY <1>0, <2>2, <3>1 DEF ScoredResultHasPlayers
  <2> QED
    BY <2>3, <2>4
<1>3. ASSUME NEW r \in Request, FinalCommit(r)
      PROVE  players'[m][t] > 0
  <2> DEFINE q == req[r]
  <2>1. /\ q \in RequestState /\ q.match \in Match /\ q.team \in Team /\ q.score \in Nat
        /\ q.score > 0 => q.lineup
    BY DEF IInv, TypeOK, RequestState, InFlight
  <2>2. players[m][t] > 0 => players'[m][t] > 0
    BY <1>0, <1>3, <2>1 DEF FinalCommit, StoredPlayers
  <2>3. CASE m = q.match /\ t = q.team
    <3>1. results'[m][t][i].goals = q.score
      BY <1>0, <1>3, <2>1, <2>3 DEF FinalCommit, ReportedResults
    <3>2. q.lineup
      BY <2>1, <3>1
    <3> QED
      BY <1>0, <1>3, <2>1, <2>3, <3>2 DEF FinalCommit, StoredPlayers
  <2>4. CASE m = q.match /\ t # q.team
    <3>1. /\ i \in DOMAIN results[m][t]
          /\ results'[m][t][i] =
               IF q.counting /\ t = q.other
               THEN [results[m][t][i] EXCEPT !.clean = CleanSheet(q.otherScore, q.score)]
               ELSE results[m][t][i]
      BY <1>0, <1>3, <2>1, <2>4 DEF FinalCommit, ReportedResults
    <3>2. results[m][t][i] \in ResultRow
      BY <1>0, <3>1, LenProperties, ElementOfSeq
    <3>3. results'[m][t][i].goals = results[m][t][i].goals
      BY <3>1, <3>2 DEF ResultRow
    <3> QED
      BY <1>0, <2>2, <3>1, <3>3 DEF ScoredResultHasPlayers
  <2>5. CASE m # q.match
    <3>1. results'[m][t] = results[m][t]
      BY <1>0, <1>3, <2>1, <2>5 DEF FinalCommit
    <3> QED
      BY <1>0, <2>2, <3>1 DEF ScoredResultHasPlayers
  <2> QED
    BY <2>3, <2>4, <2>5
<1> QED
  BY <1>1, <1>2, <1>3 DEF Next, Handle, vars, CreateCheck, FinalBegin, FinalCount, FinalOpponent,
     FinalOwnTotal, FinalOwnRow, FinalOwnWrite, FinalOtherTotal, FinalOtherRow, FinalDropPage,
     FinalRejectLineup, Fail, PageRead, PageStore, PageExpire

\* A request that outdates its team's page stays in flight until it drops it.
Dropping(r, t) ==
  /\ req[r].team = t
  /\ req[r].pc \in {"otherTotal", "otherRow", "commit", "dropPage"}

LEMMA PageStep ==
  ASSUME IInv, [Next]_vars
  PROVE  OwnWriteDropsPage'
<1> SUFFICES ASSUME faults' = 0, NEW t \in Team, page'[t] = "staleByOwn"
             PROVE  \E r \in Request : Dropping(r, t)'
  BY DEF OwnWriteDropsPage, Dropping
<1>0. /\ req \in [Request -> RequestState] /\ page \in [Team -> PageState]
      /\ reader \in [Team -> ReaderState]
      /\ faults \in Nat /\ OwnWriteDropsPage
  BY BoundAssumption DEF IInv, TypeOK
<1>1. ASSUME page[t] = "staleByOwn", faults = 0,
             NEW s \in Request, \A r \in Request \ {s} : req'[r] = req[r],
             Dropping(s, t) => Dropping(s, t)'
      PROVE  \E r \in Request : Dropping(r, t)'
  <2>1. PICK r \in Request : Dropping(r, t)
    BY <1>0, <1>1 DEF OwnWriteDropsPage, Dropping
  <2> QED
    BY <1>1, <2>1 DEF Dropping
<1>2. ASSUME NEW s \in Request, NEW u \in Team, NEW m \in Match,
             CreateCheck(s, u, m) \/ \E g \in Score, l \in BOOLEAN : FinalBegin(s, u, m, g, l)
      PROVE  \E r \in Request : Dropping(r, t)'
  <2>1. page' = page /\ faults' = faults /\ \A r \in Request \ {s} : req'[r] = req[r]
    BY <1>0, <1>2 DEF CreateCheck, FinalBegin, Goto
  <2>2. ~ Dropping(s, t)
    BY <1>2 DEF CreateCheck, FinalBegin, Dropping
  <2> QED
    BY <1>1, <2>1, <2>2
<1>3. ASSUME NEW s \in Request, CreateSave(s) \/ FinalCount(s) \/ FinalOpponent(s)
             \/ FinalOwnTotal(s) \/ FinalOwnRow(s) \/ FinalRejectLineup(s)
      PROVE  \E r \in Request : Dropping(r, t)'
  <2>1. page' = page /\ faults' = faults /\ \A r \in Request \ {s} : req'[r] = req[r]
    BY <1>0, <1>3 DEF CreateSave, FinalCount, FinalOpponent, FinalOwnTotal, FinalOwnRow,
       FinalRejectLineup, Goto, Reply
  <2>2. ~ Dropping(s, t)
    BY <1>3 DEF CreateSave, FinalCount, FinalOpponent, FinalOwnTotal, FinalOwnRow,
       FinalRejectLineup, Dropping
  <2> QED
    BY <1>1, <2>1, <2>2
<1>4. ASSUME NEW s \in Request, FinalOwnWrite(s) \/ FinalOtherTotal(s) \/ FinalOtherRow(s)
             \/ FinalCommit(s)
      PROVE  \E r \in Request : Dropping(r, t)'
  <2> DEFINE Kept == /\ faults' = faults /\ \A r \in Request \ {s} : req'[r] = req[r]
                     /\ req'[s].team = req[s].team
                     /\ req'[s].pc \in {"otherTotal", "otherRow", "commit", "dropPage"}
  <2>a. ASSUME FinalOwnWrite(s)
        PROVE  Kept
    <3>1. req' = [req EXCEPT ![s] = [req[s] EXCEPT !.pc = "otherTotal"]] /\ faults' = faults
      BY <2>a DEF FinalOwnWrite, Goto
    <3> QED
      BY <1>0, <3>1 DEF RequestState
  <2>b. ASSUME FinalOtherTotal(s)
        PROVE  Kept
    <3>1. PICK i \in SomeRow(req[s].other) :
            Goto(s, [req[s] EXCEPT !.pc = "otherRow",
                                   !.others.total = RowOf(req[s].other, i).total])
      BY <2>b DEF FinalOtherTotal
    <3> QED
      BY <1>0, <2>b, <3>1 DEF FinalOtherTotal, Goto, RequestState
  <2>c. ASSUME FinalOtherRow(s)
        PROVE  Kept
    <3>1. PICK i \in SomeRow(req[s].other) :
            Goto(s, [req[s] EXCEPT !.pc = "commit", !.otherRow = i,
                                   !.others = [RowOf(req[s].other, i) EXCEPT
                                                 !.total = req[s].others.total]])
      BY <2>c DEF FinalOtherRow
    <3> QED
      BY <1>0, <2>c, <3>1 DEF FinalOtherRow, Goto, RequestState
  <2>d. ASSUME FinalCommit(s)
        PROVE  Kept
    <3>1. req' = [req EXCEPT ![s] = [req[s] EXCEPT !.pc = "dropPage"]] /\ faults' = faults
      BY <2>d DEF FinalCommit, Goto
    <3> QED
      BY <1>0, <3>1 DEF RequestState
  <2>1. Kept
    BY <1>4, <2>a, <2>b, <2>c, <2>d
  <2>2. page[t] = "staleByOwn" \/ t = req[s].team
    BY <1>0, <1>4 DEF FinalOwnWrite, FinalOtherTotal, FinalOtherRow, FinalCommit, Outdate
  <2>3. Dropping(s, t) => Dropping(s, t)'
    BY <2>1 DEF Dropping
  <2>4. CASE t = req[s].team
    BY <2>1, <2>4 DEF Dropping
  <2> QED
    BY <1>1, <2>1, <2>2, <2>3, <2>4
<1>5. ASSUME NEW s \in Request, FinalDropPage(s)
      PROVE  \E r \in Request : Dropping(r, t)'
  <2>1. /\ faults' = faults /\ \A r \in Request \ {s} : req'[r] = req[r]
        /\ page' = [page EXCEPT ![req[s].team] = "none"]
    BY <1>0, <1>5 DEF FinalDropPage, DroppedPage, Goto, Reply
  <2>2. req[s].team # t /\ page[t] = "staleByOwn"
    BY <1>0, <2>1
  <2>3. ~ Dropping(s, t)
    BY <2>2 DEF Dropping
  <2> QED
    BY <1>1, <2>1, <2>2, <2>3
<1>6. ASSUME NEW s \in Request, Fail(s)
      PROVE  FALSE
  BY <1>0, <1>6 DEF Fail
<1>7. CASE \E u \in Viewed : PageRead(u) \/ PageStore(u) \/ PageExpire(u)
  <2>1. page[t] = "staleByOwn" /\ req' = req /\ faults' = faults
    BY <1>0, <1>7 DEF PageRead, PageStore, PageExpire, PageState, ReaderState
  <2> QED
    BY <1>0, <2>1 DEF OwnWriteDropsPage, Dropping
<1>8. CASE UNCHANGED vars
  BY <1>0, <1>8 DEF vars, OwnWriteDropsPage, Dropping
<1> QED
  BY <1>2, <1>3, <1>4, <1>5, <1>6, <1>7, <1>8 DEF Next, Handle

-----------------------------------------------------------------------------
(* Theorems.                                                                *)

LEMMA IInvInit == Init => IInv
<1> SUFFICES ASSUME Init
             PROVE  IInv
  OBVIOUS
<1>1. \A r \in Request : InFlight(req[r])
  BY DEF Init, Idle, InFlight, ReadOpponent
<1>2. RowsOfSides /\ ScoredResultHasPlayers
  BY DEF Init, RowsOfSides, ScoredResultHasPlayers
<1>3. OwnWriteDropsPage
  BY DEF Init, OwnWriteDropsPage
<1> QED
  BY <1>1, <1>2, <1>3, TypeInit DEF IInv

LEMMA IInvStep == IInv /\ [Next]_vars => IInv'
<1> SUFFICES ASSUME IInv, [Next]_vars
             PROVE  IInv'
  OBVIOUS
<1>1. TypeOK'
  BY TypeStep DEF IInv
<1>2. RowsOfSides'
  BY ResultsGrow DEF RowsOfSides
<1>3. \A r \in Request : InFlight(req[r])'
  BY InFlightStep
<1> QED
  BY <1>1, <1>2, <1>3, ScoredStep, PageStep DEF IInv

THEOREM Invariance == Spec => []IInv
BY IInvInit, IInvStep, PTL DEF Spec

\* Goals of a result are backed by player rows, whatever fails or interleaves.
THEOREM ScoredResults == Spec => []ScoredResultHasPlayers
<1>1. IInv => ScoredResultHasPlayers
  BY DEF IInv
<1> QED
  BY <1>1, Invariance, PTL

\* Without failures a page outdated by the team's own submission gets dropped.
THEOREM PagesDropped == Spec => []OwnWriteDropsPage
<1>1. IInv => OwnWriteDropsPage
  BY DEF IInv
<1> QED
  BY <1>1, Invariance, PTL

\* Standings move only for a match one side of which has committed its goals.
THEOREM StandingsFollowReports == Spec => StandingsNeedReport
<1> DEFINE Moves ==
      \A t \in Team :
        standings'[t] # standings[t] =>
          \E m \in Match : /\ t \in Sides[m]
                           /\ \E o \in Sides[m] : Reported(m, o)
<1>1. IInv /\ [Next]_vars => [Moves]_vars
  <2> SUFFICES ASSUME IInv, [Next]_vars, NEW t \in Team, standings'[t] # standings[t]
               PROVE  \E m \in Match : /\ t \in Sides[m]
                                       /\ \E o \in Sides[m] : Reported(m, o)
    OBVIOUS
  <2>1. ASSUME NEW r \in Request, FinalOwnWrite(r) \/ FinalCommit(r)
        PROVE  \E m \in Match : /\ t \in Sides[m]
                                /\ \E o \in Sides[m] : Reported(m, o)
    <3> DEFINE q == req[r]
    <3>1. /\ q.match \in Match /\ InFlight(q) /\ q.pc # "idle"
          /\ standings \in [Team -> Seq(Standing)]
      BY <2>1 DEF IInv, TypeOK, RequestState, FinalOwnWrite, FinalCommit
    <3>2. ReadOpponent(q) /\ t \in {q.team, q.other}
      BY <2>1, <3>1 DEF FinalOwnWrite, FinalCommit, CountedStandings, ReadOpponent
    <3> QED
      BY <3>1, <3>2 DEF InFlight
  <2> QED
    BY <2>1 DEF Next, Handle, vars, CreateCheck, CreateSave, FinalBegin, FinalCount,
       FinalOpponent, FinalOwnTotal, FinalOwnRow, FinalOtherTotal, FinalOtherRow,
       FinalDropPage, FinalRejectLineup, Fail, PageRead, PageStore, PageExpire
<1> QED
  BY <1>1, Invariance, PTL DEF Spec, StandingsNeedReport

-----------------------------------------------------------------------------
(* Rows of one team for one match: a check passes only while there is none, *)
(* so the rows and the submissions that are about to insert one are         *)
(* together no more than the slots for requests.                            *)

Inserting(m, t) ==
  {r \in Request : req[r].pc = "save" /\ req[r].match = m /\ req[r].team = t}

RowsFit ==
  \A m \in Match, t \in Team :
    Len(results[m][t]) + Cardinality(Inserting(m, t)) <= Cardinality(Request)

\* A part of the requests is finite and no more than all of them.
LEMMA PartOfRequests ==
  ASSUME NEW S \in SUBSET Request
  PROVE  /\ IsFiniteSet(S)
         /\ Cardinality(S) \in Nat /\ Cardinality(Request) \in Nat
         /\ Cardinality(S) <= Cardinality(Request)
BY RequestAssumption, FS_Subset, FS_CardinalityType

\* Whatever is not an insertion leaves the number of rows, and lets nobody in
\* but a check that has found none.
LEMMA InsertingStep ==
  ASSUME TypeOK, [Next]_vars, NEW m \in Match, NEW t \in Team,
         \A r \in Request : ~ CreateSave(r)
  PROVE  /\ Len(results'[m][t]) = Len(results[m][t])
         /\ Inserting(m, t)' \subseteq Inserting(m, t) \/ results[m][t] = <<>>
<1>0. /\ results \in [Match -> [Team -> Seq(ResultRow)]]
      /\ req \in [Request -> RequestState]
  BY DEF TypeOK
<1> DEFINE Kept == Inserting(m, t)' \subseteq Inserting(m, t)
<1>1. ASSUME NEW s \in Request, \A r \in Request \ {s} : req'[r] = req[r],
             req'[s].pc # "save"
      PROVE  Kept
  BY <1>1 DEF Inserting
<1>2. ASSUME NEW s \in Request, NEW u \in Team, NEW n \in Match, CreateCheck(s, u, n)
      PROVE  results' = results /\ (Kept \/ results[m][t] = <<>>)
  <2>1. /\ results' = results /\ results[n][u] = <<>>
        /\ req' = [req EXCEPT ![s] = [Idle EXCEPT !.pc = "save", !.team = u, !.match = n]]
    BY <1>2 DEF CreateCheck, NoResultYet, Goto
  <2>2. CASE m = n /\ t = u
    BY <2>1, <2>2
  <2>3. CASE ~ (m = n /\ t = u)
    <3>1. req'[s].team = u /\ req'[s].match = n /\ \A r \in Request \ {s} : req'[r] = req[r]
      BY <1>0, <2>1 DEF Idle
    <3> QED
      BY <2>1, <2>3, <3>1 DEF Inserting
  <2> QED
    BY <2>2, <2>3
<1>3. ASSUME NEW s \in Request, NEW u \in Team, NEW n \in Match, NEW g \in Score,
             NEW l \in BOOLEAN, FinalBegin(s, u, n, g, l)
      PROVE  results' = results /\ Kept
  <2>1. /\ results' = results /\ \A r \in Request \ {s} : req'[r] = req[r]
        /\ req'[s].pc = "count"
    BY <1>0, <1>3 DEF FinalBegin, Goto, Idle
  <2> QED
    BY <1>1, <2>1
<1>4. ASSUME NEW s \in Request, \/ FinalRejectLineup(s) \/ Fail(s) \/ FinalDropPage(s)
                                \/ FinalOpponent(s) \/ FinalCount(s)
      PROVE  results' = results /\ Kept
  <2>1. results' = results /\ \A r \in Request \ {s} : req'[r] = req[r]
    BY <1>0, <1>4 DEF FinalRejectLineup, Fail, FinalDropPage, FinalOpponent, FinalCount, Goto, Reply
  <2>2. req[s] \in RequestState
    BY <1>0
  <2>3. req'[s].pc # "save"
    <3>1. CASE FinalRejectLineup(s) \/ Fail(s) \/ FinalDropPage(s)
      BY <1>0, <3>1 DEF FinalRejectLineup, Fail, FinalDropPage, Goto, Reply, Idle
    <3>i. Idle.pc = "idle"
      BY DEF Idle
    <3>2. CASE FinalCount(s)
      <4>1. /\ [req[s] EXCEPT !.pc = "commit"].pc = "commit"
            /\ [req[s] EXCEPT !.pc = "opponent", !.counting = TRUE].pc = "opponent"
        BY <2>2 DEF RequestState
      <4>2. req'[s] \in {Idle, [req[s] EXCEPT !.pc = "commit"],
                          [req[s] EXCEPT !.pc = "opponent", !.counting = TRUE]}
        BY <1>0, <3>2 DEF FinalCount, Goto, Reply
      <4> QED
        BY <3>i, <4>1, <4>2
    <3>3. CASE FinalOpponent(s)
      <4>1. \A u, g : [req[s] EXCEPT !.pc = "ownTotal", !.other = u,
                                      !.otherScore = g].pc = "ownTotal"
        BY <2>2 DEF RequestState
      <4>2. \/ req'[s] = Idle
            \/ \E u, g : req'[s] = [req[s] EXCEPT !.pc = "ownTotal", !.other = u,
                                                   !.otherScore = g]
        <5>1. CASE req' = [req EXCEPT ![s] = Idle]
          BY <1>0, <5>1
        <5>2. ASSUME NEW u, NEW g,
                     req' = [req EXCEPT ![s] = [req[s] EXCEPT !.pc = "ownTotal", !.other = u,
                                                              !.otherScore = g]]
              PROVE  <4>2!2
          BY <1>0, <5>2
        <5> QED
          BY <3>3, <5>1, <5>2 DEF FinalOpponent, Goto, Reply
      <4> QED
        BY <3>i, <4>1, <4>2
    <3> QED
      BY <1>4, <3>1, <3>2, <3>3
  <2> QED
    BY <1>1, <2>1, <2>3
<1>5. ASSUME NEW s \in Request, \/ FinalOwnTotal(s) \/ FinalOwnRow(s) \/ FinalOwnWrite(s)
                                \/ FinalOtherTotal(s) \/ FinalOtherRow(s)
      PROVE  results' = results /\ Kept
  <2>1. results' = results /\ \A r \in Request \ {s} : req'[r] = req[r]
    BY <1>0, <1>5 DEF FinalOwnTotal, FinalOwnRow, FinalOwnWrite, FinalOtherTotal, FinalOtherRow, Goto
  <2>2. req[s] \in RequestState
    BY <1>0
  <2>3. req'[s].pc # "save"
    <3>1. CASE FinalOwnTotal(s)
      BY <1>0, <2>2, <3>1 DEF FinalOwnTotal, Goto, RequestState
    <3>2. CASE FinalOwnRow(s)
      BY <1>0, <2>2, <3>2 DEF FinalOwnRow, Goto, RequestState
    <3>3. CASE FinalOwnWrite(s)
      BY <1>0, <2>2, <3>3 DEF FinalOwnWrite, Goto, RequestState
    <3>4. CASE FinalOtherTotal(s)
      BY <1>0, <2>2, <3>4 DEF FinalOtherTotal, Goto, RequestState
    <3>5. CASE FinalOtherRow(s)
      BY <1>0, <2>2, <3>5 DEF FinalOtherRow, Goto, RequestState
    <3> QED
      BY <1>5, <3>1, <3>2, <3>3, <3>4, <3>5
  <2> QED
    BY <1>1, <2>1, <2>3
<1>6. ASSUME NEW s \in Request, FinalCommit(s)
      PROVE  Len(results'[m][t]) = Len(results[m][t]) /\ Kept
  <2> DEFINE q == req[s]
  <2>1. q \in RequestState /\ q.match \in Match
    BY <1>0 DEF RequestState
  <2>2. /\ results' = [results EXCEPT ![q.match] = ReportedResults(q)]
        /\ req' = [req EXCEPT ![s] = [q EXCEPT !.pc = "dropPage"]]
    BY <1>6 DEF FinalCommit, Goto
  <2>3. /\ results'[m][t] \in Seq(ResultRow)
        /\ DOMAIN results'[m][t] = DOMAIN results[m][t]
    BY <1>0, <2>1, <2>2, ReportedResultsType
  <2>4. Len(results'[m][t]) = Len(results[m][t])
    BY <1>0, <2>3, LenProperties
  <2>5. req'[s].pc = "dropPage" /\ \A r \in Request \ {s} : req'[r] = req[r]
    BY <1>0, <2>1, <2>2 DEF RequestState
  <2> QED
    BY <1>1, <2>4, <2>5
<1>7. CASE \E u \in Viewed : PageRead(u) \/ PageStore(u) \/ PageExpire(u)
  BY <1>7 DEF PageRead, PageStore, PageExpire, Inserting
<1>8. CASE UNCHANGED vars
  BY <1>8 DEF vars, Inserting
<1> QED
  BY <1>2, <1>3, <1>4, <1>5, <1>6, <1>7, <1>8 DEF Next, Handle

LEMMA RowsFitStep == TypeOK /\ RowsFit /\ [Next]_vars => RowsFit'
<1> SUFFICES ASSUME TypeOK, RowsFit, [Next]_vars, NEW m \in Match, NEW t \in Team
             PROVE  Len(results'[m][t]) + Cardinality(Inserting(m, t)') <= Cardinality(Request)
  BY DEF RowsFit
<1>0. /\ results \in [Match -> [Team -> Seq(ResultRow)]]
      /\ req \in [Request -> RequestState]
  BY DEF TypeOK
<1>1. /\ Inserting(m, t) \subseteq Request /\ Inserting(m, t)' \subseteq Request
      /\ results[m][t] \in Seq(ResultRow)
  BY <1>0 DEF Inserting
<1>2. /\ Cardinality(Inserting(m, t)) \in Nat /\ Cardinality(Inserting(m, t)') \in Nat
      /\ Cardinality(Request) \in Nat /\ Len(results[m][t]) \in Nat
      /\ IsFiniteSet(Inserting(m, t))
      /\ Cardinality(Inserting(m, t)') <= Cardinality(Request)
  BY <1>1, PartOfRequests, LenProperties
<1>3. Len(results[m][t]) + Cardinality(Inserting(m, t)) <= Cardinality(Request)
  BY DEF RowsFit
<1>4. CASE \A r \in Request : ~ CreateSave(r)
  <2>1. Len(results'[m][t]) = Len(results[m][t])
    BY <1>4, InsertingStep
  <2>2. CASE Inserting(m, t)' \subseteq Inserting(m, t)
    <3>1. Cardinality(Inserting(m, t)') <= Cardinality(Inserting(m, t))
      BY <1>2, <2>2, FS_Subset
    <3> QED
      BY <1>2, <1>3, <2>1, <3>1
  <2>3. CASE results[m][t] = <<>>
    <3>1. Len(results[m][t]) = 0
      BY <2>3, EmptySeq
    <3> QED
      BY <1>2, <2>1, <3>1
  <2> QED
    BY <1>4, <2>2, <2>3, InsertingStep
<1>5. ASSUME NEW s \in Request, CreateSave(s)
      PROVE  Len(results'[m][t]) + Cardinality(Inserting(m, t)') <= Cardinality(Request)
  <2> DEFINE q == req[s]
  <2>1. /\ q.match \in Match /\ q.team \in Team /\ q.pc = "save"
        /\ results' = [results EXCEPT ![q.match][q.team] = Append(@, NewResult)]
        /\ req' = [req EXCEPT ![s] = Idle]
    BY <1>0, <1>5 DEF CreateSave, Reply, Goto, RequestState
  <2>2. Inserting(m, t)' = Inserting(m, t) \ {s}
    BY <1>0, <2>1 DEF Inserting, Idle
  <2>3. CASE m = q.match /\ t = q.team
    <3>n. NewResult \in ResultRow
      BY ScoreAssumption DEF NewResult, ResultRow
    <3>1. Len(results'[m][t]) = Len(results[m][t]) + 1
      BY <1>0, <1>1, <2>1, <2>3, <3>n, AppendProperties
    <3>2. s \in Inserting(m, t)
      BY <2>1, <2>3 DEF Inserting
    <3>3. Cardinality(Inserting(m, t)') = Cardinality(Inserting(m, t)) - 1
      BY <1>2, <2>2, <3>2, FS_RemoveElement
    <3> QED
      BY <1>2, <1>3, <3>1, <3>3
  <2>4. CASE ~ (m = q.match /\ t = q.team)
    <3>1. results'[m][t] = results[m][t]
      BY <1>0, <2>1, <2>4
    <3>2. Cardinality(Inserting(m, t)') <= Cardinality(Inserting(m, t))
      BY <1>2, <2>2, FS_Subset
    <3> QED
      BY <1>2, <1>3, <3>1, <3>2
  <2> QED
    BY <2>3, <2>4
<1> QED
  BY <1>4, <1>5

LEMMA RowsFitInit == Init => RowsFit
<1> SUFFICES ASSUME Init, NEW m \in Match, NEW t \in Team
             PROVE  Len(results[m][t]) + Cardinality(Inserting(m, t)) <= Cardinality(Request)
  BY DEF RowsFit
<1>1. Len(results[m][t]) = 0
  BY EmptySeq DEF Init
<1>2. Inserting(m, t) \subseteq Request
  BY DEF Inserting
<1> QED
  BY <1>1, <1>2, PartOfRequests

\* A team has no more rows for a match than submissions can be checked at a
\* time: one, if requests come one after the other.
THEOREM RacesBoundDuplicates == Spec => []DuplicatesOnlyByRace
<1>1. TypeOK /\ RowsFit => DuplicatesOnlyByRace
  <2> SUFFICES ASSUME TypeOK, RowsFit, NEW m \in Match, NEW t \in Team
               PROVE  Len(results[m][t]) <= Cardinality(Request)
    BY DEF DuplicatesOnlyByRace
  <2>1. Inserting(m, t) \subseteq Request /\ Len(results[m][t]) \in Nat
    BY LenProperties DEF Inserting, TypeOK
  <2>2. Len(results[m][t]) + Cardinality(Inserting(m, t)) <= Cardinality(Request)
    BY DEF RowsFit
  <2> QED
    BY <2>1, <2>2, PartOfRequests
<1> QED
  BY <1>1, RowsFitInit, RowsFitStep, TypeCorrect, PTL DEF Spec

-----------------------------------------------------------------------------
(* Requests in sequence: the standings are what a recount gives.            *)

\* Requests come one after the other and no statement fails.
InSequence == (\A r, s \in Request : r = s) /\ MaxFaults = 0

\* A result is clean when the match is complete and the opponent did not score.
CleanRows ==
  \A m \in Match, t \in Team : Registered(m, t) =>
    (results[m][t][1].clean <=> Complete(m) /\ OpponentGoals(m, t) = 0)

\* Each team has the row a recount gives; while the own row of a request is
\* written and its result is not, the row is one match ahead.
StandingsRecount ==
  \A t \in Team :
    /\ IsFiniteSet(Played(t))
    /\ (\A r \in Request : ~ Uncommitted(r, t)) =>
         standings[t] = IF Played(t) = {} THEN <<>> ELSE <<Recount(t)>>
    /\ \A r \in Request : Uncommitted(r, t) =>
         standings[t] = <<Plus(Recount(t), Tally(req[r].score, req[r].otherScore))>>

RowIndex(t) == IF Played(t) = {} THEN 0 ELSE 1

\* What a handler has read is still so when it uses it.
HasOwn(q) ==
  \/ q.pc \in {"ownWrite", "otherTotal", "otherRow"}
  \/ q.pc = "commit" /\ q.counting

Remembers(q) ==
  /\ q.pc = "count" => (q.everyReported <=> EveryRowReported(q.match))
  /\ q.pc = "opponent" =>
       /\ q.counting
       /\ \A o \in Sides[q.match] : Registered(q.match, o)
       /\ ~ EveryRowReported(q.match)
  /\ ReadOpponent(q) =>
       /\ q.counting
       /\ Registered(q.match, q.team) /\ ~ Reported(q.match, q.team)
       /\ q.other # q.team
       /\ q.otherScore = Goals(q.match, q.other)
  /\ q.pc = "ownRow" => q.own.total = Recount(q.team).total
  /\ HasOwn(q) => q.own = Recount(q.team) /\ q.ownRow = RowIndex(q.team)
  /\ q.pc = "otherRow" => q.others.total = Recount(q.other).total
  /\ q.pc = "commit" =>
       IF q.counting
       THEN q.others = Recount(q.other) /\ q.otherRow = RowIndex(q.other)
       ELSE \E o \in Sides[q.match] : ~ Registered(q.match, o)

SInv ==
  /\ IInv
  /\ RowsFit
  /\ CleanRows
  /\ StandingsRecount
  /\ \A q \in {req[r] : r \in Request} : Remembers(q)

-----------------------------------------------------------------------------
\* In sequence a team has at most one row for a match, and none while it is
\* about to insert one.
LEMMA OneRow ==
  ASSUME TypeOK, RowsFit, InSequence, NEW m \in Match, NEW t \in Team
  PROVE  /\ results[m][t] \in Seq(ResultRow)
         /\ Registered(m, t) => /\ DOMAIN results[m][t] = {1}
                                /\ results[m][t][1] \in ResultRow
                                /\ Inserting(m, t) = {}
<1>1. results[m][t] \in Seq(ResultRow)
  BY DEF TypeOK
<1>2. Len(results[m][t]) \in Nat /\ DOMAIN results[m][t] = 1..Len(results[m][t])
  BY <1>1, LenProperties
<1>3. Cardinality(Request) \in Nat /\ Cardinality(Request) <= 1
  <2>1. CASE Request = {}
    BY <2>1, FS_EmptySet
  <2>2. ASSUME NEW r \in Request
        PROVE  Cardinality(Request) = 1
    <3>1. Request = {r}
      BY DEF InSequence
    <3> QED
      BY <3>1, FS_Singleton
  <2> QED
    BY <2>1, <2>2
<1>4. /\ IsFiniteSet(Inserting(m, t)) /\ Cardinality(Inserting(m, t)) \in Nat
      /\ Len(results[m][t]) + Cardinality(Inserting(m, t)) <= Cardinality(Request)
  <2>1. Inserting(m, t) \subseteq Request
    BY DEF Inserting
  <2> QED
    BY <2>1, PartOfRequests DEF RowsFit
<1>5. ASSUME Registered(m, t)
      PROVE  /\ DOMAIN results[m][t] = {1}
             /\ results[m][t][1] \in ResultRow
             /\ Inserting(m, t) = {}
  <2>1. Len(results[m][t]) # 0
    BY <1>1, <1>5, EmptySeq DEF Registered
  <2>2. Len(results[m][t]) = 1 /\ Cardinality(Inserting(m, t)) = 0
    <3>1. ASSUME NEW x \in Nat, NEW y \in Nat, NEW z \in Nat, x + y <= z, z <= 1, x # 0
          PROVE  x = 1 /\ y = 0
      BY <3>1
    <3> QED
      BY <1>2, <1>3, <1>4, <2>1, <3>1
  <2> QED
    BY <1>1, <1>2, <1>4, <2>2, FS_EmptySet, ElementOfSeq
<1> QED
  BY <1>1, <1>5

\* The row of a side says whether it has reported, and its goals.
LEMMA RowSays ==
  ASSUME TypeOK, RowsFit, InSequence, NEW m \in Match, NEW t \in Team
  PROVE  /\ Reported(m, t) <=> Registered(m, t) /\ results[m][t][1].reported
         /\ Registered(m, t) /\ t \in Sides[m] =>
              Goals(m, t) = results[m][t][1].goals /\ Goals(m, t) \in Nat
<1>1. Reported(m, t) <=> Registered(m, t) /\ results[m][t][1].reported
  <2>1. Reported(m, t) => Registered(m, t)
    BY DEF Reported, Registered
  <2> QED
    BY <2>1, OneRow DEF Reported
<1>2. ASSUME Registered(m, t), t \in Sides[m]
      PROVE  Goals(m, t) = results[m][t][1].goals /\ Goals(m, t) \in Nat
  <2>1. DOMAIN results[m][t] = {1} /\ results[m][t][1].goals \in Nat
    BY <1>2, OneRow, ScoreAssumption DEF ResultRow
  <2>2. t \in {o \in Sides[m] : results[m][o] # <<>>}
    BY <1>2 DEF Registered
  <2>3. getMatchResultByMatchId(m)[t] = {results[m][t][i].goals : i \in DOMAIN results[m][t]}
    BY <2>2 DEF getMatchResultByMatchId
  <2>4. getMatchResultByMatchId(m)[t] = {results[m][t][1].goals}
    BY <2>1, <2>3
  <2> QED
    BY <2>1, <2>4 DEF Goals
<1> QED
  BY <1>1, <1>2

\* A match has two sides, and the opponent of one is the other.
LEMMA TwoSides ==
  ASSUME NEW m \in Match, NEW t \in Sides[m]
  PROVE  /\ Sides[m] \subseteq Team
         /\ \E o \in Sides[m] : /\ o # t /\ Sides[m] = {t, o}
                                /\ (CHOOSE x \in Sides[m] : x # t) = o
                                /\ (CHOOSE x \in Sides[m] : x # o) = t
<1>1. Sides[m] \subseteq Team
  BY SidesAssumption
<1>2. PICK a, b \in Team : a # b /\ Sides[m] = {a, b}
  BY SidesAssumption
<1>3. PICK o \in Sides[m] : o # t /\ Sides[m] = {t, o}
  BY <1>2
<1>4. (CHOOSE x \in Sides[m] : x # t) = o /\ (CHOOSE x \in Sides[m] : x # o) = t
  BY <1>3
<1> QED
  BY <1>1, <1>3, <1>4

\* A match whose rows a step leaves alone says the same after it.
LEMMA SameMatch ==
  ASSUME NEW m \in Match, results'[m] = results[m]
  PROVE  /\ Complete(m)' <=> Complete(m)
         /\ \A t \in Team : /\ Reported(m, t)' <=> Reported(m, t)
                            /\ Registered(m, t)' <=> Registered(m, t)
                            /\ Goals(m, t)' = Goals(m, t)
                            /\ OpponentGoals(m, t)' = OpponentGoals(m, t)
         /\ EveryRowReported(m)' <=> EveryRowReported(m)
<1>1. \A t : (Reported(m, t)' <=> Reported(m, t)) /\ (Registered(m, t)' <=> Registered(m, t))
  BY DEF Reported, Registered
<1>2. Complete(m)' <=> Complete(m)
  BY <1>1 DEF Complete
<1>3. getMatchResultByMatchId(m)' = getMatchResultByMatchId(m)
  BY DEF getMatchResultByMatchId
<1>4. \A t : Goals(m, t)' = Goals(m, t)
  BY <1>3 DEF Goals
<1>5. \A t : OpponentGoals(m, t)' = OpponentGoals(m, t)
  BY <1>4 DEF OpponentGoals
<1>6. EveryRowReported(m)' <=> EveryRowReported(m)
  BY DEF EveryRowReported
<1> QED
  BY <1>1, <1>2, <1>4, <1>5, <1>6

\* A recount depends on the matches played and their goals alone.
LEMMA SameRecount ==
  ASSUME NEW t \in Team, Played(t)' = Played(t),
         \A m \in Played(t) : /\ Goals(m, t)' = Goals(m, t)
                              /\ OpponentGoals(m, t)' = OpponentGoals(m, t)
  PROVE  Recount(t)' = Recount(t)
<1>1. {m \in Played(t)' : Goals(m, t)' > OpponentGoals(m, t)'} =
      {m \in Played(t) : Goals(m, t) > OpponentGoals(m, t)}
  OBVIOUS
<1>2. {m \in Played(t)' : Goals(m, t)' < OpponentGoals(m, t)'} =
      {m \in Played(t) : Goals(m, t) < OpponentGoals(m, t)}
  OBVIOUS
<1>3. {m \in Played(t)' : Goals(m, t)' = OpponentGoals(m, t)'} =
      {m \in Played(t) : Goals(m, t) = OpponentGoals(m, t)}
  OBVIOUS
<1> QED
  BY <1>1, <1>2, <1>3 DEF Recount

\* A recount after a further match is the recount before it and that match.
LEMMA RecountAdds ==
  ASSUME NEW t \in Team, NEW m \in Match, m \notin Played(t), IsFiniteSet(Played(t)),
         Played(t)' = Played(t) \cup {m},
         \A n \in Played(t) : /\ Goals(n, t)' = Goals(n, t)
                              /\ OpponentGoals(n, t)' = OpponentGoals(n, t),
         Goals(m, t)' \in Nat, OpponentGoals(m, t)' \in Nat
  PROVE  /\ Recount(t)' = Plus(Recount(t), Tally(Goals(m, t)', OpponentGoals(m, t)'))
         /\ IsFiniteSet(Played(t)')
<1> DEFINE W == {n \in Played(t) : Goals(n, t) > OpponentGoals(n, t)}
           L == {n \in Played(t) : Goals(n, t) < OpponentGoals(n, t)}
           D == {n \in Played(t) : Goals(n, t) = OpponentGoals(n, t)}
           g == Goals(m, t)'
           h == OpponentGoals(m, t)'
<1>1. /\ W' = W \cup (IF g > h THEN {m} ELSE {})
      /\ L' = L \cup (IF g < h THEN {m} ELSE {})
      /\ D' = D \cup (IF g = h THEN {m} ELSE {})
  OBVIOUS
<1>2. /\ IsFiniteSet(W) /\ IsFiniteSet(L) /\ IsFiniteSet(D)
      /\ Cardinality(W) \in Nat /\ Cardinality(L) \in Nat /\ Cardinality(D) \in Nat
      /\ m \notin W /\ m \notin L /\ m \notin D
  BY FS_Subset, FS_CardinalityType
<1>3. /\ Cardinality(W') = Cardinality(W) + (IF g > h THEN 1 ELSE 0)
      /\ Cardinality(L') = Cardinality(L) + (IF g < h THEN 1 ELSE 0)
      /\ Cardinality(D') = Cardinality(D) + (IF g = h THEN 1 ELSE 0)
      /\ Cardinality(Played(t)') = Cardinality(Played(t)) + 1
      /\ IsFiniteSet(Played(t)')
  <2> HIDE DEF W, L, D, g, h
  <2>1. ASSUME NEW S, IsFiniteSet(S), Cardinality(S) \in Nat, m \notin S
        PROVE  /\ Cardinality(S \cup {m}) = Cardinality(S) + 1 /\ IsFiniteSet(S \cup {m})
               /\ Cardinality(S \cup {}) = Cardinality(S) + 0
    <3>1. S \cup {} = S
      OBVIOUS
    <3> QED
      BY <2>1, <3>1, FS_AddElement
  <2>3. Cardinality(Played(t)) \in Nat
    BY FS_CardinalityType
  <2>w. Cardinality(W') = Cardinality(W) + (IF g > h THEN 1 ELSE 0)
    BY <1>1, <1>2, <2>1
  <2>l. Cardinality(L') = Cardinality(L) + (IF g < h THEN 1 ELSE 0)
    BY <1>1, <1>2, <2>1
  <2>d. Cardinality(D') = Cardinality(D) + (IF g = h THEN 1 ELSE 0)
    BY <1>1, <1>2, <2>1
  <2> QED
    BY <2>1, <2>3, <2>w, <2>l, <2>d
<1>4. Recount(t) = [wins |-> Cardinality(W), loses |-> Cardinality(L),
                    draws |-> Cardinality(D), total |-> Cardinality(Played(t))]
  BY DEF Recount
<1>5. Recount(t)' = [wins |-> Cardinality(W'), loses |-> Cardinality(L'),
                     draws |-> Cardinality(D'), total |-> Cardinality(Played(t)')]
  BY DEF Recount
<1> HIDE DEF W, L, D, g, h
<1>6. Recount(t)' = Plus(Recount(t), Tally(g, h))
  BY <1>3, <1>4, <1>5 DEF Plus, Tally
<1> QED
  BY <1>3, <1>6 DEF g, h

LEMMA RecountType ==
  ASSUME NEW t \in Team, IsFiniteSet(Played(t))
  PROVE  /\ Recount(t) \in Standing
         /\ Played(t) = {} => Recount(t) = NoGames
<1>1. ASSUME NEW P, P \subseteq Played(t)
      PROVE  Cardinality(P) \in Nat /\ (Played(t) = {} => Cardinality(P) = 0)
  <2>1. Cardinality(P) \in Nat
    BY <1>1, FS_Subset, FS_CardinalityType
  <2>2. Played(t) = {} => P = {}
    BY <1>1
  <2> QED
    BY <2>1, <2>2, FS_EmptySet
<1> DEFINE W == {n \in Played(t) : Goals(n, t) > OpponentGoals(n, t)}
           L == {n \in Played(t) : Goals(n, t) < OpponentGoals(n, t)}
           D == {n \in Played(t) : Goals(n, t) = OpponentGoals(n, t)}
<1>2. W \subseteq Played(t) /\ L \subseteq Played(t) /\ D \subseteq Played(t)
  OBVIOUS
<1>3. Recount(t) = [wins |-> Cardinality(W), loses |-> Cardinality(L),
                    draws |-> Cardinality(D), total |-> Cardinality(Played(t))]
  BY DEF Recount
<1> HIDE DEF W, L, D
<1>4. \A P \in {W, L, D, Played(t)} :
        Cardinality(P) \in Nat /\ (Played(t) = {} => Cardinality(P) = 0)
  BY <1>1, <1>2
<1> QED
  BY <1>3, <1>4 DEF Standing, NoGames

\* What the row of a side says, now and in the next state.
RowFacts(m, t) ==
  /\ results[m][t] \in Seq(ResultRow)
  /\ Registered(m, t) => DOMAIN results[m][t] = {1} /\ results[m][t][1] \in ResultRow
  /\ Reported(m, t) <=> Registered(m, t) /\ results[m][t][1].reported
  /\ Registered(m, t) /\ t \in Sides[m] =>
       Goals(m, t) = results[m][t][1].goals /\ Goals(m, t) \in Nat

LEMMA RowsNow ==
  TypeOK /\ RowsFit /\ InSequence => \A m \in Match, t \in Team : RowFacts(m, t)
BY OneRow, RowSays DEF RowFacts

LEMMA RowsNext ==
  TypeOK' /\ RowsFit' /\ InSequence => \A m \in Match, t \in Team : RowFacts(m, t)'
<1>1. (TypeOK /\ RowsFit /\ InSequence => \A m \in Match, t \in Team : RowFacts(m, t))'
  BY RowsNow, PTL
<1> QED
  BY <1>1

\* Two rows are one of each side.
LEMMA TwoRows ==
  ASSUME TypeOK, RowsOfSides, RowsFit, InSequence, NEW m \in Match
  PROVE  ResultCount(m) = 2 <=> \A o \in Sides[m] : Registered(m, o)
<1> DEFINE S == UNION {{<<t, i>> : i \in DOMAIN results[m][t]} : t \in Team}
<1>1. PICK a, b \in Team : a # b /\ Sides[m] = {a, b}
  BY SidesAssumption
<1>2. \A t \in Team : DOMAIN results[m][t] = IF Registered(m, t) THEN {1} ELSE {}
  <2> SUFFICES ASSUME NEW t \in Team
               PROVE  DOMAIN results[m][t] = IF Registered(m, t) THEN {1} ELSE {}
    OBVIOUS
  <2>1. CASE Registered(m, t)
    BY <2>1, OneRow
  <2>2. CASE ~ Registered(m, t)
    BY <2>2 DEF Registered
  <2> QED
    BY <2>1, <2>2
<1>3. \A t \in Team : Registered(m, t) => t \in {a, b}
  BY <1>1 DEF RowsOfSides, Registered
<1>4. S = {x \in {<<a, 1>>, <<b, 1>>} : Registered(m, x[1])}
  BY <1>1, <1>2, <1>3
<1>5. <<a, 1>> # <<b, 1>>
  BY <1>1
<1>6. CASE Registered(m, a) /\ Registered(m, b)
  <2>1. S = {<<a, 1>>} \cup {<<b, 1>>}
    BY <1>4, <1>6
  <2>2. Cardinality(S) = 2
    <3>1. ASSUME NEW x, NEW y, x # y
          PROVE  Cardinality({x} \cup {y}) = 2
      <4>1. IsFiniteSet({x}) /\ Cardinality({x}) = 1 /\ y \notin {x}
        BY <3>1, FS_Singleton
      <4>2. Cardinality({x} \cup {y}) = 1 + 1
        BY <4>1, FS_AddElement
      <4> QED
        BY <4>2
    <3> QED
      BY <1>5, <2>1, <3>1
  <2> QED
    BY <1>1, <1>6, <2>2 DEF ResultCount
<1>7. CASE ~ (Registered(m, a) /\ Registered(m, b))
  <2>1. PICK x : S \subseteq {x}
    BY <1>4, <1>7
  <2>2. Cardinality(S) <= 1 /\ Cardinality(S) \in Nat
    <3>1. IsFiniteSet({x}) /\ Cardinality({x}) = 1
      BY FS_Singleton
    <3>2. IsFiniteSet(S) /\ Cardinality(S) <= Cardinality({x})
      BY <2>1, <3>1, FS_Subset
    <3> QED
      BY <3>1, <3>2, FS_CardinalityType
  <2>3. Cardinality(S) # 2
    BY <2>2
  <2> QED
    BY <1>1, <1>7, <2>3 DEF ResultCount
<1> QED
  BY <1>6, <1>7

\* A step that touches no match which is complete, nor completes one, leaves
\* every recount.
LEMMA RecountsKept ==
  ASSUME \A n \in Match : results'[n] = results[n] \/ (~ Complete(n) /\ ~ Complete(n)'),
         NEW t \in Team
  PROVE  Played(t)' = Played(t) /\ Recount(t)' = Recount(t)
<1>1. \A n \in Match : Complete(n)' <=> Complete(n)
  BY SameMatch
<1>2. Played(t)' = Played(t)
  BY <1>1 DEF Played
<1>3. \A n \in Played(t) : /\ Goals(n, t)' = Goals(n, t)
                           /\ OpponentGoals(n, t)' = OpponentGoals(n, t)
  BY SameMatch DEF Played
<1> QED
  BY <1>2, <1>3, SameRecount

\* The standings stay what a recount gives when neither they, nor the recount,
\* nor the request between its two writes change.
LEMMA StandingsKept ==
  ASSUME StandingsRecount, standings' = standings,
         \A t \in Team : Played(t)' = Played(t) /\ Recount(t)' = Recount(t),
         \A r \in Request, t \in Team :
           /\ Uncommitted(r, t)' <=> Uncommitted(r, t)
           /\ Uncommitted(r, t) => /\ req'[r].score = req[r].score
                                   /\ req'[r].otherScore = req[r].otherScore
  PROVE  StandingsRecount'
<1> SUFFICES ASSUME NEW t \in Team
             PROVE  /\ IsFiniteSet(Played(t)')
                    /\ (\A r \in Request : ~ Uncommitted(r, t)') =>
                         standings'[t] = IF Played(t)' = {} THEN <<>> ELSE <<Recount(t)'>>
                    /\ \A r \in Request : Uncommitted(r, t)' =>
                         standings'[t] = <<Plus(Recount(t)', Tally(req'[r].score, req'[r].otherScore))>>
  BY DEF StandingsRecount
<1> QED
  BY DEF StandingsRecount

\* A match that is not touched keeps its clean sheets.
LEMMA CleanKept ==
  ASSUME CleanRows, NEW n \in Match, results'[n] = results[n], NEW t \in Team, Registered(n, t)'
  PROVE  results'[n][t][1].clean <=> Complete(n)' /\ OpponentGoals(n, t)' = 0
BY SameMatch DEF CleanRows

\* The parts of the invariant that hold however requests interleave.
LEMMA BaseStep ==
  ASSUME SInv, InSequence, [Next]_vars
  PROVE  /\ TypeOK /\ RowsOfSides /\ RowsFit /\ IInv /\ CleanRows /\ StandingsRecount
         /\ IInv' /\ TypeOK' /\ RowsOfSides' /\ RowsFit'
         /\ \A m \in Match, t \in Team : RowFacts(m, t) /\ RowFacts(m, t)'
         /\ \A r \in Request : InFlight(req[r]) /\ Remembers(req[r]) /\ req[r] \in RequestState
         /\ \A r \in Request : InFlight(req[r])' /\ req'[r] \in RequestState
<1>1. TypeOK /\ RowsOfSides /\ RowsFit /\ IInv
  BY DEF SInv, IInv
<1>2. IInv' /\ RowsFit'
  BY <1>1, IInvStep, RowsFitStep
<1>3. TypeOK' /\ RowsOfSides'
  BY <1>2 DEF IInv
<1>4. \A m \in Match, t \in Team : RowFacts(m, t) /\ RowFacts(m, t)'
  BY <1>1, <1>2, <1>3, RowsNow, RowsNext
<1>5. CleanRows /\ StandingsRecount /\ \A r \in Request : Remembers(req[r])
  BY DEF SInv
<1>6. \A r \in Request : InFlight(req[r]) /\ req[r] \in RequestState
  BY <1>1 DEF IInv, TypeOK
<1>7. \A r \in Request : InFlight(req[r])' /\ req'[r] \in RequestState
  BY <1>2, <1>3 DEF IInv, TypeOK
<1> QED
  BY <1>1, <1>2, <1>3, <1>4, <1>5, <1>6, <1>7

\* What the rows of a match say is read of one side at a time.
LEMMA ReportedReads ==
  ASSUME SInv, InSequence, [Next]_vars, NEW m \in Match, NEW t \in Team
  PROVE  /\ Reported(m, t) <=> Registered(m, t) /\ results[m][t][1].reported
         /\ Reported(m, t)' <=> Registered(m, t)' /\ results'[m][t][1].reported
         /\ Registered(m, t)' /\ t \in Sides[m] =>
              Goals(m, t)' = results'[m][t][1].goals /\ Goals(m, t)' \in Nat
         /\ Registered(m, t) => 1 \in DOMAIN results[m][t] /\ results[m][t][1] \in ResultRow
         /\ Registered(m, t) /\ t \in Sides[m] =>
              Goals(m, t) = results[m][t][1].goals /\ Goals(m, t) \in Nat
<1>1. RowFacts(m, t) /\ RowFacts(m, t)'
  BY BaseStep
<1> QED
  BY <1>1 DEF RowFacts

\* The rows a new result leaves: the match was not complete and is not.
LEMMA CreateSaveRows ==
  ASSUME SInv, InSequence, [Next]_vars, NEW r \in Request, CreateSave(r),
         NEW q, q = req[r]
  PROVE  /\ q.match \in Match /\ q.team \in Team
         /\ \A n \in Match : n # q.match => results'[n] = results[n]
         /\ \A t \in Team : t # q.team => results'[q.match][t] = results[q.match][t]
         /\ ~ Registered(q.match, q.team)
         /\ results'[q.match][q.team][1] = NewResult
         /\ ~ Reported(q.match, q.team)'
         /\ ~ Complete(q.match) /\ ~ Complete(q.match)'
<1> DEFINE m == q.match
           u == q.team
<1>1. /\ m \in Match /\ u \in Team /\ u \in Sides[m] /\ q.pc = "save"
      /\ results \in [Match -> [Team -> Seq(ResultRow)]]
  BY BaseStep DEF TypeOK, RequestState, InFlight, CreateSave
<1>2. ~ Registered(m, u)
  <2>1. r \in Inserting(m, u)
    BY <1>1 DEF Inserting
  <2> QED
    BY <1>1, <2>1, OneRow, BaseStep
<1>3. /\ \A n \in Match : n # m => results'[n] = results[n]
      /\ \A t \in Team : t # u => results'[m][t] = results[m][t]
      /\ results'[m][u] = Append(results[m][u], NewResult)
  BY <1>1 DEF CreateSave
<1>4. results'[m][u][1] = NewResult
  BY <1>2, <1>3 DEF Registered
<1>5. ~ Reported(m, u)
  BY <1>1, <1>2, ReportedReads
<1>6. ~ Reported(m, u)'
  BY <1>1, <1>4, ReportedReads DEF NewResult
<1>7. ~ Complete(m) /\ ~ Complete(m)'
  BY <1>1, <1>5, <1>6 DEF Complete
<1> QED
  BY <1>1, <1>2, <1>3, <1>4, <1>6, <1>7

\* The rows a commit leaves: as many, filled in.
LEMMA CommitRows ==
  ASSUME SInv, InSequence, [Next]_vars, NEW r \in Request, FinalCommit(r),
         NEW q, q = req[r]
  PROVE  /\ q.match \in Match /\ q.team \in Sides[q.match] /\ q.team \in Team /\ q.pc = "commit"
         /\ \A n \in Match : n # q.match => results'[n] = results[n]
         /\ \A t \in Team :
              /\ Registered(q.match, t)' <=> Registered(q.match, t)
              /\ Registered(q.match, t) =>
                   /\ results'[q.match][t][1].reported <=> t = q.team \/ results[q.match][t][1].reported
                   /\ results'[q.match][t][1].goals = IF t = q.team THEN q.score
                                                      ELSE results[q.match][t][1].goals
                   /\ results'[q.match][t][1].clean <=>
                        IF t = q.team THEN q.counting /\ q.otherScore = 0
                        ELSE IF q.counting /\ t = q.other THEN q.score = 0
                        ELSE results[q.match][t][1].clean
<1> DEFINE m == q.match
<1>1. /\ q \in RequestState /\ m \in Match /\ q.team \in Sides[m] /\ q.pc = "commit"
      /\ results \in [Match -> [Team -> Seq(ResultRow)]]
  BY BaseStep DEF TypeOK, RequestState, InFlight, FinalCommit
<1>2. \A n \in Match : n # m => results'[n] = results[n]
  BY <1>1 DEF FinalCommit
<1>3. results'[m] = ReportedResults(q)
  BY <1>1 DEF FinalCommit
<1>4. ASSUME NEW t \in Team
      PROVE  Registered(m, t)' <=> Registered(m, t)
  <2>1. results'[m][t] \in Seq(ResultRow) /\ results[m][t] \in Seq(ResultRow)
    BY <1>1, BaseStep DEF TypeOK
  <2>2. DOMAIN results'[m][t] = DOMAIN results[m][t]
    BY <1>1, <1>3, ReportedResultsType
  <2> QED
    BY <2>1, <2>2 DEF Registered
<1>5. ASSUME NEW t \in Team, Registered(m, t)
      PROVE  /\ results'[m][t][1].reported <=> t = q.team \/ results[m][t][1].reported
             /\ results'[m][t][1].goals = IF t = q.team THEN q.score ELSE results[m][t][1].goals
             /\ results'[m][t][1].clean <=>
                  IF t = q.team THEN q.counting /\ q.otherScore = 0
                  ELSE IF q.counting /\ t = q.other THEN q.score = 0
                  ELSE results[m][t][1].clean
  <2>1. 1 \in DOMAIN results[m][t] /\ results[m][t][1] \in ResultRow
    BY <1>1, <1>5, ReportedReads
  <2> DEFINE own == q.counting /\ CleanSheet(q.score, q.otherScore)
             theirs == CleanSheet(q.otherScore, q.score)
             New(i) == IF t = q.team
                       THEN [reported |-> TRUE, goals |-> q.score, clean |-> own]
                       ELSE IF q.counting /\ t = q.other
                       THEN [results[m][t][i] EXCEPT !.clean = theirs]
                       ELSE results[m][t][i]
  <2>2. results'[m][t][1] = New(1)
    <3>1. ReportedResults(q)[t] = [i \in DOMAIN results[m][t] |-> New(i)]
      BY DEF ReportedResults
    <3> HIDE DEF New
    <3> QED
      BY <1>3, <2>1, <3>1
  <2>3. (own <=> q.counting /\ q.otherScore = 0) /\ (theirs <=> q.score = 0)
    BY DEF CleanSheet
  <2> HIDE DEF own, theirs
  <2>4. CASE t = q.team
    BY <2>2, <2>3, <2>4
  <2>5. CASE t # q.team /\ q.counting /\ t = q.other
    <3>1. results'[m][t][1] = [results[m][t][1] EXCEPT !.clean = theirs]
      BY <2>2, <2>5
    <3>2. /\ results'[m][t][1].reported = results[m][t][1].reported
          /\ results'[m][t][1].goals = results[m][t][1].goals
          /\ results'[m][t][1].clean = theirs
      BY <2>1, <3>1 DEF ResultRow
    <3> QED
      BY <2>3, <2>5, <3>2
  <2>6. CASE t # q.team /\ ~ (q.counting /\ t = q.other)
    BY <2>2, <2>6
  <2> QED
    BY <2>4, <2>5, <2>6
<1>6. q.team \in Team
  BY <1>1 DEF RequestState
<1> QED
  BY <1>1, <1>2, <1>4, <1>5, <1>6

\* A submission that does not count the match: the match was not complete and
\* is not.
LEMMA UncountedRows ==
  ASSUME SInv, InSequence, [Next]_vars, NEW r \in Request, FinalCommit(r),
         NEW q, q = req[r], ~ q.counting
  PROVE  /\ ~ Complete(q.match) /\ ~ Complete(q.match)'
         /\ \E o \in Sides[q.match] : ~ Registered(q.match, o)
<1> DEFINE m == q.match
<1>1. m \in Match /\ Sides[m] \subseteq Team
  BY CommitRows, SidesAssumption
<1>2. PICK o \in Sides[m] : ~ Registered(m, o)
  BY CommitRows, BaseStep DEF Remembers
<1>3. ~ Registered(m, o)'
  BY <1>1, <1>2, CommitRows
<1>4. ~ Reported(m, o) /\ ~ Reported(m, o)'
  BY <1>1, <1>2, <1>3, ReportedReads
<1> QED
  BY <1>2, <1>4 DEF Complete

\* A submission that counts the match: it was not complete and is.
LEMMA CountedRows ==
  ASSUME SInv, InSequence, [Next]_vars, NEW r \in Request, FinalCommit(r),
         NEW q, q = req[r], q.counting
  PROVE  /\ q.other \in Team /\ q.other # q.team /\ Sides[q.match] = {q.team, q.other}
         /\ Registered(q.match, q.team) /\ Registered(q.match, q.other)
         /\ ~ Reported(q.match, q.team) /\ Reported(q.match, q.other)
         /\ Reported(q.match, q.team)' /\ Reported(q.match, q.other)'
         /\ ~ Complete(q.match) /\ Complete(q.match)'
         /\ q.score \in Nat /\ q.otherScore \in Nat
         /\ Goals(q.match, q.other) = q.otherScore
         /\ Goals(q.match, q.team)' = q.score /\ OpponentGoals(q.match, q.team)' = q.otherScore
         /\ Goals(q.match, q.other)' = q.otherScore /\ OpponentGoals(q.match, q.other)' = q.score
<1> DEFINE m == q.match
<1>1. /\ m \in Match /\ q.team \in Sides[m] /\ q.team \in Team /\ q \in RequestState
      /\ q.score \in Nat /\ q.otherScore \in Nat /\ q.other \in Team
  BY CommitRows, BaseStep, ScoreAssumption DEF RequestState
<1>2. ReadOpponent(q)
  BY CommitRows DEF ReadOpponent
<1>3. /\ q.other \in Sides[m] /\ Reported(m, q.other)
      /\ Registered(m, q.team) /\ ~ Reported(m, q.team)
      /\ q.other # q.team /\ q.otherScore = Goals(m, q.other)
  BY <1>2, BaseStep DEF InFlight, Remembers
<1>4. /\ Sides[m] = {q.team, q.other}
      /\ (CHOOSE x \in Sides[m] : x # q.team) = q.other
      /\ (CHOOSE x \in Sides[m] : x # q.other) = q.team
  BY <1>1, <1>3, TwoSides
<1>5. Registered(m, q.other)
  BY <1>1, <1>3, ReportedReads
<1>6. Reported(m, q.team)' /\ Reported(m, q.other)'
  BY <1>1, <1>3, <1>5, CommitRows, ReportedReads
<1>7. ~ Complete(m) /\ Complete(m)'
  BY <1>1, <1>3, <1>4, <1>6 DEF Complete
<1>8. Goals(m, q.team)' = q.score /\ Goals(m, q.other)' = q.otherScore
  BY <1>1, <1>3, <1>5, CommitRows, ReportedReads
<1>9. OpponentGoals(m, q.team)' = q.otherScore /\ OpponentGoals(m, q.other)' = q.score
  BY <1>4, <1>8 DEF OpponentGoals
<1> QED
  BY <1>1, <1>3, <1>4, <1>5, <1>6, <1>7, <1>8, <1>9

-----------------------------------------------------------------------------
(* What each step does to the rows, the recounts and the standings.          *)

\* Rows are written by two steps of the handlers.
LEMMA ResultsWriters ==
  ASSUME [Next]_vars, \A r \in Request : ~ CreateSave(r) /\ ~ FinalCommit(r)
  PROVE  results' = results
BY DEF Next, Handle, vars, CreateCheck, FinalBegin, FinalCount, FinalOpponent,
   FinalOwnTotal, FinalOwnRow, FinalOwnWrite, FinalOtherTotal, FinalOtherRow, FinalDropPage,
   FinalRejectLineup, Fail, PageRead, PageStore, PageExpire

LEMMA CleanStep ==
  ASSUME SInv, InSequence, [Next]_vars
  PROVE  CleanRows'
<1> SUFFICES ASSUME NEW n \in Match, NEW t \in Team, Registered(n, t)'
             PROVE  results'[n][t][1].clean <=> Complete(n)' /\ OpponentGoals(n, t)' = 0
  BY DEF CleanRows
<1>0. CleanRows
  BY BaseStep
<1>1. CASE results'[n] = results[n]
  BY <1>0, <1>1, CleanKept
<1>2. ASSUME NEW r \in Request, CreateSave(r), results'[n] # results[n]
      PROVE  ~ Complete(n)' /\ ~ results'[n][t][1].clean
  <2> DEFINE q == req[r]
  <2>1. n = q.match
    BY <1>2, CreateSaveRows
  <2>2. ~ Complete(n) /\ ~ Complete(n)'
    BY <1>2, <2>1, CreateSaveRows
  <2>3. CASE t = q.team
    <3>1. results'[n][t][1] = NewResult
      BY <1>2, <2>1, <2>3, CreateSaveRows
    <3> QED
      BY <2>2, <3>1 DEF NewResult
  <2>4. CASE t # q.team
    <3>1. results'[n][t] = results[n][t]
      BY <1>2, <2>1, <2>4, CreateSaveRows
    <3>2. Registered(n, t)
      BY <3>1 DEF Registered
    <3> QED
      BY <1>0, <2>2, <3>1, <3>2 DEF CleanRows
  <2> QED
    BY <2>3, <2>4
<1>3. ASSUME NEW r \in Request, FinalCommit(r), results'[n] # results[n], ~ req[r].counting
      PROVE  ~ Complete(n)' /\ ~ results'[n][t][1].clean
  <2> DEFINE q == req[r]
  <2>1. n = q.match
    BY <1>3, CommitRows
  <2>2. ~ Complete(n) /\ ~ Complete(n)'
    BY <1>3, <2>1, UncountedRows
  <2>3. Registered(n, t)
    BY <1>3, <2>1, CommitRows
  <2>4. ~ results[n][t][1].clean
    BY <1>0, <2>2, <2>3 DEF CleanRows
  <2>5. ~ results'[n][t][1].clean
    BY <1>3, <2>1, <2>3, <2>4, CommitRows
  <2> QED
    BY <2>2, <2>5
<1>4. ASSUME NEW r \in Request, FinalCommit(r), results'[n] # results[n], req[r].counting
      PROVE  results'[n][t][1].clean <=> Complete(n)' /\ OpponentGoals(n, t)' = 0
  <2> PICK q : q = req[r]
    OBVIOUS
  <2>1. n = q.match
    BY <1>4, CommitRows
  <2>2. Registered(n, t)
    BY <1>4, <2>1, CommitRows
  <2>3. t \in Sides[n]
    BY <2>2, BaseStep DEF RowsOfSides, Registered
  <2>4. /\ t \in {q.team, q.other} /\ q.other # q.team /\ Complete(n)'
        /\ OpponentGoals(n, q.team)' = q.otherScore /\ OpponentGoals(n, q.other)' = q.score
    BY <1>4, <2>1, <2>3, CountedRows
  <2>5. results'[n][t][1].clean <=> IF t = q.team THEN q.otherScore = 0 ELSE q.score = 0
    BY <1>4, <2>1, <2>2, <2>4, CommitRows
  <2> QED
    BY <2>4, <2>5
<1> QED
  BY <1>1, <1>2, <1>3, <1>4, ResultsWriters

\* Only a commit that counts a match changes a recount.
LEMMA RecountsStill ==
  ASSUME SInv, InSequence, [Next]_vars,
         \A r \in Request : FinalCommit(r) => ~ req[r].counting,
         NEW t \in Team
  PROVE  Played(t)' = Played(t) /\ Recount(t)' = Recount(t)
<1> SUFFICES ASSUME NEW n \in Match, results'[n] # results[n]
             PROVE  ~ Complete(n) /\ ~ Complete(n)'
  BY RecountsKept
<1>1. ASSUME NEW r \in Request, CreateSave(r)
      PROVE  ~ Complete(n) /\ ~ Complete(n)'
  BY <1>1, CreateSaveRows
<1>2. ASSUME NEW r \in Request, FinalCommit(r)
      PROVE  ~ Complete(n) /\ ~ Complete(n)'
  <2>1. n = req[r].match
    BY <1>2, CommitRows
  <2> QED
    BY <1>2, <2>1, UncountedRows
<1> QED
  BY <1>1, <1>2, ResultsWriters

\* That commit adds the match to the recounts of both sides.
LEMMA RecountsCount ==
  ASSUME SInv, InSequence, [Next]_vars, NEW r \in Request, FinalCommit(r),
         NEW q, q = req[r], q.counting,
         NEW t \in Team
  PROVE  /\ t = q.team =>
              /\ Recount(t)' = Plus(Recount(t), Tally(q.score, q.otherScore))
              /\ Played(t)' # {} /\ IsFiniteSet(Played(t)')
         /\ t = q.other =>
              /\ Recount(t)' = Plus(Recount(t), Tally(q.otherScore, q.score))
              /\ Played(t)' # {} /\ IsFiniteSet(Played(t)')
         /\ t \notin {q.team, q.other} =>
              Played(t)' = Played(t) /\ Recount(t)' = Recount(t)
<1> DEFINE m == q.match
<1>1. m \in Match /\ \A n \in Match : n # m => results'[n] = results[n]
  BY CommitRows
<1>2. /\ Sides[m] = {q.team, q.other} /\ ~ Complete(m) /\ Complete(m)'
      /\ q.other # q.team
  BY CountedRows
<1>3. /\ Goals(m, q.team)' = q.score /\ OpponentGoals(m, q.team)' = q.otherScore
      /\ Goals(m, q.other)' = q.otherScore /\ OpponentGoals(m, q.other)' = q.score
      /\ q.score \in Nat /\ q.otherScore \in Nat
  BY CountedRows
<1>4. \A n \in Match \ {m} : Complete(n)' <=> Complete(n)
  BY <1>1, SameMatch
<1>5. \A n \in Played(t) : /\ Goals(n, t)' = Goals(n, t)
                           /\ OpponentGoals(n, t)' = OpponentGoals(n, t)
  BY <1>1, <1>2, SameMatch DEF Played
<1>6. CASE t \in {q.team, q.other}
  <2>1. m \notin Played(t) /\ Played(t)' = Played(t) \cup {m}
    BY <1>1, <1>2, <1>4, <1>6 DEF Played
  <2>2. IsFiniteSet(Played(t))
    BY BaseStep DEF StandingsRecount
  <2>3. Goals(m, t)' \in Nat /\ OpponentGoals(m, t)' \in Nat
    BY <1>3, <1>6
  <2>4. /\ Recount(t)' = Plus(Recount(t), Tally(Goals(m, t)', OpponentGoals(m, t)'))
        /\ IsFiniteSet(Played(t)')
    BY <1>1, <1>5, <2>1, <2>2, <2>3, RecountAdds
  <2> QED
    BY <1>2, <1>3, <1>6, <2>1, <2>4
<1>7. CASE t \notin {q.team, q.other}
  <2>1. Played(t)' = Played(t)
    BY <1>1, <1>2, <1>4, <1>7 DEF Played
  <2> QED
    BY <1>2, <1>5, <1>7, <2>1, SameRecount
<1> QED
  BY <1>6, <1>7

-----------------------------------------------------------------------------
(* What a request knows.                                                    *)

\* A handler without a commit writes no row: what it has read stays so.
LEMMA RemembersKept ==
  ASSUME NEW q \in RequestState, Remembers(q), results' = results
  PROVE  Remembers(q)'
<1>1. q.match \in Match /\ q.team \in Team /\ q.other \in Team
  BY DEF RequestState
<1>2. \A t \in Team : /\ Played(t)' = Played(t) /\ Recount(t)' = Recount(t)
                      /\ RowIndex(t)' = RowIndex(t)
  BY RecountsKept DEF RowIndex
<1>3. /\ EveryRowReported(q.match)' <=> EveryRowReported(q.match)
      /\ \A t \in Team : /\ Reported(q.match, t)' <=> Reported(q.match, t)
                         /\ Registered(q.match, t)' <=> Registered(q.match, t)
                         /\ Goals(q.match, t)' = Goals(q.match, t)
  BY <1>1, SameMatch
<1>4. Sides[q.match] \subseteq Team
  BY <1>1, SidesAssumption
<1>5. /\ (q.pc = "count" => (q.everyReported <=> EveryRowReported(q.match)))'
      /\ (q.pc = "opponent" =>
            /\ q.counting
            /\ \A o \in Sides[q.match] : Registered(q.match, o)
            /\ ~ EveryRowReported(q.match))'
  BY <1>1, <1>3, <1>4 DEF Remembers
<1>6. (ReadOpponent(q) =>
         /\ q.counting
         /\ Registered(q.match, q.team) /\ ~ Reported(q.match, q.team)
         /\ q.other # q.team
         /\ q.otherScore = Goals(q.match, q.other))'
  BY <1>1, <1>3 DEF Remembers, ReadOpponent
<1>7. /\ (q.pc = "ownRow" => q.own.total = Recount(q.team).total)'
      /\ (HasOwn(q) => q.own = Recount(q.team) /\ q.ownRow = RowIndex(q.team))'
      /\ (q.pc = "otherRow" => q.others.total = Recount(q.other).total)'
  BY <1>1, <1>2 DEF Remembers, HasOwn
<1>8. (q.pc = "commit" =>
         IF q.counting
         THEN q.others = Recount(q.other) /\ q.otherRow = RowIndex(q.other)
         ELSE \E o \in Sides[q.match] : ~ Registered(q.match, o))'
  BY <1>1, <1>2, <1>3, <1>4 DEF Remembers
<1> QED
  BY <1>5, <1>6, <1>7, <1>8 DEF Remembers

\* A request that is about to read or write nothing has nothing to remember.
LEMMA NothingToRemember ==
  ASSUME NEW p, p.pc \in {"idle", "save", "dropPage"}
  PROVE  Remembers(p)'
BY DEF Remembers, ReadOpponent, HasOwn

\* Nothing fails when no failure is allowed.
LEMMA NoFailure ==
  ASSUME TypeOK, InSequence, NEW r \in Request
  PROVE  ~ Fail(r)
BY BoundAssumption DEF TypeOK, InSequence, Fail

\* What findOne returns of a team no request is half-way through.
LEMMA OnlyRow ==
  ASSUME StandingsRecount, NEW t \in Team, \A r \in Request : ~ Uncommitted(r, t)
  PROVE  /\ standings[t] = IF Played(t) = {} THEN <<>> ELSE <<Recount(t)>>
         /\ SomeRow(t) = {RowIndex(t)}
         /\ RowOf(t, RowIndex(t)) = Recount(t)
         /\ RowIndex(t) \in Nat /\ Recount(t) \in Standing
<1>1. standings[t] = IF Played(t) = {} THEN <<>> ELSE <<Recount(t)>>
  BY DEF StandingsRecount
<1>2. Recount(t) \in Standing /\ (Played(t) = {} => Recount(t) = NoGames)
  BY RecountType DEF StandingsRecount
<1>3. CASE Played(t) = {}
  BY <1>1, <1>2, <1>3 DEF SomeRow, RowOf, RowIndex
<1>4. CASE Played(t) # {}
  <2>1. standings[t] = <<Recount(t)>>
    BY <1>1, <1>4
  <2>2. standings[t] # <<>> /\ DOMAIN standings[t] = {1} /\ standings[t][1] = Recount(t)
    BY <2>1
  <2> QED
    BY <1>1, <1>2, <1>4, <2>2 DEF SomeRow, RowOf, RowIndex
<1> QED
  BY <1>3, <1>4

\* the fields a handler sets once
Same(p, q) ==
  /\ p.team = q.team /\ p.match = q.match /\ p.score = q.score
  /\ p.counting = q.counting /\ p.other = q.other /\ p.otherScore = q.otherScore

LEMMA CountRemembers ==
  ASSUME SInv, InSequence, [Next]_vars, NEW r \in Request, FinalCount(r),
         NEW q, q = req[r], NEW p, p = req'[r]
  PROVE  Remembers(p) /\ results' = results /\ standings' = standings
         /\ ~ (p.pc = "commit" /\ p.counting)
<1>0. results' = results /\ standings' = standings /\ req \in [Request -> RequestState]
  BY BaseStep DEF FinalCount, TypeOK
<1>1. /\ q \in RequestState /\ InFlight(q) /\ Remembers(q) /\ q.pc = "count"
      /\ q.match \in Match
  BY BaseStep DEF FinalCount, RequestState
<1>2. ~ q.counting /\ (q.everyReported <=> EveryRowReported(q.match))
  BY <1>1 DEF InFlight, Remembers
<1>3. ResultCount(q.match) = 2 <=> \A o \in Sides[q.match] : Registered(q.match, o)
  BY <1>1, BaseStep, TwoRows
<1>4. CASE p = Idle
  BY <1>0, <1>4 DEF Idle, Remembers, ReadOpponent, HasOwn
<1>5. CASE ResultCount(q.match) # 2 /\ p = [q EXCEPT !.pc = "commit"]
  <2>1. p.pc = "commit" /\ Same(p, q)
    BY <1>1, <1>5 DEF RequestState, Same
  <2> QED
    BY <1>0, <1>2, <1>3, <1>5, <2>1 DEF Remembers, ReadOpponent, HasOwn, Same
<1>6. CASE ResultCount(q.match) = 2 /\ ~ q.everyReported
           /\ p = [q EXCEPT !.pc = "opponent", !.counting = TRUE]
  <2>1. p.pc = "opponent" /\ p.counting /\ p.match = q.match
    BY <1>1, <1>6 DEF RequestState
  <2> QED
    BY <1>0, <1>2, <1>3, <1>6, <2>1 DEF Remembers, ReadOpponent, HasOwn
<1> QED
  BY <1>0, <1>4, <1>5, <1>6 DEF FinalCount, Goto, Reply

LEMMA OpponentRemembers ==
  ASSUME SInv, InSequence, [Next]_vars, NEW r \in Request, FinalOpponent(r),
         NEW q, q = req[r], NEW p, p = req'[r]
  PROVE  Remembers(p) /\ results' = results /\ standings' = standings
         /\ p.pc \in {"idle", "ownTotal"}
<1>0. results' = results /\ standings' = standings /\ req \in [Request -> RequestState]
  BY BaseStep DEF FinalOpponent, TypeOK
<1>1. /\ q \in RequestState /\ InFlight(q) /\ Remembers(q) /\ q.pc = "opponent"
      /\ q.match \in Match /\ q.team \in Team
  BY BaseStep DEF FinalOpponent, RequestState
<1>2. CASE p = Idle
  BY <1>0, <1>2 DEF Idle, Remembers, ReadOpponent, HasOwn
<1>3. ASSUME NEW o \in Team \ {q.team}, NEW i \in DOMAIN results[q.match][o],
             ~ NoResultYet(q.match, o), GoalsKnown(results[q.match][o][i]),
             p = [q EXCEPT !.pc = "ownTotal", !.other = o,
                           !.otherScore = results[q.match][o][i].goals]
      PROVE  Remembers(p) /\ p.pc = "ownTotal"
  <2>1. /\ p.pc = "ownTotal" /\ p.other = o /\ p.otherScore = results[q.match][o][i].goals
        /\ p.match = q.match /\ p.team = q.team /\ p.counting = q.counting
    BY <1>1, <1>3 DEF RequestState
  <2>2. Registered(q.match, o) /\ o \in Sides[q.match]
    BY <1>1, <1>3, BaseStep DEF NoResultYet, Registered, RowsOfSides
  <2>3. i = 1 /\ Reported(q.match, o) /\ Goals(q.match, o) = p.otherScore
    <3>1. DOMAIN results[q.match][o] = {1}
      BY <1>1, <2>2, OneRow, BaseStep
    <3>2. i = 1
      BY <3>1
    <3> QED
      BY <1>1, <1>3, <2>1, <2>2, <3>2, ReportedReads DEF GoalsKnown
  <2>4. /\ q.counting /\ ~ EveryRowReported(q.match)
        /\ \A a \in Sides[q.match] : Registered(q.match, a)
    BY <1>1 DEF Remembers
  <2>5. q.team \in Sides[q.match]
    BY <1>1 DEF InFlight
  <2>6. Sides[q.match] = {q.team, o}
    BY <1>1, <1>3, <2>2, <2>5, TwoSides
  <2>7. ~ Reported(q.match, q.team)
    <3> SUFFICES ASSUME Reported(q.match, q.team)
                 PROVE  EveryRowReported(q.match)
      BY <2>4
    <3> SUFFICES ASSUME NEW t \in Team, NEW j \in DOMAIN results[q.match][t]
                 PROVE  results[q.match][t][j].reported
      BY DEF EveryRowReported
    <3>1. Registered(q.match, t)
      BY DEF Registered
    <3>2. t \in {q.team, o}
      BY <1>1, <2>6, <3>1, BaseStep DEF RowsOfSides, Registered
    <3>3. Reported(q.match, t)
      BY <2>3, <3>2
    <3>4. j = 1
      BY <1>1, <3>1, OneRow, BaseStep
    <3> QED
      BY <1>1, <3>3, <3>4, ReportedReads
  <2> QED
    BY <1>1, <1>3, <2>1, <2>3, <2>4, <2>5, <2>7 DEF Remembers, ReadOpponent, HasOwn
<1> QED
  BY <1>0, <1>2, <1>3 DEF FinalOpponent, Goto, Reply

\* The request that reads and writes standings, and its opponent.
LEMMA Counting ==
  ASSUME SInv, InSequence, NEW r \in Request, NEW q, q = req[r], ReadOpponent(q)
  PROVE  /\ q \in RequestState /\ Remembers(q) /\ StandingsRecount
         /\ q.team \in Team /\ q.other \in Team /\ q.other # q.team /\ q.counting
         /\ \A t \in Team : IsFiniteSet(Played(t)) /\ Recount(t) \in Standing
         /\ \A s \in Request : s = r
<1>1. q \in RequestState /\ Remembers(q) /\ StandingsRecount
  BY DEF SInv, IInv, TypeOK
<1>2. q.team \in Team /\ q.other \in Team
  BY <1>1 DEF RequestState
<1>3. q.other # q.team /\ q.counting
  BY <1>1 DEF Remembers
<1> QED
  BY <1>1, <1>2, <1>3, RecountType DEF StandingsRecount, InSequence

\* The standings a request reads are what a recount gives.
LEMMA ReadsRecount ==
  ASSUME SInv, InSequence, NEW r \in Request, NEW q, q = req[r], ReadOpponent(q),
         NEW t \in Team, t = q.other \/ (t = q.team /\ q.pc \in {"ownTotal", "ownRow", "ownWrite"})
  PROVE  /\ SomeRow(t) = {RowIndex(t)} /\ RowOf(t, RowIndex(t)) = Recount(t)
         /\ RowIndex(t) \in Nat /\ Recount(t) \in Standing
         /\ standings[t] = IF Played(t) = {} THEN <<>> ELSE <<Recount(t)>>
<1>1. \A s \in Request : ~ Uncommitted(s, t)
  BY Counting DEF Uncommitted
<1> QED
  BY <1>1, Counting, OnlyRow

LEMMA OwnTotalRemembers ==
  ASSUME SInv, InSequence, NEW r \in Request, FinalOwnTotal(r),
         NEW q, q = req[r], NEW p, p = req'[r]
  PROVE  Remembers(p) /\ p.pc = "ownRow"
<1>1. q.pc = "ownTotal" /\ ReadOpponent(q) /\ req \in [Request -> RequestState]
  BY DEF FinalOwnTotal, ReadOpponent, SInv, IInv, TypeOK
<1>2. q \in RequestState /\ Remembers(q) /\ q.team \in Team
  BY <1>1, Counting
<1>3. SomeRow(q.team) = {RowIndex(q.team)} /\ RowOf(q.team, RowIndex(q.team)) = Recount(q.team)
  BY <1>1, <1>2, ReadsRecount
<1>4. p = [q EXCEPT !.pc = "ownRow", !.own.total = Recount(q.team).total]
  <2>1. PICK i \in SomeRow(q.team) : Goto(r, [q EXCEPT !.pc = "ownRow", !.own.total = RowOf(q.team, i).total])
    BY DEF FinalOwnTotal
  <2>2. i = RowIndex(q.team)
    BY <1>3
  <2> QED
    BY <1>1, <1>3, <2>1, <2>2 DEF Goto
<1>5. p.pc = "ownRow" /\ Same(p, q) /\ p.own.total = Recount(q.team).total
  <2>1. q.own \in Standing
    BY <1>2 DEF RequestState
  <2> QED
    BY <1>2, <1>4, <2>1 DEF RequestState, Same, Standing
<1> QED
  BY <1>1, <1>2, <1>5 DEF Remembers, ReadOpponent, HasOwn, Same

LEMMA OwnRowRemembers ==
  ASSUME SInv, InSequence, NEW r \in Request, FinalOwnRow(r),
         NEW q, q = req[r], NEW p, p = req'[r]
  PROVE  Remembers(p) /\ p.pc = "ownWrite"
<1>1. q.pc = "ownRow" /\ ReadOpponent(q) /\ req \in [Request -> RequestState]
  BY DEF FinalOwnRow, ReadOpponent, SInv, IInv, TypeOK
<1>2. q \in RequestState /\ Remembers(q) /\ q.team \in Team
  BY <1>1, Counting
<1>3. /\ SomeRow(q.team) = {RowIndex(q.team)} /\ RowOf(q.team, RowIndex(q.team)) = Recount(q.team)
      /\ Recount(q.team) \in Standing
  BY <1>1, <1>2, ReadsRecount
<1>4. p = [q EXCEPT !.pc = "ownWrite", !.ownRow = RowIndex(q.team),
                    !.own = [Recount(q.team) EXCEPT !.total = q.own.total]]
  <2>1. PICK i \in SomeRow(q.team) : Goto(r, [q EXCEPT !.pc = "ownWrite", !.ownRow = i,
                             !.own = [RowOf(q.team, i) EXCEPT !.total = q.own.total]])
    BY DEF FinalOwnRow
  <2>2. i = RowIndex(q.team)
    BY <1>3
  <2> QED
    BY <1>1, <1>3, <2>1, <2>2 DEF Goto
<1>5. [Recount(q.team) EXCEPT !.total = q.own.total] = Recount(q.team)
  <2>1. q.own.total = Recount(q.team).total
    BY <1>1, <1>2 DEF Remembers
  <2> QED
    BY <1>3, <2>1 DEF Standing
<1>6. p.pc = "ownWrite" /\ Same(p, q) /\ p.own = Recount(q.team) /\ p.ownRow = RowIndex(q.team)
  BY <1>2, <1>4, <1>5 DEF RequestState, Same
<1> QED
  BY <1>1, <1>2, <1>6 DEF Remembers, ReadOpponent, HasOwn, Same

LEMMA OwnWriteRemembers ==
  ASSUME SInv, InSequence, NEW r \in Request, FinalOwnWrite(r),
         NEW q, q = req[r], NEW p, p = req'[r]
  PROVE  /\ Remembers(p) /\ p.pc = "otherTotal" /\ Same(p, q) /\ p.ownRow = q.ownRow
         /\ q.own = Recount(q.team) /\ q.ownRow = RowIndex(q.team)
<1>1. q.pc = "ownWrite" /\ ReadOpponent(q) /\ HasOwn(q) /\ req \in [Request -> RequestState]
  BY DEF FinalOwnWrite, ReadOpponent, HasOwn, SInv, IInv, TypeOK
<1>2. q \in RequestState /\ Remembers(q) /\ q.team \in Team
  BY <1>1, Counting
<1>3. p = [q EXCEPT !.pc = "otherTotal"]
  BY <1>1 DEF FinalOwnWrite, Goto
<1>4. p.pc = "otherTotal" /\ Same(p, q) /\ p.own = q.own /\ p.ownRow = q.ownRow
  BY <1>2, <1>3 DEF RequestState, Same
<1>5. q.own = Recount(q.team) /\ q.ownRow = RowIndex(q.team)
  BY <1>1, <1>2 DEF Remembers
<1> QED
  BY <1>1, <1>2, <1>4, <1>5 DEF Remembers, ReadOpponent, HasOwn, Same

LEMMA OtherTotalRemembers ==
  ASSUME SInv, InSequence, NEW r \in Request, FinalOtherTotal(r),
         NEW q, q = req[r], NEW p, p = req'[r]
  PROVE  Remembers(p) /\ p.pc = "otherRow" /\ Same(p, q) /\ p.ownRow = q.ownRow
<1>1. q.pc = "otherTotal" /\ ReadOpponent(q) /\ HasOwn(q) /\ req \in [Request -> RequestState]
  BY DEF FinalOtherTotal, ReadOpponent, HasOwn, SInv, IInv, TypeOK
<1>2. q \in RequestState /\ Remembers(q) /\ q.other \in Team
  BY <1>1, Counting
<1>3. /\ SomeRow(q.other) = {RowIndex(q.other)}
      /\ RowOf(q.other, RowIndex(q.other)) = Recount(q.other)
  BY <1>1, <1>2, ReadsRecount
<1>4. p = [q EXCEPT !.pc = "otherRow", !.others.total = Recount(q.other).total]
  <2>1. PICK i \in SomeRow(q.other) : Goto(r, [q EXCEPT !.pc = "otherRow", !.others.total = RowOf(q.other, i).total])
    BY DEF FinalOtherTotal
  <2>2. i = RowIndex(q.other)
    BY <1>3
  <2> QED
    BY <1>1, <1>3, <2>1, <2>2 DEF Goto
<1>5. /\ p.pc = "otherRow" /\ Same(p, q) /\ p.own = q.own /\ p.ownRow = q.ownRow
      /\ p.others.total = Recount(q.other).total
  <2>1. q.others \in Standing
    BY <1>2 DEF RequestState
  <2> QED
    BY <1>2, <1>4, <2>1 DEF RequestState, Same, Standing
<1> QED
  BY <1>1, <1>2, <1>5 DEF Remembers, ReadOpponent, HasOwn, Same

LEMMA OtherRowRemembers ==
  ASSUME SInv, InSequence, NEW r \in Request, FinalOtherRow(r),
         NEW q, q = req[r], NEW p, p = req'[r]
  PROVE  Remembers(p) /\ p.pc = "commit" /\ Same(p, q) /\ p.ownRow = q.ownRow
<1>1. q.pc = "otherRow" /\ ReadOpponent(q) /\ HasOwn(q) /\ req \in [Request -> RequestState]
  BY DEF FinalOtherRow, ReadOpponent, HasOwn, SInv, IInv, TypeOK
<1>2. q \in RequestState /\ Remembers(q) /\ q.other \in Team /\ q.counting
  BY <1>1, Counting
<1>3. /\ SomeRow(q.other) = {RowIndex(q.other)}
      /\ RowOf(q.other, RowIndex(q.other)) = Recount(q.other) /\ Recount(q.other) \in Standing
  BY <1>1, <1>2, ReadsRecount
<1>4. p = [q EXCEPT !.pc = "commit", !.otherRow = RowIndex(q.other),
                    !.others = [Recount(q.other) EXCEPT !.total = q.others.total]]
  <2>1. PICK i \in SomeRow(q.other) : Goto(r, [q EXCEPT !.pc = "commit", !.otherRow = i,
                             !.others = [RowOf(q.other, i) EXCEPT !.total = q.others.total]])
    BY DEF FinalOtherRow
  <2>2. i = RowIndex(q.other)
    BY <1>3
  <2> QED
    BY <1>1, <1>3, <2>1, <2>2 DEF Goto
<1>5. [Recount(q.other) EXCEPT !.total = q.others.total] = Recount(q.other)
  <2>1. q.others.total = Recount(q.other).total
    BY <1>1, <1>2 DEF Remembers
  <2> QED
    BY <1>3, <2>1 DEF Standing
<1>6. /\ p.pc = "commit" /\ Same(p, q) /\ p.own = q.own /\ p.ownRow = q.ownRow
      /\ p.others = Recount(q.other) /\ p.otherRow = RowIndex(q.other)
  <2>1. p = [q EXCEPT !.pc = "commit", !.otherRow = RowIndex(q.other),
                      !.others = Recount(q.other)]
    BY <1>4, <1>5
  <2>2. p.pc = "commit" /\ p.otherRow = RowIndex(q.other)
    BY <1>2, <2>1 DEF RequestState
  <2>3. p.others = Recount(q.other)
    <3>1. "others" \in DOMAIN q
      BY <1>2 DEF RequestState
    <3>2. "others" \in DOMAIN [q EXCEPT !.pc = "commit", !.otherRow = RowIndex(q.other)]
      BY <3>1
    <3> QED
      BY <2>1, <3>2
  <2>4. \A c \in DOMAIN q \ {"pc", "otherRow", "others"} : p[c] = q[c]
    BY <2>1
  <2>5. {"team", "match", "score", "counting", "other", "otherScore", "own", "ownRow"} \subseteq
          DOMAIN q \ {"pc", "otherRow", "others"}
    BY <1>2 DEF RequestState
  <2> QED
    BY <2>2, <2>3, <2>4, <2>5 DEF Same
<1> QED
  BY <1>1, <1>2, <1>6 DEF Remembers, ReadOpponent, HasOwn, Same

\* Whoever takes the step, what a handler has read is still so.
LEMMA RemembersStep ==
  ASSUME SInv, InSequence, [Next]_vars, NEW r \in Request, NEW p, p = req'[r]
  PROVE  Remembers(p)'
<1>0. /\ p \in RequestState /\ Remembers(req[r]) /\ req[r] \in RequestState
      /\ req \in [Request -> RequestState] /\ \A s \in Request : s = r
  BY BaseStep DEF TypeOK, InSequence
<1>1. CASE p = Idle
  BY <1>1, NothingToRemember DEF Idle
<1>2. ASSUME results' = results, Remembers(p)
      PROVE  Remembers(p)'
  BY <1>0, <1>2, RemembersKept
<1>3. ASSUME NEW t \in Team, NEW m \in Match, CreateCheck(r, t, m)
      PROVE  Remembers(p)'
  <2>1. p.pc = "save"
    BY <1>0, <1>3 DEF CreateCheck, Goto, Idle
  <2> QED
    BY <2>1, NothingToRemember
<1>4. ASSUME NEW t \in Team, NEW m \in Match, NEW g \in Score, NEW l \in BOOLEAN,
             FinalBegin(r, t, m, g, l)
      PROVE  Remembers(p)'
  <2>1. p.pc = "count" /\ p.match = m /\ (p.everyReported <=> EveryRowReported(m))
    BY <1>0, <1>4 DEF FinalBegin, Goto, Idle
  <2>2. Remembers(p)
    BY <2>1 DEF Remembers, ReadOpponent, HasOwn
  <2> QED
    BY <1>2, <1>4, <2>2 DEF FinalBegin
<1>5. CASE FinalCommit(r)
  <2>1. p.pc = "dropPage"
    BY <1>0, <1>5 DEF FinalCommit, Goto, RequestState
  <2> QED
    BY <2>1, NothingToRemember
<1>6. CASE CreateSave(r) \/ FinalDropPage(r) \/ FinalRejectLineup(r) \/ Fail(r)
  <2>1. p = Idle
    BY <1>0, <1>6 DEF CreateSave, FinalDropPage, FinalRejectLineup, Fail, Reply, Goto
  <2> QED
    BY <1>1, <2>1
<1>7. CASE FinalCount(r) \/ FinalOpponent(r)
  BY <1>2, <1>7, CountRemembers, OpponentRemembers
<1>8. CASE FinalOwnTotal(r) \/ FinalOwnRow(r) \/ FinalOwnWrite(r)
           \/ FinalOtherTotal(r) \/ FinalOtherRow(r)
  <2>1. results' = results
    BY <1>8 DEF FinalOwnTotal, FinalOwnRow, FinalOwnWrite, FinalOtherTotal, FinalOtherRow
  <2>2. Remembers(p)
    BY <1>8, OwnTotalRemembers, OwnRowRemembers, OwnWriteRemembers, OtherTotalRemembers,
       OtherRowRemembers
  <2> QED
    BY <1>2, <2>1, <2>2
<1>9. CASE UNCHANGED vars \/ \E t \in Viewed : PageRead(t) \/ PageStore(t) \/ PageExpire(t)
  <2>1. results' = results /\ p = req[r]
    BY <1>9 DEF vars, PageRead, PageStore, PageExpire
  <2> QED
    BY <1>0, <1>2, <2>1
<1> QED
  BY <1>0, <1>3, <1>4, <1>5, <1>6, <1>7, <1>8, <1>9 DEF Next, Handle

-----------------------------------------------------------------------------
(* The standings follow the recount.                                        *)

\* Rows of one standing, as Put leaves them.
LEMMA PutOne ==
  ASSUME NEW t \in Team, NEW new,
         standings[t] = IF Played(t) = {} THEN <<>> ELSE <<Recount(t)>>
  PROVE  Put(standings[t], RowIndex(t), new) = <<new>>
<1>1. CASE Played(t) = {}
  BY <1>1 DEF Put, RowIndex
<1>2. CASE Played(t) # {}
  <2>1. [<<Recount(t)>> EXCEPT ![1] = new] = <<new>>
    OBVIOUS
  <2> QED
    BY <1>2, <2>1 DEF Put, RowIndex
<1> QED
  BY <1>1, <1>2

\* A step that writes no standings, while no request is between its writes.
LEMMA StandingsStill ==
  ASSUME SInv, InSequence, [Next]_vars, standings' = standings,
         \A r \in Request : FinalCommit(r) => ~ req[r].counting,
         \A r \in Request, t \in Team : ~ Uncommitted(r, t) /\ ~ Uncommitted(r, t)'
  PROVE  StandingsRecount'
<1>1. \A t \in Team : Played(t)' = Played(t) /\ Recount(t)' = Recount(t)
  BY RecountsStill
<1> QED
  BY <1>1, StandingsKept, BaseStep

LEMMA OwnWriteStandings ==
  ASSUME SInv, InSequence, [Next]_vars, NEW r \in Request, FinalOwnWrite(r)
  PROVE  StandingsRecount'
<1> PICK q : q = req[r]
  OBVIOUS
<1> PICK p : p = req'[r]
  OBVIOUS
<1>1. /\ p.pc = "otherTotal" /\ Same(p, q) /\ p.ownRow = q.ownRow
      /\ q.own = Recount(q.team) /\ q.ownRow = RowIndex(q.team)
  BY OwnWriteRemembers
<1>2. q.pc = "ownWrite" /\ ReadOpponent(q)
  BY DEF FinalOwnWrite, ReadOpponent
<1>3. q.team \in Team /\ q.counting /\ \A s \in Request : s = r
  BY <1>2, Counting
<1>4. \A s \in Request : ~ FinalCommit(s)
  BY <1>2, <1>3 DEF FinalCommit
<1>5. \A s \in Request, t \in Team : ~ Uncommitted(s, t)
  BY <1>2, <1>3 DEF Uncommitted
<1>6. CASE q.ownRow = 0
  <2>1. standings' = standings
    BY <1>6 DEF FinalOwnWrite
  <2>2. \A s \in Request, t \in Team : ~ Uncommitted(s, t)'
    BY <1>1, <1>3, <1>6 DEF Uncommitted
  <2> QED
    BY <1>4, <1>5, <2>1, <2>2, StandingsStill
<1>7. CASE q.ownRow # 0
  <2> DEFINE new == Plus(q.own, Tally(q.score, q.otherScore))
  <2>1. standings' = [standings EXCEPT ![q.team] = Put(@, q.ownRow, new)]
    BY <1>7 DEF FinalOwnWrite
  <2>2. standings[q.team] = IF Played(q.team) = {} THEN <<>> ELSE <<Recount(q.team)>>
    BY <1>2, <1>3, ReadsRecount
  <2>3. standings'[q.team] = <<new>>
    <3> HIDE DEF new
    <3>1. Put(standings[q.team], RowIndex(q.team), new) = <<new>>
      BY <1>3, <2>2, PutOne
    <3> QED
      BY <1>1, <1>3, <2>1, <3>1, BaseStep DEF TypeOK
  <2>4. \A t \in Team : t # q.team => standings'[t] = standings[t]
    BY <2>1, BaseStep DEF TypeOK
  <2>5. \A t \in Team : Uncommitted(r, t)' <=> t = q.team
    BY <1>1, <1>3, <1>7 DEF Uncommitted, Same
  <2>6. \A t \in Team : Played(t)' = Played(t) /\ Recount(t)' = Recount(t)
    BY <1>4, RecountsStill
  <2>7. new = Plus(Recount(q.team), Tally(p.score, p.otherScore))
    BY <1>1 DEF Same
  <2> HIDE DEF new
  <2> SUFFICES ASSUME NEW t \in Team
               PROVE  /\ IsFiniteSet(Played(t)')
                      /\ (\A s \in Request : ~ Uncommitted(s, t)') =>
                           standings'[t] = IF Played(t)' = {} THEN <<>> ELSE <<Recount(t)'>>
                      /\ \A s \in Request : Uncommitted(s, t)' =>
                           standings'[t] = <<Plus(Recount(t)', Tally(req'[s].score, req'[s].otherScore))>>
    BY DEF StandingsRecount
  <2>8. /\ IsFiniteSet(Played(t))
        /\ standings[t] = IF Played(t) = {} THEN <<>> ELSE <<Recount(t)>>
    BY <1>5, BaseStep DEF StandingsRecount
  <2>9. CASE t = q.team
    <3>1. Uncommitted(r, t)'
      BY <2>5, <2>9
    <3> QED
      BY <1>3, <2>3, <2>6, <2>7, <2>8, <2>9, <3>1
  <2>10. CASE t # q.team
    BY <1>3, <2>4, <2>5, <2>6, <2>8, <2>10
  <2> QED
    BY <2>9, <2>10
<1> QED
  BY <1>6, <1>7

LEMMA OtherReadStandings ==
  ASSUME SInv, InSequence, [Next]_vars, NEW r \in Request, FinalOtherTotal(r) \/ FinalOtherRow(r)
  PROVE  StandingsRecount'
<1> PICK q : q = req[r]
  OBVIOUS
<1> PICK p : p = req'[r]
  OBVIOUS
<1>1. Same(p, q) /\ p.ownRow = q.ownRow /\ p.pc \in {"otherRow", "commit"}
  BY OtherTotalRemembers, OtherRowRemembers
<1>2. q.pc \in {"otherTotal", "otherRow"} /\ ReadOpponent(q) /\ standings' = standings
  BY DEF FinalOtherTotal, FinalOtherRow, ReadOpponent
<1>3. \A s \in Request : s = r
  BY <1>2, Counting
<1>4. \A t \in Team : Played(t)' = Played(t) /\ Recount(t)' = Recount(t)
  <2>1. \A s \in Request : ~ FinalCommit(s)
    BY <1>2, <1>3 DEF FinalCommit
  <2> QED
    BY <2>1, RecountsStill
<1>5. \A t \in Team : Uncommitted(r, t)' <=> Uncommitted(r, t)
  BY <1>1, <1>2 DEF Uncommitted, Same
<1>6. req'[r].score = req[r].score /\ req'[r].otherScore = req[r].otherScore
  BY <1>1 DEF Same
<1> QED
  BY <1>2, <1>3, <1>4, <1>5, <1>6, StandingsKept, BaseStep

LEMMA CountedCommitStandings ==
  ASSUME SInv, InSequence, [Next]_vars, NEW r \in Request, FinalCommit(r), req[r].counting
  PROVE  StandingsRecount'
<1> PICK q : q = req[r]
  OBVIOUS
<1> DEFINE ours == Plus(Recount(q.team), Tally(q.score, q.otherScore))
           theirs == Plus(Recount(q.other), Tally(q.otherScore, q.score))
<1>1. q.pc = "commit" /\ q.counting /\ ReadOpponent(q) /\ HasOwn(q)
  BY DEF FinalCommit, ReadOpponent, HasOwn
<1>2. /\ q.team \in Team /\ q.other \in Team /\ q.other # q.team /\ Remembers(q)
      /\ \A s \in Request : s = r
      /\ \A t \in Team : IsFiniteSet(Played(t)) /\ Recount(t) \in Standing
      /\ StandingsRecount
  BY <1>1, Counting
<1>3. /\ q.own = Recount(q.team) /\ q.ownRow = RowIndex(q.team)
      /\ q.others = Recount(q.other) /\ q.otherRow = RowIndex(q.other)
  BY <1>1, <1>2 DEF Remembers
<1>4. standings' = CountedStandings(q) /\ standings \in [Team -> Seq(Standing)]
  BY <1>1, BaseStep DEF FinalCommit, TypeOK
<1>5. \A s \in Request, t \in Team : ~ Uncommitted(s, t)'
  <2>1. req'[r].pc = "dropPage"
    BY BaseStep DEF FinalCommit, Goto, TypeOK, RequestState
  <2> QED
    BY <1>2, <2>1 DEF Uncommitted
<1>6. standings'[q.team] = <<ours>>
  <2>1. CASE q.ownRow = 0
    <3>1. Played(q.team) = {}
      BY <1>3, <2>1 DEF RowIndex
    <3>2. \A s \in Request : ~ Uncommitted(s, q.team)
      BY <1>2, <2>1 DEF Uncommitted
    <3>3. standings[q.team] = <<>> /\ Recount(q.team) = NoGames
      BY <1>2, <3>1, <3>2, RecountType DEF StandingsRecount
    <3>4. standings'[q.team] = Append(<<>>, ours)
      BY <1>2, <1>4, <2>1, <3>3 DEF CountedStandings
    <3> QED
      BY <3>4
  <2>2. CASE q.ownRow # 0
    <3>1. Uncommitted(r, q.team)
      BY <1>1, <2>2 DEF Uncommitted
    <3>2. standings[q.team] = <<ours>>
      BY <1>2, <3>1 DEF StandingsRecount
    <3> HIDE DEF ours
    <3> QED
      BY <1>2, <1>4, <2>2, <3>2 DEF CountedStandings
  <2> QED
    BY <2>1, <2>2
<1>7. standings'[q.other] = <<theirs>>
  <2>1. standings[q.other] = IF Played(q.other) = {} THEN <<>> ELSE <<Recount(q.other)>>
    BY <1>1, <1>2, ReadsRecount
  <2>2. standings'[q.other] = Put(standings[q.other], RowIndex(q.other), theirs)
    BY <1>2, <1>3, <1>4 DEF CountedStandings
  <2> HIDE DEF theirs
  <2> QED
    BY <1>2, <2>1, <2>2, PutOne
<1>8. \A t \in Team \ {q.team, q.other} :
        standings'[t] = IF Played(t) = {} THEN <<>> ELSE <<Recount(t)>>
  <2>1. \A t \in Team \ {q.team, q.other} : \A s \in Request : ~ Uncommitted(s, t)
    BY <1>2 DEF Uncommitted
  <2>2. \A t \in Team \ {q.team, q.other} : standings'[t] = standings[t]
    BY <1>4 DEF CountedStandings
  <2> QED
    BY <1>2, <2>1, <2>2 DEF StandingsRecount
<1>9. ASSUME NEW t \in Team
      PROVE  /\ IsFiniteSet(Played(t)')
             /\ standings'[t] = IF Played(t)' = {} THEN <<>> ELSE <<Recount(t)'>>
  <2>1. CASE t = q.team
    <3>1. Recount(t)' = ours /\ Played(t)' # {} /\ IsFiniteSet(Played(t)')
      BY <1>1, <2>1, RecountsCount
    <3> HIDE DEF ours
    <3> QED
      BY <1>6, <2>1, <3>1
  <2>2. CASE t = q.other
    <3>1. Recount(t)' = theirs /\ Played(t)' # {} /\ IsFiniteSet(Played(t)')
      BY <1>1, <2>2, RecountsCount
    <3> HIDE DEF theirs
    <3> QED
      BY <1>7, <2>2, <3>1
  <2>3. CASE t \notin {q.team, q.other}
    <3>1. Played(t)' = Played(t) /\ Recount(t)' = Recount(t)
      BY <1>1, <2>3, RecountsCount
    <3> QED
      BY <1>2, <1>8, <2>3, <3>1
  <2> QED
    BY <2>1, <2>2, <2>3
<1> QED
  BY <1>5, <1>9 DEF StandingsRecount

LEMMA StandingsStep ==
  ASSUME SInv, InSequence, [Next]_vars
  PROVE  StandingsRecount'
<1>0. /\ req \in [Request -> RequestState] /\ TypeOK
      /\ \A r, s \in Request : r = s
  BY BaseStep DEF TypeOK, InSequence
<1>1. ASSUME NEW r \in Request, standings' = standings, ~ FinalCommit(r) \/ ~ req[r].counting,
             \A t \in Team : ~ Uncommitted(r, t) /\ ~ Uncommitted(r, t)'
      PROVE  StandingsRecount'
  <2>1. \A s \in Request : FinalCommit(s) => ~ req[s].counting
    BY <1>0, <1>1
  <2>2. \A s \in Request, t \in Team : ~ Uncommitted(s, t) /\ ~ Uncommitted(s, t)'
    BY <1>0, <1>1
  <2> QED
    BY <1>1, <2>1, <2>2, StandingsStill
<1>2. ASSUME NEW r \in Request, NEW t \in Team, NEW m \in Match,
             CreateCheck(r, t, m) \/ \E g \in Score, l \in BOOLEAN : FinalBegin(r, t, m, g, l)
      PROVE  StandingsRecount'
  <2>1. standings' = standings /\ req[r].pc = "idle" /\ req'[r].pc \in {"save", "count"}
    <3>1. CASE CreateCheck(r, t, m)
      BY <1>0, <3>1 DEF CreateCheck, Goto, Idle
    <3>2. ASSUME NEW g \in Score, NEW l \in BOOLEAN, FinalBegin(r, t, m, g, l)
          PROVE  <2>1
      BY <1>0, <3>2 DEF FinalBegin, Goto, Idle
    <3> QED
      BY <1>2, <3>1, <3>2
  <2> QED
    BY <1>1, <2>1 DEF FinalCommit, Uncommitted
<1>3. ASSUME NEW r \in Request, CreateSave(r) \/ FinalDropPage(r) \/ FinalRejectLineup(r)
      PROVE  StandingsRecount'
  <2>1. standings' = standings /\ req[r].pc \in {"save", "dropPage", "count"} /\ req'[r].pc = "idle"
    BY <1>0, <1>3 DEF CreateSave, FinalDropPage, FinalRejectLineup, Reply, Goto, Idle
  <2> QED
    BY <1>1, <2>1 DEF FinalCommit, Uncommitted
<1>4. ASSUME NEW r \in Request, \/ FinalCount(r) \/ FinalOpponent(r)
                                \/ FinalOwnTotal(r) \/ FinalOwnRow(r)
      PROVE  StandingsRecount'
  <2>1. standings' = standings /\ req[r].pc \in {"count", "opponent", "ownTotal", "ownRow"}
    BY <1>4 DEF FinalCount, FinalOpponent, FinalOwnTotal, FinalOwnRow
  <2>2. req'[r].pc \in {"idle", "ownTotal", "ownRow", "ownWrite"} \/
        (~ (req'[r].pc = "commit" /\ req'[r].counting) /\ FinalCount(r))
    BY <1>4, CountRemembers, OpponentRemembers, OwnTotalRemembers, OwnRowRemembers
  <2>3. FinalCount(r) => req'[r].pc \in {"idle", "opponent", "commit"}
    <3> SUFFICES ASSUME FinalCount(r)
                 PROVE  req'[r].pc \in {"idle", "opponent", "commit"}
      OBVIOUS
    <3>1. req[r] \in RequestState
      BY <1>0
    <3>2. /\ [req[r] EXCEPT !.pc = "commit"].pc = "commit"
          /\ [req[r] EXCEPT !.pc = "opponent", !.counting = TRUE].pc = "opponent"
          /\ Idle.pc = "idle"
      BY <3>1 DEF RequestState, Idle
    <3>3. req'[r] \in {Idle, [req[r] EXCEPT !.pc = "commit"],
                        [req[r] EXCEPT !.pc = "opponent", !.counting = TRUE]}
      BY <1>0 DEF FinalCount, Goto, Reply
    <3> QED
      BY <3>2, <3>3
  <2>4. \A t \in Team : ~ Uncommitted(r, t)'
    BY <2>2, <2>3 DEF Uncommitted
  <2> QED
    BY <1>1, <2>1, <2>4 DEF FinalCommit, Uncommitted
<1>5. ASSUME NEW r \in Request, FinalCommit(r), ~ req[r].counting
      PROVE  StandingsRecount'
  <2>1. standings' = standings /\ req'[r].pc = "dropPage"
    BY <1>0, <1>5 DEF FinalCommit, Goto, RequestState
  <2> QED
    BY <1>1, <1>5, <2>1 DEF Uncommitted
<1>6. CASE UNCHANGED vars \/ \E t \in Viewed : PageRead(t) \/ PageStore(t) \/ PageExpire(t)
  <2>1. results' = results /\ standings' = standings /\ req' = req
    BY <1>6 DEF vars, PageRead, PageStore, PageExpire
  <2>2. \A t \in Team : Played(t)' = Played(t) /\ Recount(t)' = Recount(t)
    BY <2>1, RecountsKept
  <2>3. \A s \in Request, t \in Team :
          /\ Uncommitted(s, t)' <=> Uncommitted(s, t)
          /\ req'[s].score = req[s].score /\ req'[s].otherScore = req[s].otherScore
    BY <2>1 DEF Uncommitted
  <2> QED
    BY <2>1, <2>2, <2>3, StandingsKept, BaseStep
<1> QED
  BY <1>0, <1>2, <1>3, <1>4, <1>5, <1>6, NoFailure, OwnWriteStandings, OtherReadStandings,
     CountedCommitStandings DEF Next, Handle

LEMMA SInvInit == Init => SInv
<1> SUFFICES ASSUME Init
             PROVE  SInv
  OBVIOUS
<1>1. IInv
  BY IInvInit
<1>2. RowsFit
  BY RowsFitInit
<1>3. \A m \in Match, t \in Team : ~ Registered(m, t) /\ ~ Reported(m, t)
  BY DEF Init, Registered, Reported
<1>4. CleanRows
  BY <1>3 DEF CleanRows
<1>5. \A t \in Team : Played(t) = {}
  <2>1. \A m \in Match : ~ Complete(m)
    BY <1>3, SidesAssumption DEF Complete
  <2> QED
    BY <2>1 DEF Played
<1>6. \A r \in Request, t \in Team : ~ Uncommitted(r, t)
  BY DEF Init, Idle, Uncommitted
<1>7. StandingsRecount
  BY <1>5, <1>6, FS_EmptySet DEF Init, StandingsRecount
<1>8. \A q \in {req[r] : r \in Request} : Remembers(q)
  BY DEF Init, Idle, Remembers, ReadOpponent, HasOwn
<1> QED
  BY <1>1, <1>2, <1>4, <1>7, <1>8 DEF SInv

LEMMA SInvStep ==
  ASSUME InSequence
  PROVE  SInv /\ [Next]_vars => SInv'
<1> SUFFICES ASSUME SInv, [Next]_vars
             PROVE  SInv'
  OBVIOUS
<1>1. IInv' /\ RowsFit'
  BY BaseStep
<1>2. CleanRows' /\ StandingsRecount'
  BY CleanStep, StandingsStep
<1>3. \A p \in {req'[r] : r \in Request} : Remembers(p)'
  BY RemembersStep
<1> QED
  BY <1>1, <1>2, <1>3 DEF SInv

\* The invariant of requests in sequence.
THEOREM SequentialInvariance ==
  ASSUME InSequence
  PROVE  Spec => []SInv
BY SInvInit, SInvStep, PTL DEF Spec

\* The rows the page of a team counts are the clean ones of its matches.
LEMMA CleanSheets ==
  ASSUME SInv, InSequence, NEW t \in Team
  PROVE  LET clean == {m \in Played(t) : OpponentGoals(m, t) = 0} IN
         /\ getCleanSheet(t) = {<<m, 1>> : m \in clean}
         /\ Cardinality(getCleanSheet(t)) = Cardinality(clean)
<1> DEFINE clean == {m \in Played(t) : OpponentGoals(m, t) = 0}
<1>1. TypeOK /\ RowsOfSides /\ RowsFit /\ CleanRows /\ StandingsRecount
  BY DEF SInv, IInv
<1>2. ASSUME NEW m \in Match
      PROVE  {j \in DOMAIN results[m][t] : results[m][t][j].clean} =
               IF m \in clean THEN {1} ELSE {}
  <2>1. CASE ~ Registered(m, t)
    <3>1. DOMAIN results[m][t] = {}
      BY <2>1 DEF Registered
    <3>2. m \notin clean
      BY <1>1, <2>1, RowSays DEF Played, Complete
    <3> QED
      BY <3>1, <3>2
  <2>2. CASE Registered(m, t)
    <3>1. DOMAIN results[m][t] = {1}
      BY <1>1, <2>2, OneRow
    <3>2. t \in Sides[m]
      BY <1>1, <2>2 DEF RowsOfSides, Registered
    <3>3. results[m][t][1].clean <=> m \in clean
      BY <1>1, <2>2, <3>2 DEF CleanRows, Played
    <3> QED
      BY <3>1, <3>3
  <2> QED
    BY <2>1, <2>2
<1>3. clean \subseteq Match
  BY DEF Played
<1>4. getCleanSheet(t) = {<<m, 1>> : m \in clean}
  <2> HIDE DEF clean
  <2> QED
    BY <1>2, <1>3 DEF getCleanSheet
<1>5. Cardinality(getCleanSheet(t)) = Cardinality(clean)
  <2> DEFINE f == [m \in clean |-> <<m, 1>>]
  <2>1. IsFiniteSet(clean)
    BY <1>1, FS_Subset DEF StandingsRecount
  <2> HIDE DEF clean
  <2>2. f \in Bijection(clean, getCleanSheet(t))
    <3>1. f \in [clean -> getCleanSheet(t)]
      BY <1>4
    <3>2. \A a, b \in clean : f[a] = f[b] => a = b
      OBVIOUS
    <3>3. \A x \in getCleanSheet(t) : \E a \in clean : f[a] = x
      BY <1>4
    <3> QED
      BY <3>1, <3>2, <3>3 DEF Bijection, Injection, Surjection, IsInjective
  <2> QED
    BY <2>1, <2>2, FS_Bijection DEF ExistsBijection
<1> QED
  BY <1>4, <1>5

\* Between requests the statistics of a team are what a recount gives.
THEOREM SequentialStandings ==
  ASSUME InSequence
  PROVE  Spec => []StandingsMatchResults
<1>1. SInv => StandingsMatchResults
  <2> SUFFICES ASSUME SInv, Quiet, NEW t \in Team
               PROVE  LET clean == {m \in Played(t) : OpponentGoals(m, t) = 0} IN
                      /\ standings[t] = IF Played(t) = {} THEN <<>> ELSE <<Recount(t)>>
                      /\ {x[1] : x \in getCleanSheet(t)} = clean
                      /\ getMemberStats(t) =
                           {[standings |-> Recount(t), cleanSheet |-> Cardinality(clean)]}
    BY DEF StandingsMatchResults
  <2> DEFINE clean == {m \in Played(t) : OpponentGoals(m, t) = 0}
  <2>1. \A r \in Request : ~ Uncommitted(r, t)
    BY DEF Quiet, Uncommitted
  <2>2. /\ standings[t] = IF Played(t) = {} THEN <<>> ELSE <<Recount(t)>>
        /\ SomeRow(t) = {RowIndex(t)} /\ RowOf(t, RowIndex(t)) = Recount(t)
    BY <2>1, OnlyRow DEF SInv
  <2>3. /\ getCleanSheet(t) = {<<m, 1>> : m \in clean}
        /\ Cardinality(getCleanSheet(t)) = Cardinality(clean)
    BY CleanSheets
  <2> HIDE DEF clean
  <2>4. {x[1] : x \in getCleanSheet(t)} = clean
    <3>1. \A x \in getCleanSheet(t) : x[1] \in clean
      BY <2>3
    <3>2. \A m \in clean : <<m, 1>> \in getCleanSheet(t) /\ <<m, 1>>[1] = m
      BY <2>3
    <3> QED
      BY <3>1, <3>2
  <2>5. getWinsAndLosesAndDraws(t) = {Recount(t)}
    BY <2>2 DEF getWinsAndLosesAndDraws
  <2>6. getMemberStats(t) = {[standings |-> Recount(t), cleanSheet |-> Cardinality(clean)]}
    BY <2>3, <2>5 DEF getMemberStats
  <2> QED
    BY <2>2, <2>4, <2>6 DEF clean
<1> QED
  BY <1>1, SequentialInvariance, PTL

-----------------------------------------------------------------------------
(* Requests in sequence implement the league.                               *)

\* The table of the league is the recount, also while a request has written one
\* of its two rows.
LEMMA TableIsRecount ==
  SInv /\ InSequence => \A t \in Team : TableRow(t) = Recount(t)
<1> SUFFICES ASSUME SInv, InSequence, NEW t \in Team
             PROVE  TableRow(t) = Recount(t)
  OBVIOUS
<1>1. CASE \E r \in Request : Uncommitted(r, t)
  <2>1. PICK r \in Request : r = (CHOOSE s \in Request : Uncommitted(s, t)) /\ Uncommitted(r, t)
    BY <1>1
  <2>2. HasOwn(req[r]) /\ Remembers(req[r]) /\ req[r].team = t
    BY <2>1 DEF Uncommitted, HasOwn, SInv
  <2>3. req[r].own = Recount(t)
    BY <2>2 DEF Remembers
  <2> QED
    BY <1>1, <2>1, <2>3 DEF TableRow
<1>2. CASE \A r \in Request : ~ Uncommitted(r, t)
  <2>1. /\ RowOf(t, RowIndex(t)) = Recount(t)
        /\ standings[t] = IF Played(t) = {} THEN <<>> ELSE <<Recount(t)>>
    BY <1>2, OnlyRow DEF SInv
  <2>2. (IF standings[t] = <<>> THEN 0 ELSE 1) = RowIndex(t)
    BY <2>1 DEF RowIndex
  <2> QED
    BY <1>2, <2>1, <2>2 DEF TableRow
<1> QED
  BY <1>1, <1>2

LEMMA TableIsRecountNext ==
  SInv' /\ InSequence => \A t \in Team : TableRow(t)' = Recount(t)'
<1>1. (SInv /\ InSequence => \A t \in Team : TableRow(t) = Recount(t))'
  BY TableIsRecount, PTL
<1> QED
  BY <1>1

Scores == [m \in Match |-> [t \in Team |-> ReportedGoals(m, t)]]
Tables == [t \in Team |-> TableRow(t)]

\* A step that leaves what has been reported leaves the scores.
LEMMA SameScores ==
  ASSUME \A m \in Match, t \in Team : ReportedGoals(m, t)' = ReportedGoals(m, t)
  PROVE  Scores' = Scores
BY DEF Scores

LEMMA SameTables ==
  ASSUME SInv, SInv', InSequence,
         \A t \in Team : Recount(t)' = Recount(t)
  PROVE  Tables' = Tables
<1>1. \A t \in Team : TableRow(t)' = TableRow(t)
  BY TableIsRecount, TableIsRecountNext
<1> QED
  BY <1>1 DEF Tables

LEMMA SameMatchScores ==
  ASSUME NEW m \in Match, results'[m] = results[m], NEW t \in Team
  PROVE  ReportedGoals(m, t)' = ReportedGoals(m, t)
BY SameMatch DEF ReportedGoals

\* A new result reports nothing.
LEMMA CreateSaveScores ==
  ASSUME SInv, InSequence, [Next]_vars, NEW r \in Request, CreateSave(r)
  PROVE  Scores' = Scores
<1> PICK q : q = req[r]
  OBVIOUS
<1> SUFFICES ASSUME NEW m \in Match, NEW t \in Team
             PROVE  ReportedGoals(m, t)' = ReportedGoals(m, t)
  BY SameScores
<1>1. CASE m # q.match
  BY <1>1, CreateSaveRows, SameMatchScores
<1>2. CASE m = q.match /\ t # q.team
  <2>1. results'[m][t] = results[m][t]
    BY <1>2, CreateSaveRows
  <2>2. Registered(m, t)' <=> Registered(m, t)
    BY <2>1 DEF Registered
  <2>3. Reported(m, t)' <=> Reported(m, t)
    BY <2>1 DEF Reported
  <2>4. Registered(m, t) => t \in Sides[m]
    BY BaseStep DEF RowsOfSides, Registered
  <2>5. Reported(m, t) => Goals(m, t)' = Goals(m, t)
    BY <2>1, <2>2, <2>4, ReportedReads
  <2> QED
    BY <2>3, <2>5 DEF ReportedGoals
<1>3. CASE m = q.match /\ t = q.team
  <2>1. ~ Reported(m, t) /\ ~ Reported(m, t)'
    BY <1>3, CreateSaveRows, ReportedReads
  <2> QED
    BY <2>1 DEF ReportedGoals
<1> QED
  BY <1>1, <1>2, <1>3

\* A commit changes what its own side has reported.
LEMMA CommitScores ==
  ASSUME SInv, InSequence, [Next]_vars, NEW r \in Request, FinalCommit(r),
         NEW q, q = req[r], NEW m \in Match, NEW t \in Team
  PROVE  /\ ~ (m = q.match /\ t = q.team) => ReportedGoals(m, t)' = ReportedGoals(m, t)
         /\ m = q.match /\ t = q.team =>
              ReportedGoals(m, t)' = IF Registered(m, t) THEN q.score ELSE -1
         /\ ~ Registered(m, t) => ReportedGoals(m, t) = -1
<1>1. ~ Registered(m, t) => ReportedGoals(m, t) = -1
  BY ReportedReads DEF ReportedGoals
<1>2. Registered(m, t) => t \in Sides[m]
  BY BaseStep DEF RowsOfSides, Registered
<1>3. CASE m # q.match
  BY <1>1, <1>3, CommitRows, SameMatchScores
<1>4. CASE m = q.match /\ t # q.team
  <2>1. Registered(m, t)' <=> Registered(m, t)
    BY <1>4, CommitRows
  <2>2. Reported(m, t)' <=> Reported(m, t)
    BY <1>4, <2>1, CommitRows, ReportedReads
  <2>3. Reported(m, t) => Goals(m, t)' = Goals(m, t)
    BY <1>2, <1>4, <2>1, CommitRows, ReportedReads
  <2> QED
    BY <1>1, <1>4, <2>2, <2>3 DEF ReportedGoals
<1>5. CASE m = q.match /\ t = q.team
  <2>1. Registered(m, t)' <=> Registered(m, t)
    BY <1>5, CommitRows
  <2>2. Registered(m, t) => Reported(m, t)' /\ Goals(m, t)' = q.score
    BY <1>2, <1>5, <2>1, CommitRows, ReportedReads
  <2>3. ~ Registered(m, t) => ~ Reported(m, t)'
    BY <2>1, ReportedReads
  <2> QED
    BY <1>1, <1>5, <2>2, <2>3 DEF ReportedGoals
<1> QED
  BY <1>3, <1>4, <1>5

\* A commit that counts no match is a report, of a side whose opponent has not
\* reported, or changes nothing.
LEMMA UncountedIsReport ==
  ASSUME SInv, SInv', InSequence, [Next]_vars, NEW r \in Request, FinalCommit(r),
         ~ req[r].counting
  PROVE  Promise!Next \/ UNCHANGED Promise!vars
<1> PICK q : q = req[r]
  OBVIOUS
<1> DEFINE m == q.match
           u == q.team
<1>1. m \in Match /\ u \in Team /\ u \in Sides[m] /\ q.score \in Score
  BY CommitRows, BaseStep DEF RequestState
<1>2. Tables' = Tables
  <2>1. \A s \in Request : FinalCommit(s) => ~ req[s].counting
    BY DEF InSequence
  <2> QED
    BY <2>1, RecountsStill, SameTables
<1>3. CASE ~ Registered(m, u)
  <2>1. \A n \in Match, t \in Team : ReportedGoals(n, t)' = ReportedGoals(n, t)
    BY <1>3, CommitScores
  <2>2. Scores' = Scores
    BY <2>1, SameScores
  <2> QED
    BY <1>2, <2>2 DEF Promise!vars, Scores, Tables
<1>4. CASE Registered(m, u)
  <2>1. PICK o \in Sides[m] : ~ Registered(m, o)
    BY UncountedRows
  <2>2. Sides[m] \ {u} = {o} /\ o \in Team
    BY <1>1, <1>4, <2>1, TwoSides
  <2>3. \A a \in Sides[m] \ {u} : Scores[m][a] = -1
    BY <1>1, <2>1, <2>2, CommitScores DEF Scores
  <2>4. Scores' = [Scores EXCEPT ![m][u] = q.score]
    <3>1. \A n \in Match, t \in Team :
            ReportedGoals(n, t)' = IF n = m /\ t = u THEN q.score ELSE ReportedGoals(n, t)
      BY <1>1, <1>4, CommitScores
    <3> QED
      BY <1>1, <3>1 DEF Scores
  <2>5. Promise!Report(m, u, q.score)
    BY <1>2, <2>3, <2>4 DEF Promise!Report, Promise!NoScore, Scores, Tables
  <2> QED
    BY <1>1, <2>5 DEF Promise!Next
<1> QED
  BY <1>3, <1>4

\* Adding a game to a row is adding its columns.
LEMMA AddIsPlus ==
  ASSUME NEW row \in Standing, NEW a \in Nat, NEW b \in Nat
  PROVE  Promise!Add(row, Promise!Game(a, b)) = Plus(row, Tally(a, b))
<1>1. /\ DOMAIN row = {"wins", "loses", "draws", "total"}
      /\ DOMAIN Promise!NoGames = {"wins", "loses", "draws", "total"}
  BY DEF Standing, Promise!NoGames
<1>2. Promise!Game(a, b) = Tally(a, b)
  BY DEF Promise!Game, Tally
<1> QED
  BY <1>1, <1>2 DEF Plus, Promise!Add

\* The commit that counts a match completes it in the league.
LEMMA CountedIsComplete ==
  ASSUME SInv, SInv', InSequence, [Next]_vars, NEW r \in Request, FinalCommit(r),
         req[r].counting
  PROVE  Promise!Next
<1> PICK q : q = req[r]
  OBVIOUS
<1> DEFINE m == q.match
           u == q.team
           o == q.other
<1>1. m \in Match /\ u \in Team /\ u \in Sides[m] /\ q.score \in Score
  BY CommitRows, BaseStep DEF RequestState
<1>2. /\ o \in Team /\ o # u /\ Sides[m] = {u, o} /\ Registered(m, u)
      /\ ~ Reported(m, u) /\ Reported(m, o) /\ Goals(m, o) = q.otherScore
      /\ q.score \in Nat /\ q.otherScore \in Nat
  BY CountedRows
<1>3. Scores[m][u] = -1 /\ Scores[m][o] = q.otherScore
  BY <1>1, <1>2 DEF Scores, ReportedGoals
<1>4. Scores' = [Scores EXCEPT ![m][u] = q.score]
  <2>1. \A n \in Match, t \in Team :
          ReportedGoals(n, t)' = IF n = m /\ t = u THEN q.score ELSE ReportedGoals(n, t)
    BY <1>1, <1>2, CommitScores
  <2> QED
    BY <1>1, <2>1 DEF Scores
<1>5. \A t \in Team : Recount(t) \in Standing /\ Tables[t] = Recount(t)
  BY TableIsRecount, RecountType DEF SInv, StandingsRecount, Tables
<1>6. Tables' = [Tables EXCEPT
                   ![u] = Promise!Add(@, Promise!Game(q.score, Scores[m][o])),
                   ![o] = Promise!Add(@, Promise!Game(Scores[m][o], q.score))]
  <2> DEFINE ours == Plus(Recount(u), Tally(q.score, q.otherScore))
             theirs == Plus(Recount(o), Tally(q.otherScore, q.score))
  <2>1. \A t \in Team : TableRow(t)' = IF t = u THEN ours ELSE IF t = o THEN theirs
                                       ELSE Recount(t)
    <3> SUFFICES ASSUME NEW t \in Team
                 PROVE  Recount(t)' = IF t = u THEN ours ELSE IF t = o THEN theirs
                                      ELSE Recount(t)
      BY TableIsRecountNext
    <3> QED
      BY <1>2, RecountsCount
  <2>2. /\ Promise!Add(Recount(u), Promise!Game(q.score, Scores[m][o])) = ours
        /\ Promise!Add(Recount(o), Promise!Game(Scores[m][o], q.score)) = theirs
    BY <1>1, <1>2, <1>3, <1>5, AddIsPlus
  <2> HIDE DEF ours, theirs
  <2>3. \A t \in Team : Tables'[t] = IF t = u THEN ours ELSE IF t = o THEN theirs ELSE Tables[t]
    BY <1>5, <2>1 DEF Tables
  <2> QED
    BY <1>1, <1>2, <1>5, <2>2, <2>3 DEF Tables
<1>7. Promise!Complete(m, u, o, q.score)
  BY <1>2, <1>3, <1>4, <1>6 DEF Promise!Complete, Promise!NoScore, Scores, Tables
<1> QED
  BY <1>1, <1>2, <1>7 DEF Promise!Next

LEMMA LeagueInit == Init => Promise!Init
<1> SUFFICES ASSUME Init
             PROVE  Promise!Init
  OBVIOUS
<1>1. \A m \in Match, t \in Team : ReportedGoals(m, t) = -1
  BY DEF Init, ReportedGoals, Reported
<1>2. \A t \in Team : TableRow(t) = NoGames
  <2>1. \A r \in Request, t \in Team : ~ Uncommitted(r, t)
    BY DEF Init, Idle, Uncommitted
  <2> QED
    BY <2>1 DEF Init, TableRow, RowOf
<1>3. Promise!NoGames = NoGames
  BY DEF Promise!NoGames, NoGames
<1> QED
  BY <1>1, <1>2, <1>3 DEF Promise!Init, Promise!NoScore

LEMMA LeagueStep ==
  ASSUME InSequence
  PROVE  SInv /\ SInv' /\ [Next]_vars => [Promise!Next]_(Promise!vars)
<1> SUFFICES ASSUME SInv, SInv', [Next]_vars
             PROVE  Promise!Next \/ UNCHANGED Promise!vars
  OBVIOUS
<1>1. CASE \A r \in Request : ~ FinalCommit(r)
  <2>1. Tables' = Tables
    BY <1>1, RecountsStill, SameTables
  <2>2. Scores' = Scores
    BY <1>1, CreateSaveScores, ResultsWriters, SameMatchScores, SameScores
  <2> QED
    BY <2>1, <2>2 DEF Promise!vars, Scores, Tables
<1> QED
  BY <1>1, UncountedIsReport, CountedIsComplete

\* Requests in sequence without a failure implement the league.
THEOREM SequentialRefinement ==
  ASSUME InSequence
  PROVE  Spec => ImplementsLeague
BY LeagueInit, LeagueStep, SequentialInvariance, PTL DEF Spec, ImplementsLeague, Promise!Spec

=============================================================================
