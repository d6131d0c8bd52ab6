----------------------------- MODULE Statistics -----------------------------
(***************************************************************************)
(* The queries of src/src/statistics/statistics.service.ts as operators.   *)
(* rows is player_statistics: a set of records, one for each player of a   *)
(* submitted lineup; gone are the members that have been expelled (soft-   *)
(* deleted rows of members).  SUM over no rows is NULL, shown as 0.        *)
(*                                                                         *)
(* Red cards and clean sheets of players are summed like the columns here. *)
(* Standings and clean sheets of teams are part of MatchResult.            *)
(*                                                                         *)
(* A definition D_Variant is D with a plausible mistake; nothing uses it   *)
(* but the runs that show which property the mistake breaks.               *)
(***************************************************************************)
EXTENDS Integers, Sequences, FiniteSets, FiniteSetsExt, Functions

CONSTANTS
  Team, Match,
  Member,     \* rows of members
  TeamOf,     \* TeamOf[p]: the team of member p
  UserOf,     \* UserOf[p]: the user of member p
  Profiled,   \* users that exist and have a profile
  TopPlaces,  \* places of a ranking, 3 in the code
  WarnedGames, \* games and places of the list of warned members, 3 in the code
  WarnedPlaces,
  CardDays    \* days of cards that are shown, 5 in the code

ASSUME StatisticsAssumption ==
  /\ IsFiniteSet(Team) /\ IsFiniteSet(Match) /\ IsFiniteSet(Member) /\ IsFiniteSet(Profiled)
  /\ TeamOf \in [Member -> Team]
  /\ {TopPlaces, WarnedGames, WarnedPlaces, CardDays} \subseteq Nat

\* a player's record of a match, without its keys
Line == [goals : Nat, assists : Nat, save : Nat, yellow : Nat]

Column == {"goals", "assists", "save", "yellow"}

Total(rows, column) == SumFunction([x \in rows |-> x[column]])

RowsOf(rows, t) == {x \in rows : x.team = t}
RecordOf(rows, p) == {x \in rows : x.member = p}

getGoals(rows, t) == Total(RowsOf(rows, t), "goals")
getAssists(rows, t) == Total(RowsOf(rows, t), "assists")

getConceded_AllGoals(rows, t) ==
  LET played == {x.match : x \in RowsOf(rows, t)}
  IN  Total({x \in rows : x.match \in played}, "goals")

\* the goals of the others in the matches t has reported
getConceded(rows, t) ==
  LET played == {x.match : x \in RowsOf(rows, t)}
  IN  Total({x \in rows : x.match \in played /\ x.team # t}, "goals")

-----------------------------------------------------------------------------
(* The record of the other teams.                                           *)

\* The driver returns COUNT as text, and > compares texts digit by digit.
Digits(n) == IF n < 10 THEN <<n>> ELSE <<n \div 10, n % 10>>

LaterText(a, b) ==
  \E i \in 1 .. Len(a) :
    /\ \A j \in 1 .. i - 1 : j <= Len(b) /\ a[j] = b[j]
    /\ i > Len(b) \/ (i <= Len(b) /\ a[i] > b[i])

MoreGames(own, others) == LaterText(Digits(own), Digits(others))

\* COUNT(DISTINCT match_id)
GameCount(rows) == Cardinality({x.match : x \in rows})

\* The games compared: as many of the latest that others have reported as t has
\* reported.  Rows of a game are grouped, so both sides of a foreign match count
\* as one game; which of its rows dates a group is up to the database.  A limit of
\* 0 is no limit: who has reported nothing is compared with all games.
ComparedGames(rows, t) ==
  LET others == rows \ RowsOf(rows, t)
      games == {x.match : x \in others}
      own == GameCount(RowsOf(rows, t))
  IN  {S \in SUBSET games :
         /\ Cardinality(S) = IF own = 0 THEN Cardinality(games)
                                        ELSE Min({own, Cardinality(games)})
         /\ \A g \in S, h \in games \ S :
              \E x, y \in others : x.match = g /\ y.match = h /\ x.day > y.day}

\* What the page may show of the others: nothing if the comparison refuses.
getStatsForOtherTeams(rows, t) ==
  LET others == rows \ RowsOf(rows, t) IN
  IF MoreGames(GameCount(RowsOf(rows, t)), GameCount(others))
  THEN {}
  ELSE {[c \in {"goals", "assists"} |-> Total({x \in others : x.match \in S}, c)] :
          S \in ComparedGames(rows, t)}

-----------------------------------------------------------------------------
(* Players, rankings, histories, cards.                                     *)

\* The list of players: every member of the team that is left, playing or not.
Listed(gone, t) == {p \in Member : TeamOf[p] = t /\ p \notin gone}
getPlayers(rows, gone, t) ==
  [p \in Listed(gone, t) |-> [c \in Column \cup {"games"} |->
     IF c = "games" THEN Cardinality(RecordOf(rows, p)) ELSE Total(RecordOf(rows, p), c)]]

\* without the condition on deleted_at
Ranked_All(rows, gone, t) == {p \in {x.member : x \in RowsOf(rows, t)} : UserOf[p] \in Profiled}

\* Who is ranked: the members that are left of those the rows join, if their user
\* exists and has a profile.
Ranked(rows, gone, t) ==
  {p \in {x.member : x \in RowsOf(rows, t)} \ gone : UserOf[p] \in Profiled}

Points(rows, p, by) ==
  LET own == RecordOf(rows, p) IN
  CASE by = "joining" -> Cardinality(own)
    [] by = "attackPoint" -> Total(own, "goals") + Total(own, "assists")
    [] OTHER -> Total(own, by)

Ranking == {"goals", "assists", "save", "joining", "attackPoint"}

\* The sets of members a ranking may return: ties are broken by the database.
Leaders(rows, gone, t, by) ==
  LET all == Ranked(rows, gone, t) IN
  {L \in SUBSET all :
     /\ Cardinality(L) = Min({TopPlaces, Cardinality(all)})
     /\ \A p \in L, q \in all \ L : Points(rows, p, by) >= Points(rows, q, by)}

\* A user's record by the team it was made for, former memberships included.
getMemberHistory(rows, u) ==
  LET own == {x \in rows : UserOf[x.member] = u}
  IN  [t \in {x.team : x \in own} |-> Total(RowsOf(own, t), "goals")]

\* A member's matches with the points of each; the day stands for the row's id.
getMembetMatchRecord(rows, p) ==
  {[match |-> x.match, day |-> x.day, point |-> x.goals + x.assists] : x \in RecordOf(rows, p)}

\* The members with most cards in the latest games of the team, by their ids: who
\* has left takes a place all the same, and is taken off the list after that.
getWarningmember(rows, gone, t) ==
  LET games == {x.match : x \in RowsOf(rows, t)}
      latest == {g \in games : Cardinality({h \in games : h > g}) < WarnedGames}
      cards == [p \in {x.member : x \in RowsOf(rows, t)} |->
                  Total({x \in RecordOf(rows, p) : x.match \in latest}, "yellow")]
      carded == {p \in DOMAIN cards : cards[p] > 0}
  IN  {[p \in L \ gone |-> cards[p]] :
         L \in {L \in SUBSET carded :
                  /\ Cardinality(L) = Min({WarnedPlaces, Cardinality(carded)})
                  /\ \A p \in L, q \in carded \ L : cards[p] >= cards[q]}}

\* Cards of the first days, though the comment speaks of the latest five games.
getYellowAndRedCards(rows, t) ==
  LET own == RowsOf(rows, t)
      days == {x.day : x \in own}
      shown == {d \in days : Cardinality({e \in days : e < d}) < CardDays}
  IN  [d \in shown |-> Total({x \in own : x.day = d}, "yellow")]

-----------------------------------------------------------------------------
(* What the pages promise.                                                  *)

Shown(page, column) == SumFunction([p \in DOMAIN page |-> page[p][column]])

\* The pages of a league agree.  The goals of a team are those of its players
\* and of the members that have left; a goal is conceded by one team or by none,
\* by none only if the opponent has reported nothing; a user's history holds all
\* rows of the user; the cards are all there while there are few days; and what
\* is shown of others is no more than they have.
PagesAgree(rows, gone) ==
  /\ \A t \in Team :
       /\ getGoals(rows, t) = Shown(getPlayers(rows, gone, t), "goals")
                                + Total({x \in RowsOf(rows, t) : x.member \in gone}, "goals")
       /\ LET cards == getYellowAndRedCards(rows, t) IN
          Cardinality(DOMAIN cards) < CardDays =>
            SumFunction(cards) = Total(RowsOf(rows, t), "yellow")
       /\ \A shown \in getStatsForOtherTeams(rows, t) :
            shown.goals <= SumFunction([o \in Team \ {t} |-> getGoals(rows, o)])
  /\ LET answered == {x \in rows : \E y \in rows : y.match = x.match /\ y.team # x.team} IN
     SumFunction([t \in Team |-> getConceded(rows, t)]) = Total(answered, "goals")
  /\ \A u \in {UserOf[p] : p \in Member} :
       SumFunction(getMemberHistory(rows, u))
         = Total({x \in rows : UserOf[x.member] = u}, "goals")

\* What the list of players shows for a ranking.
ListedPoints(player, by) ==
  CASE by = "joining" -> player.games
    [] by = "attackPoint" -> player.goals + player.assists
    [] OTHER -> player[by]

\* A ranking and the list of players of a team, two queries that join different
\* tables, agree.  Rankable is who the list shows with a match and who has a
\* profile: the ranking names only those, with the points of the list, passes over
\* nobody with more points, and has a place left only if it names all of them.
RankingFitsPlayers(rows, gone, t, by, L) ==
  LET players == getPlayers(rows, gone, t)
      rankable == {p \in DOMAIN players : players[p].games > 0 /\ UserOf[p] \in Profiled}
      listed == [p \in DOMAIN players |-> ListedPoints(players[p], by)]
  IN  /\ L \subseteq rankable
      /\ \A p \in L : Points(rows, p, by) = listed[p]
      /\ \A p \in L, q \in rankable \ L : listed[p] >= listed[q]
      /\ Cardinality(L) < TopPlaces => L = rankable

\* Rankings agree with the list of players; and the members that are warned are
\* players, with no more cards than the list of players shows.
RankingsNamePlayers(rows, gone) ==
  /\ \A t \in Team : \A warned \in getWarningmember(rows, gone, t) :
       \A p \in DOMAIN warned :
         /\ p \in Listed(gone, t)
         /\ warned[p] <= getPlayers(rows, gone, t)[p].yellow
  /\ \A t \in Team, by \in Ranking : \A L \in Leaders(rows, gone, t, by) :
       RankingFitsPlayers(rows, gone, t, by, L)

=============================================================================
