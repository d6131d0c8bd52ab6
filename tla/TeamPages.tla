----------------------------- MODULE TeamPages -----------------------------
(***************************************************************************)
(* The lists of teams and members that no cache stands before, read from   *)
(* the tables when they are asked for (team.service.ts, member.service.ts, *)
(* team.controller.ts, match.service.ts).  They join tables in other ways  *)
(* than the statistics do: a team that is deleted is not found by a join   *)
(* through the entity, and a member whose user is deleted or has no        *)
(* profile makes a list fail that reads it.                                *)
(***************************************************************************)
EXTENDS Statistics, Pagination

ASSUME TeamPagesAssumption == Member \subseteq Nat \ {NoCursor}

\* The rows of members a join through team finds: exists says if the team does.
MembersOf(gone, exists, t) == IF exists THEN Listed(gone, t) ELSE {}

getMemberCountByTeamId(gone, exists, t) == Cardinality(MembersOf(gone, exists, t))

\* A page of the list of teams that exist, each with its number of members.  The
\* query has no order, so a page may hold any teams, one on two pages included.
getTeam(gone, found, take, page) ==
  LET size == Cardinality(PageOf(1 .. Cardinality(found), "ASC", take, page)) IN
  {[t \in S |-> getMemberCountByTeamId(gone, TRUE, t)] :
     S \in {S \in SUBSET found : Cardinality(S) = size}}

Reachable(members) == \A p \in members : UserOf[p] \in Profiled

\* What a page of the list of members may show: nothing if one of the members,
\* on this page or not, cannot be shown.  The members that are filtered out as
\* invited are on the page all the same: the filtered list is not used.
getTeamMembers(gone, exists, t, take, page) ==
  LET members == MembersOf(gone, exists, t)
  IN  IF Reachable(members) THEN {PageOf(members, "ASC", take, page)} ELSE {}

\* The page of one member.
getMemberOfTeam(gone, exists, t, p) ==
  {q \in MembersOf(gone, exists, t) : q = p /\ Reachable({q})}

\* A page of the profiles without a team, whose query has no order either: a team
\* that is deleted keeps its members.  Profiles of deleted users are left out.
paginateProfile(gone, take, page) ==
  LET free == Profiled \ {UserOf[p] : p \in Member \ gone}
      size == Cardinality(PageOf(1 .. Cardinality(free), "ASC", take, page))
  IN  {S \in SUBSET free : Cardinality(S) = size}

\* The rows of one user; findOne shows any of them, with its records.
getMember(rows, gone, u) ==
  {[member |-> p, records |-> RecordOf(rows, p)] : p \in {m \in Member : UserOf[m] = u} \ gone}

\* The records of one match, and of one lineup.
getMembersMatchResult(rows, m, t) == {x \in rows : x.match = m /\ x.team = t}

\* The rows of members as the form of a result offers them.
getMembers(gone, t) == Listed(gone, t)

-----------------------------------------------------------------------------
(* What the lists promise.                                                  *)

\* The lists agree with each other and with the statistics.  A team's number of
\* members on the list of teams is that of the list of players; the pages of the
\* list of members, by number, hold each of them once if all can be shown, and
\* none of them can be read if the page of one cannot; the form offers those who
\* are ranked; whoever has a profile is listed by a team or among the profiles
\* without one, and not by both; and the records of the matches are those of the
\* members, whichever way they are read.
ListsAgree(rows, gone, existing, take) ==
  /\ \A t \in existing :
       LET count == getMemberCountByTeamId(gone, TRUE, t)
           pages == UNION {getTeamMembers(gone, TRUE, t, take, i) : i \in 1 .. count}
           readable == {p \in Member : getMemberOfTeam(gone, TRUE, t, p) # {}} IN
       /\ count = Cardinality(DOMAIN getPlayers(rows, gone, t))
       /\ IF readable = Listed(gone, t)
          THEN UNION pages = readable /\ SumFunction([S \in pages |-> Cardinality(S)]) = count
          ELSE pages = {}
       /\ Ranked(rows, gone, t) \subseteq getMembers(gone, t)
       /\ SumFunction([m \in Match |-> Total(getMembersMatchResult(rows, m, t), "goals")])
            = getGoals(rows, t)
  /\ \A list \in getTeam(gone, existing, Cardinality(existing), 1) :
       SumFunction(list) = Cardinality(UNION {getMembers(gone, t) : t \in existing})
  /\ LET listed == UNION {getMembers(gone, t) : t \in Team} IN
     paginateProfile(gone, Cardinality(Profiled) + 1, 1)
       = {Profiled \ {UserOf[p] : p \in listed}}
  /\ \A u \in {UserOf[p] : p \in Member} : \A shown \in getMember(rows, gone, u) :
       LET record == getMembetMatchRecord(rows, shown.member) IN
       /\ {x.match : x \in record} = {x.match : x \in shown.records}
       /\ SumFunction([x \in record |-> x.point]) = Points(rows, shown.member, "attackPoint")

=============================================================================
