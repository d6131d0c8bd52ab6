----------------------------- MODULE Formation -----------------------------
(***************************************************************************)
(* The formations of a team, src/src/formation/formation.service.ts: a     *)
(* lineup is saved for each match, and the formation with the highest win  *)
(* rate (of an opponent: the highest lose rate) is recommended.  Teams do  *)
(* not share rows, so one team is enough; getBestFormation asks two.       *)
(*                                                                         *)
(* A save looks for the lineup before its transaction; what the            *)
(* transaction deletes and inserts is one step.  The recommendation is a   *)
(* function of the tables.                                                 *)
(*                                                                         *)
(* Names keep apart from those of TeamCache, next to which the proofs use  *)
(* this module: FormationInit, FormationNext, Fixture for a match, Saver   *)
(* for a request that saves.                                               *)
(*                                                                         *)
(* A definition D_Variant is D with a plausible mistake; nothing uses it   *)
(* but the runs that show which property the mistake breaks.               *)
(***************************************************************************)
EXTENDS Integers, Sequences, SequencesExt

CONSTANTS
  NumMatches, \* the matches of the team, 1 .. NumMatches by id
  Shape,      \* formations
  NoShape,    \* what stands for the formation of a match without a lineup
  Player,     \* members, of any team
  Squad,      \* those of the team
  Offered,    \* bound: lineups that are saved, with the formation
  Saver,      \* slots for saves in flight
  MaxGoals,   \* bound: goals of a match
  MaxLineups  \* bound: lineups saved or being saved

ASSUME FormationAssumption ==
  /\ NumMatches \in Nat \ {0}
  /\ NoShape \notin Shape /\ Shape # {}
  /\ MaxGoals \in Nat /\ MaxLineups \in Nat
ASSUME LineupAssumption ==
  /\ Squad \subseteq Player
  /\ Offered \subseteq [formation : Shape, players : SUBSET Player]

VARIABLES
  lineups, \* match_formations: the lineups saved for each match, oldest first
  left,    \* members who have left, whose rows stay
  goals,   \* player_statistics: goals of the team and of its opponent
  saves    \* saves in flight

formationVars == <<lineups, left, goals, saves>>

Fixture == 1 .. NumMatches

\* the rows one save inserts
Lineup == [formation : Shape, players : SUBSET Player]

\* found: whether there was a lineup to replace; alone: history, no other save
\* for the match has been in flight since
SaveState == [pc : {"idle", "write"}, match : Fixture, lineup : Lineup,
              found : BOOLEAN, alone : BOOLEAN]

\* the sums of a match's rows, by team
Score == [own : 0 .. MaxGoals, other : 0 .. MaxGoals]

NoSave == [pc |-> "idle", match |-> 1,
         lineup |-> [formation |-> CHOOSE f \in Shape : TRUE, players |-> {}],
         found |-> FALSE, alone |-> FALSE]

FormationInit ==
  /\ lineups = [m \in Fixture |-> <<>>]
  /\ left = {}
  /\ goals = [m \in Fixture |-> [own |-> 0, other |-> 0]]
  /\ saves = [r \in Saver |-> NoSave]

-----------------------------------------------------------------------------
(* Saving a lineup.                                                         *)

\* the query joins the members who have not left: the lineups it returns
MatchFormation(m) == {i \in DOMAIN lineups[m] : lineups[m][i].players \ left # {}}

\* match.service: the members of the team in a match's lineup
MatchMembers(m) == Squad \cap ((UNION {lineups[m][i].players : i \in DOMAIN lineups[m]}) \ left)

Saving(r, m) == saves[r].pc = "write" /\ saves[r].match = m

\* Whose members a lineup names is not looked at.
SaveRead(r, m, lineup) ==
  /\ saves[r].pc = "idle"
  /\ Len(FlattenSeq(lineups)) + Cardinality({q \in Saver : saves[q].pc # "idle"}) < MaxLineups
  /\ saves' = [s \in Saver |->
       IF s = r THEN [pc |-> "write", match |-> m, lineup |-> lineup,
                      found |-> MatchFormation(m) # {},
                      alone |-> ~ \E q \in Saver : Saving(q, m)]
       ELSE IF Saving(s, m) THEN [saves[s] EXCEPT !.alone = FALSE]
       ELSE saves[s]]
  /\ UNCHANGED <<lineups, left, goals>>

Kept_Always(r) == lineups[saves[r].match]

\* the delete removes all rows of the match, the others only if one was found
Kept(r) == IF saves[r].found THEN <<>> ELSE lineups[saves[r].match]

Inserted_Always(r) == <<saves[r].lineup>>

\* A lineup without players has no rows.
Inserted(r) == IF saves[r].lineup.players = {} THEN <<>> ELSE <<saves[r].lineup>>

SaveWrite(r) ==
  /\ saves[r].pc = "write"
  /\ lineups' = [lineups EXCEPT ![saves[r].match] = Kept(r) \o Inserted(r)]
  /\ saves' = [saves EXCEPT ![r] = NoSave]
  /\ UNCHANGED <<left, goals>>

\* a statement fails and the transaction is rolled back
SaveFail(r) ==
  /\ saves[r].pc = "write"
  /\ saves' = [saves EXCEPT ![r] = NoSave]
  /\ UNCHANGED <<lineups, left, goals>>

Expel(p) ==
  /\ p \notin left
  /\ left' = left \cup {p}
  /\ UNCHANGED <<lineups, goals, saves>>

\* players of either side report a goal
ReportGoal(m, side) ==
  /\ goals[m].own + goals[m].other < MaxGoals
  /\ goals' = [goals EXCEPT ![m][side] = @ + 1]
  /\ UNCHANGED <<lineups, left, saves>>

-----------------------------------------------------------------------------
(* The recommendation.                                                      *)

\* 1 won, 0 drawn (or not played yet), -1 lost
Result(m) ==
  IF goals[m].own = goals[m].other THEN 0 ELSE IF goals[m].own > goals[m].other THEN 1 ELSE -1

UsedFormation(m) ==
  IF MatchFormation(m) = {} THEN NoShape ELSE lineups[m][Min(MatchFormation(m))].formation

TeamMatchInfo == [m \in Fixture |-> [result |-> Result(m), formation |-> UsedFormation(m)]]

Counted(s, match) ==
  [s EXCEPT !.games = @ + 1,
            !.wins = @ + (IF match.result = 1 THEN 1 ELSE 0),
            !.losses = @ + (IF match.result = -1 THEN 1 ELSE 0)]

\* The Map of the code keeps the order in which its keys were added.
WinRate(stats, match) ==
  IF \E i \in DOMAIN stats : stats[i].formation = match.formation
  THEN [i \in DOMAIN stats |->
         IF stats[i].formation = match.formation THEN Counted(stats[i], match) ELSE stats[i]]
  ELSE Append(stats, Counted([formation |-> match.formation, wins |-> 0, losses |-> 0,
                              games |-> 0], match))

FormationWinRate == FoldLeft(WinRate, <<>>, TeamMatchInfo)

Higher_Count(n, d, best) == n > best.n

\* n/d against the highest rate so far
Higher(n, d, best) == n * best.d > best.n * d

\* Nothing won, or lost, is no formation, with rate 0.
NoneYet == [formation |-> "", n |-> 0, d |-> 1]

Leader(count) ==
  FoldLeft(LAMBDA best, s :
             IF Higher(s[count], s.games, best)
             THEN [formation |-> s.formation, n |-> s[count], d |-> s.games] ELSE best,
           NoneYet, FormationWinRate)

BestFormation == Leader("wins")
WorstFormation == Leader("losses")

-----------------------------------------------------------------------------
FormationNext ==
  \/ \E r \in Saver :
       \/ \E m \in Fixture, lineup \in Offered : SaveRead(r, m, lineup)
       \/ SaveWrite(r)
       \/ SaveFail(r)
  \/ \E p \in Player : Expel(p)
  \/ \E m \in Fixture, side \in {"own", "other"} : ReportGoal(m, side)

FormationSpec == FormationInit /\ [][FormationNext]_formationVars

-----------------------------------------------------------------------------
(* Properties.                                                              *)

\* Every variable has its type; a lineup in the table has rows.
FormationTypeOK ==
  /\ lineups \in [Fixture -> Seq({l \in Lineup : l.players # {}})]
  /\ left \subseteq Player
  /\ goals \in [Fixture -> Score]
  /\ saves \in [Saver -> SaveState]

\* A save that overlaps no other for the match leaves its lineup and no other
\* to be shown, and its members of the team as those of the match, whatever was
\* saved before and whoever leaves meanwhile: the look-up before the transaction is
\* stale only where saves overlap.
LoneSaveReplaces ==
  [][\A r \in Saver, m \in Fixture :
       /\ Saving(r, m) /\ saves[r].alone
       /\ SaveWrite(r)
       => /\ MatchFormation(m)' =
               {i \in {Len(lineups[m])'} : saves[r].lineup.players \ left # {}}
          /\ \A i \in MatchFormation(m)' : lineups'[m][i] = saves[r].lineup
          /\ MatchMembers(m)' = Squad \cap (saves[r].lineup.players \ left)]_formationVars

Games(f) == {m \in Fixture : UsedFormation(m) = f}

\* best has the highest rate of matches with the result, and is the formation
\* used first of those that share it.
Leads(best, result) ==
  LET Hits(f) == {m \in Games(f) : Result(m) = result}
  IN IF \A m \in Fixture : Result(m) # result THEN best = NoneYet
     ELSE /\ best.formation \in Shape \cup {NoShape}
          /\ best.n = Cardinality(Hits(best.formation))
          /\ best.d = Cardinality(Games(best.formation))
          /\ \A f \in Shape \cup {NoShape} :
               LET mine == best.n * Cardinality(Games(f))
                   theirs == Cardinality(Hits(f)) * best.d
               IN /\ theirs <= mine
                  /\ theirs = mine /\ Games(f) # {} =>
                       \E m \in Games(best.formation) : \A n \in Games(f) : m <= n

\* The recommended formation has the highest win rate of the team, and the one
\* of the opponent the highest lose rate, over the matches that used it
\* (README.md:632).
RecommendationLeads == Leads(BestFormation, 1) /\ Leads(WorstFormation, -1)

=============================================================================
