------------------------------- MODULE League -------------------------------
(***************************************************************************)
(* What the registration of results promises: each side of a match reports *)
(* its goals; the report that completes the match adds it, at that moment  *)
(* and once, to the table of both teams.  A side may correct its goals     *)
(* until the other side has reported.                                      *)
(***************************************************************************)
EXTENDS Integers

CONSTANTS Team, Match, Sides, Score

VARIABLES
  score,  \* score[m][t]: goals t reported for m, NoScore before
  table   \* table[t]: games won, lost, drawn and played by t

vars == <<score, table>>

NoScore == -1
NoGames == [wins |-> 0, loses |-> 0, draws |-> 0, total |-> 0]

Init ==
  /\ score = [m \in Match |-> [t \in Team |-> NoScore]]
  /\ table = [t \in Team |-> NoGames]

Game(mine, theirs) ==
  [wins  |-> IF mine > theirs THEN 1 ELSE 0,
   loses |-> IF mine < theirs THEN 1 ELSE 0,
   draws |-> IF mine = theirs THEN 1 ELSE 0,
   total |-> 1]

Add(row, game) == [c \in DOMAIN NoGames |-> row[c] + game[c]]

Report(m, t, g) ==
  /\ \A o \in Sides[m] \ {t} : score[m][o] = NoScore
  /\ score' = [score EXCEPT ![m][t] = g]
  /\ UNCHANGED table

Complete(m, t, o, g) ==
  /\ score[m][t] = NoScore
  /\ score[m][o] # NoScore
  /\ score' = [score EXCEPT ![m][t] = g]
  /\ table' = [table EXCEPT ![t] = Add(@, Game(g, score[m][o])),
                            ![o] = Add(@, Game(score[m][o], g))]

Next ==
  \E m \in Match : \E t \in Sides[m], g \in Score :
    \/ Report(m, t, g)
    \/ \E o \in Sides[m] \ {t} : Complete(m, t, o, g)

Spec == Init /\ [][Next]_vars

=============================================================================
