---------------------------- MODULE MCMatchResult ----------------------------
(* Instances of MatchResult for TLC: two or three teams, fixtures by number. *)
EXTENDS MatchResult, TLC

CONSTANTS t1, t2, t3

\* one match between two teams
OneFixture == 1 :> {t1, t2}
\* a return match
TwoFixtures == 1 :> {t1, t2} @@ 2 :> {t1, t2}
\* a team with two opponents
ThreeTeams == 1 :> {t1, t2} @@ 2 :> {t1, t3}

RequestSymmetry == Permutations(Request)
=============================================================================
