---------------------------- MODULE MCTeamCache ----------------------------
(* An instance of TeamCache for TLC: two teams that have reported a match,  *)
(* and a third that is not yet founded.                                     *)
EXTENDS TeamCache, TLC

CONSTANTS t1, t2, t3, p1, p2, p3, q1, u1, u2, u3

\* p1 and q1 belong to one user; p2 has no profile
TheTeamOf == p1 :> t1 @@ p2 :> t1 @@ p3 :> t1 @@ q1 :> t2
TheUserOf == p1 :> u1 @@ p2 :> u2 @@ p3 :> u3 @@ q1 :> u1

\* the second match is between the founded teams again
TheSides == [m \in Match |-> {t1, t2}]

Scorer == [goals |-> 2, assists |-> 0, save |-> 0, yellow |-> 1]
Helper == [goals |-> 1, assists |-> 1, save |-> 2, yellow |-> 0]

\* the best scorer has no profile, and the two that have one differ
Idler == [goals |-> 0, assists |-> 1, save |-> 0, yellow |-> 0]

Both == p1 :> Helper @@ p2 :> Scorer @@ p3 :> Idler
TheLineups == t1 :> {Both} @@ t2 :> {q1 :> Helper} @@ t3 :> {}

ThePast ==
  << [kind |-> "report", team |-> t1, match |-> 1, lineup |-> Both],
     [kind |-> "report", team |-> t2, match |-> 1, lineup |-> q1 :> Helper] >>

TheVisited == {<<"stats", t1>>, <<"detail", t3>>}
=============================================================================
