---------------------------- MODULE MCFormation ----------------------------
(* Instances of Formation for TLC.                                          *)
EXTENDS Formation, TLC

CONSTANTS p1, p2, f1, f2

\* lineups of the member p1 or of p2, who is in another team, and an empty one
TheOffered == {[formation |-> f1, players |-> {}], [formation |-> f1, players |-> {p1}],
               [formation |-> f2, players |-> {p1}], [formation |-> f2, players |-> {p2}]}

SaverSymmetry == Permutations(Saver)
=============================================================================
