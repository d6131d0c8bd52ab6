---------------------------- MODULE MCMembership ----------------------------
(* Instances of Membership for TLC.                                         *)
EXTENDS Membership, TLC

Symmetry == Permutations(Member) \cup Permutations(Token) \cup Permutations(Request)
=============================================================================
