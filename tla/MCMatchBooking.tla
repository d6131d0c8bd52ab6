--------------------------- MODULE MCMatchBooking ---------------------------
(* Instances of MatchBooking for TLC: the first user owns team "a".         *)
EXTENDS MatchBooking, TLC

CONSTANTS a, b

ThePairing == {<<a, b>>, <<b, b>>}

RequestSymmetry == Permutations(Request)
=============================================================================
