----------------------------- MODULE MCAccounts -----------------------------
(* An instance of Accounts for TLC: one user who has signed up.             *)
EXTENDS Accounts, TLC

CONSTANTS e1, e2, n1, n2, w1, w2, r1, r2

TheFounders == << [email |-> e1, name |-> n1, password |-> w1, deleted |-> FALSE] >>

Slots == Permutations(Request)
=============================================================================
