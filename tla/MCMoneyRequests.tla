-------------------------- MODULE MCMoneyRequests ---------------------------
(***************************************************************************)
(* Instances of MoneyRequests: two calls to pay and one to close.          *)
(***************************************************************************)
EXTENDS RequestContract, TLC

CONSTANTS p1, p2, c1, r1, r2, w1, w2

CallSymmetry == Permutations({p1, p2}) \cup Permutations({r1, r2})
                \cup Permutations({w1, w2})
=============================================================================
