--------------------------- MODULE MCBillPayments ---------------------------
(***************************************************************************)
(* Instances of BillPayments: one meter of each kind.                      *)
(***************************************************************************)
EXTENDS BillContract, TLC

CONSTANTS k1, k2, k3, k4, t1, t2, t3, c1, c2, w1, w2

MeterOf == (k1 :> "success") @@ (k2 :> "declined") @@ (k3 :> "unknown")
           @@ (k4 :> "unknown_declined")
MCAnswer == [k \in Tokens |-> MeterOf[k]]

SessionSymmetry == Permutations({c1, c2}) \cup Permutations({w1, w2})
                   \cup Permutations({t1, t2, t3})
=============================================================================
