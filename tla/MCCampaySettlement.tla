------------------------- MODULE MCCampaySettlement -------------------------
(***************************************************************************)
(* Instances of CampaySettlement: which sessions may meet on one payment.  *)
(***************************************************************************)
EXTENDS CampayPayment, TLC

CONSTANTS r1, r2, w1, a1

\* Two workers are the same up to their names.
WorkerSymmetry == Permutations({r1, r2})
=============================================================================
