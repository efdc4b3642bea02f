-------------------------- MODULE MCReconcileLoop ---------------------------
(***************************************************************************)
(* Instances of ReconcileLoop: two workers that sweep everything, and a    *)
(* user whose call sweeps the last row only.  The first two rows collect   *)
(* the payments of money requests.                                         *)
(***************************************************************************)
EXTENDS ReconcileLoop

CONSTANTS w1, w2, user

MCRowsOf == [w \in Sweepers |-> IF w = user THEN {N} ELSE Rows]
=============================================================================
