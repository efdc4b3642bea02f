-------------------------- MODULE MCWalletSessions --------------------------
(***************************************************************************)
(* Small instances of WalletSessions and WalletBank.  Fees are not zero    *)
(* and not all equal, so that leaving one out is visible.                  *)
(***************************************************************************)
EXTENDS WalletBank, TLC

CONSTANTS u1, u2, u3, s1, s2, k1

MCFee == [op \in Ops |-> CASE op = "ADD_MONEY"  -> 1
                           [] op = "SEND_MONEY" -> 1
                           [] op = "WITHDRAW"   -> 2]

UserSessionSymmetry == Permutations({u1, u2, u3}) \cup Permutations({s1, s2})
=============================================================================
