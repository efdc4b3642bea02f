---------------------------- MODULE CampayPayment ----------------------------
(***************************************************************************)
(* The settlers of CampaySettlement against the atomic payment.  The       *)
(* mapping reads Campay's decision and the committed rows only.            *)
(***************************************************************************)
EXTENDS CampaySettlement

\* A transaction was given its money when it has a credit in the ledger,
\* however many (see WithdrawBooksAgree).
Payment == INSTANCE AtomicPayment
             WITH decision <- provider, report <- status, booked <- credits > 0

\* Handler, webhook, workers and administrators together behave as the atomic
\* payment does: of all their flushes and commits one is its report, which
\* stands, and the others are stutters.
ImplementsPayment == Payment!PaymentSpec
=============================================================================
