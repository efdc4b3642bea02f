---------------------------- MODULE AtomicPayment ----------------------------
(***************************************************************************)
(* What a payment through Campay promises its user: Campay decides once,   *)
(* FinPay reports that decision and no other, once, and in the same step   *)
(* books what the decision brings - the deposit that arrived, or the money *)
(* of a withdrawal that did not.  There are no callbacks, workers, forced  *)
(* settlements, copies or locks here.                                      *)
(***************************************************************************)
CONSTANTS Kinds         \* "ADD_MONEY", "WITHDRAW"

VARIABLES kind,
          decision,     \* Campay's: "none" until it accepts the payment
          report,       \* FinPay's: "none" until the payment is recorded
          booked        \* the wallet was given what the decision brings

paymentVars == <<kind, decision, report, booked>>

Outcomes == {"SUCCESS", "FAILED"}

\* What the user is given money for.
Brings(o) == o = IF kind = "ADD_MONEY" THEN "SUCCESS" ELSE "FAILED"

\* Campay accepts a payment FinPay has not reported yet, and decides later.
Accept ==
  /\ decision = "none" /\ report = "none" /\ decision' = "PENDING"
  /\ UNCHANGED <<kind, report, booked>>

Decide ==
  /\ decision = "PENDING" /\ report # "FAILED" /\ decision' \in Outcomes
  /\ UNCHANGED <<kind, report, booked>>

\* An accepted payment is recorded before its outcome is known.
Record ==
  /\ report = "none" /\ decision # "none" /\ report' = "PENDING"
  /\ UNCHANGED <<kind, decision, booked>>

\* The outcome and its money, in one step; what was not accepted has failed.
Report(o) ==
  /\ report \in {"none", "PENDING"} /\ report' = o
  /\ \/ decision = o
     \/ decision = "none" /\ report = "none" /\ o = "FAILED"
  /\ booked' = Brings(o)
  /\ UNCHANGED <<kind, decision>>

PaymentInit ==
  kind \in Kinds /\ decision = "none" /\ report = "none" /\ booked = FALSE
PaymentNext == Accept \/ Decide \/ Record \/ \E o \in Outcomes : Report(o)
PaymentSpec == PaymentInit /\ [][PaymentNext]_paymentVars
=============================================================================
