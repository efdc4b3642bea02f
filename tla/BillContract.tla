---------------------------- MODULE BillContract -----------------------------
(***************************************************************************)
(* The requests, timers and workers of BillPayments against the atomic     *)
(* bill.  The mapping reads the transactions and their ledger entries.     *)
(***************************************************************************)
EXTENDS BillPayments

\* Both open statuses are a bill whose charge is held.
BillState == [t \in Txns |-> IF status[t] \in {"PENDING", "PROCESSING"} THEN "held" ELSE status[t]]
NetPaid == [t \in Txns |-> debits[t] - refunds[t]]

Declines(k) == Answer[k] \in {"declined", "unknown_declined"}

Bill == INSTANCE AtomicBill WITH Bills <- Txns, bill <- BillState, paid <- NetPaid

\* However timers, workers and restarts meet, a bill takes the outcome its
\* meter's provider gives, once, in one step with its money.
ImplementsBill == Bill!BillSpec
=============================================================================
