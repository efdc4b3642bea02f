-------------------------- MODULE RequestContract ---------------------------
(***************************************************************************)
(* The calls, callbacks and workers of MoneyRequests against the atomic    *)
(* request: its row, Campay's side of the collects and the ledger entries. *)
(***************************************************************************)
EXTENDS MoneyRequests

\* Demands whose call has ended and that the request does not wait for.
Forgotten == {p \in Payers : provider[p] # "none" /\ pc[p] = "done" /\ collectOf # p}

Request == INSTANCE AtomicRequest WITH
             Forgetful <- "crash" \in Faults,
             request <- status, demand <- provider, forgotten <- Forgotten,
             charged <- debits, credited <- credits

\* While the parties call one after the other, whatever settles beside them
\* and whatever fails, a request is answered once: from the wallet, by turning
\* it down or by one collect, and is PAID in the step that credits it.
ImplementsRequest == Request!RequestSpec
=============================================================================
