---------------------------- MODULE BillPayments ----------------------------
(***************************************************************************)
(* Bill payments (billing_service).  A top-up is decided while its request *)
(* runs.  A validated payment holds the charge and commits; its outcome    *)
(* comes from a timer of the web process, or, when the provider's answer   *)
(* is unknown, from the reconciliation workers.  The timers live in memory *)
(* and die with the process; the database survives.                        *)
(***************************************************************************)
EXTENDS Integers

CONSTANTS Tokens,      \* validation tokens of the user, unexpired
          Answer,      \* what the provider will say of each token's meter
          Txns,        \* ids a transaction may take
          Clients, Workers, Nobody,
          Crashes      \* TRUE: processes may be restarted, and requests, threads and workers may raise

Answers == {"success", "declined", "unknown", "unknown_declined"}
Unknowns == {"unknown", "unknown_declined"}     \* meters ...5555 and ...4444
NoToken == "no token"

ASSUME BillAssumption ==
  /\ Answer \in [Tokens -> Answers]
  /\ NoToken \notin Tokens
  /\ Nobody \notin Workers \cup Txns
  /\ {"idle", "loaded"} \cap Txns = {}
  /\ Crashes \in BOOLEAN

VARIABLES
  consumed,    \* electricity_meter_validations.consumed
  status, recon, token,   \* transactions and bill_payment_transactions rows
  debits, refunds,        \* ledger entries of each transaction
  counted,     \* debits counted against the user's limit grant
  rowLock,     \* holder of the transactions row
  pc, held,    \* client sessions, and the token each has loaded
  timer,       \* threading.Timer of each transaction
  claimed      \* the row each worker works on

txnVars == <<status, recon, token, debits, refunds, counted>>
clientVars == <<pc, held>>
vars == <<consumed, txnVars, rowLock, clientVars, timer, claimed>>

Terminal == {"SUCCESS", "FAILED"}

Init ==
  /\ consumed = [k \in Tokens |-> FALSE]
  /\ status = [t \in Txns |-> "none"] /\ recon = [t \in Txns |-> FALSE]
  /\ token = [t \in Txns |-> NoToken]
  /\ debits = [t \in Txns |-> 0] /\ refunds = [t \in Txns |-> 0]
  /\ counted = [t \in Txns |-> 0]
  /\ rowLock = [t \in Txns |-> Nobody]
  /\ pc = [c \in Clients |-> "idle"] /\ held = [c \in Clients |-> NoToken]
  /\ timer = [t \in Txns |-> "off"]
  /\ claimed = [w \in Workers |-> Nobody]

-----------------------------------------------------------------------------
(* The requests.                                                           *)

\* confirm_electricity up to its checks: the token is read unlocked.
LoadValidation(c) ==
  /\ pc[c] = "idle"
  /\ \E k \in Tokens :
       /\ ~consumed[k]
       /\ held' = [held EXCEPT ![c] = k]
  /\ pc' = [pc EXCEPT ![c] = "loaded"]
  /\ UNCHANGED <<consumed, txnVars, rowLock, timer, claimed>>

\* The balance or a limit is short, or the request fails: nothing is written.
Refuse(c) ==
  /\ pc[c] = "loaded"
  /\ pc' = [pc EXCEPT ![c] = "idle"] /\ held' = [held EXCEPT ![c] = NoToken]
  /\ UNCHANGED <<consumed, txnVars, rowLock, timer, claimed>>

\* Its commit: token spent, charge held, and the transaction either handed
\* to the workers or left to the timer that is started next.
confirm_electricity(c) ==
  /\ pc[c] = "loaded"
  /\ \E t \in Txns :
       LET k == held[c]
           unknown == Answer[k] \in Unknowns
       IN  /\ status[t] = "none"
           /\ consumed' = [consumed EXCEPT ![k] = TRUE]
           /\ status' = [status EXCEPT ![t] = IF unknown THEN "PENDING" ELSE "PROCESSING"]
           /\ recon' = [recon EXCEPT ![t] = unknown]
           /\ token' = [token EXCEPT ![t] = k]
           /\ debits' = [debits EXCEPT ![t] = 1]
           /\ IF unknown
              THEN pc' = [pc EXCEPT ![c] = "idle"] /\ held' = [held EXCEPT ![c] = NoToken]
              ELSE pc' = [pc EXCEPT ![c] = t] /\ UNCHANGED held
  /\ UNCHANGED <<refunds, counted, rowLock, timer, claimed>>

\* _schedule_provider_completion, after the commit.
ScheduleCompletion(c) ==
  /\ pc[c] \in Txns
  /\ timer' = [timer EXCEPT ![pc[c]] = "armed"]
  /\ pc' = [pc EXCEPT ![c] = "idle"] /\ held' = [held EXCEPT ![c] = NoToken]
  /\ UNCHANGED <<consumed, txnVars, rowLock, claimed>>

\* The response is read back, the sockets are told and the thread is started
\* after the commit: an error on the way leaves the row with no timer.
ScheduleRaises(c) ==
  /\ Crashes /\ pc[c] \in Txns
  /\ pc' = [pc EXCEPT ![c] = "idle"] /\ held' = [held EXCEPT ![c] = NoToken]
  /\ UNCHANGED <<consumed, txnVars, rowLock, timer, claimed>>

\* confirm_topup: debited with its success, or declined before any debit.
confirm_topup(c) ==
  /\ pc[c] = "idle"
  /\ \E t \in Txns, outcome \in Terminal :
       LET paid == IF outcome = "SUCCESS" THEN 1 ELSE 0
       IN  /\ status[t] = "none"
           /\ status' = [status EXCEPT ![t] = outcome]
           /\ debits' = [debits EXCEPT ![t] = paid]
           /\ counted' = [counted EXCEPT ![t] = paid]
  /\ UNCHANGED <<consumed, recon, token, refunds, rowLock, clientVars, timer, claimed>>

-----------------------------------------------------------------------------
(* The timer's thread, with a session of its own.                          *)

\* Mutant: the thread takes a bill that is held for one that is done.
fire_pending(t) ==
  /\ timer[t] = "armed"
  /\ timer' = [timer EXCEPT ![t] = IF status[t] = "PENDING" THEN "running" ELSE "off"]
  /\ UNCHANGED <<consumed, txnVars, rowLock, clientVars, claimed>>

\* It reads the transaction, and leaves it alone unless it is PROCESSING.
Fire(t) ==
  /\ timer[t] = "armed"
  /\ timer' = [timer EXCEPT ![t] = IF status[t] = "PROCESSING" THEN "running" ELSE "off"]
  /\ UNCHANGED <<consumed, txnVars, rowLock, clientVars, claimed>>

\* Mutant: a decline forgets the money that is held.
fail_without_refund(t) ==
  /\ status' = [status EXCEPT ![t] = "FAILED"]
  /\ UNCHANGED refunds

\* _fail and _settle_failed give back what is held.
fail(t) ==
  /\ status' = [status EXCEPT ![t] = "FAILED"]
  /\ refunds' = [refunds EXCEPT ![t] = @ + debits[t]]

\* The held charge becomes the payment; it is debited only if missing.
succeed(t) ==
  /\ status' = [status EXCEPT ![t] = "SUCCESS"]
  /\ debits' = [debits EXCEPT ![t] = 1]

\* _complete_provider_operation up to its commit.
CompleteProviderOperation(t) ==
  /\ timer[t] = "running" /\ rowLock[t] = Nobody
  /\ IF Answer[token[t]] = "declined"
     THEN fail(t) /\ UNCHANGED <<debits, counted>>
     ELSE /\ succeed(t) /\ UNCHANGED refunds
          /\ counted' = [counted EXCEPT ![t] = @ + 1]
  /\ timer' = [timer EXCEPT ![t] = "off"]
  /\ UNCHANGED <<consumed, recon, token, rowLock, clientVars, claimed>>

\* Its except clause logs and rolls back; nothing starts it again.
CompletionRaises(t) ==
  /\ Crashes /\ timer[t] = "running"
  /\ timer' = [timer EXCEPT ![t] = "off"]
  /\ UNCHANGED <<consumed, txnVars, rowLock, clientVars, claimed>>

-----------------------------------------------------------------------------
(* The reconciliation workers.                                             *)

\* Mutant: every transaction under way is claimed, not those flagged.
claim_unflagged(w, t) ==
  /\ status[t] \in {"PENDING", "PROCESSING"}
  /\ rowLock[t] = Nobody
  /\ rowLock' = [rowLock EXCEPT ![t] = w]

\* Mutant: PENDING is left out of the filter.
claim_processing(w, t) ==
  /\ recon[t] /\ status[t] = "PROCESSING"
  /\ rowLock[t] = Nobody
  /\ rowLock' = [rowLock EXCEPT ![t] = w]

\* _claim_next: flagged rows only, FOR UPDATE NOWAIT.
claim(w, t) ==
  /\ recon[t] /\ status[t] \in {"PENDING", "PROCESSING"}
  /\ rowLock[t] = Nobody
  /\ rowLock' = [rowLock EXCEPT ![t] = w]

ClaimNext(w) ==
  /\ claimed[w] = Nobody
  /\ \E t \in Txns : claim(w, t) /\ claimed' = [claimed EXCEPT ![w] = t]
  /\ UNCHANGED <<consumed, txnVars, clientVars, timer>>

Release(w) ==
  /\ rowLock' = [rowLock EXCEPT ![claimed[w]] = Nobody]
  /\ claimed' = [claimed EXCEPT ![w] = Nobody]

\* _reconcile_one with the mock inquiry: _settle_success or _settle_failed.
\* Neither counts the debit against a grant.
Reconcile(w) ==
  /\ claimed[w] # Nobody
  /\ LET t == claimed[w]
     IN  /\ IF Answer[token[t]] = "unknown_declined"
            THEN fail(t) /\ UNCHANGED debits
            ELSE succeed(t) /\ UNCHANGED refunds
         /\ recon' = [recon EXCEPT ![t] = FALSE]
  /\ Release(w)
  /\ UNCHANGED <<consumed, token, counted, clientVars, timer>>

\* The worker rolls back and leaves the row for another cycle.
ReconcileRaises(w) ==
  /\ Crashes /\ claimed[w] # Nobody
  /\ Release(w)
  /\ UNCHANGED <<consumed, txnVars, clientVars, timer>>

\* The web process restarts: requests, timers and its workers are gone.
Crash ==
  /\ Crashes
  /\ pc' = [c \in Clients |-> "idle"] /\ held' = [c \in Clients |-> NoToken]
  /\ timer' = [t \in Txns |-> "off"]
  /\ claimed' = [w \in Workers |-> Nobody] /\ rowLock' = [t \in Txns |-> Nobody]
  /\ UNCHANGED <<consumed, txnVars>>

Next ==
  \/ \E c \in Clients : LoadValidation(c) \/ Refuse(c) \/ confirm_electricity(c)
                        \/ ScheduleCompletion(c) \/ ScheduleRaises(c) \/ confirm_topup(c)
  \/ \E t \in Txns : Fire(t) \/ CompleteProviderOperation(t) \/ CompletionRaises(t)
  \/ \E w \in Workers : ClaimNext(w) \/ Reconcile(w) \/ ReconcileRaises(w)
  \/ Crash

Spec == Init /\ [][Next]_vars

(***************************************************************************)
(* Fairness: a request past its commit arms its timer unless it raises; an *)
(* armed timer fires and its thread runs; the worker comes round every few *)
(* seconds, to every flagged row, and does not fail on it for ever.  No    *)
(* request, error or restart is owed.                                      *)
(***************************************************************************)
Fairness ==
  /\ \A c \in Clients : WF_vars(ScheduleCompletion(c))
  /\ \A t \in Txns : WF_vars(Fire(t)) /\ WF_vars(CompleteProviderOperation(t))
  /\ \A w \in Workers : SF_vars(Reconcile(w))
  /\ \A t \in Txns : SF_vars(\E w \in Workers : ClaimNext(w) /\ claimed'[w] = t)

FairSpec == Spec /\ Fairness

-----------------------------------------------------------------------------
\* Rows, sessions and timers keep to their values.
TypeOK ==
  /\ consumed \in [Tokens -> BOOLEAN]
  /\ status \in [Txns -> {"none", "PENDING", "PROCESSING"} \cup Terminal]
  /\ recon \in [Txns -> BOOLEAN] /\ token \in [Txns -> Tokens \cup {NoToken}]
  /\ debits \in [Txns -> 0..1] /\ refunds \in [Txns -> 0..1] /\ counted \in [Txns -> 0..1]
  /\ rowLock \in [Txns -> Workers \cup {Nobody}]
  /\ pc \in [Clients -> {"idle", "loaded"} \cup Txns]
  /\ held \in [Clients -> Tokens \cup {NoToken}]
  /\ timer \in [Txns -> {"off", "armed", "running"}]
  /\ claimed \in [Workers -> Txns \cup {Nobody}]

\* The user pays for every bill that has not failed, once: timer, workers and
\* restarts between the hold and the outcome never charge or refund twice.
ChargedUnlessFailed ==
  \A t \in Txns : status[t] # "none" =>
    debits[t] - refunds[t] = IF status[t] = "FAILED" THEN 0 ELSE 1

\* An outcome stands: a late timer or a second worker does not change it.
OutcomeStands ==
  [][\A t \in Txns : (status[t] \in Terminal) => (status'[t] = status[t])]_vars

\* A bill whose charge is held with no request and no timer to end it: the
\* workers pass it over, since it is not flagged.
Lost(t) ==
  status[t] = "PROCESSING" /\ timer[t] = "off" /\ \A c \in Clients : pc[c] # t

\* What loses a bill that is being processed: a restart, an error in the thread
\* of its timer, or one in its own request between the commit and the timer.
LosesTimer(t) ==
  Crash \/ CompletionRaises(t) \/ \E c \in Clients : pc[c] = t /\ ScheduleRaises(c)

\* Nothing else does: no order of requests, timers and workers leaves a held
\* charge with nobody to end it.
HeldIsWatched ==
  [][\A t \in Txns : (~Lost(t) /\ Lost(t)') => LosesTimer(t)]_vars

\* Every bill gets its outcome: one whose outcome is unknown whatever crashes,
\* one that is being processed unless it was lost so.
BillsAreResolved ==
  \A t \in Txns : /\ (status[t] = "PENDING") ~> (status[t] \in Terminal)
                  /\ (status[t] = "PROCESSING") ~> (status[t] \in Terminal \/ Lost(t))
=============================================================================
