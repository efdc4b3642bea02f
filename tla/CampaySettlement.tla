-------------------------- MODULE CampaySettlement --------------------------
(***************************************************************************)
(* One mobile-money payment from the request to its settlement.  The       *)
(* handler add_money or withdraw calls Campay in the middle of its         *)
(* database transaction.  Afterwards everybody may learn the outcome and   *)
(* settle: Campay's webhook, the reconciliation workers (in process, in    *)
(* Celery, and the user's own reconcile call) and an administrator.  Each  *)
(* runs in a database session of its own.                                  *)
(*                                                                         *)
(* Only a worker locks the transaction row when it reads it.  The others   *)
(* read it unlocked and go on with the status they saw.  All of them write *)
(* the campay_payments row first, which holds its lock until their commit. *)
(***************************************************************************)
EXTENDS Integers

CONSTANTS Workers, Webhooks, Admins,   \* the sessions, by who runs them
          Nobody,
          Kinds,          \* which of ADD_MONEY and WITHDRAW to start from
          Faults,         \* what may go wrong in a call, a process or a session
          SnapshotReads   \* TRUE: REPEATABLE READ (MySQL); FALSE: READ COMMITTED

Settlers == Workers \cup Webhooks \cup Admins
Terminal == {"SUCCESS", "FAILED"}
Mapped == {"PENDING"} \cup Terminal    \* map_campay_status

ASSUME CampayAssumption ==
  /\ Kinds \subseteq {"ADD_MONEY", "WITHDRAW"}
  /\ Faults \subseteq {"lost_reply", "no_reference", "crash", "error"}
  /\ SnapshotReads \in BOOLEAN
  /\ Nobody \notin Settlers
  /\ Workers \cap (Webhooks \cup Admins) = {} /\ Webhooks \cap Admins = {}

VARIABLES
  \* Campay
  provider,     \* what became of the payment: "none" until accepted
  inFlight,     \* the request is under way
  \* the initiating handler and its transactions row
  kind, handler,
  status,       \* transactions.status; "none" while there is no row
  recon,        \* transactions.pending_reconciliation
  hasRef,       \* transactions.provider_reference is set
  \* the campay_payments row
  payment,      \* [mapped, stamps, notified]; mapped = "none": no row
  \* ledger_entries rows of the transaction
  debits, credits,
  \* row locks and sessions
  txnLock, payLock,
  pc,
  seen,         \* the transaction as the session's identity map has it, and
                \* whether an administrator forces it ("reconcile")
  out,          \* the outcome the session was told
  was,          \* the payment row as the session read it
  old,          \* ledger credits in the session's snapshot
  post          \* the ledger entry the session has flushed

txnVars == <<kind, handler, status, recon, hasRef>>
ledgerVars == <<debits, credits>>
providerVars == <<provider, inFlight>>
lockVars == <<txnLock, payLock>>
sessionVars == <<pc, seen, out, was, old, post>>
vars == <<providerVars, txnVars, payment, ledgerVars, lockVars, sessionVars>>

\* finalized_at is a time; what matters here is how often it was written.
StampBound == 2
CreditBound == 2
Capped(n, bound) == IF n < bound THEN n + 1 ELSE n

NoPayment == [mapped |-> "none", stamps |-> 0, notified |-> FALSE]
NoTxn == [status |-> "none", ref |-> FALSE, forced |-> FALSE]

Init ==
  /\ provider = "none" /\ inFlight = TRUE
  /\ kind \in Kinds /\ handler = "calling"
  /\ status = "none" /\ recon = FALSE /\ hasRef = FALSE
  /\ payment = NoPayment
  /\ debits = 0 /\ credits = 0
  /\ txnLock = Nobody /\ payLock = Nobody
  /\ pc = [s \in Settlers |-> "idle"]
  /\ seen = [s \in Settlers |-> NoTxn]
  /\ out = [s \in Settlers |-> "PENDING"]
  /\ was = [s \in Settlers |-> NoPayment]
  /\ old = [s \in Settlers |-> 0]
  /\ post = [s \in Settlers |-> "none"]

-----------------------------------------------------------------------------
(***************************************************************************)
(* Campay, outside the repository: it may accept or refuse the request,    *)
(* decides once, and calls back as often and as late as it likes.          *)
(***************************************************************************)
ProviderAccepts ==
  /\ inFlight /\ inFlight' = FALSE /\ provider' = "PENDING"
  /\ UNCHANGED <<txnVars, payment, ledgerVars, lockVars, sessionVars>>

ProviderRefuses ==
  /\ inFlight /\ inFlight' = FALSE
  /\ UNCHANGED <<provider, txnVars, payment, ledgerVars, lockVars, sessionVars>>

ProviderDecides ==
  /\ provider = "PENDING" /\ provider' \in Terminal
  /\ UNCHANGED <<inFlight, txnVars, payment, ledgerVars, lockVars, sessionVars>>

\* A status Campay has reported so far: what the reply, or a callback that
\* is late, repeated or overtaken, may say.
Reply == {"PENDING", provider} \cap Mapped

-----------------------------------------------------------------------------
(***************************************************************************)
(* apply_status_payload on a payment row p, by a session that has read it: *)
(* the UPDATE carries the columns that differ from the copy read, and the  *)
(* time stamp when that copy was not final.                                *)
(***************************************************************************)
WasFinal(p) == p.mapped \in Terminal /\ p.stamps > 0

apply_payload(read, p, o) ==
  [p EXCEPT !.mapped = IF read.mapped = o THEN @ ELSE o,
            !.stamps = IF o \in Terminal /\ ~WasFinal(read)
                       THEN Capped(@, StampBound) ELSE @]

Notified(p) == IF p.mapped \in Terminal THEN [p EXCEPT !.notified = TRUE] ELSE p

(***************************************************************************)
(* The initiating handler.  Its transaction row, its debit and the         *)
(* payment row appear together, at its commit after the provider call.     *)
(***************************************************************************)
\* record_initiate looks the row up in the handler's own view of the database.
RowVisible == SnapshotReads => payment.mapped = "none"

\* What commits: the new status, and how many credits with it.
Commits(newStatus, flag, newCredits) ==
  /\ status' = newStatus /\ recon' = flag
  /\ debits' = IF kind = "WITHDRAW" THEN 1 ELSE 0
  /\ credits' = newCredits
  /\ handler' = "done"
  /\ UNCHANGED <<providerVars, kind, lockVars, sessionVars>>

\* Mutant: a pending transaction is not flagged for reconciliation.
OutcomeUnflagged(newStatus, newCredits) == Commits(newStatus, FALSE, newCredits)

Outcome(newStatus, newCredits) ==
  Commits(newStatus, newStatus = "PENDING", newCredits)

\* A deposit waits for its confirmation whatever the reply says.
CollectReplied ==
  /\ handler = "calling" /\ kind = "ADD_MONEY" /\ provider # "none"
  /\ payLock = Nobody /\ RowVisible
  /\ \E r \in Reply :
       /\ payment' = apply_payload(payment, payment, r)
       /\ hasRef' = TRUE
       /\ Outcome("PENDING", 0)

\* A withdrawal is settled at once when the reply is final.
WithdrawReplied ==
  /\ handler = "calling" /\ kind = "WITHDRAW" /\ provider # "none"
  /\ payLock = Nobody /\ RowVisible
  /\ \E r \in Reply :
       /\ payment' = Notified(apply_payload(payment, payment, r))
       /\ hasRef' = TRUE
       /\ Outcome(r, IF r = "FAILED" THEN 1 ELSE 0)

\* Without a reference a deposit fails; a withdrawal follows the status.
RepliedWithoutReference ==
  /\ "no_reference" \in Faults
  /\ handler = "calling" /\ provider # "none"
  /\ \E r \in Reply :
       IF kind = "ADD_MONEY" THEN Outcome("FAILED", 0)
       ELSE Outcome(r, IF r = "FAILED" THEN 1 ELSE 0)
  /\ UNCHANGED <<payment, hasRef>>

\* Mutant: the failed withdrawal keeps the debit.
call_raised_unrefunded ==
  /\ handler = "calling"
  /\ "lost_reply" \in Faults \/ (~inFlight /\ provider = "none")
  /\ Outcome("FAILED", 0)
  /\ UNCHANGED <<payment, hasRef>>

\* except Exception: refused, unreachable, or timed out - all of them fail
\* the transaction, and a withdrawal is refunded.
CallRaised ==
  /\ handler = "calling"
  /\ "lost_reply" \in Faults \/ (~inFlight /\ provider = "none")
  /\ Outcome("FAILED", IF kind = "WITHDRAW" THEN 1 ELSE 0)
  /\ UNCHANGED <<payment, hasRef>>

\* The process dies, or a callback has inserted the payment row unseen: the
\* handler's transaction rolls back and nothing of it remains.
HandlerDies ==
  /\ handler = "calling"
  /\ \/ "crash" \in Faults
     \/ provider # "none" /\ (payment.mapped # "none" => ~RowVisible)
        /\ (payLock # Nobody \/ payment.mapped # "none")
  /\ handler' = "done"
  /\ UNCHANGED <<providerVars, kind, status, recon, hasRef, payment, ledgerVars,
                 lockVars, sessionVars>>

-----------------------------------------------------------------------------
Goto(s, label) == pc' = [pc EXCEPT ![s] = label]

Unlocked(lock, s) == IF lock = s THEN Nobody ELSE lock

\* The session ends, by commit or rollback, and its locks with it.
Close(s) ==
  /\ Goto(s, "idle")
  /\ txnLock' = Unlocked(txnLock, s) /\ payLock' = Unlocked(payLock, s)
  /\ seen' = [seen EXCEPT ![s] = NoTxn]
  /\ out' = [out EXCEPT ![s] = "PENDING"]
  /\ was' = [was EXCEPT ![s] = NoPayment]
  /\ old' = [old EXCEPT ![s] = 0]
  /\ post' = [post EXCEPT ![s] = "none"]

\* The session's snapshot begins with its first plain SELECT.
TakeSnapshot(s) ==
  /\ was' = [was EXCEPT ![s] = payment]
  /\ old' = [old EXCEPT ![s] = IF SnapshotReads THEN credits ELSE 0]

\* The session reads the transactions row and keeps what it read.  The
\* worker's SELECT ... FOR UPDATE reads the row itself, and no snapshot.
ReadTxn(s, forced) ==
  /\ seen' = [seen EXCEPT ![s] = [status |-> status, ref |-> hasRef, forced |-> forced]]
  /\ IF SnapshotReads /\ s \notin Workers THEN TakeSnapshot(s)
     ELSE UNCHANGED <<was, old>>

\* campay_webhook: the callback's outcome, the transaction unlocked.
WebhookReceived(w) ==
  /\ pc[w] = "idle" /\ provider # "none"
  /\ \E o \in Reply : out' = [out EXCEPT ![w] = o]
  /\ ReadTxn(w, FALSE) /\ Goto(w, "read")
  /\ UNCHANGED <<providerVars, txnVars, payment, ledgerVars, lockVars, post>>

Claimable == recon /\ status = "PENDING"

\* _claim_next and _claim_txn: FOR UPDATE NOWAIT.
claim(r) ==
  /\ pc[r] = "idle"
  /\ Claimable /\ txnLock = Nobody
  /\ txnLock' = r
  /\ ReadTxn(r, FALSE) /\ Goto(r, "inquire")
  /\ UNCHANGED <<providerVars, txnVars, payment, ledgerVars, payLock, out, post>>

\* verify-provider, and reconcile which forces the outcome on the row: both
\* load it unlocked, in any status.
AdminLoads(a) ==
  /\ pc[a] = "idle"
  /\ status # "none" /\ hasRef
  /\ \E forced \in BOOLEAN : ReadTxn(a, forced)
  /\ Goto(a, "inquire")
  /\ UNCHANGED <<providerVars, txnVars, payment, ledgerVars, lockVars, out, post>>

\* Mutant: an inquiry that fails is taken for a payment that failed.
inquire_failure(s) ==
  /\ pc[s] = "inquire" /\ seen[s].ref
  /\ \E o \in {provider, "FAILED"} : out' = [out EXCEPT ![s] = o]
  /\ Goto(s, "read")
  /\ UNCHANGED <<providerVars, txnVars, payment, ledgerVars, lockVars, seen, was, old, post>>

\* get_transaction answers; "reconcile" refuses a payment still pending.
Inquire(s) ==
  /\ pc[s] = "inquire" /\ seen[s].ref
  /\ seen[s].forced => provider \in Terminal
  /\ out' = [out EXCEPT ![s] = provider]
  /\ Goto(s, "read")
  /\ UNCHANGED <<providerVars, txnVars, payment, ledgerVars, lockVars, seen, was, old, post>>

\* The inquiry fails: the worker commits its attempt, the request ends.
InquiryFails(s) ==
  /\ pc[s] = "inquire" /\ seen[s].ref
  /\ Close(s)
  /\ UNCHANGED <<providerVars, txnVars, payment, ledgerVars>>

\* A row without a Campay reference is taken for a bill, whose mock inquiry
\* answers SUCCESS: _settle_success keeps the debit it finds.
SettledAsBill(r) ==
  /\ pc[r] = "inquire" /\ ~seen[r].ref
  /\ status' = "SUCCESS" /\ recon' = FALSE
  /\ Close(r)
  /\ UNCHANGED <<providerVars, kind, handler, hasRef, payment, ledgerVars>>

\* get_by_reference: the payment row enters the identity map.
ReadPayment(s) ==
  /\ pc[s] = "read"
  /\ IF SnapshotReads /\ s \notin Workers THEN UNCHANGED <<was, old>>
     ELSE TakeSnapshot(s)
  /\ Goto(s, "payload")
  /\ UNCHANGED <<providerVars, txnVars, payment, ledgerVars, lockVars, seen, out, post>>

\* A first row of the same reference was inserted meanwhile: unique violation.
InsertCollides(s) == was[s].mapped = "none" /\ payment.mapped # "none"

\* The UPDATE of the transaction: its reference when it has none yet, and a
\* failure reason or a description when the payload brings one.
WritesTxn(s) == IF seen[s].status = "none" THEN {FALSE}
                ELSE IF seen[s].ref THEN BOOLEAN ELSE {TRUE}

\* apply_status_payload flushes: it takes the payment row's lock, and the
\* transaction's when it updates that row too.
FlushPayload(s) ==
  /\ pc[s] = "payload" /\ payLock = Nobody
  /\ IF InsertCollides(s) THEN Close(s)
     ELSE /\ payLock' = s
          /\ \E writes \in WritesTxn(s) :
               /\ writes => txnLock \in {Nobody, s}
               /\ txnLock' = IF writes THEN s ELSE txnLock
          /\ Goto(s, "decide")
          /\ UNCHANGED <<seen, out, was, old, post>>
  /\ UNCHANGED <<providerVars, txnVars, payment, ledgerVars>>

\* Mutant: an outcome still pending is settled as well.
settles_pending(s) == s \notin Workers => seen[s].status = "PENDING"

\* Whether the session goes on to settle: the webhook and "verify" only when
\* the status they have read is not terminal.
Settles(s) ==
  /\ out[s] \in Terminal
  /\ s \notin Workers => (seen[s].status = "PENDING" \/ seen[s].forced)

\* Nothing to settle: the payload is committed, and the webhook notifies.
KeepPayload(s) ==
  /\ pc[s] = "decide" /\ ~Settles(s)
  /\ LET p == apply_payload(was[s], payment, out[s])
     IN  payment' = IF s \in Webhooks /\ seen[s].status # "PENDING"
                    THEN Notified(p) ELSE p
  /\ hasRef' = (hasRef \/ seen[s].status # "none")
  /\ Close(s)
  /\ UNCHANGED <<providerVars, kind, handler, status, recon, ledgerVars>>

\* Ledger credits a query of this session sees.
CreditsSeen(s) == IF SnapshotReads THEN old[s] ELSE credits

\* Mutant: the deposit is credited without looking for an earlier credit.
entry_unchecked(s) ==
  IF kind = "ADD_MONEY" /\ out[s] = "SUCCESS" /\ seen[s].status = "PENDING" THEN "CREDIT"
  ELSE IF kind = "WITHDRAW" /\ out[s] = "FAILED" /\ seen[s].status = "PENDING"
          /\ debits > 0 THEN "CREDIT"
  ELSE "none"

\* The entry the settlement posts: a deposit's credit unless there is one
\* already, a failed withdrawal's refund when it had been debited.
entry(s) ==
  IF kind = "ADD_MONEY" /\ out[s] = "SUCCESS" /\ seen[s].status = "PENDING"
     /\ CreditsSeen(s) = 0 THEN "CREDIT"
  ELSE IF kind = "WITHDRAW" /\ out[s] = "FAILED" /\ seen[s].status = "PENDING"
          /\ debits > 0 THEN "CREDIT"
  ELSE "none"

\* settle_campay_deposit_success raises INVALID_STATUS on a failed deposit.
Refused(s) == kind = "ADD_MONEY" /\ out[s] = "SUCCESS" /\ seen[s].status = "FAILED"

\* The settle functions up to their flush.
FlushEntry(s) ==
  /\ pc[s] = "decide" /\ Settles(s)
  /\ IF Refused(s) THEN Close(s)
     ELSE /\ post' = [post EXCEPT ![s] = entry(s)]
          /\ Goto(s, "settle")
          /\ UNCHANGED <<lockVars, seen, out, was, old>>
  /\ UNCHANGED <<providerVars, txnVars, payment, ledgerVars>>

\* A settle function returns early on a status that is already its outcome;
\* only a withdrawal's success also overrides FAILED.
Applies(s) == \/ seen[s].status = "PENDING"
              \/ kind = "WITHDRAW" /\ out[s] = "SUCCESS" /\ seen[s].status = "FAILED"

\* The commit: it waits for the transactions row.
CommitSettlement(s) ==
  /\ pc[s] = "settle" /\ txnLock \in {Nobody, s}
  /\ status' = IF Applies(s) THEN out[s] ELSE status
  /\ recon' = IF Applies(s) THEN FALSE ELSE recon
  /\ hasRef' = TRUE
  /\ credits' = IF post[s] = "CREDIT" THEN Capped(credits, CreditBound) ELSE credits
  /\ payment' = apply_payload(was[s], payment, out[s])
  /\ txnLock' = Unlocked(txnLock, s) /\ payLock' = Unlocked(payLock, s)
  /\ post' = [post EXCEPT ![s] = "none"]
  /\ Goto(s, "notify")
  /\ UNCHANGED <<providerVars, kind, handler, debits, seen, out, was, old>>

\* notify_parties in a transaction of its own, on the row as it is now.
notify_parties(s) ==
  /\ pc[s] = "notify" /\ payLock = Nobody
  /\ payment' = Notified(payment)
  /\ Close(s)
  /\ UNCHANGED <<providerVars, txnVars, ledgerVars>>

\* An error, a lost connection or a crash between two statements.
Rollback(s) ==
  /\ "error" \in Faults /\ pc[s] # "idle"
  /\ Close(s)
  /\ UNCHANGED <<providerVars, txnVars, payment, ledgerVars>>

\* "verify" swallows an error of the settlement: it rolls back, reads again
\* and keeps the payload only.
SettleErrs(a) ==
  /\ a \in Admins /\ ~seen[a].forced /\ pc[a] = "settle"
  /\ seen' = [seen EXCEPT ![a].status = "kept"]
  /\ post' = [post EXCEPT ![a] = "none"]
  /\ txnLock' = Unlocked(txnLock, a) /\ payLock' = Unlocked(payLock, a)
  /\ TakeSnapshot(a) /\ Goto(a, "payload")
  /\ UNCHANGED <<providerVars, txnVars, payment, ledgerVars, out>>

WantsTxn(s) == pc[s] = "settle" \/ (pc[s] = "payload" /\ TRUE \in WritesTxn(s))

\* One session holds the transaction and waits for the payment, the other
\* the reverse: the database aborts one of the two.
DeadlockVictim(s) ==
  /\ \E t \in Settlers \ {s} :
       \/ WantsTxn(s) /\ txnLock = t /\ pc[t] = "payload" /\ payLock = s
       \/ WantsTxn(t) /\ txnLock = s /\ pc[s] = "payload" /\ payLock = t
  /\ Close(s)
  /\ UNCHANGED <<providerVars, txnVars, payment, ledgerVars>>

Handler == CollectReplied \/ WithdrawReplied \/ RepliedWithoutReference
           \/ CallRaised \/ HandlerDies
Provider == ProviderAccepts \/ ProviderRefuses \/ ProviderDecides
Settle(s) == FlushPayload(s) \/ KeepPayload(s) \/ FlushEntry(s)
             \/ CommitSettlement(s) \/ notify_parties(s)
Start(s) == \/ s \in Webhooks /\ WebhookReceived(s)
            \/ s \in Workers  /\ claim(s)
            \/ s \in Admins   /\ AdminLoads(s)

Next == \/ Provider \/ Handler
        \/ \E s \in Settlers :
             \/ Start(s) \/ Inquire(s) \/ InquiryFails(s)
             \/ s \in Workers /\ SettledAsBill(s)
             \/ ReadPayment(s) \/ Settle(s) \/ SettleErrs(s)
             \/ Rollback(s) \/ DeadlockVictim(s)

Spec == Init /\ [][Next]_vars

(***************************************************************************)
(* Fairness: the provider answers and decides; the handler's HTTP client   *)
(* has a timeout; the worker runs every few seconds and its inquiries are  *)
(* answered sometimes; the other sessions end one way or another, and a    *)
(* statement that waits for a lock gets it.  No callback, administrator or *)
(* crash is owed.                                                          *)
(***************************************************************************)
Fairness ==
  /\ WF_vars(ProviderAccepts \/ ProviderRefuses) /\ WF_vars(ProviderDecides)
  /\ WF_vars(CollectReplied \/ WithdrawReplied \/ RepliedWithoutReference \/ CallRaised)
  /\ \A r \in Workers :
       /\ SF_vars(claim(r)) /\ SF_vars(Inquire(r)) /\ SF_vars(FlushPayload(r))
       /\ WF_vars(SettledAsBill(r))
  /\ \A s \in Settlers :
       /\ WF_vars(InquiryFails(s)) /\ WF_vars(ReadPayment(s))
       /\ WF_vars(KeepPayload(s) \/ FlushEntry(s))
       /\ SF_vars(CommitSettlement(s)) /\ WF_vars(notify_parties(s))
       /\ WF_vars(DeadlockVictim(s))

FairSpec == Spec /\ Fairness

-----------------------------------------------------------------------------
Labels == {"idle", "inquire", "read", "payload", "decide", "settle", "notify"}

\* The columns and the sessions' copies keep to their values, and the capped
\* counters to their bounds.
TypeOK ==
  /\ provider \in {"none"} \cup Mapped /\ inFlight \in BOOLEAN
  /\ kind \in Kinds /\ handler \in {"calling", "done"}
  /\ status \in {"none"} \cup Mapped /\ recon \in BOOLEAN /\ hasRef \in BOOLEAN
  /\ payment \in [mapped : {"none"} \cup Mapped, stamps : 0..StampBound, notified : BOOLEAN]
  /\ debits \in 0..1 /\ credits \in 0..CreditBound
  /\ txnLock \in Settlers \cup {Nobody} /\ payLock \in Settlers \cup {Nobody}
  /\ pc \in [Settlers -> Labels]
  /\ seen \in [Settlers -> [status : {"none", "kept"} \cup Mapped, ref : BOOLEAN,
                          forced : BOOLEAN]]
  /\ out \in [Settlers -> Mapped]
  /\ was \in [Settlers -> [mapped : {"none"} \cup Mapped, stamps : 0..StampBound,
                         notified : BOOLEAN]]
  /\ old \in [Settlers -> 0..CreditBound]
  /\ post \in [Settlers -> {"none", "CREDIT"}]

\* A deposit is credited once, together with its success, however many
\* callbacks, workers and administrators settle it (wallet_service.py:188).
DepositBooksAgree ==
  kind = "ADD_MONEY" =>
    /\ debits = 0
    /\ credits = IF status = "SUCCESS" THEN 1 ELSE 0

\* A withdrawal holds its debit, and gives it back once, exactly when it fails
\* (settle_campay_withdraw_failed: "Refund held debit").
WithdrawBooksAgree ==
  kind = "WITHDRAW" /\ status # "none" =>
    /\ debits = 1
    /\ credits = IF status = "FAILED" THEN 1 ELSE 0

\* A withdrawal is given back exactly when it fails, whoever settles it and
\* however often: no money is kept for one that failed, none returned for one
\* that is pending or paid out.
RefundedIffFailed ==
  kind = "WITHDRAW" /\ status # "none" =>
    /\ debits = 1
    /\ (credits > 0) <=> (status = "FAILED")

\* What FinPay reports as done Campay has confirmed.
SuccessIsConfirmed == status = "SUCCESS" => provider = "SUCCESS"

\* What FinPay reports as failed, and gives back, Campay has not paid out.
FailedIsRefused == status = "FAILED" => provider # "SUCCESS"

\* The outcome of a transaction is the one Campay reached.
OutcomeIsCampays == SuccessIsConfirmed /\ FailedIsRefused

\* A settled transaction keeps its outcome, whatever late callback, second
\* worker or administrator settles it again.
TerminalIsFinal == [][(status \in Terminal) => (status' = status)]_vars

\* A transaction left pending takes the outcome Campay decides, with no
\* callback at all: the workers find it by the reference Campay gave.
PendingIsSettled ==
  (status = "PENDING" /\ hasRef) ~> (status \in Terminal /\ status = provider)
=============================================================================
