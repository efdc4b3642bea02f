--------------------------- MODULE MoneyRequests ----------------------------
(***************************************************************************)
(* One money request (social_service).  The payer pays it from the wallet  *)
(* or, short of money, has Campay collect from a phone; the payer may      *)
(* decline and the requester cancel while it is PENDING.  A collect is     *)
(* settled by Campay's webhook or a reconciliation worker, in sessions of  *)
(* their own, as in CampaySettlement.  The user's handlers read the        *)
(* request unlocked and commit what follows from the status they saw.      *)
(***************************************************************************)
EXTENDS Integers, FiniteSets

CONSTANTS Payers,      \* calls of pay_request; each names its collect as well
          Closers,     \* calls of decline_request and cancel_request
          Workers, Webhooks, Nobody,
          Overlap,     \* FALSE: the users' calls come one after the other
          Faults       \* what may go wrong in a call or a session

Calls == Payers \cup Closers
Settlers == Workers \cup Webhooks

ASSUME RequestAssumption ==
  /\ Payers \cap Closers = {} /\ Workers \cap Webhooks = {}
  /\ Calls \cap Settlers = {} /\ Nobody \notin Calls \cup Settlers
  /\ Overlap \in BOOLEAN
  /\ Faults \subseteq {"lost_reply", "no_reference", "crash", "error"}

VARIABLES
  status, mode, collectOf,  \* the money_requests row
  history,     \* status of the two placeholder transactions, written together
  collect,     \* status of the collect transaction of each pay_request
  provider,    \* what became of it at Campay
  debits, credits,          \* ledger entries of the placeholders
  rowLock, payLock,         \* of each collect's transactions and campay row
  pc,
  target,      \* the collect a settler works on
  seen         \* the request as the settler has read it

requestVars == <<status, mode, collectOf, history>>
ledgerVars == <<debits, credits>>
lockVars == <<rowLock, payLock>>
settlerVars == <<target, seen>>
vars == <<requestVars, collect, provider, ledgerVars, lockVars, pc, settlerVars>>

Outcomes == {"SUCCESS", "FAILED"}
Closed == {"PAID", "DECLINED", "CANCELLED", "FAILED"}
EntryBound == 2     \* ledger entries of one kind that are told apart
OneMore(n) == IF n < EntryBound THEN n + 1 ELSE n

NotRead == [status |-> "none", credits |-> 0]

Init ==
  /\ status = "none" /\ mode = "none" /\ collectOf = Nobody /\ history = "none"
  /\ collect = [p \in Payers |-> "none"] /\ provider = [p \in Payers |-> "none"]
  /\ debits = 0 /\ credits = 0
  /\ rowLock = [p \in Payers |-> Nobody] /\ payLock = [p \in Payers |-> Nobody]
  /\ pc = [s \in Calls \cup Settlers |-> "idle"]
  /\ target = [s \in Settlers |-> Nobody]
  /\ seen = [s \in Settlers |-> NotRead]

Goto(s, label) == pc' = [pc EXCEPT ![s] = label]

create_request ==
  /\ status = "none"
  /\ status' = "PENDING" /\ history' = "PENDING"
  /\ UNCHANGED <<mode, collectOf, collect, provider, ledgerVars, lockVars, pc, settlerVars>>

-----------------------------------------------------------------------------
(* The users' calls.                                                       *)

Alone(s) == \A t \in Calls \ {s} : pc[t] \in {"idle", "done"}

\* Mutant: a request under way counts as pending.
load_open(s) ==
  /\ pc[s] = "idle" /\ status \in {"PENDING", "PROCESSING"}
  /\ Overlap \/ Alone(s)
  /\ Goto(s, "loaded")
  /\ UNCHANGED <<requestVars, collect, provider, ledgerVars, lockVars, settlerVars>>

\* Mutant: the status is not looked at.
load_any(s) ==
  /\ pc[s] = "idle" /\ status # "none"
  /\ Overlap \/ Alone(s)
  /\ Goto(s, "loaded")
  /\ UNCHANGED <<requestVars, collect, provider, ledgerVars, lockVars, settlerVars>>

\* _load_pending: a plain read.
load_pending(s) ==
  /\ pc[s] = "idle" /\ status = "PENDING"
  /\ Overlap \/ Alone(s)
  /\ Goto(s, "loaded")
  /\ UNCHANGED <<requestVars, collect, provider, ledgerVars, lockVars, settlerVars>>

\* Not the right party, a wrong PIN, a limit, no money and no Campay.
Refuse(s) ==
  /\ pc[s] = "loaded"
  /\ Goto(s, "done")
  /\ UNCHANGED <<requestVars, collect, provider, ledgerVars, lockVars, settlerVars>>

\* The columns a handler's UPDATE writes; a commit ends the call.
Resolve(s, newStatus, newMode, newCollect, newHistory) ==
  /\ status' = newStatus /\ mode' = newMode /\ collectOf' = newCollect
  /\ history' = newHistory
  /\ Goto(s, "done")
  /\ UNCHANGED <<lockVars, settlerVars>>

settle_via_wallet(p) ==
  /\ pc[p] = "loaded"
  /\ Resolve(p, "PAID", "WALLET", collectOf, "SUCCESS")
  /\ debits' = OneMore(debits) /\ credits' = OneMore(credits)
  /\ UNCHANGED <<collect, provider>>

\* decline_request and cancel_request.
close_request(c) ==
  /\ pc[c] = "loaded"
  /\ \E s \in {"DECLINED", "CANCELLED"} : Resolve(c, s, mode, collectOf, "FAILED")
  /\ UNCHANGED <<collect, provider, ledgerVars>>

\* idempotency_keys rows under moneyreq-collect-<id>.
Prior == {p \in Payers : collect[p] # "none"}

\* _initiate_campay_collect up to the provider call: nothing is committed.
StartCollect(p) ==
  /\ pc[p] = "loaded" /\ Prior = {}
  /\ Goto(p, "calling")
  /\ UNCHANGED <<requestVars, collect, provider, ledgerVars, lockVars, settlerVars>>

\* An earlier collect is taken up again (two of them are an error).
ResumeCollect(p) ==
  /\ pc[p] = "loaded" /\ Cardinality(Prior) = 1
  /\ \E q \in Prior : Resolve(p, "PROCESSING", "CAMPAY", q, "PROCESSING")
  /\ UNCHANGED <<collect, provider, ledgerVars>>

\* Campay, outside the repository, takes the payment on and decides it.
ProviderAccepts(p) ==
  /\ pc[p] = "calling" /\ provider[p] = "none"
  /\ provider' = [provider EXCEPT ![p] = "PENDING"]
  /\ UNCHANGED <<requestVars, collect, ledgerVars, lockVars, pc, settlerVars>>

ProviderDecides(p) ==
  /\ provider[p] = "PENDING"
  /\ \E o \in Outcomes : provider' = [provider EXCEPT ![p] = o]
  /\ UNCHANGED <<requestVars, collect, ledgerVars, lockVars, pc, settlerVars>>

\* Mutant: the request takes the status of the transaction.
transaction_status(o) == o

RequestStatus(o) == IF o = "SUCCESS" THEN "PAID" ELSE "FAILED"

\* Mutant: a collect Campay accepted is taken for one it carried out.
ReplyOptimistic(p) == {"PENDING", "SUCCESS", provider[p]}

\* The reply may be older than the provider's present state.
Reply(p) == {"PENDING", provider[p]}

\* The reply leaves the request PROCESSING, or settles it when it is final.
CollectReplied(p) ==
  /\ pc[p] = "calling" /\ provider[p] # "none"
  /\ \E r \in Reply(p) :
       /\ collect' = [collect EXCEPT ![p] = r]
       /\ IF r = "PENDING" THEN Resolve(p, "PROCESSING", "CAMPAY", p, "PROCESSING")
          ELSE Resolve(p, RequestStatus(r), "CAMPAY", p, r)
       /\ credits' = IF r = "SUCCESS" /\ credits = 0 THEN 1 ELSE credits
  /\ UNCHANGED <<provider, debits>>

\* The call raises: refused, or accepted and its reply lost.
CallRaised(p) ==
  /\ pc[p] = "calling"
  /\ provider[p] = "none" \/ "lost_reply" \in Faults
  /\ collect' = [collect EXCEPT ![p] = "FAILED"]
  /\ Resolve(p, "FAILED", "CAMPAY", p, "FAILED")
  /\ UNCHANGED <<provider, ledgerVars>>

\* Campay answers without a reference: the request fails, and its history
\* rows are not touched.
RepliedWithoutReference(p) ==
  /\ "no_reference" \in Faults
  /\ pc[p] = "calling" /\ provider[p] # "none"
  /\ collect' = [collect EXCEPT ![p] = "FAILED"]
  /\ Resolve(p, "FAILED", "CAMPAY", p, history)
  /\ UNCHANGED <<provider, ledgerVars>>

\* The process dies during the call: nothing of it was committed.
CallDies(p) ==
  /\ "crash" \in Faults
  /\ pc[p] = "calling" /\ Goto(p, "done")
  /\ UNCHANGED <<requestVars, collect, provider, ledgerVars, lockVars, settlerVars>>

-----------------------------------------------------------------------------
(* The settlers.                                                           *)

Free(lock, s) == [p \in Payers |-> IF lock[p] = s THEN Nobody ELSE lock[p]]

Close(s) ==
  /\ Goto(s, "idle")
  /\ rowLock' = Free(rowLock, s) /\ payLock' = Free(payLock, s)
  /\ target' = [target EXCEPT ![s] = Nobody]
  /\ seen' = [seen EXCEPT ![s] = NotRead]

\* A callback with a final status finds the collect pending: read unlocked.
WebhookReceived(w) ==
  /\ pc[w] = "idle"
  /\ \E p \in Payers : /\ provider[p] \in Outcomes /\ collect[p] = "PENDING"
                       /\ target' = [target EXCEPT ![w] = p]
  /\ Goto(w, "payload")
  /\ UNCHANGED <<requestVars, collect, provider, ledgerVars, lockVars, seen>>

\* _claim_next, and _claim_txn in the parties' own reconcile call.
claim(w) ==
  /\ pc[w] = "idle"
  /\ \E p \in Payers : /\ collect[p] = "PENDING" /\ rowLock[p] = Nobody
                       /\ rowLock' = [rowLock EXCEPT ![p] = w]
                       /\ target' = [target EXCEPT ![w] = p]
  /\ Goto(w, "inquire")
  /\ UNCHANGED <<requestVars, collect, provider, ledgerVars, payLock, seen>>

Inquire(w) ==
  /\ pc[w] = "inquire"
  /\ IF provider[target[w]] \in Outcomes
     THEN Goto(w, "payload") /\ UNCHANGED <<lockVars, settlerVars>>
     ELSE Close(w)
  /\ UNCHANGED <<requestVars, collect, provider, ledgerVars>>

\* Mutant: the request is read before the payment row is locked.
read_request_unlocked(s) ==
  /\ pc[s] = "payload"
  /\ IF collectOf # target[s] THEN Close(s)
     ELSE /\ seen' = [seen EXCEPT ![s] = [status |-> status, credits |-> credits]]
          /\ Goto(s, "settle") /\ UNCHANGED <<lockVars, target>>
  /\ UNCHANGED <<requestVars, collect, provider, ledgerVars>>

\* apply_status_payload flushes the payment row, and with it takes its lock;
\* then the request is looked up by its collect: none linked is an error.
read_request(s) ==
  /\ pc[s] = "payload" /\ payLock[target[s]] = Nobody
  /\ IF collectOf # target[s] THEN Close(s)
     ELSE /\ payLock' = [payLock EXCEPT ![target[s]] = s]
          /\ seen' = [seen EXCEPT ![s] = [status |-> status, credits |-> credits]]
          /\ Goto(s, "settle") /\ UNCHANGED <<rowLock, target>>
  /\ UNCHANGED <<requestVars, collect, provider, ledgerVars>>

\* settle_money_request_campay_success and _failed: a closed request is left
\* as it is, whether the function returns early or raises REQUEST_NOT_PENDING.
SettleReturns(s) ==
  /\ pc[s] = "settle" /\ seen[s].status \in Closed
  /\ Close(s)
  /\ UNCHANGED <<requestVars, collect, provider, ledgerVars>>

SettleCommits(s) ==
  LET p == target[s]
      o == provider[p]
  IN  /\ pc[s] = "settle" /\ seen[s].status \in {"PENDING", "PROCESSING"}
      /\ rowLock[p] \in {Nobody, s}
      /\ collect' = [collect EXCEPT ![p] = o]
      /\ status' = RequestStatus(o)
      /\ mode' = "CAMPAY" /\ history' = o
      /\ credits' = IF o = "SUCCESS" /\ seen[s].credits = 0 THEN OneMore(credits) ELSE credits
      /\ Close(s)
      /\ UNCHANGED <<collectOf, provider, debits>>

\* A worker that holds the transaction waits for the payment row, whose
\* holder waits for the transaction: the database aborts one of them.
DeadlockVictim(s) ==
  /\ \E t \in Settlers \ {s} :
       /\ target[t] = target[s] /\ target[s] # Nobody
       /\ {pc[s], pc[t]} = {"payload", "settle"}
       /\ {rowLock[target[s]], payLock[target[s]]} = {s, t}
  /\ Close(s)
  /\ UNCHANGED <<requestVars, collect, provider, ledgerVars>>

\* An error, a lost connection or a crash between two statements.
Rollback(s) ==
  /\ "error" \in Faults /\ pc[s] # "idle"
  /\ Close(s)
  /\ UNCHANGED <<requestVars, collect, provider, ledgerVars>>

PayerStep(p) == settle_via_wallet(p) \/ StartCollect(p) \/ ResumeCollect(p)
                \/ CollectReplied(p) \/ RepliedWithoutReference(p) \/ CallRaised(p)
                \/ CallDies(p)

Next ==
  \/ create_request
  \/ \E s \in Calls : load_pending(s) \/ Refuse(s)
  \/ \E p \in Payers : PayerStep(p) \/ ProviderAccepts(p) \/ ProviderDecides(p)
  \/ \E c \in Closers : close_request(c)
  \/ \E w \in Webhooks : WebhookReceived(w)
  \/ \E w \in Workers : claim(w) \/ Inquire(w)
  \/ \E s \in Settlers : read_request(s) \/ SettleReturns(s) \/ SettleCommits(s)
                         \/ DeadlockVictim(s) \/ Rollback(s)

Spec == Init /\ [][Next]_vars

(***************************************************************************)
(* Fairness: a call to Campay returns, the workers come round, and a       *)
(* settler's statements get their locks and do not fail every time they    *)
(* are tried.  No user acts and no callback comes by obligation, nor does  *)
(* Campay have to decide.                                                  *)
(***************************************************************************)
Fairness ==
  /\ \A p \in Payers : WF_vars(CollectReplied(p) \/ CallRaised(p))
  /\ \A w \in Workers : SF_vars(claim(w)) /\ SF_vars(Inquire(w))
  /\ \A s \in Settlers : /\ SF_vars(read_request(s)) /\ SF_vars(SettleReturns(s))
                         /\ SF_vars(SettleCommits(s)) /\ WF_vars(DeadlockVictim(s))

FairSpec == Spec /\ Fairness

-----------------------------------------------------------------------------
Statuses == {"none", "PENDING", "PROCESSING"} \cup Closed

\* The rows, locks and sessions keep to their values.
TypeOK ==
  /\ status \in Statuses /\ mode \in {"none", "WALLET", "CAMPAY"}
  /\ collectOf \in Payers \cup {Nobody}
  /\ history \in {"none", "PENDING", "PROCESSING"} \cup Outcomes
  /\ collect \in [Payers -> {"none", "PENDING"} \cup Outcomes]
  /\ provider \in [Payers -> {"none", "PENDING"} \cup Outcomes]
  /\ debits \in 0..EntryBound /\ credits \in 0..EntryBound
  /\ rowLock \in [Payers -> Settlers \cup {Nobody}]
  /\ payLock \in [Payers -> Settlers \cup {Nobody}]
  /\ pc \in [Calls \cup Settlers ->
              {"idle", "loaded", "calling", "done", "inquire", "payload", "settle"}]
  /\ target \in [Settlers -> Payers \cup {Nobody}]
  /\ seen \in [Settlers -> [status : Statuses, credits : 0..EntryBound]]

\* The requester is credited once, exactly when the request is PAID, and the
\* payer's wallet is debited exactly when it was paid from there.
PaidBooksAgree ==
  /\ credits = IF status = "PAID" THEN 1 ELSE 0
  /\ debits = IF status = "PAID" /\ mode = "WALLET" THEN 1 ELSE 0

\* A request reported PAID has been paid for and credited, whatever calls and
\* settlers overlapped and whatever failed.
PaidIsFunded ==
  status = "PAID" => /\ credits > 0
                     /\ debits > 0 \/ \E p \in Payers : provider[p] = "SUCCESS"

\* The payer is asked for the money once: from the wallet or by one collect
\* that Campay has accepted and not refused.
ChargedOnce ==
  debits + Cardinality({p \in Payers : provider[p] \in {"PENDING", "SUCCESS"}}) <= 1

\* Both parties' history rows tell what became of the request.
HistoryFollows ==
  history = CASE status = "PAID" -> "SUCCESS"
              [] status \in {"DECLINED", "CANCELLED", "FAILED"} -> "FAILED"
              [] OTHER -> status

\* Books, histories and provider agree with the request at every moment.
RequestIsAccounted == PaidBooksAgree /\ ChargedOnce /\ HistoryFollows

\* A request that is paid, declined, cancelled or failed stays so.
ClosedIsFinal == [][(status \in Closed) => (status' = status)]_vars

\* "On Campay SUCCESS -> credit P-A, mark request PAID": no collect that is
\* followed up stays uncredited, although no callback is guaranteed.
CollectedIsCredited ==
  \A p \in Payers : (collect[p] = "PENDING" /\ provider[p] = "SUCCESS")
                      ~> (status = "PAID" /\ credits > 0)
=============================================================================
