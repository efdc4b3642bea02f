---------------------- MODULE CampaySettlement_proofs ----------------------
(***************************************************************************)
(* Proofs about CampaySettlement, for any number of workers, webhooks and  *)
(* administrators.  A deposit is credited once, with every fault, provided *)
(* the database reads what is committed.  At either isolation level, and   *)
(* for the faults named in each theorem, the outcome FinPay reports is the *)
(* one Campay reached, stands, and decides whether a withdrawal is         *)
(* refunded.                                                               *)
(***************************************************************************)
EXTENDS CampayPayment, TLAPS

\* A final outcome a session carries is the provider's, and no other is
\* settled.
OutcomesAreFinal ==
  /\ inFlight => provider = "none"
  /\ \A s \in Settlers : /\ out[s] \in Terminal => out[s] = provider
                         /\ pc[s] = "settle" => out[s] \in Terminal

\* Nobody learns of a payment, or its reference, before Campay accepted it.
AcceptedFirst ==
  /\ hasRef => provider # "none"
  /\ \A s \in Settlers :
       pc[s] \notin {"idle", "inquire"} \/ seen[s].ref => provider # "none"

\* A session that writes holds the payment row from its flush to its commit.
WritesUnderLock ==
  \A s \in Settlers : pc[s] \in {"decide", "settle"} => payLock = s

\* Whoever has read a transaction came after the handler's commit.
ReadersComeLater ==
  /\ handler = "calling" => status = "none" /\ credits = 0 /\ debits = 0
  /\ \A s \in Settlers :
       seen[s].status \in Mapped \/ pc[s] = "inquire" => handler = "done"
  /\ \A s \in Settlers : post[s] = "CREDIT" =>
       pc[s] = "settle" /\ seen[s].status = "PENDING"

\* From its claim to its commit a worker holds the transaction, which stays
\* pending.
WorkersHold ==
  \A r \in Workers : pc[r] \notin {"idle", "notify"} =>
    txnLock = r /\ status = "PENDING" /\ seen[r].status = "PENDING"

\* Deposits never wait without a reference, and no payment does when Campay's
\* replies bring one.
Referenced == kind = "ADD_MONEY" \/ "no_reference" \notin Faults

\* The mock inquiry of bills then settles nothing: a success is Campay's.
HasReference ==
  Referenced =>
    /\ status = "PENDING" => hasRef
    /\ status = "SUCCESS" => provider = "SUCCESS"
    /\ \A s \in Settlers : pc[s] = "inquire" => seen[s].ref

\* Campay has not taken the payment, or not carried it out.
NotPaid == provider = "FAILED" \/ (provider = "none" /\ ~inFlight)

\* A call that raises, or answers without a reference, fails the transaction
\* whatever Campay does; when neither happens Campay has not paid.
FailedByCampay ==
  "lost_reply" \notin Faults /\ (kind = "WITHDRAW" \/ "no_reference" \notin Faults) =>
    /\ status = "FAILED" => NotPaid
    /\ \A s \in Settlers : seen[s].status = "FAILED" => NotPaid

\* A deposit's credit is flushed while there is none, with the success, and
\* a session about to settle one it saw pending posts the missing credit.
CreditIsMissing ==
  ~SnapshotReads /\ kind = "ADD_MONEY" =>
    \A s \in Settlers :
      /\ post[s] = "CREDIT" =>
           credits = 0 /\ out[s] = "SUCCESS"
      /\ pc[s] = "settle" /\ seen[s].status = "PENDING" /\ out[s] = "SUCCESS" =>
           (post[s] = "CREDIT" <=> credits = 0)

DepositBooks == ~SnapshotReads => DepositBooksAgree

IInv == /\ TypeOK /\ OutcomesAreFinal /\ AcceptedFirst /\ WritesUnderLock /\ WorkersHold
        /\ ReadersComeLater /\ HasReference /\ FailedByCampay
        /\ CreditIsMissing /\ DepositBooks

-----------------------------------------------------------------------------
\* The rows typed by TypeOK.
Payments == [mapped : {"none"} \cup Mapped, stamps : 0..StampBound, notified : BOOLEAN]
Copies == [status : {"none", "kept"} \cup Mapped, ref : BOOLEAN, forced : BOOLEAN]

\* Applying a payload to a payment row gives a payment row.
LEMMA PayloadTyped ==
  ASSUME NEW read \in Payments, NEW p \in Payments, NEW o \in Mapped
  PROVE  /\ apply_payload(read, p, o) \in Payments
         /\ Notified(p) \in Payments
         /\ Notified(apply_payload(read, p, o)) \in Payments
<1>1. Capped(p.stamps, StampBound) \in 0..StampBound
  BY DEF Payments, Capped, StampBound
<1>2. apply_payload(read, p, o) \in Payments
  BY <1>1 DEF apply_payload, Payments
<1>3. \A q \in Payments : Notified(q) \in Payments
  BY DEF Notified, Payments
<1> QED BY <1>2, <1>3

\* The initial state satisfies the inductive invariant.
LEMMA InitIInv == Init => IInv
<1> SUFFICES ASSUME Init PROVE IInv OBVIOUS
<1>1. TypeOK
  <2>1. inFlight \in BOOLEAN /\ recon \in BOOLEAN /\ hasRef \in BOOLEAN
    BY Zenon DEF Init
  <2>2. NoPayment \in Payments /\ NoTxn \in Copies
    BY DEF NoPayment, NoTxn, Payments, Copies, StampBound
  <2> QED BY <2>1, <2>2 DEF Init, TypeOK, Payments, Copies, Labels, Mapped, Terminal,
                           StampBound, CreditBound
<1>2. OutcomesAreFinal /\ AcceptedFirst /\ WritesUnderLock /\ ReadersComeLater
  BY DEF Init, OutcomesAreFinal, AcceptedFirst, WritesUnderLock, ReadersComeLater, NoTxn, Mapped, Terminal
<1>3. HasReference /\ CreditIsMissing /\ DepositBooks
  BY DEF Init, HasReference, CreditIsMissing, DepositBooks, DepositBooksAgree
<1>4. WorkersHold /\ FailedByCampay
  BY DEF Init, WorkersHold, FailedByCampay, Settlers, NoTxn
<1> QED BY <1>1, <1>2, <1>3, <1>4 DEF IInv

\* What the provider does leaves FinPay's side alone.
LEMMA ProviderIInv ==
  ASSUME IInv, Provider
  PROVE  IInv'
<1> USE DEF IInv, txnVars, ledgerVars, providerVars, lockVars, sessionVars
<1>1. TypeOK'
  <2>1. inFlight' \in BOOLEAN
    <3>1. inFlight' = FALSE \/ inFlight' = inFlight
      BY DEF Provider, ProviderAccepts, ProviderRefuses, ProviderDecides
    <3>2. inFlight = TRUE \/ inFlight = FALSE
      BY DEF TypeOK
    <3> QED BY <3>1, <3>2
  <2>2. provider' \in {"none"} \cup Mapped
    BY DEF Provider, ProviderAccepts, ProviderRefuses, ProviderDecides, TypeOK, Mapped, Terminal
  <2>3. UNCHANGED <<txnVars, payment, ledgerVars, lockVars, sessionVars>>
    BY DEF Provider, ProviderAccepts, ProviderRefuses, ProviderDecides
  <2> QED BY <2>1, <2>2, <2>3 DEF TypeOK
<1>2. OutcomesAreFinal' /\ AcceptedFirst' /\ HasReference'
  BY DEF Provider, ProviderAccepts, ProviderRefuses, ProviderDecides, TypeOK, Mapped, Terminal, OutcomesAreFinal,
         AcceptedFirst, HasReference, Referenced
<1>3. WritesUnderLock' /\ ReadersComeLater' /\ CreditIsMissing' /\ DepositBooks'
  BY DEF Provider, ProviderAccepts, ProviderRefuses, ProviderDecides, WritesUnderLock, ReadersComeLater, CreditIsMissing,
         DepositBooks, DepositBooksAgree
<1>4. NotPaid => NotPaid'
  BY DEF Provider, ProviderAccepts, ProviderRefuses, ProviderDecides, NotPaid, OutcomesAreFinal
<1>5. FailedByCampay' /\ WorkersHold'
  BY <1>4 DEF Provider, ProviderAccepts, ProviderRefuses, ProviderDecides, FailedByCampay, WorkersHold
<1> QED BY <1>1, <1>2, <1>3, <1>5

\* The handler's commit, whichever way the provider call went.
LEMMA HandlerIInv ==
  ASSUME IInv, Handler
  PROVE  IInv'
<1> USE DEF IInv
<1>1. /\ UNCHANGED <<providerVars, kind, lockVars, sessionVars>>
      /\ handler = "calling" /\ handler' = "done"
      /\ payment' \in Payments /\ hasRef' \in BOOLEAN
      /\ hasRef' => hasRef \/ provider # "none"
      /\ status' \in {"none"} \cup Mapped /\ recon' \in BOOLEAN
      /\ debits' \in 0..1 /\ credits' \in 0..CreditBound
      /\ kind = "ADD_MONEY" => debits' = 0 /\ credits' = 0 /\ status' # "SUCCESS"
      /\ status' = "SUCCESS" => provider = "SUCCESS"
      /\ Referenced => (status' = "PENDING" => hasRef')
      /\ "lost_reply" \notin Faults /\ (kind = "WITHDRAW" \/ "no_reference" \notin Faults) =>
           (status' = "FAILED" => NotPaid)
  <2>1. CASE CollectReplied
    BY <2>1, PayloadTyped, CampayAssumption
       DEF CollectReplied, Reply, Outcome, Commits, TypeOK, Payments, Mapped, Terminal, CreditBound
  <2>2. CASE WithdrawReplied
    BY <2>2, PayloadTyped
       DEF WithdrawReplied, Reply, Outcome, Commits, TypeOK, Payments, Mapped, Terminal,
           CreditBound, NotPaid
  <2>3. CASE RepliedWithoutReference
    <3>1. PICK r \in Reply : IF kind = "ADD_MONEY" THEN Outcome("FAILED", 0)
                             ELSE Outcome(r, IF r = "FAILED" THEN 1 ELSE 0)
      BY <2>3 DEF RepliedWithoutReference
    <3>2. /\ r \in Mapped /\ payment' \in Payments /\ hasRef' \in BOOLEAN /\ handler = "calling"
          /\ provider # "none" /\ hasRef' = hasRef /\ "no_reference" \in Faults
          /\ r = "PENDING" \/ r = provider
      BY <2>3 DEF RepliedWithoutReference, Reply, TypeOK, Payments
    <3>3. CASE kind = "ADD_MONEY"
      BY <3>1, <3>2, <3>3 DEF Outcome, Commits, Mapped, Terminal, CreditBound
    <3>4. CASE kind # "ADD_MONEY"
      BY <3>1, <3>2, <3>4 DEF Outcome, Commits, Mapped, Terminal, CreditBound, Referenced, NotPaid
    <3> QED BY <3>3, <3>4
  <2>4. CASE CallRaised
    BY <2>4 DEF CallRaised, Outcome, Commits, TypeOK, Payments, Mapped, Terminal, CreditBound,
                NotPaid
  <2>5. CASE HandlerDies
    BY <2>5 DEF HandlerDies, TypeOK, Payments, ReadersComeLater, ledgerVars
  <2> QED BY <2>1, <2>2, <2>3, <2>4, <2>5 DEF Handler
<1>2. TypeOK'
  BY <1>1 DEF TypeOK, Payments, providerVars, lockVars, sessionVars
<1>3. OutcomesAreFinal' /\ AcceptedFirst' /\ WritesUnderLock'
  BY <1>1 DEF OutcomesAreFinal, AcceptedFirst, WritesUnderLock, providerVars, lockVars, sessionVars
<1>4. ReadersComeLater' /\ HasReference' /\ DepositBooks'
  BY <1>1 DEF ReadersComeLater, HasReference, Referenced, DepositBooks, DepositBooksAgree,
              providerVars, sessionVars
<1>5. CreditIsMissing'
  BY <1>1 DEF CreditIsMissing, ReadersComeLater, sessionVars
<1>6. WorkersHold' /\ FailedByCampay'
  BY <1>1 DEF WorkersHold, FailedByCampay, NotPaid, ReadersComeLater, providerVars, sessionVars
<1> QED BY <1>2, <1>3, <1>4, <1>5, <1>6

\* A session that ends disturbs nobody else, whatever it leaves in the
\* payment row; a bill settlement in its last step concerns a transaction
\* without a reference that its session holds.
LEMMA CloseIInv ==
  ASSUME IInv, NEW s \in Settlers, Close(s),
         UNCHANGED <<providerVars, kind, handler, ledgerVars>>,
         payment' \in Payments, hasRef' \in BOOLEAN, recon' \in BOOLEAN,
         hasRef => hasRef', hasRef' => hasRef \/ provider # "none",
         \/ status' = status
         \/ ~Referenced /\ txnLock = s /\ handler = "done" /\ status' = "SUCCESS"
  PROVE  IInv'
<1> USE DEF IInv
<1>1. TypeOK'
  <2>1. /\ pc' \in [Settlers -> Labels] /\ seen' \in [Settlers -> Copies]
        /\ out' \in [Settlers -> Mapped] /\ was' \in [Settlers -> Payments]
        /\ old' \in [Settlers -> 0..CreditBound] /\ post' \in [Settlers -> {"none", "CREDIT"}]
    BY DEF Close, Goto, TypeOK, Labels, Copies, Payments, NoTxn, NoPayment, Mapped, CreditBound,
           StampBound
  <2>2. /\ txnLock' \in Settlers \cup {Nobody} /\ payLock' \in Settlers \cup {Nobody}
    BY DEF Close, Unlocked, TypeOK
  <2>3. status' \in {"none"} \cup Mapped
    BY DEF TypeOK, Mapped, Terminal
  <2> QED BY <2>1, <2>2, <2>3 DEF TypeOK, Payments, Copies, providerVars, ledgerVars
<1>2. OutcomesAreFinal' /\ AcceptedFirst'
  BY DEF Close, Goto, OutcomesAreFinal, AcceptedFirst, TypeOK, Terminal, NoTxn, providerVars
<1>3. WritesUnderLock' /\ ReadersComeLater'
  BY DEF Close, Goto, Unlocked, WritesUnderLock, ReadersComeLater, Mapped, Terminal, TypeOK, NoTxn, ledgerVars
<1>4. HasReference' /\ DepositBooks'
  BY DEF Close, Goto, HasReference, Referenced, DepositBooks, DepositBooksAgree, TypeOK,
         providerVars, ledgerVars
<1>5. CreditIsMissing'
  BY DEF Close, Goto, CreditIsMissing, TypeOK, NoTxn, ledgerVars
<1>6. WorkersHold'
  <2> SUFFICES ASSUME NEW r \in Workers, pc'[r] \notin {"idle", "notify"}
               PROVE  (txnLock = r /\ status = "PENDING" /\ seen[r].status = "PENDING")'
    BY DEF WorkersHold
  <2>1. r \in Settlers /\ r # s /\ pc'[r] = pc[r] /\ seen'[r] = seen[r]
    BY DEF Close, Goto, TypeOK, Settlers
  <2>2. txnLock = r /\ status = "PENDING" /\ seen[r].status = "PENDING"
    BY <2>1 DEF WorkersHold
  <2> QED BY <2>1, <2>2 DEF Close, Unlocked
<1>7. FailedByCampay'
  BY DEF Close, FailedByCampay, NotPaid, TypeOK, NoTxn, providerVars
<1> QED BY <1>1, <1>2, <1>3, <1>4, <1>5, <1>6, <1>7

\* What a session knows after it has read, inquired or taken a lock.
LEMMA ReadSteps ==
  ASSUME IInv, NEW s \in Settlers,
         Start(s) \/ Inquire(s) \/ ReadPayment(s) \/ SettleErrs(s)
  PROVE  /\ UNCHANGED <<providerVars, txnVars, payment, ledgerVars>>
         /\ pc' = [pc EXCEPT ![s] = pc'[s]] /\ pc'[s] \in {"inquire", "read", "payload"}
         /\ seen' = [seen EXCEPT ![s] = seen'[s]] /\ seen'[s] \in Copies
         /\ out' = [out EXCEPT ![s] = out'[s]] /\ out'[s] \in Mapped
         /\ out'[s] \in Terminal => out'[s] = provider
         /\ post' = [post EXCEPT ![s] = post'[s]] /\ post'[s] = "none"
         /\ seen'[s].status \in Mapped \/ pc'[s] = "inquire" => handler = "done"
         /\ pc'[s] = "inquire" /\ Referenced => seen'[s].ref
         /\ seen'[s].status \in {status, seen[s].status, "kept"}
         /\ seen'[s].forced => s \in Admins \/ seen[s].forced
         /\ pc'[s] # "inquire" \/ seen'[s].ref => provider # "none"
<1> USE DEF IInv
<1> DEFINE Seen(f) == [status |-> status, ref |-> hasRef, forced |-> f]
<1>1. \A f \in BOOLEAN : /\ Seen(f) \in Copies /\ Seen(f).status = status
                         /\ Seen(f).ref = hasRef /\ Seen(f).forced = f
  BY DEF TypeOK, Copies
<1>2. CASE WebhookReceived(s)
  BY <1>2, <1>1 DEF WebhookReceived, Reply, ReadTxn, TakeSnapshot, Goto, TypeOK, Copies, Mapped, Terminal,
         OutcomesAreFinal, AcceptedFirst, ReadersComeLater
<1>3. CASE claim(s)
  BY <1>3, <1>1 DEF claim, Claimable, ReadTxn, TakeSnapshot, Goto, TypeOK, Copies, Mapped, Terminal,
         OutcomesAreFinal, AcceptedFirst, ReadersComeLater, HasReference
<1>4. CASE s \in Admins /\ AdminLoads(s)
  <2>1. PICK f \in BOOLEAN :
        /\ UNCHANGED <<providerVars, txnVars, payment, ledgerVars, out, post>>
        /\ pc' = [pc EXCEPT ![s] = "inquire"] /\ pc[s] = "idle"
        /\ seen' = [seen EXCEPT ![s] = Seen(f)] /\ Seen(f).ref /\ status # "none"
    BY <1>4, <1>1 DEF AdminLoads, ReadTxn, Goto
  <2>2. handler = "done" /\ post[s] = "none"
    BY <2>1 DEF ReadersComeLater, TypeOK
  <2> QED BY <1>4, <2>1, <2>2, <1>1 DEF TypeOK, OutcomesAreFinal, AcceptedFirst, Copies
<1>5. CASE Inquire(s)
  BY <1>5 DEF Inquire, Goto, TypeOK, Copies, Mapped, Terminal,
         OutcomesAreFinal, AcceptedFirst, ReadersComeLater
<1>6. CASE ReadPayment(s)
  BY <1>6 DEF ReadPayment, TakeSnapshot, Goto, TypeOK, Copies, Mapped, Terminal,
         OutcomesAreFinal, AcceptedFirst, ReadersComeLater
<1>7. CASE SettleErrs(s)
  <2> DEFINE kept == [seen[s] EXCEPT !.status = "kept"]
  <2>1. /\ UNCHANGED <<providerVars, txnVars, payment, ledgerVars, out>>
        /\ pc' = [pc EXCEPT ![s] = "payload"] /\ pc[s] = "settle"
        /\ seen' = [seen EXCEPT ![s] = kept]
        /\ post' = [post EXCEPT ![s] = "none"]
    BY <1>7 DEF SettleErrs, Goto
  <2>2. /\ seen[s] \in Copies /\ kept \in Copies /\ kept.status = "kept"
        /\ kept.ref = seen[s].ref /\ kept.forced = seen[s].forced
    <3>1. seen[s] \in Copies
      BY DEF TypeOK, Copies
    <3> QED BY <3>1 DEF Copies
  <2> HIDE DEF kept
  <2>3. seen'[s] = kept /\ pc'[s] = "payload" /\ post'[s] = "none" /\ out'[s] = out[s]
    BY <2>1 DEF TypeOK
  <2>4. out[s] \in Mapped /\ (out[s] \in Terminal => out[s] = provider)
    BY DEF TypeOK, OutcomesAreFinal
  <2>5. provider # "none"
    BY <2>1 DEF TypeOK, AcceptedFirst, ReadersComeLater
  <2>6. out' = out /\ out' = [out EXCEPT ![s] = out'[s]]
    BY <2>1 DEF TypeOK
  <2>7. kept.status \notin Mapped
    BY <2>2 DEF Mapped, Terminal
  <2> QED BY <2>1, <2>2, <2>3, <2>4, <2>5, <2>6, <2>7
<1> QED BY <1>2, <1>3, <1>4, <1>5, <1>6, <1>7 DEF Start

\* A session that reads, inquires or takes a lock writes nothing yet.
LEMMA ReadIInv ==
  ASSUME IInv, NEW s \in Settlers,
         Start(s) \/ Inquire(s) \/ ReadPayment(s) \/ SettleErrs(s)
  PROVE  IInv'
<1> USE DEF IInv
<1>1. /\ UNCHANGED <<providerVars, txnVars, payment, ledgerVars>>
      /\ pc' = [pc EXCEPT ![s] = pc'[s]] /\ pc'[s] \in {"inquire", "read", "payload"}
      /\ seen' = [seen EXCEPT ![s] = seen'[s]] /\ seen'[s] \in Copies
      /\ out' = [out EXCEPT ![s] = out'[s]] /\ out'[s] \in Mapped
      /\ out'[s] \in Terminal => out'[s] = provider
      /\ post' = [post EXCEPT ![s] = post'[s]] /\ post'[s] = "none"
      /\ seen'[s].status \in Mapped \/ pc'[s] = "inquire" => handler = "done"
      /\ pc'[s] = "inquire" /\ Referenced => seen'[s].ref
      /\ seen'[s].status \in {status, seen[s].status, "kept"}
      /\ pc'[s] # "inquire" \/ seen'[s].ref => provider # "none"
  BY ReadSteps
<1>2. was' \in [Settlers -> Payments] /\ old' \in [Settlers -> 0..CreditBound]
  <2>1. TakeSnapshot(s) \/ UNCHANGED <<was, old>>
    <3>1. ASSUME NEW f \in BOOLEAN, ReadTxn(s, f)
          PROVE  TakeSnapshot(s) \/ UNCHANGED <<was, old>>
      BY <3>1 DEF ReadTxn
    <3> QED BY <3>1 DEF Start, WebhookReceived, claim, AdminLoads, Inquire, ReadPayment,
                        SettleErrs
  <2>2. payment \in Payments /\ was \in [Settlers -> Payments]
    BY DEF TypeOK, Payments
  <2>3. (IF SnapshotReads THEN credits ELSE 0) \in 0..CreditBound
    BY DEF TypeOK, CreditBound
  <2>4. old \in [Settlers -> 0..CreditBound]
    BY DEF TypeOK
  <2> QED BY <2>1, <2>2, <2>3, <2>4 DEF TakeSnapshot
<1>3. /\ \A t \in Settlers \ {s} : /\ payLock = t => payLock' = t
                                   /\ txnLock = t => txnLock' = t
      /\ txnLock' \in Settlers \cup {Nobody} /\ payLock' \in Settlers \cup {Nobody}
  <2>1. CASE Inquire(s) \/ ReadPayment(s) \/ SettleErrs(s)
    BY <2>1 DEF Inquire, ReadPayment, SettleErrs, Unlocked, lockVars, TypeOK
  <2>2. CASE WebhookReceived(s)
    BY <2>2 DEF WebhookReceived, lockVars, TypeOK
  <2>3. CASE claim(s)
    BY <2>3, CampayAssumption DEF claim, TypeOK
  <2>4. CASE AdminLoads(s)
    BY <2>4 DEF AdminLoads, lockVars, TypeOK
  <2> QED BY <2>1, <2>2, <2>3, <2>4 DEF Start
<1>5. TypeOK'
  <2>1. /\ pc' \in [Settlers -> Labels] /\ seen' \in [Settlers -> Copies]
        /\ out' \in [Settlers -> Mapped] /\ post' \in [Settlers -> {"none", "CREDIT"}]
    <3>1. pc \in [Settlers -> Labels] /\ seen \in [Settlers -> Copies]
      BY DEF TypeOK, Copies
    <3>2. out \in [Settlers -> Mapped] /\ post \in [Settlers -> {"none", "CREDIT"}]
      BY DEF TypeOK
    <3>3. pc'[s] \in Labels
      BY <1>1 DEF Labels
    <3> QED BY <1>1, <3>1, <3>2, <3>3
  <2> QED BY <2>1, <1>1, <1>2, <1>3 DEF TypeOK, Copies, Payments, providerVars, txnVars, ledgerVars
<1>4. /\ \A t \in Settlers \ {s} : /\ pc'[t] = pc[t] /\ seen'[t] = seen[t]
                                 /\ out'[t] = out[t] /\ post'[t] = post[t]
      /\ pc'[s] \in {"inquire", "read", "payload"}
      /\ pc'[s] # "inquire" \/ seen'[s].ref => provider # "none"
      /\ UNCHANGED <<provider, inFlight, status, hasRef>>
  BY <1>1 DEF TypeOK, providerVars, txnVars
<1>6. OutcomesAreFinal' /\ AcceptedFirst' /\ WritesUnderLock'
  <2>1. OutcomesAreFinal'
    BY <1>1, <1>4 DEF OutcomesAreFinal, providerVars
  <2>2. AcceptedFirst' /\ WritesUnderLock'
    BY <1>3, <1>4 DEF AcceptedFirst, WritesUnderLock
  <2> QED BY <2>1, <2>2
<1>7. ReadersComeLater' /\ HasReference'
  <2>1. ReadersComeLater'
    <3>2. UNCHANGED <<handler, status, credits, debits>>
      BY <1>1 DEF txnVars, ledgerVars
    <3>3. \A t \in Settlers :
            /\ seen'[t].status \in Mapped \/ pc'[t] = "inquire" => handler = "done"
            /\ post'[t] = "CREDIT" => pc'[t] = "settle" /\ seen'[t].status = "PENDING"
      BY <1>1, <1>4 DEF ReadersComeLater
    <3> QED BY <3>2, <3>3 DEF ReadersComeLater
  <2>2. HasReference'
    BY <1>1 DEF HasReference, Referenced, TypeOK, txnVars, providerVars
  <2> QED BY <2>1, <2>2
<1>8. CreditIsMissing' /\ DepositBooks'
  BY <1>1 DEF CreditIsMissing, DepositBooks, DepositBooksAgree, TypeOK, txnVars, ledgerVars
<1>9. WorkersHold'
  <2> SUFFICES ASSUME NEW r \in Workers, pc'[r] \notin {"idle", "notify"}
               PROVE  (txnLock = r /\ status = "PENDING" /\ seen[r].status = "PENDING")'
    BY DEF WorkersHold
  <2>1. CASE r # s
    BY <2>1, <1>3, <1>4 DEF WorkersHold, Settlers
  <2>2. CASE r = s /\ claim(s)
    BY <2>2 DEF claim, Claimable, ReadTxn, TypeOK, txnVars
  <2>3. CASE r = s /\ (Inquire(s) \/ ReadPayment(s))
    BY <2>3 DEF Inquire, ReadPayment, WorkersHold, lockVars, txnVars
  <2> QED BY <2>1, <2>2, <2>3, CampayAssumption DEF Start, SettleErrs
<1>10. FailedByCampay'
  BY <1>1 DEF FailedByCampay, NotPaid, TypeOK, txnVars, providerVars
<1> QED BY <1>5, <1>6, <1>7, <1>8, <1>9, <1>10

\* The statements that end a session without settling.
LEMMA EndIInv ==
  ASSUME IInv, NEW s \in Settlers,
         \/ InquiryFails(s) \/ KeepPayload(s) \/ notify_parties(s) \/ Rollback(s)
         \/ DeadlockVictim(s) \/ (s \in Workers /\ SettledAsBill(s))
  PROVE  IInv'
<1> USE DEF IInv
<1>1. payment \in Payments /\ was[s] \in Payments /\ out[s] \in Mapped
  BY DEF TypeOK, Payments
<1>2. hasRef \in BOOLEAN /\ recon \in BOOLEAN
  BY DEF TypeOK
<1>3. CASE InquiryFails(s) \/ Rollback(s) \/ DeadlockVictim(s)
  BY <1>1, <1>2, <1>3, CloseIInv DEF InquiryFails, Rollback, DeadlockVictim, txnVars
<1>4. CASE notify_parties(s)
  BY <1>1, <1>2, <1>4, CloseIInv, PayloadTyped DEF notify_parties, txnVars
<1>5. CASE KeepPayload(s)
  <2>1. payment' \in Payments
    BY <1>1, <1>5, PayloadTyped DEF KeepPayload
  <2>2. hasRef' \in BOOLEAN /\ (hasRef => hasRef') /\ (hasRef' => provider # "none")
    BY <1>2, <1>5 DEF KeepPayload, AcceptedFirst
  <2> QED BY <1>2, <1>5, <2>1, <2>2, CloseIInv DEF KeepPayload
<1>6. CASE s \in Workers /\ SettledAsBill(s)
  <2>1. ~Referenced /\ txnLock = s /\ handler = "done"
    BY <1>6 DEF SettledAsBill, HasReference, WorkersHold, ReadersComeLater
  <2> QED BY <1>1, <1>2, <1>6, <2>1, CloseIInv DEF SettledAsBill
<1> QED BY <1>3, <1>4, <1>5, <1>6

\* The payload's flush takes the payment row's lock.
LEMMA FlushPayloadIInv ==
  ASSUME IInv, NEW s \in Settlers, FlushPayload(s)
  PROVE  IInv'
<1> USE DEF IInv
<1>1. CASE InsertCollides(s)
  <2>1. payment \in Payments /\ hasRef \in BOOLEAN /\ recon \in BOOLEAN
    BY DEF TypeOK, Payments
  <2> QED BY <1>1, <2>1, CloseIInv DEF FlushPayload, txnVars
<1>2. CASE ~InsertCollides(s)
  <2>1. /\ UNCHANGED <<providerVars, txnVars, payment, ledgerVars, seen, out, was, old, post>>
        /\ pc[s] = "payload" /\ pc' = [pc EXCEPT ![s] = "decide"]
        /\ payLock = Nobody /\ payLock' = s /\ txnLock' \in {txnLock, s}
        /\ txnLock' # txnLock => txnLock = Nobody
    BY <1>2 DEF FlushPayload, Goto
  <2>2. TypeOK'
    BY <2>1 DEF TypeOK, Labels, providerVars, txnVars, ledgerVars
  <2>3. OutcomesAreFinal' /\ AcceptedFirst' /\ HasReference' /\ DepositBooks'
    BY <2>1 DEF OutcomesAreFinal, AcceptedFirst, HasReference, Referenced, DepositBooks,
                DepositBooksAgree, TypeOK, providerVars, txnVars, ledgerVars
  <2>4. WritesUnderLock' /\ ReadersComeLater' /\ CreditIsMissing'
    BY <2>1, CampayAssumption
       DEF WritesUnderLock, ReadersComeLater, CreditIsMissing, TypeOK, txnVars, ledgerVars
  <2>5. WorkersHold' /\ FailedByCampay'
    BY <2>1, CampayAssumption
       DEF WorkersHold, FailedByCampay, NotPaid, Settlers, TypeOK, txnVars, providerVars
  <2> QED BY <2>2, <2>3, <2>4, <2>5
<1> QED BY <1>1, <1>2

\* The entry is flushed on a look at the credits that are committed: nobody
\* else can commit one before this session ends.
LEMMA FlushEntryIInv ==
  ASSUME IInv, NEW s \in Settlers, FlushEntry(s)
  PROVE  IInv'
<1> USE DEF IInv
<1>1. CASE Refused(s)
  <2>1. payment \in Payments /\ hasRef \in BOOLEAN /\ recon \in BOOLEAN
    BY DEF TypeOK, Payments
  <2> QED BY <1>1, <2>1, CloseIInv DEF FlushEntry, txnVars
<1>2. CASE ~Refused(s)
  <2>1. /\ UNCHANGED <<providerVars, txnVars, payment, ledgerVars, lockVars, seen, out, was, old>>
        /\ pc[s] = "decide" /\ pc' = [pc EXCEPT ![s] = "settle"]
        /\ post' = [post EXCEPT ![s] = entry(s)] /\ out[s] \in Terminal
    BY <1>2 DEF FlushEntry, Goto, Settles
  <2>2. /\ entry(s) \in {"none", "CREDIT"}
        /\ entry(s) = "CREDIT" => seen[s].status = "PENDING"
    BY DEF entry
  <2>3. ~SnapshotReads /\ kind = "ADD_MONEY" => (entry(s) = "CREDIT" <=>
          out[s] = "SUCCESS" /\ seen[s].status = "PENDING" /\ credits = 0)
    BY DEF entry, CreditsSeen
  <2>4. TypeOK'
    BY <2>1, <2>2 DEF TypeOK, Labels, providerVars, txnVars, ledgerVars, lockVars
  <2>5. OutcomesAreFinal' /\ AcceptedFirst' /\ HasReference' /\ DepositBooks'
    BY <2>1 DEF OutcomesAreFinal, AcceptedFirst, HasReference, Referenced, DepositBooks,
                DepositBooksAgree, TypeOK, providerVars, txnVars, ledgerVars
  <2>6. WritesUnderLock' /\ ReadersComeLater'
    BY <2>1, <2>2 DEF WritesUnderLock, ReadersComeLater, TypeOK, txnVars, ledgerVars, lockVars
  <2>7. CreditIsMissing'
    BY <2>1, <2>3 DEF CreditIsMissing, TypeOK, txnVars, ledgerVars
  <2>8. WorkersHold' /\ FailedByCampay'
    BY <2>1 DEF WorkersHold, FailedByCampay, NotPaid, Settlers, TypeOK, txnVars, providerVars,
                lockVars
  <2> QED BY <2>4, <2>5, <2>6, <2>7, <2>8
<1> QED BY <1>1, <1>2

\* The settlement's commit: the credit comes with the success.
LEMMA CommitSettlementIInv ==
  ASSUME IInv, NEW s \in Settlers, CommitSettlement(s)
  PROVE  IInv'
<1> USE DEF IInv
<1>1. /\ UNCHANGED <<providerVars, kind, handler, debits, seen, out, was, old>>
      /\ pc[s] = "settle" /\ pc' = [pc EXCEPT ![s] = "notify"]
      /\ post' = [post EXCEPT ![s] = "none"]
      /\ hasRef' = TRUE /\ provider # "none"
      /\ credits' = IF post[s] = "CREDIT" THEN Capped(credits, CreditBound) ELSE credits
      /\ status' = IF Applies(s) THEN out[s] ELSE status
      /\ payLock = s
  BY DEF CommitSettlement, Goto, AcceptedFirst, WritesUnderLock
<1>2. \A t \in Settlers \ {s} : pc[t] # "settle" /\ post[t] # "CREDIT"
  BY <1>1 DEF WritesUnderLock, ReadersComeLater
<1>3. /\ out[s] \in Mapped
      /\ out[s] \in Terminal => out[s] = provider
      /\ credits' \in 0..CreditBound
  BY <1>1 DEF OutcomesAreFinal, TypeOK, Capped, CreditBound
<1>4. TypeOK'
  <2>1. payment' \in Payments
    BY <1>3, PayloadTyped DEF CommitSettlement, TypeOK, Payments
  <2>2. status' \in {"none"} \cup Mapped
    BY <1>1, <1>3 DEF TypeOK
  <2>3. recon' \in BOOLEAN
    BY DEF CommitSettlement, TypeOK
  <2>4. txnLock' \in Settlers \cup {Nobody} /\ payLock' \in Settlers \cup {Nobody}
    BY DEF CommitSettlement, Unlocked, TypeOK
  <2> QED BY <1>1, <1>3, <2>1, <2>2, <2>3, <2>4 DEF TypeOK, Payments, Labels, providerVars
<1>5. OutcomesAreFinal' /\ AcceptedFirst' /\ WritesUnderLock'
  BY <1>1, <1>2 DEF OutcomesAreFinal, AcceptedFirst, WritesUnderLock, TypeOK, providerVars,
                    CommitSettlement, Unlocked
<1>6. ~SnapshotReads /\ kind = "ADD_MONEY" =>
        /\ Applies(s) => seen[s].status = "PENDING" /\ handler = "done"
        /\ post[s] = "CREDIT" => /\ credits = 0 /\ credits' = 1
                                 /\ out[s] = "SUCCESS" /\ Applies(s)
  BY <1>1 DEF Applies, ReadersComeLater, CreditIsMissing, Capped, CreditBound, Mapped, Terminal
<1>7. ReadersComeLater'
  <2>1. handler = "calling" => ~Applies(s) /\ post[s] # "CREDIT"
    BY <1>1 DEF Applies, ReadersComeLater, Mapped, Terminal
  <2> QED BY <1>1, <1>2, <2>1 DEF ReadersComeLater, TypeOK
<1>8. out[s] = provider /\ provider \in Terminal
  BY <1>1 DEF OutcomesAreFinal
<1>9. HasReference' /\ FailedByCampay'
  BY <1>1, <1>8 DEF HasReference, Referenced, FailedByCampay, NotPaid, Terminal, TypeOK, providerVars
<1>10. WorkersHold'
  BY <1>1, CampayAssumption DEF CommitSettlement, WorkersHold, Settlers, TypeOK
<1>11. DepositBooks'
  <2> SUFFICES ASSUME ~SnapshotReads, kind = "ADD_MONEY"
               PROVE  (debits = 0 /\ credits = IF status = "SUCCESS" THEN 1 ELSE 0)'
    BY <1>1 DEF DepositBooks, DepositBooksAgree
  <2>1. debits = 0 /\ credits = IF status = "SUCCESS" THEN 1 ELSE 0
    BY DEF DepositBooks, DepositBooksAgree
  <2>2. CASE Applies(s) /\ out[s] = "SUCCESS"
    <3>1. post[s] = "CREDIT" <=> credits = 0
      BY <1>1, <1>6, <2>2 DEF CreditIsMissing
    <3> QED BY <1>1, <1>6, <2>1, <2>2, <3>1
  <2>3. CASE Applies(s) /\ out[s] = "FAILED"
    <3>1. post[s] # "CREDIT" /\ status # "SUCCESS"
      BY <1>6, <1>8, <2>3 DEF HasReference, Referenced
    <3> QED BY <1>1, <2>1, <2>3, <3>1
  <2>4. CASE ~Applies(s)
    BY <1>1, <1>6, <2>1, <2>4
  <2> QED BY <1>8, <2>2, <2>3, <2>4 DEF Terminal
<1>12. CreditIsMissing'
  BY <1>1, <1>2 DEF CreditIsMissing, TypeOK
<1> QED BY <1>4, <1>5, <1>7, <1>9, <1>10, <1>11, <1>12

\* Every step keeps the invariant, at either isolation level.
LEMMA NextIInv == IInv /\ [Next]_vars => IInv'
<1> SUFFICES ASSUME IInv, [Next]_vars PROVE IInv' OBVIOUS
<1>1. CASE UNCHANGED vars
  <2>1. (TypeOK /\ OutcomesAreFinal /\ AcceptedFirst /\ WritesUnderLock /\ ReadersComeLater)'
    BY <1>1 DEF vars, providerVars, txnVars, ledgerVars, lockVars, sessionVars, IInv, TypeOK,
                OutcomesAreFinal, AcceptedFirst, WritesUnderLock, ReadersComeLater
  <2>2. (WorkersHold /\ HasReference /\ FailedByCampay)'
    BY <1>1 DEF vars, providerVars, txnVars, lockVars, sessionVars, IInv, WorkersHold,
                HasReference, Referenced, FailedByCampay, NotPaid
  <2>3. (CreditIsMissing /\ DepositBooks)'
    BY <1>1 DEF vars, txnVars, ledgerVars, sessionVars, IInv, CreditIsMissing,
                DepositBooks, DepositBooksAgree
  <2> QED BY <2>1, <2>2, <2>3 DEF IInv
<1>2. CASE Provider \/ Handler
  BY <1>2, ProviderIInv, HandlerIInv
<1>3. ASSUME NEW s \in Settlers,
             \/ Start(s) \/ Inquire(s) \/ InquiryFails(s)
             \/ s \in Workers /\ SettledAsBill(s)
             \/ ReadPayment(s) \/ Settle(s) \/ SettleErrs(s)
             \/ Rollback(s) \/ DeadlockVictim(s)
      PROVE  IInv'
  BY <1>3, ReadIInv, EndIInv, FlushPayloadIInv, FlushEntryIInv, CommitSettlementIInv DEF Settle
<1> QED BY <1>1, <1>2, <1>3 DEF Next

-----------------------------------------------------------------------------
\* Every variable keeps its shape.
THEOREM CampayTypeCorrect == Spec => []TypeOK
<1>1. IInv => TypeOK BY DEF IInv
<1> QED BY <1>1, InitIInv, NextIInv, PTL DEF Spec

\* With READ COMMITTED a deposit is credited exactly when it succeeds, and
\* once, whoever settles it, however often, and whatever fails meanwhile.
THEOREM DepositCreditedOnce ==
  ASSUME ~SnapshotReads
  PROVE  Spec => []DepositBooksAgree
<1>1. IInv => DepositBooksAgree BY DEF IInv, DepositBooks
<1> QED BY <1>1, InitIInv, NextIInv, PTL DEF Spec

\* While no reply is lost and each brings a reference, the outcome FinPay
\* reports is the one Campay reached: errors, crashes, late callbacks and
\* forced settlements do not bring the two apart, at either isolation level.
THEOREM CampayOutcomeReported ==
  ASSUME "lost_reply" \notin Faults, "no_reference" \notin Faults
  PROVE  Spec => []OutcomeIsCampays
<1>1. IInv => OutcomeIsCampays
  BY DEF IInv, HasReference, Referenced, FailedByCampay, NotPaid, OutcomeIsCampays,
         SuccessIsConfirmed, FailedIsRefused
<1> QED BY <1>1, InitIInv, NextIInv, PTL DEF Spec

\* Under the same conditions, what a step makes of Campay's decision and of
\* FinPay's report: one of the two at most, each on its way to the end.
LEMMA ReportSteps ==
  ASSUME "lost_reply" \notin Faults, "no_reference" \notin Faults, IInv, [Next]_vars
  PROVE  /\ kind' = kind
         /\ \/ /\ status' = status
               /\ \/ provider' = provider
                  \/ provider = "none" /\ status = "none" /\ provider' = "PENDING"
                  \/ provider = "PENDING" /\ status # "FAILED" /\ provider' \in Terminal
            \/ /\ provider' = provider /\ provider # "none"
               /\ status = "none" /\ status' = "PENDING"
            \/ /\ provider' = provider /\ status \in {"none", "PENDING"}
               /\ status' \in Terminal
               /\ \/ provider = status'
                  \/ provider = "none" /\ status = "none" /\ status' = "FAILED"
<1> DEFINE Quiet == UNCHANGED <<kind, status, provider>>
<1>1. /\ status = "PENDING" => provider # "none"
      /\ status = "SUCCESS" => provider = "SUCCESS"
      /\ status = "FAILED" => NotPaid
      /\ status \in {"none"} \cup Mapped /\ provider \in {"none"} \cup Mapped
  BY DEF IInv, TypeOK, AcceptedFirst, HasReference, Referenced, FailedByCampay
<1>2. CASE UNCHANGED vars
  BY <1>2 DEF vars, txnVars, providerVars
<1>3. CASE Provider
  <2>1. UNCHANGED <<kind, status>>
    BY <1>3 DEF Provider, ProviderAccepts, ProviderRefuses, ProviderDecides, txnVars
  <2>2. CASE ProviderAccepts
    <3>1. inFlight /\ provider = "none" /\ provider' = "PENDING"
      BY <2>2 DEF ProviderAccepts, IInv, OutcomesAreFinal
    <3> QED BY <1>1, <2>1, <3>1 DEF NotPaid, Mapped, Terminal
  <2>3. CASE ProviderDecides
    BY <1>1, <2>1, <2>3 DEF ProviderDecides, NotPaid
  <2>4. CASE ProviderRefuses
    BY <2>1, <2>4 DEF ProviderRefuses
  <2> QED BY <1>3, <2>2, <2>3, <2>4 DEF Provider
<1>4. CASE Handler
  <2>1. UNCHANGED <<kind, provider>> /\ (handler = "calling" => status = "none")
    BY <1>4 DEF Handler, CollectReplied, WithdrawReplied, RepliedWithoutReference,
                CallRaised, HandlerDies, Outcome, Commits, providerVars, IInv, ReadersComeLater
  <2>2. CASE CollectReplied
    BY <2>1, <2>2 DEF CollectReplied, Outcome, Commits
  <2>3. CASE WithdrawReplied
    BY <2>1, <2>3 DEF WithdrawReplied, Outcome, Commits, Reply, Mapped, Terminal
  <2>4. CASE CallRaised
    BY <2>1, <2>4 DEF CallRaised, Outcome, Commits, Terminal
  <2>5. CASE HandlerDies
    BY <2>1, <2>5 DEF HandlerDies
  <2> QED BY <1>4, <2>2, <2>3, <2>4, <2>5 DEF Handler, RepliedWithoutReference
<1>5. ASSUME NEW s \in Settlers,
             \/ Start(s) \/ Inquire(s) \/ InquiryFails(s)
             \/ s \in Workers /\ SettledAsBill(s)
             \/ ReadPayment(s) \/ Settle(s) \/ SettleErrs(s)
             \/ Rollback(s) \/ DeadlockVictim(s)
      PROVE  \/ Quiet
             \/ /\ UNCHANGED <<kind, provider>> /\ provider \in Terminal
                /\ status \notin Terminal /\ status' = provider
  <2>1. CASE CommitSettlement(s)
    <3>1. /\ UNCHANGED <<kind, provider>> /\ out[s] = provider /\ provider \in Terminal
          /\ status' \in {out[s], status}
      BY <2>1 DEF CommitSettlement, IInv, OutcomesAreFinal, providerVars
    <3>2. status \in Terminal => status = provider
      BY <1>1, <3>1 DEF NotPaid, Terminal
    <3> QED BY <3>1, <3>2
  <2>2. CASE s \in Workers /\ SettledAsBill(s)
    BY <2>2 DEF SettledAsBill, IInv, HasReference, Referenced
  <2>3. CASE Start(s) \/ Inquire(s) \/ ReadPayment(s) \/ SettleErrs(s)
    BY <2>3, ReadSteps DEF txnVars, providerVars
  <2>4. CASE KeepPayload(s) \/ FlushPayload(s) \/ FlushEntry(s) \/ notify_parties(s)
             \/ InquiryFails(s) \/ Rollback(s) \/ DeadlockVictim(s)
    BY <2>4 DEF KeepPayload, FlushPayload, FlushEntry, notify_parties, InquiryFails,
                Rollback, DeadlockVictim, txnVars, providerVars
  <2> QED BY <1>5, <2>1, <2>2, <2>3, <2>4 DEF Settle
<1>6. ASSUME NEW s \in Settlers,
             \/ Start(s) \/ Inquire(s) \/ InquiryFails(s)
             \/ s \in Workers /\ SettledAsBill(s)
             \/ ReadPayment(s) \/ Settle(s) \/ SettleErrs(s)
             \/ Rollback(s) \/ DeadlockVictim(s)
      PROVE  \/ Quiet
             \/ /\ UNCHANGED <<kind, provider>> /\ status \in {"none", "PENDING"}
                /\ status' \in Terminal /\ provider = status'
  BY <1>1, <1>5, <1>6 DEF Mapped
<1> QED BY <1>2, <1>3, <1>4, <1>6 DEF Next

\* Under the same conditions a settled transaction keeps its outcome.
THEOREM CampayOutcomeStands ==
  ASSUME "lost_reply" \notin Faults, "no_reference" \notin Faults
  PROVE  Spec => TerminalIsFinal
<1>1. IInv /\ [Next]_vars => [(status \in Terminal) => (status' = status)]_vars
  BY ReportSteps DEF Terminal
<1> QED BY <1>1, InitIInv, NextIInv, PTL DEF Spec, TerminalIsFinal

-----------------------------------------------------------------------------
(* Withdrawals: the debit is given back exactly when they fail.            *)

\* Only an administrator forces an outcome, and so only one settles what was
\* not pending when it was read.
OnlyAdminsForce ==
  \A s \in Settlers : /\ seen[s].forced => s \in Admins
                      /\ pc[s] = "settle" => seen[s].status = "PENDING" \/ s \in Admins

\* A session posts the refund with a failure it is the first to see; where
\* another has already failed what it saw pending, Campay did.
RefundIsDue ==
  kind = "WITHDRAW" =>
    \A s \in Settlers :
      /\ pc[s] = "settle" =>
           (post[s] = "CREDIT" <=> out[s] = "FAILED" /\ seen[s].status = "PENDING")
      /\ seen[s].status = "PENDING" => status # "none"
      /\ status = "FAILED" /\ seen[s].status = "PENDING" => provider = "FAILED"

RefundInv == OnlyAdminsForce /\ RefundIsDue /\ RefundedIffFailed

\* What the provider and the handler do leaves the refund in step.
LEMMA HandlerRefunds ==
  ASSUME IInv, RefundInv, Provider \/ Handler
  PROVE  RefundInv'
<1> USE DEF RefundInv
<1>1. CASE Provider
  <2>1. UNCHANGED <<txnVars, ledgerVars, sessionVars>>
    BY <1>1 DEF Provider, ProviderAccepts, ProviderRefuses, ProviderDecides
  <2>2. provider = "FAILED" => provider' = "FAILED"
    BY <1>1 DEF Provider, ProviderAccepts, ProviderRefuses, ProviderDecides, IInv, OutcomesAreFinal
  <2> QED BY <2>1, <2>2 DEF OnlyAdminsForce, RefundIsDue, RefundedIffFailed, txnVars,
                            ledgerVars, sessionVars
<1>2. CASE Handler
  <2>1. /\ UNCHANGED <<providerVars, kind, sessionVars>> /\ handler = "calling"
        /\ kind = "WITHDRAW" /\ status' # "none" =>
             debits' = 1 /\ (credits' > 0 <=> status' = "FAILED")
    <3>1. CASE CollectReplied \/ WithdrawReplied
      BY <3>1 DEF CollectReplied, WithdrawReplied, Outcome, Commits
    <3>2. CASE RepliedWithoutReference \/ CallRaised
      BY <3>2 DEF RepliedWithoutReference, CallRaised, Outcome, Commits
    <3>3. CASE HandlerDies
      BY <3>3 DEF HandlerDies, IInv, ReadersComeLater
    <3> QED BY <1>2, <3>1, <3>2, <3>3 DEF Handler
  <2>2. \A s \in Settlers : seen[s].status # "PENDING"
    BY <2>1 DEF IInv, ReadersComeLater, Mapped
  <2> QED BY <2>1, <2>2 DEF OnlyAdminsForce, RefundIsDue, RefundedIffFailed, sessionVars,
                            providerVars
<1> QED BY <1>1, <1>2

\* A session that ends without settling leaves it in step too; a bill
\* settlement finds the transaction pending.
LEMMA CloseRefunds ==
  ASSUME IInv, RefundInv, NEW s \in Settlers, Close(s),
         UNCHANGED <<provider, kind, ledgerVars>>,
         status' = status \/ (status = "PENDING" /\ status' = "SUCCESS")
  PROVE  RefundInv'
<1> USE DEF RefundInv
<1>1. /\ \A t \in Settlers \ {s} : /\ pc'[t] = pc[t] /\ seen'[t] = seen[t]
                                 /\ out'[t] = out[t] /\ post'[t] = post[t]
      /\ pc'[s] = "idle" /\ seen'[s] = NoTxn
  BY DEF Close, Goto, IInv, TypeOK
<1>2. OnlyAdminsForce' /\ RefundIsDue'
  BY <1>1 DEF OnlyAdminsForce, RefundIsDue, NoTxn
<1>3. RefundedIffFailed'
  BY DEF RefundedIffFailed, ledgerVars
<1> QED BY <1>2, <1>3

\* The commit brings the refund with the failure, and no settler overrides a
\* failure that was refunded.
LEMMA CommitRefunds ==
  ASSUME Admins = {} \/ "lost_reply" \notin Faults,
         IInv, RefundInv, NEW s \in Settlers, CommitSettlement(s)
  PROVE  RefundInv'
<1> USE DEF RefundInv
<1>1. /\ UNCHANGED <<provider, kind, debits, seen, out>>
      /\ pc[s] = "settle" /\ out[s] = provider /\ out[s] \in Terminal
      /\ \A t \in Settlers \ {s} : pc'[t] = pc[t] /\ post'[t] = post[t]
      /\ pc'[s] = "notify"
      /\ credits' = IF post[s] = "CREDIT" THEN Capped(credits, CreditBound) ELSE credits
      /\ status' = IF Applies(s) THEN out[s] ELSE status
  BY DEF CommitSettlement, Goto, IInv, TypeOK, OutcomesAreFinal, providerVars
<1>2. OnlyAdminsForce'
  BY <1>1 DEF OnlyAdminsForce
<1>3. RefundIsDue'
  BY <1>1 DEF RefundIsDue, Applies, Terminal
<1>4. RefundedIffFailed'
  <2> SUFFICES ASSUME kind = "WITHDRAW", status' # "none"
               PROVE  debits' = 1 /\ (credits' > 0 <=> status' = "FAILED")
    BY <1>1 DEF RefundedIffFailed
  <2>1. credits \in 0..CreditBound /\ (post[s] = "CREDIT" => credits' > 0)
    BY <1>1 DEF IInv, TypeOK, Capped, CreditBound
  <2>2. post[s] = "CREDIT" <=> out[s] = "FAILED" /\ seen[s].status = "PENDING"
    BY <1>1 DEF RefundIsDue
  <2>3. CASE seen[s].status = "PENDING"
    <3>1. Applies(s) /\ status # "none"
      BY <2>3 DEF Applies, RefundIsDue
    <3>2. out[s] = "SUCCESS" => status # "FAILED"
      BY <1>1, <2>3 DEF RefundIsDue
    <3>3. debits = 1 /\ (credits > 0 <=> status = "FAILED") /\ status' = out[s]
      BY <1>1, <3>1 DEF RefundedIffFailed
    <3>4. CASE out[s] = "SUCCESS"
      BY <1>1, <2>2, <3>2, <3>3, <3>4
    <3>5. CASE out[s] = "FAILED"
      BY <1>1, <2>1, <2>2, <2>3, <3>3, <3>5
    <3> QED BY <1>1, <3>4, <3>5 DEF Terminal
  <2>4. CASE seen[s].status # "PENDING"
    <3>1. s \in Admins
      BY <1>1, <2>4 DEF OnlyAdminsForce
    <3>2. seen[s].status = "FAILED" => out[s] # "SUCCESS"
      BY <1>1, <3>1 DEF IInv, FailedByCampay, NotPaid
    <3>3. ~Applies(s)
      BY <2>4, <3>2 DEF Applies
    <3> QED BY <1>1, <2>2, <2>4, <3>3 DEF RefundedIffFailed
  <2> QED BY <2>3, <2>4
<1> QED BY <1>2, <1>3, <1>4

\* Every step leaves the refund in step with the status.
LEMMA NextRefunds ==
  ASSUME Admins = {} \/ "lost_reply" \notin Faults,
         IInv, RefundInv, [Next]_vars
  PROVE  RefundInv'
<1>1. CASE UNCHANGED vars
  BY <1>1 DEF vars, providerVars, txnVars, ledgerVars, sessionVars, RefundInv, OnlyAdminsForce,
              RefundIsDue, RefundedIffFailed
<1>2. CASE Provider \/ Handler
  BY <1>2, HandlerRefunds
<1>3. ASSUME NEW s \in Settlers,
             \/ Start(s) \/ Inquire(s) \/ InquiryFails(s)
             \/ s \in Workers /\ SettledAsBill(s)
             \/ ReadPayment(s) \/ Settle(s) \/ SettleErrs(s)
             \/ Rollback(s) \/ DeadlockVictim(s)
      PROVE  RefundInv'
  <2>1. CASE Start(s) \/ Inquire(s) \/ ReadPayment(s) \/ SettleErrs(s)
    <3>1. /\ UNCHANGED <<provider, kind, status, debits, credits>>
          /\ pc'[s] # "settle"
          /\ seen'[s].status \in {status, seen[s].status, "kept"}
          /\ seen'[s].forced => s \in Admins \/ seen[s].forced
      BY <2>1, ReadSteps DEF providerVars, txnVars, ledgerVars
    <3>2. \A t \in Settlers \ {s} : /\ pc'[t] = pc[t] /\ seen'[t] = seen[t]
                                  /\ out'[t] = out[t] /\ post'[t] = post[t]
      BY <2>1, ReadSteps DEF IInv, TypeOK
    <3>3. OnlyAdminsForce'
      BY <3>1, <3>2 DEF RefundInv, OnlyAdminsForce
    <3> QED BY <3>1, <3>2, <3>3 DEF RefundInv, RefundIsDue, RefundedIffFailed
  <2>2. CASE KeepPayload(s) \/ notify_parties(s) \/ InquiryFails(s) \/ Rollback(s)
             \/ DeadlockVictim(s)
    BY <2>2, CloseRefunds DEF KeepPayload, notify_parties, InquiryFails, Rollback,
                              DeadlockVictim, providerVars, txnVars
  <2>3. CASE s \in Workers /\ SettledAsBill(s)
    <3>1. status = "PENDING"
      BY <2>3 DEF SettledAsBill, IInv, WorkersHold
    <3> QED BY <2>3, <3>1, CloseRefunds DEF SettledAsBill, providerVars
  <2>4. CASE FlushPayload(s)
    <3>1. CASE InsertCollides(s)
      BY <2>4, <3>1, CloseRefunds DEF FlushPayload, providerVars, txnVars
    <3>2. CASE ~InsertCollides(s)
      BY <2>4, <3>2 DEF FlushPayload, Goto, RefundInv, OnlyAdminsForce, RefundIsDue,
             RefundedIffFailed, IInv, TypeOK, providerVars, txnVars, ledgerVars
    <3> QED BY <3>1, <3>2
  <2>5. CASE FlushEntry(s)
    <3>1. CASE Refused(s)
      BY <2>5, <3>1, CloseRefunds DEF FlushEntry, providerVars, txnVars
    <3>2. CASE ~Refused(s)
      <4>1. /\ UNCHANGED <<provider, kind, status, debits, credits, seen, out>>
            /\ \A t \in Settlers \ {s} : pc'[t] = pc[t] /\ post'[t] = post[t]
            /\ post'[s] = entry(s) /\ pc[s] = "decide" /\ Settles(s)
        BY <2>5, <3>2 DEF FlushEntry, Goto, IInv, TypeOK, providerVars, txnVars, ledgerVars
      <4>2. seen[s].status = "PENDING" \/ s \in Admins
        BY <4>1 DEF Settles, IInv, WorkersHold, RefundInv, OnlyAdminsForce
      <4>3. kind = "WITHDRAW" =>
              (entry(s) = "CREDIT" <=> out[s] = "FAILED" /\ seen[s].status = "PENDING")
        BY DEF entry, RefundInv, RefundIsDue, RefundedIffFailed
      <4> QED BY <4>1, <4>2, <4>3 DEF RefundInv, OnlyAdminsForce, RefundIsDue, RefundedIffFailed
    <3> QED BY <3>1, <3>2
  <2>6. CASE CommitSettlement(s)
    BY <2>6, CommitRefunds
  <2> QED BY <1>3, <2>1, <2>2, <2>3, <2>4, <2>5, <2>6 DEF Settle
<1> QED BY <1>1, <1>2, <1>3 DEF Next

\* A withdrawal is refunded exactly when it fails: with every fault when only
\* the webhook and the workers settle, and with forced settlements as well
\* when no reply is lost.
THEOREM WithdrawalRefundedIffFailed ==
  ASSUME Admins = {} \/ "lost_reply" \notin Faults
  PROVE  Spec => []RefundedIffFailed
<1>1. Init => RefundInv
  BY DEF Init, RefundInv, OnlyAdminsForce, RefundIsDue, RefundedIffFailed, NoTxn
<1>2. IInv /\ RefundInv /\ [Next]_vars => IInv' /\ RefundInv'
  BY NextIInv, NextRefunds
<1>3. RefundInv => RefundedIffFailed
  BY DEF RefundInv
<1> QED BY <1>1, <1>2, <1>3, InitIInv, PTL DEF Spec

-----------------------------------------------------------------------------
(* The atomic payment.                                                     *)

\* Nothing is given back before the handler has committed.
NothingBooked == kind = "WITHDRAW" /\ status = "none" => credits = 0

LEMMA NextNothingBooked ==
  ASSUME IInv, RefundInv, NothingBooked, [Next]_vars
  PROVE  NothingBooked'
<1> SUFFICES ASSUME kind' = "WITHDRAW", status' = "none" PROVE credits' = 0
  BY DEF NothingBooked
<1> DEFINE Quiet == UNCHANGED <<kind, status, credits>>
<1>1. CASE UNCHANGED vars
  BY <1>1 DEF vars, txnVars, ledgerVars, NothingBooked
<1>2. CASE Provider \/ Handler
  BY <1>2 DEF Provider, ProviderAccepts, ProviderRefuses, ProviderDecides, Handler,
         CollectReplied, WithdrawReplied, RepliedWithoutReference, CallRaised, HandlerDies,
         Outcome, Commits, Reply, Mapped, Terminal, txnVars, ledgerVars, NothingBooked
<1>3. ASSUME NEW s \in Settlers,
             \/ Start(s) \/ Inquire(s) \/ InquiryFails(s)
             \/ s \in Workers /\ SettledAsBill(s)
             \/ ReadPayment(s) \/ Settle(s) \/ SettleErrs(s)
             \/ Rollback(s) \/ DeadlockVictim(s)
      PROVE  Quiet
  <2>1. CASE CommitSettlement(s)
    <3>1. /\ UNCHANGED kind /\ pc[s] = "settle" /\ out[s] \in Terminal
          /\ status' = IF Applies(s) THEN out[s] ELSE status
          /\ credits' = IF post[s] = "CREDIT" THEN Capped(credits, CreditBound) ELSE credits
      BY <2>1 DEF CommitSettlement, IInv, OutcomesAreFinal
    <3>2. status = "none" /\ status' = status
      BY <3>1 DEF Terminal
    <3>3. post[s] # "CREDIT"
      BY <3>1, <3>2 DEF RefundInv, RefundIsDue
    <3> QED BY <3>1, <3>2, <3>3
  <2>2. CASE s \in Workers /\ SettledAsBill(s)
    BY <2>2 DEF SettledAsBill
  <2>3. CASE Start(s) \/ Inquire(s) \/ ReadPayment(s) \/ SettleErrs(s)
    BY <2>3, ReadSteps DEF txnVars, ledgerVars
  <2>4. CASE KeepPayload(s) \/ FlushPayload(s) \/ FlushEntry(s) \/ notify_parties(s)
             \/ InquiryFails(s) \/ Rollback(s) \/ DeadlockVictim(s)
    BY <2>4 DEF KeepPayload, FlushPayload, FlushEntry, notify_parties, InquiryFails,
                Rollback, DeadlockVictim, txnVars, ledgerVars
  <2> QED BY <1>3, <2>1, <2>2, <2>3, <2>4 DEF Settle
<1>4. CASE \E s \in Settlers :
             \/ Start(s) \/ Inquire(s) \/ InquiryFails(s)
             \/ s \in Workers /\ SettledAsBill(s)
             \/ ReadPayment(s) \/ Settle(s) \/ SettleErrs(s)
             \/ Rollback(s) \/ DeadlockVictim(s)
  BY <1>3, <1>4 DEF NothingBooked
<1> QED BY <1>1, <1>2, <1>4 DEF Next

BookInv == IInv /\ RefundInv /\ NothingBooked

\* What is booked follows from what is reported.
Brought == IF kind = "ADD_MONEY" THEN "SUCCESS" ELSE "FAILED"
BookedAsReported == credits > 0 <=> status = Brought

LEMMA BooksFollow ==
  ASSUME ~SnapshotReads, BookInv
  PROVE  BookedAsReported
<1> USE DEF BookedAsReported, Brought
<1>1. kind = "ADD_MONEY" \/ kind = "WITHDRAW"
  BY CampayAssumption DEF BookInv, IInv, TypeOK
<1>2. CASE kind = "ADD_MONEY"
  BY <1>2 DEF BookInv, IInv, DepositBooks, DepositBooksAgree
<1>3. CASE kind = "WITHDRAW"
  BY <1>3 DEF BookInv, RefundInv, RefundedIffFailed, NothingBooked
<1> QED BY <1>1, <1>2, <1>3

LEMMA StepImplements ==
  ASSUME "lost_reply" \notin Faults, "no_reference" \notin Faults,
         IInv, BookedAsReported, BookedAsReported', [Next]_vars
  PROVE  [Payment!PaymentNext]_(Payment!paymentVars)
<1>1. (credits > 0 <=> status = Brought) /\ (credits' > 0 <=> status' = Brought')
  BY DEF BookedAsReported
<1>2. kind' = kind /\ Brought' = Brought /\ Brought \in Terminal
  BY ReportSteps DEF Brought, Terminal
<1>3. CASE UNCHANGED <<status, provider>>
  <2>1. (credits > 0) = (credits' > 0)
    BY <1>1, <1>2, <1>3
  <2> QED BY <1>2, <1>3, <2>1 DEF Payment!paymentVars
<1>4. CASE status' = status /\ provider = "none" /\ status = "none" /\ provider' = "PENDING"
  <2>1. (credits' > 0) = (credits > 0)
    BY <1>1, <1>2, <1>4
  <2> QED BY <1>2, <1>4, <2>1 DEF Payment!PaymentNext, Payment!Accept
<1>5. CASE status' = status /\ provider = "PENDING" /\ status # "FAILED"
           /\ provider' \in Terminal
  <2>1. (credits' > 0) = (credits > 0)
    BY <1>1, <1>2, <1>5
  <2> QED BY <1>2, <1>5, <2>1 DEF Payment!PaymentNext, Payment!Decide, Payment!Outcomes, Terminal
<1>6. CASE provider' = provider /\ provider # "none" /\ status = "none" /\ status' = "PENDING"
  <2>1. (credits' > 0) = (credits > 0)
    BY <1>1, <1>2, <1>6 DEF Terminal
  <2> QED BY <1>2, <1>6, <2>1 DEF Payment!PaymentNext, Payment!Record
<1>7. CASE /\ provider' = provider /\ status \in {"none", "PENDING"} /\ status' \in Terminal
           /\ \/ provider = status'
              \/ provider = "none" /\ status = "none" /\ status' = "FAILED"
  <2>1. (credits' > 0) = (status' = Brought)
    BY <1>1, <1>2
  <2>2. Payment!Report(status')
    BY <1>2, <1>7, <2>1 DEF Payment!Report, Payment!Brings, Brought
  <2> QED BY <1>7, <2>2 DEF Payment!PaymentNext, Payment!Outcomes, Terminal
<1> QED BY <1>3, <1>4, <1>5, <1>6, <1>7, ReportSteps

\* While no reply is lost and each brings a reference, handler, webhook, workers
\* and administrators together are the atomic payment: Campay decides, and one
\* commit of theirs reports that and brings its money, with every other fault.
THEOREM CampayImplementsPayment ==
  ASSUME "lost_reply" \notin Faults, "no_reference" \notin Faults, ~SnapshotReads
  PROVE  Spec => ImplementsPayment
<1>1. ASSUME Init PROVE BookInv /\ Payment!PaymentInit
  <2>1. RefundInv /\ NothingBooked
    BY <1>1 DEF Init, RefundInv, OnlyAdminsForce, RefundIsDue, RefundedIffFailed, NoTxn,
                NothingBooked
  <2>2. (credits > 0) = FALSE
    BY <1>1 DEF Init
  <2> QED BY <1>1, <2>1, <2>2, InitIInv DEF Init, BookInv, Payment!PaymentInit
<1>2. BookInv /\ [Next]_vars => BookInv'
  BY NextIInv, NextRefunds, NextNothingBooked DEF BookInv
<1>3. BookInv => IInv /\ BookedAsReported
  BY BooksFollow DEF BookInv
<1>4. IInv /\ BookedAsReported /\ BookedAsReported' /\ [Next]_vars
      => [Payment!PaymentNext]_(Payment!paymentVars)
  BY StepImplements
<1> QED BY <1>1, <1>2, <1>3, <1>4, PTL DEF Spec, ImplementsPayment, Payment!PaymentSpec
=============================================================================
