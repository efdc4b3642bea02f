----------------------- MODULE MoneyRequests_proofs -------------------------
(***************************************************************************)
(* Proofs about MoneyRequests, for any number of calls, workers and        *)
(* webhooks.  However calls overlap and whatever fails, a request that is  *)
(* PAID is paid for.  When the users' calls come one after the other, the  *)
(* settlers that run beside them keep books, history and provider in step, *)
(* each under the faults it stands, and implement AtomicRequest.           *)
(***************************************************************************)
EXTENDS RequestContract, FiniteSetTheorems, TLAPS

\* Calls and settlers have statements of their own.
Statements ==
  /\ \A c \in Calls : pc[c] \in {"idle", "loaded", "calling", "done"}
  /\ \A s \in Settlers : pc[s] \in {"idle", "inquire", "payload", "settle"}

\* A settler works on a collect, settles one that Campay has decided, and a
\* credit it has seen is still there: credits are never taken back.
SettlersKnow ==
  \A s \in Settlers :
    /\ pc[s] # "idle" => target[s] \in Payers
    /\ pc[s] \in {"payload", "settle"} => provider[target[s]] \in Outcomes
    /\ seen[s].credits > 0 => credits > 0

FundedInv == TypeOK /\ Statements /\ SettlersKnow /\ PaidIsFunded

\* A call between its reads and its commit.
Busy(c) == pc[c] \in {"loaded", "calling"}

\* Calls in turn: one at a time, on a request that is still pending.
InTurn ==
  \A c \in Calls : Busy(c) =>
    status = "PENDING" /\ \A d \in Calls : Busy(d) => d = c

\* While a request is pending no collect has been committed, so no settler is
\* at work: calls and settlers never meet.
CollectsCloseIt ==
  /\ status \in {"none", "PENDING"} => \A p \in Payers : collect[p] = "none"
  /\ \A s \in Settlers : pc[s] # "idle" => collect[target[s]] # "none"

\* From its look at the request to its commit a settler holds the payment row
\* of the collect the request waits for, and so nobody else settles it.
SettlersHold ==
  \A s \in Settlers : pc[s] = "settle" =>
    /\ payLock[target[s]] = s /\ collectOf = target[s]
    /\ seen[s].status \notin Closed => seen[s] = [status |-> status, credits |-> 0]

\* Campay is asked by one call, whose commit then says so; a process that dies
\* in the call leaves nothing of it.
AskedOnce ==
  "crash" \notin Faults =>
    \A p \in Payers : provider[p] # "none" =>
      /\ pc[p] = "calling" \/ (status \notin {"none", "PENDING"} /\ mode = "CAMPAY")
      /\ \A q \in Payers : provider[q] # "none" => q = p

\* A reply without a reference leaves the history rows as they were.
Histories == "no_reference" \notin Faults => HistoryFollows

SerialInv == /\ InTurn /\ CollectsCloseIt /\ SettlersHold /\ AskedOnce /\ Histories
             /\ PaidBooksAgree
-----------------------------------------------------------------------------
LEMMA OneMoreCounts ==
  ASSUME NEW n \in 0..EntryBound
  PROVE  /\ OneMore(n) \in 0..EntryBound /\ OneMore(n) > 0
         /\ n = 0 => OneMore(n) = 1
BY DEF OneMore, EntryBound

LEMMA FundedInit == Init => FundedInv
<1> SUFFICES ASSUME Init PROVE FundedInv
  OBVIOUS
<1>1. TypeOK
  BY DEF Init, TypeOK, Statuses, Outcomes, EntryBound, NotRead
<1>2. Statements /\ SettlersKnow /\ PaidIsFunded
  BY RequestAssumption DEF Init, Statements, SettlersKnow, PaidIsFunded, NotRead, Calls, Settlers
<1> QED BY <1>1, <1>2 DEF FundedInv

\* Of a call's steps, those that leave the rows alone.
LEMMA ReadFunded ==
  ASSUME FundedInv, NEW c \in Calls,
         load_pending(c) \/ Refuse(c) \/ StartCollect(c) \/ CallDies(c)
  PROVE  FundedInv'
<1>1. PICK label \in {"loaded", "calling", "done"} : Goto(c, label)
  BY DEF load_pending, Refuse, StartCollect, CallDies
<1>2. UNCHANGED <<requestVars, collect, provider, ledgerVars, lockVars, settlerVars>>
  BY DEF load_pending, Refuse, StartCollect, CallDies
<1>3. TypeOK'
  BY <1>1, <1>2 DEF FundedInv, TypeOK, Goto, requestVars, ledgerVars, lockVars, settlerVars
<1>4. \A s \in Settlers : pc'[s] = pc[s]
  BY <1>1, RequestAssumption DEF FundedInv, TypeOK, Goto
<1>5. Statements'
  BY <1>1, <1>4 DEF FundedInv, TypeOK, Statements, Goto
<1>6. SettlersKnow' /\ PaidIsFunded'
  BY <1>2, <1>4 DEF FundedInv, SettlersKnow, PaidIsFunded,
                    requestVars, ledgerVars, lockVars, settlerVars
<1> QED BY <1>3, <1>5, <1>6 DEF FundedInv

\* The commit of a call that asks Campay nothing or gets no payment.
LEMMA ResolveFunded ==
  ASSUME FundedInv, NEW c \in Calls, NEW newStatus \in Statuses,
         NEW newMode \in {"none", "WALLET", "CAMPAY"},
         NEW newCollect \in Payers \cup {Nobody},
         NEW newHistory \in {"none", "PENDING", "PROCESSING"} \cup Outcomes,
         Resolve(c, newStatus, newMode, newCollect, newHistory),
         collect' \in [Payers -> {"none", "PENDING"} \cup Outcomes],
         debits' \in 0..EntryBound, credits' \in 0..EntryBound,
         credits' >= credits, UNCHANGED provider,
         newStatus = "PAID" =>
           credits' > 0 /\ (debits' > 0 \/ \E p \in Payers : provider[p] = "SUCCESS")
  PROVE  FundedInv'
<1>1. UNCHANGED <<rowLock, payLock, target, seen>>
  BY DEF Resolve, lockVars, settlerVars
<1>2. TypeOK'
  BY <1>1 DEF FundedInv, TypeOK, Resolve, Goto
<1>3. \A s \in Settlers : pc'[s] = pc[s]
  BY RequestAssumption DEF FundedInv, TypeOK, Resolve, Goto
<1>4. Statements'
  BY <1>3 DEF FundedInv, TypeOK, Statements, Resolve, Goto
<1>5. SettlersKnow'
  BY <1>1, <1>3 DEF FundedInv, TypeOK, SettlersKnow, EntryBound
<1>6. PaidIsFunded'
  BY DEF PaidIsFunded, Resolve
<1> QED BY <1>2, <1>4, <1>5, <1>6 DEF FundedInv

LEMMA PayerFunded ==
  ASSUME FundedInv, NEW p \in Payers, PayerStep(p)
  PROVE  FundedInv'
<1> USE DEF Statuses, Closed, Outcomes
<1>0. /\ p \in Calls /\ status \in Statuses /\ mode \in {"none", "WALLET", "CAMPAY"}
      /\ collectOf \in Payers \cup {Nobody}
      /\ history \in {"none", "PENDING", "PROCESSING"} \cup Outcomes
      /\ collect \in [Payers -> {"none", "PENDING"} \cup Outcomes]
      /\ provider \in [Payers -> {"none", "PENDING"} \cup Outcomes]
      /\ debits \in 0..EntryBound /\ credits \in 0..EntryBound
  BY DEF FundedInv, TypeOK, Calls
<1>1. CASE settle_via_wallet(p)
  <2>1. /\ OneMore(debits) \in 0..EntryBound /\ OneMore(credits) \in 0..EntryBound
        /\ OneMore(debits) > 0 /\ OneMore(credits) > 0 /\ OneMore(credits) >= credits
    BY <1>0, OneMoreCounts DEF OneMore, EntryBound
  <2> QED BY <1>0, <1>1, <2>1, ResolveFunded DEF settle_via_wallet
<1>2. CASE ResumeCollect(p)
  <2>1. PICK q \in Prior : Resolve(p, "PROCESSING", "CAMPAY", q, "PROCESSING")
    BY <1>2 DEF ResumeCollect
  <2>2. q \in Payers /\ UNCHANGED <<collect, provider, debits, credits>>
    BY <1>2 DEF ResumeCollect, Prior, ledgerVars
  <2> QED BY <1>0, <2>1, <2>2, ResolveFunded DEF EntryBound
<1>3. CASE CollectReplied(p)
  <2>1. PICK r \in Reply(p) :
          /\ collect' = [collect EXCEPT ![p] = r]
          /\ IF r = "PENDING" THEN Resolve(p, "PROCESSING", "CAMPAY", p, "PROCESSING")
             ELSE Resolve(p, RequestStatus(r), "CAMPAY", p, r)
          /\ credits' = IF r = "SUCCESS" /\ credits = 0 THEN 1 ELSE credits
    BY <1>3 DEF CollectReplied
  <2>2. /\ r \in {"PENDING", "SUCCESS", "FAILED"} /\ UNCHANGED <<provider, debits>>
        /\ r = "SUCCESS" => provider[p] = "SUCCESS"
    BY <1>0, <1>3 DEF CollectReplied, Reply
  <2>3. /\ collect' \in [Payers -> {"none", "PENDING"} \cup Outcomes]
        /\ credits' \in 0..EntryBound /\ credits' >= credits
        /\ r = "SUCCESS" => credits' > 0
    BY <1>0, <2>1, <2>2 DEF EntryBound
  <2>4. CASE r = "PENDING"
    BY <1>0, <2>1, <2>2, <2>3, <2>4, ResolveFunded
  <2>5. CASE r # "PENDING"
    BY <1>0, <2>1, <2>2, <2>3, <2>5, ResolveFunded DEF RequestStatus
  <2> QED BY <2>4, <2>5
<1>4. CASE RepliedWithoutReference(p) \/ CallRaised(p)
  <2>1. PICK h \in {history, "FAILED"} : Resolve(p, "FAILED", "CAMPAY", p, h)
    BY <1>4 DEF RepliedWithoutReference, CallRaised
  <2>2. /\ UNCHANGED <<provider, debits, credits>>
        /\ collect' \in [Payers -> {"none", "PENDING"} \cup Outcomes]
    BY <1>0, <1>4 DEF RepliedWithoutReference, CallRaised, ledgerVars
  <2>3. /\ h \in {"none", "PENDING", "PROCESSING"} \cup Outcomes
        /\ credits' >= credits
    BY <1>0, <2>1, <2>2 DEF EntryBound
  <2> QED BY <1>0, <2>1, <2>2, <2>3, ResolveFunded
<1>5. CASE StartCollect(p) \/ CallDies(p)
  BY <1>0, <1>5, ReadFunded
<1> QED BY <1>1, <1>2, <1>3, <1>4, <1>5 DEF PayerStep

LEMMA CloserFunded ==
  ASSUME FundedInv, NEW c \in Closers, close_request(c)
  PROVE  FundedInv'
<1>1. PICK s \in {"DECLINED", "CANCELLED"} : Resolve(c, s, mode, collectOf, "FAILED")
  BY DEF close_request
<1>2. UNCHANGED <<collect, provider, debits, credits>>
  BY DEF close_request, ledgerVars
<1>3. /\ c \in Calls /\ mode \in {"none", "WALLET", "CAMPAY"}
      /\ collectOf \in Payers \cup {Nobody} /\ credits \in 0..EntryBound
      /\ debits \in 0..EntryBound
      /\ collect \in [Payers -> {"none", "PENDING"} \cup Outcomes]
  BY DEF FundedInv, TypeOK, Calls
<1>4. s \in Statuses /\ s # "PAID" /\ credits' >= credits
  BY <1>2, <1>3 DEF Statuses, Closed, EntryBound
<1> QED BY <1>1, <1>2, <1>3, <1>4, ResolveFunded DEF Outcomes

\* The opening of the request, and what Campay does of its own accord.
LEMMA OutsideFunded ==
  ASSUME FundedInv,
         create_request \/ \E p \in Payers : ProviderAccepts(p) \/ ProviderDecides(p)
  PROVE  FundedInv'
<1> USE DEF FundedInv, Outcomes, requestVars, ledgerVars, lockVars, settlerVars
<1>1. CASE create_request
  BY <1>1 DEF create_request, TypeOK, Statements, SettlersKnow, PaidIsFunded, Statuses
<1>2. CASE \E p \in Payers : ProviderAccepts(p) \/ ProviderDecides(p)
  <2>1. PICK p \in Payers, o \in {"PENDING"} \cup Outcomes :
          /\ provider' = [provider EXCEPT ![p] = o]
          /\ provider[p] \in {"none", "PENDING"}
    BY <1>2 DEF ProviderAccepts, ProviderDecides
  <2>2. UNCHANGED <<requestVars, collect, ledgerVars, lockVars, pc, settlerVars>>
    BY <1>2 DEF ProviderAccepts, ProviderDecides
  <2>3. \A q \in Payers : provider[q] \in Outcomes => provider'[q] = provider[q]
    BY <2>1 DEF TypeOK
  <2>4. TypeOK'
    BY <2>1, <2>2 DEF TypeOK
  <2>5. Statements' /\ SettlersKnow'
    BY <2>2, <2>3 DEF Statements, SettlersKnow, TypeOK
  <2>6. PaidIsFunded'
    BY <2>2, <2>3 DEF PaidIsFunded
  <2> QED BY <2>4, <2>5, <2>6
<1> QED BY <1>1, <1>2
\* What the end of a session releases and resets.
LEMMA CloseResets ==
  ASSUME FundedInv, NEW s \in Settlers, Close(s)
  PROVE  /\ pc' \in [Calls \cup Settlers ->
                       {"idle", "loaded", "calling", "done", "inquire", "payload", "settle"}]
         /\ pc'[s] = "idle" /\ \A c \in (Calls \cup Settlers) \ {s} : pc'[c] = pc[c]
         /\ rowLock' \in [Payers -> Settlers \cup {Nobody}]
         /\ payLock' \in [Payers -> Settlers \cup {Nobody}]
         /\ target' \in [Settlers -> Payers \cup {Nobody}]
         /\ seen' \in [Settlers -> [status : Statuses, credits : 0..EntryBound]]
         /\ seen'[s] = NotRead
         /\ \A t \in Settlers \ {s} : target'[t] = target[t] /\ seen'[t] = seen[t]
         /\ \A p \in Payers : payLock[p] # s => payLock'[p] = payLock[p]
<1>1. NotRead \in [status : Statuses, credits : 0..EntryBound]
  BY DEF NotRead, Statuses, EntryBound
<1>2. Free(rowLock, s) \in [Payers -> Settlers \cup {Nobody}]
  BY DEF FundedInv, TypeOK, Free
<1>3. /\ Free(payLock, s) \in [Payers -> Settlers \cup {Nobody}]
      /\ \A p \in Payers : payLock[p] # s => Free(payLock, s)[p] = payLock[p]
  BY DEF FundedInv, TypeOK, Free
<1>4. pc \in [Calls \cup Settlers ->
                {"idle", "loaded", "calling", "done", "inquire", "payload", "settle"}]
      /\ target \in [Settlers -> Payers \cup {Nobody}]
      /\ seen \in [Settlers -> [status : Statuses, credits : 0..EntryBound]]
  BY DEF FundedInv, TypeOK
<1> QED BY <1>1, <1>2, <1>3, <1>4 DEF Close, Goto

\* A session that ends having changed no row.
LEMMA CloseFunded ==
  ASSUME FundedInv, NEW s \in Settlers, Close(s),
         UNCHANGED <<requestVars, collect, provider, ledgerVars>>
  PROVE  FundedInv'
<1> USE DEF requestVars, ledgerVars
<1>1. TypeOK'
  BY CloseResets DEF FundedInv, TypeOK
<1>2. Statements'
  BY CloseResets, RequestAssumption DEF FundedInv, Statements
<1>3. SettlersKnow'
  BY CloseResets DEF FundedInv, SettlersKnow, NotRead
<1>4. PaidIsFunded'
  BY DEF FundedInv, PaidIsFunded
<1> QED BY <1>1, <1>2, <1>3, <1>4 DEF FundedInv

\* Taking a collect up, from a callback or in a sweep.
LEMMA TakeFunded ==
  ASSUME FundedInv, NEW s \in Settlers, WebhookReceived(s) \/ claim(s)
  PROVE  FundedInv'
<1> USE DEF requestVars, ledgerVars
<1>1. PICK p \in Payers, label \in {"payload", "inquire"} :
        /\ target' = [target EXCEPT ![s] = p] /\ Goto(s, label)
        /\ label = "payload" => provider[p] \in Outcomes
  BY DEF WebhookReceived, claim
<1>2. UNCHANGED <<requestVars, collect, provider, ledgerVars, payLock, seen>>
  BY DEF WebhookReceived, claim, lockVars
<1>3. rowLock' \in [Payers -> Settlers \cup {Nobody}]
  BY DEF FundedInv, TypeOK, WebhookReceived, claim, lockVars
<1>4. TypeOK'
  BY <1>1, <1>2, <1>3 DEF FundedInv, TypeOK, Goto
<1>5. Statements'
  BY <1>1, RequestAssumption DEF FundedInv, TypeOK, Statements, Goto
<1>6. SettlersKnow'
  BY <1>1, <1>2 DEF FundedInv, TypeOK, SettlersKnow, Goto
<1>7. PaidIsFunded'
  BY <1>2 DEF FundedInv, PaidIsFunded
<1> QED BY <1>4, <1>5, <1>6, <1>7 DEF FundedInv

LEMMA InquireFunded ==
  ASSUME FundedInv, NEW w \in Workers, Inquire(w)
  PROVE  FundedInv'
<1> USE DEF requestVars, ledgerVars, lockVars, settlerVars, Settlers
<1>1. CASE provider[target[w]] \in Outcomes
  <2>1. /\ Goto(w, "payload") /\ pc[w] = "inquire"
        /\ UNCHANGED <<requestVars, collect, provider, ledgerVars, lockVars, settlerVars>>
    BY <1>1 DEF Inquire
  <2>2. TypeOK'
    BY <2>1 DEF FundedInv, TypeOK, Goto
  <2>3. Statements'
    BY <2>1, RequestAssumption DEF FundedInv, TypeOK, Statements, Goto
  <2>4. SettlersKnow'
    BY <1>1, <2>1 DEF FundedInv, TypeOK, SettlersKnow, Goto
  <2> QED BY <2>1, <2>2, <2>3, <2>4 DEF FundedInv, PaidIsFunded
<1>2. CASE provider[target[w]] \notin Outcomes
  BY <1>2, CloseFunded DEF Inquire
<1> QED BY <1>1, <1>2

LEMMA LookFunded ==
  ASSUME FundedInv, NEW s \in Settlers, read_request(s)
  PROVE  FundedInv'
<1> USE DEF requestVars, ledgerVars
<1>1. CASE collectOf = target[s]
  <2>1. /\ payLock' = [payLock EXCEPT ![target[s]] = s]
        /\ seen' = [seen EXCEPT ![s] = [status |-> status, credits |-> credits]]
        /\ Goto(s, "settle") /\ pc[s] = "payload"
        /\ UNCHANGED <<requestVars, collect, provider, ledgerVars, rowLock, target>>
    BY <1>1 DEF read_request
  <2>2. [status |-> status, credits |-> credits] \in [status : Statuses, credits : 0..EntryBound]
    BY DEF FundedInv, TypeOK
  <2>3. TypeOK'
    BY <2>1, <2>2 DEF FundedInv, TypeOK, Goto
  <2>4. Statements'
    BY <2>1, RequestAssumption DEF FundedInv, TypeOK, Statements, Goto
  <2>5. SettlersKnow'
    BY <2>1 DEF FundedInv, TypeOK, SettlersKnow, Goto
  <2> QED BY <2>1, <2>3, <2>4, <2>5 DEF FundedInv, PaidIsFunded
<1>2. CASE collectOf # target[s]
  BY <1>2, CloseFunded DEF read_request
<1> QED BY <1>1, <1>2

LEMMA SettleFunded ==
  ASSUME FundedInv, NEW s \in Settlers, SettleCommits(s)
  PROVE  FundedInv'
<1> DEFINE p == target[s]
           o == provider[p]
<1>1. /\ p \in Payers /\ o \in Outcomes
      /\ credits \in 0..EntryBound /\ seen[s].credits \in 0..EntryBound
      /\ seen[s].credits > 0 => credits > 0
  BY DEF SettleCommits, FundedInv, TypeOK, SettlersKnow
<1>2. /\ status' = RequestStatus(o) /\ mode' = "CAMPAY" /\ history' = o
      /\ credits' = IF o = "SUCCESS" /\ seen[s].credits = 0 THEN OneMore(credits) ELSE credits
      /\ collect' = [collect EXCEPT ![p] = o]
      /\ UNCHANGED <<collectOf, provider, debits>> /\ Close(s)
  BY DEF SettleCommits
<1>3. /\ OneMore(credits) \in 0..EntryBound /\ OneMore(credits) > 0
  BY <1>1, OneMoreCounts
<1>4. /\ credits' \in 0..EntryBound /\ (credits > 0 => credits' > 0)
      /\ o = "SUCCESS" => credits' > 0
  BY <1>1, <1>2, <1>3 DEF EntryBound
<1>5. TypeOK'
  <2>1. status' \in Statuses /\ history' \in Outcomes
    BY <1>1, <1>2 DEF RequestStatus, Statuses, Closed
  <2>2. collect' \in [Payers -> {"none", "PENDING"} \cup Outcomes]
    BY <1>1, <1>2 DEF FundedInv, TypeOK
  <2> QED BY <1>2, <1>4, <2>1, <2>2, CloseResets DEF FundedInv, TypeOK
<1>6. Statements'
  BY <1>2, CloseResets, RequestAssumption DEF FundedInv, Statements
<1>7. SettlersKnow'
  BY <1>2, <1>4, CloseResets DEF FundedInv, SettlersKnow, NotRead
<1>8. PaidIsFunded'
  BY <1>1, <1>2, <1>4 DEF PaidIsFunded, RequestStatus
<1> QED BY <1>5, <1>6, <1>7, <1>8 DEF FundedInv

LEMMA FundedNext == FundedInv /\ [Next]_vars => FundedInv'
<1> SUFFICES ASSUME FundedInv, [Next]_vars PROVE FundedInv'
  OBVIOUS
<1>1. CASE UNCHANGED vars
  BY <1>1 DEF vars, requestVars, ledgerVars, lockVars, settlerVars, FundedInv, TypeOK,
              Statements, SettlersKnow, PaidIsFunded
<1>2. ASSUME NEW c \in Calls, load_pending(c) \/ Refuse(c) PROVE FundedInv'
  BY <1>2, ReadFunded
<1>3. ASSUME NEW s \in Settlers, SettleReturns(s) \/ DeadlockVictim(s) \/ Rollback(s)
      PROVE FundedInv'
  BY <1>3, CloseFunded DEF SettleReturns, DeadlockVictim, Rollback
<1>4. Workers \subseteq Settlers /\ Webhooks \subseteq Settlers
  BY DEF Settlers
<1> QED BY <1>1, <1>2, <1>3, <1>4, PayerFunded, CloserFunded, OutsideFunded, TakeFunded,
           InquireFunded, LookFunded, SettleFunded DEF Next

\* The rows, locks and sessions of a money request keep to their values, for
\* any number of calls and settlers, overlapping or not.
THEOREM RequestTypeCorrect == Spec => []TypeOK
<1>1. FundedInv => TypeOK
  BY DEF FundedInv
<1> QED BY <1>1, FundedInit, FundedNext, PTL DEF Spec

\* pay_request, settle_money_request_campay_success: a request reported PAID
\* has been credited, and paid for from the wallet or by a collect that Campay
\* carried out, however calls overlap and whatever fails.
THEOREM PaidRequestIsFunded == Spec => []PaidIsFunded
<1>1. FundedInv => PaidIsFunded
  BY DEF FundedInv
<1> QED BY <1>1, FundedInit, FundedNext, PTL DEF Spec
-----------------------------------------------------------------------------
(* Calls one after the other.                                              *)

Serial == ~Overlap /\ FundedInv /\ SerialInv

\* A step that lets a closed request stand.
Stands == status \in Closed => status' = status

LEMMA SerialInit == FundedInv /\ Init => SerialInv
<1> SUFFICES ASSUME FundedInv, Init PROVE SerialInv
  OBVIOUS
<1>1. InTurn /\ CollectsCloseIt /\ SettlersHold /\ AskedOnce
  BY DEF Init, InTurn, Busy, CollectsCloseIt, SettlersHold, AskedOnce, Calls
<1>2. Histories /\ PaidBooksAgree
  BY DEF Init, Histories, HistoryFollows, PaidBooksAgree
<1> QED BY <1>1, <1>2 DEF SerialInv

\* What a call under way can rely on.
LEMMA BusyAlone ==
  ASSUME Serial, NEW c \in Calls, Busy(c)
  PROVE  /\ status = "PENDING" /\ debits = 0 /\ credits = 0
         /\ "no_reference" \notin Faults => history = "PENDING"
         /\ Prior = {} /\ \A d \in Calls \ {c} : ~Busy(d)
         /\ \A s \in Settlers : pc[s] = "idle"
         /\ "crash" \notin Faults =>
              \A p \in Payers : provider[p] # "none" => p = c /\ pc[c] = "calling"
<1>1. status = "PENDING" /\ \A d \in Calls \ {c} : ~Busy(d)
  BY DEF Serial, SerialInv, InTurn
<1>2. debits = 0 /\ credits = 0 /\ ("no_reference" \notin Faults => history = "PENDING")
  BY <1>1 DEF Serial, SerialInv, PaidBooksAgree, Histories, HistoryFollows
<1>3. Prior = {} /\ \A s \in Settlers : pc[s] = "idle"
  BY <1>1 DEF Serial, SerialInv, CollectsCloseIt, Prior, FundedInv, SettlersKnow
<1>4. "crash" \notin Faults =>
        \A p \in Payers : provider[p] # "none" => p = c /\ pc[c] = "calling"
  BY <1>1 DEF Serial, SerialInv, AskedOnce, Busy, Calls
<1> QED BY <1>1, <1>2, <1>3, <1>4

LEMMA ReadSerial ==
  ASSUME Serial, NEW c \in Calls,
         load_pending(c) \/ Refuse(c) \/ StartCollect(c) \/ CallDies(c)
  PROVE  SerialInv' /\ Stands
<1>1. PICK label \in {"loaded", "calling", "done"} :
        /\ Goto(c, label)
        /\ label = "loaded" => status = "PENDING" /\ Alone(c)
        /\ label # "loaded" => Busy(c)
        /\ label = "calling" => pc[c] = "loaded"
        /\ label = "done" => pc[c] = "loaded" \/ "crash" \in Faults
  BY DEF load_pending, Refuse, StartCollect, CallDies, Serial, Busy, Prior
<1>2. UNCHANGED <<requestVars, collect, provider, ledgerVars, lockVars, settlerVars>>
  BY DEF load_pending, Refuse, StartCollect, CallDies
<1>3. /\ \A s \in Settlers : pc'[s] = pc[s]
      /\ pc'[c] = label /\ \A d \in Calls \ {c} : pc'[d] = pc[d]
  BY <1>1, RequestAssumption DEF Serial, FundedInv, TypeOK, Goto
<1>4. InTurn'
  <2>1. \A d \in Calls \ {c} : ~Busy(d)
    BY <1>1, BusyAlone DEF Alone, Busy
  <2>2. label \in {"loaded", "calling"} => status = "PENDING"
    BY <1>1, BusyAlone
  <2> QED BY <1>2, <1>3, <2>1, <2>2 DEF InTurn, Busy, requestVars
<1>5. AskedOnce'
  <2> SUFFICES ASSUME "crash" \notin Faults PROVE AskedOnce'
    BY DEF AskedOnce
  <2>1. \A p \in Payers : provider[p] # "none" /\ pc[p] = "calling" => p # c
    BY <1>1, BusyAlone DEF load_pending, Refuse, StartCollect, CallDies
  <2> QED BY <1>2, <1>3, <2>1 DEF Serial, SerialInv, AskedOnce, requestVars, Calls
<1>6. CollectsCloseIt' /\ SettlersHold' /\ Histories' /\ PaidBooksAgree'
  BY <1>2, <1>3 DEF Serial, SerialInv, CollectsCloseIt, SettlersHold, Histories, HistoryFollows,
                    PaidBooksAgree, requestVars, ledgerVars, lockVars, settlerVars
<1> QED BY <1>2, <1>4, <1>5, <1>6 DEF SerialInv, Stands, requestVars

\* A call that commits finds the request pending and everyone else idle.
LEMMA ResolveSerial ==
  ASSUME Serial, NEW c \in Calls, Busy(c),
         NEW newStatus \in {"PROCESSING"} \cup Closed, NEW newMode, NEW newCollect, NEW newHistory,
         Resolve(c, newStatus, newMode, newCollect, newHistory),
         UNCHANGED provider, PaidBooksAgree', Histories',
         newMode = "CAMPAY" \/ pc[c] = "loaded"
  PROVE  SerialInv' /\ Stands
<1>1. /\ status' = newStatus /\ mode' = newMode
      /\ UNCHANGED <<rowLock, payLock, target, seen>>
  BY DEF Resolve, lockVars, settlerVars
<1>2. /\ \A s \in Settlers : pc'[s] = "idle"
      /\ pc'[c] = "done" /\ \A d \in Calls \ {c} : pc'[d] = pc[d]
  BY BusyAlone, RequestAssumption DEF Serial, FundedInv, TypeOK, Goto, Resolve
<1>3. InTurn'
  BY <1>2, BusyAlone DEF InTurn, Busy
<1>4. CollectsCloseIt' /\ SettlersHold'
  BY <1>1, <1>2 DEF CollectsCloseIt, SettlersHold, Closed
<1>5. AskedOnce'
  BY <1>1, BusyAlone DEF AskedOnce, Closed
<1>6. Stands
  BY BusyAlone DEF Stands, Closed
<1> QED BY <1>3, <1>4, <1>5, <1>6 DEF SerialInv

LEMMA PayerSerial ==
  ASSUME Serial, NEW p \in Payers, PayerStep(p)
  PROVE  SerialInv' /\ Stands
<1>0. /\ p \in Calls /\ provider \in [Payers -> {"none", "PENDING"} \cup Outcomes]
      /\ Busy(p)
  BY DEF Serial, FundedInv, TypeOK, Calls, PayerStep, Busy, settle_via_wallet, StartCollect,
         ResumeCollect, CollectReplied, RepliedWithoutReference, CallRaised, CallDies
<1> USE BusyAlone, <1>0
<1>1. CASE settle_via_wallet(p)
  <2>1. /\ Resolve(p, "PAID", "WALLET", collectOf, "SUCCESS")
        /\ pc[p] = "loaded" /\ UNCHANGED provider
        /\ credits' = OneMore(credits) /\ debits' = OneMore(debits)
    BY <1>1 DEF settle_via_wallet
  <2>2. PaidBooksAgree' /\ Histories'
    BY <2>1 DEF PaidBooksAgree, Histories, HistoryFollows, Resolve, OneMore, EntryBound
  <2>3. "PAID" \in {"PROCESSING"} \cup Closed
    BY DEF Closed
  <2> QED BY <2>1, <2>2, <2>3, ResolveSerial
<1>2. ~ResumeCollect(p)
  BY FS_EmptySet DEF ResumeCollect
<1>3. CASE CollectReplied(p)
  <2>1. PICK r \in Reply(p) :
          /\ IF r = "PENDING" THEN Resolve(p, "PROCESSING", "CAMPAY", p, "PROCESSING")
             ELSE Resolve(p, RequestStatus(r), "CAMPAY", p, r)
          /\ credits' = IF r = "SUCCESS" /\ credits = 0 THEN 1 ELSE credits
    BY <1>3 DEF CollectReplied
  <2>2. r \in {"PENDING", "SUCCESS", "FAILED"} /\ UNCHANGED <<provider, debits>>
    BY <1>3 DEF CollectReplied, Reply, Outcomes
  <2>3. PaidBooksAgree' /\ Histories'
    BY <2>1, <2>2 DEF PaidBooksAgree, Histories, HistoryFollows, Resolve, RequestStatus
  <2>4. /\ RequestStatus(r) \in {"PROCESSING"} \cup Closed
        /\ "PROCESSING" \in {"PROCESSING"} \cup Closed
    BY DEF RequestStatus, Closed
  <2>5. CASE r = "PENDING"
    BY <2>1, <2>2, <2>3, <2>4, <2>5, ResolveSerial
  <2>6. CASE r # "PENDING"
    BY <2>1, <2>2, <2>3, <2>4, <2>6, ResolveSerial
  <2> QED BY <2>5, <2>6
<1>4. CASE RepliedWithoutReference(p) \/ CallRaised(p)
  <2>1. PICK h \in {history, "FAILED"} :
          /\ Resolve(p, "FAILED", "CAMPAY", p, h)
          /\ "no_reference" \notin Faults => h = "FAILED"
    BY <1>4 DEF RepliedWithoutReference, CallRaised
  <2>2. UNCHANGED <<provider, debits, credits>>
    BY <1>4 DEF RepliedWithoutReference, CallRaised, ledgerVars
  <2>3. PaidBooksAgree' /\ Histories'
    BY <2>1, <2>2 DEF PaidBooksAgree, Histories, HistoryFollows, Resolve
  <2>4. "FAILED" \in {"PROCESSING"} \cup Closed
    BY DEF Closed
  <2> QED BY <2>1, <2>2, <2>3, <2>4, ResolveSerial
<1>5. CASE StartCollect(p) \/ CallDies(p)
  BY <1>5, ReadSerial
<1> QED BY <1>1, <1>2, <1>3, <1>4, <1>5 DEF PayerStep

LEMMA CloserSerial ==
  ASSUME Serial, NEW c \in Closers, close_request(c)
  PROVE  SerialInv' /\ Stands
<1>1. /\ c \in Calls /\ Busy(c) /\ pc[c] = "loaded"
      /\ UNCHANGED <<provider, debits, credits>>
  BY DEF close_request, Busy, Calls, ledgerVars
<1>2. PICK s \in {"DECLINED", "CANCELLED"} : Resolve(c, s, mode, collectOf, "FAILED")
  BY DEF close_request
<1>3. PaidBooksAgree' /\ Histories'
  BY <1>1, <1>2, BusyAlone DEF PaidBooksAgree, Histories, HistoryFollows, Resolve
<1>4. s \in {"PROCESSING"} \cup Closed
  BY DEF Closed
<1> QED BY <1>1, <1>2, <1>3, <1>4, ResolveSerial
\* The opening of the request, and what Campay does of its own accord.
LEMMA OutsideSerial ==
  ASSUME Serial, create_request \/ \E p \in Payers : ProviderAccepts(p) \/ ProviderDecides(p)
  PROVE  SerialInv' /\ Stands
<1> USE DEF Serial, SerialInv, requestVars, ledgerVars, lockVars, settlerVars
<1>1. CASE create_request
  <2>1. \A s \in Settlers : pc[s] # "settle"
    BY <1>1 DEF create_request, CollectsCloseIt, FundedInv, SettlersKnow
  <2>2. InTurn' /\ CollectsCloseIt' /\ SettlersHold'
    BY <1>1, <2>1 DEF create_request, InTurn, Busy, CollectsCloseIt, SettlersHold
  <2>3. AskedOnce'
    BY <1>1 DEF create_request, AskedOnce, InTurn, Busy, Calls
  <2>4. Histories' /\ PaidBooksAgree' /\ Stands
    BY <1>1 DEF create_request, Histories, HistoryFollows, PaidBooksAgree, Stands, Closed
  <2> QED BY <2>2, <2>3, <2>4
<1>2. CASE \E p \in Payers : ProviderAccepts(p) \/ ProviderDecides(p)
  <2>1. PICK p \in Payers, o \in {"PENDING"} \cup Outcomes :
          /\ provider' = [provider EXCEPT ![p] = o]
          /\ provider[p] # "none" \/ pc[p] = "calling"
    BY <1>2 DEF ProviderAccepts, ProviderDecides
  <2>2. UNCHANGED <<requestVars, collect, ledgerVars, lockVars, pc, settlerVars>>
    BY <1>2 DEF ProviderAccepts, ProviderDecides
  <2>3. AskedOnce'
    <3> SUFFICES ASSUME "crash" \notin Faults PROVE AskedOnce'
      BY DEF AskedOnce
    <3>1. \A q \in Payers \ {p} : provider'[q] = provider[q]
      BY <2>1 DEF FundedInv, TypeOK
    <3>2. \A q \in Payers : provider[q] # "none" => q = p
      <4>1. CASE provider[p] # "none"
        BY <4>1 DEF AskedOnce
      <4>2. CASE pc[p] = "calling"
        BY <4>2, BusyAlone DEF Busy, Calls
      <4> QED BY <2>1, <4>1, <4>2
    <3>3. pc[p] = "calling" \/ (status \notin {"none", "PENDING"} /\ mode = "CAMPAY")
      BY <2>1 DEF AskedOnce
    <3> QED BY <2>2, <3>1, <3>2, <3>3 DEF AskedOnce
  <2>4. InTurn' /\ CollectsCloseIt' /\ SettlersHold'
    BY <2>2 DEF InTurn, Busy, CollectsCloseIt, SettlersHold
  <2> QED BY <2>2, <2>3, <2>4 DEF Histories, HistoryFollows, PaidBooksAgree, Stands
<1> QED BY <1>1, <1>2

\* A settler's step that moves only itself and its locks.
LEMMA MoveSerial ==
  ASSUME Serial, NEW s \in Settlers,
         UNCHANGED <<requestVars, collect, provider, ledgerVars>>,
         \A c \in (Calls \cup Settlers) \ {s} : pc'[c] = pc[c],
         \A t \in Settlers \ {s} : target'[t] = target[t] /\ seen'[t] = seen[t],
         \A p \in Payers : payLock[p] \notin {s, Nobody} => payLock'[p] = payLock[p],
         pc'[s] # "idle" => collect[target'[s]] # "none",
         pc'[s] = "settle" =>
           /\ payLock'[target'[s]] = s /\ collectOf = target'[s]
           /\ seen'[s] = [status |-> status, credits |-> credits]
  PROVE  SerialInv' /\ Stands
<1> USE DEF requestVars, ledgerVars, Serial, SerialInv
<1>1. \A c \in Calls : pc'[c] = pc[c]
  BY RequestAssumption
<1>2. InTurn'
  BY <1>1 DEF InTurn, Busy
<1>3. CollectsCloseIt'
  BY DEF CollectsCloseIt
<1>4. SettlersHold'
  <2>1. status \notin Closed => credits = 0
    BY DEF PaidBooksAgree, Closed
  <2>2. \A t \in Settlers \ {s} : pc[t] = "settle" =>
          target[t] \in Payers /\ payLock[target[t]] \notin {s, Nobody}
    BY RequestAssumption DEF FundedInv, SettlersKnow, SettlersHold
  <2>3. ASSUME NEW t \in Settlers, pc'[t] = "settle"
        PROVE  /\ payLock'[target'[t]] = t /\ collectOf = target'[t]
               /\ seen'[t].status \notin Closed => seen'[t] = [status |-> status, credits |-> 0]
    BY <2>1, <2>2, <2>3 DEF SettlersHold
  <2> QED BY <2>3 DEF SettlersHold
<1>5. AskedOnce'
  BY <1>1 DEF AskedOnce, Calls
<1>6. Histories' /\ PaidBooksAgree' /\ Stands
  BY DEF Histories, HistoryFollows, PaidBooksAgree, Stands
<1> QED BY <1>2, <1>3, <1>4, <1>5, <1>6

LEMMA CloseSerial ==
  ASSUME Serial, NEW s \in Settlers, Close(s),
         UNCHANGED <<requestVars, collect, provider, ledgerVars>>
  PROVE  SerialInv' /\ Stands
<1>1. FundedInv
  BY DEF Serial
<1> QED BY <1>1, CloseResets, MoveSerial

LEMMA SettlerReadSerial ==
  ASSUME Serial, NEW s \in Settlers,
         WebhookReceived(s) \/ claim(s) \/ Inquire(s) \/ read_request(s)
  PROVE  SerialInv' /\ Stands
<1>0. UNCHANGED <<requestVars, collect, provider, ledgerVars>>
  BY DEF WebhookReceived, claim, Inquire, read_request
<1>1. CASE Close(s)
  BY <1>0, <1>1, CloseSerial
<1>2. CASE WebhookReceived(s) \/ claim(s)
  <2>1. PICK p \in Payers, label \in {"payload", "inquire"} :
          /\ target' = [target EXCEPT ![s] = p] /\ Goto(s, label)
          /\ collect[p] = "PENDING"
    BY <1>2 DEF WebhookReceived, claim
  <2>2. UNCHANGED <<payLock, seen>>
    BY <1>2 DEF WebhookReceived, claim, lockVars
  <2>3. /\ target'[s] = p /\ \A t \in Settlers \ {s} : target'[t] = target[t]
        /\ pc'[s] = label /\ \A c \in (Calls \cup Settlers) \ {s} : pc'[c] = pc[c]
    BY <2>1 DEF Serial, FundedInv, TypeOK, Goto
  <2> QED BY <1>0, <2>1, <2>2, <2>3, MoveSerial
<1>3. CASE Inquire(s) /\ ~Close(s)
  <2>1. Goto(s, "payload") /\ UNCHANGED <<payLock, target, seen>> /\ pc[s] # "idle"
    BY <1>3 DEF Inquire, lockVars, settlerVars
  <2>2. pc'[s] = "payload" /\ \A c \in (Calls \cup Settlers) \ {s} : pc'[c] = pc[c]
    BY <2>1 DEF Serial, FundedInv, TypeOK, Goto
  <2>3. collect[target[s]] # "none"
    BY <2>1 DEF Serial, SerialInv, CollectsCloseIt
  <2> QED BY <1>0, <2>1, <2>2, <2>3, MoveSerial
<1>4. CASE read_request(s) /\ ~Close(s)
  <2>1. /\ payLock' = [payLock EXCEPT ![target[s]] = s]
        /\ payLock[target[s]] = Nobody /\ collectOf = target[s]
        /\ seen' = [seen EXCEPT ![s] = [status |-> status, credits |-> credits]]
        /\ Goto(s, "settle") /\ pc[s] = "payload" /\ UNCHANGED target
    BY <1>4 DEF read_request
  <2>2. /\ pc'[s] = "settle" /\ \A c \in (Calls \cup Settlers) \ {s} : pc'[c] = pc[c]
        /\ seen'[s] = [status |-> status, credits |-> credits]
        /\ \A t \in Settlers \ {s} : seen'[t] = seen[t]
        /\ target[s] \in Payers /\ payLock'[target[s]] = s
        /\ \A p \in Payers \ {target[s]} : payLock'[p] = payLock[p]
    BY <2>1 DEF Serial, FundedInv, TypeOK, SettlersKnow, Goto
  <2>3. collect[target[s]] # "none"
    BY <2>1 DEF Serial, SerialInv, CollectsCloseIt
  <2> QED BY <1>0, <2>1, <2>2, <2>3, MoveSerial
<1> QED BY <1>1, <1>2, <1>3, <1>4

\* The holder of the payment row settles the request it has read; no other
\* settler is past its look at it.
LEMMA SettleSerial ==
  ASSUME Serial, NEW s \in Settlers, SettleCommits(s)
  PROVE  SerialInv' /\ Stands
<1> DEFINE p == target[s]
           o == provider[p]
<1>1. /\ p \in Payers /\ o \in Outcomes /\ pc[s] = "settle"
      /\ seen[s] = [status |-> status, credits |-> 0]
      /\ status = "PROCESSING" /\ credits = 0 /\ debits = 0
  <2>1. p \in Payers /\ o \in Outcomes /\ pc[s] = "settle"
    BY DEF SettleCommits, Serial, FundedInv, SettlersKnow
  <2>2. seen[s] = [status |-> status, credits |-> 0] /\ status \in {"PENDING", "PROCESSING"}
    BY <2>1 DEF SettleCommits, Serial, SerialInv, SettlersHold, Closed
  <2>3. status # "PENDING"
    BY <2>1 DEF Serial, SerialInv, CollectsCloseIt
  <2> QED BY <2>1, <2>2, <2>3 DEF Serial, SerialInv, PaidBooksAgree
<1>2. /\ status' = RequestStatus(o) /\ mode' = "CAMPAY" /\ history' = o
      /\ credits' = IF o = "SUCCESS" THEN 1 ELSE 0
      /\ collect' = [collect EXCEPT ![p] = o]
      /\ UNCHANGED <<collectOf, provider, debits>> /\ Close(s)
  BY <1>1 DEF SettleCommits, OneMore, EntryBound
<1>3. status' \in {"PAID", "FAILED"} /\ (status' = "PAID" <=> o = "SUCCESS")
  BY <1>1, <1>2 DEF RequestStatus
<1>4. /\ FundedInv /\ pc'[s] = "idle"
      /\ \A c \in (Calls \cup Settlers) \ {s} : pc'[c] = pc[c]
      /\ \A t \in Settlers \ {s} : target'[t] = target[t]
  BY <1>2, CloseResets DEF Serial
<1>5. InTurn'
  BY <1>1, <1>4, BusyAlone, RequestAssumption DEF InTurn, Busy
<1>6. CollectsCloseIt'
  <2>1. \A q \in Payers : collect[q] # "none" => collect'[q] # "none"
    BY <1>1, <1>2 DEF Serial, FundedInv, TypeOK, Outcomes
  <2> QED BY <1>3, <1>4, <2>1 DEF Serial, SerialInv, CollectsCloseIt, FundedInv, SettlersKnow
<1>7. SettlersHold'
  <2>1. \A t \in Settlers \ {s} : pc[t] # "settle"
    BY <1>1 DEF Serial, SerialInv, SettlersHold
  <2> QED BY <1>4, <2>1 DEF SettlersHold
<1>8. AskedOnce'
  BY <1>2, <1>3 DEF Serial, SerialInv, AskedOnce
<1>9. Histories' /\ PaidBooksAgree' /\ Stands
  BY <1>1, <1>2, <1>3 DEF Histories, HistoryFollows, PaidBooksAgree, Stands, Closed, Outcomes
<1> QED BY <1>5, <1>6, <1>7, <1>8, <1>9 DEF SerialInv

LEMMA SerialNext == Serial /\ [Next]_vars => SerialInv' /\ [Stands]_vars
<1> SUFFICES ASSUME Serial, [Next]_vars PROVE SerialInv' /\ [Stands]_vars
  OBVIOUS
<1>1. CASE UNCHANGED vars
  BY <1>1 DEF Serial, vars, requestVars, ledgerVars, lockVars, settlerVars, SerialInv, InTurn,
              Busy, CollectsCloseIt, SettlersHold, AskedOnce, Histories, HistoryFollows,
              PaidBooksAgree
<1>2. ASSUME NEW c \in Calls, load_pending(c) \/ Refuse(c) PROVE SerialInv' /\ Stands
  BY <1>2, ReadSerial
<1>3. ASSUME NEW s \in Settlers, SettleReturns(s) \/ DeadlockVictim(s) \/ Rollback(s)
      PROVE SerialInv' /\ Stands
  BY <1>3, CloseSerial DEF SettleReturns, DeadlockVictim, Rollback
<1>4. Workers \subseteq Settlers /\ Webhooks \subseteq Settlers
  BY DEF Settlers
<1> QED BY <1>1, <1>2, <1>3, <1>4, PayerSerial, CloserSerial, OutsideSerial,
           SettlerReadSerial, SettleSerial DEF Next

LEMMA SerialCharges ==
  ASSUME Serial, "crash" \notin Faults
  PROVE  ChargedOnce
<1> DEFINE Asked == {p \in Payers : provider[p] \in {"PENDING", "SUCCESS"}}
<1>1. debits \in 0..1 /\ PaidBooksAgree
  BY DEF Serial, SerialInv, PaidBooksAgree
<1>2. CASE Asked = {}
  <2>1. Cardinality(Asked) = 0
    BY <1>2, FS_EmptySet
  <2> QED BY <1>1, <2>1 DEF ChargedOnce
<1>3. CASE Asked # {}
  <2>1. PICK p \in Payers : provider[p] # "none" /\ Asked = {p}
    BY <1>3 DEF Serial, SerialInv, AskedOnce
  <2>2. Cardinality(Asked) = 1
    BY <2>1, FS_Singleton
  <2>3. debits = 0
    BY <1>1, <2>1, BusyAlone DEF Serial, SerialInv, AskedOnce, PaidBooksAgree, Busy, Calls
  <2> QED BY <1>1, <2>2, <2>3 DEF ChargedOnce
<1> QED BY <1>2, <1>3

\* settle_money_request_campay_success and _failed under their row locks, and
\* _load_pending: when the users' calls come one after the other, a request
\* that is paid, declined, cancelled or failed stays so, whatever fails.
THEOREM ClosedRequestStands ==
  ASSUME ~Overlap
  PROVE  Spec => ClosedIsFinal
<1>1. Init => Serial
  BY FundedInit, SerialInit DEF Serial
<1>2. Serial /\ [Next]_vars => Serial'
  BY FundedNext, SerialNext DEF Serial
<1>3. Serial /\ [Next]_vars => [(status \in Closed) => (status' = status)]_vars
  BY SerialNext DEF Stands
<1> QED BY <1>1, <1>2, <1>3, PTL DEF Spec, ClosedIsFinal

\* settle_via_wallet and settle_money_request_campay_success: when the users'
\* calls come one after the other, the requester is credited once, exactly
\* when the request is PAID, and the payer's wallet debited exactly when it was
\* paid from there, whatever fails.
THEOREM SerialBooksAgree ==
  ASSUME ~Overlap
  PROVE  Spec => []PaidBooksAgree
<1>1. Init => Serial
  BY FundedInit, SerialInit DEF Serial
<1>2. Serial /\ [Next]_vars => Serial'
  BY FundedNext, SerialNext DEF Serial
<1>3. Serial => PaidBooksAgree
  BY DEF Serial, SerialInv
<1> QED BY <1>1, <1>2, <1>3, PTL DEF Spec

\* pay_request: when the users' calls come one after the other and no process
\* dies in a call to Campay, the payer is asked for the money once, although
\* replies may be lost or carry no reference.
THEOREM SerialRequestIsChargedOnce ==
  ASSUME ~Overlap, "crash" \notin Faults
  PROVE  Spec => []ChargedOnce
<1>1. Init => Serial
  BY FundedInit, SerialInit DEF Serial
<1>2. Serial /\ [Next]_vars => Serial'
  BY FundedNext, SerialNext DEF Serial
<1>3. Serial => ChargedOnce
  BY SerialCharges
<1> QED BY <1>1, <1>2, <1>3, PTL DEF Spec

\* _placeholder_txns and their status in every handler but the one of a reply
\* without a reference: when the users' calls come one after the other and there
\* is no such reply, both history rows tell what became of the request,
\* whatever else fails.
THEOREM SerialHistoryFollows ==
  ASSUME ~Overlap, "no_reference" \notin Faults
  PROVE  Spec => []HistoryFollows
<1>1. Init => Serial
  BY FundedInit, SerialInit DEF Serial
<1>2. Serial /\ [Next]_vars => Serial'
  BY FundedNext, SerialNext DEF Serial
<1>3. Serial => HistoryFollows
  BY DEF Serial, SerialInv, Histories
<1> QED BY <1>1, <1>2, <1>3, PTL DEF Spec

\* Where no process dies in a call to Campay and its replies carry a
\* reference, the three hold together.
THEOREM SerialRequestIsAccounted ==
  ASSUME ~Overlap, {"crash", "no_reference"} \cap Faults = {}
  PROVE  Spec => []RequestIsAccounted
<1>1. "crash" \notin Faults /\ "no_reference" \notin Faults
  OBVIOUS
<1>2. PaidBooksAgree /\ ChargedOnce /\ HistoryFollows => RequestIsAccounted
  BY DEF RequestIsAccounted
<1> QED BY <1>1, <1>2, SerialBooksAgree, SerialRequestIsChargedOnce, SerialHistoryFollows, PTL
-----------------------------------------------------------------------------
(* The atomic request.                                                     *)

\* A demand was made in its call; a request that is pending waits for none.
DemandsAreCalls ==
  /\ \A p \in Payers : provider[p] # "none" => pc[p] \in {"calling", "done"}
  /\ status \in {"none", "PENDING"} => collectOf = Nobody

Answering == Serial /\ DemandsAreCalls

LEMMA DemandsAreCallsNext == Answering /\ [Next]_vars => DemandsAreCalls'
<1> SUFFICES ASSUME Answering, [Next]_vars PROVE DemandsAreCalls'
  OBVIOUS
<1> USE DEF Answering, DemandsAreCalls, requestVars
<1>0. /\ Payers \subseteq Calls /\ Closers \subseteq Calls
      /\ Workers \subseteq Settlers /\ Webhooks \subseteq Settlers
      /\ \A c \in Calls : pc[c] \in {"idle", "loaded", "calling", "done"}
      /\ pc \in [Calls \cup Settlers ->
                   {"idle", "loaded", "calling", "done", "inquire", "payload", "settle"}]
  BY DEF Calls, Settlers, Serial, FundedInv, TypeOK, Statements
<1>1. CASE UNCHANGED vars \/ create_request
  BY <1>1 DEF vars, create_request
<1>2. ASSUME NEW c \in Calls, load_pending(c) \/ Refuse(c) PROVE DemandsAreCalls'
  BY <1>0, <1>2 DEF load_pending, Refuse, Goto
<1>3. ASSUME NEW p \in Payers, PayerStep(p) PROVE DemandsAreCalls'
  <2>1. CASE StartCollect(p) \/ CallDies(p)
    BY <1>0, <2>1 DEF StartCollect, CallDies, Goto
  <2>2. CASE ~(StartCollect(p) \/ CallDies(p))
    <3>1. /\ UNCHANGED provider /\ pc' = [pc EXCEPT ![p] = "done"]
          /\ status' \notin {"none", "PENDING"}
      BY <1>3, <2>2 DEF PayerStep, settle_via_wallet, ResumeCollect, CollectReplied, CallRaised,
                        RepliedWithoutReference, Resolve, RequestStatus, Goto
    <3> QED BY <1>0, <3>1
  <2> QED BY <2>1, <2>2
<1>4. ASSUME NEW p \in Payers, ProviderAccepts(p) \/ ProviderDecides(p) PROVE DemandsAreCalls'
  BY <1>0, <1>4 DEF ProviderAccepts, ProviderDecides, Serial, FundedInv, TypeOK
<1>5. ASSUME NEW c \in Closers, close_request(c) PROVE DemandsAreCalls'
  BY <1>0, <1>5 DEF close_request, Resolve, Goto
<1>6. ASSUME NEW s \in Settlers,
             \/ WebhookReceived(s) \/ claim(s) \/ Inquire(s) \/ read_request(s)
             \/ SettleReturns(s) \/ SettleCommits(s) \/ DeadlockVictim(s) \/ Rollback(s)
      PROVE  DemandsAreCalls'
  <2>1. \A c \in Calls : pc'[c] = pc[c]
    BY <1>0, <1>6, RequestAssumption
       DEF WebhookReceived, claim, Inquire, read_request, SettleReturns, SettleCommits,
           DeadlockVictim, Rollback, Close, Goto
  <2>2. /\ UNCHANGED <<provider, collectOf>>
        /\ status' = status \/ status' \in {"PAID", "FAILED"}
    BY <1>6 DEF WebhookReceived, claim, Inquire, read_request, SettleReturns, SettleCommits,
                DeadlockVictim, Rollback, RequestStatus
  <2> QED BY <1>0, <2>1, <2>2
<1> QED BY <1>0, <1>1, <1>2, <1>3, <1>4, <1>5, <1>6 DEF Next

\* While a call is under way all demands but its own are forgotten.
LEMMA OthersForgotten ==
  ASSUME Answering, NEW c \in Calls, Busy(c)
  PROVE  /\ \A q \in Payers : provider[q] # "none" /\ q # c => q \in Forgotten
         /\ c \notin Forgotten
         /\ pc[c] = "loaded" => Request!Undemanded
<1>1. collectOf = Nobody /\ \A q \in Payers : q # Nobody
  BY BusyAlone, RequestAssumption DEF Answering, DemandsAreCalls, Calls
<1>2. \A q \in Payers : provider[q] # "none" /\ q # c => pc[q] = "done"
  BY BusyAlone DEF Answering, DemandsAreCalls, Busy, Calls
<1>3. c \notin Forgotten
  BY DEF Busy, Forgotten
<1> QED BY <1>1, <1>2, <1>3 DEF Answering, DemandsAreCalls, Forgotten, Request!Undemanded

\* A call that commits a collect waits for its demand, or has none.
LEMMA CommitForgetsNothing ==
  ASSUME Answering, NEW c \in Calls, Busy(c), Goto(c, "done"), UNCHANGED provider,
         \/ pc[c] = "loaded" /\ UNCHANGED collectOf
         \/ collectOf' = c
  PROVE  UNCHANGED Forgotten
<1>1. /\ pc'[c] = "done" /\ pc[c] # "done" /\ collectOf = Nobody
      /\ \A q \in Payers \ {c} : pc'[q] = pc[q] /\ q # Nobody
  BY BusyAlone, RequestAssumption
     DEF Answering, Serial, FundedInv, TypeOK, DemandsAreCalls, Goto, Busy, Calls
<1>2. ASSUME NEW q \in Payers PROVE q \in Forgotten' <=> q \in Forgotten
  <2>1. CASE q = c
    BY <1>1, <2>1 DEF Answering, DemandsAreCalls, Forgotten
  <2>2. CASE q # c
    BY <1>1, <2>2 DEF Answering, DemandsAreCalls, Forgotten
  <2> QED BY <2>1, <2>2
<1> QED BY <1>2 DEF Forgotten

\* A call's commit is the answer of the atomic request, or makes it wait.
LEMMA PayerAnswers ==
  ASSUME Answering, NEW p \in Payers, PayerStep(p)
  PROVE  Request!RequestNext \/ UNCHANGED Request!atomicVars
<1> USE DEF Request!RequestNext, Request!atomicVars, ledgerVars, requestVars
<1>0. /\ p \in Calls /\ provider \in [Payers -> {"none", "PENDING"} \cup Outcomes]
      /\ Busy(p)
  BY DEF Answering, Serial, FundedInv, TypeOK, Calls, PayerStep, Busy, settle_via_wallet,
         StartCollect, ResumeCollect, CollectReplied, RepliedWithoutReference, CallRaised,
         CallDies
<1>1. /\ status = "PENDING" /\ debits = 0 /\ credits = 0 /\ Prior = {} /\ p \notin Forgotten
      /\ pc[p] = "loaded" => Request!Undemanded
  BY <1>0, BusyAlone, OthersForgotten DEF Answering
<1>2. CASE settle_via_wallet(p)
  <2>1. UNCHANGED Forgotten
    BY <1>0, <1>2, CommitForgetsNothing DEF settle_via_wallet, Resolve
  <2> QED BY <1>1, <1>2, <2>1
          DEF settle_via_wallet, Resolve, OneMore, EntryBound, Request!FromWallet
<1>3. ~ResumeCollect(p)
  BY <1>1, FS_EmptySet DEF ResumeCollect
<1>4. CASE CollectReplied(p)
  <2>1. PICK r \in Reply(p) :
          /\ IF r = "PENDING" THEN Resolve(p, "PROCESSING", "CAMPAY", p, "PROCESSING")
             ELSE Resolve(p, RequestStatus(r), "CAMPAY", p, r)
          /\ credits' = IF r = "SUCCESS" /\ credits = 0 THEN 1 ELSE credits
    BY <1>4 DEF CollectReplied
  <2>2. provider[p] # "none" /\ UNCHANGED <<provider, debits>>
    BY <1>4 DEF CollectReplied
  <2>3. UNCHANGED Forgotten
    BY <1>0, <2>1, <2>2, CommitForgetsNothing DEF Resolve
  <2>4. CASE r = "PENDING"
    BY <1>1, <2>1, <2>2, <2>3, <2>4 DEF Resolve, Request!Await, Request!Undemanded
  <2>5. CASE r # "PENDING"
    <3>1. r = provider[p] /\ r \in Outcomes
      BY <1>0, <2>2, <2>5 DEF Reply
    <3> QED BY <1>1, <2>1, <2>2, <2>3, <2>5, <3>1
            DEF Resolve, RequestStatus, Outcomes, Request!Settle, Request!Outcomes
  <2> QED BY <2>4, <2>5
<1>5. CASE RepliedWithoutReference(p) \/ CallRaised(p)
  <2>1. UNCHANGED Forgotten
    BY <1>0, <1>5, CommitForgetsNothing DEF RepliedWithoutReference, CallRaised, Resolve
  <2> QED BY <1>1, <1>5, <2>1 DEF RepliedWithoutReference, CallRaised, Resolve, Request!Fail
<1>6. CASE StartCollect(p)
  <2>1. UNCHANGED Forgotten
    BY <1>0, <1>6 DEF StartCollect, Goto, Forgotten, Answering, Serial, FundedInv, TypeOK
  <2> QED BY <1>6, <2>1 DEF StartCollect
<1>7. CASE CallDies(p)
  <2>1. /\ "crash" \in Faults /\ UNCHANGED <<status, provider, debits, credits, collectOf>>
        /\ pc' = [pc EXCEPT ![p] = "done"]
    BY <1>7 DEF CallDies, Goto
  <2>2. collectOf # p
    BY <1>0, <1>1, RequestAssumption DEF Answering, DemandsAreCalls, Calls
  <2>3. Forgotten' = IF provider[p] = "none" THEN Forgotten ELSE Forgotten \cup {p}
    BY <1>0, <2>1, <2>2 DEF Forgotten, Answering, Serial, FundedInv, TypeOK, Busy, Calls
  <2>4. CASE provider[p] = "none"
    BY <2>1, <2>3, <2>4
  <2>5. CASE provider[p] # "none"
    BY <1>1, <2>1, <2>3, <2>5 DEF Request!Forget
  <2> QED BY <2>4, <2>5
<1> QED BY <1>2, <1>3, <1>4, <1>5, <1>6, <1>7 DEF PayerStep

LEMMA CloserAnswers ==
  ASSUME Answering, NEW c \in Closers, close_request(c)
  PROVE  Request!RequestNext
<1>1. c \in Calls /\ Busy(c) /\ pc[c] = "loaded"
  BY DEF close_request, Calls, Busy
<1>2. UNCHANGED Forgotten
  BY <1>1, CommitForgetsNothing DEF close_request, Resolve
<1>3. status = "PENDING" /\ Request!Undemanded
  BY <1>1, BusyAlone, OthersForgotten DEF Answering
<1> QED BY <1>2, <1>3
        DEF close_request, Resolve, ledgerVars, Request!RequestNext, Request!TurnDown

\* Campay takes a demand on while the call waits for it, and nobody else's.
LEMMA OutsideAnswers ==
  ASSUME Answering,
         create_request \/ \E p \in Payers : ProviderAccepts(p) \/ ProviderDecides(p)
  PROVE  Request!RequestNext
<1> USE DEF Request!RequestNext, ledgerVars, requestVars
<1>1. CASE create_request
  BY <1>1 DEF create_request, Forgotten, Request!Open
<1>2. ASSUME NEW p \in Payers, ProviderAccepts(p) PROVE Request!RequestNext
  <2>1. p \in Calls /\ Busy(p) /\ provider[p] = "none" /\ pc[p] = "calling"
    BY <1>2 DEF ProviderAccepts, Busy, Calls
  <2>2. status = "PENDING" /\ Request!Undemanded
    BY <2>1, BusyAlone, OthersForgotten DEF Answering, Request!Undemanded
  <2>3. provider' = [provider EXCEPT ![p] = "PENDING"] /\ UNCHANGED <<pc, collectOf>>
    BY <1>2 DEF ProviderAccepts
  <2>4. UNCHANGED Forgotten
    BY <2>1, <2>3 DEF Forgotten, Answering, Serial, FundedInv, TypeOK
  <2> QED BY <1>2, <2>1, <2>2, <2>4 DEF ProviderAccepts, Request!Ask
<1>3. ASSUME NEW p \in Payers, ProviderDecides(p) PROVE Request!RequestNext
  <2>1. UNCHANGED Forgotten
    BY <1>3 DEF ProviderDecides, Outcomes, Forgotten, Answering, Serial, FundedInv, TypeOK
  <2> QED BY <1>3, <2>1 DEF ProviderDecides, Outcomes, Request!Decide, Request!Outcomes
<1> QED BY <1>1, <1>2, <1>3

\* What a settler does leaves the calls alone.
LEMMA SettlersForgetNothing ==
  ASSUME Answering, NEW s \in Settlers,
         \/ WebhookReceived(s) \/ claim(s) \/ Inquire(s) \/ read_request(s)
         \/ SettleReturns(s) \/ SettleCommits(s) \/ DeadlockVictim(s) \/ Rollback(s)
  PROVE  UNCHANGED Forgotten
<1>1. pc \in [Calls \cup Settlers ->
                {"idle", "loaded", "calling", "done", "inquire", "payload", "settle"}]
  BY DEF Answering, Serial, FundedInv, TypeOK
<1>2. \A p \in Payers : pc'[p] = pc[p]
  BY <1>1, RequestAssumption
     DEF WebhookReceived, claim, Inquire, read_request, SettleReturns, SettleCommits,
         DeadlockVictim, Rollback, Close, Goto, Calls
<1>3. UNCHANGED <<provider, collectOf>>
  BY DEF WebhookReceived, claim, Inquire, read_request, SettleReturns, SettleCommits,
         DeadlockVictim, Rollback, requestVars
<1> QED BY <1>2, <1>3 DEF Forgotten

\* The settler's commit is the answer its collect was waited for.
LEMMA SettleAnswers ==
  ASSUME Answering, NEW s \in Settlers, SettleCommits(s)
  PROVE  Request!RequestNext
<1> DEFINE p == target[s]
           o == provider[p]
<1> USE DEF Answering
<1>1. /\ p \in Payers /\ o \in Outcomes /\ pc[s] = "settle"
      /\ collectOf = p /\ p \notin Forgotten
  BY DEF SettleCommits, Serial, FundedInv, SettlersKnow, SerialInv, SettlersHold, Forgotten
<1>2. status \in {"PENDING", "PROCESSING"} /\ seen[s].credits = 0 /\ credits = 0
  BY <1>1 DEF SettleCommits, Serial, SerialInv, SettlersHold, PaidBooksAgree, Closed
<1>3. /\ status' = RequestStatus(o) /\ UNCHANGED <<provider, debits>>
      /\ credits' = IF o = "SUCCESS" THEN 1 ELSE 0
  BY <1>2 DEF SettleCommits, OneMore, EntryBound
<1>4. UNCHANGED Forgotten
  BY SettlersForgetNothing
<1>5. Request!Settle(p)
  BY <1>1, <1>2, <1>3, <1>4 DEF RequestStatus, Outcomes, Request!Settle, Request!Outcomes
<1> QED BY <1>1, <1>5 DEF Request!RequestNext

LEMMA StepAnswers == Answering /\ [Next]_vars => [Request!RequestNext]_Request!atomicVars
<1> SUFFICES ASSUME Answering, [Next]_vars
             PROVE  Request!RequestNext \/ UNCHANGED Request!atomicVars
  OBVIOUS
<1> USE DEF Request!atomicVars, requestVars, ledgerVars
<1>1. CASE UNCHANGED vars
  BY <1>1 DEF vars, Forgotten
<1>2. ASSUME NEW c \in Calls, load_pending(c) \/ Refuse(c)
      PROVE  UNCHANGED Request!atomicVars
  <2>1. PICK label \in {"loaded", "done"} :
          Goto(c, label) /\ pc[c] \in {"idle", "loaded"}
    BY <1>2 DEF load_pending, Refuse
  <2>2. UNCHANGED <<requestVars, collect, provider, ledgerVars>>
    BY <1>2 DEF load_pending, Refuse
  <2>3. c \in Payers => provider[c] = "none"
    BY <2>1 DEF Answering, DemandsAreCalls
  <2>4. UNCHANGED Forgotten
    BY <2>1, <2>2, <2>3 DEF Forgotten, Goto, Answering, Serial, FundedInv, TypeOK, Calls
  <2> QED BY <2>2, <2>4
<1>3. ASSUME NEW s \in Settlers,
             \/ WebhookReceived(s) \/ claim(s) \/ Inquire(s) \/ read_request(s)
             \/ SettleReturns(s) \/ DeadlockVictim(s) \/ Rollback(s)
      PROVE  UNCHANGED Request!atomicVars
  <2>1. UNCHANGED Forgotten
    BY <1>3, SettlersForgetNothing
  <2> QED BY <1>3, <2>1 DEF WebhookReceived, claim, Inquire, read_request, SettleReturns,
                            DeadlockVictim, Rollback
<1>4. Workers \subseteq Settlers /\ Webhooks \subseteq Settlers
  BY DEF Settlers
<1> QED BY <1>1, <1>2, <1>3, <1>4, PayerAnswers, CloserAnswers, OutsideAnswers, SettleAnswers
        DEF Next

\* pay_request, decline_request, cancel_request, the webhook and the workers:
\* while the parties call one after the other they implement AtomicRequest,
\* whatever fails.  A demand is made once unless a process died with one, only a
\* request nobody waits for is paid from the wallet or turned down, and one
\* commit answers it and moves its money.
THEOREM RequestImplementsContract ==
  ASSUME ~Overlap
  PROVE  Spec => ImplementsRequest
<1>1. Init => Answering
  BY FundedInit, SerialInit DEF Answering, Serial, DemandsAreCalls, Init
<1>2. Answering /\ [Next]_vars => Answering'
  BY FundedNext, SerialNext, DemandsAreCallsNext DEF Answering, Serial
<1>3. Init => Request!RequestInit
  BY DEF Init, Forgotten, Request!RequestInit
<1> QED BY <1>1, <1>2, <1>3, StepAnswers, PTL DEF Spec, ImplementsRequest, Request!RequestSpec
=============================================================================
