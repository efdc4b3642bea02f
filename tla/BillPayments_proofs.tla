------------------------ MODULE BillPayments_proofs -------------------------
(***************************************************************************)
(* Proofs about BillPayments: for any number of bills, clients and workers *)
(* and with restarts at any time, a bill is charged once unless it failed, *)
(* its outcome stands, and a charge that is held is watched by its request *)
(* and then by a timer, until a restart or an error loses it.  Timers and  *)
(* workers share the transactions without meeting: the timers' are         *)
(* PROCESSING, the workers' are PENDING, and among the workers the row's   *)
(* lock decides.  Together they implement AtomicBill.                      *)
(***************************************************************************)
EXTENDS BillContract, TLAPS

Open == {"PENDING", "PROCESSING"}

\* The ledger of a transaction by its status.
BooksByStatus ==
  \A t \in Txns :
    /\ status[t] = "none" => refunds[t] = 0 /\ counted[t] = 0
    /\ status[t] \in Open =>
         debits[t] = 1 /\ refunds[t] = 0 /\ counted[t] = 0 /\ token[t] \in Tokens
    /\ status[t] = "SUCCESS" => debits[t] = 1 /\ refunds[t] = 0
    /\ status[t] = "FAILED" => debits[t] = refunds[t]

\* A timer, or a request about to start one, belongs to a PROCESSING
\* transaction, and only one of them does.
TimersProcess ==
  /\ \A t \in Txns : timer[t] # "off" => status[t] = "PROCESSING"
  /\ \A c \in Clients : pc[c] \in Txns =>
       /\ status[pc[c]] = "PROCESSING" /\ timer[pc[c]] = "off"
       /\ \A d \in Clients : pc[d] = pc[c] => d = c

\* What is flagged is PENDING, and a worker's row is flagged and locked.
WorkersLock ==
  /\ \A t \in Txns : recon[t] => status[t] = "PENDING"
  /\ \A w \in Workers : claimed[w] # Nobody =>
       recon[claimed[w]] /\ rowLock[claimed[w]] = w

\* A request past its checks holds the token it has loaded.
LoadedHolds == \A c \in Clients : pc[c] = "loaded" => held[c] \in Tokens

IInv == TypeOK /\ BooksByStatus /\ TimersProcess /\ WorkersLock /\ LoadedHolds

\* A step that lets outcomes stand.
Stands == \A t \in Txns : (status[t] \in Terminal) => (status'[t] = status[t])

-----------------------------------------------------------------------------
LEMMA InitIInv == Init => IInv
<1> SUFFICES ASSUME Init PROVE IInv
  OBVIOUS
<1> USE BillAssumption
<1>1. TypeOK
  BY DEF Init, TypeOK, Terminal
<1>2. TimersProcess
  BY DEF Init, TimersProcess
<1> QED BY <1>1, <1>2 DEF Init, IInv, BooksByStatus, Open, WorkersLock, LoadedHolds

\* Loading a validation, being refused, starting and firing a timer.
LEMMA ReadIInv ==
  ASSUME IInv, NEW c \in Clients,
         LoadValidation(c) \/ Refuse(c) \/ ScheduleCompletion(c) \/ ScheduleRaises(c)
  PROVE  IInv' /\ Stands
<1> USE DEF IInv, txnVars
<1>1. CASE LoadValidation(c)
  BY <1>1, BillAssumption DEF LoadValidation, TypeOK, BooksByStatus, TimersProcess, WorkersLock,
                              LoadedHolds, Stands
<1>2. CASE Refuse(c)
  BY <1>2, BillAssumption DEF Refuse, TypeOK, BooksByStatus, TimersProcess, WorkersLock,
                              LoadedHolds, Stands
<1>3. CASE ScheduleCompletion(c)
  <2>1. TypeOK'
    BY <1>3 DEF ScheduleCompletion, TypeOK
  <2>2. TimersProcess'
    BY <1>3, BillAssumption DEF ScheduleCompletion, TypeOK, TimersProcess
  <2> QED BY <1>3, <2>1, <2>2, BillAssumption
          DEF ScheduleCompletion, TypeOK, BooksByStatus, WorkersLock, LoadedHolds, Stands
<1>4. CASE ScheduleRaises(c)
  BY <1>4, BillAssumption DEF ScheduleRaises, TypeOK, BooksByStatus, TimersProcess, WorkersLock,
                              LoadedHolds, Stands
<1> QED BY <1>1, <1>2, <1>3, <1>4

\* The commit of a validated payment opens a transaction with a new id.
LEMMA ConfirmIInv ==
  ASSUME IInv, NEW c \in Clients, confirm_electricity(c)
  PROVE  IInv' /\ Stands
<1> USE DEF IInv, Terminal
<1> DEFINE unknown == Answer[held[c]] \in Unknowns
<1>1. PICK t \in Txns :
        /\ status[t] = "none"
        /\ consumed' = [consumed EXCEPT ![held[c]] = TRUE]
        /\ status' = [status EXCEPT ![t] = IF unknown THEN "PENDING" ELSE "PROCESSING"]
        /\ recon' = [recon EXCEPT ![t] = unknown]
        /\ token' = [token EXCEPT ![t] = held[c]]
        /\ debits' = [debits EXCEPT ![t] = 1]
        /\ IF unknown
           THEN pc' = [pc EXCEPT ![c] = "idle"] /\ held' = [held EXCEPT ![c] = NoToken]
           ELSE pc' = [pc EXCEPT ![c] = t] /\ UNCHANGED held
  BY DEF confirm_electricity
<1>2. /\ pc[c] = "loaded" /\ held[c] \in Tokens /\ unknown \in BOOLEAN
      /\ UNCHANGED <<refunds, counted, rowLock, timer, claimed>>
  BY DEF confirm_electricity, LoadedHolds
<1>3. /\ timer[t] = "off" /\ ~recon[t] /\ refunds[t] = 0 /\ counted[t] = 0
      /\ \A d \in Clients : pc[d] # t
      /\ \A w \in Workers : claimed[w] # t
  BY <1>1, BillAssumption DEF TypeOK, TimersProcess, WorkersLock, BooksByStatus
<1>4. TypeOK'
  <2>1. pc' \in [Clients -> {"idle", "loaded"} \cup Txns]
        /\ held' \in [Clients -> Tokens \cup {NoToken}]
    BY <1>1, <1>2 DEF TypeOK
  <2>2. /\ status' \in [Txns -> {"none", "PENDING", "PROCESSING"} \cup Terminal]
        /\ recon' \in [Txns -> BOOLEAN] /\ token' \in [Txns -> Tokens \cup {NoToken}]
        /\ debits' \in [Txns -> 0..1] /\ consumed' \in [Tokens -> BOOLEAN]
    BY <1>1, <1>2 DEF TypeOK
  <2> QED BY <1>2, <2>1, <2>2 DEF TypeOK
<1>5. BooksByStatus'
  BY <1>1, <1>2, <1>3 DEF TypeOK, BooksByStatus, Open
<1>6. TimersProcess'
  <2>1. CASE unknown
    BY <2>1, <1>1, <1>2, <1>3, BillAssumption DEF TypeOK, TimersProcess
  <2>2. CASE ~unknown
    BY <2>2, <1>1, <1>2, <1>3, BillAssumption DEF TypeOK, TimersProcess
  <2> QED BY <2>1, <2>2
<1>7. WorkersLock'
  BY <1>1, <1>2, <1>3 DEF TypeOK, WorkersLock
<1>8. LoadedHolds' /\ Stands
  BY <1>1, <1>2, BillAssumption DEF TypeOK, LoadedHolds, Stands
<1> QED BY <1>4, <1>5, <1>6, <1>7, <1>8

\* A top-up is opened and decided in one commit.
LEMMA TopupIInv ==
  ASSUME IInv, NEW c \in Clients, confirm_topup(c)
  PROVE  IInv' /\ Stands
<1> USE DEF IInv, Terminal
<1>1. PICK t \in Txns, outcome \in Terminal :
        LET paid == IF outcome = "SUCCESS" THEN 1 ELSE 0
        IN  /\ status[t] = "none"
            /\ status' = [status EXCEPT ![t] = outcome]
            /\ debits' = [debits EXCEPT ![t] = paid]
            /\ counted' = [counted EXCEPT ![t] = paid]
  BY DEF confirm_topup
<1>2. UNCHANGED <<consumed, recon, token, refunds, rowLock, pc, held, timer, claimed>>
  BY DEF confirm_topup, clientVars
<1>3. timer[t] = "off" /\ ~recon[t] /\ refunds[t] = 0 /\ \A d \in Clients : pc[d] # t
  BY <1>1 DEF TypeOK, TimersProcess, WorkersLock, BooksByStatus
<1>4. TypeOK'
  BY <1>1, <1>2 DEF TypeOK
<1>5. BooksByStatus'
  BY <1>1, <1>2, <1>3 DEF TypeOK, BooksByStatus, Open
<1>6. TimersProcess' /\ WorkersLock' /\ LoadedHolds'
  BY <1>1, <1>2, <1>3 DEF TypeOK, TimersProcess, WorkersLock, LoadedHolds
<1>7. Stands
  BY <1>1 DEF TypeOK, Stands
<1> QED BY <1>4, <1>5, <1>6, <1>7

\* The timer's thread decides a PROCESSING transaction, or gives up.
LEMMA TimerIInv ==
  ASSUME IInv, NEW t \in Txns, Fire(t) \/ CompleteProviderOperation(t) \/ CompletionRaises(t)
  PROVE  IInv' /\ Stands
<1> USE DEF IInv, Terminal
<1>1. CASE Fire(t)
  BY <1>1 DEF Fire, txnVars, clientVars, TypeOK, BooksByStatus, TimersProcess, WorkersLock,
              LoadedHolds, Stands
<1>2. CASE CompletionRaises(t)
  BY <1>2 DEF CompletionRaises, txnVars, clientVars, TypeOK, BooksByStatus, TimersProcess,
              WorkersLock, LoadedHolds, Stands
<1>3. CASE CompleteProviderOperation(t)
  <2>1. /\ timer[t] = "running" /\ timer' = [timer EXCEPT ![t] = "off"]
        /\ UNCHANGED <<consumed, recon, token, rowLock, pc, held, claimed>>
    BY <1>3 DEF CompleteProviderOperation, clientVars
  <2>2. /\ status[t] = "PROCESSING" /\ debits[t] = 1 /\ refunds[t] = 0 /\ counted[t] = 0
        /\ ~recon[t] /\ \A c \in Clients : pc[c] # t
    BY <2>1 DEF TypeOK, TimersProcess, BooksByStatus, WorkersLock, Open
  <2>3. \/ /\ status' = [status EXCEPT ![t] = "FAILED"]
           /\ refunds' = [refunds EXCEPT ![t] = 1]
           /\ UNCHANGED <<debits, counted>>
        \/ /\ status' = [status EXCEPT ![t] = "SUCCESS"]
           /\ debits' = [debits EXCEPT ![t] = 1]
           /\ counted' = [counted EXCEPT ![t] = 1]
           /\ UNCHANGED refunds
    BY <1>3, <2>2 DEF CompleteProviderOperation, fail, succeed
  <2>4. TypeOK'
    BY <2>1, <2>3 DEF TypeOK
  <2>5. BooksByStatus'
    BY <2>1, <2>2, <2>3 DEF TypeOK, BooksByStatus, Open
  <2>6. TimersProcess' /\ WorkersLock' /\ LoadedHolds'
    BY <2>1, <2>2, <2>3 DEF TypeOK, TimersProcess, WorkersLock, LoadedHolds
  <2>7. Stands
    BY <2>2, <2>3 DEF TypeOK, Stands
  <2> QED BY <2>4, <2>5, <2>6, <2>7
<1> QED BY <1>1, <1>2, <1>3

\* A worker claims a flagged row, and settles it under its lock or lets go.
LEMMA WorkerIInv ==
  ASSUME IInv, NEW w \in Workers, ClaimNext(w) \/ Reconcile(w) \/ ReconcileRaises(w)
  PROVE  IInv' /\ Stands
<1> USE DEF IInv, Terminal
<1>1. CASE ClaimNext(w)
  <2>1. PICK t \in Txns : claim(w, t) /\ claimed' = [claimed EXCEPT ![w] = t]
    BY <1>1 DEF ClaimNext
  <2>2. /\ recon[t] /\ rowLock[t] = Nobody /\ rowLock' = [rowLock EXCEPT ![t] = w]
        /\ UNCHANGED <<consumed, status, recon, token, debits, refunds, counted, pc, held, timer>>
    BY <1>1, <2>1 DEF ClaimNext, claim, txnVars, clientVars
  <2>3. TypeOK'
    BY <2>1, <2>2 DEF TypeOK
  <2>4. WorkersLock'
    BY <2>1, <2>2, BillAssumption DEF TypeOK, WorkersLock
  <2> QED BY <2>2, <2>3, <2>4 DEF BooksByStatus, TimersProcess, LoadedHolds, Stands
<1>2. ASSUME claimed[w] # Nobody, Release(w)
      PROVE  /\ rowLock' \in [Txns -> Workers \cup {Nobody}]
             /\ claimed' \in [Workers -> Txns \cup {Nobody}]
             /\ \A v \in Workers : claimed'[v] # Nobody =>
                  claimed'[v] = claimed[v] /\ claimed[v] # claimed[w] /\ rowLock'[claimed[v]] = v
  BY <1>2, BillAssumption DEF Release, TypeOK, WorkersLock
<1>3. CASE ReconcileRaises(w)
  <2>1. /\ claimed[w] # Nobody /\ Release(w)
        /\ UNCHANGED <<consumed, status, recon, token, debits, refunds, counted, pc, held, timer>>
    BY <1>3 DEF ReconcileRaises, txnVars, clientVars
  <2> QED BY <1>2, <2>1 DEF TypeOK, BooksByStatus, TimersProcess, WorkersLock, LoadedHolds, Stands
<1>4. CASE Reconcile(w)
  <2> DEFINE t == claimed[w]
  <2>1. /\ t # Nobody /\ t \in Txns /\ Release(w)
        /\ recon' = [recon EXCEPT ![t] = FALSE]
        /\ UNCHANGED <<consumed, token, counted, pc, held, timer>>
    BY <1>4 DEF Reconcile, clientVars, TypeOK
  <2>2. /\ status[t] = "PENDING" /\ debits[t] = 1 /\ refunds[t] = 0
        /\ timer[t] = "off" /\ \A c \in Clients : pc[c] # t
    BY <2>1 DEF TypeOK, WorkersLock, BooksByStatus, TimersProcess, Open
  <2>3. \/ /\ status' = [status EXCEPT ![t] = "FAILED"]
           /\ refunds' = [refunds EXCEPT ![t] = 1]
           /\ UNCHANGED debits
        \/ /\ status' = [status EXCEPT ![t] = "SUCCESS"]
           /\ debits' = [debits EXCEPT ![t] = 1]
           /\ UNCHANGED refunds
    BY <1>4, <2>2 DEF Reconcile, fail, succeed
  <2>4. TypeOK'
    BY <1>2, <2>1, <2>3 DEF TypeOK
  <2>5. BooksByStatus'
    BY <2>1, <2>2, <2>3 DEF TypeOK, BooksByStatus, Open
  <2>6. WorkersLock'
    BY <1>2, <2>1, <2>2, <2>3 DEF TypeOK, WorkersLock
  <2>7. TimersProcess' /\ LoadedHolds'
    BY <2>1, <2>2, <2>3 DEF TypeOK, TimersProcess, LoadedHolds
  <2>8. Stands
    BY <2>2, <2>3 DEF TypeOK, Stands
  <2> QED BY <2>4, <2>5, <2>6, <2>7, <2>8
<1> QED BY <1>1, <1>3, <1>4

\* A restart takes requests, timers and locks, and no row.
LEMMA CrashIInv ==
  ASSUME IInv, Crash
  PROVE  IInv' /\ Stands
BY BillAssumption DEF Crash, txnVars, IInv, TypeOK, BooksByStatus, TimersProcess, WorkersLock,
                      LoadedHolds, Stands

-----------------------------------------------------------------------------
LEMMA NextIInv == IInv /\ [Next]_vars => IInv' /\ Stands
<1> SUFFICES ASSUME IInv, [Next]_vars PROVE IInv' /\ Stands
  OBVIOUS
<1>1. ASSUME NEW c \in Clients,
             \/ LoadValidation(c) \/ Refuse(c) \/ ScheduleCompletion(c)
             \/ ScheduleRaises(c) \/ confirm_electricity(c) \/ confirm_topup(c)
      PROVE  IInv' /\ Stands
  BY <1>1, ReadIInv, ConfirmIInv, TopupIInv
<1>2. ASSUME NEW t \in Txns, Fire(t) \/ CompleteProviderOperation(t) \/ CompletionRaises(t)
      PROVE  IInv' /\ Stands
  BY <1>2, TimerIInv
<1>3. ASSUME NEW w \in Workers, ClaimNext(w) \/ Reconcile(w) \/ ReconcileRaises(w)
      PROVE  IInv' /\ Stands
  BY <1>3, WorkerIInv
<1>4. CASE Crash
  BY <1>4, CrashIInv
<1>5. CASE UNCHANGED vars
  BY <1>5 DEF vars, txnVars, clientVars, IInv, TypeOK, BooksByStatus, TimersProcess, WorkersLock,
              LoadedHolds, Stands
<1> QED BY <1>1, <1>2, <1>3, <1>4, <1>5 DEF Next

LEMMA SpecIInv == Spec => []IInv
<1>1. IInv /\ [Next]_vars => IInv'
  BY NextIInv
<1> QED BY InitIInv, <1>1, PTL DEF Spec

\* Every variable keeps its type.
THEOREM BillTypeCorrect == Spec => []TypeOK
<1>1. IInv => TypeOK
  BY DEF IInv
<1> QED BY <1>1, SpecIInv, PTL

\* The user pays once for every bill that has not failed, and for no other.
THEOREM BillsChargedUnlessFailed == Spec => []ChargedUnlessFailed
<1>1. IInv => ChargedUnlessFailed
  BY DEF IInv, TypeOK, BooksByStatus, ChargedUnlessFailed, Open, Terminal
<1> QED BY <1>1, SpecIInv, PTL

\* No late timer, second worker or restart changes an outcome.
THEOREM BillOutcomeStands == Spec => OutcomeStands
<1>1. IInv /\ [Next]_vars => [Stands]_vars
  BY NextIInv
<1>2. [][Stands]_vars => OutcomeStands
  BY PTL DEF OutcomeStands, Stands
<1> QED BY <1>1, <1>2, SpecIInv, PTL DEF Spec

-----------------------------------------------------------------------------
(***************************************************************************)
(* Who watches a held charge.  Requests hand it to the timer they start,   *)
(* the timer's thread to the outcome; only what kills one of them does not *)
(* hand it on.                                                             *)
(***************************************************************************)

Watches == \A t \in Txns : (~Lost(t) /\ Lost(t)') => LosesTimer(t)

LEMMA RequestWatches ==
  ASSUME IInv, NEW t \in Txns, ~Lost(t), NEW c \in Clients,
         \/ LoadValidation(c) \/ Refuse(c) \/ confirm_electricity(c)
         \/ ScheduleCompletion(c) \/ (ScheduleRaises(c) /\ pc[c] # t) \/ confirm_topup(c)
  PROVE  ~Lost(t)'
<1> USE DEF IInv
<1>1. t \notin {"idle", "loaded"}
  BY BillAssumption
<1>2. CASE LoadValidation(c) \/ Refuse(c)
  <2>1. /\ UNCHANGED <<status, timer>> /\ pc[c] \in {"idle", "loaded"}
        /\ \A d \in Clients \ {c} : pc'[d] = pc[d]
    BY <1>2 DEF LoadValidation, Refuse, txnVars, TypeOK
  <2>2. \A d \in Clients : pc[d] = t => pc'[d] = t
    BY <1>1, <2>1
  <2> QED BY <2>1, <2>2 DEF Lost
<1>3. CASE ScheduleCompletion(c)
  <2>1. /\ pc[c] \in Txns /\ timer' = [timer EXCEPT ![pc[c]] = "armed"] /\ UNCHANGED status
        /\ \A d \in Clients \ {c} : pc'[d] = pc[d]
    BY <1>3 DEF ScheduleCompletion, txnVars, TypeOK
  <2>2. CASE pc[c] = t
    BY <2>1, <2>2 DEF Lost, TypeOK
  <2>3. CASE pc[c] # t
    <3>1. timer'[t] = timer[t] /\ \A d \in Clients : pc[d] = t => pc'[d] = t
      BY <2>1, <2>3 DEF TypeOK
    <3> QED BY <2>1, <3>1 DEF Lost
  <2> QED BY <2>2, <2>3
<1>4. CASE confirm_electricity(c)
  <2> DEFINE unknown == Answer[held[c]] \in Unknowns
  <2>1. PICK x \in Txns :
          /\ status' = [status EXCEPT ![x] = IF unknown THEN "PENDING" ELSE "PROCESSING"]
          /\ IF unknown THEN pc' = [pc EXCEPT ![c] = "idle"] ELSE pc' = [pc EXCEPT ![c] = x]
    BY <1>4 DEF confirm_electricity
  <2>2. pc[c] = "loaded" /\ UNCHANGED timer
    BY <1>4 DEF confirm_electricity
  <2> HIDE DEF unknown
  <2>3. CASE x = t
    BY <2>1, <2>3 DEF Lost, TypeOK
  <2>4. CASE x # t
    <3>1. status'[t] = status[t] /\ \A d \in Clients : pc[d] = t => pc'[d] = t
      BY <1>1, <2>1, <2>2, <2>4 DEF TypeOK
    <3> QED BY <2>2, <3>1 DEF Lost
  <2> QED BY <2>3, <2>4
<1>5. CASE confirm_topup(c)
  <2>1. PICK x \in Txns, outcome \in Terminal : status' = [status EXCEPT ![x] = outcome]
    BY <1>5 DEF confirm_topup
  <2>2. UNCHANGED <<pc, timer>>
    BY <1>5 DEF confirm_topup, clientVars
  <2> QED BY <2>1, <2>2 DEF Lost, TypeOK, Terminal
<1>6. CASE ScheduleRaises(c) /\ pc[c] # t
  <2>1. /\ UNCHANGED <<status, timer>>
        /\ \A d \in Clients \ {c} : pc'[d] = pc[d]
    BY <1>6 DEF ScheduleRaises, txnVars, TypeOK
  <2>2. \A d \in Clients : pc[d] = t => pc'[d] = t
    BY <1>6, <2>1
  <2> QED BY <2>1, <2>2 DEF Lost
<1> QED BY <1>2, <1>3, <1>4, <1>5, <1>6

\* The thread of a timer leaves it for the outcome, or it had nothing to watch.
LEMMA TimerWatches ==
  ASSUME IInv, NEW t \in Txns, ~Lost(t), NEW x \in Txns,
         Fire(x) \/ CompleteProviderOperation(x) \/ (CompletionRaises(x) /\ x # t)
  PROVE  ~Lost(t)'
<1> USE DEF IInv, TypeOK, Lost
<1>1. CASE Fire(x)
  BY <1>1 DEF Fire, txnVars, clientVars
<1>2. CASE CompleteProviderOperation(x)
  <2>1. /\ timer' = [timer EXCEPT ![x] = "off"] /\ UNCHANGED pc
        /\ \/ status' = [status EXCEPT ![x] = "FAILED"]
           \/ status' = [status EXCEPT ![x] = "SUCCESS"]
    BY <1>2 DEF CompleteProviderOperation, clientVars, fail, succeed
  <2> QED BY <2>1
<1>3. CASE CompletionRaises(x) /\ x # t
  BY <1>3 DEF CompletionRaises, txnVars, clientVars
<1> QED BY <1>1, <1>2, <1>3

LEMMA WorkerWatches ==
  ASSUME IInv, NEW t \in Txns, ~Lost(t), NEW w \in Workers,
         ClaimNext(w) \/ Reconcile(w) \/ ReconcileRaises(w)
  PROVE  ~Lost(t)'
<1>1. /\ UNCHANGED <<pc, timer>>
      /\ \/ UNCHANGED status
         \/ status' = [status EXCEPT ![claimed[w]] = "FAILED"]
         \/ status' = [status EXCEPT ![claimed[w]] = "SUCCESS"]
  BY DEF ClaimNext, Reconcile, ReconcileRaises, txnVars, clientVars, fail, succeed
<1> QED BY <1>1 DEF Lost, IInv, TypeOK

LEMMA NextWatches == IInv /\ [Next]_vars => Watches
<1> SUFFICES ASSUME IInv, [Next]_vars, NEW t \in Txns, ~Lost(t),
                    ~Crash, ~CompletionRaises(t),
                    \A c \in Clients : ScheduleRaises(c) => pc[c] # t
             PROVE  ~Lost(t)'
  BY DEF Watches, LosesTimer
<1>1. CASE UNCHANGED vars
  <2>1. UNCHANGED <<status, timer, pc>>
    BY <1>1 DEF vars, txnVars, clientVars
  <2> QED BY <2>1 DEF Lost
<1>2. ASSUME NEW c \in Clients,
             \/ LoadValidation(c) \/ Refuse(c) \/ confirm_electricity(c)
             \/ ScheduleCompletion(c) \/ ScheduleRaises(c) \/ confirm_topup(c)
      PROVE  ~Lost(t)'
  <2>1. ScheduleRaises(c) => pc[c] # t
    OBVIOUS
  <2> QED BY <1>2, <2>1, RequestWatches
<1>3. ASSUME NEW x \in Txns, Fire(x) \/ CompleteProviderOperation(x) \/ CompletionRaises(x)
      PROVE  ~Lost(t)'
  <2>1. CompletionRaises(x) => x # t
    BY DEF CompletionRaises
  <2>2. Fire(x) \/ CompleteProviderOperation(x) \/ (CompletionRaises(x) /\ x # t)
    BY <1>3, <2>1
  <2> QED BY <2>2, TimerWatches
<1>4. ASSUME NEW w \in Workers, ClaimNext(w) \/ Reconcile(w) \/ ReconcileRaises(w)
      PROVE  ~Lost(t)'
  BY <1>4, WorkerWatches
<1> QED BY <1>1, <1>2, <1>3, <1>4 DEF Next

\* A held charge is left with nobody to end it only by a restart, by an error in
\* the thread of its timer, or by one in its request between the commit and the
\* start of that timer (billing_service.py).
THEOREM HeldBillIsWatched == Spec => HeldIsWatched
<1>1. IInv /\ [Next]_vars => [Watches]_vars
  BY NextWatches
<1>2. [][Watches]_vars => HeldIsWatched
  BY PTL DEF HeldIsWatched, Watches
<1> QED BY <1>1, <1>2, SpecIInv, PTL DEF Spec

-----------------------------------------------------------------------------
(***************************************************************************)
(* The refinement of AtomicBill.  What the provider will answer decides on *)
(* the way of a bill, timer or worker; so each of them, which knows only   *)
(* its own kind of refusal, gives the bill the outcome of its meter.       *)
(***************************************************************************)

RoutedByAnswer ==
  \A t \in Txns :
    /\ status[t] = "PENDING" => Answer[token[t]] \in Unknowns
    /\ status[t] = "PROCESSING" => Answer[token[t]] \in {"success", "declined"}

BillInv == IInv /\ RoutedByAnswer

\* A transaction that takes a status, with the ledger entries that belong to it.
LEMMA Becomes ==
  ASSUME IInv, NEW t \in Txns, NEW s \in Open \cup Terminal,
         status' = [status EXCEPT ![t] = s],
         \A x \in Txns \ {t} : debits'[x] = debits[x] /\ refunds'[x] = refunds[x],
         debits'[t] - refunds'[t] = IF s = "FAILED" THEN 0 ELSE 1
  PROVE  Bill!Become(t, IF s \in Open THEN "held" ELSE s)
<1> DEFINE b == IF s \in Open THEN "held" ELSE s
<1>1. status \in [Txns -> {"none", "PENDING", "PROCESSING"} \cup Terminal]
  BY DEF IInv, TypeOK
<1>2. BillState' = [BillState EXCEPT ![t] = b]
  BY <1>1 DEF BillState, Open
<1>3. (b = "FAILED") <=> (s = "FAILED")
  BY DEF Open
<1> HIDE DEF b
<1>4. NetPaid' = [NetPaid EXCEPT ![t] = IF b = "FAILED" THEN 0 ELSE 1]
  BY <1>3 DEF NetPaid
<1> QED BY <1>2, <1>4 DEF Bill!Become, b

\* The commit of a validated payment holds its price, and sends the bill the
\* way its meter's answer asks for.
LEMMA ConfirmHolds ==
  ASSUME BillInv, NEW c \in Clients, confirm_electricity(c)
  PROVE  RoutedByAnswer' /\ Bill!BillNext
<1> USE DEF BillInv
<1> DEFINE k == held[c]
           s == IF Answer[k] \in Unknowns THEN "PENDING" ELSE "PROCESSING"
<1>1. PICK t \in Txns :
        /\ status[t] = "none"
        /\ status' = [status EXCEPT ![t] = s]
        /\ token' = [token EXCEPT ![t] = k]
        /\ debits' = [debits EXCEPT ![t] = 1]
  BY DEF confirm_electricity
<1>2. k \in Tokens /\ Answer[k] \in Answers /\ UNCHANGED refunds /\ s \in Open
  BY BillAssumption DEF confirm_electricity, IInv, LoadedHolds, Open
<1>3. RoutedByAnswer'
  BY <1>1, <1>2 DEF IInv, TypeOK, RoutedByAnswer, Answers, Unknowns
<1> HIDE DEF s, k
<1>4. refunds[t] = 0 /\ debits'[t] = 1
  BY <1>1 DEF IInv, TypeOK, BooksByStatus
<1>5. Bill!Become(t, "held")
  <2>1. /\ s # "FAILED" /\ s \in Open \cup Terminal
        /\ \A x \in Txns \ {t} : debits'[x] = debits[x] /\ refunds'[x] = refunds[x]
        /\ debits'[t] - refunds'[t] = 1
    BY <1>1, <1>2, <1>4 DEF Open, IInv, TypeOK
  <2>2. Bill!Become(t, IF s \in Open THEN "held" ELSE s)
    BY <1>1, <2>1, Becomes
  <2> QED BY <1>2, <2>2
<1>6. BillState[t] = "none"
  BY <1>1 DEF BillState
<1> QED BY <1>1, <1>2, <1>3, <1>5, <1>6 DEF Bill!Hold, Bill!BillNext

\* A top-up is taken on and decided at once.
LEMMA TopupDecides ==
  ASSUME BillInv, NEW c \in Clients, confirm_topup(c)
  PROVE  RoutedByAnswer' /\ Bill!BillNext
<1> USE DEF BillInv
<1>1. PICK t \in Txns, o \in Terminal :
        /\ status[t] = "none"
        /\ status' = [status EXCEPT ![t] = o]
        /\ debits' = [debits EXCEPT ![t] = IF o = "SUCCESS" THEN 1 ELSE 0]
  BY DEF confirm_topup
<1>2. UNCHANGED <<token, refunds>> /\ refunds[t] = 0
  BY <1>1 DEF confirm_topup, IInv, BooksByStatus
<1>3. RoutedByAnswer'
  BY <1>1, <1>2 DEF IInv, TypeOK, RoutedByAnswer, Terminal
<1>4. Bill!Become(t, o)
  <2>1. /\ o \notin Open /\ o \in Open \cup Terminal
        /\ \A x \in Txns \ {t} : debits'[x] = debits[x] /\ refunds'[x] = refunds[x]
        /\ debits'[t] - refunds'[t] = IF o = "FAILED" THEN 0 ELSE 1
    BY <1>1, <1>2 DEF Open, Terminal, IInv, TypeOK
  <2>2. Bill!Become(t, IF o \in Open THEN "held" ELSE o)
    BY <1>1, <2>1, Becomes
  <2> QED BY <2>1, <2>2
<1>5. BillState[t] = "none" /\ o \in Bill!Outcomes
  BY <1>1 DEF BillState, Bill!Outcomes, Terminal
<1> QED BY <1>1, <1>2, <1>3, <1>4, <1>5 DEF Bill!TopUp, Bill!BillNext

\* Whoever decides an open bill by fail or succeed, as its provider answers.
LEMMA OutcomeDecides ==
  ASSUME BillInv, NEW t \in Txns, status[t] \in Open, UNCHANGED token,
         \/ Declines(token[t]) /\ fail(t) /\ UNCHANGED debits
         \/ ~Declines(token[t]) /\ succeed(t) /\ UNCHANGED refunds
  PROVE  RoutedByAnswer' /\ Bill!BillNext
<1> USE DEF BillInv
<1> DEFINE o == IF Declines(token[t]) THEN "FAILED" ELSE "SUCCESS"
<1>1. debits[t] = 1 /\ refunds[t] = 0
  BY DEF IInv, BooksByStatus
<1>2. /\ status' = [status EXCEPT ![t] = o]
      /\ \A x \in Txns \ {t} : debits'[x] = debits[x] /\ refunds'[x] = refunds[x]
      /\ debits'[t] - refunds'[t] = IF o = "FAILED" THEN 0 ELSE 1
  BY <1>1 DEF fail, succeed, IInv, TypeOK
<1>3. o \in Terminal /\ o \notin Open
  BY DEF Terminal, Open
<1>4. RoutedByAnswer'
  BY <1>2, <1>3 DEF IInv, TypeOK, RoutedByAnswer, Open
<1>5. Bill!Become(t, o)
  <2> HIDE DEF o
  <2>1. Bill!Become(t, IF o \in Open THEN "held" ELSE o)
    BY <1>2, <1>3, Becomes
  <2> QED BY <1>3, <2>1
<1>6. BillState[t] = "held"
  BY DEF BillState, Open
<1> QED BY <1>4, <1>5, <1>6 DEF Bill!Decide, Bill!BillNext

LEMMA TimerDecides ==
  ASSUME BillInv, NEW t \in Txns, CompleteProviderOperation(t)
  PROVE  RoutedByAnswer' /\ Bill!BillNext
<1>1. status[t] = "PROCESSING" /\ UNCHANGED token
  BY DEF CompleteProviderOperation, BillInv, IInv, TimersProcess
<1>2. Declines(token[t]) <=> Answer[token[t]] = "declined"
  BY <1>1 DEF BillInv, RoutedByAnswer, Declines
<1> QED BY <1>1, <1>2, OutcomeDecides DEF CompleteProviderOperation, Open

LEMMA WorkerDecides ==
  ASSUME BillInv, NEW w \in Workers, Reconcile(w)
  PROVE  RoutedByAnswer' /\ Bill!BillNext
<1> DEFINE t == claimed[w]
<1>1. t \in Txns /\ status[t] = "PENDING" /\ UNCHANGED token
  BY DEF Reconcile, BillInv, IInv, TypeOK, WorkersLock
<1>2. Declines(token[t]) <=> Answer[token[t]] = "unknown_declined"
  BY <1>1 DEF BillInv, RoutedByAnswer, Declines, Unknowns
<1>3. \/ Declines(token[t]) /\ fail(t) /\ UNCHANGED debits
      \/ ~Declines(token[t]) /\ succeed(t) /\ UNCHANGED refunds
  BY <1>2 DEF Reconcile
<1> QED BY <1>1, <1>3, OutcomeDecides DEF Open

\* Every other step writes no transaction.
LEMMA StepImplements ==
  BillInv /\ [Next]_vars => RoutedByAnswer' /\ [Bill!BillNext]_(Bill!billVars)
<1> SUFFICES ASSUME BillInv, [Next]_vars
             PROVE  RoutedByAnswer' /\ [Bill!BillNext]_(Bill!billVars)
  OBVIOUS
<1>1. CASE UNCHANGED <<status, token, debits, refunds>>
  <2>1. RoutedByAnswer'
    BY <1>1 DEF BillInv, RoutedByAnswer
  <2>2. UNCHANGED Bill!billVars
    BY <1>1 DEF Bill!billVars, BillState, NetPaid
  <2> QED BY <2>1, <2>2
<1>2. CASE \E c \in Clients : confirm_electricity(c) \/ confirm_topup(c)
  BY <1>2, ConfirmHolds, TopupDecides
<1>3. CASE \E t \in Txns : CompleteProviderOperation(t)
  BY <1>3, TimerDecides
<1>4. CASE \E w \in Workers : Reconcile(w)
  BY <1>4, WorkerDecides
<1> QED BY <1>1, <1>2, <1>3, <1>4
        DEF Next, vars, txnVars, LoadValidation, Refuse, ScheduleCompletion, ScheduleRaises,
            Fire, CompletionRaises, ClaimNext, ReconcileRaises, Crash

\* BillPayments implements AtomicBill for any number of bills, clients and
\* workers and with restarts at any time: a bill is held once, decided once as
\* its provider answers, and its money moves in the step that decides it.
THEOREM BillsImplementContract == Spec => ImplementsBill
<1>1. Init => Bill!BillInit
  <2> SUFFICES ASSUME Init PROVE Bill!BillInit
    OBVIOUS
  <2>1. BillState = [t \in Txns |-> "none"] /\ NetPaid = [t \in Txns |-> 0]
    BY DEF Init, BillState, NetPaid
  <2> QED BY <2>1 DEF Init, Bill!BillInit
<1>2. Init => BillInv
  BY InitIInv DEF BillInv, Init, RoutedByAnswer
<1>3. BillInv /\ [Next]_vars => BillInv'
  BY NextIInv, StepImplements DEF BillInv
<1>4. BillInv /\ [Next]_vars => [Bill!BillNext]_(Bill!billVars)
  BY StepImplements
<1> QED BY <1>1, <1>2, <1>3, <1>4, PTL DEF Spec, ImplementsBill, Bill!BillSpec
=============================================================================
