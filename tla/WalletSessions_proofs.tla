----------------------- MODULE WalletSessions_proofs -----------------------
(***************************************************************************)
(* Proofs about WalletSessions, for any number of users, keys and          *)
(* requests.  However many sessions overlap, no wallet is overdrawn and    *)
(* every change of a balance is posted with the entry that carries it.     *)
(* While those that overlap touch no wallet in common the ledger adds up   *)
(* to the balances, and each request moves its money in one step, as in    *)
(* AtomicBank.                                                             *)
(***************************************************************************)
EXTENDS WalletBank, Sums, TLAPS

\* A session that serves nothing has no request; one that serves has one.
ServesRequest ==
  \A s \in Sessions : pc[s] # "idle" => req[s] \in Requests

\* No session ever holds a negative balance, read or computed.
CopiesNonNegative ==
  /\ \A u \in Users : balance[u] >= 0
  /\ \A s \in Sessions, u \in Users : copy[s][u] >= 0

\* A session has inserted an entry for each wallet whose row it holds or is
\* about to lock, and for no other; it has at most one for a wallet, and that
\* entry carries the value it will write back.
Flushed(s) ==
  /\ pc[s] \notin {"debit_update", "credit", "credit_update", "commit"} => rows[s] = {}
  /\ pc[s] = "debit_update" => \A e \in rows[s] : e.user = req[s].user
  /\ pc[s] = "credit" => \A e \in rows[s] : e.user # req[s].to
  /\ \A e \in rows[s] : /\ lock[e.user] = s \/ e.user \in Wants(s)
                        /\ e.after = copy[s][e.user]
  /\ \A e, f \in rows[s] : e.user = f.user => e = f
  /\ \A u \in Users : lock[u] = s \/ u \in Wants(s) => \E e \in rows[s] : e.user = u

RowsUnderLock == \A s \in Sessions : Flushed(s)

\* No id is given twice.  The ids of a wallet's entries need not follow the
\* order of their commits: an id is taken before the wallet's row.
IdsDiffer ==
  /\ \A e \in ledger : e.id < nextEntry
  /\ \A s \in Sessions : \A e \in rows[s] :
       /\ e.id < nextEntry
       /\ \A f \in ledger : f.id # e.id
       /\ \A t \in Sessions \ {s} : \A f \in rows[t] : f.id # e.id

IInv == /\ TypeOK /\ ServesRequest /\ CopiesNonNegative
        /\ RowsUnderLock /\ IdsDiffer

-----------------------------------------------------------------------------
\* What validation guarantees of a request: its charge and its credit are
\* natural numbers and a transfer has two parties.
LEMMA RequestFacts ==
  ASSUME NEW r \in Requests
  PROVE  /\ r.op \in Ops /\ r.user \in Users /\ r.to \in Users
         /\ r.amount \in Nat /\ r.key \in Keys \cup {NoKey}
         /\ Fee[r.op] \in Nat
         /\ total_charge(r) \in Nat /\ credited(r) \in Nat
         /\ r.op = "SEND_MONEY" => r.to # r.user
<1>1. /\ r.op \in Ops /\ r.user \in Users /\ r.to \in Users
      /\ r.amount \in Amounts /\ r.key \in Keys \cup {NoKey}
      /\ r.op = "SEND_MONEY" => r.to # r.user
      /\ r.op = "ADD_MONEY" => Fee["ADD_MONEY"] < r.amount
  BY DEF Requests
<1>2. r.amount \in Nat /\ Fee[r.op] \in Nat
  BY <1>1, ConstantsAssumption
<1>3. total_charge(r) \in Nat
  BY <1>2 DEF total_charge
<1>4. credited(r) \in Nat
  <2>1. CASE r.op = "ADD_MONEY"
    BY <1>1, <1>2, <2>1 DEF credited
  <2>2. CASE r.op = "SEND_MONEY"
    BY <1>2, <2>2 DEF credited
  <2>3. CASE r.op = "WITHDRAW"
    BY <2>3 DEF credited
  <2> QED BY <1>1, <2>1, <2>2, <2>3 DEF Ops
<1> QED BY <1>1, <1>2, <1>3, <1>4

\* The initial state satisfies the inductive invariant.
LEMMA InitIInv == Init => IInv
<1> SUFFICES ASSUME Init PROVE IInv OBVIOUS
<1>1. TypeOK
  BY ConstantsAssumption DEF Init, TypeOK, NothingLoaded, Labels
<1>2. ServesRequest /\ CopiesNonNegative
  BY ConstantsAssumption DEF Init, ServesRequest, CopiesNonNegative, NothingLoaded
<1>3. RowsUnderLock
  <2>1. \A s \in Sessions : Wants(s) = {}
    BY DEF Init, Wants
  <2> QED BY <2>1, ConstantsAssumption DEF Init, RowsUnderLock, Flushed
<1>4. IdsDiffer
  BY DEF Init, IdsDiffer
<1> QED BY <1>1, <1>2, <1>3, <1>4 DEF IInv

\* A session that neither moves nor writes keeps its rows and their locks.
LEMMA StaysFlushed ==
  ASSUME TypeOK, NEW t \in Sessions, Flushed(t),
         pc'[t] = pc[t], req'[t] = req[t], copy'[t] = copy[t], rows'[t] = rows[t],
         \A u \in Users : lock'[u] = t <=> lock[u] = t
  PROVE  Flushed(t)'
<1>1. Wants(t)' = Wants(t)
  BY DEF Wants
<1>2. \A e \in rows[t] : e.user \in Users
  BY DEF TypeOK, EntryType
<1> QED BY <1>1, <1>2 DEF Flushed

\* One that has inserted nothing holds no row.
LEMMA NothingFlushed ==
  ASSUME NEW t \in Sessions, rows'[t] = {}, \A u \in Users : lock'[u] # t,
         pc'[t] \notin {"debit_update", "credit_update"}
  PROVE  Flushed(t)'
<1>1. Wants(t)' = {}
  BY DEF Wants
<1> QED BY <1>1 DEF Flushed

\* A step of one session that reads, or ends it.
LEMMA ReadsFlushed ==
  ASSUME TypeOK, RowsUnderLock, NEW s \in Sessions, rows'[s] = {},
         pc'[s] \notin {"debit_update", "credit_update"},
         \A t \in Sessions \ {s} : /\ pc'[t] = pc[t] /\ req'[t] = req[t]
                                  /\ copy'[t] = copy[t] /\ rows'[t] = rows[t],
         \A u \in Users : lock'[u] # s,
         \A u \in Users : lock'[u] = lock[u] \/ (lock[u] = s /\ lock'[u] = Nobody)
  PROVE  RowsUnderLock'
<1>1. Flushed(s)'
  BY NothingFlushed
<1>2. ASSUME NEW t \in Sessions \ {s} PROVE Flushed(t)'
  <2>1. \A u \in Users : lock'[u] = t <=> lock[u] = t
    BY ConstantsAssumption
  <2> QED BY <2>1, StaysFlushed DEF RowsUnderLock
<1> QED BY <1>1, <1>2 DEF RowsUnderLock

\* Closing a session without a commit keeps the invariant.
LEMMA CloseIInv ==
  ASSUME IInv, NEW s \in Sessions, Close(s), UNCHANGED <<dbVars, served, nextEntry>>
  PROVE  IInv'
<1> USE DEF IInv, Close, Goto, dbVars
<1>1. TypeOK'
  BY ConstantsAssumption DEF TypeOK, NothingLoaded, Labels
<1>2. ServesRequest'
  BY DEF TypeOK, ServesRequest
<1>3. CopiesNonNegative'
  BY DEF TypeOK, CopiesNonNegative, NothingLoaded
<1>4. RowsUnderLock'
  BY ConstantsAssumption, ReadsFlushed DEF TypeOK
<1>5. IdsDiffer'
  BY DEF TypeOK, IdsDiffer
<1> QED BY <1>1, <1>2, <1>3, <1>4, <1>5

\* The steps that only read keep the invariant.
LEMMA ReadIInv ==
  ASSUME IInv, NEW s \in Sessions,
         Begin(s) \/ IdempotentMiss(s) \/ LoadOwn(s) \/ LoadRecipient(s)
  PROVE  IInv'
<1>1. CASE Begin(s)
  <2> USE <1>1 DEF IInv, Begin, Goto, dbVars
  <2>1. TypeOK'
    BY ConstantsAssumption DEF TypeOK, Labels
  <2>2. ServesRequest' /\ CopiesNonNegative'
    BY DEF TypeOK, ServesRequest, CopiesNonNegative
  <2>3. RowsUnderLock'
    <3>1. rows[s] = {} /\ \A u \in Users : lock[u] # s
      BY DEF RowsUnderLock, Flushed
    <3> QED BY <3>1, ReadsFlushed DEF TypeOK
  <2>4. IdsDiffer'
    BY DEF TypeOK, IdsDiffer
  <2> QED BY <2>1, <2>2, <2>3, <2>4
<1>2. CASE IdempotentMiss(s)
  <2> USE <1>2 DEF IInv, IdempotentMiss, Goto, dbVars
  <2>1. TypeOK'
    BY DEF TypeOK, Labels
  <2>2. ServesRequest' /\ CopiesNonNegative'
    BY DEF TypeOK, ServesRequest, CopiesNonNegative
  <2>3. RowsUnderLock'
    <3>1. rows[s] = {} /\ \A u \in Users : lock[u] # s
      BY DEF RowsUnderLock, Flushed
    <3> QED BY <3>1, ReadsFlushed DEF TypeOK
  <2>4. IdsDiffer'
    BY DEF TypeOK, IdsDiffer
  <2> QED BY <2>1, <2>2, <2>3, <2>4
<1>3. CASE LoadOwn(s)
  <2>1. CASE Close(s)
    BY <1>3, <2>1, CloseIInv DEF LoadOwn
  <2>2. CASE ~Close(s)
    <3> DEFINE u == req[s].user
    <3>1. /\ pc[s] = "load"
          /\ copy' = [copy EXCEPT ![s][u] = balance[u]]
          /\ \E l \in {"credit", "load_to", "debit"} : Goto(s, l)
          /\ UNCHANGED <<lock, req, txnOf, rows, dbVars, served, nextEntry>>
          /\ req[s] \in Requests
      <4>1. req[s] \in Requests
        BY <1>3 DEF LoadOwn, IInv, ServesRequest
      <4>2. req[s].op \in Ops
        BY <4>1, RequestFacts
      <4> QED BY <1>3, <2>2, <4>1, <4>2 DEF LoadOwn, Ops, AfterLoad
    <3>2. u \in Users /\ balance[u] \in Int /\ balance[u] >= 0
      BY <3>1, RequestFacts DEF IInv, TypeOK, CopiesNonNegative
    <3>3. rows[s] = {}
      BY <3>1 DEF IInv, RowsUnderLock, Flushed
    <3> USE <3>1, <3>2, <3>3 DEF IInv, Goto, dbVars
    <3> HIDE DEF u
    <3>4. TypeOK'
      BY DEF TypeOK, Labels
    <3>5. ServesRequest' /\ CopiesNonNegative'
      BY DEF TypeOK, ServesRequest, CopiesNonNegative
    <3>6. RowsUnderLock'
      <4>1. \A v \in Users : lock[v] # s
        BY DEF RowsUnderLock, Flushed
      <4> QED BY <4>1, ReadsFlushed DEF TypeOK
    <3>7. IdsDiffer'
      BY DEF TypeOK, IdsDiffer
    <3> QED BY <3>4, <3>5, <3>6, <3>7
  <2> QED BY <2>1, <2>2
<1>4. CASE LoadRecipient(s)
  <2> DEFINE u == req[s].to
  <2>1. /\ u \in Users /\ balance[u] \in Int /\ balance[u] >= 0
        /\ rows[s] = {} /\ pc[s] = "load_to"
        /\ copy' = [copy EXCEPT ![s][u] = balance[u]]
        /\ Goto(s, "debit")
        /\ UNCHANGED <<dbVars, lock, served, nextEntry, req, txnOf, rows>>
    BY <1>4, RequestFacts
    DEF LoadRecipient, IInv, TypeOK, ServesRequest, CopiesNonNegative, RowsUnderLock, Flushed
  <2> USE <2>1 DEF IInv, Goto, dbVars
  <2> HIDE DEF u
  <2>2. TypeOK'
    BY DEF TypeOK, Labels
  <2>3. ServesRequest' /\ CopiesNonNegative'
    BY DEF TypeOK, ServesRequest, CopiesNonNegative
  <2>4. RowsUnderLock'
    <3>1. \A v \in Users : lock[v] # s
      BY DEF RowsUnderLock, Flushed
    <3> QED BY <3>1, ReadsFlushed DEF TypeOK
  <2>5. IdsDiffer'
    BY DEF TypeOK, IdsDiffer
  <2> QED BY <2>2, <2>3, <2>4, <2>5
<1> QED BY <1>1, <1>2, <1>3, <1>4

\* The INSERT of a flush keeps the invariant, when the wallet has no entry of
\* this session yet and the new value is not negative.
LEMMA InsertIInv ==
  ASSUME IInv, NEW s \in Sessions, NEW u \in Users,
         NEW dir \in {"DEBIT", "CREDIT"}, NEW n \in Nat,
         NEW label \in {"debit_update", "credit_update"},
         pc[s] \in {"debit", "credit"},
         dir = "DEBIT" => copy[s][u] >= n,
         \A e \in rows[s] : e.user # u,
         label = "debit_update" => rows[s] = {} /\ u = req[s].user,
         label = "credit_update" => u = req[s].to,
         apply_ledger(s, u, dir, n),
         Goto(s, label),
         UNCHANGED <<dbVars, lock, served, req, txnOf>>
  PROVE  IInv'
<1> DEFINE after == IF dir = "CREDIT" THEN copy[s][u] + n ELSE copy[s][u] - n
           new == Entry(nextEntry, txnOf[s], u, dir, n, after)
<1>1. /\ copy[s][u] \in Int /\ copy[s][u] >= 0
      /\ after \in Int /\ after >= 0
  BY DEF IInv, TypeOK, CopiesNonNegative
<1>2. /\ new \in EntryType
      /\ new.id = nextEntry /\ new.user = u /\ new.after = after
  BY <1>1 DEF IInv, TypeOK, EntryType, Entry
<1>3. /\ copy' = [copy EXCEPT ![s][u] = after]
      /\ rows' = [rows EXCEPT ![s] = @ \cup {new}]
      /\ nextEntry' = nextEntry + 1
  BY DEF apply_ledger
<1>4. Wants(s) = {} /\ Wants(s)' = {u}
  BY DEF IInv, TypeOK, Goto, Wants
<1> HIDE DEF after, new
<1> USE <1>1, <1>2, <1>3 DEF IInv, Goto, dbVars
<1>5. TypeOK'
  BY DEF TypeOK, Labels
<1>6. ServesRequest' /\ CopiesNonNegative'
  BY DEF TypeOK, ServesRequest, CopiesNonNegative
<1>7. RowsUnderLock'
  <2> SUFFICES ASSUME NEW t \in Sessions
               PROVE  Flushed(t)'
    BY DEF RowsUnderLock
  <2>1. CASE t = s
    <3>1. /\ pc'[s] = label /\ req'[s] = req[s] /\ lock' = lock
          /\ rows'[s] = rows[s] \cup {new} /\ copy'[s][u] = after
          /\ \A v \in Users \ {u} : copy'[s][v] = copy[s][v]
      BY DEF TypeOK
    <3>2. Flushed(s) /\ \A e \in rows[s] : e.user \in Users \ {u} /\ lock[e.user] = s
      BY <1>4 DEF TypeOK, RowsUnderLock, Flushed, EntryType
    <3>3. \A e \in rows'[s] : /\ lock'[e.user] = s \/ e.user \in Wants(s)'
                             /\ e.after = copy'[s][e.user]
      BY ONLY <1>2, <1>4, <3>1, <3>2 DEF Flushed
    <3>4. /\ \A e, d \in rows'[s] : e.user = d.user => e = d
          /\ \A v \in Users : lock'[v] = s \/ v \in Wants(s)' => \E e \in rows'[s] : e.user = v
      BY <1>4, <3>1, <3>2 DEF Flushed
    <3>5. pc'[s] = "debit_update" => \A e \in rows'[s] : e.user = req'[s].user
      BY <3>1
    <3> QED BY <2>1, <3>1, <3>3, <3>4, <3>5 DEF Flushed
  <2>2. CASE t # s
    <3>1. /\ rows'[t] = rows[t] /\ pc'[t] = pc[t] /\ req'[t] = req[t]
          /\ copy'[t] = copy[t]
      BY <2>2 DEF TypeOK
    <3> QED BY <3>1, StaysFlushed DEF RowsUnderLock
  <2> QED BY <2>1, <2>2
<1>8. IdsDiffer'
  <2>1. \A e \in ledger : e.id \in Nat
    BY DEF TypeOK, EntryType
  <2>2. \A t \in Sessions : \A e \in rows[t] : e.id \in Nat
    BY DEF TypeOK, EntryType
  <2> QED BY <2>1, <2>2 DEF TypeOK, IdsDiffer
<1> QED BY <1>5, <1>6, <1>7, <1>8

\* The debit and the credit are such flushes.
LEMMA WriteIInv ==
  ASSUME IInv, NEW s \in Sessions, debit_with_fee(s) \/ credit(s)
  PROVE  IInv'
<1> DEFINE r == req[s]
<1>1. CASE debit_with_fee(s)
  <2>1. r \in Requests /\ rows[s] = {}
    BY <1>1 DEF debit_with_fee, IInv, ServesRequest, RowsUnderLock, Flushed
  <2>2. r.user \in Users /\ total_charge(r) \in Nat
    BY <2>1, RequestFacts
  <2>3. /\ copy[s][r.user] >= total_charge(r)
        /\ apply_ledger(s, r.user, "DEBIT", total_charge(r))
        /\ Goto(s, "debit_update") /\ pc[s] = "debit"
        /\ UNCHANGED <<dbVars, lock, served, req, txnOf>>
    BY <1>1 DEF debit_with_fee
  <2> HIDE DEF r
  <2> QED BY <2>1, <2>2, <2>3, InsertIInv DEF r
<1>2. CASE credit(s)
  <2>1. r \in Requests /\ \A e \in rows[s] : e.user # r.to
    BY <1>2 DEF credit, IInv, ServesRequest, RowsUnderLock, Flushed
  <2>2. r.to \in Users /\ credited(r) \in Nat
    BY <2>1, RequestFacts
  <2>3. /\ apply_ledger(s, r.to, "CREDIT", credited(r))
        /\ Goto(s, "credit_update") /\ pc[s] = "credit"
        /\ UNCHANGED <<dbVars, lock, served, req, txnOf>>
    BY <1>2 DEF credit
  <2> HIDE DEF r
  <2> QED BY <2>1, <2>2, <2>3, InsertIInv DEF r
<1> QED BY <1>1, <1>2

\* The UPDATE of a flush keeps it: no other session holds the row, and the
\* next credit is another user's.
LEMMA UpdateIInv ==
  ASSUME IInv, NEW s \in Sessions, UpdateWallet(s)
  PROVE  IInv'
<1>1. PICK u \in Wants(s) : lock[u] \in {Nobody, s} /\ lock' = [lock EXCEPT ![u] = s]
  BY DEF UpdateWallet
<1>2. /\ pc[s] \in {"debit_update", "credit_update"} /\ Wants(s) = {u}
      /\ pc[s] = "debit_update" => u = req[s].user
  BY <1>1 DEF Wants
<1>3. req[s] \in Requests
  BY <1>2 DEF IInv, ServesRequest
<1>4. u \in Users /\ (req[s].op = "SEND_MONEY" => req[s].to # req[s].user)
  BY <1>1, <1>3, RequestFacts DEF Wants
<1> DEFINE label == AfterUpdate(s)
<1>5. /\ label \in {"credit", "commit"}
      /\ label = "credit" => pc[s] = "debit_update" /\ req[s].to # req[s].user
  BY <1>4 DEF AfterUpdate
<1>6. /\ pc' = [pc EXCEPT ![s] = label]
      /\ UNCHANGED <<dbVars, served, nextEntry, req, txnOf, copy, rows>>
  BY DEF UpdateWallet, Goto
<1> HIDE DEF label
<1> USE DEF IInv, dbVars
<1>7. TypeOK'
  BY <1>1, <1>4, <1>5, <1>6 DEF TypeOK, Labels
<1>8. ServesRequest' /\ CopiesNonNegative'
  BY <1>2, <1>3, <1>6 DEF TypeOK, ServesRequest, CopiesNonNegative
<1>9. RowsUnderLock'
  <2> SUFFICES ASSUME NEW t \in Sessions
               PROVE  Flushed(t)'
    BY DEF RowsUnderLock
  <2>1. CASE t = s
    <3>1. pc'[s] = label /\ Wants(s)' = {} /\ lock'[u] = s
      BY <1>1, <1>4, <1>5, <1>6 DEF TypeOK, Wants
    <3>2. \A v \in Users : lock'[v] = s <=> lock[v] = s \/ v = u
      BY <1>1, <1>4 DEF TypeOK
    <3>3. \A e \in rows[s] : e.user \in Users
      BY DEF TypeOK, EntryType
    <3>4. Flushed(s) /\ rows' = rows /\ copy' = copy /\ req' = req
      BY <1>6 DEF RowsUnderLock
    <3>5. label = "credit" => \A e \in rows[s] : e.user # req[s].to
      BY <1>5, <3>4 DEF Flushed
    <3> QED BY <1>2, <1>5, <2>1, <3>1, <3>2, <3>3, <3>4, <3>5 DEF Flushed
  <2>2. CASE t # s
    <3>1. pc'[t] = pc[t]
      BY <1>6, <2>2 DEF TypeOK
    <3>2. \A v \in Users : lock'[v] = t <=> lock[v] = t
      BY <1>1, <1>4, <2>2, ConstantsAssumption DEF TypeOK
    <3> QED BY <1>6, <3>1, <3>2, StaysFlushed DEF RowsUnderLock
  <2> QED BY <2>1, <2>2
<1>10. IdsDiffer'
  BY <1>6 DEF IdsDiffer
<1> QED BY <1>7, <1>8, <1>9, <1>10

\* A commit keeps the invariant: it writes the wallets it holds, and posts
\* for each of them one entry.
LEMMA CommitIInv ==
  ASSUME IInv, NEW s \in Sessions, Commit(s)
  PROVE  IInv'
<1> DEFINE row == Row(txnOf[s], req[s])
<1>1. row \in [id : Nat, op : Ops, user : Users, to : Users,
               amount : Nat, fee : Nat, key : Keys \cup {NoKey}]
  <2>1. req[s] \in Requests
    BY DEF IInv, Commit, ServesRequest
  <2>2. /\ req[s].op \in Ops /\ req[s].user \in Users /\ req[s].to \in Users
        /\ req[s].amount \in Nat /\ req[s].key \in Keys \cup {NoKey}
        /\ Fee[req[s].op] \in Nat
    BY <2>1, RequestFacts
  <2>3. txnOf[s] \in Nat
    BY DEF IInv, TypeOK
  <2> QED BY <2>2, <2>3 DEF Row
<1> HIDE DEF row
<1>2. /\ balance' = [u \in Users |-> IF lock[u] = s THEN copy[s][u] ELSE balance[u]]
      /\ ledger' = ledger \cup rows[s]
      /\ txns' = txns \cup {row}
      /\ Close(s)
      /\ UNCHANGED <<served, nextEntry>>
  BY DEF Commit, row
<1> USE <1>2 DEF IInv, Close, Goto
<1>3. TypeOK'
  <2>1. /\ balance' \in [Users -> Int] /\ ledger' \subseteq EntryType
        /\ lock' \in [Users -> Sessions \cup {Nobody}]
    BY DEF TypeOK
  <2>2. txns' \subseteq [id : Nat, op : Ops, user : Users, to : Users,
                         amount : Nat, fee : Nat, key : Keys \cup {NoKey}]
    BY <1>1 DEF TypeOK
  <2>3. /\ pc' \in [Sessions -> Labels] /\ txnOf' \in [Sessions -> Nat]
        /\ copy' \in [Sessions -> [Users -> Int]]
        /\ rows' \in [Sessions -> SUBSET EntryType]
        /\ req' \in [Sessions -> Requests \cup {NoRequest}]
    BY DEF TypeOK, Labels, NothingLoaded
  <2> QED BY <2>1, <2>2, <2>3 DEF TypeOK
<1>4. ServesRequest'
  BY DEF TypeOK, ServesRequest
<1>5. CopiesNonNegative'
  BY DEF TypeOK, CopiesNonNegative, NothingLoaded
<1>6. RowsUnderLock'
  BY ConstantsAssumption, ReadsFlushed DEF TypeOK
<1>7. \A t \in Sessions : \A e \in rows[t] : e.id \in Nat /\ e.user \in Users
  BY DEF TypeOK, EntryType
<1>8. \A e \in ledger : e.id \in Nat /\ e.user \in Users
  BY DEF TypeOK, EntryType
<1>9. IdsDiffer'
  BY <1>7, <1>8 DEF TypeOK, IdsDiffer
<1> QED BY <1>3, <1>4, <1>5, <1>6, <1>9

\* Every step keeps the inductive invariant.
LEMMA NextIInv == IInv /\ [Next]_vars => IInv'
<1> SUFFICES ASSUME IInv, [Next]_vars PROVE IInv'
  OBVIOUS
<1>1. CASE UNCHANGED vars
  <2>1. RowsUnderLock'
    BY <1>1, StaysFlushed DEF vars, IInv, RowsUnderLock
  <2> QED BY <1>1, <2>1 DEF vars, IInv, TypeOK, ServesRequest, CopiesNonNegative, IdsDiffer
<1>2. ASSUME NEW s \in Sessions,
             Begin(s) \/ Work(s) \/ Rollback(s) \/ DeadlockVictim(s)
      PROVE  IInv'
  <2>1. CASE Begin(s) \/ IdempotentMiss(s) \/ LoadOwn(s) \/ LoadRecipient(s)
    BY <2>1, ReadIInv
  <2>2. CASE IdempotentHit(s)
    BY <2>2, CloseIInv DEF IdempotentHit
  <2>3. CASE Rollback(s)
    BY <2>3, CloseIInv DEF Rollback
  <2>4. CASE DeadlockVictim(s)
    BY <2>4, CloseIInv DEF DeadlockVictim
  <2>5. CASE debit_with_fee(s) \/ credit(s)
    BY <2>5, WriteIInv
  <2>6. CASE UpdateWallet(s)
    BY <2>6, UpdateIInv
  <2>7. CASE Commit(s)
    BY <2>7, CommitIInv
  <2> QED BY <1>2, <2>1, <2>2, <2>3, <2>4, <2>5, <2>6, <2>7 DEF Work, Serve
<1> QED BY <1>1, <1>2 DEF Next

LEMMA SpecIInv == Spec => []IInv
BY InitIInv, NextIInv, PTL DEF Spec

-----------------------------------------------------------------------------
\* Every variable keeps its shape, for any number of users and sessions.
THEOREM TypeCorrect == Spec => []TypeOK
<1>1. IInv => TypeOK BY DEF IInv
<1> QED BY <1>1, SpecIInv, PTL

\* No interleaving of the handlers overdraws a wallet, although the checks
\* read copies that may be stale (apply_ledger, wallet_service.py).
THEOREM NeverOverdrawn == Spec => []NoOverdraft
<1>1. IInv => NoOverdraft BY DEF IInv, CopiesNonNegative, NoOverdraft
<1> QED BY <1>1, SpecIInv, PTL

\* The entries a step posts, and what it makes of the balances.
ChangesArePosted ==
  \A u \in Users :
    LET posted == {e \in ledger' : e.user = u} \ ledger
    IN  IF posted = {} THEN balance'[u] = balance[u]
        ELSE \E e \in posted : posted = {e} /\ balance'[u] = e.after

\* A commit posts what the session has inserted, one entry for each row it holds.
LEMMA CommitPosts ==
  ASSUME IInv, NEW s \in Sessions, Commit(s)
  PROVE  ChangesArePosted
<1> USE DEF IInv
<1>1. /\ balance' = [u \in Users |-> IF lock[u] = s THEN copy[s][u] ELSE balance[u]]
      /\ ledger' = ledger \cup rows[s] /\ Wants(s) = {}
  BY DEF Commit, Wants
<1>2. \A e \in rows[s] : e \notin ledger
  BY DEF IdsDiffer
<1> SUFFICES ASSUME NEW u \in Users
             PROVE  LET posted == {e \in ledger' : e.user = u} \ ledger
                    IN  IF posted = {} THEN balance'[u] = balance[u]
                        ELSE \E e \in posted : posted = {e} /\ balance'[u] = e.after
  BY DEF ChangesArePosted
<1>3. {e \in ledger' : e.user = u} \ ledger = {e \in rows[s] : e.user = u}
  BY <1>1, <1>2
<1>4. Flushed(s)
  BY DEF RowsUnderLock
<1>5. CASE lock[u] = s
  <2>1. PICK e \in rows[s] : e.user = u
    BY <1>4, <1>5 DEF Flushed
  <2>2. {f \in rows[s] : f.user = u} = {e} /\ e.after = copy[s][u]
    BY <1>4, <2>1 DEF Flushed
  <2> QED BY <1>1, <1>3, <1>5, <2>2
<1>6. CASE lock[u] # s
  <2>1. {f \in rows[s] : f.user = u} = {}
    BY <1>1, <1>4, <1>6 DEF Flushed
  <2> QED BY <1>1, <1>3, <1>6, <2>1
<1> QED BY <1>5, <1>6

\* Whatever the interleaving, a balance changes only with the one entry posted
\* for the wallet in the same commit, and becomes its balance_after: the row
\* lock keeps apply_ledger's copy the one that is committed.
THEOREM EveryChangeHasItsEntry == Spec => EntryOfEveryChange
<1>1. IInv /\ [Next]_vars => [ChangesArePosted]_vars
  <2> SUFFICES ASSUME IInv, [Next]_vars PROVE ChangesArePosted \/ UNCHANGED vars
    OBVIOUS
  <2>1. CASE UNCHANGED vars
    BY <2>1
  <2>2. ASSUME NEW s \in Sessions,
               Begin(s) \/ Work(s) \/ Rollback(s) \/ DeadlockVictim(s)
        PROVE  ChangesArePosted
    <3>1. CASE Commit(s)
      BY <3>1, CommitPosts
    <3>2. CASE ~Commit(s)
      <4>1. UNCHANGED <<balance, ledger>>
        BY <2>2, <3>2 DEF Work, Serve, Begin, IdempotentHit, IdempotentMiss, LoadOwn,
           LoadRecipient, debit_with_fee, credit, UpdateWallet, Rollback, DeadlockVictim, dbVars
      <4> QED BY <4>1 DEF ChangesArePosted
    <3> QED BY <3>1, <3>2
  <2> QED BY <2>1, <2>2 DEF Next
<1> QED BY <1>1, SpecIInv, PTL DEF Spec, EntryOfEveryChange, ChangesArePosted

-----------------------------------------------------------------------------
(* Requests that stay apart (ApartSpec): what the wallet promises when no   *)
(* two overlapping requests touch a wallet in common.                       *)

\* A debit or credit is checked and computed on the balance as it is, and
\* commits while it still is.
CopiesAreCurrent(s) ==
  LET r == req[s]
      current(u) == copy[s][u] = balance[u]
  IN /\ pc[s] = "load_to" => r.op = "SEND_MONEY" /\ current(r.user)
     /\ pc[s] = "debit" => r.op # "ADD_MONEY" /\ current(r.user) /\ current(r.to)
     /\ pc[s] = "debit_update" /\ r.op = "SEND_MONEY" => current(r.to)
     /\ pc[s] = "credit" => r.op # "WITHDRAW" /\ current(r.to)

\* What a session has flushed is what its request says, computed from the
\* balances: the debit first, then the credit.
RowsServeRequest(s) ==
  LET r == req[s]
      left(u) == balance[u] - total_charge(r)
      debited == copy[s][r.user] = left(r.user) /\ left(r.user) >= 0
      paid == copy[s][r.to] = balance[r.to] + credited(r)
  IN /\ pc[s] = "debit_update" => r.op # "ADD_MONEY" /\ debited
     /\ pc[s] \in {"credit", "credit_update", "commit"} /\ r.op # "ADD_MONEY" =>
          debited /\ lock[r.user] = s
     /\ pc[s] = "credit_update" => r.op # "WITHDRAW" /\ paid
     /\ pc[s] = "commit" /\ r.op # "WITHDRAW" => paid /\ lock[r.to] = s
     /\ \A e \in rows[s] : /\ e.user \in Wallets(r)
                           /\ copy[s][e.user] = balance[e.user] + Signed(e)

\* A session that has found no row of its key finds none at its commit.
KeyIsUnused(s) == Working(s) => req[s].key = NoKey \/ KeyRows(req[s]) = {}

Serves(s) == CopiesAreCurrent(s) /\ RowsServeRequest(s) /\ KeyIsUnused(s)

\* Each request has a number of its own, and so has each transaction.
NumbersDiffer ==
  /\ \A x \in txns : x.id <= served
  /\ \A s \in Sessions : pc[s] # "idle" =>
       /\ txnOf[s] <= served
       /\ \A x \in txns : x.id # txnOf[s]
       /\ \A t \in Sessions \ {s} : pc[t] # "idle" => txnOf[t] # txnOf[s]

TablesAreFinite ==
  /\ IsFiniteSet(ledger) /\ IsFiniteSet(txns)
  /\ \A s \in Sessions : IsFiniteSet(rows[s])

ApartInv == /\ IInv /\ WalletsApart /\ NumbersDiffer /\ TablesAreFinite
            /\ BalanceIsLedgerSum
            /\ \A s \in Sessions : Serves(s)

\* What a step of one session says.
StepOf(s) == Begin(s) \/ Work(s) \/ Rollback(s) \/ DeadlockVictim(s)

\* The other sessions keep what they have and the locks they hold.
OthersKeep(s) ==
  \A t \in Sessions \ {s} :
    /\ pc'[t] = pc[t] /\ req'[t] = req[t] /\ txnOf'[t] = txnOf[t]
    /\ copy'[t] = copy[t] /\ rows'[t] = rows[t]
    /\ \A u \in Users : lock[u] = t => lock'[u] = t

\* MapThenSumSet over ledger entries is a sum in the sense of Sums.
LEMMA SignedSum ==
  ASSUME NEW T, IsFiniteSet(T), NEW g, \A e \in T : g[e] = Signed(e)
  PROVE  MapThenSumSet(Signed, T) = SumOf(g, T)
<1> DEFINE P(iter) == iter = [s \in SUBSET T |->
              IF s = {} THEN 0 ELSE Signed(CHOOSE x \in s : TRUE) + iter[s \ {CHOOSE x \in s : TRUE}]]
<1>1. MapThenSumSet(Signed, T) = (CHOOSE iter : P(iter))[T]
  BY DEF MapThenSumSet, MapThenFoldSet
<1>2. ASSUME NEW a PROVE P(a) <=> IsSum(a, g, T)
  <2>1. ASSUME NEW s \in SUBSET T, s # {} PROVE Signed(Pick(s)) = g[Pick(s)]
    BY <2>1, PickFacts
  <2>2. [s \in SUBSET T |-> IF s = {} THEN 0 ELSE Signed(Pick(s)) + a[s \ {Pick(s)}]]
        = [s \in SUBSET T |-> IF s = {} THEN 0 ELSE g[Pick(s)] + a[s \ {Pick(s)}]]
    BY <2>1
  <2>3. P(a) <=> a = [s \in SUBSET T |-> IF s = {} THEN 0 ELSE Signed(Pick(s)) + a[s \ {Pick(s)}]]
    BY Zenon DEF Pick
  <2> HIDE DEF P
  <2> QED BY <2>2, <2>3 DEF IsSum
<1> HIDE DEF P
<1>3. P(CHOOSE iter : P(iter))
  BY <1>2, SumExists
<1> DEFINE c == CHOOSE iter : P(iter)
<1> HIDE DEF c
<1>4. IsSum(c, g, T)
  BY <1>2, <1>3 DEF c
<1>5. c[T] = SumOf(g, T)
  BY <1>4, SumIsSumOf
<1> QED BY <1>1, <1>5 DEF c

\* What a set of entries adds up to, and the entries of a wallet.
Total(T) == MapThenSumSet(Signed, T)
EntriesOf(u) == {e \in ledger : e.user = u}

\* One entry more changes a total by its signed amount.
LEMMA TotalFacts ==
  ASSUME NEW T, IsFiniteSet(T), T \subseteq EntryType
  PROVE  /\ Total(T) \in Int
         /\ T = {} => Total(T) = 0
         /\ \A e \in EntryType \ T : Total(T \cup {e}) = Total(T) + Signed(e)
<1>1. \A e \in EntryType : Signed(e) \in Int
  BY DEF EntryType, Signed
<1> DEFINE g == [e \in EntryType |-> Signed(e)]
<1>2. \A e \in EntryType : g[e] = Signed(e) /\ g[e] \in Int
  BY <1>1
<1> HIDE DEF g
<1>3. Total(T) = SumOf(g, T)
  BY <1>2, SignedSum DEF Total
<1>4. SumOf(g, T) \in Int
  BY <1>2, SumOfType
<1>5. T = {} => SumOf(g, T) = 0
  BY SumOfParts
<1>6. ASSUME NEW e \in EntryType \ T
      PROVE  Total(T \cup {e}) = Total(T) + Signed(e)
  <2> DEFINE U == T \cup {e}
  <2>1. IsFiniteSet(U) /\ e \in U /\ U \ {e} = T /\ U \subseteq EntryType
    BY <1>6, FS_AddElement
  <2> HIDE DEF U
  <2>2. Total(U) = SumOf(g, U)
    BY <1>2, <2>1, SignedSum DEF Total
  <2>3. SumOf(g, U) = g[e] + SumOf(g, U \ {e})
    BY <1>2, <2>1, SumOfRemove
  <2>4. SumOf(g, U \ {e}) = SumOf(g, T)
    BY <2>1, Zenon
  <2>5. g[e] = Signed(e) /\ g[e] \in Int
    BY <1>2, <1>6
  <2>6. Total(U) = Total(T) + Signed(e)
    BY <1>3, <1>4, <2>2, <2>3, <2>4, <2>5
  <2> QED BY <2>6 DEF U
<1> QED BY <1>3, <1>4, <1>5, <1>6

LEMMA BalanceTotals ==
  BalanceIsLedgerSum <=> \A u \in Users : balance[u] = InitialBalance + Total(EntriesOf(u))
BY DEF BalanceIsLedgerSum, Total, EntriesOf

-----------------------------------------------------------------------------
\* The initial state.
LEMMA InitApart == Init => ApartInv
<1> SUFFICES ASSUME Init PROVE ApartInv
  OBVIOUS
<1>1. IInv
  BY InitIInv
<1>2. WalletsApart /\ \A s \in Sessions : Serves(s)
  BY DEF Init, WalletsApart, Working, Serves, CopiesAreCurrent, RowsServeRequest, KeyIsUnused
<1>3. NumbersDiffer /\ TablesAreFinite
  BY FS_EmptySet DEF Init, NumbersDiffer, TablesAreFinite
<1>4. BalanceIsLedgerSum
  <2>1. \A u \in Users : EntriesOf(u) = {}
    BY DEF Init, EntriesOf
  <2>2. Total({}) = 0
    BY FS_EmptySet, TotalFacts
  <2>3. \A u \in Users : balance[u] = InitialBalance /\ InitialBalance \in Int
    BY ConstantsAssumption DEF Init
  <2> QED BY <2>1, <2>2, <2>3, BalanceTotals
<1> QED BY <1>1, <1>2, <1>3, <1>4 DEF ApartInv

\* Closing, reading and flushing are local: they leave the other sessions.
LEMMA CloseIsLocal ==
  ASSUME TypeOK, NEW s \in Sessions, Close(s)
  PROVE  /\ OthersKeep(s) /\ pc'[s] = "idle" /\ rows'[s] = {}
BY ConstantsAssumption DEF TypeOK, Close, Goto, OthersKeep

LEMMA StepIsLocal ==
  ASSUME TypeOK, NEW s \in Sessions, StepOf(s)
  PROVE  OthersKeep(s)
<1>1. CASE Begin(s) \/ IdempotentMiss(s) \/ LoadRecipient(s)
  BY <1>1 DEF Begin, IdempotentMiss, LoadRecipient, TypeOK, Goto, OthersKeep
<1>2. CASE LoadOwn(s) /\ ~Close(s)
  BY <1>2 DEF LoadOwn, TypeOK, Goto, OthersKeep
<1>3. CASE debit_with_fee(s) \/ credit(s)
  BY <1>3 DEF debit_with_fee, credit, apply_ledger, TypeOK, Goto, OthersKeep
<1>4. CASE UpdateWallet(s)
  BY <1>4, ConstantsAssumption DEF UpdateWallet, TypeOK, Goto, OthersKeep
<1>5. CASE Close(s)
  BY <1>5, CloseIsLocal
<1> QED BY <1>1, <1>2, <1>3, <1>4, <1>5
        DEF StepOf, Work, Serve, IdempotentHit, LoadOwn, Commit, Rollback, DeadlockVictim

\* What a session has locked belongs to the request it works on.
LEMMA LocksServeRequest ==
  ASSUME ApartInv, NEW s \in Sessions, NEW u \in Users, lock[u] = s
  PROVE  Working(s) /\ u \in Wallets(req[s])
<1>1. PICK e \in rows[s] : e.user = u
  BY DEF ApartInv, IInv, RowsUnderLock, Flushed
<1>2. Working(s)
  BY <1>1 DEF ApartInv, IInv, RowsUnderLock, Flushed, Working
<1>3. e.user \in Wallets(req[s])
  BY <1>1 DEF ApartInv, Serves, RowsServeRequest
<1> QED BY <1>1, <1>2, <1>3

\* A step of s that writes only the wallets it has locked and at most its own
\* transaction leaves what another session has read and found.
LEMMA OthersServe ==
  ASSUME ApartInv, NEW s \in Sessions, NEW t \in Sessions \ {s}, OthersKeep(s),
         \A u \in Users : lock[u] # s => balance'[u] = balance[u],
         \A x \in txns' : x \in txns \/ (Working(s) /\ x.user = req[s].user),
         txns \subseteq txns'
  PROVE  Serves(t)'
<1> DEFINE r == req[t]
<1>1. /\ pc'[t] = pc[t] /\ req'[t] = r /\ copy'[t] = copy[t] /\ rows'[t] = rows[t]
      /\ \A u \in Users : lock[u] = t => lock'[u] = t
      /\ CopiesAreCurrent(t) /\ RowsServeRequest(t) /\ KeyIsUnused(t)
  BY DEF OthersKeep, ApartInv, Serves
<1>2. CASE ~Working(t)
  <2>1. pc[t] \in {"idle", "lookup"} /\ rows[t] = {}
    BY <1>2 DEF Working, ApartInv, IInv, RowsUnderLock, Flushed
  <2> QED BY <1>1, <2>1 DEF Serves, CopiesAreCurrent, RowsServeRequest, KeyIsUnused, Working
<1>3. CASE Working(t)
  <2>1. r \in Requests
    BY <1>3 DEF Working, ApartInv, IInv, ServesRequest
  <2>2. r.user \in Users /\ r.to \in Users
    BY <2>1, RequestFacts
  <2>3. balance'[r.user] = balance[r.user] /\ balance'[r.to] = balance[r.to]
    <3>1. ASSUME NEW u \in Users, u \in Wallets(r), lock[u] = s
          PROVE  FALSE
      <4>1. Working(s) /\ u \in Wallets(req[s])
        BY <3>1, LocksServeRequest
      <4> QED BY <1>3, <3>1, <4>1 DEF ApartInv, WalletsApart
    <3> QED BY <2>2, <3>1 DEF Wallets
  <2>4. CopiesAreCurrent(t)'
    BY <1>1, <2>3 DEF CopiesAreCurrent
  <2>5. RowsServeRequest(t)'
    BY <1>1, <2>2, <2>3 DEF RowsServeRequest, Wallets
  <2>6. KeyIsUnused(t)'
    <3>1. \A x \in txns' : x \in txns \/ x.user # r.user
      BY <1>3 DEF ApartInv, WalletsApart, Wallets
    <3> QED BY <1>1, <1>3, <3>1 DEF KeyIsUnused, KeyRows, Working
  <2> QED BY <2>4, <2>5, <2>6 DEF Serves
<1> QED BY <1>2, <1>3

\* The numbers differ after every step: a new one is the highest, and a
\* transaction takes the one of the session that ends.
LEMMA StepNumbers ==
  ASSUME IInv, NumbersDiffer, NEW s \in Sessions, StepOf(s)
  PROVE  NumbersDiffer'
<1>1. OthersKeep(s)
  BY StepIsLocal DEF IInv
<1>2. /\ served \in Nat /\ txnOf \in [Sessions -> Nat] /\ \A x \in txns : x.id \in Nat
      /\ pc \in [Sessions -> Labels]
  BY ConstantsAssumption DEF IInv, TypeOK
<1>3. CASE Begin(s)
  <2>1. /\ served' = served + 1 /\ txnOf'[s] = served + 1 /\ txns' = txns
    BY <1>2, <1>3 DEF Begin, dbVars
  <2> QED BY <1>1, <1>2, <2>1 DEF NumbersDiffer, OthersKeep
<1>4. CASE ~Begin(s) /\ ~Commit(s)
  <2>1. served' = served /\ txns' = txns
    BY <1>4 DEF StepOf, Work, Serve, IdempotentHit, IdempotentMiss, LoadOwn, LoadRecipient,
       debit_with_fee, credit, UpdateWallet, Rollback, DeadlockVictim, dbVars
  <2>2. pc'[s] = "idle" \/ (pc[s] # "idle" /\ txnOf'[s] = txnOf[s])
    <3>1. CASE Close(s)
      BY <3>1, CloseIsLocal DEF IInv
    <3>2. CASE UpdateWallet(s)
      <4>1. pc[s] # "idle"
        BY <3>2 DEF UpdateWallet, Wants
      <4>2. txnOf' = txnOf
        BY <3>2 DEF UpdateWallet
      <4> QED BY <4>1, <4>2
    <3>3. CASE ~Close(s) /\ ~UpdateWallet(s)
      BY <1>4, <3>3 DEF StepOf, Work, Serve, IdempotentHit, IdempotentMiss, LoadOwn, LoadRecipient,
         debit_with_fee, credit, Rollback, DeadlockVictim
    <3> QED BY <3>1, <3>2, <3>3
  <2> QED BY <1>1, <2>1, <2>2 DEF NumbersDiffer, OthersKeep
<1>5. CASE Commit(s)
  <2>1. /\ pc[s] # "idle" /\ pc'[s] = "idle" /\ served' = served
        /\ \A x \in txns' : x \in txns \/ x.id = txnOf[s]
    BY <1>5, CloseIsLocal DEF Commit, Row, IInv
  <2> QED BY <1>1, <2>1 DEF NumbersDiffer, OthersKeep
<1> QED BY <1>3, <1>4, <1>5

\* The books of a step that commits nothing.
LEMMA BooksKeep ==
  ASSUME ApartInv, UNCHANGED dbVars, \A s \in Sessions : IsFiniteSet(rows'[s])
  PROVE  TablesAreFinite' /\ BalanceIsLedgerSum'
BY DEF ApartInv, TablesAreFinite, BalanceIsLedgerSum, dbVars

\* A session that is closed serves nothing.
LEMMA CloseServes ==
  ASSUME ApartInv, NEW s \in Sessions, Close(s), UNCHANGED dbVars
  PROVE  TablesAreFinite' /\ BalanceIsLedgerSum' /\ Serves(s)'
<1>1. OthersKeep(s) /\ pc'[s] = "idle" /\ rows'[s] = {}
  BY CloseIsLocal DEF ApartInv, IInv
<1>2. \A t \in Sessions : IsFiniteSet(rows'[t])
  BY <1>1, FS_EmptySet DEF OthersKeep, ApartInv, TablesAreFinite
<1> QED BY <1>1, <1>2, BooksKeep
        DEF Serves, CopiesAreCurrent, RowsServeRequest, KeyIsUnused, Working

\* The reads: what a session finds stays as it is until others touch it.
LEMMA ReadServes ==
  ASSUME ApartInv, NEW s \in Sessions,
         Begin(s) \/ IdempotentMiss(s) \/ LoadOwn(s) \/ LoadRecipient(s), ~Close(s)
  PROVE  TablesAreFinite' /\ BalanceIsLedgerSum' /\ Serves(s)'
<1> USE DEF ApartInv
<1>1. /\ UNCHANGED <<balance, ledger, txns, lock, nextEntry, rows>> /\ UNCHANGED dbVars
      /\ pc[s] \in {"idle", "lookup", "load", "load_to"}
  BY DEF Begin, IdempotentMiss, LoadOwn, LoadRecipient, dbVars
<1>2. rows[s] = {}
  BY <1>1 DEF IInv, RowsUnderLock, Flushed
<1>3. TablesAreFinite' /\ BalanceIsLedgerSum'
  BY <1>1, BooksKeep DEF TablesAreFinite
<1>4. pc \in [Sessions -> Labels] /\ copy \in [Sessions -> [Users -> Int]]
  BY DEF IInv, TypeOK
<1>5. KeyIsUnused(s)'
  <2>1. CASE Begin(s)
    BY <2>1, <1>4 DEF Begin, Goto, KeyIsUnused, Working
  <2>2. CASE ~Begin(s)
    <3>1. UNCHANGED req /\ (req[s].key = NoKey \/ KeyRows(req[s]) = {})
      BY <2>2 DEF IdempotentMiss, LoadOwn, LoadRecipient, Serves, KeyIsUnused, Working
    <3> QED BY <1>1, <3>1 DEF KeyIsUnused, KeyRows
  <2> QED BY <2>1, <2>2
<1>6. CASE Begin(s) \/ IdempotentMiss(s)
  <2>1. pc'[s] \in {"lookup", "load"}
    BY <1>4, <1>6 DEF Begin, IdempotentMiss, Goto
  <2> QED BY <1>1, <1>2, <1>3, <1>5, <2>1 DEF Serves, CopiesAreCurrent, RowsServeRequest
<1>7. CASE LoadOwn(s)
  <2> DEFINE r == req[s]
  <2>1. r \in Requests
    BY <1>7 DEF LoadOwn, IInv, ServesRequest
  <2>2. /\ r.op \in Ops /\ r.user \in Users /\ r.to \in Users
        /\ r.op = "SEND_MONEY" <=> r.to # r.user
    BY <2>1, RequestFacts DEF Requests
  <2>3. /\ copy' = [copy EXCEPT ![s][r.user] = balance[r.user]]
        /\ pc'[s] = AfterLoad[r.op] /\ UNCHANGED <<req, balance, rows>>
    BY <1>4, <1>7 DEF LoadOwn, Goto, dbVars
  <2>4. copy'[s][r.user] = balance[r.user]
    BY <1>4, <2>2, <2>3
  <2>5. /\ r.op = "ADD_MONEY" => pc'[s] = "credit"
        /\ r.op = "SEND_MONEY" => pc'[s] = "load_to"
        /\ r.op = "WITHDRAW" => pc'[s] = "debit"
    BY <2>2, <2>3 DEF AfterLoad
  <2> HIDE DEF r
  <2>6. req'[s] = r /\ balance' = balance /\ rows'[s] = {}
    BY <1>2, <2>3 DEF r
  <2> QED BY <1>3, <1>5, <2>2, <2>4, <2>5, <2>6
          DEF Serves, CopiesAreCurrent, RowsServeRequest, Ops
<1>8. CASE LoadRecipient(s)
  <2> DEFINE r == req[s]
  <2>1. r \in Requests /\ r.op = "SEND_MONEY" /\ copy[s][r.user] = balance[r.user]
    BY <1>8 DEF LoadRecipient, IInv, ServesRequest, Serves, CopiesAreCurrent
  <2>2. r.user \in Users /\ r.to \in Users /\ r.to # r.user
    BY <2>1, RequestFacts
  <2>3. /\ copy' = [copy EXCEPT ![s][r.to] = balance[r.to]]
        /\ pc'[s] = "debit" /\ UNCHANGED <<req, balance, rows>>
    BY <1>4, <1>8 DEF LoadRecipient, Goto, dbVars
  <2>4. copy'[s][r.user] = balance[r.user] /\ copy'[s][r.to] = balance[r.to]
    BY <1>4, <2>1, <2>2, <2>3
  <2> HIDE DEF r
  <2>5. req'[s] = r /\ balance' = balance /\ rows'[s] = {}
    BY <1>2, <2>3 DEF r
  <2> QED BY <1>3, <1>5, <2>1, <2>3, <2>4, <2>5
          DEF Serves, CopiesAreCurrent, RowsServeRequest
<1> QED BY <1>6, <1>7, <1>8

\* The inserts: each row is what the request says, computed on the balance.
LEMMA FlushServes ==
  ASSUME ApartInv, NEW s \in Sessions, debit_with_fee(s) \/ credit(s)
  PROVE  TablesAreFinite' /\ BalanceIsLedgerSum' /\ Serves(s)'
<1> USE DEF ApartInv
<1> DEFINE r == req[s]
           u == IF pc[s] = "debit" THEN r.user ELSE r.to
           dir == IF pc[s] = "debit" THEN "DEBIT" ELSE "CREDIT"
           n == IF pc[s] = "debit" THEN total_charge(r) ELSE credited(r)
           after == IF dir = "CREDIT" THEN copy[s][u] + n ELSE copy[s][u] - n
           new == Entry(nextEntry, txnOf[s], u, dir, n, after)
           label == IF pc[s] = "debit" THEN "debit_update" ELSE "credit_update"
<1>1. /\ pc[s] \in {"debit", "credit"}
      /\ UNCHANGED <<balance, ledger, txns, lock, served, req, txnOf>>
      /\ copy' = [copy EXCEPT ![s][u] = after]
      /\ rows' = [rows EXCEPT ![s] = @ \cup {new}]
      /\ pc' = [pc EXCEPT ![s] = label]
      /\ pc[s] = "debit" => copy[s][u] >= n
  <2>1. CASE debit_with_fee(s)
    BY <2>1 DEF debit_with_fee, apply_ledger, Goto, dbVars
  <2>2. CASE credit(s)
    BY <2>2 DEF credit, apply_ledger, Goto, dbVars
  <2> QED BY <2>1, <2>2
<1>2. /\ r \in Requests /\ r.op \in Ops /\ r.user \in Users /\ r.to \in Users
      /\ r.op = "SEND_MONEY" <=> r.to # r.user
      /\ total_charge(r) \in Nat /\ credited(r) \in Nat
  <2>1. r \in Requests
    BY <1>1 DEF IInv, ServesRequest
  <2> QED BY <2>1, RequestFacts DEF Requests
<1>3. u \in Users /\ n \in Nat /\ copy[s][u] \in Int /\ copy[s][u] = balance[u]
      /\ after \in Int /\ u \in Wallets(r)
  <2>1. u \in Users /\ n \in Nat /\ u \in Wallets(r)
    BY <1>2 DEF Wallets
  <2>2. copy[s][u] = balance[u]
    BY <1>1 DEF Serves, CopiesAreCurrent
  <2> HIDE DEF u, n
  <2>3. copy[s][u] \in Int
    BY <2>1 DEF IInv, TypeOK
  <2> QED BY <2>1, <2>2, <2>3
<1>4. new.user = u /\ Signed(new) = after - balance[u]
  <2>1. new.user = u /\ new.dir = dir /\ new.amount = n
    BY DEF Entry
  <2> HIDE DEF u, n, new
  <2> QED BY <1>3, <2>1 DEF Signed
<1>5. OthersKeep(s)
  BY StepIsLocal DEF StepOf, Work, Serve, IInv
<1>6. pc \in [Sessions -> Labels] /\ copy \in [Sessions -> [Users -> Int]]
      /\ rows \in [Sessions -> SUBSET EntryType]
  BY DEF IInv, TypeOK
<1>7. /\ pc'[s] = label /\ rows'[s] = rows[s] \cup {new}
      /\ copy'[s][u] = after /\ req'[s] = r
      /\ \A v \in Users \ {u} : copy'[s][v] = copy[s][v]
  <2> HIDE DEF u, after, new, label
  <2> QED BY <1>1, <1>3, <1>6
<1>8. TablesAreFinite' /\ BalanceIsLedgerSum'
  <2> HIDE DEF new
  <2>1. IsFiniteSet(rows[s] \cup {new})
    BY FS_AddElement DEF TablesAreFinite
  <2>2. IsFiniteSet(rows'[s])
    BY <1>7, <2>1, Zenon
  <2>3. \A t \in Sessions : IsFiniteSet(rows'[t])
    BY <1>5, <2>2 DEF OthersKeep, TablesAreFinite
  <2> QED BY <1>1, <2>3, BooksKeep DEF dbVars
<1>9. KeyIsUnused(s)'
  <2>1. KeyRows(r)' = KeyRows(r)
    BY <1>1 DEF KeyRows
  <2> QED BY <1>1, <1>7, <2>1 DEF Serves, KeyIsUnused, Working
<1>10. CopiesAreCurrent(s)'
  <2>1. CASE pc[s] = "credit"
    BY <1>7, <2>1 DEF CopiesAreCurrent
  <2>2. CASE pc[s] = "debit"
    <3>1. copy[s][r.to] = balance[r.to] /\ u = r.user
      BY <2>2 DEF Serves, CopiesAreCurrent
    <3>2. r.op = "SEND_MONEY" => copy'[s][r.to] = balance'[r.to]
      BY <1>1, <1>2, <1>7, <3>1
    <3>3. pc'[s] = "debit_update"
      BY <1>7, <2>2
    <3> HIDE DEF r
    <3> QED BY <1>7, <3>2, <3>3 DEF CopiesAreCurrent
  <2> QED BY <1>1, <2>1, <2>2
<1>11. RowsServeRequest(s)'
  <2>1. \A e \in rows'[s] : /\ e.user \in Wallets(r)
                            /\ copy'[s][e.user] = balance[e.user] + Signed(e)
    <3>1. CASE pc[s] = "debit"
      <4>1. rows[s] = {}
        BY <3>1 DEF IInv, RowsUnderLock, Flushed
      <4> HIDE DEF u, new, after, r
      <4>2. copy'[s][u] = balance[u] + Signed(new)
        BY <1>3, <1>4, <1>7 DEF IInv, TypeOK
      <4> QED BY <1>3, <1>4, <1>7, <4>1, <4>2
    <3>2. CASE pc[s] = "credit"
      <4>1. \A e \in rows[s] : e.user # u /\ e.user \in Users
        <5>1. Flushed(s) /\ u = r.to
          BY <3>2 DEF IInv, RowsUnderLock
        <5> HIDE DEF u
        <5> QED BY <3>2, <5>1, <1>6 DEF Flushed, EntryType
      <4>2. \A e \in rows[s] : e.user \in Wallets(r)
                               /\ copy[s][e.user] = balance[e.user] + Signed(e)
        BY DEF Serves, RowsServeRequest
      <4> HIDE DEF u, new, after, r
      <4>3. copy'[s][u] = balance[u] + Signed(new)
        BY <1>3, <1>4, <1>7 DEF IInv, TypeOK
      <4> QED BY <1>3, <1>4, <1>7, <4>1, <4>2, <4>3
    <3> QED BY <1>1, <3>1, <3>2
  <2>2. CASE pc[s] = "debit"
    <3>1. u = r.user /\ after = balance[r.user] - total_charge(r) /\ after >= 0
          /\ r.op # "ADD_MONEY" /\ label = "debit_update"
      BY <1>1, <1>3, <2>2 DEF Serves, CopiesAreCurrent
    <3> HIDE DEF r, after, u, label
    <3> QED BY <1>1, <1>7, <2>1, <3>1 DEF RowsServeRequest
  <2>3. CASE pc[s] = "credit"
    <3>1. u = r.to /\ after = balance[r.to] + credited(r) /\ r.op # "WITHDRAW"
          /\ label = "credit_update"
      BY <1>1, <1>3, <2>3 DEF Serves, CopiesAreCurrent
    <3>2. r.op # "ADD_MONEY" =>
            /\ copy[s][r.user] = balance[r.user] - total_charge(r)
            /\ balance[r.user] - total_charge(r) >= 0
            /\ lock[r.user] = s /\ r.user # u
      BY <1>2, <2>3, <3>1 DEF Serves, RowsServeRequest, Ops
    <3> HIDE DEF r, after, u, label
    <3> QED BY <1>1, <1>2, <1>7, <2>1, <3>1, <3>2 DEF RowsServeRequest
  <2> QED BY <1>1, <2>2, <2>3
<1> QED BY <1>8, <1>9, <1>10, <1>11 DEF Serves

\* The updates: the row that is locked is the one just computed.
LEMMA UpdateServes ==
  ASSUME ApartInv, NEW s \in Sessions, UpdateWallet(s)
  PROVE  TablesAreFinite' /\ BalanceIsLedgerSum' /\ Serves(s)'
<1> USE DEF ApartInv
<1> DEFINE r == req[s]
<1>1. PICK u \in Wants(s) : lock[u] \in {Nobody, s} /\ lock' = [lock EXCEPT ![u] = s]
  BY DEF UpdateWallet
<1>2. /\ pc[s] \in {"debit_update", "credit_update"}
      /\ u = IF pc[s] = "debit_update" THEN r.user ELSE r.to
  BY <1>1 DEF Wants
<1>3. /\ r \in Requests /\ r.op \in Ops /\ r.user \in Users /\ r.to \in Users
  <2>1. r \in Requests
    BY <1>2 DEF IInv, ServesRequest
  <2> QED BY <2>1, RequestFacts
<1>4. /\ UNCHANGED <<balance, ledger, txns, copy, rows, req>> /\ UNCHANGED dbVars
      /\ pc'[s] = AfterUpdate(s)
  BY DEF UpdateWallet, Goto, dbVars, IInv, TypeOK
<1>5. lock'[u] = s /\ \A v \in Users : lock[v] = s => lock'[v] = s
  BY <1>1, <1>2, <1>3 DEF IInv, TypeOK
<1>6. CopiesAreCurrent(s) /\ RowsServeRequest(s) /\ KeyIsUnused(s)
  BY DEF Serves
<1>7. TablesAreFinite' /\ BalanceIsLedgerSum'
  BY <1>4, BooksKeep DEF TablesAreFinite
<1>8. KeyIsUnused(s)'
  BY <1>2, <1>4, <1>6 DEF KeyIsUnused, KeyRows, Working
<1>9. CopiesAreCurrent(s)' /\ RowsServeRequest(s)'
  <2>1. CASE pc[s] = "debit_update"
    BY <1>2, <1>3, <1>4, <1>5, <1>6, <2>1
    DEF AfterUpdate, CopiesAreCurrent, RowsServeRequest, Ops
  <2>2. CASE pc[s] = "credit_update"
    BY <1>2, <1>3, <1>4, <1>5, <1>6, <2>2
    DEF AfterUpdate, CopiesAreCurrent, RowsServeRequest, Ops
  <2> QED BY <1>2, <2>1, <2>2
<1> QED BY <1>7, <1>8, <1>9 DEF Serves

\* What a commit does to the balances: what the request says, no more.
LEMMA CommitMoves ==
  ASSUME ApartInv, NEW s \in Sessions, Commit(s)
  PROVE  LET r == req[s]
             left == [balance EXCEPT ![r.user] = @ - total_charge(r)]
         IN  /\ r \in Requests
             /\ r.key = NoKey \/ KeyRows(r) = {}
             /\ balance[r.user] >= total_charge(r)
             /\ balance' = [left EXCEPT ![r.to] = @ + credited(r)]
<1> USE DEF ApartInv
<1> DEFINE r == req[s]
           left == [balance EXCEPT ![r.user] = @ - total_charge(r)]
           paid == [left EXCEPT ![r.to] = @ + credited(r)]
<1>1. /\ pc[s] = "commit"
      /\ balance' = [u \in Users |-> IF lock[u] = s THEN copy[s][u] ELSE balance[u]]
  BY DEF Commit
<1>2. r \in Requests
  BY <1>1 DEF IInv, ServesRequest
<1>3. /\ r.op \in Ops /\ r.user \in Users /\ r.to \in Users
      /\ r.op = "SEND_MONEY" <=> r.to # r.user
      /\ total_charge(r) \in Nat /\ credited(r) \in Nat
  BY <1>2, RequestFacts DEF Requests
<1>4. r.key = NoKey \/ KeyRows(r) = {}
  BY <1>1 DEF Serves, KeyIsUnused, Working
<1>5. balance \in [Users -> Int] /\ \A u \in Users : balance[u] >= 0
  BY DEF IInv, TypeOK, CopiesNonNegative
<1>6. \A u \in Users : lock[u] = s => u \in {r.user, r.to}
  BY LocksServeRequest DEF Wallets
<1>7. /\ r.op = "ADD_MONEY" => total_charge(r) = 0
      /\ r.op = "WITHDRAW" => credited(r) = 0
  BY DEF total_charge, credited
<1>8. /\ r.op # "ADD_MONEY" => /\ copy[s][r.user] = balance[r.user] - total_charge(r)
                               /\ balance[r.user] - total_charge(r) >= 0
                               /\ lock[r.user] = s
      /\ r.op # "WITHDRAW" => /\ copy[s][r.to] = balance[r.to] + credited(r)
                              /\ lock[r.to] = s
  BY <1>1 DEF Serves, RowsServeRequest
<1> HIDE DEF r
<1>9. balance[r.user] >= total_charge(r)
  BY <1>3, <1>5, <1>7, <1>8
<1>10. /\ left \in [Users -> Int] /\ left[r.user] = balance[r.user] - total_charge(r)
       /\ \A u \in Users \ {r.user} : left[u] = balance[u]
  BY <1>3, <1>5
<1> HIDE DEF left
<1>11. /\ paid \in [Users -> Int] /\ paid[r.to] = left[r.to] + credited(r)
       /\ \A u \in Users \ {r.to} : paid[u] = left[u]
  BY <1>3, <1>10
<1> HIDE DEF paid
<1>12. ASSUME NEW u \in Users PROVE balance'[u] = paid[u]
  <2>1. balance'[u] = IF lock[u] = s THEN copy[s][u] ELSE balance[u]
    BY <1>1
  <2>2. CASE u \notin {r.user, r.to}
    BY <1>6, <1>10, <1>11, <2>1, <2>2
  <2>3. CASE r.op = "ADD_MONEY" /\ u = r.to
    BY <1>3, <1>5, <1>7, <1>8, <1>10, <1>11, <2>1, <2>3
  <2>4. CASE r.op = "WITHDRAW" /\ u = r.user
    BY <1>3, <1>5, <1>7, <1>8, <1>10, <1>11, <2>1, <2>4
  <2>5. CASE r.op = "SEND_MONEY" /\ u \in {r.user, r.to}
    BY <1>3, <1>5, <1>8, <1>10, <1>11, <2>1, <2>5
  <2> QED BY <1>3, <2>2, <2>3, <2>4, <2>5 DEF Ops
<1>13. balance' = paid
  <2>1. balance' = [u \in Users |-> balance'[u]] /\ paid = [u \in Users |-> paid[u]]
    BY <1>1, <1>11
  <2> QED BY <1>12, <2>1
<1> QED BY <1>2, <1>4, <1>9, <1>13 DEF r, left, paid

\* The commit posts one entry for each wallet it writes, of the same amount.
LEMMA CommitServes ==
  ASSUME ApartInv, NEW s \in Sessions, Commit(s)
  PROVE  TablesAreFinite' /\ BalanceIsLedgerSum' /\ Serves(s)'
<1> USE DEF ApartInv
<1> DEFINE row == Row(txnOf[s], req[s])
<1>1. /\ pc[s] = "commit" /\ OthersKeep(s) /\ pc'[s] = "idle" /\ rows'[s] = {}
      /\ balance' = [u \in Users |-> IF lock[u] = s THEN copy[s][u] ELSE balance[u]]
      /\ ledger' = ledger \cup rows[s] /\ txns' = txns \cup {row}
  BY CloseIsLocal DEF Commit, IInv
<1>2. Serves(s)'
  BY <1>1 DEF Serves, CopiesAreCurrent, RowsServeRequest, KeyIsUnused, Working
<1>3. TablesAreFinite'
  <2>1. IsFiniteSet(ledger \cup rows[s])
    BY FS_Union DEF TablesAreFinite
  <2> HIDE DEF row
  <2>2. IsFiniteSet(txns \cup {row})
    BY FS_AddElement DEF TablesAreFinite
  <2>3. \A t \in Sessions : IsFiniteSet(rows'[t])
    BY <1>1, FS_EmptySet DEF TablesAreFinite, OthersKeep
  <2> QED BY <1>1, <2>1, <2>2, <2>3 DEF TablesAreFinite
<1>4. BalanceIsLedgerSum'
  <2> SUFFICES ASSUME NEW u \in Users
               PROVE  balance'[u] = InitialBalance + Total(EntriesOf(u)')
    BY BalanceTotals DEF BalanceIsLedgerSum, Total, EntriesOf
  <2>1. balance[u] = InitialBalance + Total(EntriesOf(u))
    BY BalanceTotals
  <2>2. EntriesOf(u) \subseteq EntryType /\ IsFiniteSet(EntriesOf(u))
    <3>1. EntriesOf(u) \subseteq ledger
      BY DEF EntriesOf
    <3> QED BY <3>1, FS_Subset DEF TablesAreFinite, IInv, TypeOK
  <2>3. Total(EntriesOf(u)) \in Int
    BY <2>2, TotalFacts
  <2>4. EntriesOf(u)' = EntriesOf(u) \cup {e \in rows[s] : e.user = u}
    BY <1>1 DEF EntriesOf
  <2>9. Flushed(s) /\ Wants(s) = {}
    BY <1>1 DEF IInv, RowsUnderLock, Wants
  <2>5. CASE lock[u] # s
    <3>1. {e \in rows[s] : e.user = u} = {}
      BY <2>9, <2>5 DEF Flushed
    <3>2. EntriesOf(u)' = EntriesOf(u)
      BY <2>4, <3>1
    <3> QED BY <1>1, <2>1, <2>5, <3>2
  <2>6. CASE lock[u] = s
    <3>1. PICK e \in rows[s] : e.user = u
      BY <2>9, <2>6 DEF Flushed
    <3>2. {f \in rows[s] : f.user = u} = {e}
      BY <2>9, <3>1 DEF Flushed
    <3>3. e \in EntryType /\ e \notin EntriesOf(u)
      <4>1. e \in EntryType
        BY DEF IInv, TypeOK
      <4>2. \A f \in EntriesOf(u) : f.id # e.id
        BY <3>1 DEF IInv, IdsDiffer, EntriesOf
      <4> QED BY <4>1, <4>2
    <3>4. Total(EntriesOf(u) \cup {e}) = Total(EntriesOf(u)) + Signed(e)
      BY <2>2, <3>3, TotalFacts
    <3>5. EntriesOf(u)' = EntriesOf(u) \cup {e}
      BY <2>4, <3>2
    <3>6. balance'[u] = balance[u] + Signed(e)
      BY <1>1, <2>6, <3>1 DEF Serves, RowsServeRequest
    <3>7. Signed(e) \in Int /\ InitialBalance \in Int
      BY <3>3, ConstantsAssumption DEF Signed, EntryType
    <3>8. Total(EntriesOf(u)') = Total(EntriesOf(u)) + Signed(e)
      BY <3>4, <3>5, Zenon
    <3> QED BY <2>1, <2>3, <3>6, <3>7, <3>8
  <2> QED BY <2>5, <2>6
<1> QED BY <1>2, <1>3, <1>4

\* Every step keeps the invariant while the requests stay apart.
LEMMA StepApart ==
  ASSUME ApartInv, NEW s \in Sessions, StepOf(s), IInv', WalletsApart'
  PROVE  ApartInv'
<1>1. TablesAreFinite' /\ BalanceIsLedgerSum' /\ Serves(s)'
  <2>1. CASE Commit(s)
    BY <2>1, CommitServes
  <2>2. CASE Close(s) /\ ~Commit(s)
    <3>1. UNCHANGED dbVars
      BY <2>2 DEF StepOf, Work, Serve, Begin, IdempotentHit, IdempotentMiss, LoadOwn, LoadRecipient,
         debit_with_fee, credit, UpdateWallet, Rollback, DeadlockVictim
    <3> QED BY <2>2, <3>1, CloseServes
  <2>3. CASE debit_with_fee(s) \/ credit(s)
    BY <2>3, FlushServes
  <2>4. CASE UpdateWallet(s)
    BY <2>4, UpdateServes
  <2>5. CASE ~Close(s) /\ ~debit_with_fee(s) /\ ~credit(s) /\ ~UpdateWallet(s)
    BY <2>5, ReadServes DEF StepOf, Work, Serve, IdempotentHit, Commit, Rollback, DeadlockVictim
  <2> QED BY <2>1, <2>2, <2>3, <2>4, <2>5
<1>2. NumbersDiffer' /\ OthersKeep(s)
  BY StepNumbers, StepIsLocal DEF ApartInv, IInv
<1>3. ASSUME NEW t \in Sessions \ {s} PROVE Serves(t)'
  <2>1. CASE Commit(s)
    <3>1. /\ pc[s] = "commit" /\ txns' = txns \cup {Row(txnOf[s], req[s])}
          /\ \A u \in Users : lock[u] # s => balance'[u] = balance[u]
      BY <2>1 DEF Commit
    <3>2. Row(txnOf[s], req[s]).user = req[s].user
      BY DEF Row
    <3> QED BY <1>2, <3>1, <3>2, OthersServe DEF Working
  <2>2. CASE ~Commit(s)
    <3>1. UNCHANGED <<balance, txns>>
      BY <2>2 DEF StepOf, Work, Serve, Begin, IdempotentHit, IdempotentMiss, LoadOwn, LoadRecipient,
         debit_with_fee, credit, UpdateWallet, Rollback, DeadlockVictim, dbVars
    <3> QED BY <1>2, <3>1, OthersServe
  <2> QED BY <2>1, <2>2
<1> QED BY <1>1, <1>2, <1>3 DEF ApartInv

\* Only the end of a lookup brings a request to its wallets.
LEMMA StepStaysApart ==
  ASSUME ApartInv, ApartNext
  PROVE  Next /\ WalletsApart'
<1>1. PICK s \in Sessions : \/ Begin(s) \/ IdempotentHit(s) \/ MissApart(s) \/ Serve(s)
                            \/ Rollback(s) \/ DeadlockVictim(s)
  BY DEF ApartNext
<1>2. StepOf(s) /\ Next
  BY <1>1 DEF StepOf, Work, MissApart, Next
<1>3. CASE MissApart(s)
  BY <1>2, <1>3 DEF MissApart
<1>4. CASE ~MissApart(s)
  <2>1. OthersKeep(s) /\ TypeOK
    BY <1>2, StepIsLocal DEF ApartInv, IInv
  <2>2. Working(s)' => Working(s) /\ req'[s] = req[s]
    <3>1. CASE Begin(s)
      BY <2>1, <3>1 DEF Begin, Goto, Working, TypeOK
    <3>2. CASE Close(s)
      BY <2>1, <3>2, CloseIsLocal DEF Working
    <3>3. CASE ~Begin(s) /\ ~Close(s)
      <4>1. Serve(s) /\ ~Commit(s)
        BY <1>1, <1>4, <3>3 DEF IdempotentHit, Serve, Commit, Rollback, DeadlockVictim
      <4>2. CASE UpdateWallet(s)
        BY <4>2 DEF UpdateWallet, Wants, Working
      <4> QED BY <3>3, <4>1, <4>2
              DEF Serve, LoadOwn, LoadRecipient, debit_with_fee, credit, Working
    <3> QED BY <3>1, <3>2, <3>3
  <2>3. \A t \in Sessions \ {s} : (Working(t)' <=> Working(t)) /\ req'[t] = req[t]
    BY <2>1 DEF OthersKeep, Working
  <2> QED BY <1>2, <2>2, <2>3 DEF ApartInv, WalletsApart
<1> QED BY <1>3, <1>4

LEMMA NextApart == ApartInv /\ [ApartNext]_vars => ApartInv'
<1> SUFFICES ASSUME ApartInv, [ApartNext]_vars PROVE ApartInv'
  OBVIOUS
<1>0. [Next /\ WalletsApart']_vars
  BY StepStaysApart
<1>1. IInv'
  BY <1>0, NextIInv DEF ApartInv
<1>2. CASE UNCHANGED vars
  <2>1. WalletsApart' /\ NumbersDiffer' /\ TablesAreFinite' /\ BalanceIsLedgerSum'
    BY <1>2 DEF vars, ApartInv, WalletsApart, Working, NumbersDiffer, TablesAreFinite,
                BalanceIsLedgerSum
  <2>2. \A s \in Sessions : Serves(s)'
    BY <1>2 DEF vars, ApartInv, Serves, CopiesAreCurrent, RowsServeRequest, KeyIsUnused,
                KeyRows, Working
  <2> QED BY <1>1, <2>1, <2>2 DEF ApartInv
<1>3. CASE Next /\ WalletsApart'
  BY <1>1, <1>3, StepApart DEF Next, StepOf
<1> QED BY <1>0, <1>2, <1>3

LEMMA SpecApartInv == ApartSpec => []ApartInv
BY InitApart, NextApart, PTL DEF ApartSpec

\* While requests that overlap touch no wallet in common, every wallet's
\* balance is the sum of its ledger entries, fees included (apply_ledger): the
\* lost update needs two sessions on one wallet.
THEOREM ApartBalanceIsLedgerSum == ApartSpec => []BalanceIsLedgerSum
<1>1. ApartInv => BalanceIsLedgerSum
  BY DEF ApartInv
<1> QED BY <1>1, SpecApartInv, PTL

-----------------------------------------------------------------------------
(* The refinement: requests that stay apart are the atomic bank.            *)

\* A commit charges its request's key once more, and no other key.
LEMMA CommitCharges ==
  ASSUME ApartInv, NEW s \in Sessions, Commit(s), req[s] \in Requests
  PROVE  Charges' = [Charges EXCEPT ![<<req[s].user, req[s].key>>] = @ + 1]
<1> DEFINE r == req[s]
           k == <<r.user, r.key>>
           row == Row(txnOf[s], r)
           Of(j) == {t \in txns : <<t.user, t.key>> = j}
           UserKeys == {<<q.user, q.key>> : q \in Requests}
<1>1. txns' = txns \cup {row}
  BY DEF Commit
<1>2. row \notin txns /\ <<row.user, row.key>> = k
  <2>1. row.id = txnOf[s] /\ <<row.user, row.key>> = k
    BY DEF Row
  <2>2. \A t \in txns : t.id # txnOf[s]
    BY DEF Commit, ApartInv, NumbersDiffer
  <2> HIDE DEF row
  <2> QED BY <2>1, <2>2
<1>3. k \in UserKeys
  OBVIOUS
<1> HIDE DEF row, k, r
<1>4. ASSUME NEW j
      PROVE  /\ IsFiniteSet(Of(j)) /\ Cardinality(Of(j)) \in Nat
             /\ Cardinality(Of(j)') = IF j = k THEN Cardinality(Of(j)) + 1 ELSE Cardinality(Of(j))
  <2>1. IsFiniteSet(Of(j)) /\ Cardinality(Of(j)) \in Nat
    <3>1. Of(j) \subseteq txns /\ IsFiniteSet(txns)
      BY DEF ApartInv, TablesAreFinite
    <3> HIDE DEF Of
    <3> QED BY <3>1, FS_Subset, FS_CardinalityType
  <2>2. CASE j = k
    <3>1. Of(j)' = Of(j) \cup {row} /\ row \notin Of(j)
      BY <1>1, <1>2, <2>2
    <3>2. Cardinality(Of(j) \cup {row}) = Cardinality(Of(j)) + 1
      <4> HIDE DEF Of
      <4> QED BY <2>1, <3>1, FS_AddElement
    <3> QED BY <2>1, <2>2, <3>1, <3>2
  <2>3. CASE j # k
    <3>1. Of(j)' = Of(j)
      BY <1>1, <1>2, <2>3
    <3> QED BY <2>1, <2>3, <3>1
  <2> QED BY <2>1, <2>2, <2>3
<1>5. Charges = [j \in UserKeys |-> Cardinality(Of(j))]
      /\ Charges' = [j \in UserKeys |-> Cardinality(Of(j)')]
  BY DEF Charges
<1> HIDE DEF UserKeys, Of
<1>6. Charges' = [Charges EXCEPT ![k] = @ + 1]
  BY <1>3, <1>4, <1>5
<1> QED BY <1>6 DEF k, r

\* A commit is one step of the bank, every other step none.
LEMMA StepImplements ==
  ASSUME ApartInv, [Next]_vars
  PROVE  [Bank!BankNext]_(Bank!bankVars)
<1>1. ASSUME NEW s \in Sessions, Commit(s)
      PROVE  Bank!BankNext
  <2> DEFINE r == req[s]
  <2>1. /\ r \in Requests
        /\ r.key = NoKey \/ KeyRows(r) = {}
        /\ balance[r.user] >= total_charge(r)
        /\ balance' = [[balance EXCEPT ![r.user] = @ - total_charge(r)]
                         EXCEPT ![r.to] = @ + credited(r)]
    BY <1>1, CommitMoves
  <2>2. Charges' = [Charges EXCEPT ![<<r.user, r.key>>] = @ + 1]
    BY <1>1, <2>1, CommitCharges
  <2>3. r.key = NoKey \/ Charges[<<r.user, r.key>>] = 0
    <3>1. CASE KeyRows(r) = {}
      <4>1. {t \in txns : <<t.user, t.key>> = <<r.user, r.key>>} = {}
        BY <3>1 DEF KeyRows
      <4>2. Charges[<<r.user, r.key>>]
            = Cardinality({t \in txns : <<t.user, t.key>> = <<r.user, r.key>>})
        BY <2>1 DEF Charges
      <4> QED BY <4>1, <4>2, FS_EmptySet
    <3> QED BY <2>1, <3>1
  <2>4. Bank!Accept(r)
    BY <2>1, <2>2, <2>3 DEF Bank!Accept, Payee
  <2> QED BY <2>1, <2>4 DEF Bank!BankNext
<1>2. CASE UNCHANGED <<balance, txns>>
  BY <1>2 DEF Bank!bankVars, Charges
<1>3. CASE ~UNCHANGED <<balance, txns>>
  <2>1. PICK s \in Sessions : Begin(s) \/ Work(s) \/ Rollback(s) \/ DeadlockVictim(s)
    BY <1>3 DEF Next, vars
  <2>2. Commit(s)
    BY <1>3, <2>1 DEF Begin, Work, Serve, IdempotentHit, IdempotentMiss, LoadOwn, LoadRecipient,
       debit_with_fee, credit, UpdateWallet, Rollback, DeadlockVictim, dbVars
  <2> QED BY <1>1, <2>2
<1> QED BY <1>2, <1>3

\* While requests that overlap touch no wallet in common, WalletSessions
\* implements AtomicBank: every accepted request moves money once, in one step,
\* from the balances of that moment, and a key is charged once.
THEOREM ApartImplementsBank == ApartSpec => ImplementsBank
<1>1. Init => Bank!BankInit
  <2> SUFFICES ASSUME Init PROVE Bank!BankInit
    OBVIOUS
  <2>1. balance \in [Users -> Nat]
    BY ConstantsAssumption DEF Init
  <2>2. \A k : {t \in txns : <<t.user, t.key>> = k} = {}
    BY DEF Init
  <2>3. Charges = [k \in Bank!UserKeys |-> 0]
    BY <2>2, FS_EmptySet DEF Charges, Bank!UserKeys
  <2> QED BY <2>1, <2>3 DEF Bank!BankInit
<1>2. ApartInv /\ [ApartNext]_vars => [Bank!BankNext]_(Bank!bankVars)
  BY StepStaysApart, StepImplements
<1> QED BY <1>1, <1>2, SpecApartInv, PTL DEF ApartSpec, ImplementsBank, Bank!BankSpec

\* Requests that come one after the other stay apart: a deployment that serves
\* one request at a time has both guarantees without a further assumption.
THEOREM OneSessionStaysApart ==
  ASSUME \A s, t \in Sessions : s = t
  PROVE  Spec => ApartSpec
<1>1. WalletsApart
  BY DEF WalletsApart
<1>2. [Next]_vars /\ WalletsApart' => [ApartNext]_vars
  BY DEF Next, Work, ApartNext, MissApart
<1> QED BY <1>1, <1>2, PTL DEF Spec, ApartSpec
=============================================================================
