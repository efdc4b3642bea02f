--------------------------- MODULE WalletSessions ---------------------------
(***************************************************************************)
(* The wallet's money-moving handlers when no provider is called:          *)
(* add_money with an instant funding method, send_money, and withdraw      *)
(* without Campay.  FastAPI runs each request in a thread with a database  *)
(* session of its own, so the handlers interleave at every SQL statement.  *)
(*                                                                         *)
(* A session reads a wallet row once and keeps the value in its identity   *)
(* map; every later check and addition uses that copy.  A flush of         *)
(* apply_ledger is two statements: the entry is inserted and takes its id, *)
(* then the wallet is updated to the copy, an absolute value, and its row  *)
(* stays locked until commit or rollback.  What a session has flushed is   *)
(* seen by the others only after its commit (READ COMMITTED).              *)
(***************************************************************************)
EXTENDS Integers, FiniteSets, FiniteSetsExt

CONSTANTS Users, Sessions, Keys, NoKey, Nobody, NoRequest,
          Amounts,        \* amounts a request may name, in minor units
          Fee,            \* Fee[op]: what compute_fee answers for op
          InitialBalance, \* every wallet's balance at the start
          MaxRequests     \* bound on the requests served

Ops == {"ADD_MONEY", "SEND_MONEY", "WITHDRAW"}

ASSUME ConstantsAssumption ==
  /\ Amounts \subseteq Nat \ {0}
  /\ Fee \in [Ops -> Nat]
  /\ InitialBalance \in Nat
  /\ MaxRequests \in Nat
  /\ NoKey \notin Keys
  /\ Nobody \notin Sessions
  /\ NoRequest \notin [op : Ops, user : Users, to : Users, amount : Amounts,
                      key : Keys \cup {NoKey}]

VARIABLES
  \* the database, as the last commits left it
  balance,      \* balance[u]: wallets.balance
  ledger,       \* ledger_entries rows
  txns,         \* transactions rows, each with its idempotency_keys row
  lock,         \* lock[u]: the session holding u's wallet row, or Nobody
  \* sequences of the database
  served,       \* requests served so far; numbers the transactions
  nextEntry,    \* the next ledger_entries id
  \* the sessions
  pc,           \* the next statement of each session
  req,          \* the request it serves
  txnOf,        \* the number of that request
  copy,         \* copy[s][u]: the balance attribute of the loaded wallet
  rows          \* ledger rows inserted and not yet committed

dbVars == <<balance, ledger, txns>>
vars == <<balance, ledger, txns, lock, served, nextEntry,
          pc, req, txnOf, copy, rows>>

(***************************************************************************)
(* Requests that pass validation.  The others (a self transfer, a fee that *)
(* eats the deposit, a wrong PIN) are refused before any write.            *)
(***************************************************************************)
Requests ==
  {r \in [op : Ops, user : Users, to : Users, amount : Amounts, key : Keys \cup {NoKey}] :
      /\ (r.op = "SEND_MONEY") <=> (r.to # r.user)
      /\ r.op = "ADD_MONEY" => Fee["ADD_MONEY"] < r.amount}

\* What the request debits from its own wallet: principal and fee.
total_charge(r) == IF r.op = "ADD_MONEY" THEN 0 ELSE r.amount + Fee[r.op]

\* What it credits, and to whom: deposits lose the fee, transfers do not.
credited(r) == IF r.op = "ADD_MONEY" THEN r.amount - Fee[r.op]
               ELSE IF r.op = "SEND_MONEY" THEN r.amount ELSE 0

Entry(id, t, u, dir, n, after) ==
  [id |-> id, txn |-> t, user |-> u, dir |-> dir, amount |-> n, after |-> after]

Row(t, r) == [id |-> t, op |-> r.op, user |-> r.user, to |-> r.to,
              amount |-> r.amount, fee |-> Fee[r.op], key |-> r.key]

\* Mutant: the lookup matches the operation too.
KeyRowsByOp(r) ==
  {t \in txns : t.key = r.key /\ t.user = r.user /\ t.op = r.op}

\* idempotency_keys rows a lookup by (key, user) finds.
KeyRows(r) == {t \in txns : t.key = r.key /\ t.user = r.user}

NothingLoaded == [u \in Users |-> 0]

Init ==
  /\ balance = [u \in Users |-> InitialBalance]
  /\ ledger = {} /\ txns = {}
  /\ lock = [u \in Users |-> Nobody]
  /\ served = 0 /\ nextEntry = 1
  /\ pc = [s \in Sessions |-> "idle"]
  /\ req = [s \in Sessions |-> NoRequest]
  /\ txnOf = [s \in Sessions |-> 0]
  /\ copy = [s \in Sessions |-> NothingLoaded]
  /\ rows = [s \in Sessions |-> {}]

Goto(s, label) == pc' = [pc EXCEPT ![s] = label]

\* Mutant: get_db forgets to close the session, whose transaction stays open.
CloseLeaked(s) ==
  /\ Goto(s, "idle")
  /\ req' = [req EXCEPT ![s] = NoRequest]
  /\ txnOf' = [txnOf EXCEPT ![s] = 0]
  /\ copy' = [copy EXCEPT ![s] = NothingLoaded]
  /\ rows' = [rows EXCEPT ![s] = {}]
  /\ UNCHANGED lock

\* The session is closed: its locks, its copies and its uncommitted rows go.
Close(s) ==
  /\ Goto(s, "idle")
  /\ req' = [req EXCEPT ![s] = NoRequest]
  /\ txnOf' = [txnOf EXCEPT ![s] = 0]
  /\ copy' = [copy EXCEPT ![s] = NothingLoaded]
  /\ lock' = [u \in Users |-> IF lock[u] = s THEN Nobody ELSE lock[u]]
  /\ rows' = [rows EXCEPT ![s] = {}]

-----------------------------------------------------------------------------
Begin(s) ==
  /\ pc[s] = "idle"
  /\ served < MaxRequests
  /\ \E r \in Requests : req' = [req EXCEPT ![s] = r]
  /\ served' = served + 1
  /\ txnOf' = [txnOf EXCEPT ![s] = served']
  /\ Goto(s, "lookup")
  /\ UNCHANGED <<dbVars, lock, nextEntry, copy, rows>>

\* A prior row answers the request (two of them raise MultipleResultsFound).
IdempotentHit(s) ==
  /\ pc[s] = "lookup"
  /\ req[s].key # NoKey /\ KeyRows(req[s]) # {}
  /\ Close(s)
  /\ UNCHANGED <<dbVars, served, nextEntry>>

IdempotentMiss(s) ==
  /\ pc[s] = "lookup"
  /\ req[s].key = NoKey \/ KeyRows(req[s]) = {}
  /\ Goto(s, "load")
  /\ UNCHANGED <<dbVars, lock, served, nextEntry, req, txnOf, copy, rows>>

\* A deposit has nothing to check; a transfer loads the payee's wallet too.
AfterLoad == [ADD_MONEY |-> "credit", SEND_MONEY |-> "load_to", WITHDRAW |-> "debit"]

\* get_wallet, then the handlers' own balance check on what was loaded.
LoadOwn(s) ==
  LET u == req[s].user
  IN  /\ pc[s] = "load"
      /\ IF balance[u] < total_charge(req[s]) THEN Close(s)
         ELSE /\ copy' = [copy EXCEPT ![s][u] = balance[u]]
              /\ Goto(s, AfterLoad[req[s].op])
              /\ UNCHANGED <<lock, req, txnOf, rows>>
      /\ UNCHANGED <<dbVars, served, nextEntry>>

LoadRecipient(s) ==
  /\ pc[s] = "load_to"
  /\ copy' = [copy EXCEPT ![s][req[s].to] = balance[req[s].to]]
  /\ Goto(s, "debit")
  /\ UNCHANGED <<dbVars, lock, served, nextEntry, req, txnOf, rows>>

\* Mutant: the fee leaves the balance and not the ledger.
apply_ledger_no_fee(s, u, dir, n) ==
  LET after == IF dir = "CREDIT" THEN copy[s][u] + n ELSE copy[s][u] - n
  IN  /\ copy' = [copy EXCEPT ![s][u] = after]
      /\ rows' = [rows EXCEPT ![s] =
                    @ \cup {Entry(nextEntry, txnOf[s], u, dir, req[s].amount, after)}]
      /\ nextEntry' = nextEntry + 1

\* apply_ledger changes the copy and flushes.  The INSERT of the entry comes
\* first: it takes the next id and waits for nobody.
apply_ledger(s, u, dir, n) ==
  LET after == IF dir = "CREDIT" THEN copy[s][u] + n ELSE copy[s][u] - n
  IN  /\ copy' = [copy EXCEPT ![s][u] = after]
      /\ rows' = [rows EXCEPT ![s] =
                    @ \cup {Entry(nextEntry, txnOf[s], u, dir, n, after)}]
      /\ nextEntry' = nextEntry + 1

debit_with_fee(s) ==
  /\ pc[s] = "debit"
  /\ copy[s][req[s].user] >= total_charge(req[s])
  /\ apply_ledger(s, req[s].user, "DEBIT", total_charge(req[s]))
  /\ Goto(s, "debit_update")
  /\ UNCHANGED <<dbVars, lock, served, req, txnOf>>

credit(s) ==
  /\ pc[s] = "credit"
  /\ apply_ledger(s, req[s].to, "CREDIT", credited(req[s]))
  /\ Goto(s, "credit_update")
  /\ UNCHANGED <<dbVars, lock, served, req, txnOf>>

\* The row the session's next statement must lock.
Wants(s) == CASE pc[s] = "debit_update"  -> {req[s].user}
              [] pc[s] = "credit_update" -> {req[s].to}
              [] OTHER                   -> {}

AfterUpdate(s) ==
  IF pc[s] = "debit_update" /\ req[s].op = "SEND_MONEY" THEN "credit" ELSE "commit"

\* Mutant: the row is written without a lock.
UpdateWalletUnlocked(s) ==
  /\ \E u \in Wants(s) : lock' = [lock EXCEPT ![u] = s]
  /\ Goto(s, AfterUpdate(s))
  /\ UNCHANGED <<dbVars, served, nextEntry, req, txnOf, copy, rows>>

\* The flush goes on to the UPDATE of the wallet, which waits for the row.
UpdateWallet(s) ==
  /\ \E u \in Wants(s) : lock[u] \in {Nobody, s} /\ lock' = [lock EXCEPT ![u] = s]
  /\ Goto(s, AfterUpdate(s))
  /\ UNCHANGED <<dbVars, served, nextEntry, req, txnOf, copy, rows>>

Signed(e) == IF e.dir = "CREDIT" THEN e.amount ELSE -e.amount

\* Mutant: the update is made relative to the row (balance = balance + delta)
\* and the check stays on the copy.
CommitRelative(s) ==
  /\ pc[s] = "commit"
  /\ balance' = [u \in Users |->
       balance[u] + MapThenSumSet(Signed, {e \in rows[s] : e.user = u})]
  /\ ledger' = ledger \cup rows[s]
  /\ txns' = txns \cup {Row(txnOf[s], req[s])}
  /\ Close(s)
  /\ UNCHANGED <<served, nextEntry>>

Commit(s) ==
  /\ pc[s] = "commit"
  /\ balance' = [u \in Users |-> IF lock[u] = s THEN copy[s][u] ELSE balance[u]]
  /\ ledger' = ledger \cup rows[s]
  /\ txns' = txns \cup {Row(txnOf[s], req[s])}
  /\ Close(s)
  /\ UNCHANGED <<served, nextEntry>>

\* An exception, a dropped connection or a crash of the process.
Rollback(s) ==
  /\ pc[s] # "idle"
  /\ Close(s)
  /\ UNCHANGED <<dbVars, served, nextEntry>>

\* Two sessions wait for each other: the database aborts one of them.
DeadlockVictim(s) ==
  /\ \E t \in Sessions \ {s} :
       /\ \E u \in Wants(s) : lock[u] = t
       /\ \E u \in Wants(t) : lock[u] = s
  /\ Close(s)
  /\ UNCHANGED <<dbVars, served, nextEntry>>

Serve(s) == \/ LoadOwn(s) \/ LoadRecipient(s)
            \/ debit_with_fee(s) \/ credit(s) \/ UpdateWallet(s) \/ Commit(s)

Work(s) == IdempotentHit(s) \/ IdempotentMiss(s) \/ Serve(s)

Next == \E s \in Sessions : Begin(s) \/ Work(s) \/ Rollback(s) \/ DeadlockVictim(s)

Spec == Init /\ [][Next]_vars

\* Threads are scheduled and the database detects deadlocks; users need not
\* send requests and nothing has to fail.
Fairness == \A s \in Sessions : WF_vars(Work(s)) /\ WF_vars(DeadlockVictim(s))
FairSpec == Spec /\ Fairness

-----------------------------------------------------------------------------
Labels == {"idle", "lookup", "load", "load_to", "debit", "debit_update",
           "credit", "credit_update", "commit"}

EntryType == [id : Nat, txn : Nat, user : Users, dir : {"DEBIT", "CREDIT"},
              amount : Nat, after : Int]

\* The shape of every variable.
TypeOK ==
  /\ balance \in [Users -> Int]
  /\ ledger \subseteq EntryType
  /\ txns \subseteq [id : Nat, op : Ops, user : Users, to : Users,
                     amount : Nat, fee : Nat, key : Keys \cup {NoKey}]
  /\ lock \in [Users -> Sessions \cup {Nobody}]
  /\ served \in 0..MaxRequests
  /\ nextEntry \in Nat
  /\ pc \in [Sessions -> Labels]
  /\ req \in [Sessions -> Requests \cup {NoRequest}]
  /\ txnOf \in [Sessions -> Nat]
  /\ copy \in [Sessions -> [Users -> Int]]
  /\ rows \in [Sessions -> SUBSET EntryType]

\* No wallet is ever overdrawn, however stale the copies the handlers
\* checked were: apply_ledger writes back the very value it has checked.
NoOverdraft == \A u \in Users : balance[u] >= 0

\* However sessions overlap, a wallet's balance changes only with the one
\* entry that the same commit posts for it, and becomes the balance_after of
\* that entry: the copy apply_ledger has put in the entry is still the copy
\* that is committed, under a lock no other session has taken meanwhile.
EntryOfEveryChange ==
  [][\A u \in Users :
       LET posted == {e \in ledger' : e.user = u} \ ledger
       IN  IF posted = {} THEN balance'[u] = balance[u]
           ELSE \E e \in posted : posted = {e} /\ balance'[u] = e.after]_vars

\* A wallet's balance is the sum of its ledger entries.
BalanceIsLedgerSum ==
  \A u \in Users :
    balance[u] = InitialBalance
                 + MapThenSumSet(Signed, {e \in ledger : e.user = u})

\* Every request is answered: no session waits for a lock for ever.
RequestsAnswered == \A s \in Sessions : pc[s] # "idle" ~> pc[s] = "idle"
=============================================================================
