----------------------------- MODULE WalletBank -----------------------------
(***************************************************************************)
(* The sessions of WalletSessions against the atomic bank.  The mapping    *)
(* reads the committed rows only: a request counts at its commit.  Nothing *)
(* in the code keeps two requests off one wallet before the first flush,   *)
(* so the bank is implemented only while they keep off by themselves.      *)
(***************************************************************************)
EXTENDS WalletSessions

\* Past its idempotency lookup a request works on the wallets it names.
Working(s) == pc[s] \notin {"idle", "lookup"}
Wallets(r) == {r.user, r.to}

\* No two requests work on one wallet at a time; others may overlap.
WalletsApart ==
  \A s, t \in Sessions :
    s # t /\ Working(s) /\ Working(t) => Wallets(req[s]) \cap Wallets(req[t]) = {}

\* A request goes on from its lookup only when its wallets are its own.
MissApart(s) == IdempotentMiss(s) /\ WalletsApart'

ApartNext ==
  \E s \in Sessions : \/ Begin(s) \/ IdempotentHit(s) \/ MissApart(s) \/ Serve(s)
                       \/ Rollback(s) \/ DeadlockVictim(s)

ApartSpec == Init /\ [][ApartNext]_vars

\* How often a user was charged for a key.
Charges ==
  [k \in {<<r.user, r.key>> : r \in Requests} |->
     Cardinality({t \in txns : <<t.user, t.key>> = k})]

Payee(r) == r.to

Bank == INSTANCE AtomicBank
          WITH balance <- balance, charges <- Charges,
               Charge <- total_charge, Payee <- Payee, Pays <- credited

\* Requests that stay apart behave as the atomic bank does: the intermediate
\* flushes and the rollbacks are stutters, a commit is one step.
ImplementsBank == Bank!BankSpec
=============================================================================
