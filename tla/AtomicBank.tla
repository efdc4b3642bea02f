----------------------------- MODULE AtomicBank -----------------------------
(***************************************************************************)
(* What the wallet promises its users: every accepted request moves money  *)
(* once, in one step, from the balances of that moment.  A request that    *)
(* carries an idempotency key is accepted only while its key is unused.    *)
(* There are no sessions, no copies and no locks here.                     *)
(***************************************************************************)
EXTENDS Integers

CONSTANTS Users,          \* wallet owners
          Requests,       \* requests a user may send
          NoKey,          \* the key of a request sent without one
          Charge(_),      \* what a request takes from its own wallet
          Payee(_),       \* whose wallet a request pays into
          Pays(_)         \* what it pays there

VARIABLES balance,        \* balance[u]: the money user u owns
          charges         \* charges[u, k]: requests of u accepted with key k

bankVars == <<balance, charges>>

UserKeys == {<<r.user, r.key>> : r \in Requests}

\* One accepted request: enough money, an unused key, both sides at once.
Accept(r) ==
  LET left == [balance EXCEPT ![r.user] = @ - Charge(r)]
  IN  /\ balance[r.user] >= Charge(r)
      /\ r.key = NoKey \/ charges[<<r.user, r.key>>] = 0
      /\ balance' = [left EXCEPT ![Payee(r)] = @ + Pays(r)]
      /\ charges' = [charges EXCEPT ![<<r.user, r.key>>] = @ + 1]

BankInit == balance \in [Users -> Nat] /\ charges = [k \in UserKeys |-> 0]
BankNext == \E r \in Requests : Accept(r)
BankSpec == BankInit /\ [][BankNext]_bankVars
=============================================================================
