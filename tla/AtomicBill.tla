----------------------------- MODULE AtomicBill -----------------------------
(***************************************************************************)
(* What a bill promises its payer: its price is held when the bill is      *)
(* taken on, once; later the provider's answer for the meter decides it,   *)
(* once, and in that very step the money is spent or given back.  A top-up *)
(* is taken on and decided in one step.  There are no timers, workers,     *)
(* flags, locks, ledger entries or restarts here.                          *)
(***************************************************************************)
EXTENDS Integers

CONSTANTS Bills,
          Tokens, NoToken,   \* validated meters; the token of a bill without
          Declines(_)        \* Declines(k): the provider refuses to serve k

VARIABLES bill,     \* bill[b]: "none", "held", "SUCCESS" or "FAILED"
          token,    \* token[b]: the meter it pays
          paid      \* paid[b]: how often its payer is out of its price

billVars == <<bill, token, paid>>

Outcomes == {"SUCCESS", "FAILED"}

\* A bill is paid from the moment it is taken on until it fails.
Become(b, state) ==
  /\ bill' = [bill EXCEPT ![b] = state]
  /\ paid' = [paid EXCEPT ![b] = IF state = "FAILED" THEN 0 ELSE 1]

Hold(b) ==
  /\ bill[b] = "none" /\ Become(b, "held")
  /\ \E k \in Tokens : token' = [token EXCEPT ![b] = k]

Decide(b) ==
  /\ bill[b] = "held"
  /\ Become(b, IF Declines(token[b]) THEN "FAILED" ELSE "SUCCESS")
  /\ UNCHANGED token

TopUp(b) ==
  /\ bill[b] = "none"
  /\ \E o \in Outcomes : Become(b, o)
  /\ UNCHANGED token

BillInit ==
  /\ bill = [b \in Bills |-> "none"] /\ token = [b \in Bills |-> NoToken]
  /\ paid = [b \in Bills |-> 0]
BillNext == \E b \in Bills : Hold(b) \/ Decide(b) \/ TopUp(b)
BillSpec == BillInit /\ [][BillNext]_billVars
=============================================================================
