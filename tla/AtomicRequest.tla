--------------------------- MODULE AtomicRequest ----------------------------
(***************************************************************************)
(* What a money request promises its two parties: it is answered once.     *)
(* The payer pays from the wallet, or turns it down, or has Campay asked   *)
(* for the money; what is asked for is neither asked for again, nor paid   *)
(* from the wallet, nor turned down.  The request is PAID in the step that *)
(* brings its money to the requester.  It may fail although Campay was     *)
(* asked, since the answer can be lost; that it waits, or is PAID, cannot  *)
(* err.  A process that dies in the call to Campay forgets its demand.     *)
(* There are no calls, callbacks, workers, locks or stale reads here.      *)
(***************************************************************************)
EXTENDS Integers

CONSTANTS Payers,     \* a payer's attempt to pay is a demand at Campay
          Forgetful   \* whether a demand can be forgotten

VARIABLES request,            \* its status
          demand,             \* what became of each demand at Campay
          forgotten,          \* demands nobody waits for any more
          charged, credited   \* how often the payer's wallet was debited and
                              \* the requester's credited

atomicVars == <<request, demand, forgotten, charged, credited>>

Outcomes == {"SUCCESS", "FAILED"}
Undemanded == \A p \in Payers : demand[p] # "none" => p \in forgotten

Open ==
  /\ request = "none" /\ request' = "PENDING"
  /\ UNCHANGED <<demand, forgotten, charged, credited>>

FromWallet ==
  /\ request = "PENDING" /\ Undemanded
  /\ request' = "PAID" /\ charged' = charged + 1 /\ credited' = credited + 1
  /\ UNCHANGED <<demand, forgotten>>

TurnDown ==
  /\ request = "PENDING" /\ Undemanded
  /\ request' \in {"DECLINED", "CANCELLED"}
  /\ UNCHANGED <<demand, forgotten, charged, credited>>

Ask(p) ==
  /\ request = "PENDING" /\ Undemanded /\ demand[p] = "none"
  /\ demand' = [demand EXCEPT ![p] = "PENDING"]
  /\ UNCHANGED <<request, forgotten, charged, credited>>

Forget(p) ==
  /\ Forgetful /\ request = "PENDING"
  /\ demand[p] # "none" /\ p \notin forgotten
  /\ forgotten' = forgotten \cup {p}
  /\ UNCHANGED <<request, demand, charged, credited>>

Await ==
  /\ request = "PENDING" /\ ~Undemanded
  /\ request' = "PROCESSING"
  /\ UNCHANGED <<demand, forgotten, charged, credited>>

Fail ==
  /\ request = "PENDING" /\ request' = "FAILED"
  /\ UNCHANGED <<demand, forgotten, charged, credited>>

\* Campay decides when it likes; the request may be closed by then.
Decide(p) ==
  /\ demand[p] = "PENDING"
  /\ \E o \in Outcomes : demand' = [demand EXCEPT ![p] = o]
  /\ UNCHANGED <<request, forgotten, charged, credited>>

Settle(p) ==
  /\ request \in {"PENDING", "PROCESSING"} /\ demand[p] \in Outcomes
  /\ p \notin forgotten
  /\ IF demand[p] = "SUCCESS"
     THEN request' = "PAID" /\ credited' = credited + 1
     ELSE request' = "FAILED" /\ UNCHANGED credited
  /\ UNCHANGED <<demand, forgotten, charged>>

RequestInit ==
  /\ request = "none" /\ demand = [p \in Payers |-> "none"]
  /\ forgotten = {} /\ charged = 0 /\ credited = 0
RequestNext ==
  \/ Open \/ FromWallet \/ TurnDown \/ Await \/ Fail
  \/ \E p \in Payers : Ask(p) \/ Forget(p) \/ Decide(p) \/ Settle(p)
RequestSpec == RequestInit /\ [][RequestNext]_atomicVars
=============================================================================
