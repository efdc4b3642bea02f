--------------------------- MODULE ReconcileLoop ----------------------------
(***************************************************************************)
(* The loops of reconciliation_service that look for work: the worker of   *)
(* the web process and the Celery worker sweep every flagged transaction   *)
(* that is old enough, a user's own call sweeps hers.  A sweep claims the  *)
(* flagged row with the lowest id, asks the provider, settles or goes on,  *)
(* and starts over until there is nothing to claim.                        *)
(***************************************************************************)
EXTENDS Integers, FiniteSets

CONSTANTS N,          \* transactions, in the order of their ids
          Sweepers,
          RowsOf,     \* the rows a sweeper's filter lets through
          Collects,   \* the rows that collect the payment of a money request
          Nobody

Rows == 1..N

ASSUME LoopAssumption ==
  /\ N \in Nat \ {0}
  /\ RowsOf \in [Sweepers -> SUBSET Rows] /\ Collects \subseteq Rows
  /\ Nobody \notin Sweepers \cup Rows

VARIABLES
  flagged,      \* rows with pending_reconciliation, old enough, unsettled
  answer,       \* TRUE once the provider has a final answer for the row
  orphaned,     \* collects whose money request was closed without them
  settlements,  \* how often each row was settled
  lock,         \* holder of each transactions row
  pc,           \* "asleep", or at a statement of the sweep
  row           \* the row each sweeper has claimed

vars == <<flagged, answer, orphaned, settlements, lock, pc, row>>

SettleBound == 2

Init ==
  /\ flagged \in SUBSET Rows
  /\ answer \in [Rows -> BOOLEAN]
  /\ orphaned = {} /\ settlements = [r \in Rows |-> 0]
  /\ lock = [r \in Rows |-> Nobody]
  /\ pc = [w \in Sweepers |-> "asleep"]
  /\ row = [w \in Sweepers |-> Nobody]

Goto(w, label) == pc' = [pc EXCEPT ![w] = label]

\* A handler leaves a transaction pending: it is flagged, once.
Flag(r) ==
  /\ r \notin flagged /\ settlements[r] = 0
  /\ flagged' = flagged \cup {r}
  /\ UNCHANGED <<answer, orphaned, settlements, lock, pc, row>>

\* The provider comes to a decision about a payment.
Decide(r) ==
  /\ ~answer[r]
  /\ answer' = [answer EXCEPT ![r] = TRUE]
  /\ UNCHANGED <<flagged, orphaned, settlements, lock, pc, row>>

\* The request a collect is for is paid otherwise, declined or cancelled, or
\* goes on with another collect; its row is not the one a sweep locks.
CloseRequest(r) ==
  /\ r \in (Collects \cap flagged) \ orphaned
  /\ orphaned' = orphaned \cup {r}
  /\ UNCHANGED <<flagged, answer, settlements, lock, pc, row>>

\* The timer, the Celery beat or the user's call starts a sweep.
Wake(w) ==
  /\ pc[w] = "asleep" /\ Goto(w, "claim")
  /\ UNCHANGED <<flagged, answer, orphaned, settlements, lock, row>>

Eligible(w) == flagged \cap RowsOf[w]

\* ORDER BY id LIMIT 1: one row, or none.
Lowest(S) == {r \in S : \A q \in S : r <= q}

\* Mutant: the claim reads without FOR UPDATE.
claim_next_unlocked(w) ==
  /\ pc[w] = "claim"
  /\ \E r \in Lowest(Eligible(w)) : row' = [row EXCEPT ![w] = r]
  /\ Goto(w, "inquire")
  /\ UNCHANGED <<flagged, answer, orphaned, settlements, lock>>

\* _claim_next: the lowest flagged row, FOR UPDATE NOWAIT.
claim_next(w) ==
  /\ pc[w] = "claim"
  /\ \E r \in Lowest(Eligible(w)) :
       /\ lock[r] = Nobody
       /\ lock' = [lock EXCEPT ![r] = w]
       /\ row' = [row EXCEPT ![w] = r]
  /\ Goto(w, "inquire")
  /\ UNCHANGED <<flagged, answer, orphaned, settlements>>

\* Nothing is flagged: the sweep is over.
NothingToClaim(w) ==
  /\ pc[w] = "claim" /\ Eligible(w) = {}
  /\ Goto(w, "asleep")
  /\ UNCHANGED <<flagged, answer, orphaned, settlements, lock, row>>

\* The lowest row is locked: NOWAIT raises, and the sweep is over too.
HeadLocked(w) ==
  /\ pc[w] = "claim"
  /\ \E r \in Lowest(Eligible(w)) : lock[r] # Nobody
  /\ Goto(w, "asleep")
  /\ UNCHANGED <<flagged, answer, orphaned, settlements, lock, row>>

\* Mutant: the transaction is left open and keeps its lock.
unclaim_leaking(w) ==
  /\ UNCHANGED lock
  /\ row' = [row EXCEPT ![w] = Nobody]

\* A commit or a rollback.
Unclaim(w) ==
  /\ lock' = [lock EXCEPT ![row[w]] = IF @ = w THEN Nobody ELSE @]
  /\ row' = [row EXCEPT ![w] = Nobody]

\* _reconcile_one on a final answer: settled and committed, and on to the next.
Settle(w) ==
  /\ pc[w] = "inquire" /\ answer[row[w]] /\ row[w] \notin orphaned
  /\ settlements' = [settlements EXCEPT ![row[w]] = IF @ < SettleBound THEN @ + 1 ELSE @]
  /\ flagged' = flagged \ {row[w]}
  /\ Unclaim(w) /\ Goto(w, "claim")
  /\ UNCHANGED <<answer, orphaned>>

\* A final answer to a collect whose request is closed: it is left as it is,
\* its flag included, and the loop starts over.
SettleReturns(w) ==
  /\ pc[w] = "inquire" /\ answer[row[w]] /\ row[w] \in orphaned
  /\ Unclaim(w) /\ Goto(w, "claim")
  /\ UNCHANGED <<flagged, answer, orphaned, settlements>>

\* On a pending answer, or an inquiry that fails: the attempt is committed
\* and the loop starts over.
StillPending(w) ==
  /\ pc[w] = "inquire"
  /\ Unclaim(w) /\ Goto(w, "claim")
  /\ UNCHANGED <<flagged, answer, orphaned, settlements>>

\* On an exception, a conflict with a closed request among them: rolled back,
\* and the sweep is over.
Raises(w) ==
  /\ pc[w] = "inquire"
  /\ Unclaim(w) /\ Goto(w, "asleep")
  /\ UNCHANGED <<flagged, answer, orphaned, settlements>>

Next ==
  \/ \E r \in Rows : Flag(r) \/ Decide(r) \/ CloseRequest(r)
  \/ \E w \in Sweepers : Wake(w) \/ claim_next(w) \/ NothingToClaim(w) \/ HeadLocked(w)
                         \/ Settle(w) \/ SettleReturns(w) \/ StillPending(w) \/ Raises(w)

Spec == Init /\ [][Next]_vars

(***************************************************************************)
(* Fairness: the workers wake, and a sweep that runs goes on.  What has an *)
(* answer is answered and settled at last, unless its request is closed.   *)
(* That a provider ever decides is not owed: a prompt on a phone may stay  *)
(* unanswered; nor is a user's own call.                                   *)
(***************************************************************************)
Workers == {w \in Sweepers : RowsOf[w] = Rows}

Fairness ==
  /\ \A w \in Workers : WF_vars(Wake(w))
  /\ \A w \in Sweepers :
       /\ WF_vars(NothingToClaim(w)) /\ WF_vars(HeadLocked(w)) /\ WF_vars(StillPending(w))
       /\ SF_vars(claim_next(w)) /\ SF_vars(Settle(w))

FairSpec == Spec /\ Fairness

-----------------------------------------------------------------------------
\* Rows, locks and sweeps keep to their values, and a lock is only held by
\* the sweep that works on its row.
TypeOK ==
  /\ flagged \subseteq Rows /\ answer \in [Rows -> BOOLEAN] /\ orphaned \subseteq Rows
  /\ settlements \in [Rows -> 0..SettleBound]
  /\ lock \in [Rows -> Sweepers \cup {Nobody}]
  /\ pc \in [Sweepers -> {"asleep", "claim", "inquire"}]
  /\ row \in [Sweepers -> Rows \cup {Nobody}]
  /\ \A w \in Sweepers : (pc[w] = "inquire") = (row[w] # Nobody)
  /\ \A r \in Rows : lock[r] # Nobody => row[lock[r]] = r

\* However many sweeps run at once, a transaction is settled once.
SettledOnce == \A r \in Rows : settlements[r] <= 1

\* A row is never claimed by two sweeps, nor after it was settled.
ClaimsExclude ==
  \A w \in Sweepers : pc[w] = "inquire" =>
    /\ row[w] \in flagged
    /\ \A x \in Sweepers : pc[x] = "inquire" /\ row[x] = row[w] => x = w

\* The rows no sweep gets past on its way to row r: those nobody has decided,
\* and the collects whose request is closed.
Ahead(r) == {q \in flagged : q < r /\ (~answer[q] \/ q \in orphaned)}

\* A row whose provider has decided is settled at last, although sweeps meet
\* locked rows and errors at any statement, unless its own request is closed, or
\* a row stays ahead of it: ORDER BY id claims that one again and again.
AnsweredIsSettled ==
  \A r \in Rows :
    (<>[](Ahead(r) = {}))
      => ((r \in flagged /\ answer[r]) ~> (settlements[r] > 0 \/ r \in orphaned))
=============================================================================
