---------------------------- MODULE LimitGrants -----------------------------
(***************************************************************************)
(* The limits of one user: limit_service.py with the settings and the      *)
(* spent_today it reads.  LimitBegin takes a request's snapshot and the    *)
(* handler's action commits at once what it changed (see Snapshots).  The  *)
(* clock goes on meanwhile: active_grant looks at it twice, and may be     *)
(* called again, so a handler also takes the grants that lapse under way.  *)
(***************************************************************************)
EXTENDS Snapshots, FiniteSetsExt

CONSTANTS MaxRequests, MaxTxns,   \* bounds: rows of each table
          Amounts, Caps,          \* amounts of debits; spending_cap values
          Default, Raised,        \* limits: [per |-> ..., daily |-> ...]
          NoCap, Nothing

ASSUME LimitAssumption ==
  /\ MaxRequests \in Nat /\ MaxTxns \in Nat
  /\ Amounts \subseteq Nat \ {0} /\ Caps \subseteq Nat \ {0}
  /\ NoCap \notin Caps /\ Nothing \notin 1..MaxRequests
  /\ {Default, Raised} \subseteq [per : Nat, daily : Nat]
  /\ Default.per < Raised.per \/ Default.daily < Raised.daily

RequestIds == 1..MaxRequests
TxnIds == 1..MaxTxns

LimitIncreaseStatus ==
  {"PENDING", "APPROVED", "REJECTED", "EXPIRED", "EXHAUSTED"}
RequestRow == [status : LimitIncreaseStatus \cup {"none"},
               spending_cap : Caps \cup {NoCap}, amount_spent : Nat]
Debits == [status : {"none", "PENDING", "PROCESSING", "SUCCESS", "FAILED"},
           amount : Amounts \cup {0}]

VARIABLES
  limits,      \* committed: [request, txn, column], the limits on the user row
  lapsed,      \* requests whose expires_at has passed
  limitView,   \* the snapshot of each open API request, or NoView
  under,       \* history: the grant in force when a debit succeeded, or Nothing
  missed,      \* history: debits whose success was counted under no grant
  waited,      \* history: debits that were ever PENDING
  settledLate, \* history: debits that were settled after their first commit
  limitStale,  \* history: the tables some commit had an outdated view of
  slipped      \* history: the last grant ended without the limits taken back

limitHistory == <<under, missed, waited, settledLate>>
commitHistory == <<limitStale, slipped>>
limitVars == <<limits, lapsed, limitView, limitHistory, commitHistory>>

LimitTables == [request : [RequestIds -> RequestRow], txn : [TxnIds -> Debits],
                column : {"default", "raised"}]

LimitTypeOK ==
  /\ limits \in LimitTables
  /\ lapsed \subseteq RequestIds
  /\ limitView \in [Requesters -> LimitTables \cup {NoView}]
  /\ under \in [TxnIds -> RequestIds \cup {Nothing}]
  /\ missed \subseteq TxnIds /\ waited \subseteq TxnIds /\ settledLate \subseteq TxnIds
  /\ limitStale \subseteq {"request", "txn"} /\ slipped \in BOOLEAN

LimitInit ==
  /\ limits = [request |-> [r \in RequestIds |-> [status |-> "none",
                          spending_cap |-> NoCap, amount_spent |-> 0]],
           txn |-> [t \in TxnIds |-> [status |-> "none", amount |-> 0]],
           column |-> "default"]
  /\ lapsed = {}
  /\ limitView = [s \in Requesters |-> NoView]
  /\ under = [t \in TxnIds |-> Nothing]
  /\ missed = {} /\ waited = {} /\ settledLate = {}
  /\ limitStale = {} /\ slipped = FALSE

-----------------------------------------------------------------------------
(* What a transaction reads.                                               *)

WithStatus(v, st) == {r \in RequestIds : v.request[r].status = st}

UsedUp(row) == row.spending_cap # NoCap /\ row.amount_spent >= row.spending_cap

\* The grants in force when those of L have lapsed.
Unlapsed(v, L) == WithStatus(v, "APPROVED") \ L

Usable(v, L) == {r \in Unlapsed(v, L) : ~UsedUp(v.request[r])}

\* The newest usable grant, as a set of at most one.
Newest(v, L) == {r \in Usable(v, L) : \A q \in Usable(v, L) : q <= r}

\* active_grant first marks EXPIRED what has lapsed.  Of the rest it passes over
\* those newer than the grant it returns, and marks them on the way: EXPIRED
\* when they have lapsed since, and EXHAUSTED when they are used up.
PassedOver(v, mid) ==
  {r \in Unlapsed(v, lapsed) : \A q \in Newest(v, lapsed \cup mid) : r > q}

Marked(v, mid) ==
  [r \in RequestIds |->
     [v.request[r] EXCEPT !.status =
        IF r \in (WithStatus(v, "APPROVED") \cap lapsed) \cup (PassedOver(v, mid) \cap mid)
        THEN "EXPIRED" ELSE IF r \in PassedOver(v, mid) THEN "EXHAUSTED" ELSE @]]

\* Mutant: a grant that lapsed or is used up leaves the limits raised.
active_grant_raised(v, mid, back) == [v EXCEPT !.request = Marked(v, mid)]

\* A grant of mid, that lapses between the two looks at the clock, leaves the
\* limits of the user raised, unless it is of back: a later call in the handler,
\* which still reads its row as APPROVED, takes them back.
active_grant(v, mid, back) ==
  LET ended == (WithStatus(v, "APPROVED") \cap lapsed) \cup PassedOver(v, mid)
  IN [v EXCEPT !.request = Marked(v, mid),
               !.column = IF ended \ (mid \ back) # {} THEN "default" ELSE @]

effective_limits(v, L) == IF Newest(v, L) # {} THEN Raised ELSE Default

\* What the debits in T add up to.
total_of(v, T) == MapThenSumSet(LAMBDA t : v.txn[t].amount, T)

\* Mutant: only what has succeeded counts as spent.
spent_today_settled(v) == total_of(v, {t \in TxnIds : v.txn[t].status = "SUCCESS"})

spent_today(v) ==
  total_of(v, {t \in TxnIds : v.txn[t].status \in {"PROCESSING", "SUCCESS"}})

\* Mutant: the cap is not checked before the debit.
assert_uncapped(v, amount, mid) ==
  \E L \in {lapsed, lapsed \cup mid} :
    /\ amount <= effective_limits(v, L).per
    /\ spent_today(v) + amount <= effective_limits(v, L).daily

\* The limits are those of the first look; the cap, of the grant found later.
assert_within_limits(v, amount, mid) ==
  /\ \E L \in {lapsed, lapsed \cup mid} :
       /\ amount <= effective_limits(v, L).per
       /\ spent_today(v) + amount <= effective_limits(v, L).daily
  /\ \A g \in Newest(v, lapsed \cup mid) : v.request[g].spending_cap # NoCap =>
       amount <= v.request[g].spending_cap - v.request[g].amount_spent

\* The view after record_debit_against_grant: the cap is what the debits still
\* to come are held to, so the debit that reaches it exhausts the grant.
record_debit_against_grant(v, amount, mid, back) ==
  LET spent(row) == [row EXCEPT !.amount_spent = @ + amount]
      counted(row) == IF UsedUp(spent(row))
                      THEN [spent(row) EXCEPT !.status = "EXHAUSTED"]
                      ELSE spent(row)
      grant == Newest(v, lapsed \cup mid)
      w == active_grant(v, mid, back)
  IN [w EXCEPT
        !.request = [r \in RequestIds |-> IF r \in grant THEN counted(@[r]) ELSE @[r]],
        !.column = IF \E r \in grant : UsedUp(spent(w.request[r])) THEN "default" ELSE @]

-----------------------------------------------------------------------------
(* Transactions.                                                           *)

LimitMerged(old, new) ==
  [request |-> MergeTable(old.request, new.request, limits.request),
   txn |-> MergeTable(old.txn, new.txn, limits.txn),
   column |-> IF new.column # old.column THEN new.column ELSE limits.column]

LimitBegin(s) ==
  /\ limitView[s] = NoView
  /\ limitView' = [limitView EXCEPT ![s] = limits]
  /\ UNCHANGED <<limits, lapsed, limitHistory, commitHistory>>

\* mid lapsed while the handler ran.
LimitCommit(s, new, mid) ==
  /\ limits' = LimitMerged(limitView[s], new)
  /\ limitView' = [limitView EXCEPT ![s] = NoView]
  /\ limitStale' = limitStale \cup
       {table \in {"request", "txn"} : limits[table] # limitView[s][table]}
  /\ slipped' = /\ limits'.column = "raised" /\ WithStatus(limits', "APPROVED") = {}
                /\ slipped \/ mid # {}
  /\ lapsed' = lapsed \cup mid

\* A refusal, an error or a GET: the session closes without a commit, and what
\* it flushed, EXPIRED marks included, is rolled back.
LimitRollback(s) ==
  /\ limitView' = [limitView EXCEPT ![s] = NoView]
  /\ UNCHANGED <<limits, lapsed, limitHistory, commitHistory>>

-----------------------------------------------------------------------------
(* The handlers, each with the snapshot v of its session.                  *)

\* The grants that may lapse while a handler runs.
MayLapse(v) == SUBSET Unlapsed(v, lapsed)

\* one_or_none raises when it finds two PENDING rows: with one row or more
\* there is no commit.
create_request(s) ==
  LET v == limitView[s]
  IN /\ WithStatus(v, "PENDING") = {}
     /\ \E mid \in MayLapse(v) :
          /\ Newest(v, lapsed \cup mid) = {}
          /\ \E r \in NextId(WithStatus(limits, "none")) :
               LimitCommit(s, [active_grant(v, mid, {}) EXCEPT
                                 !.request[r].status = "PENDING"], mid)
     /\ UNCHANGED limitHistory

\* The grant in force is EXPIRED after this whether it lapses meanwhile or not.
approve(s, r, cap) ==
  LET v == limitView[s]
      granted == [status |-> "APPROVED", spending_cap |-> cap, amount_spent |-> 0]
  IN /\ v.request[r].status = "PENDING"
     /\ LimitCommit(s, [active_grant(v, {}, {}) EXCEPT
           !.request = [q \in RequestIds |->
                          IF q = r THEN granted
                          ELSE IF q \in Newest(v, lapsed) THEN [@[q] EXCEPT !.status = "EXPIRED"]
                          ELSE @[q]],
           !.column = "raised"], {})
     /\ UNCHANGED limitHistory

reject(s, r) ==
  /\ limitView[s].request[r].status = "PENDING"
  /\ LimitCommit(s, [limitView[s] EXCEPT !.request[r].status = "REJECTED"], {})
  /\ UNCHANGED limitHistory

\* History: the grant a SUCCESS comes under.
ComesUnder(v, t, status, L) ==
  under' = IF status # "SUCCESS" THEN under
           ELSE [under EXCEPT ![t] = IF Newest(v, L) = {} THEN Nothing
                                     ELSE CHOOSE g \in Newest(v, L) : TRUE]

\* A debit checks the limits, takes the money and commits as SUCCESS, counted,
\* or, when the provider has not answered, as PROCESSING (a bill) or PENDING (a
\* withdrawal, or a bill that timed out), to be counted when it is settled.
Debit(s, amount, status, mid, back) ==
  LET v == limitView[s]
      w == IF status = "SUCCESS" THEN record_debit_against_grant(v, amount, mid, back)
           ELSE active_grant(v, mid, back)
  IN /\ assert_within_limits(v, amount, mid)
     /\ \E t \in NextId({t \in TxnIds : limits.txn[t].status = "none"}) :
          /\ LimitCommit(s, [w EXCEPT !.txn[t] = [status |-> status, amount |-> amount]], mid)
          /\ ComesUnder(v, t, status, lapsed')
          /\ waited' = IF status = "PENDING" THEN waited \cup {t} ELSE waited
     /\ UNCHANGED <<missed, settledLate>>

\* The timer of a bill and the settlement of a withdrawal by its reference count
\* what succeeds.
Settle(s, t, status, mid) ==
  LET v == limitView[s]
      w == IF status = "SUCCESS"
           THEN record_debit_against_grant(v, v.txn[t].amount, mid, {}) ELSE v
  IN /\ v.txn[t].status \in {"PENDING", "PROCESSING"} /\ (status = "FAILED" => mid = {})
     /\ LimitCommit(s, [w EXCEPT !.txn[t].status = status], mid)
     /\ ComesUnder(v, t, status, lapsed')
     /\ missed' = IF status = "SUCCESS" THEN missed \ {t} ELSE missed
     /\ settledLate' = settledLate \cup {t}
     /\ UNCHANGED waited

\* A worker settles a bill that timed out, and a withdrawal without a reference,
\* and counts it under no grant.
SettleUncounted(s, t) ==
  LET v == limitView[s]
  IN /\ v.txn[t].status = "PENDING"
     /\ LimitCommit(s, [v EXCEPT !.txn[t].status = "SUCCESS"], {})
     /\ ComesUnder(v, t, "SUCCESS", lapsed)
     /\ missed' = missed \cup {t}
     /\ settledLate' = settledLate \cup {t}
     /\ UNCHANGED waited

\* update_settings with a limit in it re-applies the defaults to the user unless
\* a grant is active.
sync_user_limits(s) ==
  LET v == limitView[s]
  IN /\ \E mid \in MayLapse(v) :
          LimitCommit(s, [active_grant(v, mid, {}) EXCEPT
             !.column = IF Newest(v, lapsed \cup mid) = {} THEN "default" ELSE @], mid)
     /\ UNCHANGED limitHistory

\* Verifying a code of registration again, on an account that is active, writes
\* the default limits whatever is granted.
verify_otp_limits(s) ==
  /\ LimitCommit(s, [limitView[s] EXCEPT !.column = "default"], {})
  /\ UNCHANGED limitHistory

Lapse(r) ==
  /\ r \notin lapsed /\ limits.request[r].status = "APPROVED"
  /\ lapsed' = lapsed \cup {r}
  /\ UNCHANGED <<limits, limitView, limitHistory, commitHistory>>

LimitNext ==
  \/ \E s \in Requesters : LimitBegin(s)
  \/ \E s \in Requesters :
       /\ limitView[s] # NoView
       /\ \/ LimitRollback(s) \/ create_request(s) \/ sync_user_limits(s)
          \/ verify_otp_limits(s)
          \/ \E r \in RequestIds :
               reject(s, r) \/ \E cap \in Caps \cup {NoCap} : approve(s, r, cap)
          \/ \E mid \in MayLapse(limitView[s]) :
               \/ \E a \in Amounts, st \in {"SUCCESS", "PROCESSING", "PENDING"}, back \in SUBSET mid :
                    Debit(s, a, st, mid, back)
               \/ \E t \in TxnIds, st \in {"SUCCESS", "FAILED"} : Settle(s, t, st, mid)
          \/ \E t \in TxnIds : SettleUncounted(s, t)
  \/ \E r \in RequestIds : Lapse(r)

LimitSpec == LimitInit /\ [][LimitNext]_limitVars
-----------------------------------------------------------------------------
(* What the limits promise.  Nothing locks the rows a handler decides by, so *)
(* each promise names the tables that must not have changed between a        *)
(* handler's reads and its commit.                                           *)

\* The grant a debit is counted under.
Charged(t) == IF t \in missed THEN Nothing ELSE under[t]

CountedUnder(r) == {t \in TxnIds : Charged(t) = r}

LimitTotal(T) == total_of(limits, T)

\* A user has one request waiting and one grant in force at most: two waiting
\* requests make one_or_none raise on every later request, two grants leave one
\* unspent behind the other.
OneRequestOneGrant ==
  "request" \notin limitStale =>
    /\ Cardinality(WithStatus(limits, "PENDING")) <= 1
    /\ Cardinality(Usable(limits, lapsed)) <= 1

\* amount_spent is the sum of the debits that succeeded while the grant was the
\* active one, through every approval, lapse and late settlement, those alone
\* left out that a worker settled: it counts nothing under a grant.
SpentIsCounted ==
  "request" \notin limitStale => \A r \in RequestIds :
    limits.request[r].amount_spent = LimitTotal(CountedUnder(r))

\* The debits that were successful at once never pass the cap of their grant.
\* Those a provider answers late are held to nothing: the cap is checked when
\* they are made and counted when they are settled.
CapHolds ==
  "request" \notin limitStale =>
    \A r \in RequestIds : limits.request[r].spending_cap # NoCap =>
      LimitTotal({t \in CountedUnder(r) : t \notin settledLate})
        <= limits.request[r].spending_cap

\* The debits of a day stay within the default daily limit, or within the raised
\* one when a grant was made (which may be the lower of the two), those left out
\* that waited as PENDING, which spent_today does not see.
DailyLimitHolds ==
  LET spent == LimitTotal({t \in TxnIds \ waited :
                             limits.txn[t].status \in {"PROCESSING", "SUCCESS"}})
  IN  limitStale = {} =>
        \/ spent <= Default.daily
        \/ /\ spent <= Raised.daily
           /\ \E r \in RequestIds :
                limits.request[r].status \in {"APPROVED", "EXPIRED", "EXHAUSTED"}

\* The limits kept on the user row are raised only while a grant is APPROVED:
\* every way out of a grant takes them back, but for one: a grant that lapses
\* between the two looks at the clock of the handler that ends it leaves them.
RaisedByGrant ==
  "request" \notin limitStale =>
    (limits.column = "raised" => WithStatus(limits, "APPROVED") # {} \/ slipped)

\* Through every order of requests, approvals, lapses, debits and settings the
\* grants are one at a time and the user row follows the one in force.
LimitsFollowGrants == OneRequestOneGrant /\ RaisedByGrant

\* A grant is charged with what was spent under it, and its cap holds.
GrantsAreCharged == SpentIsCounted /\ CapHolds
=============================================================================
