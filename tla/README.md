# FinPay in TLA+

FinPay is a mobile-money wallet: a FastAPI back end over a relational database,
with Campay as the external mobile-money provider, and a React client. Money
moves in short database transactions, some of which call Campay in the middle;
what Campay decides arrives later by a callback or by polling. The models here
are about that core, and about the services around it that write rows they have
read without a lock: which sessions meet on which rows, what each has read
before it writes, and what remains true of balances, ledgers, outcomes, limits,
accounts and settings.

## 1. Inventory

Paths are relative to `src/backend/app` unless they start with `src/`.

| Component | State it keeps | Operations | Talks to |
|---|---|---|---|
| Wallet and transfers (`services/wallet_service.py`, `transfers_service.py`) | `wallets.balance`, `ledger_entries`, `transactions`, `idempotency_keys` | `add_money`, `send_money`, `withdraw`, `apply_ledger` | fees, limits, Campay |
| Campay payments (`wallet_service.py`, `transfers_service.py`, `campay_payment_service.py`, `reconciliation_service.py`, `routers/campay_admin.py`, `routers/admin.py`) | `transactions.status`, `pending_reconciliation`, `provider_reference`; `campay_payments`; ledger | initiation, webhook, worker, *verify* and *reconcile* of an administrator | Campay (HTTP both ways), wallet |
| Reconciliation loop (`reconciliation_service.py`, `main.py`, `worker.py`) | row locks, `pending_reconciliation` | `reconcile_pending`, `reconcile_for_user` | every pending row |
| Bill payments (`billing_service.py`) | validations (`consumed`), bill rows, ledger, timers in memory | `confirm_topup`, `confirm_electricity`, `pay`, completion timer | reconciliation, limits |
| Money requests (`social_service.py`) | `money_requests.status`, two history rows, collect row | create, pay, decline, cancel, settlement of a collect | wallet, Campay, reconciliation |
| Limits and grants (`limit_service.py`, `security_service.py`) | grants with cap and expiry, spent amounts, limits copied to the user row | request, approve, reject, lapse, enforce, count | every debit |
| Authentication (`auth_service.py`, `password_reset_service.py`, `security_service.py`) | codes, user row, refresh tokens, resets | register, verify, login, refresh, revoke, change of password, reset | rate limiter, mail |
| Rate limiter (`core/ratelimit.py`) | a counter and its expiry in Redis, one client per process | `check_rate_limit` | authentication |
| KYC (`kyc_service.py`) | profile, review timer in memory | draft, submit, timer decides, administrator decides | notifications |
| Notifications and sockets (`notification_service.py`, `websocket/socket.py`, `notifications/fcm.py`) | notification rows, connections and their count per process | connect, disconnect, emit, push | devices, Redis |
| Devices (`device_service.py`) | one row per device of an account, with its push token | register, unregister, deactivate | push |
| Fees and catalogue (`fee_service.py`, `catalog_service.py`, `src/frontend/src/services/feeConfig.js`) | fee rules, service flags, providers | `compute_fee`, edits of an administrator | wallet, client |
| Support (`support_service.py`) | ticket status and messages, disputes | create, message, reply, close, status, dispute | notifications |
| Web client session (`src/frontend/src/api/client.js`, `store/AuthContext.jsx`) | tokens, one shared refresh promise, socket | request, refresh, logout | authentication |
| Administration, reporting, settings, migrations, pages | queries, labels, audit rows | - | all of the above |

What makes the core hard:

* **Stale copies.** Handlers run in threads, each with a SQLAlchemy session.
  A row is read once without a lock and lives in the session's identity map;
  the UPDATE at the flush writes an absolute value computed from that copy.
* **A provider in the middle.** The handler calls Campay between its flush and
  its commit. The reply may be lost, be older than a callback that has already
  arrived, or lack a reference; the process may die.
* **Many settlers.** Webhook, in-process worker, Celery worker, the user's own
  reconcile call and an administrator may settle one payment. Only the workers
  lock the row they read.
* **Timers in memory.** Bills (and KYC reviews) are completed by a
  `threading.Timer` that dies with the process.
* **Checks without constraints.** Limits, grants, requests, disputes, codes and
  resets are looked up and then written in one transaction that locks nothing;
  what two overlapping requests both find absent, both insert.
* **Locks in different orders.** Opposite transfers, or a webhook (payment row,
  then transaction) against a worker (transaction, then payment row).

Correctness, per component: a wallet's balance agrees with its ledger and is
never negative, a key charges once; a payment is credited or refunded once and
its status is Campay's; every flagged row is settled, once; a bill is charged
unless it failed; a request is paid once, with both histories and the books in
agreement; debits respect the limits and the cap of the one grant in force; a
session that can be refreshed was begun with today's password, a code and a
reset work once, guesses are bounded; a KYC decision is about what was submitted
and the user is told of it; a stored notification reaches a socket or is pushed,
to the account that holds the browser; the fee shown is the fee charged. The
hazards behind these are in `PROJECT.json`, each at its line.

## 2. Modules

| Module | Models | Extended or used by |
|---|---|---|
| `AtomicBank` | abstract: a request moves money once, in one step | `WalletBank` |
| `WalletSessions` | `add_money` (instant methods), `send_money`, `withdraw` (without Campay), statement by statement | `WalletBank` |
| `WalletBank` | refinement mapping from committed rows to `AtomicBank`; `ApartSpec`, requests that share no wallet while they overlap | `MCWalletSessions`, `WalletSessions_proofs` |
| `AtomicPayment` | abstract: Campay decides once, and FinPay reports that and books what it brings in one step | `CampayPayment` |
| `CampaySettlement` | one deposit or withdrawal through Campay, from the request to its settlement | `CampayPayment` |
| `CampayPayment` | refinement mapping from Campay's decision and the committed rows to `AtomicPayment` | `MCCampaySettlement`, `CampaySettlement_proofs` |
| `ReconcileLoop` | the sweep over many flagged rows | `MCReconcileLoop`, `ReconcileLoop_proofs` |
| `AtomicBill` | abstract: a bill is held once, and the provider's answer decides it and its money in one step | `BillContract` |
| `BillPayments` | top-ups, electricity bills, completion timers, workers, restarts | `BillContract` |
| `BillContract` | refinement mapping from transactions and ledger entries to `AtomicBill` | `MCBillPayments`, `BillPayments_proofs` |
| `AtomicRequest` | abstract: a money request is answered once, from the wallet, by turning it down or by a demand at Campay that it waits for | `RequestContract` |
| `MoneyRequests` | one request, its payers' and closers' calls, its collects and their settlers | `RequestContract` |
| `RequestContract` | refinement mapping from the request's row, Campay's side and the ledger to `AtomicRequest` | `MCMoneyRequests`, `MoneyRequests_proofs` |
| `Snapshots` | how a session without locks reads and writes: operators only | the modules below but `Presence` |
| `LimitGrants` | one user's requests for higher limits, grants and debits | `BackOffice` |
| `KycReview` | one profile, its requests, administrators and timers | `BackOffice` |
| `SupportDesk` | one ticket, and the disputes of transactions | `BackOffice` |
| `Catalogue` | one provider, service flag and fee rule; the fee in Python and JavaScript | `BackOffice` |
| `OneTimeCodes` | registration codes of one phone number behind the rate limiter | `AccountSide` |
| `AccountSessions` | password, refresh tokens and resets of one account | `AccountSide` |
| `Presence` | sockets of one user, delivery of notifications | `AccountSide` |
| `PushTokens` | accounts that share browsers | `AccountSide` |
| `AccountSide` | `OneTimeCodes`, `AccountSessions`, `Presence` and `PushTokens` side by side | `MCAccountSide`, `Accounts_proofs` |
| `BackOffice` | `LimitGrants`, `KycReview`, `SupportDesk` and `Catalogue` side by side | `MCBackOffice`, `BackOffice_proofs` |
| `Sums` | nothing of the code: what a sum over a finite set is | `WalletSessions_proofs`, `BackOffice_proofs` |

`MC*` modules only give values to constants; `MCBackOffice` and `MCAccountSide`
also say in which order the four parts of `BackOffice` and `AccountSide` are explored
(see section 3).

### WalletSessions

One action per statement group between two points where another session can interfere.
`Begin` takes a request; `IdempotentHit`/`IdempotentMiss` look the key up among
committed rows; `LoadOwn`/`LoadRecipient` fill `copy[s]` (the identity map);
`debit_with_fee` and `credit` are `apply_ledger` up to the INSERT of the flush: check
the copy, change it, insert a ledger row, which takes its id; `UpdateWallet` is the
UPDATE that follows in the same flush, and waits for the wallet's row lock, so another
session may lock and commit in between; `Commit` publishes copies, rows and the
transaction together; `Rollback` may happen at every point and stands for an exception,
a lost connection and a crash. `lock` is the database's row lock; a session that finds
it taken waits, and `DeadlockVictim` is the database's deadlock detection. Ledger ids
come from a sequence that rollbacks do not return. The shared lock MySQL takes on the
wallet for the foreign key of the entry is not modelled: what it adds, waiting and
aborts, ends in `Rollback`. Reads see committed rows. Validation errors before any write
are not actions: nothing changes. `Fee` is a constant per operation.

### CampaySettlement

`provider` and `inFlight` are Campay's side. The handler's transaction row, its
debit and the payment row appear at its commit after the call:
`CollectReplied`, `WithdrawReplied`, `RepliedWithoutReference`, `CallRaised`,
`HandlerDies`. The settlers share the pipeline of the code:
`WebhookReceived` / `claim` / `AdminLoads` read the transaction into `seen`;
`Inquire` asks Campay; `ReadPayment` loads the payment row into `was`;
`FlushPayload` is the UPDATE of `apply_status_payload` and takes the payment's
lock (and the transaction's when it changes that row); `KeepPayload` commits
without settling; `FlushEntry` is the settle function up to its flush;
`CommitSettlement` commits; `notify_parties` follows in a transaction of its own.
`SettleErrs` is the `except` of *verify*, `SettledAsBill` what the worker does to
a row without a reference. `SnapshotReads = TRUE` gives the sessions repeatable
reads, the default of MySQL, for the one query that depends on it.
A callback may carry any status Campay has had (`Reply`), any number of times:
that covers late, repeated and overtaken callbacks; a lost one is one that is
never received.

### ReconcileLoop, BillPayments, MoneyRequests

`ReconcileLoop` has the rows as numbers 1..N in id order, and one action per
exit of the `while` loop: nothing to claim, head row locked (NOWAIT), settled,
still pending, exception, and a collect whose request was closed meanwhile
(`CloseRequest`): its settlement returns with the flag set (`SettleReturns`,
`social_service.py:919`) or raises a conflict (`:805`, `Raises`). `BillPayments` has the
request (load the validation, commit, start the timer: three points a crash or an
error can separate; `ScheduleRaises` is the error after the commit), the timer thread,
the workers and `Crash`, which clears everything in memory and every lock.
`MoneyRequests` has the calls of the two parties at the granularity of
*read the status* / *commit*, and settlers with the same two locks as
`CampaySettlement`; `Overlap = FALSE` makes the parties' calls (not the
settlers) come one after the other.

### Snapshots and the modules over it

These handlers are one transaction each: the first SELECT takes the snapshot, everything
the handler reads comes from it, and the flush writes *only the columns whose value the
handler changed*, with the handler's value. So every module has a `...Begin` that takes
the snapshot, one action per handler that decides by the snapshot and commits, and a
`...Rollback`. `MergeRow` is the UPDATE of SQLAlchemy: the difference between what was
read and what is wanted is laid over the row as it is by now. An INSERT gets the next
free id (`NextId`); a unique constraint, where the models declare one, refuses the later
of two inserts, and where they do not there are two rows. What a handler does by a
single UPDATE with a WHERE clause (revoking tokens, detaching a push token) acts on the
rows as they are.

`db/database.py` sets no isolation level, so the database's default holds. Modelled
is repeatable read, that of MySQL, the default of `core/config.py`. Under PostgreSQL,
which `.env.example` names, a transaction reads committed rows and each query of a
handler may see a later moment than the one before: the rows a handler has loaded stay
as they were in its identity map, but two queries may disagree. That is not modelled
here; where nothing commits while a handler runs, the two are the same.

Since nothing is locked, most promises of these services hold only while no
other commit falls between a handler's snapshot and its own. Each module has a
history variable (`limitStale`, `kycLate`, `accountLate`, ...) that notes such a
commit *by the table or the kind of call it concerns*, and each property says
which of them it excepts: the property is what the code does guarantee, and the
exception is exact in that dropping it makes TLC show the overlap.

* `LimitGrants`: `active_grant` marks lapsed and used-up grants on the way, with
  the limits copied to the user row (`column`), as part of whatever handler calls
  it, and the marks are lost with a refusal. It looks at the clock twice: a grant that
  lapses in between (`mid`) is marked EXPIRED and leaves the limits as they are
  (`limit_service.py:73`), unless a later call of the same handler, which has not
  flushed the mark, takes them back (`back`). `Debit` is
  `assert_within_limits` to commit; a `PENDING` or `PROCESSING` debit is counted
  by `Settle`, or, by a worker that settles a bill or a withdrawal without a
  reference, under no grant (`SettleUncounted`). `Lapse` is the clock.
* `KycReview`: `submit` commits; `ScheduleReview` starts the timer afterwards, or
  `ScheduleFails`. `FireReview` and `run_review` are the timer's thread with a
  session of its own; `KycRestart` forgets timers and threads.
* `SupportDesk`: the status of a ticket as each call writes it; `create_dispute`
  with its look-up and no constraint.
* `Catalogue`: a configuration is a free dictionary, checked for its sign and not for
  whole numbers, so its fields are multiples of `1/Parts`, for any `Parts`. `round` is
  Python's (half to even) and `MathRound` JavaScript's, `int` drops the fraction on the
  server (`Field`) and the client's `Number` keeps it. Both programs compute the same
  double `amount * percent / 100` before they round; the model computes it exactly,
  so its halves are the halves of that product. `Fee` is the common part, with minimum,
  maximum and tiers.
* `OneTimeCodes`: the limiter's INCR and EXPIRE are steps of their own; a request
  remembers whether it was counted. The codes are sent after the commit
  (`outbox`). `wrong_code` rolls back the attempt it had counted.
* `AccountSessions`: the two writers of refresh tokens, `login` and `issue_tokens` (a
  verified registration code, on an active account too), `register_user`, which sets the
  password of an account it read as not active, `refresh_token`, `revoke_other_sessions`
  (and logout), `change_password`, and a reset from its code to its token to its
  password.
* `Presence`: a socket is *checking* while its token is resolved in an executor
  and *joined* afterwards; the count changes in the same turn of the event loop.
  `emit_to_user`, `Emit` and `should_send` are three steps: the thread that
  delivers decides on the push without waiting for the loop. Workers have no
  sockets and publish over Redis. `PresenceRestart` is the end of a process.
* `PushTokens`: a row per account for a shared browser; `_send` deactivates a
  token the provider reports as unregistered, wherever it is by then.

## 3. Runs

Ten runs pass and two show a disagreement between the code and what the
repository says of it.

| Run | Instance | Shows |
|---|---|---|
| `WalletApart` | 3 users, 2 sessions, 1 key, amount 2, balance 5, 3 requests; no two at work on one wallet | balance = ledger sum; refinement of `AtomicBank`: each request moves money once, a key charges once |
| `WalletConcurrent` | 2 users, 2 sessions, amount 2, 3 requests, no keys; any wallets | no overdraft, a balance changes only with the one entry its commit posts, every request ends |
| `WalletLostUpdate` | same with a key | violated: balance = ledger sum |
| `CampayAll` | 2 workers, webhook, administrator, errors at every statement | a deposit is credited once with its success; SUCCESS and FAILED are Campay's; refinement of `AtomicPayment`: one report, which stands, with its money |
| `CampayPending` | 2 workers, webhook; lost reply, missing reference, crash | refunded iff failed; a pending payment takes Campay's outcome |
| `CampayDoubleRefund` | 1 worker, 1 webhook, a withdrawal | violated: one refund per failed withdrawal |
| `BillSafety` | 2 bills, 4 meters, 2 clients, 2 workers, crashes | charged unless failed; refinement of `AtomicBill`: one outcome, the provider's, with its money; a bill that holds a debit has a request, a timer or a flag, or a restart or an error has lost its timer; what has one is resolved, whatever restarts |
| `LoopSafety` | 3 rows, two of them collects of money requests, 2 workers, a user's call on row 3 | settled once; an answered row is settled once no row stays ahead of it that is undecided or whose request is closed |
| `RequestSerial` | 2 payers, 1 closer, 2 workers, webhook; lost replies, errors | books, histories and status agree, charged once; refinement of `AtomicRequest`: one answer, with its money; collected is credited |
| `RequestOverlap` | 2 payers, 1 closer, worker, 2 webhooks; every fault | what is PAID was paid for and credited |
| `AccountSide` | 2 requests at a time; 2 codes, limit 2; 3 passwords, 2 tokens, 2 resets; 2 APIs, 1 worker, 2 tabs, 2 notifications; 2 accounts, 2 browsers | what holds of codes, limiter, tokens, resets, sockets, deliveries and push tokens |
| `BackOffice` | 2 requests at a time; 2 limit requests, 2 debits, 2 submissions, 1 ticket, 1 disputed transaction, 1 provider | what holds of limits, grants, KYC, tickets, disputes, providers and fees |

The components of `AccountSide`, and those of `BackOffice`, share no row and call
nothing of one another, so every behaviour of the whole is an interleaving of
behaviours of the parts and every property speaks of one part. The two runs
therefore explore the parts one at a time, with the others in their initial
states: the state space is the sum and not the product. `TypesOK` is the
conjunction of the parts' type invariants; those of the other modules, but
`MoneyRequests`, are left to the proofs. A property such as `CatalogueFitsTogether` or
`RequestIsAccounted` is the conjunction of named parts that speak of one thing.

Bounds. Interference in this code is between *two* sessions: one that read, one
that writes in between; two sessions, or two settlers of each kind that behaves
differently, reach every pair, and the second worker adds lock contention.
Balance 5, amount 2 and fees of 1 and 2 let one debit pass and a second one fail
on the check, while two sessions with stale copies both pass it. Three requests
allow a retry of a key with another request in between. Three rows in
the loop give a head, a middle and a user's row. Counters that could run on (`credits` and
`stamps` in `CampaySettlement`, `settlements` in `ReconcileLoop`, `debits` and
`credits` in `MoneyRequests`) are capped at 2: no property tells two from more.
`CHECK_DEADLOCK FALSE` appears where the system may stop, since requests, ids or
calls are used up; `ReconcileLoop` never stops and is checked for deadlock.
Symmetry is used only in runs without liveness, on users, sessions, workers, calls,
requests, tabs, accounts and labels. In `BackOffice` the constraint `MCBound` stops a behaviour
after the first commit that had an outdated view of the limit requests or of the
fee rule (the properties about those rows except what follows) or of a second row
of the catalogue, and keeps three rows of the limits in use together, two once a commit
had an outdated view of the debits. Two flat
configurations let two editors leave a rule with a type and a configuration that
do not belong together. A default of 1 and 2 and a raise
to 2 and 3, with amounts 1 and 2 and a cap of 2, let a debit fail on each of the
three limits alone. Fees are configured in tenths (`Parts` is 10): a flat fee of 2.5,
1.5 % between 1.5 and 5.5, tiers to 99.5 and from 100.5; the amounts include three
whose 1.5 % comes to a half (100, 300, 500), the gap between the two tiers, which the
server closes, and values below the minimum and above the maximum.

### Fairness

* Threads of the web process run, and the database detects deadlocks (WF).
  Users owe nothing; rollbacks, crashes and callbacks are never owed.
* Workers come round every `RECONCILE_INTERVAL_SECONDS` (`main.py:36`) for as
  long as the process lives and after each restart: `claim` is strongly fair, as
  a lock may be taken and released between two visits.
* A statement that waits for a lock gets it in the end (SF): databases queue.
* Campay answers an inquiry at last and decides a payment in `CampaySettlement`.
  In `ReconcileLoop` and `MoneyRequests` it does not have to decide: a prompt on
  a phone may stay unanswered. `AnsweredIsSettled` then asks only for rows with
  nothing ahead of them from some point on that keeps its flag: no undecided row, and
  no collect whose request is closed. Workers wake again; a user's own call is not owed.
* In `RequestSerial` a statement does not fail every time it is tried.
* `AccountSide` and `BackOffice` state safety only and assume no fairness: requests
  are never owed.

## 4. Proofs

Checked by TLAPS, for all values of the constants: any number of users, sessions,
settlers, rows, requests, keys and amounts. Every safety invariant and every
action property of a passing run is a theorem, some under a hypothesis that the
list names; each hypothesis is needed, and the run or the case that breaks the
theorem without it is in section 3 or 5.

* `WalletSessions_proofs`, any number of sessions: `TypeCorrect`, `NeverOverdrawn`,
  `EveryChangeHasItsEntry`. `NoOverdraft` is not inductive: a commit writes a session's
  copy. `IInv` adds that copies are not negative (`CopiesNonNegative`: the check and
  the addition are on the copy), that a wallet is locked for as long as its change is
  flushed (`Flushed`), whose one row ends in the copy that will be written
  (`RowsUnderLock`), that no two rows share an id (`IdsDiffer`) and that a session past
  `Begin` serves a proper request (`ServesRequest`). So the lost update of section 5
  can lose money out of the books, but it never overdraws a wallet nor changes a balance
  that no entry explains.
* `WalletSessions_proofs`, any number of sessions that stay apart (`ApartSpec`: from its
  idempotency look-up to its commit a request is alone on the wallets it names; others
  may overlap it): `ApartBalanceIsLedgerSum` and the refinement `ApartImplementsBank`.
  Then a session's copies are the balances (`CopiesAreCurrent`), what it has flushed is
  its request computed from them (`RowsServeRequest`), no row of its key appears
  between look-up and commit (`KeyIsUnused`), and transactions have numbers of their
  own (`NumbersDiffer`). Only the end of a look-up brings a request to its wallets
  (`StepStaysApart`). A step changes only its session (`StepIsLocal`) and writes only
  wallets its request names (`LocksServeRequest`), so the others' copies stay current
  (`OthersServe`). A commit is one `Accept` of `AtomicBank`, every other step a stutter;
  a rollback undoes the request. `ApartSpec` is an assumption about the users: nothing
  in the code sees to it, and without it `WalletLostUpdate` is the counterexample. It
  is also what a row lock taken at the load would establish. `OneSessionStaysApart`:
  requests served one at a time meet it.
* `Sums`: `MapThenSumSet` of the community modules sums a set by picking an element at
  each step. The lemmas show that the picks do not matter: the empty sum, a sum with a
  term removed, equal terms, a subset. Ledger sums and the totals of debits rest on them.
* `CampaySettlement_proofs`: `CampayTypeCorrect`; `DepositCreditedOnce` under
  `~SnapshotReads`; `CampayOutcomeReported` and `CampayOutcomeStands` without
  `"lost_reply"` and `"no_reference"`; the refinement `CampayImplementsPayment`
  under both; `WithdrawalRefundedIffFailed` where a lost reply and an administrator
  do not come together. Whoever flushes the payment row holds its lock to the commit
  (`WritesUnderLock`), and the look for an earlier credit comes after that flush, so
  no other credit can appear between look and commit (`CreditIsMissing`); under
  repeatable reads the look is older than the lock. `OutcomesAreFinal` and
  `AcceptedFirst` make two settlers agree on the outcome; `ReadersComeLater` puts
  every reader after the handler's commit; a worker keeps the transaction locked and
  pending from claim to commit (`WorkersHold`); `HasReference` keeps the bill
  inquiry away; what is FAILED Campay has not paid and never will
  (`FailedByCampay`). For refunds, `RefundInv`: a session that settles what was no
  longer pending is an administrator's (`OnlyAdminsForce`) and a refund is about to
  be written only with the failure (`RefundIsDue`). For the refinement,
  `ReportSteps` says what a step makes of decision and report, and
  `BookedAsReported` that the books follow the report: so a step that changes the
  report is a step of `AtomicPayment`, with its money, and every other one a
  stutter. How often a failure refunds is not claimed, here or in `AtomicPayment`:
  that is the violation `CampayDoubleRefund`.
* `BillPayments_proofs`: `BillTypeCorrect`, `BillsChargedUnlessFailed`,
  `BillOutcomeStands`, `HeldBillIsWatched`, and the refinement `BillsImplementContract`.
  Timers and workers write the same rows; what separates them is the status: a timer, or
  a request about to start one, has a PROCESSING bill (`TimersProcess`), a worker a
  flagged and therefore PENDING one it has locked (`WorkersLock`). `BooksByStatus` says
  what the ledger holds for each status. A held charge passes from request to timer to
  thread to outcome; the last theorem on it says that only `Crash`, `CompletionRaises`
  and `ScheduleRaises` break that chain. For the refinement, `RoutedByAnswer` says that
  the meter's answer decides the way: a timer runs only for a bill whose provider has
  answered, and a flag means that it has not. So whoever decides a bill decides it by
  that answer, and the commit that does is `Decide` of `AtomicBill`, with its money; a
  top-up is decided by its own request.
* `MoneyRequests_proofs`: `RequestTypeCorrect` and `PaidRequestIsFunded` for every
  overlap and every fault (`FundedInv`: what a settler has seen of the provider and of
  the credits stays so). The rest is for `~Overlap`, and each theorem names the faults it
  does not stand: `SerialBooksAgree`, `ClosedRequestStands` and the refinement
  `RequestImplementsContract` stand all of them, `SerialRequestIsChargedOnce` all but a
  crash in the call (the demand it leaves at Campay is not recorded, and a second one
  follows), `SerialHistoryFollows` all but a reply without a reference (its handler does
  not touch the history rows); `SerialRequestIsAccounted` joins the three parts. With
  the fault that is left out TLC finds each violated on the bounds of `RequestSerial`.
  The settlers still run beside the calls; what keeps them apart is that a request is
  pending while a call is under way (`InTurn`) and no collect is committed while it is
  (`CollectsCloseIt`). From its look at the request to its commit a settler holds the
  collect's row (`SettlersHold`), Campay is asked once (`AskedOnce`), and the histories
  follow (`Histories`). In the refinement `ProviderAccepts` is `Ask`, a call's commit
  `FromWallet`, `TurnDown`, `Await`, `Fail` or, when Campay had decided, `Settle`; a
  settler's commit is `Settle`, and everything else a stutter, but for a process that
  dies in the call: that is `Forget`, after which the request may be paid, turned down
  or asked for again, and a forgotten demand never settles it. `DemandsAreCalls` (a
  demand belongs to a call under way or ended, and a pending request waits for none)
  makes the demands of ended calls the forgotten ones. Without a crash `AtomicRequest`
  has no `Forget`, and at most one demand is made; `RequestSerial` is such an instance.
* `ReconcileLoop_proofs`: `LoopTypeCorrect`, `SettledAtMostOnce`,
  `ClaimsAreExclusive`. A sweep at work holds the lock of a row that is still
  flagged (`ClaimsAreLocked`), and a flagged row is not settled yet
  (`FlaggedIsOpen`).
* `Accounts_proofs`, limiter: `CountedGuessesAreLimited`, `CounterExpires`. A wrong
  code is paid for when it is counted: the guesses so far and the requests the
  limiter has let through and not answered (`Counted`) together stay within the
  counter and the limit (`Paid`); the end of a window clears both. One request has
  the expiry to set, before it does anything else, and while there is none
  (`FirstSetsExpiry`), so an expiry never falls between INCR and EXPIRE.
* `Accounts_proofs`, codes: `MailedCodeWorksOnce`, `OtpTypeCorrect`. While no commit
  had an outdated view of the codes, ids are taken in order (`CodesInOrder`), only the
  newest is live and unexpired (`UnexpiredIsNewest`), a code was used as often as it is
  consumed (`UsesMatch`) and a mail carries a code that was made (`MailedWasMade`).
* `Accounts_proofs`, sessions and resets: `LiveTokensFollowPassword`,
  `ResetsAreUsedOnce`, `AccountTypeCorrect`. `MergedTables` says what a commit makes of
  the rows column by column. `RevokedCommit`: after a commit that changes the password
  no token is live, those it had not read included; a token is issued under the password
  its request has read, by a login, by a code, or after a registration. A reset that has
  set a password is used and stays so (`UsedWhenSet`), and sets one (`SetOnce`): no
  handler writes FALSE.
* `Accounts_proofs`, sockets and devices: `CountsStayExact`, `NoticesAreDelivered`,
  `PresenceTypeCorrect`, `PushesFollowTheUser`, `DeviceTypeCorrect`. A connection under
  way or counted is with a process (`ConnectedSomewhere`), so a disconnect finds its
  count above 0 and a restart takes sockets and count together. A skipped push is for a
  socket that is there, unless the sockets moved since (`Undisturbed`). The owner of a
  token is inductive by itself: registering detaches it everywhere else in one UPDATE.
* `BackOffice_proofs`, KYC: `DecisionsAreNotified`, `ReviewsHaveTimers`,
  `ReviewsSubmission`, `KycTypeCorrect`. Every handler writes a status different from
  the one it has read, so its commit always writes that column. A thread that read the
  profile before the submission decides nothing: `SomeoneDecides` asks for a thread that
  read UNDER_REVIEW, a timer, or a request about to start one. `ReviewInv` adds what is
  under review.
* `BackOffice_proofs`, support: `DeskIsFollowed`, `SupportTypeCorrect`. Once a dispute
  exists, no session joins those that found none, and each of them adds one and leaves
  (`DisputesFollowSessions`, with cardinalities), so there are never more disputes than
  sessions that can be open together.
* `BackOffice_proofs`, catalogue: `CatalogueFits`, `ShownFeeIsCharged`,
  `CatalogueTypeCorrect`. A view is behind the tables only in what is created once
  (`Behind`) and of its type (`Typed`); `Merged` is one column of the UPDATE. The fee
  is a statement about integers, the fees in parts of a unit: the two roundings differ
  only at a half, bounds keep neighbours together, and what the server drops of a
  field it drops of the fee. It holds for every rule, percentage, bound and amount,
  whole or not, tiers included.
* `BackOffice_proofs`, limits: `GrantsRaiseLimits`, `LimitTypeCorrect`,
  `SpendingIsCharged`, `DayStaysWithinLimit`. For the grants, `GrantsFollow`: whoever
  has seen the limits lower than they are has not seen the answer that raised them, and
  so commits late or lowers nothing; `Lowers` says what handlers other than `approve` do
  to the requests; a commit during which a grant lapsed may leave the limits raised, and
  `slipped` stays for as long as nothing takes them back. For the sums, `TxnsFollow` (a
  debit that was read keeps its amount), `RowsFollow` (who settles a debit that was
  counted after it was read has read less of `amount_spent` than there is, so its commit
  is late) and `Charges` (what each handler adds to which grant, nothing for a worker's
  settlement). `DailyLimitHolds` is inductive with them: what was checked was at least
  what is counted, as what counts is what `spent_today` sees.

* The four parts together: `AccountSidePartsApart` and `BackOfficePartsApart` say that a
  behaviour of `AccountSide`, or of `BackOffice`, in which the parts' steps interleave at
  will is a behaviour of each part, so the theorems on the parts hold of the whole, and
  the runs that explore one part at a time lose nothing. `AccountSideTypesCorrect` and
  `BackOfficeTypesCorrect` draw the conclusion for `TypesOK`.

Assumptions on constants are the `ASSUME`s of the modules, and say no more than:
names of sessions, settlers, rows and labels are disjoint; amounts are positive and
fees natural; the sessions of the modules over `Snapshots` and the tabs are finite
in number; a fee configuration holds the fields of its type, as multiples of `1/Parts`,
a percentage that is not negative and bounds of any sign; limits that were asked
for exceed one of the two default limits (`limit_service.py:144`, `:236` refuse what
exceeds neither). Bounds (`MaxTxns`, `MaxCodes`, ...) are any natural number.

Only model-checked, and why:

* Liveness (`RequestsAnswered`, `PendingIsSettled`, `BillsAreResolved`,
  `AnsweredIsSettled`, `CollectedIsCredited`): it rests on fairness and so on ENABLED,
  which the provers do not handle.

All other properties of the passing runs are theorems.

## 5. Where code and documentation disagree

Shown by runs:

1. `WalletLostUpdate` - two sessions load a wallet, both write absolute
   balances; the ledger keeps both entries, the balance one.
2. `CampayDoubleRefund` - the webhook read PENDING before the worker's commit
   and refunds again.

Reached by the models in other instances, and described here rather than run:

* The ledger entry of a flush takes its id before the wallet its lock
  (`wallet_service.py:76`): of two sessions the later id may commit first, and the
  highest id of a wallet need not carry its balance.
* The timer of a PROCESSING bill is lost in a restart, or never started when the
  request fails between its commit (`billing_service.py:374`) and `Timer.start`
  (`:405`); the row is not flagged, so
  no worker looks at it and it keeps its debit, where the SRS (lines 1755-1767) has
  every operation reach an outcome. `BillsAreResolved` excepts exactly the bills
  whose timer was lost.
* A row that stays pending keeps the lowest id and its flag; the `while` loop of
  `reconcile_pending` takes it again (`reconciliation_service.py:497`) and never
  reaches the rows behind it. So does a collect whose request was closed meanwhile: its
  settlement leaves the flag (`social_service.py:919`) or is rolled back (`:805`).
  `AnsweredIsSettled` excepts what is behind either.
* A KYC submission whose request fails between its commit (`kyc_service.py:76`) and the
  start of the timer (`:81`), or whose timer a restart loses, stays UNDER_REVIEW until
  an administrator decides it.
* A grant that lapses while a handler runs may be marked EXPIRED without the limits of
  the user being taken back (`limit_service.py:73`); `effective_limits` asks the grant,
  so only the copy on the user row is wrong.
* `SnapshotReads = TRUE` with a worker and a webhook credits a deposit twice.
* With `"lost_reply"`, a payment Campay accepts is marked FAILED, and
  `FailedIsRefused` does not hold; an administrator who then forces SUCCESS on
  such a withdrawal leaves the refund in place.
* With `"crash"`, nothing remains of a transaction whose handler died in the
  call, although the comment at `wallet_service.py:426` says the flush makes it
  durable.
* With `"no_reference"`, a worker settles a withdrawal by the mock inquiry of
  bills, and `SuccessIsConfirmed` does not hold.
* A stale reply may overwrite the final status a callback has stored and
  `finalized_at` is then written twice.
* Two sends with one `Idempotency-Key` in two sessions both pass the look-up
  and the user is charged twice for it.
* Two confirmations may consume one bill validation; a bill, or a withdrawal without a
  reference, that a worker settles is not counted against the grant
  (`SettleUncounted`; `GrantsAreCharged` leaves it out).
* A sweep ends at a locked head row, where `worker.py:7` says SKIP LOCKED.
* With `Overlap = TRUE`, two calls on one request can both succeed: it is
  charged twice, or cancelled after it was paid, and a cancellation over
  PROCESSING strands the collected money.
* A collect without a reference leaves both history rows PENDING.
* Wrong codes are counted on the row and the count is rolled back with the refusal
  (`auth_service.py:132`, `password_reset_service.py:93`), so `OTP_MAX_ATTEMPTS`
  never refuses one; the limiter is what bounds the guesses, and it lets everything
  pass while Redis is away.
* A counter whose EXPIRE fails shuts its phone number out for good.
* Overlapping requests: two debits both fit the daily limit or the cap; two
  requests for a higher limit, or two disputes, make `one_or_none` raise on every
  later call; two verifications of a code begin two sessions; two resets set two
  passwords; two registrations of a browser leave its token with both accounts or
  with none; a login, or a verified code, keeps a token after a change of password it did
  not see; a
  percentage rule ends up with a flat configuration and charges nothing.
* A debit settled late counts under the grant of that moment and may pass its cap;
  a withdrawal that waits as PENDING does not count against the day.
* The notification of a used-up grant is delivered before the commit, where the
  comment at `limit_service.py:390` says after; the client re-lists on receipt and
  may miss the row.
* After the newest reset code is consumed, an older one that has not expired can be
  used; refresh is refused after a logout while the access token lives on.
* A user's message on a RESOLVED ticket leaves it resolved; only CLOSED is taken up.
* A refresh that is under way at a logout stores its token afterwards
  (`src/frontend/src/api/client.js:107`).
* A second registration of a phone number sets the password of an account that was
  activated since it was read (`auth_service.py:104`), and the sessions begun since
  go on: `TokensFollowPassword` excepts it.
* Client and server round a half differently: the fee shown may be one unit above
  the fee charged. Fees, bounds and tiers that are not whole numbers are accepted
  (`routers/admin.py:167`), shown as they are and charged with the fraction dropped; a
  tier that begins at a fraction begins earlier on the server.
  `FeeShownIsCharged` says when the two differ, and by how much.

## 6. Not modelled

The client session is JavaScript of one tab with no state that another component
writes. Reporting, bootstrap, migrations and pages are queries, run once, or are
presentation, and no property of several steps is about them. What is not a number in
a fee configuration is left out: `compute_fee` raises on it, and nothing is charged.
Access tokens are
signed strings. The status SUBMITTED of a KYC profile is never assigned in the
code, and is not in the model. Rooms of single transactions, reading a
notification and mails are left out, as is the limiter's key of registrations
(same code, another key). Inside the modelled
parts: PIN and password checks, names, texts, emails and audit rows are left out;
ages (`RECONCILE_AGE_SECONDS`, expiry of a validation) are nondeterministic
timing; `validate_account` is the given set `Tokens`; beneficiaries are plain rows.

## 7. Plan

Done, in this order: `WalletSessions` with `AtomicBank`, `CampaySettlement`,
`ReconcileLoop`, `BillPayments`, `MoneyRequests`; then `Snapshots`, `LimitGrants`,
`KycReview`, `SupportDesk`, `Catalogue`, `OneTimeCodes`, `AccountSessions`,
`Presence`, `PushTokens`; then the proofs of section 4: type invariants, safety
invariants, action properties, and the refinements of `AtomicBank` (for sessions
that stay apart), `AtomicPayment`, `AtomicBill` and `AtomicRequest` (for calls in turn).

Next proofs. What an overlap of the parties' calls can do at most, beyond
`PaidRequestIsFunded`; `AtomicPayment` with a step for a lost reply, so that
`CampayImplementsPayment` covers that fault. A work queue for `ReconcileLoop` was
considered and left out: its safety is what `SettledAtMostOnce` and `ClaimsAreExclusive`
say, and its progress is liveness.

Next modules: settings and bills over `Catalogue` (a service switched off while a
bill is confirmed), `ClientSession` (shared refresh against logout).
