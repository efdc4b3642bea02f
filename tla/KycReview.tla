----------------------------- MODULE KycReview ------------------------------
(***************************************************************************)
(* The KYC profile of one user: kyc_service.py.  The user edits a draft    *)
(* and submits it, an administrator or, where KYC_AUTO_REVIEW_ENABLED is   *)
(* set, a threading.Timer decides.  All of them read the profile in a      *)
(* snapshot and write it without a lock (see Snapshots).                   *)
(***************************************************************************)
EXTENDS Snapshots

CONSTANTS KycDocs,         \* what the required fields and captures may hold
          Forged,          \* those whose id_number ends in 0000
          AutoReview,      \* KYC_AUTO_REVIEW_ENABLED
          MaxSubmissions   \* bound

Blank == "blank"   \* some required field is missing

ASSUME KycAssumption ==
  /\ Forged \subseteq KycDocs /\ Blank \notin KycDocs
  /\ AutoReview \in BOOLEAN /\ MaxSubmissions \in Nat

KycStatus == {"NOT_STARTED", "IN_PROGRESS", "UNDER_REVIEW", "APPROVED", "REJECTED"}
KycRow == [status : KycStatus, docs : KycDocs \cup {Blank}]
Decisions == {"APPROVED", "REJECTED"}

ASSUME NoViewAssumption == NoView \notin KycRow

VARIABLES
  kyc,          \* the committed kyc_profiles row
  kycView,      \* the snapshot of each open session, or NoView
  reviewing,    \* the sessions that are timer threads
  scheduling,   \* the sessions that have committed a submission and start its timer
  armed,        \* review timers that have not fired
  submissions,  \* submissions so far
  submitted,    \* history: what the last submission held
  notice,       \* history: the decision the user was last notified of
  checked,      \* history: what the timer thread that decided last had read
  lost,         \* history: a timer was lost, or never started, since the last submission
  kycLate       \* history: the kinds of commit made on an outdated snapshot

kycHistory == <<submitted, notice, checked>>
timerVars == <<reviewing, scheduling, armed, lost>>
kycVars == <<kyc, kycView, timerVars, submissions, kycHistory, kycLate>>

KycTypeOK ==
  /\ kyc \in KycRow
  /\ kycView \in [Requesters -> KycRow \cup {NoView}]
  /\ reviewing \subseteq {s \in Requesters : kycView[s] # NoView}
  /\ scheduling \subseteq {s \in Requesters : kycView[s] = NoView}
  /\ armed \in Nat /\ submissions \in 0..MaxSubmissions
  /\ {submitted, checked} \subseteq KycDocs \cup {Blank}
  /\ notice \in Decisions \cup {"none"} /\ lost \in BOOLEAN
  /\ kycLate \subseteq {"draft", "submission", "decision"}

\* get_or_create: the first GET inserts the row.
KycInit ==
  /\ kyc = [status |-> "NOT_STARTED", docs |-> Blank]
  /\ kycView = [s \in Requesters |-> NoView]
  /\ reviewing = {} /\ scheduling = {} /\ armed = 0 /\ lost = FALSE
  /\ submissions = 0 /\ submitted = Blank /\ checked = Blank
  /\ notice = "none" /\ kycLate = {}

-----------------------------------------------------------------------------
KycBegin(s) ==
  /\ kycView[s] = NoView /\ s \notin scheduling
  /\ kycView' = [kycView EXCEPT ![s] = kyc]
  /\ UNCHANGED <<kyc, timerVars, submissions, kycHistory, kycLate>>

\* Mutant: a profile under review can still be edited.
LockedWhenApproved(row) == row.status = "APPROVED"

Locked(row) == row.status \in {"UNDER_REVIEW", "APPROVED"}

\* Mutant: a thread that is done still counts as reviewing.
KycCloseSession(s) ==
  /\ kycView' = [kycView EXCEPT ![s] = NoView]
  /\ UNCHANGED reviewing

KycClose(s) ==
  /\ kycView' = [kycView EXCEPT ![s] = NoView]
  /\ reviewing' = reviewing \ {s}

KycCommit(s, new, kind) ==
  /\ kyc' = MergeRow(kycView[s], new, kyc)
  /\ kycLate' = IF kyc # kycView[s] THEN kycLate \cup {kind} ELSE kycLate
  /\ KycClose(s)

\* A refusal, a failure, a GET.  A timer thread that fails is not repeated.
KycRollback(s) ==
  /\ KycClose(s)
  /\ lost' = (lost \/ s \in reviewing)
  /\ UNCHANGED <<kyc, scheduling, armed, submissions, kycHistory, kycLate>>

\* PUT /me/kyc and the captures: fields are set on a profile that is not
\* locked, and a new or rejected one becomes a draft.
update_draft(s, docs) ==
  LET v == kycView[s]
      status == IF v.status \in {"NOT_STARTED", "REJECTED"} THEN "IN_PROGRESS"
                ELSE v.status
  IN /\ s \notin reviewing /\ ~Locked(v)
     /\ KycCommit(s, [status |-> status, docs |-> docs], "draft")
     /\ UNCHANGED <<scheduling, armed, lost, submissions, kycHistory>>

\* Mutant: no timer is started while another one, or its thread, is about.
submit_unless_timed(s) ==
  LET v == kycView[s]
  IN /\ s \notin reviewing /\ ~Locked(v) /\ v.docs # Blank
     /\ submissions < MaxSubmissions
     /\ KycCommit(s, [v EXCEPT !.status = "UNDER_REVIEW"], "submission")
     /\ submissions' = submissions + 1
     /\ scheduling' = IF AutoReview /\ armed = 0 /\ reviewing = {} THEN scheduling \cup {s}
                      ELSE scheduling
     /\ submitted' = kyc'.docs /\ lost' = FALSE
     /\ UNCHANGED <<armed, notice, checked>>

\* submit up to its commit: every submission is to start a timer.
submit(s) ==
  LET v == kycView[s]
  IN /\ s \notin reviewing /\ ~Locked(v) /\ v.docs # Blank
     /\ submissions < MaxSubmissions
     /\ KycCommit(s, [v EXCEPT !.status = "UNDER_REVIEW"], "submission")
     /\ submissions' = submissions + 1
     /\ scheduling' = IF AutoReview THEN scheduling \cup {s} ELSE scheduling
     /\ submitted' = kyc'.docs /\ lost' = FALSE
     /\ UNCHANGED <<armed, notice, checked>>

\* The row is read back, the socket is told, and _schedule_review starts it.
ScheduleReview(s) ==
  /\ s \in scheduling
  /\ scheduling' = scheduling \ {s} /\ armed' = armed + 1
  /\ UNCHANGED <<kyc, kycView, reviewing, lost, submissions, kycHistory, kycLate>>

\* An error on the way: the submission stands, and no timer is started.
ScheduleFails(s) ==
  /\ s \in scheduling
  /\ scheduling' = scheduling \ {s} /\ lost' = TRUE
  /\ UNCHANGED <<kyc, kycView, reviewing, armed, submissions, kycHistory, kycLate>>

\* An approval needs a profile under review; a rejection may also take an
\* approval back.
Decidable(row, decision) ==
  IF decision = "APPROVED" THEN row.status = "UNDER_REVIEW" ELSE Locked(row)

\* Mutant: who takes an approval back does not say so.
apply_decision_quietly(s, decision) ==
  /\ Decidable(kycView[s], decision)
  /\ KycCommit(s, [kycView[s] EXCEPT !.status = decision], "decision")
  /\ notice' = IF kycView[s].status = "APPROVED" THEN notice ELSE decision
  /\ UNCHANGED <<scheduling, armed, submissions, submitted, lost>>

\* The decision and the notification of the user are one commit.
apply_decision(s, decision) ==
  /\ Decidable(kycView[s], decision)
  /\ KycCommit(s, [kycView[s] EXCEPT !.status = decision], "decision")
  /\ notice' = decision
  /\ UNCHANGED <<scheduling, armed, submissions, submitted, lost>>

admin_decides(s, decision) ==
  /\ s \notin reviewing
  /\ apply_decision(s, decision)
  /\ checked' = Blank

\* The timer's thread opens a session of its own.
FireReview(s) ==
  /\ armed > 0 /\ kycView[s] = NoView /\ s \notin scheduling
  /\ armed' = armed - 1
  /\ kycView' = [kycView EXCEPT ![s] = kyc]
  /\ reviewing' = reviewing \cup {s}
  /\ UNCHANGED <<kyc, scheduling, lost, submissions, kycHistory, kycLate>>

\* It leaves alone what is not under review, and decides by the id number.
run_review(s) ==
  /\ s \in reviewing
  /\ IF kycView[s].status = "UNDER_REVIEW"
     THEN /\ apply_decision(s, IF kycView[s].docs \in Forged THEN "REJECTED" ELSE "APPROVED")
          /\ checked' = kycView[s].docs
     ELSE /\ KycClose(s)
          /\ UNCHANGED <<kyc, scheduling, armed, lost, submissions, kycHistory, kycLate>>

\* A restart ends the sessions and forgets the timers.
KycRestart ==
  /\ armed > 0 \/ reviewing # {} \/ scheduling # {}
  /\ kycView' = [s \in Requesters |-> NoView]
  /\ reviewing' = {} /\ scheduling' = {} /\ armed' = 0 /\ lost' = TRUE
  /\ UNCHANGED <<kyc, submissions, kycHistory, kycLate>>

KycNext ==
  \/ \E s \in Requesters :
       KycBegin(s) \/ ScheduleReview(s) \/ ScheduleFails(s) \/ FireReview(s)
  \/ \E s \in Requesters :
       /\ kycView[s] # NoView
       /\ \/ KycRollback(s) \/ submit(s) \/ run_review(s)
          \/ \E docs \in KycDocs : update_draft(s, docs)
          \/ \E decision \in Decisions : admin_decides(s, decision)
  \/ KycRestart

KycSpec == KycInit /\ [][KycNext]_kycVars
-----------------------------------------------------------------------------
\* What is under review, or was approved, is what the user submitted, and an
\* approval by the timer is not of a forged id: as long as no draft is saved and
\* nothing is decided on a snapshot from before another commit.
ReviewedAsSubmitted ==
  {"draft", "decision"} \cap kycLate = {} /\ Locked(kyc) =>
    /\ kyc.docs = submitted
    /\ kyc.status = "APPROVED" /\ checked # Blank => kyc.docs \notin Forged

\* However decisions, drafts and submissions overlap, a profile that stands
\* approved or rejected is what its user was last told.
DecisionIsNotified == kyc.status \in Decisions => notice = kyc.status

\* A profile under automatic review has a request that starts a timer, a timer
\* or a thread that will decide it, whatever an administrator or an older timer
\* did meanwhile; what takes it away is a restart, a thread that fails, or an
\* error in the request between its commit and the start of the timer.
ReviewHasTimer ==
  AutoReview /\ kyc.status = "UNDER_REVIEW" /\ ~lost =>
    scheduling # {} \/ armed > 0 \/ reviewing # {}
=============================================================================
