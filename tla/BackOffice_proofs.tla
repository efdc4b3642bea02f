-------------------------- MODULE BackOffice_proofs --------------------------
(***************************************************************************)
(* Proofs about KycReview, SupportDesk, Catalogue and LimitGrants, none of *)
(* whose sessions locks a row, for any number of sessions.                 *)
(*                                                                         *)
(* KYC: each request and timer writes a status that differs from the one   *)
(* it has read, so none keeps a status it does not know of and tells the   *)
(* user something else; no submission is left without a timer.             *)
(* Support: disputes of one transaction are as many as the sessions that   *)
(* had not seen the first.  Catalogue: a commit that has not seen another  *)
(* keeps what the other wrote where the two agree, and the two fee         *)
(* formulas differ by a rounding.  Limits: a commit that has seen the      *)
(* requests as they are gives at most one grant, charges it with what it   *)
(* spends, and stays within its cap and within the day.                    *)
(***************************************************************************)
EXTENDS BackOffice, Sums, FiniteSetTheorems, TLAPS

\* What ReviewHasTimer needs of a thread: one that read the profile before it
\* was submitted decides nothing.
SomeoneDecides ==
  AutoReview /\ kyc.status = "UNDER_REVIEW" /\ ~lost =>
    scheduling # {} \/ armed > 0 \/ \E s \in reviewing : kycView[s].status = "UNDER_REVIEW"

KycIInv == KycTypeOK /\ DecisionIsNotified /\ SomeoneDecides

-----------------------------------------------------------------------------
\* SQLAlchemy's UPDATE of a profile, column by column.
LEMMA MergedProfile ==
  ASSUME NEW old \in KycRow, NEW new \in KycRow, NEW row \in KycRow
  PROVE  LET merged == MergeRow(old, new, row)
         IN /\ merged \in KycRow
            /\ merged.status = IF new.status # old.status THEN new.status ELSE row.status
            /\ merged.docs = IF new.docs # old.docs THEN new.docs ELSE row.docs
<1> DEFINE column(c) == IF new[c] # old[c] THEN new[c] ELSE row[c]
<1>1. /\ DOMAIN row = {"status", "docs"}
      /\ column("status") \in KycStatus /\ column("docs") \in KycDocs \cup {Blank}
  BY DEF KycRow
<1>2. MergeRow(old, new, row) = [c \in {"status", "docs"} |-> column(c)]
  BY <1>1 DEF MergeRow
<1> HIDE DEF column
<1>3. MergeRow(old, new, row) = [status |-> column("status"), docs |-> column("docs")]
  BY <1>2
<1> QED BY <1>1, <1>3 DEF KycRow, column

LEMMA KycInitIInv == KycInit => KycIInv
<1> SUFFICES ASSUME KycInit PROVE KycIInv
  OBVIOUS
<1>1. kyc \in KycRow
  BY DEF KycInit, KycRow, KycStatus
<1>2. armed \in Nat /\ submissions \in 0..MaxSubmissions
  BY KycAssumption DEF KycInit
<1>3. KycTypeOK
  BY <1>1, <1>2 DEF KycInit, KycTypeOK
<1> QED BY <1>3 DEF KycInit, KycIInv, DecisionIsNotified, SomeoneDecides, Decisions

\* A commit closes its session, and its profile is the merged one.
LEMMA KycCommitType ==
  ASSUME KycIInv, NEW s \in Requesters, kycView[s] # NoView,
         NEW new \in KycRow, NEW kind \in {"draft", "submission", "decision"},
         KycCommit(s, new, kind)
  PROVE  /\ kycView[s] \in KycRow
         /\ kyc' \in KycRow /\ kycView' \in [Requesters -> KycRow \cup {NoView}]
         /\ reviewing' \subseteq {q \in Requesters : kycView'[q] # NoView}
         /\ kycLate' \subseteq {"draft", "submission", "decision"}
         /\ kyc'.status = IF new.status # kycView[s].status THEN new.status ELSE kyc.status
         /\ kycView' = [kycView EXCEPT ![s] = NoView] /\ reviewing' = reviewing \ {s}
         /\ scheduling \cup {s} \subseteq {q \in Requesters : kycView'[q] = NoView}
<1>1. kycView[s] \in KycRow /\ kyc \in KycRow
  BY DEF KycIInv, KycTypeOK
<1>2. kyc' = MergeRow(kycView[s], new, kyc)
  BY DEF KycCommit
<1>3. /\ kyc' \in KycRow
      /\ kyc'.status = IF new.status # kycView[s].status THEN new.status ELSE kyc.status
  BY <1>1, <1>2, MergedProfile
<1> QED BY <1>1, <1>3 DEF KycCommit, KycClose, KycIInv, KycTypeOK

\* Reading, starting a timer, and giving up.
LEMMA KycReadIInv ==
  ASSUME KycIInv, NEW s \in Requesters,
         \/ KycBegin(s) \/ ScheduleReview(s) \/ ScheduleFails(s) \/ FireReview(s)
         \/ (kycView[s] # NoView /\ KycRollback(s))
  PROVE  KycIInv'
<1> USE DEF KycIInv, KycTypeOK, DecisionIsNotified, SomeoneDecides
<1>1. CASE KycBegin(s)
  <2>1. s \notin reviewing
    BY <1>1 DEF KycBegin
  <2> QED BY <1>1, <2>1 DEF KycBegin, timerVars, kycHistory
<1>2. CASE FireReview(s)
  <2>1. KycTypeOK'
    BY <1>2, NoViewAssumption DEF FireReview, kycHistory
  <2>2. DecisionIsNotified'
    BY <1>2 DEF FireReview, kycHistory
  <2>3. SomeoneDecides'
    BY <1>2 DEF FireReview, kycHistory
  <2> QED BY <2>1, <2>2, <2>3
<1>3. CASE kycView[s] # NoView /\ KycRollback(s)
  <2>1. KycTypeOK'
    BY <1>3 DEF KycRollback, KycClose, kycHistory
  <2>2. SomeoneDecides'
    BY <1>3 DEF KycRollback, KycClose, kycHistory
  <2> QED BY <1>3, <2>1, <2>2 DEF KycRollback, KycClose, kycHistory
<1>4. CASE ScheduleReview(s) \/ ScheduleFails(s)
  <2>1. /\ scheduling' = scheduling \ {s} /\ lost' \in BOOLEAN
        /\ UNCHANGED <<kyc, kycView, reviewing, submissions, kycHistory, kycLate>>
        /\ \/ armed' = armed + 1
           \/ armed' = armed /\ lost'
    BY <1>4 DEF ScheduleReview, ScheduleFails
  <2>2. KycTypeOK'
    BY <2>1 DEF kycHistory
  <2>3. SomeoneDecides'
    BY <2>1
  <2> QED BY <2>1, <2>2, <2>3 DEF kycHistory
<1> QED BY <1>1, <1>2, <1>3, <1>4

\* A draft never makes a profile under review.
LEMMA DraftIInv ==
  ASSUME KycIInv, NEW s \in Requesters, kycView[s] # NoView,
         NEW docs \in KycDocs, update_draft(s, docs)
  PROVE  KycIInv'
<1> DEFINE status == IF kycView[s].status \in {"NOT_STARTED", "REJECTED"} THEN "IN_PROGRESS"
                     ELSE kycView[s].status
           new == [status |-> status, docs |-> docs]
<1>1. kycView[s] \in KycRow /\ ~Locked(kycView[s]) /\ s \notin reviewing
  BY DEF KycIInv, KycTypeOK, update_draft
<1>2. new \in KycRow /\ new.status = status
  BY <1>1 DEF KycRow, KycStatus
<1>3. KycCommit(s, new, "draft")
  BY DEF update_draft
<1>4. kyc'.status = kyc.status \/ kyc'.status = "IN_PROGRESS"
  <2> HIDE DEF new
  <2> QED BY <1>2, <1>3, KycCommitType
<1>5. KycTypeOK'
  <2> HIDE DEF new
  <2> QED BY <1>2, <1>3, KycCommitType DEF update_draft, kycHistory, KycIInv, KycTypeOK
<1>6. /\ kycView' = [kycView EXCEPT ![s] = NoView] /\ reviewing' = reviewing \ {s}
      /\ UNCHANGED <<scheduling, armed, lost, notice>>
  BY <1>3 DEF KycCommit, KycClose, update_draft, kycHistory
<1>7. SomeoneDecides'
  BY <1>1, <1>4, <1>6 DEF KycIInv, SomeoneDecides, KycTypeOK
<1>8. DecisionIsNotified'
  BY <1>4, <1>6 DEF KycIInv, DecisionIsNotified, Decisions
<1> QED BY <1>5, <1>7, <1>8 DEF KycIInv

\* Every submission is to start a timer.
LEMMA SubmitIInv ==
  ASSUME KycIInv, NEW s \in Requesters, kycView[s] # NoView, submit(s)
  PROVE  KycIInv'
<1> DEFINE new == [kycView[s] EXCEPT !.status = "UNDER_REVIEW"]
<1>1. kycView[s] \in KycRow /\ ~Locked(kycView[s])
  BY DEF KycIInv, KycTypeOK, submit
<1>2. new \in KycRow /\ new.status = "UNDER_REVIEW" /\ new.status # kycView[s].status
  BY <1>1 DEF KycRow, KycStatus, Locked
<1>3. KycCommit(s, new, "submission")
  BY DEF submit
<1>4. kyc'.status = "UNDER_REVIEW" /\ kyc' \in KycRow
  <2> HIDE DEF new
  <2> QED BY <1>2, <1>3, KycCommitType
<1>5. /\ submissions' = submissions + 1 /\ submissions < MaxSubmissions
      /\ scheduling' = IF AutoReview THEN scheduling \cup {s} ELSE scheduling
      /\ submitted' = kyc'.docs /\ lost' = FALSE /\ UNCHANGED <<armed, notice, checked>>
  BY DEF submit
<1>6. KycTypeOK'
  <2>1. armed' \in Nat /\ submissions' \in 0..MaxSubmissions
    BY <1>5, KycAssumption DEF KycIInv, KycTypeOK
  <2>2. submitted' \in KycDocs \cup {Blank}
    BY <1>4, <1>5 DEF KycRow
  <2> HIDE DEF new
  <2>3. /\ scheduling' \subseteq {q \in Requesters : kycView'[q] = NoView}
        /\ kycView' \in [Requesters -> KycRow \cup {NoView}]
        /\ reviewing' \subseteq {q \in Requesters : kycView'[q] # NoView}
        /\ kycLate' \subseteq {"draft", "submission", "decision"}
    BY <1>2, <1>3, <1>5, KycCommitType
  <2> QED BY <1>4, <1>5, <2>1, <2>2, <2>3 DEF KycIInv, KycTypeOK
<1>7. SomeoneDecides'
  BY <1>5 DEF KycIInv, SomeoneDecides, KycTypeOK
<1> QED BY <1>4, <1>6, <1>7 DEF KycIInv, DecisionIsNotified, Decisions

\* A decision, of an administrator or of a thread.
LEMMA DecisionIInv ==
  ASSUME KycIInv, NEW s \in Requesters, kycView[s] # NoView, NEW decision \in Decisions,
         apply_decision(s, decision), checked' \in KycDocs \cup {Blank}
  PROVE  KycIInv'
<1> DEFINE new == [kycView[s] EXCEPT !.status = decision]
<1>1. kycView[s] \in KycRow /\ Decidable(kycView[s], decision)
  BY DEF KycIInv, KycTypeOK, apply_decision
<1>2. new \in KycRow /\ new.status = decision /\ new.status # kycView[s].status
  BY <1>1 DEF KycRow, KycStatus, Decisions, Decidable, Locked
<1>3. KycCommit(s, new, "decision")
  BY DEF apply_decision
<1>4. kyc'.status = decision
  <2> HIDE DEF new
  <2> QED BY <1>2, <1>3, KycCommitType
<1>5. notice' = decision /\ UNCHANGED <<scheduling, armed, submissions, submitted, lost>>
  BY DEF apply_decision
<1>6. KycTypeOK'
  <2> HIDE DEF new
  <2> QED BY <1>2, <1>3, <1>5, KycCommitType DEF KycIInv, KycTypeOK
<1> QED BY <1>4, <1>5, <1>6 DEF KycIInv, DecisionIsNotified, SomeoneDecides, Decisions

\* A thread that read a profile that is not under review leaves it alone.
LEMMA ReviewIInv ==
  ASSUME KycIInv, NEW s \in Requesters, kycView[s] # NoView, run_review(s)
  PROVE  KycIInv'
<1>1. CASE kycView[s].status = "UNDER_REVIEW"
  <2> DEFINE decision == IF kycView[s].docs \in Forged THEN "REJECTED" ELSE "APPROVED"
  <2>1. decision \in Decisions /\ kycView[s] \in KycRow
    BY DEF Decisions, KycIInv, KycTypeOK
  <2>2. apply_decision(s, decision) /\ checked' \in KycDocs \cup {Blank}
    BY <1>1, <2>1 DEF run_review, KycRow
  <2> HIDE DEF decision
  <2> QED BY <2>1, <2>2, DecisionIInv
<1>2. CASE kycView[s].status # "UNDER_REVIEW"
  <2>1. /\ kycView' = [kycView EXCEPT ![s] = NoView] /\ reviewing' = reviewing \ {s}
        /\ UNCHANGED <<kyc, scheduling, armed, lost, submissions, kycHistory, kycLate>>
    BY <1>2 DEF run_review, KycClose
  <2>2. KycTypeOK'
    BY <2>1 DEF KycIInv, KycTypeOK, kycHistory
  <2>3. SomeoneDecides'
    BY <1>2, <2>1 DEF KycIInv, SomeoneDecides, KycTypeOK
  <2> QED BY <2>1, <2>2, <2>3 DEF KycIInv, DecisionIsNotified, kycHistory
<1> QED BY <1>1, <1>2

LEMMA RestartIInv == KycIInv /\ KycRestart => KycIInv'
<1> SUFFICES ASSUME KycIInv, KycRestart PROVE KycIInv'
  OBVIOUS
<1>1. KycTypeOK'
  BY DEF KycRestart, KycIInv, KycTypeOK, kycHistory
<1> QED BY <1>1 DEF KycRestart, KycIInv, DecisionIsNotified, SomeoneDecides, kycHistory

LEMMA KycNextIInv == KycIInv /\ [KycNext]_kycVars => KycIInv'
<1> SUFFICES ASSUME KycIInv, [KycNext]_kycVars PROVE KycIInv'
  OBVIOUS
<1>1. ASSUME NEW s \in Requesters,
             KycBegin(s) \/ ScheduleReview(s) \/ ScheduleFails(s) \/ FireReview(s)
      PROVE  KycIInv'
  BY <1>1, KycReadIInv
<1>2. ASSUME NEW s \in Requesters, kycView[s] # NoView,
             \/ KycRollback(s) \/ submit(s) \/ run_review(s)
             \/ \E docs \in KycDocs : update_draft(s, docs)
      PROVE  KycIInv'
  BY <1>2, KycReadIInv, SubmitIInv, ReviewIInv, DraftIInv
<1>3. ASSUME NEW s \in Requesters, kycView[s] # NoView,
             NEW decision \in Decisions, admin_decides(s, decision)
      PROVE  KycIInv'
  BY <1>3, DecisionIInv DEF admin_decides
<1>4. CASE KycRestart
  BY <1>4, RestartIInv
<1>5. CASE UNCHANGED kycVars
  BY <1>5 DEF kycVars, timerVars, kycHistory, KycIInv, KycTypeOK, DecisionIsNotified, SomeoneDecides
<1> QED BY <1>1, <1>2, <1>3, <1>4, <1>5 DEF KycNext

LEMMA KycSpecIInv == KycSpec => []KycIInv
<1>1. KycIInv /\ [KycNext]_kycVars => KycIInv'
  BY KycNextIInv
<1> QED BY KycInitIInv, <1>1, PTL DEF KycSpec

\* However requests, administrators and timers overlap, a profile that stands
\* approved or rejected is what its user was told last (kyc_service.py:105).
THEOREM DecisionsAreNotified == KycSpec => []DecisionIsNotified
<1>1. KycIInv => DecisionIsNotified
  BY DEF KycIInv
<1> QED BY <1>1, KycSpecIInv, PTL

\* Unless a restart, a failing thread, or an error between the commit of the
\* submission and its timer loses it, there is a request that starts one, a timer
\* or a thread for what is under automatic review (kyc_service.py:76, :224).
THEOREM ReviewsHaveTimers == KycSpec => []ReviewHasTimer
<1>1. KycIInv => ReviewHasTimer
  BY DEF KycIInv, SomeoneDecides, ReviewHasTimer
<1> QED BY <1>1, KycSpecIInv, PTL

\* The profile, the views of the sessions, the timers and the histories of the
\* review keep to their values.
THEOREM KycTypeCorrect == KycSpec => []KycTypeOK
<1>1. KycIInv => KycTypeOK
  BY DEF KycIInv
<1> QED BY <1>1, KycSpecIInv, PTL
-----------------------------------------------------------------------------
(* ReviewedAsSubmitted is inductive: a commit on a snapshot that is not    *)
(* outdated writes what it has seen, and a submission records the          *)
(* documents that it leaves, whoever wrote them.                           *)

ReviewInv == KycIInv /\ ReviewedAsSubmitted

LEMMA KycCommitReviewed ==
  ASSUME ReviewInv, KycIInv', NEW s \in Requesters, kycView[s] # NoView,
         NEW new \in KycRow, NEW kind \in {"draft", "submission", "decision"},
         KycCommit(s, new, kind),
         kind = "draft" => ~Locked(new) /\ ~Locked(kycView[s]),
         kind = "submission" => submitted' = kyc'.docs /\ new.status = "UNDER_REVIEW"
                                /\ ~Locked(kycView[s]),
         kind = "decision" =>
           /\ Locked(kycView[s]) /\ new = [kycView[s] EXCEPT !.status = new.status]
           /\ UNCHANGED submitted
           /\ new.status = "APPROVED" /\ checked' # Blank => new.docs \notin Forged
  PROVE  ReviewedAsSubmitted'
<1> SUFFICES ASSUME {"draft", "decision"} \cap kycLate' = {}, Locked(kyc')
             PROVE  /\ kyc'.docs = submitted'
                    /\ kyc'.status = "APPROVED" /\ checked' # Blank => kyc'.docs \notin Forged
  BY DEF ReviewedAsSubmitted, Locked
<1>1. kycView[s] \in KycRow /\ kyc \in KycRow
  BY DEF ReviewInv, KycIInv, KycTypeOK
<1>2. /\ kyc'.status = IF new.status # kycView[s].status THEN new.status ELSE kyc.status
      /\ kyc'.docs = IF new.docs # kycView[s].docs THEN new.docs ELSE kyc.docs
  BY <1>1, MergedProfile DEF KycCommit
<1>3. kind # "submission" => kycView[s] = kyc
  BY DEF KycCommit
<1>4. {"draft", "decision"} \cap kycLate = {}
  BY DEF KycCommit
<1>5. kind # "draft"
  BY <1>1, <1>2, <1>3 DEF Locked, KycRow
<1>6. CASE kind = "submission"
  BY <1>2, <1>6 DEF Locked
<1>7. CASE kind = "decision"
  <2>1. new.docs = kyc.docs /\ kyc'.docs = kyc.docs /\ Locked(kyc)
    BY <1>1, <1>2, <1>3, <1>7 DEF KycRow
  <2>2. kyc'.status = new.status
    BY <1>2, <1>3, <1>7
  <2>3. kyc.docs = submitted
    BY <1>4, <2>1 DEF ReviewInv, ReviewedAsSubmitted
  <2> QED BY <1>7, <2>1, <2>2, <2>3
<1> QED BY <1>5, <1>6, <1>7

LEMMA ReviewNext == ReviewInv /\ [KycNext]_kycVars => ReviewInv'
<1> SUFFICES ASSUME ReviewInv, [KycNext]_kycVars PROVE ReviewedAsSubmitted'
  BY KycNextIInv DEF ReviewInv
<1>0. KycIInv'
  BY KycNextIInv DEF ReviewInv
<1>1. ASSUME UNCHANGED <<kyc, kycHistory, kycLate>> PROVE ReviewedAsSubmitted'
  BY <1>1 DEF ReviewInv, ReviewedAsSubmitted, kycHistory, Locked
<1>2. ASSUME NEW s \in Requesters, kycView[s] # NoView,
             NEW docs \in KycDocs, update_draft(s, docs)
      PROVE  ReviewedAsSubmitted'
  <2> DEFINE status == IF kycView[s].status \in {"NOT_STARTED", "REJECTED"} THEN "IN_PROGRESS"
                       ELSE kycView[s].status
             new == [status |-> status, docs |-> docs]
  <2>1. kycView[s] \in KycRow /\ ~Locked(kycView[s]) /\ KycCommit(s, new, "draft")
    BY <1>2 DEF ReviewInv, KycIInv, KycTypeOK, update_draft
  <2>2. new \in KycRow /\ ~Locked(new)
    BY <2>1 DEF KycRow, KycStatus, Locked
  <2> HIDE DEF new
  <2> QED BY <1>0, <1>2, <2>1, <2>2, KycCommitReviewed
<1>3. ASSUME NEW s \in Requesters, kycView[s] # NoView, submit(s) PROVE ReviewedAsSubmitted'
  <2> DEFINE new == [kycView[s] EXCEPT !.status = "UNDER_REVIEW"]
  <2>1. /\ kycView[s] \in KycRow /\ ~Locked(kycView[s]) /\ KycCommit(s, new, "submission")
        /\ submitted' = kyc'.docs
    BY <1>3 DEF ReviewInv, KycIInv, KycTypeOK, submit
  <2>2. new \in KycRow /\ new.status = "UNDER_REVIEW"
    BY <2>1 DEF KycRow, KycStatus
  <2> HIDE DEF new
  <2> QED BY <1>0, <1>3, <2>1, <2>2, KycCommitReviewed
<1>4. ASSUME NEW s \in Requesters, kycView[s] # NoView,
             NEW decision \in Decisions, apply_decision(s, decision),
             decision = "APPROVED" /\ checked' # Blank => kycView[s].docs \notin Forged
      PROVE  ReviewedAsSubmitted'
  <2> DEFINE new == [kycView[s] EXCEPT !.status = decision]
  <2>1. /\ kycView[s] \in KycRow /\ Decidable(kycView[s], decision)
        /\ KycCommit(s, new, "decision") /\ UNCHANGED submitted
    BY <1>4 DEF ReviewInv, KycIInv, KycTypeOK, apply_decision
  <2>2. /\ new \in KycRow /\ new.status = decision /\ new.docs = kycView[s].docs
        /\ Locked(kycView[s])
    BY <2>1 DEF KycRow, KycStatus, Decisions, Decidable, Locked
  <2>3. new = [kycView[s] EXCEPT !.status = new.status]
    BY <2>2
  <2> HIDE DEF new
  <2> QED BY <1>0, <1>4, <2>1, <2>2, <2>3, KycCommitReviewed
<1>5. ASSUME NEW s \in Requesters, kycView[s] # NoView, run_review(s)
      PROVE ReviewedAsSubmitted'
  <2>1. CASE kycView[s].status = "UNDER_REVIEW"
    <3> DEFINE decision == IF kycView[s].docs \in Forged THEN "REJECTED" ELSE "APPROVED"
    <3>1. /\ decision \in Decisions /\ apply_decision(s, decision)
          /\ decision = "APPROVED" => kycView[s].docs \notin Forged
      BY <1>5, <2>1 DEF run_review, Decisions
    <3> HIDE DEF decision
    <3> QED BY <1>5, <3>1, <1>4
  <2>2. CASE kycView[s].status # "UNDER_REVIEW"
    BY <1>1, <1>5, <2>2 DEF run_review
  <2> QED BY <2>1, <2>2
<1>6. ASSUME NEW s \in Requesters, kycView[s] # NoView,
             NEW decision \in Decisions, admin_decides(s, decision)
      PROVE  ReviewedAsSubmitted'
  BY <1>4, <1>6 DEF admin_decides
<1>7. ASSUME NEW s \in Requesters,
             \/ KycBegin(s) \/ ScheduleReview(s) \/ ScheduleFails(s) \/ FireReview(s)
             \/ KycRollback(s)
      PROVE ReviewedAsSubmitted'
  BY <1>1, <1>7 DEF KycBegin, ScheduleReview, ScheduleFails, FireReview, KycRollback
<1>8. CASE KycRestart \/ UNCHANGED kycVars
  BY <1>1, <1>8 DEF KycRestart, kycVars
<1> QED BY <1>2, <1>3, <1>5, <1>6, <1>7, <1>8 DEF KycNext

\* As long as no draft is saved and nothing is decided on an outdated
\* snapshot, what is under review or approved is what the user submitted, and
\* the timer approves no forged id (kyc_service.py:105), for any number of
\* sessions, submissions and restarts.
THEOREM ReviewsSubmission == KycSpec => []ReviewedAsSubmitted
<1>1. KycInit => ReviewInv
  BY KycInitIInv DEF KycInit, ReviewInv, ReviewedAsSubmitted, Locked
<1>2. ReviewInv => ReviewedAsSubmitted
  BY DEF ReviewInv
<1> QED BY <1>1, <1>2, ReviewNext, PTL DEF KycSpec
-----------------------------------------------------------------------------
(* SupportDesk.                                                            *)

\* The sessions that may still add a dispute: they have read that there is
\* none.
Disputing(t) == {s \in Requesters : deskView[s] # NoView /\ deskView[s].disputes[t] = 0}

\* Once there is a dispute no session joins those that may add one, and each
\* of them adds one and is done.
DisputesFollowSessions ==
  \A t \in DisputedTxns :
    desk.disputes[t] = 0
    \/ desk.disputes[t] + Cardinality(Disputing(t)) <= Cardinality(Requesters)

DeskInv == SupportTypeOK /\ TicketFollowsLastCall /\ DisputesFollowSessions

LEMMA DisputingCounts ==
  ASSUME NEW t \in DisputedTxns
  PROVE  /\ IsFiniteSet(Disputing(t)) /\ Cardinality(Disputing(t)) \in Nat
         /\ Cardinality(Requesters) \in Nat
         /\ Cardinality(Disputing(t)) <= Cardinality(Requesters)
<1>1. Disputing(t) \subseteq Requesters
  BY DEF Disputing
<1> QED BY <1>1, RequestersAssumption, FS_Subset, FS_CardinalityType

\* Sessions only leave those that may add to a transaction's disputes.
LEMMA DisputingShrinks ==
  ASSUME DeskInv, NEW t \in DisputedTxns, desk'.disputes[t] = desk.disputes[t],
         desk.disputes[t] > 0 => Disputing(t)' \subseteq Disputing(t)
  PROVE  desk'.disputes[t] = 0
         \/ desk'.disputes[t] + Cardinality(Disputing(t)') <= Cardinality(Requesters)
<1> SUFFICES ASSUME desk.disputes[t] # 0
             PROVE  desk.disputes[t] + Cardinality(Disputing(t)') <= Cardinality(Requesters)
  OBVIOUS
<1>1. desk.disputes[t] \in Nat
  BY SupportAssumption DEF DeskInv, SupportTypeOK, Desks
<1>2. /\ Cardinality(Disputing(t)') <= Cardinality(Disputing(t))
      /\ Cardinality(Disputing(t)') \in Nat /\ Cardinality(Disputing(t)) \in Nat
  <2> DEFINE before == Disputing(t)
             after == Disputing(t)'
  <2>1. after \subseteq before /\ IsFiniteSet(before) /\ Cardinality(before) \in Nat
    BY <1>1, DisputingCounts
  <2> HIDE DEF before, after
  <2>2. Cardinality(after) <= Cardinality(before) /\ IsFiniteSet(after)
    BY <2>1, FS_Subset
  <2>3. Cardinality(after) \in Nat
    BY <2>2, FS_CardinalityType
  <2> QED BY <2>1, <2>2, <2>3 DEF before, after
<1>3. desk.disputes[t] + Cardinality(Disputing(t)) <= Cardinality(Requesters)
  BY DEF DeskInv, DisputesFollowSessions
<1>4. Cardinality(Requesters) \in Nat
  BY DisputingCounts
<1> QED BY <1>1, <1>2, <1>3, <1>4

\* The end of a session, with whatever became of the ticket.
LEMMA TicketDesk ==
  ASSUME DeskInv, NEW s \in Requesters, SupportEnd(s),
         NEW status \in TicketStatus \cup {"none"}, desk' = [desk EXCEPT !.ticket = status],
         lastCall' \in {"none", "message", "close", "status"}, talkedPast' \in BOOLEAN
  PROVE  SupportTypeOK' /\ DisputesFollowSessions'
<1>1. SupportTypeOK'
  BY DEF DeskInv, SupportTypeOK, SupportEnd, Desks
<1>2. /\ deskView' = [deskView EXCEPT ![s] = NoView]
      /\ \A t \in DisputedTxns : desk'.disputes[t] = desk.disputes[t]
  BY DEF DeskInv, SupportTypeOK, SupportEnd, Desks
<1>3. \A t \in DisputedTxns : Disputing(t)' \subseteq Disputing(t)
  BY <1>2 DEF DeskInv, SupportTypeOK, Disputing
<1> QED BY <1>1, <1>2, <1>3, DisputingShrinks DEF DisputesFollowSessions

LEMMA CommitDesk ==
  ASSUME DeskInv, NEW s \in Requesters, NEW status \in TicketStatus,
         NEW call \in {"message", "close", "status"},
         deskView[s] # NoView, TicketCommit(s, status, call),
         call = "close" => status = "CLOSED",
         call = "message" => status # "CLOSED"
  PROVE  DeskInv'
<1> DEFINE written == IF status # deskView[s].ticket THEN status ELSE desk.ticket
<1>1. /\ desk \in Desks /\ deskView[s] \in Desks /\ written \in TicketStatus \cup {"none"}
  BY DEF DeskInv, SupportTypeOK, Desks
<1>2. /\ desk' = [desk EXCEPT !.ticket = written] /\ SupportEnd(s)
      /\ lastCall' = call /\ talkedPast' = (desk.ticket # deskView[s].ticket)
  BY DEF TicketCommit
<1>3. desk'.ticket = written
  BY <1>1, <1>2 DEF Desks
<1>4. TicketFollowsLastCall'
  BY <1>2, <1>3 DEF TicketFollowsLastCall
<1> HIDE DEF written
<1> QED BY <1>1, <1>2, <1>4, TicketDesk DEF DeskInv

LEMMA DisputeDesk ==
  ASSUME DeskInv, NEW s \in Requesters, deskView[s] # NoView, NEW t \in DisputedTxns,
         create_dispute(s, t)
  PROVE  DeskInv'
<1>1. /\ desk.disputes[t] < MaxDisputes /\ deskView[s].disputes[t] = 0
      /\ desk' = [desk EXCEPT !.disputes[t] = @ + 1] /\ desk \in Desks
      /\ deskView' = [deskView EXCEPT ![s] = NoView] /\ UNCHANGED <<lastCall, talkedPast>>
      /\ deskView \in [Requesters -> Desks \cup {NoView}]
  BY DEF create_dispute, SupportEnd, DeskInv, SupportTypeOK
<1>2. /\ desk.disputes[t] \in Nat /\ desk'.disputes[t] = desk.disputes[t] + 1
      /\ desk'.disputes[t] \in 0..MaxDisputes /\ desk'.ticket = desk.ticket
      /\ \A u \in DisputedTxns \ {t} : desk'.disputes[u] = desk.disputes[u]
  BY <1>1, SupportAssumption DEF Desks
<1>3. desk' \in Desks
  BY <1>1, <1>2 DEF Desks
<1>4. SupportTypeOK' /\ TicketFollowsLastCall'
  BY <1>1, <1>2, <1>3 DEF DeskInv, SupportTypeOK, TicketFollowsLastCall
<1>5. \A u \in DisputedTxns : Disputing(u)' \subseteq Disputing(u)
  BY <1>1 DEF Disputing
<1>6. desk'.disputes[t] + Cardinality(Disputing(t)') <= Cardinality(Requesters)
  <2> DEFINE before == Disputing(t)
             after == Disputing(t)'
  <2>1. s \in before /\ after = before \ {s}
    BY <1>1 DEF Disputing
  <2>2. /\ IsFiniteSet(before) /\ Cardinality(before) \in Nat
        /\ Cardinality(before) <= Cardinality(Requesters)
        /\ Cardinality(Requesters) \in Nat
    BY DisputingCounts
  <2>3. desk.disputes[t] = 0 \/ desk.disputes[t] + Cardinality(before) <= Cardinality(Requesters)
    BY DEF DeskInv, DisputesFollowSessions
  <2> HIDE DEF before, after
  <2>4. Cardinality(after) = Cardinality(before) - 1
    BY <2>1, <2>2, FS_RemoveElement
  <2>5. desk'.disputes[t] + Cardinality(after) <= Cardinality(Requesters)
    BY <1>2, <2>2, <2>3, <2>4
  <2> QED BY <2>5 DEF after
<1>7. DisputesFollowSessions'
  <2>1. ASSUME NEW u \in DisputedTxns \ {t}
        PROVE  desk'.disputes[u] = 0
               \/ desk'.disputes[u] + Cardinality(Disputing(u)') <= Cardinality(Requesters)
    BY <1>2, <1>5, DisputingShrinks
  <2> QED BY <1>6, <2>1 DEF DisputesFollowSessions
<1> QED BY <1>4, <1>7 DEF DeskInv

LEMMA BeginDesk ==
  ASSUME DeskInv, NEW s \in Requesters, SupportBegin(s)
  PROVE  DeskInv'
<1>1. SupportTypeOK' /\ TicketFollowsLastCall'
  BY DEF SupportBegin, DeskInv, SupportTypeOK, TicketFollowsLastCall
<1>2. \A t \in DisputedTxns : desk.disputes[t] > 0 => Disputing(t)' \subseteq Disputing(t)
  BY SupportAssumption DEF SupportBegin, DeskInv, SupportTypeOK, Disputing
<1>3. DisputesFollowSessions'
  BY <1>2, DisputingShrinks DEF SupportBegin, DisputesFollowSessions
<1> QED BY <1>1, <1>3 DEF DeskInv

LEMMA NextDesk == DeskInv /\ [SupportNext]_deskVars => DeskInv'
<1> SUFFICES ASSUME DeskInv, [SupportNext]_deskVars PROVE DeskInv'
  OBVIOUS
<1> USE DEF TicketStatus
<1>1. CASE UNCHANGED deskVars
  BY <1>1 DEF deskVars, DeskInv, SupportTypeOK, TicketFollowsLastCall,
              DisputesFollowSessions, Disputing
<1>2. ASSUME NEW s \in Requesters, deskView[s] # NoView, SupportRollback(s) PROVE DeskInv'
  <2>1. desk' = [desk EXCEPT !.ticket = desk.ticket] /\ desk.ticket \in TicketStatus \cup {"none"}
    BY <1>2 DEF SupportRollback, DeskInv, SupportTypeOK, Desks
  <2>2. TicketFollowsLastCall'
    BY <1>2 DEF SupportRollback, DeskInv, TicketFollowsLastCall
  <2> QED BY <1>2, <2>1, <2>2, TicketDesk DEF SupportRollback, DeskInv, SupportTypeOK
<1>3. ASSUME NEW s \in Requesters, create_ticket(s) PROVE DeskInv'
  <2>1. desk'.ticket = "IN_PROGRESS"
    BY <1>3 DEF create_ticket, DeskInv, SupportTypeOK, Desks
  <2>2. TicketFollowsLastCall'
    BY <1>3, <2>1 DEF create_ticket, TicketFollowsLastCall
  <2> QED BY <1>3, <2>2, TicketDesk DEF create_ticket, DeskInv
<1>4. ASSUME NEW s \in Requesters, deskView[s] # NoView, add_message(s) PROVE DeskInv'
  <2> DEFINE status == IF deskView[s].ticket = "CLOSED" THEN "IN_PROGRESS"
                       ELSE deskView[s].ticket
  <2>1. status \in TicketStatus /\ status # "CLOSED" /\ TicketCommit(s, status, "message")
    BY <1>4 DEF add_message, Exists, DeskInv, SupportTypeOK, Desks
  <2> HIDE DEF status
  <2> QED BY <1>4, <2>1, CommitDesk
<1>5. ASSUME NEW s \in Requesters, deskView[s] # NoView, admin_reply(s) PROVE DeskInv'
  BY <1>5, CommitDesk DEF admin_reply
<1>6. ASSUME NEW s \in Requesters, deskView[s] # NoView,
             \/ close_ticket(s)
             \/ \E status \in TicketStatus : admin_update_status(s, status)
      PROVE  DeskInv'
  BY <1>6, CommitDesk DEF close_ticket, admin_update_status
<1> QED BY <1>1, <1>2, <1>3, <1>4, <1>5, <1>6, BeginDesk, DisputeDesk DEF SupportNext

LEMMA DeskInitInv == SupportInit => DeskInv
<1> SUFFICES ASSUME SupportInit PROVE DeskInv
  OBVIOUS
<1>1. [t \in DisputedTxns |-> 0] \in [DisputedTxns -> 0..MaxDisputes]
  BY SupportAssumption
<1>2. SupportTypeOK
  BY <1>1 DEF SupportInit, SupportTypeOK, Desks
<1> QED BY <1>2 DEF SupportInit, DeskInv, TicketFollowsLastCall, DisputesFollowSessions

\* support_service.py: a message never rests on a closed ticket and a close
\* that came last closes, unless it was decided on an outdated status; and a
\* transaction has no more disputes than there are sessions to overlap.
THEOREM DeskIsFollowed == SupportSpec => []DeskFollowsCalls
<1>1. ASSUME DeskInv PROVE DeskFollowsCalls
  <2>1. ASSUME NEW t \in DisputedTxns PROVE desk.disputes[t] <= Cardinality(Requesters)
    <3>1. desk.disputes[t] \in Nat
      BY <1>1, SupportAssumption DEF DeskInv, SupportTypeOK, Desks
    <3> QED BY <1>1, <3>1, DisputingCounts DEF DeskInv, DisputesFollowSessions
  <2> QED BY <1>1, <2>1 DEF DeskFollowsCalls, DisputesBounded, DeskInv
<1> QED BY <1>1, DeskInitInv, NextDesk, PTL DEF SupportSpec

\* The ticket, the disputes and the views of them keep to their values.
THEOREM SupportTypeCorrect == SupportSpec => []SupportTypeOK
<1>1. DeskInv => SupportTypeOK
  BY DEF DeskInv
<1> QED BY <1>1, DeskInitInv, NextDesk, PTL DEF SupportSpec
-----------------------------------------------------------------------------
(* Catalogue.                                                              *)

Merged(new, old, row) == IF new # old THEN new ELSE row

LEMMA MergedProvider ==
  ASSUME NEW old \in Provider, NEW new \in Provider, NEW row \in Provider
  PROVE  LET merged == MergeRow(old, new, row)
         IN /\ merged \in Provider
            /\ merged.made = Merged(new.made, old.made, row.made)
            /\ old = row => merged = new
<1> DEFINE column(c) == IF new[c] # old[c] THEN new[c] ELSE row[c]
           columns == {"made", "integration_mode", "base_url", "target_label", "phone_label"}
<1>1. /\ DOMAIN row = columns
      /\ column("made") \in BOOLEAN /\ column("integration_mode") \in {"MOCK", "HTTP"}
      /\ column("base_url") \in BOOLEAN
      /\ column("target_label") \in Labels /\ column("phone_label") \in Labels
  BY DEF Provider
<1>2. MergeRow(old, new, row) = [c \in columns |-> column(c)]
  BY <1>1 DEF MergeRow
<1>3. column("made") = Merged(new.made, old.made, row.made)
  BY DEF Merged
<1>4. old = row => [c \in columns |-> column(c)] = new
  BY DEF Provider
<1> HIDE DEF column
<1>5. MergeRow(old, new, row) =
        [made |-> column("made"), integration_mode |-> column("integration_mode"),
         base_url |-> column("base_url"), target_label |-> column("target_label"),
         phone_label |-> column("phone_label")]
  BY <1>2
<1> QED BY <1>1, <1>2, <1>3, <1>4, <1>5 DEF Provider

LEMMA MergedFlag ==
  ASSUME NEW old \in Flag, NEW new \in Flag, NEW row \in Flag
  PROVE  LET merged == MergeRow(old, new, row)
         IN /\ merged \in Flag
            /\ merged.made = Merged(new.made, old.made, row.made)
<1> DEFINE column(c) == IF new[c] # old[c] THEN new[c] ELSE row[c]
<1>1. /\ DOMAIN row = {"made", "enabled"}
      /\ column("made") \in BOOLEAN /\ column("enabled") \in BOOLEAN
  BY DEF Flag
<1>2. MergeRow(old, new, row) = [c \in {"made", "enabled"} |-> column(c)]
  BY <1>1 DEF MergeRow
<1>3. column("made") = Merged(new.made, old.made, row.made)
  BY DEF Merged
<1> HIDE DEF column
<1>4. MergeRow(old, new, row) = [made |-> column("made"), enabled |-> column("enabled")]
  BY <1>2
<1> QED BY <1>1, <1>3, <1>4 DEF Flag

LEMMA MergedRule ==
  ASSUME NEW old \in Rules, NEW new \in Rules, NEW row \in Rules
  PROVE  LET merged == MergeRow(old, new, row)
         IN /\ merged \in Rules
            /\ merged.fee_type = Merged(new.fee_type, old.fee_type, row.fee_type)
            /\ old = row => merged = new
            /\ new = old => merged = row
<1> DEFINE column(c) == IF new[c] # old[c] THEN new[c] ELSE row[c]
           columns == {"fee_type", "config", "active"}
<1>1. /\ DOMAIN row = columns
      /\ column("fee_type") \in FeeTypes \cup {"none"}
      /\ column("config") \in AllConfigs \cup {[fee |-> 0]} /\ column("active") \in BOOLEAN
  BY DEF Rules
<1>2. MergeRow(old, new, row) = [c \in columns |-> column(c)]
  BY <1>1 DEF MergeRow
<1>3. column("fee_type") = Merged(new.fee_type, old.fee_type, row.fee_type)
  BY DEF Merged
<1>4. /\ old = row => [c \in columns |-> column(c)] = new
      /\ new = old => [c \in columns |-> column(c)] = row
  BY DEF Rules
<1> HIDE DEF column
<1>5. MergeRow(old, new, row) =
        [fee_type |-> column("fee_type"), config |-> column("config"),
         active |-> column("active")]
  BY <1>2
<1> QED BY <1>1, <1>2, <1>3, <1>4, <1>5 DEF Rules

LEMMA MergedCatalogue ==
  ASSUME NEW old \in Catalogues, NEW new \in Catalogues, NEW rows \in Catalogues
  PROVE  LET merged == MergeTable(old, new, rows)
         IN /\ merged \in Catalogues
            /\ merged.provider = MergeRow(old.provider, new.provider, rows.provider)
            /\ merged.flag = MergeRow(old.flag, new.flag, rows.flag)
            /\ merged.rule = MergeRow(old.rule, new.rule, rows.rule)
<1> DEFINE row(id) == MergeRow(old[id], new[id], rows[id])
<1>1. DOMAIN rows = {"provider", "flag", "rule"}
  BY DEF Catalogues
<1>2. MergeTable(old, new, rows) = [id \in {"provider", "flag", "rule"} |-> row(id)]
  BY <1>1 DEF MergeTable
<1>3. row("provider") \in Provider /\ row("flag") \in Flag /\ row("rule") \in Rules
  BY MergedProvider, MergedFlag, MergedRule DEF Catalogues
<1>4. /\ row("provider") = MergeRow(old.provider, new.provider, rows.provider)
      /\ row("flag") = MergeRow(old.flag, new.flag, rows.flag)
      /\ row("rule") = MergeRow(old.rule, new.rule, rows.rule)
  OBVIOUS
<1> HIDE DEF row
<1>5. MergeTable(old, new, rows) =
        [provider |-> row("provider"), flag |-> row("flag"), rule |-> row("rule")]
  BY <1>2
<1> QED BY <1>3, <1>4, <1>5 DEF Catalogues
-----------------------------------------------------------------------------
Typed(c) == c.rule # NoRule => c.rule.fee_type \in FeeTypes

\* What a session has seen made is still there.
Behind(v, c) ==
  /\ v.flag.made => c.flag.made
  /\ v.rule # NoRule => c.rule # NoRule

CatalogueInv ==
  /\ CatalogueTypeOK /\ CatalogueFitsTogether /\ Typed(catalogue)
  /\ \A s \in Requesters : catalogueView[s] # NoView =>
       Behind(catalogueView[s], catalogue) /\ Typed(catalogueView[s])

Consistent(provider) == provider.phone_label = provider.target_label /\ HasUrl(provider)
Fits(rule) == rule # NoRule => rule.config \in FeeConfigs[rule.fee_type]

\* The rows a handler commits, compared with those it read.
LEMMA CommitCatalogue ==
  ASSUME CatalogueInv, NEW s \in Requesters, catalogueView[s] # NoView,
         NEW new \in Catalogues, CatalogueCommit(s, new),
         catalogueView[s].flag.made => new.flag.made,
         \/ new.provider = catalogueView[s].provider
         \/ new.flag.made /\ new.rule # NoRule /\ Consistent(new.provider),
         \/ new.rule = catalogueView[s].rule
         \/ new.rule.fee_type \in FeeTypes /\ Fits(new.rule)
  PROVE  CatalogueInv'
<1> DEFINE v == catalogueView[s]
<1>1. /\ v \in Catalogues /\ catalogue \in Catalogues
      /\ Behind(v, catalogue) /\ Typed(v) /\ Typed(catalogue)
      /\ v.flag \in Flag /\ new.flag \in Flag /\ catalogue.flag \in Flag
      /\ v.provider \in Provider /\ new.provider \in Provider /\ catalogue.provider \in Provider
      /\ v.rule \in Rules /\ new.rule \in Rules /\ catalogue.rule \in Rules
  BY DEF CatalogueInv, CatalogueTypeOK, Catalogues
<1>2. /\ catalogue' \in Catalogues
      /\ catalogue'.provider = MergeRow(v.provider, new.provider, catalogue.provider)
      /\ catalogue'.flag = MergeRow(v.flag, new.flag, catalogue.flag)
      /\ catalogue'.rule = MergeRow(v.rule, new.rule, catalogue.rule)
  BY <1>1, MergedCatalogue DEF CatalogueCommit
<1>3. /\ catalogueView' = [catalogueView EXCEPT ![s] = NoView]
      /\ catalogueLate \subseteq catalogueLate' /\ catalogueLate' \subseteq {"provider", "flag", "rule"}
      /\ "provider" \notin catalogueLate' => v.provider = catalogue.provider
      /\ "rule" \notin catalogueLate' => v.rule = catalogue.rule
  <2>1. DOMAIN v = {"provider", "flag", "rule"}
    BY <1>1 DEF Catalogues
  <2>2. catalogueLate' = catalogueLate \cup {row \in DOMAIN v : v[row] # catalogue[row]}
    BY DEF CatalogueCommit
  <2> QED BY <2>1, <2>2 DEF CatalogueCommit, CatalogueEnd, CatalogueInv, CatalogueTypeOK
<1> HIDE DEF v
<1>4. CatalogueTypeOK'
  BY <1>2, <1>3 DEF CatalogueInv, CatalogueTypeOK
<1>5. /\ new.flag.made => catalogue'.flag.made
      /\ catalogue.flag.made => catalogue'.flag.made
  <2>1. catalogue'.flag.made = Merged(new.flag.made, v.flag.made, catalogue.flag.made)
    BY <1>1, <1>2, MergedFlag
  <2> QED BY <1>1, <2>1 DEF Merged, Behind, Flag, v
<1>6. /\ catalogue'.rule.fee_type = Merged(new.rule.fee_type, v.rule.fee_type,
                                           catalogue.rule.fee_type)
      /\ v.rule = catalogue.rule => catalogue'.rule = new.rule
      /\ new.rule = v.rule => catalogue'.rule = catalogue.rule
  BY <1>1, <1>2, MergedRule
<1>7. NoRule.fee_type = "none" /\ "none" \notin FeeTypes
  BY DEF NoRule, FeeTypes
<1>8. new.rule # v.rule => catalogue'.rule.fee_type \in FeeTypes
  BY <1>1, <1>6, <1>7 DEF Merged, Behind, Typed, v
<1>9. /\ Typed(catalogue')
      /\ new.rule # NoRule => catalogue'.rule # NoRule
      /\ catalogue.rule # NoRule => catalogue'.rule # NoRule
  BY <1>1, <1>6, <1>7, <1>8 DEF Behind, Typed
<1>10. \A q \in Requesters : catalogueView'[q] # NoView =>
         Behind(catalogueView'[q], catalogue') /\ Typed(catalogueView'[q])
  BY <1>3, <1>5, <1>9 DEF CatalogueInv, CatalogueTypeOK, Behind
<1>11. ProviderIsConsistent'
  <2> SUFFICES ASSUME "provider" \notin catalogueLate' PROVE Consistent(catalogue'.provider)
    BY DEF ProviderIsConsistent, Consistent
  <2>1. Consistent(catalogue.provider) /\ v.provider = catalogue.provider
    BY <1>3 DEF CatalogueInv, CatalogueFitsTogether, ProviderIsConsistent, Consistent
  <2>2. catalogue'.provider = new.provider
    BY <1>1, <1>2, <2>1, MergedProvider
  <2> QED BY <2>1, <2>2 DEF v
<1>12. CategoryIsServed'
  <2>1. catalogue'.provider.made = Merged(new.provider.made, v.provider.made,
                                          catalogue.provider.made)
    BY <1>1, <1>2, MergedProvider
  <2>2. CASE new.provider = v.provider
    BY <1>5, <1>9, <2>1, <2>2 DEF Merged, CatalogueInv, CatalogueFitsTogether, CategoryIsServed
  <2>3. CASE new.flag.made /\ new.rule # NoRule
    BY <1>5, <1>9, <2>3 DEF CategoryIsServed
  <2> QED BY <2>2, <2>3 DEF v
<1>13. RuleFitsType'
  <2> SUFFICES ASSUME "rule" \notin catalogueLate' PROVE Fits(catalogue'.rule)
    BY DEF RuleFitsType, Fits
  <2>1. Fits(catalogue.rule) /\ catalogue'.rule = new.rule /\ v.rule = catalogue.rule
    BY <1>3, <1>6 DEF CatalogueInv, CatalogueFitsTogether, RuleFitsType, Fits
  <2> QED BY <2>1 DEF v
<1> QED BY <1>4, <1>9, <1>10, <1>11, <1>12, <1>13 DEF CatalogueInv, CatalogueFitsTogether

\* ensure_category_service gives the category what it lacks.
LEMMA CategoryEnsured ==
  ASSUME NEW v \in Catalogues, NEW provider \in Provider
  PROVE  LET new == ensure_category_service([v EXCEPT !.provider = provider])
         IN /\ new \in Catalogues /\ new.provider = provider
            /\ new.flag.made /\ new.rule # NoRule
            /\ new.rule = v.rule \/ (new.rule.fee_type \in FeeTypes /\ Fits(new.rule))
<1>1. /\ FlatZero # NoRule /\ FlatZero \in Rules /\ FlatZero.fee_type \in FeeTypes
      /\ Fits(FlatZero)
  BY CatalogueAssumption DEF FlatZero, NoRule, Rules, FeeTypes, Fits
<1>2. [made |-> TRUE, enabled |-> TRUE] \in Flag
  BY DEF Flag
<1> QED BY <1>1, <1>2 DEF ensure_category_service, Catalogues, Flag

LEMMA ProviderCatalogue ==
  ASSUME CatalogueInv, NEW s \in Requesters, catalogueView[s] # NoView,
         NEW mode \in {"MOCK", "HTTP"}, NEW url \in BOOLEAN, NEW label \in Labels,
         create_provider(s, mode, url, label) \/ update_provider(s, mode, url, label)
  PROVE  CatalogueInv'
<1> DEFINE v == catalogueView[s]
<1>1. v \in Catalogues /\ v.provider \in Provider
  BY DEF CatalogueInv, CatalogueTypeOK, Catalogues
<1>2. PICK provider \in Provider :
        /\ Consistent(provider)
        /\ CatalogueCommit(s, ensure_category_service([v EXCEPT !.provider = provider]))
  <2>1. CASE create_provider(s, mode, url, label)
    <3> DEFINE provider == [made |-> TRUE, integration_mode |-> mode, base_url |-> url,
                            target_label |-> label, phone_label |-> label]
    <3>1. provider \in Provider /\ provider.phone_label = provider.target_label
      BY DEF Provider
    <3> QED BY <2>1, <3>1 DEF create_provider, Consistent
  <2>2. CASE update_provider(s, mode, url, label)
    <3> DEFINE provider == [v.provider EXCEPT !.integration_mode = mode, !.base_url = url,
                              !.target_label = label, !.phone_label = label]
    <3>1. provider \in Provider /\ provider.phone_label = provider.target_label
      BY <1>1 DEF Provider
    <3> QED BY <2>2, <3>1 DEF update_provider, Consistent
  <2> QED BY <2>1, <2>2
<1> DEFINE new == ensure_category_service([v EXCEPT !.provider = provider])
<1>3. /\ new \in Catalogues /\ new.provider = provider
      /\ new.flag.made /\ new.rule # NoRule
      /\ new.rule = v.rule \/ (new.rule.fee_type \in FeeTypes /\ Fits(new.rule))
  BY <1>1, CategoryEnsured
<1>4. CatalogueCommit(s, new)
  BY <1>2
<1> HIDE DEF new
<1> QED BY <1>2, <1>3, <1>4, CommitCatalogue

LEMMA EditCatalogue ==
  ASSUME CatalogueInv, NEW s \in Requesters, catalogueView[s] # NoView,
         \/ \E enabled \in BOOLEAN : update_service(s, enabled)
         \/ \E type \in FeeTypes, active \in BOOLEAN : \E config \in FeeConfigs[type] :
              update_fee(s, type, config, active)
  PROVE  CatalogueInv'
<1> DEFINE v == catalogueView[s]
<1>1. v \in Catalogues /\ v.flag \in Flag
  BY DEF CatalogueInv, CatalogueTypeOK, Catalogues
<1>2. CASE \E enabled \in BOOLEAN : update_service(s, enabled)
  <2>1. PICK enabled \in BOOLEAN : CatalogueCommit(s, [v EXCEPT !.flag.enabled = enabled])
    BY <1>2 DEF update_service
  <2> DEFINE new == [v EXCEPT !.flag.enabled = enabled]
  <2>2. /\ new \in Catalogues /\ new.provider = v.provider /\ new.rule = v.rule
        /\ new.flag.made = v.flag.made
    BY <1>1 DEF Catalogues, Flag
  <2>3. CatalogueCommit(s, new)
    BY <2>1
  <2> HIDE DEF new
  <2> QED BY <2>2, <2>3, CommitCatalogue
<1>3. ASSUME NEW type \in FeeTypes, NEW active \in BOOLEAN, NEW config \in FeeConfigs[type],
             update_fee(s, type, config, active)
      PROVE  CatalogueInv'
  <2> DEFINE rule == [fee_type |-> type, config |-> config, active |-> active]
             new == [v EXCEPT !.rule = rule]
  <2>1. rule \in Rules /\ rule.fee_type \in FeeTypes /\ Fits(rule)
    BY DEF Rules, Fits, AllConfigs
  <2>2. CatalogueCommit(s, new)
    BY <1>3 DEF update_fee
  <2> HIDE DEF rule
  <2>3. /\ new \in Catalogues /\ new.provider = v.provider /\ new.flag = v.flag
        /\ new.rule = rule
    BY <1>1, <2>1 DEF Catalogues
  <2> HIDE DEF new
  <2> QED BY <2>1, <2>2, <2>3, CommitCatalogue
<1> QED BY <1>2, <1>3

LEMMA CatalogueInitInv == CatalogueInit => CatalogueInv
<1> SUFFICES ASSUME CatalogueInit PROVE CatalogueInv
  OBVIOUS
<1>1. PICK label \in Labels :
        catalogue = [provider |-> [made |-> FALSE, integration_mode |-> "MOCK",
                                   base_url |-> FALSE,
                                   target_label |-> label, phone_label |-> label],
                     flag |-> [made |-> FALSE, enabled |-> FALSE],
                     rule |-> NoRule]
  BY DEF CatalogueInit
<1>2. catalogue \in Catalogues
  BY <1>1 DEF Catalogues, Provider, Flag, Rules, NoRule
<1>3. CatalogueTypeOK
  BY <1>2 DEF CatalogueInit, CatalogueTypeOK
<1>4. CatalogueFitsTogether /\ Typed(catalogue)
  BY <1>1 DEF CatalogueFitsTogether, ProviderIsConsistent, HasUrl, CategoryIsServed,
              RuleFitsType, Typed
<1> QED BY <1>3, <1>4 DEF CatalogueInit, CatalogueInv

LEMMA CatalogueNextInv == CatalogueInv /\ [CatalogueNext]_catalogueVars => CatalogueInv'
<1> SUFFICES ASSUME CatalogueInv, [CatalogueNext]_catalogueVars PROVE CatalogueInv'
  OBVIOUS
<1>1. ASSUME NEW s \in Requesters, CatalogueBegin(s) PROVE CatalogueInv'
  <2>1. /\ catalogueView' = [catalogueView EXCEPT ![s] = catalogue]
        /\ UNCHANGED <<catalogue, catalogueLate>>
    BY <1>1 DEF CatalogueBegin
  <2>2. CatalogueTypeOK' /\ CatalogueFitsTogether'
    BY <2>1 DEF CatalogueInv, CatalogueTypeOK, CatalogueFitsTogether, ProviderIsConsistent,
                CategoryIsServed, RuleFitsType
  <2>3. Behind(catalogue, catalogue)
    BY DEF Behind
  <2> QED BY <2>1, <2>2, <2>3 DEF CatalogueInv, CatalogueTypeOK
<1>2. ASSUME NEW s \in Requesters, CatalogueRollback(s) PROVE CatalogueInv'
  <2>1. /\ catalogueView' = [catalogueView EXCEPT ![s] = NoView]
        /\ UNCHANGED <<catalogue, catalogueLate>>
    BY <1>2 DEF CatalogueRollback, CatalogueEnd
  <2>2. CatalogueTypeOK' /\ CatalogueFitsTogether'
    BY <2>1 DEF CatalogueInv, CatalogueTypeOK, CatalogueFitsTogether, ProviderIsConsistent,
                CategoryIsServed, RuleFitsType
  <2> QED BY <2>1, <2>2 DEF CatalogueInv, CatalogueTypeOK
<1>3. CASE UNCHANGED catalogueVars
  BY <1>3 DEF catalogueVars, CatalogueInv, CatalogueTypeOK, CatalogueFitsTogether,
              ProviderIsConsistent, CategoryIsServed, RuleFitsType
<1> QED BY <1>1, <1>2, <1>3, ProviderCatalogue, EditCatalogue DEF CatalogueNext

\* catalog_service.py, fee_service.py: however administrators overlap, a
\* provider's category has its flag and a fee rule; and the columns of a row
\* fit together as long as nobody has written it by an outdated reading.
THEOREM CatalogueFits == CatalogueSpec => []CatalogueFitsTogether
<1>1. CatalogueInv => CatalogueFitsTogether
  BY DEF CatalogueInv
<1> QED BY <1>1, CatalogueInitInv, CatalogueNextInv, PTL DEF CatalogueSpec

\* Provider, flag, rule and the views of them keep to their values.
THEOREM CatalogueTypeCorrect == CatalogueSpec => []CatalogueTypeOK
<1>1. CatalogueInv => CatalogueTypeOK
  BY DEF CatalogueInv
<1> QED BY <1>1, CatalogueInitInv, CatalogueNextInv, PTL DEF CatalogueSpec
-----------------------------------------------------------------------------
(* The fee shown and the fee charged.                                      *)

\* The parts of a division.
LEMMA Quotients ==
  ASSUME NEW n \in Int, NEW d \in Nat \ {0}
  PROVE  /\ n \div d \in Int /\ d * (n \div d) <= n /\ n < d * (n \div d) + d
         /\ n % d \in 0..(d - 1) /\ n % d = n - d * (n \div d)
<1>1. n \div d \in Int /\ d * (n \div d) <= n /\ n < d * (n \div d) + d
  OBVIOUS
<1>2. n % d = n - d * (n \div d)
  BY SMTT(30)
<1>3. n % d \in 0..(d - 1)
  OBVIOUS
<1> QED BY <1>1, <1>2, <1>3

LEMMA QuotientIs ==
  ASSUME NEW n \in Int, NEW d \in Nat \ {0}, NEW q \in Int, d * q <= n, n < d * q + d
  PROVE  n \div d = q
OBVIOUS

LEMMA Rounding ==
  ASSUME NEW n \in Int, NEW d \in Nat \ {0}
  PROVE  /\ round(n, d) \in Int /\ MathRound(n, d) \in Int
         /\ \/ MathRound(n, d) = round(n, d)
            \/ 2 * (n % d) = d /\ MathRound(n, d) = round(n, d) + 1
         /\ n >= 0 => round(n, d) >= 0 /\ MathRound(n, d) >= 0
<1> DEFINE q == n \div d
           r == n % d
           m == 2 * n + d
           e == 2 * d
<1>1. q \in Int /\ r \in 0..(d - 1) /\ d * q \in Int /\ r = n - d * q
  BY Quotients
<1>2. m \in Int /\ e \in Nat \ {0}
  OBVIOUS
<1>3. m \div e \in Int /\ (m >= 0 => m \div e >= 0)
  BY <1>2
<1>4. n >= 0 => q >= 0 /\ m >= 0
  OBVIOUS
<1>5. q % 2 \in {0, 1}
  BY <1>1
<1>6. MathRound(n, d) = m \div e
  BY DEF MathRound
<1>7. round(n, d) = IF 2 * r = d THEN q + (q % 2) ELSE m \div e
  BY Zenon DEF round
<1>9. 2 * (n % d) = d <=> 2 * r = d
  OBVIOUS
<1> HIDE DEF q, r
<1>8. 2 * r = d => m \div e = q + 1
  <2> SUFFICES ASSUME 2 * r = d PROVE m \div e = q + 1
    OBVIOUS
  <2>1. n = d * q + r /\ d = 2 * r /\ e = 2 * d
    BY <1>1
  <2>2. m = 2 * (d * q) + e
    BY <1>1, <2>1
  <2>3. e * (q + 1) = 2 * (d * q) + e
    BY <1>1, <2>1
  <2> HIDE DEF m, e
  <2> QED BY <1>1, <1>2, <2>2, <2>3, QuotientIs
<1> HIDE DEF m, e
<1> QED
  <2> DEFINE rounded == m \div e
             half == q + (q % 2)
  <2>1. rounded \in Int /\ half \in {q, q + 1} /\ (n >= 0 => rounded >= 0 /\ half >= 0)
    BY <1>1, <1>3, <1>4, <1>5
  <2>2. MathRound(n, d) = rounded /\ round(n, d) = IF 2 * r = d THEN half ELSE rounded
    BY <1>6, <1>7
  <2>3. 2 * r = d => rounded = q + 1
    BY <1>8
  <2> HIDE DEF rounded, half
  <2> QED BY <1>1, <1>9, <2>1, <2>2, <2>3

\* What is in whole units, and what int makes of a number.
InUnits(x) == x \in Int /\ x = int(x)

LEMMA IntDrops ==
  /\ \A x \in Int : /\ InUnits(int(x))
                    /\ 0 <= x => 0 <= int(x) /\ int(x) <= x /\ x < int(x) + Parts
                    /\ x <= 0 => x <= int(x) /\ int(x) <= 0
  /\ \A x, y \in Int : x <= y => int(x) <= int(y)
  /\ \A n \in Int : InUnits(Parts * n)
<1>1. Parts \in Nat \ {0}
  BY ConfigAssumption
<1>2. ASSUME NEW x \in Int
      PROVE  /\ int(x) \in Int
             /\ 0 <= x => 0 <= int(x) /\ int(x) <= x /\ x < int(x) + Parts
             /\ x <= 0 => x <= int(x) /\ int(x) <= 0
  BY <1>1, Quotients DEF int
<1>3. ASSUME NEW n \in Int PROVE int(Parts * n) = Parts * n
  <2>1. ASSUME NEW k \in Int PROVE (Parts * k) \div Parts = k
    BY <1>1, <2>1, QuotientIs
  <2>2. -(Parts * n) = Parts * (-n) /\ -n \in Int
    BY <1>1
  <2>3. Parts * n < 0 => int(Parts * n) = Parts * (-(-n))
    BY <1>1, <2>1, <2>2 DEF int
  <2>4. ~(Parts * n < 0) => int(Parts * n) = Parts * n
    BY <1>1, <2>1 DEF int
  <2> QED BY <1>1, <2>3, <2>4
<1>4. ASSUME NEW x \in Int PROVE \E n \in Int : int(x) = Parts * n
  <2>1. x \div Parts \in Int /\ -((-x) \div Parts) \in Int
    BY <1>1
  <2> QED BY <2>1 DEF int
<1>5. ASSUME NEW x \in Int, NEW y \in Int, x <= y PROVE int(x) <= int(y)
  <2>1. PICK n \in Int : int(x) = Parts * n
    BY <1>4
  <2>2. PICK k \in Int : int(y) = Parts * k
    BY <1>4
  <2>3. Parts * n < Parts * k + Parts => n < k + 1
    BY <1>1
  <2>4. n <= k => Parts * n <= Parts * k
    BY <1>1
  <2>5. CASE 0 <= x
    BY <1>1, <1>2, <1>5, <2>1, <2>2, <2>3, <2>4, <2>5
  <2>6. CASE x < 0 /\ 0 <= y
    BY <1>2, <1>5, <2>6
  <2>7. CASE y < 0
    <3>1. (-y) \div Parts \in Int /\ (-x) \div Parts \in Int
          /\ (-y) \div Parts <= (-x) \div Parts
      BY <1>1, <1>5
    <3>2. Parts * (-((-x) \div Parts)) <= Parts * (-((-y) \div Parts))
      BY <1>1, <3>1
    <3> QED BY <1>5, <2>7, <3>2 DEF int
  <2> QED BY <2>5, <2>6, <2>7
<1>6. \A x \in Int : InUnits(int(x))
  <2> SUFFICES ASSUME NEW x \in Int PROVE InUnits(int(x))
    OBVIOUS
  <2>1. PICK n \in Int : int(x) = Parts * n
    BY <1>4
  <2> QED BY <1>2, <1>3, <2>1 DEF InUnits
<1>7. ASSUME NEW n \in Int PROVE InUnits(Parts * n)
  <2>1. Parts * n \in Int
    BY <1>1
  <2>2. int(Parts * n) = Parts * n
    BY <1>3, Zenon
  <2> QED BY <2>1, <2>2, Zenon DEF InUnits
<1> QED BY <1>2, <1>5, <1>6, <1>7

\* Whole units apart are a unit apart.
LEMMA UnitsApart ==
  ASSUME NEW x, NEW y, InUnits(x), InUnits(y), x < y
  PROVE  x + Parts <= y
<1>1. Parts \in Nat \ {0}
  BY ConfigAssumption
<1>2. PICK n \in Int : x = Parts * n
  <2>1. x \in Int /\ x = int(x) /\ x \div Parts \in Int /\ -((-x) \div Parts) \in Int
    BY <1>1 DEF InUnits
  <2> QED BY <2>1 DEF int
<1>3. PICK k \in Int : y = Parts * k
  <2>1. y \in Int /\ y = int(y) /\ y \div Parts \in Int /\ -((-y) \div Parts) \in Int
    BY <1>1 DEF InUnits
  <2> QED BY <2>1 DEF int
<1> QED BY <1>1, <1>2, <1>3

\* Bounds keep neighbours together, and int passes through them.
LEMMA BoundedNeighbours ==
  ASSUME NEW min \in Int \cup {NoBound}, NEW max \in Int \cup {NoBound},
         NEW a, InUnits(a), a >= 0,
         NEW b, InUnits(b), b \in {a, a + Parts}
  PROVE  LET charged == NotNegative(Bounded(a, Field(min, "server"), Field(max, "server")))
             shown == NotNegative(Bounded(b, min, max))
         IN int(shown) = charged \/ (b # a /\ int(shown) = charged + Parts)
<1>1. Parts \in Nat \ {0} /\ NoBound \notin Int /\ a \in Int /\ b \in Int
  BY ConfigAssumption DEF InUnits
<1>2. ASSUME NEW x \in Int, NEW y, InUnits(y)
      PROVE  /\ y \in Int /\ int(y) = y /\ int(x) \in Int
             /\ x <= 0 => int(x) <= 0
             /\ x >= 0 => 0 <= int(x) /\ int(x) <= x /\ x < int(x) + Parts
             /\ y < int(x) => y + Parts <= int(x)
             /\ int(x) < y => int(x) + Parts <= y
             /\ x <= y => int(x) <= y
             /\ y <= x => y <= int(x)
  <2>1. /\ InUnits(int(x)) /\ y \in Int /\ int(y) = y
        /\ x >= 0 => 0 <= int(x) /\ int(x) <= x /\ x < int(x) + Parts
        /\ x <= 0 => int(x) <= 0
    BY <1>2, IntDrops DEF InUnits
  <2>2. /\ y < int(x) => y + Parts <= int(x)
        /\ int(x) < y => int(x) + Parts <= y
    BY <1>2, <2>1, UnitsApart
  <2>3. (x <= y => int(x) <= int(y)) /\ (y <= x => int(y) <= int(x))
    BY <2>1, IntDrops
  <2> QED BY <2>1, <2>2, <2>3 DEF InUnits
<1>3. InUnits(0) /\ Parts > 0
  <2>1. Parts * 0 = 0 /\ Parts > 0
    BY <1>1
  <2>2. InUnits(Parts * 0)
    BY IntDrops
  <2> QED BY <2>1, <2>2
<1> DEFINE shown == IF min # NoBound /\ b < min THEN min ELSE b
           low == Field(min, "server")
           charged == IF low # NoBound /\ a < low THEN low ELSE a
           Near(x, y) == \/ int(x) = y
                         \/ b # a /\ x = y + Parts /\ InUnits(x)
<1>4. shown \in Int /\ shown >= 0 /\ InUnits(charged) /\ charged >= 0 /\ Near(shown, charged)
  <2>1. CASE min = NoBound
    BY <1>1, <1>2, <2>1 DEF Field, InUnits
  <2>2. CASE min # NoBound
    <3>1. min \in Int /\ InUnits(int(min)) /\ int(min) \in Int /\ low = int(min) /\ low # NoBound
      BY <1>1, <2>2, IntDrops DEF Field, InUnits
    <3>2. /\ min <= 0 => int(min) <= 0
          /\ min >= 0 => 0 <= int(min) /\ int(min) <= min /\ min < int(min) + Parts
          /\ a < int(min) => a + Parts <= int(min)
          /\ b <= min => b <= int(min)
          /\ min <= b => int(min) <= b
          /\ int(b) = b
      BY <1>2, <3>1
    <3> HIDE DEF low
    <3>3. CASE b = a
      BY <1>1, <2>2, <3>1, <3>2, <3>3
    <3>4. CASE b = a + Parts /\ a < int(min)
      BY <1>1, <1>3, <2>2, <3>1, <3>2, <3>4
    <3>5. CASE b = a + Parts /\ int(min) <= a
      BY <1>1, <1>3, <2>2, <3>1, <3>2, <3>5
    <3> QED BY <1>1, <3>1, <3>3, <3>4, <3>5
  <2> QED BY <2>1, <2>2
<1> HIDE DEF shown, charged, low
<1>5. LET high == Field(max, "server")
          paid == NotNegative(IF high # NoBound /\ charged > high THEN high ELSE charged)
          seen == NotNegative(IF max # NoBound /\ shown > max THEN max ELSE shown)
      IN int(seen) = paid \/ (b # a /\ int(seen) = paid + Parts)
  <2>1. charged \in Int /\ int(0) = 0 /\ (InUnits(shown) => int(shown) = shown)
    BY <1>3, <1>4 DEF InUnits
  <2>2. CASE max = NoBound
    BY <1>1, <1>4, <2>1, <2>2 DEF Field, NotNegative
  <2>3. CASE max # NoBound
    <3> DEFINE high == int(max)
               paid == NotNegative(IF charged > high THEN high ELSE charged)
               seen == NotNegative(IF shown > max THEN max ELSE shown)
    <3>1. max \in Int /\ InUnits(int(max)) /\ int(max) \in Int /\ Field(max, "server") = int(max)
          /\ int(max) # NoBound
      BY <1>1, <2>3, IntDrops DEF Field, InUnits
    <3>2. /\ max <= 0 => int(max) <= 0
          /\ max >= 0 => 0 <= int(max) /\ int(max) <= max /\ max < int(max) + Parts
          /\ charged < int(max) => charged + Parts <= int(max)
          /\ int(max) < charged => int(max) + Parts <= charged
      BY <1>2, <1>4, <3>1
    <3>3. (shown <= max => int(shown) <= int(max)) /\ (max <= shown => int(max) <= int(shown))
      BY <1>4, <3>1, IntDrops
    <3>4. ASSUME max < 0
          PROVE  int(seen) = paid
      <4>1. seen = 0 /\ paid = 0
        BY <1>4, <2>1, <3>1, <3>2, <3>4 DEF NotNegative
      <4> HIDE DEF seen, paid
      <4> QED BY <2>1, <4>1
    <3>5. ASSUME max >= 0
          PROVE  int(seen) = paid \/ (b # a /\ int(seen) = paid + Parts)
      <4>1. /\ seen = IF shown > max THEN max ELSE shown
            /\ paid = IF charged > high THEN high ELSE charged
        BY <1>4, <2>1, <3>1, <3>2, <3>5 DEF NotNegative
      <4> HIDE DEF seen, paid, high
      <4>2. CASE int(shown) = charged
        <5>1. /\ shown > max => high <= charged
              /\ ~(shown > max) => charged <= high
          BY <1>4, <3>1, <3>3, <4>2 DEF high
        <5>2. int(seen) = paid
          BY <1>4, <2>1, <3>1, <4>1, <4>2, <5>1 DEF high
        <5> QED BY <5>2
      <4>3. CASE b # a /\ shown = charged + Parts /\ InUnits(shown)
        <5>1. /\ shown > max => high <= charged
              /\ ~(shown > max) => charged < high
          BY <1>1, <1>3, <1>4, <2>1, <3>1, <3>2, <3>3, <3>5, <4>3 DEF high
        <5>2. shown > max => int(seen) = paid
          BY <1>4, <2>1, <3>1, <4>1, <5>1 DEF high
        <5>3. ~(shown > max) => int(seen) = paid + Parts
          BY <1>4, <2>1, <3>1, <4>1, <4>3, <5>1 DEF high
        <5> QED BY <4>3, <5>2, <5>3
      <4> QED BY <1>4, <4>2, <4>3
    <3>6. int(seen) = paid \/ (b # a /\ int(seen) = paid + Parts)
      <4> HIDE DEF seen, paid
      <4> QED BY <3>1, <3>4, <3>5
    <3> QED BY <2>3, <3>1, <3>6
  <2> QED BY <2>2, <2>3
<1> QED BY <1>5 DEF Bounded, shown, charged, low

LEMMA ElementOfSeq ==
  ASSUME NEW T, NEW s \in Seq(T), NEW i \in DOMAIN s
  PROVE  s[i] \in T
OBVIOUS

LEMMA FeesAgree ==
  ASSUME NEW rule \in Rules, NEW amount \in Nat \ {0}
  PROVE  LET shown == computeFee(rule, amount)
             charged == compute_fee(rule, amount)
         IN \/ charged = int(shown)
            \/ ComesToHalf(rule, amount) /\ charged = int(shown) - Parts
            \/ BeforeTier(rule, amount)
<1> DEFINE config == rule.config
<1>1. /\ rule \in [fee_type : FeeTypes \cup {"none"}, config : AllConfigs \cup {[fee |-> 0]},
                   active : BOOLEAN]
      /\ config \in AllConfigs /\ [fee |-> 0] \in FeeConfigs["FLAT"]
  BY CatalogueAssumption DEF Rules, AllConfigs, FeeTypes
<1>2. /\ "fee" \in DOMAIN config => config.fee \in Int
      /\ "percent" \in DOMAIN config =>
           config.percent \in Nat /\ {config.min_fee, config.max_fee} \subseteq Int \cup {NoBound}
      /\ "tiers" \in DOMAIN config =>
           config.tiers \in Seq([min : Int, max : Int \cup {NoBound}, fee : Int])
  <2> HIDE DEF config
  <2>1. PICK type \in FeeTypes : config \in FeeConfigs[type]
    BY <1>1 DEF AllConfigs
  <2> QED BY <2>1, ConfigAssumption, Zenon
<1>3. Parts \in Nat \ {0} /\ NoBound \notin Int
  BY ConfigAssumption
<1>4. ASSUME NEW x \in Int
      PROVE  NotNegative(Field(x, "server")) = int(NotNegative(Field(x, "client")))
  <2>1. Field(x, "server") = int(x) /\ Field(x, "client") = x
    BY <1>3 DEF Field
  <2>2. int(x) \in Int /\ (x >= 0 => int(x) >= 0) /\ (x <= 0 => int(x) <= 0)
    BY IntDrops DEF InUnits
  <2>3. int(0) = 0
    BY IntDrops DEF InUnits
  <2>4. CASE x < 0
    <3>1. NotNegative(int(x)) = 0 /\ NotNegative(x) = 0
      BY <2>2, <2>4 DEF NotNegative
    <3> QED BY <2>1, <2>3, <3>1
  <2>5. CASE x >= 0
    <3>1. NotNegative(int(x)) = int(x) /\ NotNegative(x) = x
      BY <2>2, <2>5 DEF NotNegative
    <3> QED BY <2>1, <3>1
  <2> QED BY <2>4, <2>5
<1> HIDE DEF config
<1>5. int(0) = 0
  BY IntDrops DEF InUnits
<1>6. CASE rule.active /\ rule.fee_type = "FLAT" /\ "fee" \in DOMAIN config
  <2>1. /\ compute_fee(rule, amount) = NotNegative(Field(config.fee, "server"))
        /\ computeFee(rule, amount) = NotNegative(Field(config.fee, "client"))
    BY <1>6 DEF computeFee, compute_fee, Fee, config
  <2> QED BY <1>2, <1>4, <1>6, <2>1
<1>7. CASE rule.active /\ rule.fee_type = "PERCENTAGE" /\ "percent" \in DOMAIN config
  <2> DEFINE n == amount * config.percent
             d == 100 * Parts
             a == Parts * round(n, d)
             b == Parts * MathRound(n, d)
             min == config.min_fee
             max == config.max_fee
  <2>1. min \in Int \cup {NoBound} /\ max \in Int \cup {NoBound} /\ n \in Nat /\ d \in Nat \ {0}
    BY <1>2, <1>3, <1>7
  <2>2. /\ compute_fee(rule, amount) =
             NotNegative(Bounded(a, Field(min, "server"), Field(max, "server")))
        /\ computeFee(rule, amount) =
             NotNegative(Bounded(b, Field(min, "client"), Field(max, "client")))
        /\ Field(min, "client") = min /\ Field(max, "client") = max
    BY <1>7 DEF computeFee, compute_fee, Fee, config, Field
  <2>3. ComesToHalf(rule, amount) <=> 2 * (n % d) = d
    BY <1>7 DEF ComesToHalf, config
  <2> HIDE DEF n, d, min, max
  <2>4. /\ round(n, d) \in Int /\ MathRound(n, d) \in Int /\ round(n, d) >= 0
        /\ MathRound(n, d) = round(n, d) \/ (2 * (n % d) = d /\ MathRound(n, d) = round(n, d) + 1)
    BY <2>1, Rounding
  <2>5. InUnits(a) /\ InUnits(b)
    BY <2>4, IntDrops
  <2>6. a >= 0 /\ (b = a \/ (2 * (n % d) = d /\ b = a + Parts))
    BY <1>3, <2>4
  <2> HIDE DEF a, b
  <2>7. LET charged == NotNegative(Bounded(a, Field(min, "server"), Field(max, "server")))
            shown == NotNegative(Bounded(b, min, max))
        IN int(shown) = charged \/ (b # a /\ int(shown) = charged + Parts)
    BY <2>1, <2>5, <2>6, BoundedNeighbours
  <2>8. compute_fee(rule, amount) \in Int
    <3>1. Field(min, "server") \in Int \cup {NoBound} /\ Field(max, "server") \in Int \cup {NoBound}
      BY <2>1, IntDrops DEF Field, InUnits
    <3>2. a \in Int
      BY <2>5 DEF InUnits
    <3> DEFINE bounded == Bounded(a, Field(min, "server"), Field(max, "server"))
    <3>3. bounded \in Int
      BY <3>1, <3>2 DEF Bounded
    <3> HIDE DEF bounded
    <3>4. NotNegative(bounded) \in Int
      BY <3>3 DEF NotNegative
    <3> QED BY <2>2, <3>4 DEF bounded
  <2>9. \/ int(computeFee(rule, amount)) = compute_fee(rule, amount)
        \/ b # a /\ int(computeFee(rule, amount)) = compute_fee(rule, amount) + Parts
    BY <2>2, <2>7
  <2> QED BY <1>3, <2>3, <2>6, <2>8, <2>9
<1>8. CASE rule.active /\ rule.fee_type = "TIERED" /\ "tiers" \in DOMAIN config
  <2> DEFINE tiers == config.tiers
             first(found) == CHOOSE i \in found : \A j \in found : i <= j
             found(side) == Matching(tiers, amount, side)
             fee(S, side) == IF S = {} THEN 0 ELSE NotNegative(Field(tiers[first(S)].fee, side))
  <2>1. /\ compute_fee(rule, amount) = fee(found("server"), "server")
        /\ computeFee(rule, amount) = fee(found("client"), "client")
    BY <1>8 DEF computeFee, compute_fee, Fee, config
  <2>2. \A i \in DOMAIN tiers : /\ tiers[i].min \in Int /\ tiers[i].fee \in Int
                               /\ tiers[i].max \in Int \cup {NoBound}
    <3>1. tiers \in Seq([min : Int, max : Int \cup {NoBound}, fee : Int])
      BY <1>2, <1>8
    <3> HIDE DEF tiers
    <3>2. \A i \in DOMAIN tiers : tiers[i] \in [min : Int, max : Int \cup {NoBound}, fee : Int]
      BY <3>1, ElementOfSeq
    <3> QED BY <3>2
  <2>3. InUnits(Parts * amount) /\ Parts * amount > 0
    <3>1. InUnits(Parts * amount)
      BY IntDrops
    <3>2. Parts * amount > 0
      BY <1>3
    <3> QED BY <3>1, <3>2
  <2>4. BeforeTier(rule, amount) <=>
          \E i \in DOMAIN tiers : /\ Parts * amount < tiers[i].min
                                 /\ tiers[i].min < Parts * amount + Parts
    BY <1>8 DEF BeforeTier, config
  <2>5. ASSUME ~BeforeTier(rule, amount)
        PROVE  found("server") = found("client")
    <3> DEFINE due == Parts * amount
    <3>1. ASSUME NEW x \in Int
          PROVE  /\ due <= x <=> due <= int(x)
                 /\ ~(due < x /\ x < due + Parts) => (x <= due <=> int(x) <= due)
      <4>1. /\ due \in Int /\ int(due) = due /\ due > 0 /\ int(x) \in Int
            /\ 0 <= x => 0 <= int(x) /\ int(x) <= x /\ x < int(x) + Parts
            /\ x <= 0 => int(x) <= 0
            /\ (x <= due => int(x) <= int(due)) /\ (due <= x => int(due) <= int(x))
        <5> HIDE DEF due
        <5> QED BY <2>3, IntDrops DEF due, InUnits
      <4> HIDE DEF due
      <4> QED BY <1>3, <4>1
    <3>2. ASSUME NEW i \in DOMAIN tiers
          PROVE  i \in found("server") <=> i \in found("client")
      <4>1. ~(due < tiers[i].min /\ tiers[i].min < due + Parts)
        BY <2>4, <2>5
      <4>2. /\ Field(tiers[i].min, "server") = int(tiers[i].min)
            /\ Field(tiers[i].min, "client") = tiers[i].min
            /\ Field(tiers[i].max, "client") = tiers[i].max
            /\ tiers[i].max # NoBound => Field(tiers[i].max, "server") = int(tiers[i].max)
        BY <1>3, <2>2 DEF Field
      <4>3. tiers[i].max # NoBound => (due <= int(tiers[i].max) <=> due <= tiers[i].max)
        BY <2>2, <3>1
      <4>4. int(tiers[i].min) <= due <=> tiers[i].min <= due
        BY <2>2, <3>1, <4>1
      <4>5. \A side : i \in found(side) <=>
              /\ due >= Field(tiers[i].min, side)
              /\ tiers[i].max = NoBound \/ due <= Field(tiers[i].max, side)
        BY DEF Matching
      <4>6. /\ tiers[i].min \in Int /\ int(tiers[i].min) \in Int /\ due \in Int
        BY <2>2, <2>3, IntDrops DEF InUnits
      <4> HIDE DEF due, found
      <4> QED BY <4>2, <4>3, <4>4, <4>5, <4>6
    <3> QED BY <3>2 DEF Matching
  <2>6. ASSUME NEW S, S \subseteq DOMAIN tiers
        PROVE  fee(S, "server") = int(fee(S, "client"))
    <3>1. CASE S = {}
      BY <1>5, <3>1
    <3>2. CASE S # {}
      <4>1. DOMAIN tiers \subseteq Nat
        BY <1>2, <1>8
      <4>2. \E i \in S : \A j \in S : i <= j
        BY <2>6, <3>2, <4>1, LeastOfSet
      <4>3. first(S) \in S
        BY <4>2
      <4> HIDE DEF first
      <4>4. tiers[first(S)].fee \in Int
        BY <2>2, <2>6, <4>3
      <4> QED BY <1>4, <3>2, <4>4
    <3> QED BY <3>1, <3>2
  <2>7. found("client") \subseteq DOMAIN tiers
    BY DEF Matching
  <2> HIDE DEF found, fee
  <2> QED BY <2>1, <2>5, <2>6, <2>7
<1>9. CASE \/ ~rule.active
           \/ /\ ~(rule.fee_type = "FLAT" /\ "fee" \in DOMAIN config)
              /\ ~(rule.fee_type = "PERCENTAGE" /\ "percent" \in DOMAIN config)
              /\ ~(rule.fee_type = "TIERED" /\ "tiers" \in DOMAIN config)
  <2>1. ASSUME NEW side PROVE Fee(rule, amount, side) = 0
    <3>1. CASE ~rule.active
      BY <3>1 DEF Fee
    <3>2. CASE rule.active
      BY <1>9, <3>2 DEF Fee, config
    <3> QED BY <3>1, <3>2
  <2>2. compute_fee(rule, amount) = 0 /\ computeFee(rule, amount) = 0
    BY <2>1 DEF computeFee, compute_fee
  <2> QED BY <1>5, <2>2
<1> QED BY <1>1, <1>6, <1>7, <1>8, <1>9

\* compute_fee and computeFee (fee_service.py:79, feeConfig.js:34): whatever rule
\* the edits leave, its numbers whole or not, a client that has read it shows
\* the fee that is charged and less than a unit more, or, where a percentage
\* comes to a half, up to a unit more, but for the amounts just below a tier
\* that begins at a fraction.
THEOREM ShownFeeIsCharged == CatalogueSpec => []FeeShownIsCharged
<1>1. CatalogueInv => FeeShownIsCharged
  BY CatalogueAssumption, FeesAgree
     DEF CatalogueInv, CatalogueTypeOK, Catalogues, FeeShownIsCharged
<1> QED BY <1>1, CatalogueInitInv, CatalogueNextInv, PTL DEF CatalogueSpec
-----------------------------------------------------------------------------
(* LimitGrants.  A commit that has seen the requests as they are can only  *)
(* raise the limits by answering a request; so who has seen the limits     *)
(* lower than they are has not seen that answer.                           *)

Unanswered == {"none", "PENDING"}

AtMostOne(S) == \A q, r \in S : q = r

GrantsFollow ==
  /\ AtMostOne(WithStatus(limits, "PENDING")) /\ AtMostOne(Usable(limits, lapsed))
  /\ limits.column = "raised" => WithStatus(limits, "APPROVED") # {} \/ slipped
  /\ \A s \in Requesters : limitView[s] # NoView =>
       /\ \A r \in RequestIds : limits.request[r].status \in Unanswered =>
            limitView[s].request[r].status \in Unanswered
       /\ limits.column = "raised" /\ limitView[s].column # "raised" =>
            \E r \in RequestIds : /\ limits.request[r].status \notin Unanswered
                                  /\ limitView[s].request[r].status \in Unanswered

LimitInv == LimitTypeOK /\ ("request" \notin limitStale => GrantsFollow)

\* Between what a handler has read and what it writes: nothing is approved, and
\* the limits stay raised with every grant, or past one that has lapsed meanwhile.
Lowers(v, new, mid) ==
  /\ \A r \in RequestIds :
       /\ new.request[r].status # v.request[r].status =>
            /\ new.request[r].status # "APPROVED"
            /\ new.request[r].status \in Unanswered => v.request[r].status \in Unanswered
       /\ new.request[r].status = "APPROVED" =>
            /\ new.request[r].spending_cap = v.request[r].spending_cap
            /\ new.request[r].amount_spent >= v.request[r].amount_spent
  /\ new.column = "raised" =>
       /\ v.column = "raised"
       /\ mid = {} => \A r \in RequestIds :
            v.request[r].status = "APPROVED" => new.request[r].status = "APPROVED"

-----------------------------------------------------------------------------
LEMMA OneCounted ==
  ASSUME NEW S, AtMostOne(S)
  PROVE  Cardinality(S) <= 1
<1>1. CASE S = {}
  BY <1>1, FS_EmptySet
<1>2. CASE S # {}
  <2>1. PICK e : S = {e}
    BY <1>2 DEF AtMostOne
  <2> QED BY <2>1, FS_Singleton
<1> QED BY <1>1, <1>2

LEMMA MergedRequest ==
  ASSUME NEW old \in RequestRow, NEW new \in RequestRow, NEW row \in RequestRow
  PROVE  /\ MergeRow(old, new, row) \in RequestRow
         /\ old = row => MergeRow(old, new, row) = new
<1> DEFINE column(c) == IF new[c] # old[c] THEN new[c] ELSE row[c]
           columns == {"status", "spending_cap", "amount_spent"}
<1>1. /\ DOMAIN row = columns
      /\ column("status") \in LimitIncreaseStatus \cup {"none"}
      /\ column("spending_cap") \in Caps \cup {NoCap} /\ column("amount_spent") \in Nat
  BY DEF RequestRow
<1>2. MergeRow(old, new, row) = [c \in columns |-> column(c)]
  BY <1>1 DEF MergeRow
<1>3. old = row => [c \in columns |-> column(c)] = new
  BY DEF RequestRow
<1> HIDE DEF column
<1>4. MergeRow(old, new, row) =
        [status |-> column("status"), spending_cap |-> column("spending_cap"),
         amount_spent |-> column("amount_spent")]
  BY <1>2
<1> QED BY <1>1, <1>2, <1>3, <1>4 DEF RequestRow

LEMMA MergedDebit ==
  ASSUME NEW old \in Debits, NEW new \in Debits, NEW row \in Debits
  PROVE  MergeRow(old, new, row) \in Debits
<1> DEFINE column(c) == IF new[c] # old[c] THEN new[c] ELSE row[c]
<1>1. /\ DOMAIN row = {"status", "amount"}
      /\ column("status") \in {"none", "PENDING", "PROCESSING", "SUCCESS", "FAILED"}
      /\ column("amount") \in Amounts \cup {0}
  BY DEF Debits
<1>2. MergeRow(old, new, row) = [c \in {"status", "amount"} |-> column(c)]
  BY <1>1 DEF MergeRow
<1> HIDE DEF column
<1>3. MergeRow(old, new, row) = [status |-> column("status"), amount |-> column("amount")]
  BY <1>2
<1> QED BY <1>1, <1>3 DEF Debits

\* What a commit makes of the tables; one that has seen the requests as they
\* are leaves them as its handler wrote them.
LEMMA LimitsMerged ==
  ASSUME LimitTypeOK, NEW s \in Requesters, limitView[s] # NoView, NEW new \in LimitTables,
         NEW mid, LimitCommit(s, new, mid)
  PROVE  /\ limits' \in LimitTables
         /\ limitView' = [limitView EXCEPT ![s] = NoView]
         /\ limitStale \subseteq limitStale' /\ limitStale' \subseteq {"request", "txn"}
         /\ lapsed' = lapsed \cup mid /\ slipped' \in BOOLEAN
         /\ limits'.column = IF new.column # limitView[s].column THEN new.column
                             ELSE limits.column
         /\ "request" \notin limitStale' =>
              limitView[s].request = limits.request /\ limits'.request = new.request
<1> DEFINE v == limitView[s]
<1>1. v \in LimitTables /\ limits \in LimitTables
  BY DEF LimitTypeOK
<1>2. limits' = LimitMerged(v, new)
      /\ limitStale' = limitStale \cup {table \in {"request", "txn"} : limits[table] # v[table]}
      /\ limitView' = [limitView EXCEPT ![s] = NoView]
      /\ lapsed' = lapsed \cup mid /\ slipped' \in BOOLEAN
  BY DEF LimitCommit
<1>3. limitStale \subseteq limitStale' /\ limitStale' \subseteq {"request", "txn"}
      /\ ("request" \notin limitStale' => v.request = limits.request)
  BY <1>2 DEF LimitTypeOK
<1> HIDE DEF v
<1>4. /\ MergeTable(v.request, new.request, limits.request) \in [RequestIds -> RequestRow]
      /\ v.request = limits.request =>
           MergeTable(v.request, new.request, limits.request) = new.request
  <2>1. /\ v.request \in [RequestIds -> RequestRow] /\ new.request \in [RequestIds -> RequestRow]
        /\ limits.request \in [RequestIds -> RequestRow]
    BY <1>1 DEF LimitTables
  <2>2. MergeTable(v.request, new.request, limits.request) =
          [r \in RequestIds |-> MergeRow(v.request[r], new.request[r], limits.request[r])]
    BY <2>1 DEF MergeTable
  <2>3. \A r \in RequestIds :
          LET row == MergeRow(v.request[r], new.request[r], limits.request[r])
          IN row \in RequestRow /\ (v.request = limits.request => row = new.request[r])
    BY <2>1, MergedRequest
  <2> QED BY <2>1, <2>2, <2>3
<1>5. MergeTable(v.txn, new.txn, limits.txn) \in [TxnIds -> Debits]
  <2>1. /\ v.txn \in [TxnIds -> Debits] /\ new.txn \in [TxnIds -> Debits]
        /\ limits.txn \in [TxnIds -> Debits]
    BY <1>1 DEF LimitTables
  <2> QED BY <2>1, MergedDebit DEF MergeTable
<1>6. new.column \in {"default", "raised"} /\ limits.column \in {"default", "raised"}
  BY <1>1 DEF LimitTables
<1>7. /\ limits'.request = MergeTable(v.request, new.request, limits.request)
      /\ limits'.txn = MergeTable(v.txn, new.txn, limits.txn)
      /\ limits'.column = IF new.column # v.column THEN new.column ELSE limits.column
      /\ limits' = [request |-> limits'.request, txn |-> limits'.txn, column |-> limits'.column]
  BY <1>2 DEF LimitMerged
<1>8. limits' \in LimitTables
  BY <1>4, <1>5, <1>6, <1>7 DEF LimitTables
<1> QED BY <1>2, <1>3, <1>4, <1>7, <1>8 DEF v

\* What a handler makes of its view when it writes requests and the limits.
Rewrite(v, rows, column) == [v EXCEPT !.request = rows, !.column = column]

LEMMA Rewritten ==
  ASSUME NEW v \in LimitTables, NEW rows, NEW column
  PROVE  /\ Rewrite(v, rows, column).request = rows
         /\ Rewrite(v, rows, column).txn = v.txn
         /\ Rewrite(v, rows, column).column = column
         /\ rows \in [RequestIds -> RequestRow] /\ column \in {"default", "raised"} =>
              Rewrite(v, rows, column) \in LimitTables
BY DEF LimitTables, Rewrite

\* Marking what has lapsed and what is used up.
LEMMA ActiveGrantLowers ==
  ASSUME NEW v \in LimitTables, NEW mid, NEW back
  PROVE  LET w == active_grant(v, mid, back)
         IN /\ w \in LimitTables /\ Lowers(v, w, mid) /\ w.txn = v.txn
            /\ \A r \in RequestIds :
                 /\ v.request[r].status # "APPROVED" => w.request[r] = v.request[r]
                 /\ w.request[r].status = "APPROVED" => w.request[r] = v.request[r]
<1> DEFINE expired == WithStatus(v, "APPROVED") \cap lapsed
           passed == PassedOver(v, mid)
           ended == expired \cup passed
           taken == ended \ (mid \ back) # {}
           marked(r) == [v.request[r] EXCEPT !.status =
                           IF r \in expired \cup (passed \cap mid) THEN "EXPIRED"
                           ELSE IF r \in passed THEN "EXHAUSTED" ELSE @]
           w == active_grant(v, mid, back)
<1>1. /\ v.request \in [RequestIds -> RequestRow] /\ v.txn \in [TxnIds -> Debits]
      /\ v.column \in {"default", "raised"}
  BY DEF LimitTables
<1>2. /\ w \in LimitTables /\ w.txn = v.txn
      /\ \A r \in RequestIds : w.request[r] = marked(r)
      /\ w.column = IF taken THEN "default" ELSE v.column
  <2>1. \A r \in RequestIds : marked(r) \in RequestRow
    BY <1>1 DEF RequestRow, LimitIncreaseStatus
  <2> HIDE DEF marked
  <2> DEFINE rows == [r \in RequestIds |-> marked(r)]
             column == IF taken THEN "default" ELSE v.column
  <2>2. rows \in [RequestIds -> RequestRow] /\ column \in {"default", "raised"}
    BY <1>1, <2>1
  <2>3. w = Rewrite(v, rows, column)
    BY Zenon DEF active_grant, Marked, marked, Rewrite
  <2>4. \A r \in RequestIds : rows[r] = marked(r)
    OBVIOUS
  <2> HIDE DEF w, rows, column
  <2>5. w \in LimitTables /\ w.request = rows /\ w.txn = v.txn /\ w.column = column
    BY <2>2, <2>3, Rewritten
  <2> QED BY <2>4, <2>5 DEF column
<1>3. \A r \in ended : r \in RequestIds /\ v.request[r].status = "APPROVED"
  BY DEF WithStatus, PassedOver, Unlapsed
<1>4. \A r \in RequestIds :
        /\ r \in ended => marked(r).status \in {"EXPIRED", "EXHAUSTED"}
        /\ r \notin ended => marked(r) = v.request[r]
  BY <1>1 DEF RequestRow
<1>8. mid = {} /\ ~taken => ended = {}
  OBVIOUS
<1> HIDE DEF w, marked, expired, passed, ended, taken
<1>5. Lowers(v, w, mid)
  <2>1. \A r \in RequestIds : w.request[r].status = "APPROVED" => w.request[r] = v.request[r]
    BY <1>2, <1>4
  <2>2. \A r \in RequestIds : v.request[r].amount_spent >= v.request[r].amount_spent
    BY <1>1 DEF RequestRow
  <2>3. w.column = "raised" =>
          v.column = "raised" /\ (mid = {} => \A r \in RequestIds : w.request[r] = v.request[r])
    BY <1>2, <1>4, <1>8
  <2>4. \A r \in RequestIds : w.request[r].status # v.request[r].status =>
          w.request[r].status \in {"EXPIRED", "EXHAUSTED"}
    BY <1>2, <1>4
  <2> QED BY <2>1, <2>2, <2>3, <2>4 DEF Lowers, Unanswered
<1>7. \A r \in RequestIds :
        /\ v.request[r].status # "APPROVED" => w.request[r] = v.request[r]
        /\ w.request[r].status = "APPROVED" => w.request[r] = v.request[r]
  BY <1>2, <1>3, <1>4
<1> QED BY <1>2, <1>5, <1>7 DEF w

LEMMA ActiveGrantPending ==
  ASSUME NEW v \in LimitTables, NEW mid, NEW back
  PROVE  WithStatus(active_grant(v, mid, back), "PENDING") \subseteq WithStatus(v, "PENDING")
BY ActiveGrantLowers DEF WithStatus, Lowers, Unanswered

\* Counting a debit against the grant in force.
LEMMA RecordLowers ==
  ASSUME NEW v \in LimitTables, NEW amount \in Nat, NEW mid, NEW back
  PROVE  LET new == record_debit_against_grant(v, amount, mid, back)
         IN /\ new \in LimitTables /\ Lowers(v, new, mid)
            /\ WithStatus(new, "PENDING") \subseteq WithStatus(v, "PENDING")
<1> DEFINE w == active_grant(v, mid, back)
           grant == Newest(v, lapsed \cup mid)
           spent(row) == [row EXCEPT !.amount_spent = @ + amount]
           counted(row) == IF UsedUp(spent(row))
                           THEN [spent(row) EXCEPT !.status = "EXHAUSTED"]
                           ELSE spent(row)
           exhausts == \E r \in grant : UsedUp(spent(w.request[r]))
           row(r) == IF r \in grant THEN counted(w.request[r]) ELSE w.request[r]
           new == record_debit_against_grant(v, amount, mid, back)
<1>1. /\ w \in LimitTables /\ Lowers(v, w, mid)
      /\ w.request \in [RequestIds -> RequestRow] /\ w.txn \in [TxnIds -> Debits]
      /\ w.column \in {"default", "raised"} /\ v.request \in [RequestIds -> RequestRow]
  BY ActiveGrantLowers DEF LimitTables
<1>2. new = [w EXCEPT !.request = [r \in RequestIds |-> row(r)],
                      !.column = IF exhausts THEN "default" ELSE @]
  BY DEF record_debit_against_grant
<1>3. ASSUME NEW r \in RequestIds
      PROVE  /\ row(r) \in RequestRow
             /\ row(r).status \in {w.request[r].status, "EXHAUSTED"}
             /\ row(r).spending_cap = w.request[r].spending_cap
             /\ row(r).amount_spent >= w.request[r].amount_spent
             /\ ~exhausts => row(r).status = w.request[r].status
  <2> DEFINE before == w.request[r]
             after == spent(before)
  <2>1. before \in RequestRow
    BY <1>1
  <2>2. /\ after \in RequestRow /\ after.status = before.status
        /\ after.spending_cap = before.spending_cap
        /\ after.amount_spent >= before.amount_spent
    BY <2>1 DEF RequestRow
  <2>3. row(r) \in {before, after, [after EXCEPT !.status = "EXHAUSTED"]}
    OBVIOUS
  <2>4. ~exhausts => row(r) \in {before, after}
    OBVIOUS
  <2> HIDE DEF before, after, row, exhausts
  <2>5. row(r) \in {before, after, [after EXCEPT !.status = "EXHAUSTED"]} =>
          /\ row(r) \in RequestRow
          /\ row(r).status \in {before.status, "EXHAUSTED"}
          /\ row(r).spending_cap = before.spending_cap
          /\ row(r).amount_spent >= before.amount_spent
    BY <2>1, <2>2 DEF RequestRow, LimitIncreaseStatus
  <2>6. row(r) \in {before, after} => row(r).status = before.status
    BY <2>2
  <2> QED BY <2>3, <2>4, <2>5, <2>6 DEF before
<1> HIDE DEF row, w, exhausts, new
<1>4. /\ new \in LimitTables /\ \A r \in RequestIds : new.request[r] = row(r)
      /\ new.column = IF exhausts THEN "default" ELSE w.column
  <2> DEFINE rows == [r \in RequestIds |-> row(r)]
             column == IF exhausts THEN "default" ELSE w.column
  <2>1. rows \in [RequestIds -> RequestRow] /\ column \in {"default", "raised"}
    BY <1>1, <1>3
  <2>2. new = Rewrite(w, rows, column)
    BY <1>2, Zenon DEF Rewrite
  <2>3. \A r \in RequestIds : rows[r] = row(r)
    OBVIOUS
  <2> HIDE DEF rows, column
  <2>4. new \in LimitTables /\ new.request = rows /\ new.column = column
    BY <1>1, <2>1, <2>2, Rewritten
  <2> QED BY <2>3, <2>4 DEF column
<1>5. \A r \in RequestIds : /\ row(r).amount_spent \in Nat /\ w.request[r].amount_spent \in Nat
                            /\ v.request[r].amount_spent \in Nat
  BY <1>1, <1>3 DEF RequestRow
<1>6. Lowers(v, new, mid)
  <2>1. ASSUME NEW r \in RequestIds
        PROVE  /\ new.request[r].status # v.request[r].status =>
                    /\ new.request[r].status # "APPROVED"
                    /\ new.request[r].status \in Unanswered =>
                         v.request[r].status \in Unanswered
               /\ new.request[r].status = "APPROVED" =>
                    /\ new.request[r].spending_cap = v.request[r].spending_cap
                    /\ new.request[r].amount_spent >= v.request[r].amount_spent
    BY <1>1, <1>3, <1>4, <1>5 DEF Lowers, Unanswered
  <2>2. new.column = "raised" =>
          /\ v.column = "raised"
          /\ mid = {} => \A r \in RequestIds :
               v.request[r].status = "APPROVED" => new.request[r].status = "APPROVED"
    BY <1>1, <1>3, <1>4 DEF Lowers
  <2> QED BY <2>1, <2>2 DEF Lowers
<1>7. WithStatus(new, "PENDING") \subseteq WithStatus(v, "PENDING")
  <2>1. WithStatus(w, "PENDING") \subseteq WithStatus(v, "PENDING")
    BY ActiveGrantPending DEF w
  <2> QED BY <1>3, <1>4, <2>1 DEF WithStatus
<1> QED BY <1>4, <1>6, <1>7 DEF new
-----------------------------------------------------------------------------
\* A commit that approves nothing, and makes no second request.
LEMMA LoweringCommit ==
  ASSUME LimitInv, NEW s \in Requesters, limitView[s] # NoView, NEW new \in LimitTables,
         NEW mid, LimitCommit(s, new, mid), Lowers(limitView[s], new, mid), LimitTypeOK',
         "request" \notin limitStale' => AtMostOne(WithStatus(new, "PENDING"))
  PROVE  LimitInv'
<1> SUFFICES ASSUME "request" \notin limitStale' PROVE GrantsFollow'
  BY DEF LimitInv
<1> DEFINE v == limitView[s]
<1>0. LimitTypeOK /\ limitView \in [Requesters -> LimitTables \cup {NoView}]
  BY DEF LimitInv, LimitTypeOK
<1>1. /\ limitView' = [limitView EXCEPT ![s] = NoView] /\ limits'.request = new.request
      /\ limits'.column = IF new.column # v.column THEN new.column ELSE limits.column
      /\ v.request = limits.request /\ GrantsFollow
  BY <1>0, LimitsMerged DEF LimitInv
<1>2. lapsed' = lapsed \cup mid
      /\ slipped' = /\ limits'.column = "raised" /\ WithStatus(limits', "APPROVED") = {}
                    /\ slipped \/ mid # {}
  BY DEF LimitCommit
<1>3. AtMostOne(WithStatus(limits, "PENDING")')
  BY <1>1 DEF WithStatus
<1>4. AtMostOne(Usable(limits, lapsed)')
  <2>1. \A r \in RequestIds : limits.request[r].amount_spent \in Nat
                              /\ new.request[r].amount_spent \in Nat
    BY <1>0 DEF LimitTypeOK, LimitTables, RequestRow
  <2>2. \A r \in RequestIds : limits.request[r].spending_cap \in Nat \cup {NoCap}
    BY <1>0, LimitAssumption DEF LimitTypeOK, LimitTables, RequestRow
  <2>3. ASSUME NEW r \in RequestIds, new.request[r].status = "APPROVED",
               ~UsedUp(new.request[r])
        PROVE  limits.request[r].status = "APPROVED" /\ ~UsedUp(limits.request[r])
    BY <1>1, <2>1, <2>2, <2>3 DEF Lowers, UsedUp
  <2>4. Usable(limits, lapsed)' \subseteq Usable(limits, lapsed)
    BY <1>1, <1>2, <2>3 DEF Usable, Unlapsed, WithStatus
  <2> QED BY <1>1, <2>4 DEF GrantsFollow, AtMostOne
<1>5. limits'.column = "raised" =>
        limits.column = "raised" /\ v.column = "raised" /\ new.column = "raised"
  BY <1>1 DEF GrantsFollow, Lowers
<1>6. limits'.column = "raised" => WithStatus(limits, "APPROVED")' # {} \/ slipped'
  <2> SUFFICES ASSUME limits'.column = "raised", WithStatus(limits, "APPROVED")' = {},
                      ~slipped, mid = {}
               PROVE  FALSE
    BY <1>2
  <2>1. PICK r \in RequestIds : limits.request[r].status = "APPROVED"
    BY <1>1, <1>5 DEF GrantsFollow, WithStatus
  <2>2. new.request[r].status = "APPROVED"
    BY <1>1, <1>5, <2>1 DEF Lowers
  <2> QED BY <1>1, <2>2 DEF WithStatus
<1>7. \A r \in RequestIds :
        new.request[r].status \in Unanswered => limits.request[r].status \in Unanswered
  BY <1>1 DEF Lowers
<1>8. ASSUME NEW t \in Requesters, limitView'[t] # NoView
      PROVE  /\ \A r \in RequestIds : limits'.request[r].status \in Unanswered =>
                  limitView'[t].request[r].status \in Unanswered
             /\ limits'.column = "raised" /\ limitView'[t].column # "raised" =>
                  \E r \in RequestIds : /\ limits'.request[r].status \notin Unanswered
                                        /\ limitView'[t].request[r].status \in Unanswered
  <2>1. limitView'[t] = limitView[t] /\ limitView[t] # NoView
    BY <1>0, <1>1, <1>8
  <2> QED BY <1>1, <1>5, <1>7, <2>1 DEF GrantsFollow
<1> QED BY <1>3, <1>4, <1>6, <1>8 DEF GrantsFollow

LEMMA ApproveLimits ==
  ASSUME LimitInv, NEW s \in Requesters, limitView[s] # NoView,
         NEW r \in RequestIds, NEW cap \in Caps \cup {NoCap}, approve(s, r, cap)
  PROVE  LimitInv'
<1> DEFINE v == limitView[s]
           w == active_grant(v, {}, {})
           granted == [status |-> "APPROVED", spending_cap |-> cap, amount_spent |-> 0]
           row(q) == IF q = r THEN granted
                     ELSE IF q \in Newest(v, lapsed)
                          THEN [w.request[q] EXCEPT !.status = "EXPIRED"]
                     ELSE w.request[q]
           new == [w EXCEPT !.request = [q \in RequestIds |-> row(q)], !.column = "raised"]
<1>0. /\ LimitTypeOK /\ v \in LimitTables /\ w \in LimitTables
      /\ limitView \in [Requesters -> LimitTables \cup {NoView}]
      /\ w.request \in [RequestIds -> RequestRow]
  <2>1. LimitTypeOK /\ v \in LimitTables
        /\ limitView \in [Requesters -> LimitTables \cup {NoView}]
    BY DEF LimitInv, LimitTypeOK
  <2>2. w \in LimitTables
    BY <2>1, ActiveGrantLowers
  <2> QED BY <2>1, <2>2 DEF LimitTables
<1>1. /\ LimitCommit(s, new, {}) /\ v.request[r].status = "PENDING"
      /\ UNCHANGED <<under, missed, waited, settledLate>> /\ lapsed' = lapsed
  <2>1. LimitCommit(s, new, {}) /\ v.request[r].status = "PENDING"
        /\ UNCHANGED <<under, missed, waited, settledLate>>
    BY Zenon DEF approve, limitHistory
  <2> HIDE DEF new
  <2> QED BY <2>1 DEF LimitCommit
<1>2. ASSUME NEW q \in RequestIds
      PROVE  /\ row(q) \in RequestRow
             /\ q # r /\ row(q).status = "APPROVED" =>
                  row(q) = v.request[q] /\ q \notin Newest(v, lapsed)
             /\ row(q).status \in Unanswered =>
                  q # r /\ v.request[q].status = row(q).status
  <2>1. w.request[q] \in RequestRow
    BY <1>0
  <2>2. granted \in RequestRow
    BY LimitAssumption DEF RequestRow, LimitIncreaseStatus
  <2>3. [w.request[q] EXCEPT !.status = "EXPIRED"] \in RequestRow
    BY <2>1 DEF RequestRow, LimitIncreaseStatus
  <2>4. /\ w.request[q].status = "APPROVED" => w.request[q] = v.request[q]
        /\ w.request[q].status \in Unanswered => v.request[q].status = w.request[q].status
    <3>1. /\ v.request[q].status # "APPROVED" => w.request[q] = v.request[q]
          /\ w.request[q].status = "APPROVED" => w.request[q] = v.request[q]
          /\ Lowers(v, w, {})
      BY <1>0, ActiveGrantLowers
    <3> HIDE DEF v, w
    <3> QED BY <3>1 DEF Unanswered, Lowers
  <2> HIDE DEF v, w
  <2>5. row(q) \in RequestRow
    BY <2>1, <2>2, <2>3
  <2>6. q \in Newest(v, lapsed) /\ q # r => row(q).status = "EXPIRED"
    BY <2>1 DEF RequestRow
  <2>7. q \notin Newest(v, lapsed) /\ q # r => row(q) = w.request[q]
    OBVIOUS
  <2>8. q = r => row(q).status = "APPROVED"
    OBVIOUS
  <2> HIDE DEF row
  <2> QED BY <2>4, <2>5, <2>6, <2>7, <2>8 DEF Unanswered
<1>3. new \in LimitTables /\ new.column = "raised" /\ \A q \in RequestIds : new.request[q] = row(q)
  <2> DEFINE rows == [q \in RequestIds |-> row(q)]
  <2>1. rows \in [RequestIds -> RequestRow] /\ \A q \in RequestIds : rows[q] = row(q)
    BY <1>2
  <2>3. new = Rewrite(w, rows, "raised")
    BY Zenon DEF Rewrite, rows
  <2> HIDE DEF rows, w, new
  <2>2. new \in LimitTables /\ new.column = "raised" /\ new.request = rows
    BY <1>0, <2>1, <2>3, Rewritten
  <2> HIDE DEF new, row
  <2> QED BY <2>1, <2>2
<1>4. row(r).status = "APPROVED"
  OBVIOUS
<1> HIDE DEF new, row
<1>5. /\ limits' \in LimitTables /\ limitView' = [limitView EXCEPT ![s] = NoView]
      /\ limitStale \subseteq limitStale' /\ limitStale' \subseteq {"request", "txn"}
      /\ slipped' \in BOOLEAN
      /\ "request" \notin limitStale' =>
           v.request = limits.request /\ limits'.request = new.request
  BY <1>0, <1>1, <1>3, LimitsMerged
<1>6. LimitTypeOK'
  BY <1>0, <1>1, <1>5 DEF LimitTypeOK
<1> SUFFICES ASSUME "request" \notin limitStale' PROVE GrantsFollow'
  BY <1>6 DEF LimitInv
<1>7. GrantsFollow /\ v.request = limits.request /\ \A q \in RequestIds : limits'.request[q] = row(q)
  BY <1>3, <1>5 DEF LimitInv
<1> HIDE DEF v, w
<1>8. AtMostOne(WithStatus(limits, "PENDING")')
  BY <1>1, <1>2, <1>7 DEF GrantsFollow, AtMostOne, WithStatus, Unanswered
<1>9. AtMostOne(Usable(limits, lapsed)')
  <2>1. ASSUME NEW q \in Usable(limits, lapsed)', q # r PROVE FALSE
    <3>1. /\ q \in RequestIds /\ row(q).status = "APPROVED" /\ q \notin lapsed
          /\ ~UsedUp(row(q))
      BY <1>1, <1>7, <2>1 DEF Usable, Unlapsed, WithStatus
    <3>2. /\ q \in Usable(limits, lapsed) /\ q \in Usable(v, lapsed)
          /\ Usable(v, lapsed) = Usable(limits, lapsed)
      BY <1>2, <1>7, <2>1, <3>1 DEF Usable, Unlapsed, WithStatus
    <3>3. q \in Newest(v, lapsed)
      BY <1>7, <3>1, <3>2 DEF Newest, GrantsFollow, AtMostOne, RequestIds
    <3> QED BY <1>2, <2>1, <3>1, <3>3
  <2> QED BY <2>1 DEF AtMostOne
<1>10. r \in WithStatus(limits, "APPROVED")'
  BY <1>4, <1>7 DEF WithStatus
<1>11. ASSUME NEW t \in Requesters, limitView'[t] # NoView
       PROVE  /\ \A q \in RequestIds : limits'.request[q].status \in Unanswered =>
                   limitView'[t].request[q].status \in Unanswered
              /\ \E q \in RequestIds : /\ limits'.request[q].status \notin Unanswered
                                       /\ limitView'[t].request[q].status \in Unanswered
  <2>1. limitView'[t] = limitView[t] /\ limitView[t] # NoView
    BY <1>0, <1>5, <1>11
  <2>2. limits.request[r].status \in Unanswered
    BY <1>1, <1>7 DEF Unanswered
  <2> QED BY <1>2, <1>4, <1>7, <2>1, <2>2 DEF GrantsFollow, Unanswered
<1> QED BY <1>8, <1>9, <1>10, <1>11 DEF GrantsFollow

\* A commit that neither approves nor makes a request.
LEMMA PlainCommit ==
  ASSUME LimitInv, NEW s \in Requesters, limitView[s] # NoView, NEW new \in LimitTables,
         NEW mid, mid \subseteq RequestIds,
         LimitCommit(s, new, mid), Lowers(limitView[s], new, mid),
         WithStatus(new, "PENDING") \subseteq WithStatus(limitView[s], "PENDING"),
         under' \in [TxnIds -> RequestIds \cup {Nothing}], missed' \subseteq TxnIds,
         waited' \subseteq TxnIds, settledLate' \subseteq TxnIds
  PROVE  LimitInv'
<1>1. LimitTypeOK
  BY DEF LimitInv
<1>2. LimitTypeOK'
  BY <1>1, LimitsMerged DEF LimitCommit, LimitTypeOK
<1>3. ASSUME "request" \notin limitStale' PROVE AtMostOne(WithStatus(new, "PENDING"))
  <2>1. limitView[s].request = limits.request /\ GrantsFollow
    BY <1>1, <1>3, LimitsMerged DEF LimitInv
  <2> QED BY <2>1 DEF GrantsFollow, AtMostOne, WithStatus
<1> QED BY <1>2, <1>3, LoweringCommit

\* The grant a debit comes under.
LEMMA ComesUnderGrant ==
  ASSUME LimitInv, NEW v, NEW t \in TxnIds, NEW status, NEW L, ComesUnder(v, t, status, L)
  PROVE  under' \in [TxnIds -> RequestIds \cup {Nothing}]
<1>1. under \in [TxnIds -> RequestIds \cup {Nothing}]
  BY DEF LimitInv, LimitTypeOK
<1>2. CASE status = "SUCCESS" /\ Newest(v, L) # {}
  <2>1. (CHOOSE g \in Newest(v, L) : TRUE) \in RequestIds
    BY <1>2 DEF Newest, Usable, Unlapsed, WithStatus
  <2> QED BY <1>1, <1>2, <2>1 DEF ComesUnder
<1>3. CASE ~(status = "SUCCESS" /\ Newest(v, L) # {})
  BY <1>1, <1>3 DEF ComesUnder
<1> QED BY <1>2, <1>3

\* What may lapse while a handler runs is a request.
LEMMA LapsingGrants ==
  ASSUME NEW v, NEW mid \in MayLapse(v)
  PROVE  mid \subseteq RequestIds
BY DEF MayLapse, Unlapsed, WithStatus

LEMMA DebitLimits ==
  ASSUME LimitInv, NEW s \in Requesters, limitView[s] # NoView, NEW amount \in Amounts,
         NEW status \in {"SUCCESS", "PROCESSING", "PENDING"},
         NEW mid \in MayLapse(limitView[s]), NEW back \in SUBSET mid,
         Debit(s, amount, status, mid, back)
  PROVE  LimitInv'
<1> DEFINE v == limitView[s]
           w == IF status = "SUCCESS" THEN record_debit_against_grant(v, amount, mid, back)
                ELSE active_grant(v, mid, back)
           debit == [status |-> status, amount |-> amount]
<1>1. PICK t \in TxnIds :
        /\ LimitCommit(s, [w EXCEPT !.txn[t] = debit], mid)
        /\ ComesUnder(v, t, status, lapsed')
        /\ waited' = IF status = "PENDING" THEN waited \cup {t} ELSE waited
        /\ UNCHANGED <<missed, settledLate>>
  BY DEF Debit, NextId
<1> DEFINE new == [w EXCEPT !.txn[t] = debit]
<1>2. v \in LimitTables /\ amount \in Nat /\ debit \in Debits
  BY LimitAssumption DEF LimitInv, LimitTypeOK, Debits
<1>3. /\ w \in LimitTables /\ Lowers(v, w, mid)
      /\ WithStatus(w, "PENDING") \subseteq WithStatus(v, "PENDING")
  BY <1>2, ActiveGrantLowers, ActiveGrantPending, RecordLowers
<1>4. LimitCommit(s, new, mid) /\ mid \subseteq RequestIds
  BY <1>1, LapsingGrants
<1> HIDE DEF w, debit
<1>5. new \in LimitTables /\ new.request = w.request /\ new.column = w.column
  BY <1>2, <1>3 DEF LimitTables
<1> HIDE DEF new
<1>6. /\ Lowers(v, new, mid) /\ WithStatus(new, "PENDING") \subseteq WithStatus(v, "PENDING")
  BY <1>3, <1>5 DEF Lowers, WithStatus
<1>7. /\ under' \in [TxnIds -> RequestIds \cup {Nothing}] /\ missed' \subseteq TxnIds
      /\ waited' \subseteq TxnIds /\ settledLate' \subseteq TxnIds
  BY <1>1, ComesUnderGrant DEF LimitInv, LimitTypeOK
<1> QED BY <1>4, <1>5, <1>6, <1>7, PlainCommit

\* What a row of the tables counts is a natural number.
LEMMA TableAmounts ==
  ASSUME NEW v \in LimitTables
  PROVE  /\ \A t \in TxnIds : v.txn[t].amount \in Nat
         /\ \A r \in RequestIds : v.request[r].amount_spent \in Nat
<1>1. ASSUME NEW d \in Debits PROVE d.amount \in Nat
  <2>1. Amounts \subseteq Nat \ {0}
    BY LimitAssumption DEF LimitAssumption
  <2>2. d.amount \in Amounts \cup {0}
    BY DEF Debits
  <2>3. \A a \in Amounts \cup {0} : a \in Nat
    BY <2>1
  <2> QED BY <2>2, <2>3, Zenon
<1>2. \A row \in RequestRow : row.amount_spent \in Nat
  BY DEF RequestRow
<1> QED BY <1>1, <1>2 DEF LimitTables

LEMMA SettleLimits ==
  ASSUME LimitInv, NEW s \in Requesters, limitView[s] # NoView, NEW t \in TxnIds,
         NEW status \in {"SUCCESS", "FAILED"}, NEW mid \in MayLapse(limitView[s]),
         Settle(s, t, status, mid)
  PROVE  LimitInv'
<1> DEFINE v == limitView[s]
           w == IF status = "SUCCESS"
                THEN record_debit_against_grant(v, v.txn[t].amount, mid, {}) ELSE v
           new == [w EXCEPT !.txn[t].status = status]
<1>1. /\ LimitCommit(s, new, mid) /\ ComesUnder(v, t, status, lapsed')
      /\ mid \subseteq RequestIds /\ missed' \subseteq missed
      /\ settledLate' = settledLate \cup {t} /\ UNCHANGED waited
  BY LapsingGrants DEF Settle
<1>2. /\ v \in LimitTables /\ v.txn[t].amount \in Nat
      /\ \A r \in RequestIds : v.request[r].amount_spent \in Nat
  BY TableAmounts DEF LimitInv, LimitTypeOK
<1>3. Lowers(v, v, mid)
  BY <1>2 DEF Lowers
<1>4. /\ w \in LimitTables /\ Lowers(v, w, mid)
      /\ WithStatus(w, "PENDING") \subseteq WithStatus(v, "PENDING")
  BY <1>2, <1>3, RecordLowers
<1> HIDE DEF w
<1>5. new \in LimitTables /\ new.request = w.request /\ new.column = w.column
  BY <1>4 DEF LimitTables, Debits
<1> HIDE DEF new
<1>6. Lowers(v, new, mid) /\ WithStatus(new, "PENDING") \subseteq WithStatus(v, "PENDING")
  BY <1>4, <1>5 DEF Lowers, WithStatus
<1>7. /\ under' \in [TxnIds -> RequestIds \cup {Nothing}] /\ missed' \subseteq TxnIds
      /\ waited' \subseteq TxnIds /\ settledLate' \subseteq TxnIds
  BY <1>1, ComesUnderGrant DEF LimitInv, LimitTypeOK
<1> QED BY <1>1, <1>5, <1>6, <1>7, PlainCommit

LEMMA SettleUncountedLimits ==
  ASSUME LimitInv, NEW s \in Requesters, limitView[s] # NoView, NEW t \in TxnIds,
         SettleUncounted(s, t)
  PROVE  LimitInv'
<1> DEFINE v == limitView[s]
           new == [v EXCEPT !.txn[t].status = "SUCCESS"]
<1>1. /\ LimitCommit(s, new, {}) /\ ComesUnder(v, t, "SUCCESS", lapsed)
      /\ missed' = missed \cup {t} /\ settledLate' = settledLate \cup {t} /\ UNCHANGED waited
  BY DEF SettleUncounted
<1>2. /\ v \in LimitTables /\ \A r \in RequestIds : v.request[r].amount_spent \in Nat
  BY TableAmounts DEF LimitInv, LimitTypeOK
<1>3. new \in LimitTables /\ new.request = v.request /\ new.column = v.column
  BY <1>2 DEF LimitTables, Debits
<1> HIDE DEF new
<1>4. Lowers(v, new, {}) /\ WithStatus(new, "PENDING") \subseteq WithStatus(v, "PENDING")
  BY <1>2, <1>3 DEF Lowers, WithStatus
<1>5. /\ under' \in [TxnIds -> RequestIds \cup {Nothing}] /\ missed' \subseteq TxnIds
      /\ waited' \subseteq TxnIds /\ settledLate' \subseteq TxnIds
  BY <1>1, ComesUnderGrant DEF LimitInv, LimitTypeOK
<1> QED BY <1>1, <1>3, <1>4, <1>5, PlainCommit

\* A request is made only by who has seen none waiting.
LEMMA CreateLimits ==
  ASSUME LimitInv, NEW s \in Requesters, limitView[s] # NoView, create_request(s)
  PROVE  LimitInv'
<1> DEFINE v == limitView[s]
<1>1. PICK mid \in MayLapse(v), r \in RequestIds :
        /\ limits.request[r].status = "none"
        /\ LimitCommit(s, [active_grant(v, mid, {}) EXCEPT !.request[r].status = "PENDING"],
                       mid)
  BY DEF create_request, NextId, WithStatus
<1> DEFINE w == active_grant(v, mid, {})
           new == [w EXCEPT !.request[r].status = "PENDING"]
<1>2. /\ WithStatus(v, "PENDING") = {} /\ UNCHANGED <<under, missed, waited, settledLate>>
      /\ v \in LimitTables /\ LimitTypeOK
  <2>1. WithStatus(v, "PENDING") = {} /\ UNCHANGED limitHistory
    BY DEF create_request
  <2> QED BY <2>1 DEF limitHistory, LimitInv, LimitTypeOK
<1>3. /\ w \in LimitTables /\ Lowers(v, w, mid) /\ WithStatus(w, "PENDING") = {}
      /\ LimitCommit(s, new, mid) /\ mid \subseteq RequestIds
  BY <1>1, <1>2, ActiveGrantLowers, ActiveGrantPending, LapsingGrants
<1> HIDE DEF w
<1>4. /\ new \in LimitTables /\ new.column = w.column
      /\ new.request[r].status = "PENDING"
      /\ \A q \in RequestIds \ {r} : new.request[q] = w.request[q]
  BY <1>3 DEF LimitTables, RequestRow, LimitIncreaseStatus
<1> HIDE DEF new
<1>5. LimitTypeOK'
  BY <1>2, <1>3, <1>4, LimitsMerged DEF LimitCommit, LimitTypeOK
<1>6. AtMostOne(WithStatus(new, "PENDING"))
  BY <1>3, <1>4 DEF AtMostOne, WithStatus
<1>7. CASE "request" \notin limitStale'
  <2>1. v.request = limits.request
    BY <1>2, <1>3, <1>4, <1>7, LimitsMerged
  <2>2. v.request[r].status = "none"
    BY <1>1, <2>1
  <2>3. Lowers(v, new, mid)
    BY <1>3, <1>4, <2>2 DEF Lowers, Unanswered
  <2> QED BY <1>3, <1>4, <1>5, <1>6, <2>3, LoweringCommit
<1>8. CASE "request" \in limitStale'
  BY <1>5, <1>8 DEF LimitInv
<1> QED BY <1>7, <1>8

\* A rejection, and what writes the limits of the user alone.
LEMMA OtherLimits ==
  ASSUME LimitInv, NEW s \in Requesters, limitView[s] # NoView,
         \/ \E r \in RequestIds : reject(s, r)
         \/ sync_user_limits(s) \/ verify_otp_limits(s)
  PROVE  LimitInv'
<1> DEFINE v == limitView[s]
<1>1. /\ v \in LimitTables /\ UNCHANGED <<under, missed, waited, settledLate>>
      /\ \A r \in RequestIds : v.request[r].amount_spent \in Nat
  <2>1. v \in LimitTables
    BY DEF LimitInv, LimitTypeOK
  <2>2. UNCHANGED <<under, missed, waited, settledLate>>
    BY DEF reject, sync_user_limits, verify_otp_limits, limitHistory
  <2>3. \A r \in RequestIds : v.request[r].amount_spent \in Nat
    BY <2>1 DEF LimitTables, RequestRow
  <2> QED BY <2>1, <2>2, <2>3
<1>2. /\ under \in [TxnIds -> RequestIds \cup {Nothing}] /\ missed \subseteq TxnIds
      /\ waited \subseteq TxnIds /\ settledLate \subseteq TxnIds
  BY DEF LimitInv, LimitTypeOK
<1>3. ASSUME NEW new \in LimitTables, NEW mid, mid \subseteq RequestIds,
             LimitCommit(s, new, mid), Lowers(v, new, mid),
             WithStatus(new, "PENDING") \subseteq WithStatus(v, "PENDING")
      PROVE  LimitInv'
  BY <1>1, <1>2, <1>3, PlainCommit
<1>4. CASE \E r \in RequestIds : reject(s, r)
  <2>1. PICK r \in RequestIds : v.request[r].status = "PENDING"
                                /\ LimitCommit(s, [v EXCEPT !.request[r].status = "REJECTED"], {})
    BY <1>4 DEF reject
  <2> DEFINE new == [v EXCEPT !.request[r].status = "REJECTED"]
  <2> DEFINE row == [v.request[r] EXCEPT !.status = "REJECTED"]
  <2>5. row \in RequestRow /\ row.status = "REJECTED"
    BY <1>1 DEF LimitTables, RequestRow, LimitIncreaseStatus
  <2>6. new = [v EXCEPT !.request = [v.request EXCEPT ![r] = row]]
    BY <1>1 DEF LimitTables
  <2> HIDE DEF row, new
  <2>2. /\ new \in LimitTables /\ new.column = v.column
        /\ new.request[r].status = "REJECTED"
        /\ \A q \in RequestIds \ {r} : new.request[q] = v.request[q]
    BY <1>1, <2>5, <2>6 DEF LimitTables
  <2>3. LimitCommit(s, new, {})
    BY <2>1 DEF new
  <2>4. Lowers(v, new, {}) /\ WithStatus(new, "PENDING") \subseteq WithStatus(v, "PENDING")
    BY <1>1, <2>1, <2>2 DEF Lowers, WithStatus, Unanswered
  <2> QED BY <1>3, <2>2, <2>3, <2>4
<1>5. CASE sync_user_limits(s)
  <2>5. PICK mid \in MayLapse(v) :
          LimitCommit(s, [active_grant(v, mid, {}) EXCEPT
            !.column = IF Newest(v, lapsed \cup mid) = {} THEN "default" ELSE @], mid)
    BY <1>5 DEF sync_user_limits
  <2> DEFINE w == active_grant(v, mid, {})
             column == IF Newest(v, lapsed \cup mid) = {} THEN "default" ELSE w.column
             new == [w EXCEPT !.column = column]
  <2>6. /\ w \in LimitTables /\ Lowers(v, w, mid) /\ mid \subseteq RequestIds
        /\ WithStatus(w, "PENDING") \subseteq WithStatus(v, "PENDING")
    BY <1>1, ActiveGrantLowers, ActiveGrantPending, LapsingGrants
  <2>1. LimitCommit(s, new, mid)
    BY <2>5
  <2>2. column \in {"default", w.column}
    OBVIOUS
  <2> HIDE DEF w, column
  <2>3. new \in LimitTables /\ new.request = w.request /\ new.column \in {"default", w.column}
    BY <2>2, <2>6 DEF LimitTables
  <2> HIDE DEF new
  <2>4. Lowers(v, new, mid) /\ WithStatus(new, "PENDING") \subseteq WithStatus(v, "PENDING")
    BY <2>3, <2>6 DEF Lowers, WithStatus
  <2> QED BY <1>3, <2>1, <2>3, <2>4, <2>6
<1>6. CASE verify_otp_limits(s)
  <2> DEFINE new == [v EXCEPT !.column = "default"]
  <2>1. LimitCommit(s, new, {})
    BY <1>6 DEF verify_otp_limits
  <2>2. new \in LimitTables /\ new.request = v.request /\ new.column = "default"
    BY <1>1 DEF LimitTables
  <2> HIDE DEF new
  <2>3. Lowers(v, new, {}) /\ WithStatus(new, "PENDING") \subseteq WithStatus(v, "PENDING")
    BY <1>1, <2>2 DEF Lowers, WithStatus
  <2> QED BY <1>3, <2>1, <2>2, <2>3
<1> QED BY <1>4, <1>5, <1>6

\* Reading, giving up, and the lapse of a grant.
LEMMA ReadLimits ==
  ASSUME LimitInv,
         \/ \E s \in Requesters : LimitBegin(s) \/ LimitRollback(s)
         \/ \E r \in RequestIds : Lapse(r)
         \/ UNCHANGED limitVars
  PROVE  LimitInv'
<1>1. CASE \E s \in Requesters : LimitBegin(s) \/ LimitRollback(s)
  <2>1. PICK s \in Requesters, view \in {limits, NoView} :
          limitView' = [limitView EXCEPT ![s] = view]
    BY <1>1 DEF LimitBegin, LimitRollback
  <2>2. UNCHANGED <<limits, lapsed, limitHistory, commitHistory>>
    BY <1>1 DEF LimitBegin, LimitRollback
  <2>3. LimitTypeOK'
    BY <2>1, <2>2 DEF LimitInv, LimitTypeOK, limitHistory, commitHistory
  <2>4. ASSUME GrantsFollow PROVE GrantsFollow'
    BY <2>1, <2>2, <2>4
       DEF LimitInv, LimitTypeOK, GrantsFollow, WithStatus, Usable, Unlapsed, AtMostOne,
           commitHistory
  <2> QED BY <2>2, <2>3, <2>4 DEF LimitInv, commitHistory
<1>2. CASE \E r \in RequestIds : Lapse(r)
  <2>1. /\ lapsed \subseteq lapsed' /\ lapsed' \subseteq RequestIds
        /\ UNCHANGED <<limits, limitView, limitHistory, commitHistory>>
    BY <1>2 DEF Lapse, LimitInv, LimitTypeOK
  <2>2. Usable(limits, lapsed)' \subseteq Usable(limits, lapsed)
        /\ \A st : WithStatus(limits, st)' = WithStatus(limits, st)
    BY <2>1 DEF Usable, Unlapsed, WithStatus
  <2>3. GrantsFollow => GrantsFollow'
    BY <2>1, <2>2 DEF GrantsFollow, AtMostOne, commitHistory
  <2> QED BY <2>1, <2>3 DEF LimitInv, LimitTypeOK, limitHistory, commitHistory
<1>3. CASE UNCHANGED limitVars
  BY <1>3 DEF limitVars, limitHistory, commitHistory, LimitInv, LimitTypeOK, GrantsFollow,
              WithStatus, Usable, Unlapsed, AtMostOne
<1> QED BY <1>1, <1>2, <1>3

LEMMA LimitNextInv == LimitInv /\ [LimitNext]_limitVars => LimitInv'
<1> SUFFICES ASSUME LimitInv, [LimitNext]_limitVars PROVE LimitInv'
  OBVIOUS
<1> QED BY ReadLimits, CreateLimits, OtherLimits, ApproveLimits, DebitLimits, SettleLimits,
           SettleUncountedLimits DEF LimitNext

LEMMA LimitInitInv == LimitInit => LimitInv
<1> SUFFICES ASSUME LimitInit PROVE LimitInv
  OBVIOUS
<1>1. limits \in LimitTables
  BY DEF LimitInit, LimitTables, RequestRow, Debits
<1>2. LimitTypeOK
  BY <1>1 DEF LimitInit, LimitTypeOK
<1>3. GrantsFollow
  BY DEF LimitInit, GrantsFollow, AtMostOne, WithStatus, Usable, Unlapsed
<1> QED BY <1>2, <1>3 DEF LimitInv

\* limit_service.py: as long as no request is answered or made by an outdated
\* reading of the requests, a user has one request waiting and one grant in
\* force at most, however requests, debits, settlements, settings and lapses
\* overlap, and the limits on the user row are raised only by a grant or past
\* one that lapsed between the two looks of active_grant at the clock.
THEOREM GrantsRaiseLimits == LimitSpec => []LimitsFollowGrants
<1>1. LimitInv => LimitsFollowGrants
  BY OneCounted
     DEF LimitInv, GrantsFollow, LimitsFollowGrants, OneRequestOneGrant, RaisedByGrant
<1> QED BY <1>1, LimitInitInv, LimitNextInv, PTL DEF LimitSpec

\* The tables, views and histories of the limits keep to their values.
THEOREM LimitTypeCorrect == LimitSpec => []LimitTypeOK
<1>1. LimitInv => LimitTypeOK
  BY DEF LimitInv
<1> QED BY <1>1, LimitInitInv, LimitNextInv, PTL DEF LimitSpec
-----------------------------------------------------------------------------
(* What is charged to a grant.  A debit is counted under the grant its     *)
(* commit has seen, in the row of that grant and in the sum that row       *)
(* stands for; so who settles a debit that was counted after it was read   *)
(* has not seen the requests as they are.                                  *)

Made(v, t) == v.txn[t].status # "none"

TxnsFollow ==
  /\ \A t \in TxnIds :
       /\ limits.txn[t].amount = 0 <=> ~Made(limits, t)
       /\ under[t] # Nothing \/ t \in missed => limits.txn[t].status \in {"SUCCESS", "FAILED"}
       /\ limits.txn[t].status = "PENDING" => t \in waited
  /\ \A s \in Requesters : limitView[s] # NoView => \A t \in TxnIds :
       /\ limitView[s].txn[t].amount = 0 <=> ~Made(limitView[s], t)
       /\ Made(limitView[s], t) => limitView[s].txn[t].amount = limits.txn[t].amount

RowsFollow ==
  /\ \A r \in RequestIds :
       limits.request[r].status \in Unanswered => limits.request[r].amount_spent = 0
  /\ \A s \in Requesters : limitView[s] # NoView =>
       /\ \A r \in RequestIds :
            limitView[s].request[r].amount_spent <= limits.request[r].amount_spent
       /\ \A t \in TxnIds :
            limitView[s].txn[t].status \in {"PENDING", "PROCESSING"} /\ Charged(t) # Nothing =>
              limitView[s].request[Charged(t)].amount_spent
                < limits.request[Charged(t)].amount_spent

ChargeInv ==
  /\ TxnsFollow
  /\ "request" \notin limitStale => RowsFollow
  /\ GrantsAreCharged
  /\ DailyLimitHolds

Granted == {"APPROVED", "EXPIRED", "EXHAUSTED"}

\* Between what a handler has read and what it writes: the grants of G are
\* charged with a, and a grant stays one.
Charges(v, new, G, a) ==
  \A r \in RequestIds :
    /\ new.request[r].amount_spent = v.request[r].amount_spent + (IF r \in G THEN a ELSE 0)
    /\ new.request[r].spending_cap # v.request[r].spending_cap =>
         v.request[r].status \in Unanswered
    /\ new.request[r].status \in Unanswered => v.request[r].status \in Unanswered
    /\ v.request[r].status \in Granted => new.request[r].status \in Granted

-----------------------------------------------------------------------------
\* Totals of debits are sums.
LEMMA TotalIsSum ==
  ASSUME NEW v, NEW T, IsFiniteSet(T), NEW g, \A t \in T : g[t] = v.txn[t].amount
  PROVE  total_of(v, T) = SumOf(g, T)
<1> DEFINE P(iter) == iter = [s \in SUBSET T |->
              IF s = {} THEN 0
              ELSE v.txn[CHOOSE x \in s : TRUE].amount + iter[s \ {CHOOSE x \in s : TRUE}]]
<1>1. total_of(v, T) = (CHOOSE iter : P(iter))[T]
  BY DEF total_of, MapThenSumSet, MapThenFoldSet
<1>2. ASSUME NEW a PROVE P(a) <=> IsSum(a, g, T)
  <2>1. ASSUME NEW s \in SUBSET T, s # {} PROVE v.txn[Pick(s)].amount = g[Pick(s)]
    BY <2>1, PickFacts
  <2>2. [s \in SUBSET T |-> IF s = {} THEN 0 ELSE v.txn[Pick(s)].amount + a[s \ {Pick(s)}]]
        = [s \in SUBSET T |-> IF s = {} THEN 0 ELSE g[Pick(s)] + a[s \ {Pick(s)}]]
    BY <2>1
  <2>3. P(a) <=> a = [s \in SUBSET T |-> IF s = {} THEN 0 ELSE v.txn[Pick(s)].amount + a[s \ {Pick(s)}]]
    BY Zenon DEF Pick
  <2> HIDE DEF P
  <2> QED BY <2>2, <2>3 DEF IsSum
<1> HIDE DEF P
<1>3. P(CHOOSE iter : P(iter))
  BY <1>2, SumExists
<1> DEFINE c == CHOOSE iter : P(iter)
<1> HIDE DEF c
<1>4. IsSum(c, g, T)
  BY <1>2, <1>3 DEF c
<1>5. c[T] = SumOf(g, T)
  BY <1>4, SumIsSumOf
<1> QED BY <1>1, <1>5 DEF c

LEMMA LimitTotals ==
  ASSUME NEW T
  PROVE  LimitTotal(T) = total_of(limits, T) /\ LimitTotal(T)' = total_of(limits', T)
BY DEF LimitTotal

LEMMA TxnsFinite == IsFiniteSet(TxnIds)
<1>1. 1 \in Int /\ MaxTxns \in Int
  BY LimitAssumption DEF LimitAssumption
<1> QED BY <1>1, FS_Interval DEF TxnIds

\* A total is a number, and part of it is no more.
LEMMA TotalFacts ==
  ASSUME NEW v \in LimitTables, NEW T, T \subseteq TxnIds
  PROVE  total_of(v, T) \in Nat /\ \A S \in SUBSET T : total_of(v, S) <= total_of(v, T)
<1> DEFINE g == [t \in TxnIds |-> v.txn[t].amount]
<1>1. IsFiniteSet(TxnIds) /\ \A t \in TxnIds : g[t] = v.txn[t].amount /\ g[t] \in Nat
  BY TableAmounts, TxnsFinite
<1> HIDE DEF g
<1>2. \A S \in SUBSET T : IsFiniteSet(S) /\ total_of(v, S) = SumOf(g, S)
  <2> SUFFICES ASSUME NEW S \in SUBSET T PROVE IsFiniteSet(S) /\ total_of(v, S) = SumOf(g, S)
    OBVIOUS
  <2>1. IsFiniteSet(S) /\ \A t \in S : g[t] = v.txn[t].amount
    BY <1>1, FS_Subset
  <2> QED BY <2>1, TotalIsSum
<1>3. IsFiniteSet(T) /\ \A t \in T : g[t] \in Nat
  BY <1>1, <1>2
<1>4. SumOf(g, T) \in Nat
  BY <1>3, SumOfType
<1>5. \A S \in SUBSET T : SumOf(g, S) <= SumOf(g, T)
  BY <1>3, SumOfSubset
<1> QED BY <1>2, <1>4, <1>5

\* Totals over debits with the same amounts are equal.
LEMMA TotalSame ==
  ASSUME NEW v \in LimitTables, NEW w \in LimitTables, NEW T, T \subseteq TxnIds,
         \A t \in T : w.txn[t].amount = v.txn[t].amount
  PROVE  total_of(w, T) = total_of(v, T)
<1> DEFINE g == [t \in TxnIds |-> v.txn[t].amount]
<1>1. IsFiniteSet(T) /\ \A t \in T : g[t] = v.txn[t].amount /\ g[t] = w.txn[t].amount
  BY TxnsFinite, FS_Subset
<1> HIDE DEF g
<1>2. total_of(v, T) = SumOf(g, T) /\ total_of(w, T) = SumOf(g, T)
  BY <1>1, TotalIsSum
<1> QED BY <1>2

\* One more debit.
LEMMA TotalAdds ==
  ASSUME NEW v \in LimitTables, NEW w \in LimitTables, NEW T, T \subseteq TxnIds,
         NEW t \in TxnIds, t \notin T, \A u \in T : w.txn[u].amount = v.txn[u].amount
  PROVE  total_of(w, T \cup {t}) = total_of(v, T) + w.txn[t].amount
<1> DEFINE g == [u \in TxnIds |-> w.txn[u].amount]
           U == T \cup {t}
<1>1. /\ IsFiniteSet(U) /\ \A u \in U : g[u] = w.txn[u].amount /\ g[u] \in Int
      /\ U \ {t} = T /\ t \in U
  <2>1. IsFiniteSet(U)
    BY TxnsFinite, FS_Subset
  <2> QED BY <2>1, TableAmounts
<1> HIDE DEF g, U
<1>2. total_of(w, U) = SumOf(g, U)
  BY <1>1, TotalIsSum
<1>3. SumOf(g, U) = g[t] + SumOf(g, T)
  BY <1>1, SumOfRemove
<1>4. total_of(w, T) = SumOf(g, T)
  <2>1. IsFiniteSet(T) /\ \A u \in T : g[u] = w.txn[u].amount
    BY <1>1, FS_Subset
  <2> QED BY <2>1, TotalIsSum
<1>5. total_of(w, T) = total_of(v, T) /\ total_of(v, T) \in Nat
  BY TotalSame, TotalFacts
<1>6. g[t] = w.txn[t].amount /\ g[t] \in Int
  BY <1>1
<1> QED BY <1>2, <1>3, <1>4, <1>5, <1>6 DEF U
-----------------------------------------------------------------------------
\* The grant in force is one, and approved.
LEMMA NewestFacts ==
  ASSUME NEW v, NEW L
  PROVE  /\ AtMostOne(Newest(v, L)) /\ Newest(v, L) \subseteq RequestIds
         /\ \A g \in Newest(v, L) : v.request[g].status = "APPROVED"
BY DEF AtMostOne, Newest, Usable, Unlapsed, WithStatus, RequestIds

LEMMA ChargedType ==
  ASSUME LimitTypeOK, NEW t \in TxnIds
  PROVE  Charged(t) \in RequestIds \cup {Nothing}
BY DEF LimitTypeOK, Charged

\* Writing the status of a request.
LEMMA StatusWritten ==
  ASSUME NEW row \in RequestRow, NEW status
  PROVE  LET new == [row EXCEPT !.status = status]
         IN /\ new.status = status /\ new.spending_cap = row.spending_cap
            /\ new.amount_spent = row.amount_spent
BY DEF RequestRow

\* Marking grants charges nothing.
LEMMA ActiveGrantCharges ==
  ASSUME NEW v \in LimitTables, NEW mid, NEW back
  PROVE  Charges(v, active_grant(v, mid, back), {}, 0)
<1> DEFINE w == active_grant(v, mid, back)
           expired == WithStatus(v, "APPROVED") \cap lapsed
           passed == expired \cup PassedOver(v, mid)
<1>1. v.request \in [RequestIds -> RequestRow]
  BY DEF LimitTables
<1>2. \A r \in RequestIds : w.request[r] =
        [v.request[r] EXCEPT !.status =
           IF r \in expired \cup (PassedOver(v, mid) \cap mid) THEN "EXPIRED"
           ELSE IF r \in PassedOver(v, mid) THEN "EXHAUSTED" ELSE @]
  BY DEF active_grant, Marked, LimitTables
<1>3. ASSUME NEW r \in RequestIds
      PROVE  /\ w.request[r].amount_spent = v.request[r].amount_spent
             /\ w.request[r].spending_cap = v.request[r].spending_cap
             /\ w.request[r].status \in {v.request[r].status, "EXPIRED", "EXHAUSTED"}
             /\ w.request[r].status # v.request[r].status => v.request[r].status = "APPROVED"
  <2>1. PICK status : /\ w.request[r] = [v.request[r] EXCEPT !.status = status]
                      /\ status \in {v.request[r].status, "EXPIRED", "EXHAUSTED"}
                      /\ status # v.request[r].status => r \in passed
    BY <1>2
  <2>2. r \in passed => v.request[r].status = "APPROVED"
    BY DEF WithStatus, PassedOver, Unlapsed
  <2> QED BY <1>1, <2>1, <2>2, StatusWritten
<1>4. \A r \in RequestIds : v.request[r].amount_spent \in Nat
  BY TableAmounts
<1> HIDE DEF w
<1> QED BY <1>3, <1>4 DEF Charges, Granted, Unanswered, w

\* Counting a debit charges the grant in force.
LEMMA RecordCharges ==
  ASSUME NEW v \in LimitTables, NEW amount \in Nat, NEW mid, NEW back
  PROVE  LET new == record_debit_against_grant(v, amount, mid, back)
         IN Charges(v, new, Newest(v, lapsed \cup mid), amount) /\ new.txn = v.txn
<1> DEFINE w == active_grant(v, mid, back)
           grant == Newest(v, lapsed \cup mid)
           spent(row) == [row EXCEPT !.amount_spent = @ + amount]
           counted(row) == IF UsedUp(spent(row))
                           THEN [spent(row) EXCEPT !.status = "EXHAUSTED"]
                           ELSE spent(row)
           row(r) == IF r \in grant THEN counted(w.request[r]) ELSE w.request[r]
           exhausts == \E r \in grant : UsedUp(spent(w.request[r]))
           new == record_debit_against_grant(v, amount, mid, back)
<1>1. /\ w \in LimitTables /\ w.request \in [RequestIds -> RequestRow] /\ w.txn = v.txn
      /\ \A r \in RequestIds : w.request[r].amount_spent \in Nat /\ v.request[r].amount_spent \in Nat
  BY ActiveGrantLowers, TableAmounts DEF LimitTables
<1>2. /\ new.txn = w.txn
      /\ \A r \in RequestIds : new.request[r] =
           IF r \in grant THEN counted(w.request[r]) ELSE w.request[r]
  <2>1. new = [w EXCEPT !.request = [r \in RequestIds |-> row(r)],
                        !.column = IF exhausts THEN "default" ELSE @]
    BY DEF record_debit_against_grant
  <2> DEFINE rows == [r \in RequestIds |-> row(r)]
             column == IF exhausts THEN "default" ELSE w.column
  <2>3. \A r \in RequestIds : rows[r] = row(r)
    OBVIOUS
  <2>4. new = Rewrite(w, rows, column)
    BY <2>1, Zenon DEF Rewrite
  <2> HIDE DEF w, row, new, exhausts, rows, column
  <2>5. new.txn = w.txn /\ new.request = rows
    BY <1>1, <2>4, Rewritten
  <2>6. \A r \in RequestIds : new.request[r] = row(r)
    BY <2>3, <2>5
  <2> QED BY <2>5, <2>6, Zenon DEF row
<1>3. Charges(v, w, {}, 0)
  BY ActiveGrantCharges
<1>4. ASSUME NEW before \in RequestRow
      PROVE  /\ counted(before).amount_spent = before.amount_spent + amount
             /\ counted(before).spending_cap = before.spending_cap
             /\ counted(before).status \in {before.status, "EXHAUSTED"}
  <2> DEFINE after == spent(before)
             exhausted == [after EXCEPT !.status = "EXHAUSTED"]
  <2>1. /\ after \in RequestRow /\ after.amount_spent = before.amount_spent + amount
        /\ after.spending_cap = before.spending_cap /\ after.status = before.status
    BY DEF RequestRow
  <2>2. counted(before) \in {after, exhausted}
    OBVIOUS
  <2> HIDE DEF after, counted
  <2>3. /\ exhausted.amount_spent = after.amount_spent
        /\ exhausted.spending_cap = after.spending_cap /\ exhausted.status = "EXHAUSTED"
    BY <2>1, StatusWritten
  <2> HIDE DEF exhausted
  <2> QED BY <2>1, <2>2, <2>3
<1> HIDE DEF w, row, counted, new
<1>5. ASSUME NEW r \in RequestIds
      PROVE  /\ new.request[r].amount_spent =
                  v.request[r].amount_spent + (IF r \in grant THEN amount ELSE 0)
             /\ new.request[r].spending_cap = w.request[r].spending_cap
             /\ new.request[r].status \in {w.request[r].status, "EXHAUSTED"}
  <2>1. w.request[r].amount_spent = v.request[r].amount_spent
    BY <1>1, <1>3 DEF Charges
  <2>2. CASE r \in grant
    BY <1>1, <1>2, <1>4, <2>1, <2>2
  <2>3. CASE r \notin grant
    BY <1>1, <1>2, <2>1, <2>3
  <2> QED BY <2>2, <2>3
<1>6. Charges(v, new, grant, amount)
  BY <1>3, <1>5 DEF Charges, Granted, Unanswered
<1> QED BY <1>1, <1>2, <1>6 DEF new

\* What a commit makes of a debit.
LEMMA TxnsMerged ==
  ASSUME LimitTypeOK, NEW s \in Requesters, limitView[s] # NoView, NEW new \in LimitTables,
         NEW mid, LimitCommit(s, new, mid), NEW t \in TxnIds
  PROVE  LET old == limitView[s].txn[t]
             row == limits'.txn[t]
         IN /\ row.status = IF new.txn[t].status # old.status THEN new.txn[t].status
                            ELSE limits.txn[t].status
            /\ row.amount = IF new.txn[t].amount # old.amount THEN new.txn[t].amount
                            ELSE limits.txn[t].amount
<1>1. limits \in LimitTables
  BY DEF LimitTypeOK
<1>2. /\ DOMAIN limits.txn = TxnIds /\ DOMAIN limits.txn[t] = {"status", "amount"}
  BY <1>1 DEF LimitTables, Debits
<1>3. limits'.txn[t] = MergeRow(limitView[s].txn[t], new.txn[t], limits.txn[t])
  BY <1>2 DEF LimitCommit, LimitMerged, MergeTable
<1> QED BY <1>2, <1>3 DEF MergeRow
-----------------------------------------------------------------------------
(* The commits of who has seen the requests as they are.                   *)

\* A commit that charges nothing to a grant.
LEMMA SameCharges ==
  ASSUME LimitTypeOK, LimitTypeOK', RowsFollow, SpentIsCounted, CapHolds,
         "request" \notin limitStale, NEW s \in Requesters,
         limitView' = [limitView EXCEPT ![s] = NoView],
         Charges(limits, limits', {}, 0), settledLate \subseteq settledLate',
         \A t \in TxnIds : Charged(t)' = Charged(t),
         \A t \in TxnIds : Charged(t) # Nothing => limits'.txn[t].amount = limits.txn[t].amount
  PROVE  RowsFollow' /\ SpentIsCounted' /\ CapHolds'
<1>1. /\ limits \in LimitTables /\ limits' \in LimitTables
      /\ \A r \in RequestIds :
           /\ limits.request[r].amount_spent \in Nat
           /\ limits'.request[r].amount_spent = limits.request[r].amount_spent
           /\ limits.request[r].spending_cap \in Caps \cup {NoCap}
           /\ limits'.request[r].spending_cap \in Caps \cup {NoCap}
  <2>1. limits \in LimitTables /\ limits' \in LimitTables
    BY DEF LimitTypeOK
  <2>2. \A r \in RequestIds : limits.request[r].amount_spent \in Nat
    BY <2>1, TableAmounts
  <2>3. \A r \in RequestIds : limits.request[r].spending_cap \in Caps \cup {NoCap}
                              /\ limits'.request[r].spending_cap \in Caps \cup {NoCap}
    BY <2>1 DEF LimitTables, RequestRow
  <2> QED BY <2>1, <2>2, <2>3 DEF Charges
<1>2. ASSUME NEW q \in Requesters, limitView'[q] # NoView
      PROVE  limitView'[q] = limitView[q] /\ limitView[q] # NoView
  BY <1>2 DEF LimitTypeOK
<1>3. ASSUME NEW r \in RequestIds
      PROVE  /\ CountedUnder(r) \subseteq TxnIds /\ CountedUnder(r)' = CountedUnder(r)
             /\ \A t \in CountedUnder(r) : limits'.txn[t].amount = limits.txn[t].amount
  BY LimitAssumption DEF CountedUnder, LimitAssumption, RequestIds
<1>4. RowsFollow'
  <2>1. \A r \in RequestIds : limits'.request[r].status \in Unanswered =>
          limits'.request[r].amount_spent = 0
    BY <1>1 DEF RowsFollow, Charges
  <2>2. ASSUME NEW q \in Requesters, limitView'[q] # NoView
        PROVE  /\ \A r \in RequestIds :
                    limitView'[q].request[r].amount_spent <= limits'.request[r].amount_spent
               /\ \A t \in TxnIds :
                    limitView'[q].txn[t].status \in {"PENDING", "PROCESSING"}
                    /\ Charged(t)' # Nothing =>
                      limitView'[q].request[Charged(t)'].amount_spent
                        < limits'.request[Charged(t)'].amount_spent
    <3>1. \A t \in TxnIds : Charged(t) # Nothing => Charged(t) \in RequestIds
      BY ChargedType
    <3> QED BY <1>1, <1>2, <2>2, <3>1 DEF RowsFollow
  <2> QED BY <2>1, <2>2 DEF RowsFollow
<1>5. SpentIsCounted'
  <2>1. ASSUME NEW r \in RequestIds
        PROVE  limits'.request[r].amount_spent = total_of(limits', CountedUnder(r)')
    <3>1. total_of(limits', CountedUnder(r)) = total_of(limits, CountedUnder(r))
      BY <1>1, <1>3, TotalSame
    <3>2. limits.request[r].amount_spent = total_of(limits, CountedUnder(r))
      BY LimitTotals DEF SpentIsCounted
    <3> QED BY <1>1, <1>3, <3>1, <3>2
  <2>2. \A r \in RequestIds : LimitTotal(CountedUnder(r))' = total_of(limits', CountedUnder(r)')
    BY DEF LimitTotal
  <2> QED BY <2>1, <2>2 DEF SpentIsCounted
<1>6. CapHolds'
  <2>1. ASSUME NEW r \in RequestIds, limits'.request[r].spending_cap # NoCap
        PROVE  total_of(limits', {t \in CountedUnder(r)' : t \notin settledLate'})
                 <= limits'.request[r].spending_cap
    <3> DEFINE counted == CountedUnder(r)
               early == {t \in counted : t \notin settledLate}
               left == {t \in counted : t \notin settledLate'}
    <3>1. /\ counted \subseteq TxnIds /\ early \subseteq counted /\ left \subseteq early
          /\ \A t \in counted : limits'.txn[t].amount = limits.txn[t].amount
      BY <1>3
    <3>2. left = {t \in CountedUnder(r)' : t \notin settledLate'}
      BY <1>3
    <3>3. CASE limits'.request[r].spending_cap = limits.request[r].spending_cap
      <4>1. total_of(limits, early) <= limits.request[r].spending_cap
        BY <2>1, <3>3, LimitTotals DEF CapHolds
      <4> HIDE DEF early, left, counted
      <4>2. total_of(limits', left) = total_of(limits, left)
        BY <1>1, <3>1, TotalSame
      <4>3. total_of(limits, left) \in Nat /\ total_of(limits, early) \in Nat
            /\ total_of(limits, left) <= total_of(limits, early)
        BY <1>1, <3>1, TotalFacts
      <4>4. limits.request[r].spending_cap \in Nat
        BY <1>1, <2>1, <3>3, LimitAssumption DEF LimitAssumption
      <4> QED BY <3>2, <3>3, <4>1, <4>2, <4>3, <4>4
    <3>4. CASE limits'.request[r].spending_cap # limits.request[r].spending_cap
      <4>1. limits.request[r].amount_spent = 0
        BY <3>4 DEF Charges, RowsFollow
      <4>2. total_of(limits, counted) = 0
        BY <4>1, LimitTotals DEF SpentIsCounted
      <4> HIDE DEF early, left, counted
      <4>3. total_of(limits', left) = total_of(limits, left)
        BY <1>1, <3>1, TotalSame
      <4>4. total_of(limits, left) \in Nat /\ total_of(limits, left) <= total_of(limits, counted)
        BY <1>1, <3>1, TotalFacts
      <4>5. limits'.request[r].spending_cap \in Nat
        BY <1>1, <2>1, LimitAssumption DEF LimitAssumption
      <4> QED BY <3>2, <4>2, <4>3, <4>4, <4>5
    <3> QED BY <3>3, <3>4
  <2>2. \A r \in RequestIds : LimitTotal({t \in CountedUnder(r) : t \notin settledLate})'
                              = total_of(limits', {t \in CountedUnder(r)' : t \notin settledLate'})
    BY DEF LimitTotal
  <2> QED BY <2>1, <2>2 DEF CapHolds
<1> QED BY <1>4, <1>5, <1>6

\* A commit that charges a debit to the grant in force: one that was checked
\* against the cap, or that is settled late.
LEMMA OneCharge ==
  ASSUME LimitTypeOK, LimitTypeOK', RowsFollow, SpentIsCounted, CapHolds,
         "request" \notin limitStale, NEW s \in Requesters,
         limitView' = [limitView EXCEPT ![s] = NoView],
         NEW g \in RequestIds, NEW t \in TxnIds, NEW a \in Nat, a > 0,
         limits.request[g].status = "APPROVED",
         Charges(limits, limits', {g}, a), Charged(t) = Nothing,
         \A u \in TxnIds : Charged(u)' = IF u = t THEN g ELSE Charged(u),
         settledLate \subseteq settledLate', limits'.txn[t].amount = a,
         \A u \in TxnIds : Charged(u) # Nothing => limits'.txn[u].amount = limits.txn[u].amount,
         \/ t \in settledLate'
         \/ limits.request[g].spending_cap # NoCap =>
              a <= limits.request[g].spending_cap - limits.request[g].amount_spent
  PROVE  RowsFollow' /\ SpentIsCounted' /\ CapHolds'
<1>1. /\ limits \in LimitTables /\ limits' \in LimitTables
      /\ \A r \in RequestIds :
           /\ limits.request[r].amount_spent \in Nat
           /\ limits'.request[r].amount_spent =
                limits.request[r].amount_spent + (IF r = g THEN a ELSE 0)
           /\ limits.request[r].spending_cap \in Caps \cup {NoCap}
           /\ limits'.request[r].spending_cap \in Caps \cup {NoCap}
  <2>1. limits \in LimitTables /\ limits' \in LimitTables
    BY DEF LimitTypeOK
  <2>2. \A r \in RequestIds : limits.request[r].amount_spent \in Nat
    BY <2>1, TableAmounts
  <2>3. \A r \in RequestIds : limits.request[r].spending_cap \in Caps \cup {NoCap}
                              /\ limits'.request[r].spending_cap \in Caps \cup {NoCap}
    BY <2>1 DEF LimitTables, RequestRow
  <2> QED BY <2>1, <2>2, <2>3 DEF Charges
<1>2. ASSUME NEW q \in Requesters, limitView'[q] # NoView
      PROVE  limitView'[q] = limitView[q] /\ limitView[q] # NoView
  BY <1>2 DEF LimitTypeOK
<1>3. ASSUME NEW r \in RequestIds
      PROVE  /\ CountedUnder(r) \subseteq TxnIds /\ t \notin CountedUnder(r)
             /\ CountedUnder(r)' = IF r = g THEN CountedUnder(r) \cup {t} ELSE CountedUnder(r)
             /\ \A u \in CountedUnder(r) : limits'.txn[u].amount = limits.txn[u].amount
  <2>1. Nothing # r
    BY LimitAssumption DEF LimitAssumption, RequestIds
  <2> QED BY <2>1 DEF CountedUnder
<1>4. RowsFollow'
  <2>1. \A r \in RequestIds : limits'.request[r].status \in Unanswered =>
          limits'.request[r].amount_spent = 0
    <3>1. limits'.request[g].status \notin Unanswered
      BY DEF Charges, Unanswered
    <3> QED BY <1>1, <3>1 DEF RowsFollow, Charges
  <2>2. ASSUME NEW q \in Requesters, limitView'[q] # NoView
        PROVE  /\ \A r \in RequestIds :
                    limitView'[q].request[r].amount_spent <= limits'.request[r].amount_spent
               /\ \A u \in TxnIds :
                    limitView'[q].txn[u].status \in {"PENDING", "PROCESSING"}
                    /\ Charged(u)' # Nothing =>
                      limitView'[q].request[Charged(u)'].amount_spent
                        < limits'.request[Charged(u)'].amount_spent
    <3> DEFINE v == limitView[q]
    <3>1. /\ v \in LimitTables /\ v = limitView'[q]
          /\ \A r \in RequestIds : v.request[r].amount_spent <= limits.request[r].amount_spent
          /\ \A u \in TxnIds :
               v.txn[u].status \in {"PENDING", "PROCESSING"} /\ Charged(u) # Nothing =>
                 v.request[Charged(u)].amount_spent < limits.request[Charged(u)].amount_spent
      BY <1>2, <2>2 DEF RowsFollow, LimitTypeOK
    <3> HIDE DEF v
    <3>2. \A r \in RequestIds : v.request[r].amount_spent \in Nat
      BY <3>1, TableAmounts
    <3>3. \A r \in RequestIds : v.request[r].amount_spent <= limits'.request[r].amount_spent
      BY <1>1, <3>1, <3>2
    <3>4. ASSUME NEW u \in TxnIds, v.txn[u].status \in {"PENDING", "PROCESSING"},
                 Charged(u)' # Nothing
          PROVE  v.request[Charged(u)'].amount_spent < limits'.request[Charged(u)'].amount_spent
      <4>1. CASE u = t
        <5>1. Charged(u)' = g
          BY <4>1
        <5>2. v.request[g].amount_spent < limits'.request[g].amount_spent
          BY <1>1, <3>1, <3>2
        <5> QED BY <5>1, <5>2
      <4>2. CASE u # t
        <5>1. Charged(u)' = Charged(u) /\ Charged(u) \in RequestIds
          BY <3>4, <4>2, ChargedType
        <5> QED BY <1>1, <3>1, <3>2, <3>4, <5>1
      <4> QED BY <4>1, <4>2
    <3> QED BY <3>1, <3>3, <3>4
  <2> QED BY <2>1, <2>2 DEF RowsFollow
<1>5. \A r \in RequestIds : /\ limits.request[r].amount_spent = total_of(limits, CountedUnder(r))
                            /\ total_of(limits, CountedUnder(r)) \in Nat
  BY <1>1, LimitTotals DEF SpentIsCounted
<1>6. SpentIsCounted'
  <2>1. ASSUME NEW r \in RequestIds
        PROVE  limits'.request[r].amount_spent = total_of(limits', CountedUnder(r)')
    <3>1. CASE r = g
      <4>1. total_of(limits', CountedUnder(r) \cup {t}) = total_of(limits, CountedUnder(r)) + a
        BY <1>1, <1>3, TotalAdds
      <4> QED BY <1>1, <1>3, <1>5, <3>1, <4>1
    <3>2. CASE r # g
      <4>1. total_of(limits', CountedUnder(r)) = total_of(limits, CountedUnder(r))
        BY <1>1, <1>3, TotalSame
      <4> QED BY <1>1, <1>3, <1>5, <3>2, <4>1
    <3> QED BY <3>1, <3>2
  <2>2. \A r \in RequestIds : LimitTotal(CountedUnder(r))' = total_of(limits', CountedUnder(r)')
    BY DEF LimitTotal
  <2> QED BY <2>1, <2>2 DEF SpentIsCounted
<1>7. CapHolds'
  <2>1. ASSUME NEW r \in RequestIds, limits'.request[r].spending_cap # NoCap
        PROVE  total_of(limits', {u \in CountedUnder(r)' : u \notin settledLate'})
                 <= limits'.request[r].spending_cap
    <3> DEFINE counted == CountedUnder(r)
               early == {u \in counted : u \notin settledLate}
               left == {u \in counted : u \notin settledLate'}
               after == {u \in CountedUnder(r)' : u \notin settledLate'}
    <3>1. /\ counted \subseteq TxnIds /\ early \subseteq counted /\ left \subseteq early
          /\ \A u \in counted : limits'.txn[u].amount = limits.txn[u].amount
          /\ t \notin counted
      BY <1>3
    <3>2. /\ after = left \/ after = left \cup {t}
          /\ r # g \/ t \in settledLate' => after = left
      BY <1>3
    <3>3. r = g => limits'.request[r].spending_cap = limits.request[r].spending_cap
      BY DEF Charges, Unanswered
    <3>4. limits'.request[r].spending_cap # limits.request[r].spending_cap =>
            limits.request[r].amount_spent = 0
      BY DEF Charges, RowsFollow
    <3>5. limits'.request[r].spending_cap = limits.request[r].spending_cap =>
            total_of(limits, early) <= limits.request[r].spending_cap
      BY <2>1, LimitTotals DEF CapHolds
    <3>6. limits'.request[r].spending_cap \in Nat
      BY <1>1, <2>1, LimitAssumption DEF LimitAssumption
    <3> HIDE DEF early, left, counted, after
    <3>7. /\ total_of(limits', left) = total_of(limits, left)
          /\ total_of(limits', left \cup {t}) = total_of(limits, left) + a
      BY <1>1, <3>1, TotalSame, TotalAdds
    <3>8. /\ total_of(limits, left) \in Nat /\ total_of(limits, early) \in Nat
          /\ total_of(limits, left) <= total_of(limits, early)
          /\ total_of(limits, left) <= total_of(limits, counted)
      BY <1>1, <3>1, TotalFacts
    <3>9. limits.request[r].amount_spent = total_of(limits, counted)
          /\ total_of(limits, counted) \in Nat
      BY <1>5 DEF counted
    <3>10. CASE after = left
      <4>1. total_of(limits, left) <= limits'.request[r].spending_cap
        <5>1. CASE limits'.request[r].spending_cap = limits.request[r].spending_cap
          BY <3>5, <3>6, <3>8, <5>1
        <5>2. CASE limits'.request[r].spending_cap # limits.request[r].spending_cap
          BY <3>4, <3>6, <3>8, <3>9, <5>2
        <5> QED BY <5>1, <5>2
      <4>2. total_of(limits', after) <= limits'.request[r].spending_cap
        BY <3>7, <3>10, <4>1
      <4> QED BY <4>2 DEF after
    <3>11. CASE after # left
      <4>1. /\ r = g /\ t \notin settledLate' /\ after = left \cup {t}
            /\ limits.request[r].spending_cap = limits'.request[r].spending_cap
        BY <3>2, <3>3, <3>11
      <4>2. a <= limits'.request[r].spending_cap - total_of(limits, counted)
        BY <2>1, <3>9, <4>1
      <4>3. total_of(limits, left) + a <= limits'.request[r].spending_cap
        BY <3>6, <3>8, <3>9, <4>2
      <4> QED BY <3>7, <4>1, <4>3 DEF after
    <3> QED BY <3>10, <3>11
  <2>2. \A r \in RequestIds : LimitTotal({u \in CountedUnder(r) : u \notin settledLate})'
                              = total_of(limits', {u \in CountedUnder(r)' : u \notin settledLate'})
    BY DEF LimitTotal
  <2> QED BY <2>1, <2>2 DEF CapHolds
<1> QED BY <1>4, <1>6, <1>7
-----------------------------------------------------------------------------
\* A commit that touches one debit, or none.
LEMMA TxnsStep ==
  ASSUME LimitTypeOK, TxnsFollow, NEW s \in Requesters, NEW t \in TxnIds,
         limitView' = [limitView EXCEPT ![s] = NoView], waited \subseteq waited',
         \A u \in TxnIds \ {t} : /\ limits'.txn[u].status = limits.txn[u].status
                                 /\ limits'.txn[u].amount = limits.txn[u].amount
                                 /\ under'[u] = under[u] /\ (u \in missed' <=> u \in missed),
         limits'.txn[t].amount = 0 <=> ~Made(limits', t),
         limits.txn[t].amount # 0 => limits'.txn[t].amount = limits.txn[t].amount,
         under'[t] # Nothing \/ t \in missed' => limits'.txn[t].status \in {"SUCCESS", "FAILED"},
         limits'.txn[t].status = "PENDING" => t \in waited'
  PROVE  TxnsFollow'
<1>1. ASSUME NEW q \in Requesters, limitView'[q] # NoView
      PROVE  limitView'[q] = limitView[q] /\ limitView[q] # NoView
  BY <1>1 DEF LimitTypeOK
<1>2. \A u \in TxnIds : limits.txn[u].amount # 0 => limits'.txn[u].amount = limits.txn[u].amount
  OBVIOUS
<1>3. ASSUME NEW u \in TxnIds
      PROVE  /\ limits'.txn[u].amount = 0 <=> ~Made(limits', u)
             /\ under'[u] # Nothing \/ u \in missed' =>
                  limits'.txn[u].status \in {"SUCCESS", "FAILED"}
             /\ limits'.txn[u].status = "PENDING" => u \in waited'
  BY DEF TxnsFollow, Made
<1>4. ASSUME NEW q \in Requesters, limitView'[q] # NoView, NEW u \in TxnIds
      PROVE  /\ limitView'[q].txn[u].amount = 0 <=> ~Made(limitView'[q], u)
             /\ Made(limitView'[q], u) =>
                  limitView'[q].txn[u].amount = limits'.txn[u].amount
  BY <1>1, <1>2, <1>4 DEF TxnsFollow
<1> QED BY <1>3, <1>4 DEF TxnsFollow, Made

\* What is spent of a day.
Today(v, W) == {t \in TxnIds \ W : v.txn[t].status \in {"PROCESSING", "SUCCESS"}}

\* The daily limit stands, unless a debit is made: that one was checked.
LEMMA DailyStep ==
  ASSUME LimitTypeOK, LimitTypeOK', DailyLimitHolds, limitStale = {},
         \A r \in RequestIds : limits.request[r].status \in Granted =>
           limits'.request[r].status \in Granted,
         NEW made, made \subseteq TxnIds, \A t, u \in made : t = u,
         Today(limits', waited') \subseteq Today(limits, waited) \cup made,
         \A t \in Today(limits, waited) : t \notin made
                                          /\ limits'.txn[t].amount = limits.txn[t].amount,
         NEW L, \A t \in made :
           spent_today(limits) + limits'.txn[t].amount <= effective_limits(limits, L).daily
  PROVE  DailyLimitHolds'
<1> DEFINE larger == IF Default.daily <= Raised.daily THEN Raised.daily ELSE Default.daily
           bound(v) == IF \E r \in RequestIds : v.request[r].status \in Granted
                       THEN larger ELSE Default.daily
           before == Today(limits, waited)
           after == Today(limits', waited')
<1>1. /\ limits \in LimitTables /\ limits' \in LimitTables
      /\ before \subseteq TxnIds /\ after \subseteq TxnIds /\ before \cup made \subseteq TxnIds
  BY DEF LimitTypeOK, Today
<1>2. /\ Default.daily \in Nat /\ Raised.daily \in Nat /\ larger \in Nat
      /\ Default.daily <= larger /\ Raised.daily <= larger
  BY LimitAssumption DEF LimitAssumption
<1>3. /\ bound(limits) \in Nat /\ bound(limits') \in Nat /\ Default.daily <= bound(limits')
      /\ bound(limits) <= bound(limits')
  BY <1>2
<1>4. total_of(limits, before) <= bound(limits)
  <2>1. LimitTotal(before) = total_of(limits, before)
    BY LimitTotals
  <2>2. total_of(limits, before) \in Nat
    BY <1>1, TotalFacts
  <2>3. \/ total_of(limits, before) <= Default.daily
        \/ /\ total_of(limits, before) <= Raised.daily
           /\ \E r \in RequestIds : limits.request[r].status \in Granted
    BY <2>1 DEF DailyLimitHolds, Today, Granted
  <2> QED BY <1>2, <2>2, <2>3
<1>5. made # {} => effective_limits(limits, L).daily <= bound(limits')
  <2>1. CASE Newest(limits, L) # {}
    <3>1. PICK r \in RequestIds : limits.request[r].status = "APPROVED"
      BY <2>1, NewestFacts
    <3>2. limits'.request[r].status \in Granted
      BY <3>1 DEF Granted
    <3> QED BY <1>2, <2>1, <3>2 DEF effective_limits
  <2>2. CASE Newest(limits, L) = {}
    BY <1>3, <2>2 DEF effective_limits
  <2> QED BY <2>1, <2>2
<1>6. effective_limits(limits, L).daily \in Nat
  BY <1>2 DEF effective_limits
<1>7. total_of(limits, before) <= spent_today(limits) /\ spent_today(limits) \in Nat
  <2> DEFINE all == {t \in TxnIds : limits.txn[t].status \in {"PROCESSING", "SUCCESS"}}
  <2>1. before \subseteq all /\ all \subseteq TxnIds
    BY DEF Today
  <2>2. spent_today(limits) = total_of(limits, all)
    BY Zenon DEF spent_today
  <2> HIDE DEF all, before
  <2> QED BY <1>1, <2>1, <2>2, TotalFacts
<1> HIDE DEF before, after, bound
<1>8. total_of(limits', after) <= total_of(limits', before \cup made)
      /\ total_of(limits', after) \in Nat /\ total_of(limits', before \cup made) \in Nat
      /\ total_of(limits, before) \in Nat
  BY <1>1, TotalFacts DEF after, before
<1>9. total_of(limits', before \cup made) <= bound(limits')
  <2>1. CASE made = {}
    <3>1. total_of(limits', before) = total_of(limits, before)
      BY <1>1, TotalSame DEF before
    <3>2. total_of(limits', before \cup made) = total_of(limits', before)
      <4>1. before \cup made = before
        BY <2>1
      <4> QED BY <4>1, Zenon
    <3> QED BY <1>3, <1>4, <1>8, <3>1, <3>2
  <2>2. CASE made # {}
    <3>1. PICK t \in TxnIds : made = {t}
      BY <2>2
    <3>2. t \notin before /\ \A u \in before : limits'.txn[u].amount = limits.txn[u].amount
      BY <3>1 DEF before
    <3>3. total_of(limits', before \cup {t}) = total_of(limits, before) + limits'.txn[t].amount
      BY <1>1, <3>2, TotalAdds
    <3>4. limits'.txn[t].amount \in Nat
      BY <1>1, TableAmounts
    <3>5. spent_today(limits) + limits'.txn[t].amount <= effective_limits(limits, L).daily
      BY <3>1
    <3> QED BY <1>3, <1>5, <1>6, <1>7, <1>8, <2>2, <3>1, <3>3, <3>4, <3>5
  <2> QED BY <2>1, <2>2
<1>10. total_of(limits', after) <= bound(limits')
  BY <1>3, <1>8, <1>9
<1>11. LimitTotal({t \in TxnIds \ waited : limits.txn[t].status \in {"PROCESSING", "SUCCESS"}})'
       = total_of(limits', after)
  BY DEF LimitTotal, after, Today
<1> QED BY <1>2, <1>10, <1>11 DEF DailyLimitHolds, bound, Granted

-----------------------------------------------------------------------------
\* What has read the tables as they are has written them as they will be.
LEMMA FreshCommit ==
  ASSUME LimitTypeOK, NEW s \in Requesters, limitView[s] # NoView, NEW new \in LimitTables,
         NEW mid, LimitCommit(s, new, mid)
  PROVE  /\ "request" \notin limitStale' =>
              /\ "request" \notin limitStale
              /\ limitView[s].request = limits.request
              /\ \A G, a : Charges(limitView[s], new, G, a) => Charges(limits, limits', G, a)
         /\ limitStale' = {} =>
              /\ limitStale = {} /\ "request" \notin limitStale'
              /\ limitView[s].request = limits.request /\ limitView[s].txn = limits.txn
<1>1. /\ limitStale \subseteq limitStale'
      /\ "request" \notin limitStale' =>
           limitView[s].request = limits.request /\ limits'.request = new.request
  BY LimitsMerged
<1>2. limitStale' = {} => limitView[s].txn = limits.txn
  BY DEF LimitCommit
<1> QED BY <1>1, <1>2 DEF Charges

\* Nor is a debit it settles counted yet.
LEMMA SettlesUncounted ==
  ASSUME LimitTypeOK, RowsFollow, NEW s \in Requesters, limitView[s] # NoView,
         limitView[s].request = limits.request, NEW t \in TxnIds,
         limitView[s].txn[t].status \in {"PENDING", "PROCESSING"}
  PROVE  Charged(t) = Nothing
<1> SUFFICES ASSUME Charged(t) # Nothing PROVE FALSE
  OBVIOUS
<1>1. Charged(t) \in RequestIds
  BY ChargedType
<1>2. limits.request[Charged(t)].amount_spent < limits.request[Charged(t)].amount_spent
  BY <1>1 DEF RowsFollow
<1>3. limits.request[Charged(t)].amount_spent \in Nat
  BY <1>1, TableAmounts DEF LimitTypeOK
<1> QED BY <1>2, <1>3

\* A commit that leaves the debits alone.
LEMMA PlainCharges ==
  ASSUME LimitInv, LimitInv', ChargeInv, NEW s \in Requesters, limitView[s] # NoView,
         NEW new \in LimitTables, NEW mid, LimitCommit(s, new, mid),
         new.txn = limitView[s].txn,
         limitView[s].request = limits.request /\ RowsFollow =>
           Charges(limitView[s], new, {}, 0),
         UNCHANGED <<under, missed, waited, settledLate>>
  PROVE  ChargeInv'
<1>1. /\ LimitTypeOK /\ LimitTypeOK' /\ TxnsFollow
      /\ limitView' = [limitView EXCEPT ![s] = NoView]
  BY DEF LimitInv, ChargeInv, LimitCommit
<1>2. \A t \in TxnIds : /\ limits'.txn[t].status = limits.txn[t].status
                        /\ limits'.txn[t].amount = limits.txn[t].amount
  BY <1>1, TxnsMerged
<1>3. TxnsFollow'
  <2>1. CASE TxnIds = {}
    BY <2>1 DEF TxnsFollow
  <2>2. ASSUME NEW t \in TxnIds PROVE TxnsFollow'
    <3>1. /\ limits'.txn[t].amount = 0 <=> ~Made(limits', t)
          /\ under'[t] # Nothing \/ t \in missed' =>
               limits'.txn[t].status \in {"SUCCESS", "FAILED"}
          /\ limits'.txn[t].status = "PENDING" => t \in waited'
      BY <1>1, <1>2 DEF TxnsFollow, Made
    <3> QED BY <1>1, <1>2, <3>1, TxnsStep
  <2> QED BY <2>1, <2>2
<1>4. ASSUME "request" \notin limitStale'
      PROVE  /\ "request" \notin limitStale /\ RowsFollow /\ SpentIsCounted /\ CapHolds
             /\ Charges(limits, limits', {}, 0)
  BY <1>1, <1>4, FreshCommit DEF ChargeInv, GrantsAreCharged
<1>5. "request" \notin limitStale' => RowsFollow' /\ SpentIsCounted' /\ CapHolds'
  <2>1. \A t \in TxnIds : Charged(t)' = Charged(t)
    BY DEF Charged
  <2> QED BY <1>1, <1>2, <1>4, <2>1, SameCharges
<1>6. GrantsAreCharged'
  BY <1>5 DEF GrantsAreCharged, SpentIsCounted, CapHolds
<1>7. DailyLimitHolds'
  <2>1. CASE limitStale' = {}
    <3>1. limitStale = {} /\ "request" \notin limitStale'
      BY <1>1, <2>1, FreshCommit
    <3>2. \A r \in RequestIds : limits.request[r].status \in Granted =>
            limits'.request[r].status \in Granted
      BY <1>4, <3>1 DEF Charges
    <3>3. Today(limits', waited') = Today(limits, waited)
      BY <1>2 DEF Today
    <3>4. \A t \in Today(limits, waited) :
            t \notin {} /\ limits'.txn[t].amount = limits.txn[t].amount
      BY <1>2 DEF Today
    <3>5. DailyLimitHolds
      BY DEF ChargeInv
    <3> QED BY <1>1, <3>1, <3>2, <3>3, <3>4, <3>5, DailyStep
  <2>2. CASE limitStale' # {}
    BY <2>2 DEF DailyLimitHolds
  <2> QED BY <2>1, <2>2
<1> QED BY <1>3, <1>5, <1>6, <1>7 DEF ChargeInv

\* Nothing but a view changes, or a grant lapses.
LEMMA ReadCharges ==
  ASSUME LimitInv, LimitInv', ChargeInv,
         \/ \E s \in Requesters : LimitBegin(s) \/ LimitRollback(s)
         \/ \E r \in RequestIds : Lapse(r)
         \/ UNCHANGED limitVars
  PROVE  ChargeInv'
<1>1. UNCHANGED <<limits, under, missed, waited, settledLate, limitStale>>
  BY DEF LimitBegin, LimitRollback, Lapse, limitVars, limitHistory, commitHistory
<1>2. ASSUME NEW q \in Requesters, limitView'[q] # NoView
      PROVE  limitView'[q] \in {limitView[q], limits}
  BY <1>2 DEF LimitBegin, LimitRollback, Lapse, limitVars, LimitInv, LimitTypeOK
<1>3. TxnsFollow'
  BY <1>1, <1>2 DEF ChargeInv, TxnsFollow, Made
<1>4. ASSUME RowsFollow PROVE RowsFollow'
  <2>1. \A r \in RequestIds : limits.request[r].amount_spent \in Nat
    BY TableAmounts DEF LimitInv, LimitTypeOK
  <2>2. ASSUME NEW t \in TxnIds, limits.txn[t].status \in {"PENDING", "PROCESSING"}
        PROVE  Charged(t) = Nothing
    BY <2>2 DEF ChargeInv, TxnsFollow, Charged
  <2>4. \A t \in TxnIds : Charged(t)' = Charged(t)
    BY <1>1 DEF Charged
  <2>3. ASSUME NEW q \in Requesters, limitView'[q] # NoView
        PROVE  /\ \A r \in RequestIds :
                    limitView'[q].request[r].amount_spent <= limits.request[r].amount_spent
               /\ \A t \in TxnIds :
                    limitView'[q].txn[t].status \in {"PENDING", "PROCESSING"}
                    /\ Charged(t) # Nothing =>
                      limitView'[q].request[Charged(t)].amount_spent
                        < limits.request[Charged(t)].amount_spent
    <3>1. CASE limitView'[q] = limits
      BY <2>1, <2>2, <3>1
    <3>2. CASE limitView'[q] = limitView[q]
      BY <1>4, <2>3, <3>2 DEF RowsFollow
    <3> QED BY <1>2, <2>3, <3>1, <3>2
  <2> QED BY <1>1, <1>4, <2>3, <2>4 DEF RowsFollow
<1>5. SpentIsCounted' /\ CapHolds'
  BY <1>1 DEF ChargeInv, GrantsAreCharged, SpentIsCounted, CapHolds, CountedUnder, Charged,
              LimitTotal
<1>6. DailyLimitHolds'
  BY <1>1 DEF ChargeInv, DailyLimitHolds, LimitTotal
<1> QED BY <1>1, <1>3, <1>4, <1>5, <1>6 DEF ChargeInv, GrantsAreCharged

\* A debit is made, and counted or left to be.
LEMMA DebitCharges ==
  ASSUME LimitInv, LimitInv', ChargeInv, NEW s \in Requesters, limitView[s] # NoView,
         NEW amount \in Amounts, NEW status \in {"SUCCESS", "PROCESSING", "PENDING"},
         NEW mid \in MayLapse(limitView[s]), NEW back \in SUBSET mid,
         Debit(s, amount, status, mid, back)
  PROVE  ChargeInv'
<1> DEFINE v == limitView[s]
           grant == Newest(v, lapsed \cup mid)
           w == IF status = "SUCCESS" THEN record_debit_against_grant(v, amount, mid, back)
                ELSE active_grant(v, mid, back)
           debit == [status |-> status, amount |-> amount]
           G == IF status = "SUCCESS" THEN grant ELSE {}
<1>1. PICK t \in TxnIds :
        /\ limits.txn[t].status = "none"
        /\ LimitCommit(s, [w EXCEPT !.txn[t] = debit], mid)
        /\ ComesUnder(v, t, status, lapsed \cup mid)
        /\ waited' = IF status = "PENDING" THEN waited \cup {t} ELSE waited
        /\ settledLate' = settledLate /\ missed' = missed
  BY DEF Debit, NextId, LimitCommit
<1> DEFINE new == [w EXCEPT !.txn[t] = debit]
<1>2. /\ LimitTypeOK /\ LimitTypeOK' /\ TxnsFollow /\ v \in LimitTables
      /\ limitView' = [limitView EXCEPT ![s] = NoView]
  BY <1>1 DEF LimitInv, LimitTypeOK, ChargeInv, LimitCommit
<1>3. /\ amount \in Nat /\ amount > 0 /\ debit \in Debits
      /\ debit.status = status /\ debit.amount = amount
  <2>1. amount \in Nat \ {0}
    BY LimitAssumption DEF LimitAssumption
  <2> QED BY <2>1 DEF Debits
<1>4. w \in LimitTables /\ w.txn = v.txn /\ Charges(v, w, G, amount)
  <2>1. CASE status = "SUCCESS"
    BY <1>2, <1>3, <2>1, RecordLowers, RecordCharges
  <2>2. CASE status # "SUCCESS"
    <3>1. Charges(v, active_grant(v, mid, back), {}, 0)
      BY <1>2, ActiveGrantCharges
    <3>2. Charges(v, active_grant(v, mid, back), {}, amount)
      BY <3>1 DEF Charges
    <3> QED BY <1>2, <2>2, <3>2, ActiveGrantLowers
  <2> QED BY <2>1, <2>2
<1>5. LimitCommit(s, new, mid)
  BY <1>1
<1> HIDE DEF w, debit
<1>6. /\ new \in LimitTables /\ new.request = w.request
      /\ new.txn[t] = debit /\ \A u \in TxnIds \ {t} : new.txn[u] = v.txn[u]
  BY <1>2, <1>3, <1>4 DEF LimitTables
<1> HIDE DEF new
<1>7. v.txn[t].status = "none" /\ v.txn[t].amount = 0 /\ limits.txn[t].amount = 0
      /\ under[t] = Nothing /\ t \notin missed
  BY <1>1, <1>2 DEF TxnsFollow, Made
<1>8. /\ limits'.txn[t].status = status /\ limits'.txn[t].amount = amount
      /\ \A u \in TxnIds \ {t} : /\ limits'.txn[u].status = limits.txn[u].status
                                 /\ limits'.txn[u].amount = limits.txn[u].amount
  <2>1. /\ limits'.txn[t].status = status /\ limits'.txn[t].amount = amount
    BY <1>2, <1>3, <1>5, <1>6, <1>7, TxnsMerged
  <2>2. ASSUME NEW u \in TxnIds \ {t}
        PROVE  /\ limits'.txn[u].status = limits.txn[u].status
               /\ limits'.txn[u].amount = limits.txn[u].amount
    BY <1>2, <1>5, <1>6, TxnsMerged
  <2> QED BY <2>1, <2>2
<1>9. \A u \in TxnIds \ {t} : under'[u] = under[u]
  BY <1>1 DEF ComesUnder
<1>10. /\ Charged(t) = Nothing /\ (G = {} => Charged(t)' = Nothing)
       /\ \A u \in TxnIds \ {t} : Charged(u)' = Charged(u)
       /\ G # {} => \E g \in grant : Charged(t)' = g
  BY <1>1, <1>2, <1>7, <1>9 DEF ComesUnder, Charged, LimitTypeOK
<1>11. TxnsFollow'
  <2>1. /\ limits'.txn[t].amount = 0 <=> ~Made(limits', t)
        /\ limits.txn[t].amount # 0 => limits'.txn[t].amount = limits.txn[t].amount
    BY <1>3, <1>7, <1>8 DEF Made
  <2>2. under'[t] # Nothing \/ t \in missed' => limits'.txn[t].status \in {"SUCCESS", "FAILED"}
    BY <1>1, <1>7, <1>8 DEF ComesUnder
  <2>3. waited \subseteq waited' /\ (limits'.txn[t].status = "PENDING" => t \in waited')
    BY <1>1, <1>8
  <2> QED BY <1>1, <1>2, <1>8, <1>9, <2>1, <2>2, <2>3, TxnsStep
<1>12. ASSUME "request" \notin limitStale'
       PROVE  /\ "request" \notin limitStale /\ RowsFollow /\ SpentIsCounted /\ CapHolds
              /\ v.request = limits.request /\ Charges(limits, limits', G, amount)
  <2>1. Charges(v, new, G, amount)
    BY <1>4, <1>6 DEF Charges
  <2> QED BY <1>2, <1>5, <1>6, <1>12, <2>1, FreshCommit DEF ChargeInv, GrantsAreCharged
<1>13. PICK L \in {lapsed, lapsed \cup mid} :
         /\ spent_today(v) + amount <= effective_limits(v, L).daily
         /\ \A g \in grant : v.request[g].spending_cap # NoCap =>
              amount <= v.request[g].spending_cap - v.request[g].amount_spent
  BY DEF Debit, assert_within_limits
<1> HIDE DEF v, grant
<1>14. ASSUME "request" \notin limitStale'
       PROVE  RowsFollow' /\ SpentIsCounted' /\ CapHolds'
  <2>1. \A u \in TxnIds : Charged(u) # Nothing => limits'.txn[u].amount = limits.txn[u].amount
    BY <1>8, <1>10
  <2>2. CASE G = {}
    <3>1. (\A u \in TxnIds : Charged(u)' = Charged(u)) /\ Charges(limits, limits', {}, 0)
      BY <1>10, <1>12, <1>14, <2>2 DEF Charges
    <3> QED BY <1>1, <1>2, <1>12, <1>14, <2>1, <3>1, SameCharges
  <2>3. CASE G # {}
    <3>1. PICK g \in grant : Charged(t)' = g
      BY <1>10, <2>3
    <3>5. \A u \in TxnIds : Charged(u)' = IF u = t THEN g ELSE Charged(u)
      BY <1>10, <3>1
    <3>2. /\ status = "SUCCESS" /\ G = {g} /\ g \in RequestIds
          /\ v.request[g].status = "APPROVED"
      BY <2>3, NewestFacts DEF AtMostOne, grant
    <3>3. limits.request[g].spending_cap # NoCap =>
            amount <= limits.request[g].spending_cap - limits.request[g].amount_spent
      BY <1>12, <1>13, <1>14, <3>1
    <3>4. Charges(limits, limits', {g}, amount) /\ limits.request[g].status = "APPROVED"
      BY <1>12, <1>14, <3>2
    <3> QED BY <1>1, <1>2, <1>3, <1>8, <1>10, <1>12, <1>14, <2>1, <3>2, <3>3, <3>4, <3>5,
               OneCharge
  <2> QED BY <2>2, <2>3
<1>15. GrantsAreCharged'
  BY <1>14 DEF GrantsAreCharged, SpentIsCounted, CapHolds
<1>16. DailyLimitHolds'
  <2>1. CASE limitStale' = {}
    <3> DEFINE made == IF status = "PENDING" THEN {} ELSE {t}
    <3>1. /\ limitStale = {} /\ "request" \notin limitStale'
          /\ v.request = limits.request /\ v.txn = limits.txn
      BY <1>2, <1>5, <1>6, <2>1, FreshCommit DEF v
    <3>2. \A r \in RequestIds : limits.request[r].status \in Granted =>
            limits'.request[r].status \in Granted
      BY <1>12, <3>1 DEF Charges
    <3>3. Today(limits', waited') \subseteq Today(limits, waited) \cup made
      BY <1>1, <1>8 DEF Today
    <3>4. \A u \in Today(limits, waited) :
            u \notin made /\ limits'.txn[u].amount = limits.txn[u].amount
      BY <1>1, <1>8 DEF Today
    <3>5. Newest(v, L) = Newest(limits, L) /\ spent_today(v) = spent_today(limits)
      BY <3>1 DEF Newest, Usable, Unlapsed, WithStatus, spent_today, total_of
    <3>6. spent_today(limits) + limits'.txn[t].amount <= effective_limits(limits, L).daily
      BY <1>8, <1>13, <3>5 DEF effective_limits
    <3>7. made \subseteq TxnIds /\ (\A x, u \in made : x = u)
          /\ \A u \in made : spent_today(limits) + limits'.txn[u].amount
                               <= effective_limits(limits, L).daily
      BY <3>6
    <3>8. DailyLimitHolds
      BY DEF ChargeInv
    <3> HIDE DEF made
    <3> QED BY <1>2, <3>1, <3>2, <3>3, <3>4, <3>7, <3>8, DailyStep
  <2>2. CASE limitStale' # {}
    BY <2>2 DEF DailyLimitHolds
  <2> QED BY <2>1, <2>2
<1> QED BY <1>11, <1>14, <1>15, <1>16 DEF ChargeInv

\* What a settlement writes, be the debit counted or not.
Settles(s, t, status, mid, counted) ==
  LET v == limitView[s]
      w == IF t \in counted THEN record_debit_against_grant(v, v.txn[t].amount, mid, {}) ELSE v
  IN /\ v.txn[t].status \in {"PENDING", "PROCESSING"}
     /\ LimitCommit(s, [w EXCEPT !.txn[t].status = status], mid)
     /\ ComesUnder(v, t, status, lapsed \cup mid)
     /\ settledLate' = settledLate \cup {t} /\ waited' = waited
     /\ t \in counted => status = "SUCCESS"
     /\ missed' = IF t \in counted THEN missed \ {t}
                  ELSE IF status = "SUCCESS" THEN missed \cup {t} ELSE missed

LEMMA WorkerSettles ==
  ASSUME NEW s \in Requesters, NEW t \in TxnIds, SettleUncounted(s, t)
  PROVE  Settles(s, t, "SUCCESS", {}, {})
<1>1. lapsed \cup {} = lapsed
  OBVIOUS
<1> QED BY <1>1, Zenon DEF SettleUncounted, Settles

LEMMA OwnerSettles ==
  ASSUME NEW s \in Requesters, NEW t \in TxnIds, NEW status \in {"SUCCESS", "FAILED"},
         NEW mid, Settle(s, t, status, mid)
  PROVE  \E counted : Settles(s, t, status, mid, counted)
<1>1. lapsed' = lapsed \cup mid
  BY Zenon DEF Settle, LimitCommit
<1>2. CASE status = "SUCCESS"
  <2>1. Settles(s, t, status, mid, {t})
    BY <1>1, <1>2, Zenon DEF Settle, Settles
  <2> QED BY <2>1
<1>3. CASE status = "FAILED"
  <2>1. Settles(s, t, status, mid, {})
    BY <1>1, <1>3, Zenon DEF Settle, Settles
  <2> QED BY <2>1
<1> QED BY <1>2, <1>3

\* A debit is settled: counted late, or given back.
LEMMA SettleCharges ==
  ASSUME LimitInv, LimitInv', ChargeInv, NEW s \in Requesters, limitView[s] # NoView,
         NEW t \in TxnIds, NEW status \in {"SUCCESS", "FAILED"}, NEW mid,
         NEW counted, Settles(s, t, status, mid, counted)
  PROVE  ChargeInv'
<1> DEFINE v == limitView[s]
           amount == v.txn[t].amount
           grant == Newest(v, lapsed \cup mid)
           w == IF t \in counted THEN record_debit_against_grant(v, amount, mid, {}) ELSE v
           new == [w EXCEPT !.txn[t].status = status]
           G == IF t \in counted THEN grant ELSE {}
<1>1. /\ v.txn[t].status \in {"PENDING", "PROCESSING"}
      /\ LimitCommit(s, new, mid) /\ ComesUnder(v, t, status, lapsed \cup mid)
      /\ settledLate' = settledLate \cup {t} /\ waited' = waited
      /\ t \in counted => status = "SUCCESS"
      /\ missed' = IF t \in counted THEN missed \ {t}
                   ELSE IF status = "SUCCESS" THEN missed \cup {t} ELSE missed
  BY Zenon DEF Settles
<1>2. /\ LimitTypeOK /\ LimitTypeOK' /\ TxnsFollow /\ v \in LimitTables
      /\ limitView' = [limitView EXCEPT ![s] = NoView]
  BY <1>1 DEF LimitInv, LimitTypeOK, ChargeInv, LimitCommit
<1>3. amount \in Nat /\ amount > 0 /\ amount = limits.txn[t].amount
  <2>1. amount \in Nat
    BY <1>2, TableAmounts
  <2>2. amount # 0 /\ amount = limits.txn[t].amount
    BY <1>1 DEF ChargeInv, TxnsFollow, Made
  <2> HIDE DEF amount
  <2> QED BY <2>1, <2>2
<1>4. w \in LimitTables /\ w.txn = v.txn /\ Charges(v, w, G, amount)
  <2>1. CASE t \in counted
    <3>3. w = record_debit_against_grant(v, amount, mid, {}) /\ G = grant
      BY <2>1
    <3> HIDE DEF v, amount, grant, w, G
    <3>1. record_debit_against_grant(v, amount, mid, {}) \in LimitTables
      BY <1>2, <1>3, RecordLowers
    <3>2. /\ Charges(v, record_debit_against_grant(v, amount, mid, {}),
                     Newest(v, lapsed \cup mid), amount)
          /\ record_debit_against_grant(v, amount, mid, {}).txn = v.txn
      <4>1. v \in LimitTables /\ amount \in Nat
        BY <1>2, <1>3
      <4> QED BY ONLY <4>1, RecordCharges
    <3>4. grant = Newest(v, lapsed \cup mid)
      BY DEF grant
    <3> QED BY <3>1, <3>2, <3>3, <3>4
  <2>2. CASE t \notin counted
    <3>1. \A r \in RequestIds : v.request[r].amount_spent \in Nat
      BY <1>2, TableAmounts
    <3> QED BY <1>2, <2>2, <3>1 DEF Charges
  <2> QED BY <2>1, <2>2
<1> HIDE DEF w, amount
<1>5. /\ new \in LimitTables /\ new.request = w.request
      /\ new.txn[t].status = status /\ new.txn[t].amount = amount
      /\ \A u \in TxnIds \ {t} : new.txn[u] = v.txn[u]
  <2> DEFINE row == [v.txn[t] EXCEPT !.status = status]
  <2>1. row \in Debits /\ row.status = status /\ row.amount = amount
    BY <1>2 DEF LimitTables, Debits, amount
  <2>2. new = [w EXCEPT !.txn = [v.txn EXCEPT ![t] = row]]
    BY <1>2, <1>4 DEF LimitTables
  <2> HIDE DEF row, new
  <2> QED BY <1>2, <1>4, <2>1, <2>2 DEF LimitTables
<1> HIDE DEF new
<1>6. /\ limits'.txn[t].status = status /\ limits'.txn[t].amount = amount
      /\ \A u \in TxnIds \ {t} : /\ limits'.txn[u].status = limits.txn[u].status
                                 /\ limits'.txn[u].amount = limits.txn[u].amount
  <2>1. limits'.txn[t].status = status /\ limits'.txn[t].amount = amount
    BY <1>1, <1>2, <1>3, <1>5, TxnsMerged DEF amount
  <2>2. ASSUME NEW u \in TxnIds \ {t}
        PROVE  /\ limits'.txn[u].status = limits.txn[u].status
               /\ limits'.txn[u].amount = limits.txn[u].amount
    BY <1>1, <1>2, <1>5, TxnsMerged
  <2> QED BY <2>1, <2>2
<1>7. TxnsFollow'
  <2>1. \A u \in TxnIds \ {t} : under'[u] = under[u] /\ (u \in missed' <=> u \in missed)
    BY <1>1 DEF ComesUnder
  <2>2. /\ limits'.txn[t].amount = 0 <=> ~Made(limits', t)
        /\ limits.txn[t].amount # 0 => limits'.txn[t].amount = limits.txn[t].amount
        /\ limits'.txn[t].status \in {"SUCCESS", "FAILED"}
        /\ limits'.txn[t].status # "PENDING"
    BY <1>3, <1>6 DEF Made
  <2> QED BY <1>1, <1>2, <1>6, <2>1, <2>2, TxnsStep
<1>8. ASSUME "request" \notin limitStale'
      PROVE  /\ "request" \notin limitStale /\ RowsFollow /\ SpentIsCounted /\ CapHolds
             /\ v.request = limits.request /\ Charges(limits, limits', G, amount)
             /\ Charged(t) = Nothing
  <2>1. Charges(v, new, G, amount)
    BY <1>4, <1>5 DEF Charges
  <2>2. /\ "request" \notin limitStale /\ v.request = limits.request
        /\ Charges(limits, limits', G, amount)
    BY <1>1, <1>2, <1>5, <1>8, <2>1, FreshCommit
  <2>3. RowsFollow /\ SpentIsCounted /\ CapHolds
    BY <2>2 DEF ChargeInv, GrantsAreCharged
  <2>4. Charged(t) = Nothing
    BY <1>1, <1>2, <2>2, <2>3, SettlesUncounted
  <2> QED BY <2>2, <2>3, <2>4
<1>12. /\ \A u \in TxnIds \ {t} : Charged(u)' = Charged(u)
       /\ t \in counted /\ grant = {} => Charged(t)' = Nothing
       /\ t \in counted /\ grant # {} => \E g \in grant : Charged(t)' = g
       /\ t \notin counted /\ Charged(t) = Nothing => Charged(t)' = Nothing
  BY <1>1, <1>2 DEF ComesUnder, Charged, LimitTypeOK
<1> HIDE DEF v, grant
<1>9. ASSUME "request" \notin limitStale'
      PROVE  RowsFollow' /\ SpentIsCounted' /\ CapHolds'
  <2>1. /\ \A u \in TxnIds : Charged(u) # Nothing => limits'.txn[u].amount = limits.txn[u].amount
        /\ settledLate \subseteq settledLate' /\ t \in settledLate'
    BY <1>1, <1>3, <1>6
  <2>2. CASE G = {}
    <3>1. (\A u \in TxnIds : Charged(u)' = Charged(u)) /\ Charges(limits, limits', {}, 0)
      BY <1>8, <1>9, <1>12, <2>2 DEF Charges
    <3> QED BY <1>2, <1>8, <1>9, <2>1, <3>1, SameCharges
  <2>3. CASE G # {}
    <3>1. PICK g \in grant : Charged(t)' = g
      BY <1>12, <2>3
    <3>4. \A u \in TxnIds : Charged(u)' = IF u = t THEN g ELSE Charged(u)
      BY <1>12, <3>1
    <3>2. /\ G = {g} /\ g \in RequestIds /\ v.request[g].status = "APPROVED"
      BY <2>3, NewestFacts DEF AtMostOne, grant
    <3>3. Charges(limits, limits', {g}, amount) /\ limits.request[g].status = "APPROVED"
      BY <1>8, <1>9, <3>2
    <3> QED BY <1>2, <1>3, <1>6, <1>8, <1>9, <2>1, <3>2, <3>3, <3>4, OneCharge
  <2> QED BY <2>2, <2>3
<1>10. GrantsAreCharged'
  BY <1>9 DEF GrantsAreCharged, SpentIsCounted, CapHolds
<1>11. DailyLimitHolds'
  <2>1. CASE limitStale' = {}
    <3>1. /\ limitStale = {} /\ "request" \notin limitStale'
          /\ v.request = limits.request /\ v.txn = limits.txn
      BY <1>1, <1>2, <1>5, <2>1, FreshCommit DEF v
    <3>2. \A r \in RequestIds : limits.request[r].status \in Granted =>
            limits'.request[r].status \in Granted
      BY <1>8, <3>1 DEF Charges
    <3>3. Today(limits', waited') \subseteq Today(limits, waited) \cup {}
      <4>1. limits.txn[t].status = "PENDING" => t \in waited
        BY <1>2 DEF TxnsFollow
      <4>2. limits.txn[t].status \in {"PENDING", "PROCESSING"}
        BY <1>1, <3>1
      <4> QED BY <1>1, <1>6, <4>1, <4>2 DEF Today
    <3>4. \A u \in Today(limits, waited) :
            u \notin {} /\ limits'.txn[u].amount = limits.txn[u].amount
      BY <1>3, <1>6 DEF Today
    <3>5. DailyLimitHolds
      BY DEF ChargeInv
    <3>6. {} \subseteq TxnIds /\ \A u \in {} : FALSE
      OBVIOUS
    <3> QED BY <1>2, <3>1, <3>2, <3>3, <3>4, <3>5, <3>6, DailyStep
  <2>2. CASE limitStale' # {}
    BY <2>2 DEF DailyLimitHolds
  <2> QED BY <2>1, <2>2
<1> QED BY <1>7, <1>9, <1>10, <1>11 DEF ChargeInv

\* A request is made, or refused, and what writes the limits of the user alone.
LEMMA OtherCharges ==
  ASSUME LimitInv, LimitInv', ChargeInv, NEW s \in Requesters, limitView[s] # NoView,
         \/ create_request(s) \/ sync_user_limits(s) \/ verify_otp_limits(s)
         \/ \E r \in RequestIds : reject(s, r)
  PROVE  ChargeInv'
<1> DEFINE v == limitView[s]
           w(mid) == active_grant(v, mid, {})
<1>1. /\ LimitTypeOK /\ v \in LimitTables /\ Charges(v, v, {}, 0)
      /\ \A mid : w(mid) \in LimitTables /\ w(mid).txn = v.txn /\ Charges(v, w(mid), {}, 0)
  <2>1. LimitTypeOK /\ v \in LimitTables
    BY DEF LimitInv, LimitTypeOK
  <2>2. \A r \in RequestIds : v.request[r].amount_spent \in Nat
    BY <2>1, TableAmounts
  <2>3. Charges(v, v, {}, 0)
    BY <2>2 DEF Charges
  <2>4. \A mid : w(mid) \in LimitTables /\ w(mid).txn = v.txn
    BY <2>1, ActiveGrantLowers
  <2>5. \A mid : Charges(v, w(mid), {}, 0)
    BY <2>1, ActiveGrantCharges
  <2> HIDE DEF w
  <2> QED BY <2>1, <2>3, <2>4, <2>5
<1>2. UNCHANGED <<under, missed, waited, settledLate>>
  BY DEF create_request, sync_user_limits, verify_otp_limits, reject, limitHistory
<1>3. CASE create_request(s)
  <2>1. PICK mid \in MayLapse(v), r \in RequestIds :
          /\ limits.request[r].status = "none"
          /\ LimitCommit(s, [w(mid) EXCEPT !.request[r].status = "PENDING"], mid)
    BY <1>3 DEF create_request, NextId, WithStatus
  <2> DEFINE marked == w(mid)
  <2>7. marked \in LimitTables /\ marked.txn = v.txn /\ Charges(v, marked, {}, 0)
    BY <1>1
  <2> HIDE DEF w
  <2> DEFINE row == [marked.request[r] EXCEPT !.status = "PENDING"]
             new == [marked EXCEPT !.request[r].status = "PENDING"]
  <2>6. LimitCommit(s, new, mid)
    BY <2>1
  <2> HIDE DEF marked
  <2>2. /\ row \in RequestRow /\ row.status = "PENDING"
        /\ row.amount_spent = marked.request[r].amount_spent
        /\ row.spending_cap = marked.request[r].spending_cap
    BY <2>7 DEF LimitTables, RequestRow, LimitIncreaseStatus
  <2>3. new = [marked EXCEPT !.request = [marked.request EXCEPT ![r] = row]]
    BY <2>7 DEF LimitTables
  <2> HIDE DEF row, new
  <2>4. /\ new \in LimitTables /\ new.txn = marked.txn /\ new.request[r] = row
        /\ \A q \in RequestIds \ {r} : new.request[q] = marked.request[q]
    BY <2>2, <2>3, <2>7 DEF LimitTables
  <2>5. ASSUME v.request = limits.request PROVE Charges(v, new, {}, 0)
    <3>1. v.request[r].status = "none"
      BY <2>1, <2>5
    <3> QED BY <2>2, <2>4, <2>7, <3>1 DEF Charges, Unanswered, Granted
  <2> QED BY <1>1, <1>2, <2>4, <2>5, <2>6, <2>7, PlainCharges
<1>4. CASE sync_user_limits(s)
  <2>5. PICK mid \in MayLapse(v) :
          LimitCommit(s, [w(mid) EXCEPT
            !.column = IF Newest(v, lapsed \cup mid) = {} THEN "default" ELSE @], mid)
    BY <1>4 DEF sync_user_limits
  <2> DEFINE marked == w(mid)
  <2>6. marked \in LimitTables /\ marked.txn = v.txn /\ Charges(v, marked, {}, 0)
    BY <1>1
  <2> DEFINE column == IF Newest(v, lapsed \cup mid) = {} THEN "default" ELSE marked.column
             new == [marked EXCEPT !.column = column]
  <2>1. LimitCommit(s, new, mid)
    BY <2>5
  <2> HIDE DEF w, marked
  <2>2. column \in {"default", "raised"}
    BY <2>6 DEF LimitTables
  <2> HIDE DEF column
  <2>3. new \in LimitTables /\ new.request = marked.request /\ new.txn = marked.txn
    BY <2>2, <2>6 DEF LimitTables
  <2> HIDE DEF new
  <2>4. Charges(v, new, {}, 0)
    BY <2>3, <2>6 DEF Charges
  <2> QED BY <1>1, <1>2, <2>1, <2>3, <2>4, <2>6, PlainCharges
<1>5. CASE verify_otp_limits(s)
  <2> DEFINE new == [v EXCEPT !.column = "default"]
  <2>1. LimitCommit(s, new, {})
    BY <1>5 DEF verify_otp_limits
  <2>2. new \in LimitTables /\ new.request = v.request /\ new.txn = v.txn
    BY <1>1 DEF LimitTables
  <2> HIDE DEF new
  <2>3. Charges(v, new, {}, 0)
    BY <1>1, <2>2 DEF Charges
  <2> QED BY <1>1, <1>2, <2>1, <2>2, <2>3, PlainCharges
<1>6. CASE \E r \in RequestIds : reject(s, r)
  <2>1. PICK r \in RequestIds : v.request[r].status = "PENDING"
                                /\ LimitCommit(s, [v EXCEPT !.request[r].status = "REJECTED"], {})
    BY <1>6 DEF reject
  <2> DEFINE row == [v.request[r] EXCEPT !.status = "REJECTED"]
             new == [v EXCEPT !.request[r].status = "REJECTED"]
  <2>2. /\ row \in RequestRow /\ row.status = "REJECTED"
        /\ row.amount_spent = v.request[r].amount_spent
        /\ row.spending_cap = v.request[r].spending_cap
    BY <1>1 DEF LimitTables, RequestRow, LimitIncreaseStatus
  <2>3. new = [v EXCEPT !.request = [v.request EXCEPT ![r] = row]]
    BY <1>1 DEF LimitTables
  <2> HIDE DEF row, new
  <2>4. /\ new \in LimitTables /\ new.txn = v.txn /\ new.request[r] = row
        /\ \A q \in RequestIds \ {r} : new.request[q] = v.request[q]
    BY <1>1, <2>2, <2>3 DEF LimitTables
  <2>5. Charges(v, new, {}, 0)
    BY <1>1, <2>1, <2>2, <2>4 DEF Charges, Unanswered, Granted
  <2>6. LimitCommit(s, new, {})
    BY <2>1 DEF new
  <2> QED BY <1>1, <1>2, <2>4, <2>5, <2>6, PlainCharges
<1> QED BY <1>3, <1>4, <1>5, <1>6

\* An approval starts its grant at nothing spent and ends the one before it.
LEMMA ApproveCharges ==
  ASSUME LimitInv, LimitInv', ChargeInv, NEW s \in Requesters, limitView[s] # NoView,
         NEW r \in RequestIds, NEW cap \in Caps \cup {NoCap}, approve(s, r, cap)
  PROVE  ChargeInv'
<1> DEFINE v == limitView[s]
           w == active_grant(v, {}, {})
           granted == [status |-> "APPROVED", spending_cap |-> cap, amount_spent |-> 0]
           row(q) == IF q = r THEN granted
                     ELSE IF q \in Newest(v, lapsed)
                          THEN [w.request[q] EXCEPT !.status = "EXPIRED"]
                     ELSE w.request[q]
           new == [w EXCEPT !.request = [q \in RequestIds |-> row(q)], !.column = "raised"]
<1>1. /\ LimitCommit(s, new, {}) /\ v.request[r].status = "PENDING"
      /\ UNCHANGED <<under, missed, waited, settledLate>>
  BY DEF approve, limitHistory
<1>2. /\ LimitTypeOK /\ v \in LimitTables /\ w \in LimitTables /\ w.txn = v.txn
      /\ w.request \in [RequestIds -> RequestRow] /\ Charges(v, w, {}, 0)
  <2>1. LimitTypeOK /\ v \in LimitTables
    BY DEF LimitInv, LimitTypeOK
  <2>2. w \in LimitTables /\ w.txn = v.txn
    BY <2>1, ActiveGrantLowers
  <2>3. Charges(v, w, {}, 0)
    BY <2>1, ActiveGrantCharges
  <2> HIDE DEF w
  <2> QED BY <2>1, <2>2, <2>3 DEF LimitTables
<1> HIDE DEF w
<1>3. ASSUME NEW q \in RequestIds
      PROVE  /\ row(q) \in RequestRow
             /\ q # r => /\ row(q).amount_spent = w.request[q].amount_spent
                         /\ row(q).spending_cap = w.request[q].spending_cap
                         /\ row(q).status \in {w.request[q].status, "EXPIRED"}
                         /\ row(q).status # w.request[q].status => q \in Newest(v, lapsed)
  <2>1. w.request[q] \in RequestRow
    BY <1>2
  <2>2. granted \in RequestRow
    BY LimitAssumption DEF RequestRow, LimitIncreaseStatus
  <2> DEFINE expired == [w.request[q] EXCEPT !.status = "EXPIRED"]
  <2>3. /\ expired \in RequestRow /\ expired.status = "EXPIRED"
        /\ expired.amount_spent = w.request[q].amount_spent
        /\ expired.spending_cap = w.request[q].spending_cap
    BY <2>1 DEF RequestRow, LimitIncreaseStatus
  <2>4. /\ row(q) \in {granted, expired, w.request[q]}
        /\ q # r => row(q) = IF q \in Newest(v, lapsed) THEN expired ELSE w.request[q]
    OBVIOUS
  <2> HIDE DEF row, granted, expired
  <2> QED BY <2>1, <2>2, <2>3, <2>4
<1>4. row(r).status = "APPROVED" /\ row(r).amount_spent = 0
  OBVIOUS
<1>5. new \in LimitTables /\ new.txn = w.txn /\ \A q \in RequestIds : new.request[q] = row(q)
  <2> DEFINE rows == [q \in RequestIds |-> row(q)]
  <2>1. rows \in [RequestIds -> RequestRow] /\ \A q \in RequestIds : rows[q] = row(q)
    BY <1>3
  <2>3. new = Rewrite(w, rows, "raised")
    BY Zenon DEF Rewrite, rows
  <2> HIDE DEF rows, new
  <2>2. new \in LimitTables /\ new.txn = w.txn /\ new.request = rows
    BY <1>2, <2>1, <2>3, Rewritten
  <2> HIDE DEF new, row
  <2> QED BY <2>1, <2>2
<1> HIDE DEF row, new
<1>6. ASSUME v.request = limits.request, RowsFollow
      PROVE  Charges(v, new, {}, 0)
  <2>1. v.request[r].amount_spent = 0
    BY <1>1, <1>6 DEF RowsFollow, Unanswered
  <2>2. \A q \in Newest(v, lapsed) : v.request[q].status = "APPROVED"
    BY NewestFacts
  <2>3. \A q \in RequestIds : v.request[q].amount_spent \in Nat
    BY <1>2, TableAmounts
  <2>4. ASSUME NEW q \in RequestIds
        PROVE  /\ new.request[q].amount_spent = v.request[q].amount_spent
               /\ new.request[q].spending_cap # v.request[q].spending_cap =>
                    v.request[q].status \in Unanswered
               /\ new.request[q].status \in Unanswered => v.request[q].status \in Unanswered
               /\ v.request[q].status \in Granted => new.request[q].status \in Granted
    <3>1. CASE q = r
      BY <1>1, <1>4, <1>5, <2>1, <3>1 DEF Unanswered, Granted
    <3>2. CASE q # r
      <4>1. /\ new.request[q].amount_spent = w.request[q].amount_spent
            /\ new.request[q].spending_cap = w.request[q].spending_cap
            /\ new.request[q].status \in {w.request[q].status, "EXPIRED"}
            /\ new.request[q].status # w.request[q].status => v.request[q].status = "APPROVED"
        BY <1>3, <1>5, <2>2, <3>2
      <4>2. w.request[q].amount_spent = v.request[q].amount_spent
        BY <1>2, <2>3 DEF Charges
      <4> QED BY <1>2, <4>1, <4>2 DEF Charges, Unanswered, Granted
    <3> QED BY <3>1, <3>2
  <2> QED BY <2>3, <2>4 DEF Charges
<1> QED BY <1>1, <1>2, <1>5, <1>6, PlainCharges

LEMMA ChargeNextInv == LimitInv /\ LimitInv' /\ ChargeInv /\ [LimitNext]_limitVars => ChargeInv'
<1> SUFFICES ASSUME LimitInv, LimitInv', ChargeInv, [LimitNext]_limitVars PROVE ChargeInv'
  OBVIOUS
<1>1. ASSUME NEW s \in Requesters, limitView[s] # NoView, NEW t \in TxnIds,
             \/ \E mid \in MayLapse(limitView[s]), status \in {"SUCCESS", "FAILED"} :
                  Settle(s, t, status, mid)
             \/ SettleUncounted(s, t)
      PROVE  ChargeInv'
  <2>1. CASE SettleUncounted(s, t)
    <3>1. Settles(s, t, "SUCCESS", {}, {})
      BY <2>1, WorkerSettles
    <3> QED BY <1>1, <3>1, SettleCharges, Zenon
  <2>2. ASSUME NEW mid, NEW status \in {"SUCCESS", "FAILED"}, Settle(s, t, status, mid)
        PROVE  ChargeInv'
    <3>1. PICK counted : Settles(s, t, status, mid, counted)
      BY <2>2, OwnerSettles
    <3> QED BY <1>1, <3>1, SettleCharges, Zenon
  <2> QED BY <1>1, <2>1, <2>2
<1> QED BY <1>1, ReadCharges, OtherCharges, ApproveCharges, DebitCharges DEF LimitNext

LEMMA ChargeInitInv == LimitInit => ChargeInv
<1> SUFFICES ASSUME LimitInit PROVE ChargeInv
  OBVIOUS
<1>1. LimitTypeOK
  BY LimitInitInv DEF LimitInv
<1>2. /\ limits \in LimitTables /\ limitStale = {}
      /\ \A t \in TxnIds : limits.txn[t].status = "none" /\ limits.txn[t].amount = 0
                           /\ Charged(t) = Nothing /\ under[t] = Nothing /\ t \notin missed
      /\ \A r \in RequestIds : /\ limits.request[r].spending_cap = NoCap
                               /\ limits.request[r].amount_spent = 0
      /\ \A q \in Requesters : limitView[q] = NoView
  BY <1>1 DEF LimitInit, LimitTypeOK, Charged
<1>3. TxnsFollow /\ RowsFollow
  BY <1>2 DEF TxnsFollow, RowsFollow, Made
<1>4. LimitTotal({}) = 0
  <2> DEFINE g == [t \in {} |-> 0]
  <2>1. total_of(limits, {}) = SumOf(g, {})
    BY FS_EmptySet, TotalIsSum
  <2>2. SumOf(g, {}) = 0
    BY FS_EmptySet, SumOfParts
  <2> QED BY <2>1, <2>2, LimitTotals
<1>5. GrantsAreCharged
  <2>1. \A r \in RequestIds : CountedUnder(r) = {}
    BY <1>2, LimitAssumption DEF CountedUnder, LimitAssumption, RequestIds
  <2> QED BY <1>2, <1>4, <2>1 DEF GrantsAreCharged, SpentIsCounted, CapHolds
<1>6. DailyLimitHolds
  <2>1. {t \in TxnIds \ waited : limits.txn[t].status \in {"PROCESSING", "SUCCESS"}} = {}
    BY <1>2
  <2>2. Default.daily >= 0 /\ Raised.daily >= 0
    BY LimitAssumption DEF LimitAssumption
  <2> QED BY <1>4, <2>1, <2>2 DEF DailyLimitHolds
<1> QED BY <1>3, <1>5, <1>6 DEF ChargeInv

\* limit_service.py record_debit_against_grant: as long as no commit has an
\* outdated view of the requests, amount_spent of a grant is the sum of what
\* succeeded under it but was not settled by a worker, which counts nothing,
\* and the debits that succeeded at once stay within its cap, through every
\* approval, lapse and late settlement.
THEOREM SpendingIsCharged == LimitSpec => []GrantsAreCharged
<1>1. ChargeInv => GrantsAreCharged
  BY DEF ChargeInv
<1> QED BY <1>1, LimitInitInv, LimitNextInv, ChargeInitInv, ChargeNextInv, PTL DEF LimitSpec

\* limit_service.py assert_within_limits: while every commit has seen both
\* tables as they are, what is spent in a day stays within the daily limit,
\* but for the debits that waited as PENDING.
THEOREM DayStaysWithinLimit == LimitSpec => []DailyLimitHolds
<1>1. ChargeInv => DailyLimitHolds
  BY DEF ChargeInv
<1> QED BY <1>1, LimitInitInv, LimitNextInv, ChargeInitInv, ChargeNextInv, PTL DEF LimitSpec

-----------------------------------------------------------------------------
(* The four together.                                                      *)

\* However the requests of the four services interleave, each of them sees its
\* own steps only: what is proved of one of them holds of the whole.
THEOREM BackOfficePartsApart ==
  BackOfficeSpec => LimitSpec /\ KycSpec /\ SupportSpec /\ CatalogueSpec
<1> DEFINE officeVars == <<limitVars, kycVars, deskVars, catalogueVars>>
<1>1. BackOfficeInit => LimitInit /\ KycInit /\ SupportInit /\ CatalogueInit
  BY DEF BackOfficeInit
<1>2. [BackOfficeNext]_officeVars =>
        [LimitNext]_limitVars /\ [KycNext]_kycVars
        /\ [SupportNext]_deskVars /\ [CatalogueNext]_catalogueVars
  BY DEF BackOfficeNext, LimitPart, KycPart, SupportPart, CataloguePart
<1> QED BY <1>1, <1>2, PTL DEF BackOfficeSpec, LimitSpec, KycSpec, SupportSpec, CatalogueSpec

\* Limits, profile, tickets and catalogue keep their types, whatever the
\* requests of the other services do in between.
THEOREM BackOfficeTypesCorrect == BackOfficeSpec => []TypesOK
<1>1. LimitTypeOK /\ KycTypeOK /\ SupportTypeOK /\ CatalogueTypeOK => TypesOK
  BY DEF TypesOK
<1> QED BY <1>1, BackOfficePartsApart, LimitTypeCorrect, KycTypeCorrect,
           SupportTypeCorrect, CatalogueTypeCorrect, PTL
=============================================================================
