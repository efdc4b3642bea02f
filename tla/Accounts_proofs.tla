--------------------------- MODULE Accounts_proofs ---------------------------
(***************************************************************************)
(* Proofs about OneTimeCodes, AccountSessions, Presence and PushTokens,    *)
(* for any number of requests, codes, tokens, processes and browsers.      *)
(*                                                                         *)
(* Codes and limiter: the counter of check_rate_limit pays for every wrong *)
(* code it let through, it expires unless an error or a crash came between *)
(* its two commands, and the code mailed last is the one that works, once. *)
(*                                                                         *)
(* Sessions and resets: a session that can be refreshed was begun with the *)
(* password of today and a reset sets one password, but for the calls the  *)
(* properties except by name.                                              *)
(*                                                                         *)
(* Sockets and devices: a process counts the sockets it has in the room, a *)
(* stored notification reaches a socket or is pushed, and the token of a   *)
(* browser belongs to the account that registered it last.                 *)
(*                                                                         *)
(* The four together: a behaviour of the whole is one of every part.       *)
(***************************************************************************)
EXTENDS AccountSide, FiniteSetTheorems, TLAPS

(***************************************************************************)
(* The limiter and the codes.                                              *)
(***************************************************************************)

\* Requests the counter has counted and that have not answered yet.
Counted == {s \in Requesters : limiter[s] \in {"first", "passed"}}

LimiterType ==
  /\ limiter \in [Requesters -> {"idle", "first", "passed", "open"}]
  /\ otpView = [s \in Requesters |-> otpView[s]]
  /\ hits \in Nat /\ guesses \in Nat /\ IsFiniteSet(Counted)

\* A counter that is not there has no expiry.
ExpiryOfCounter == ttl => hits > 0

\* One request sets the expiry, before anything else, and while there is none.
FirstSetsExpiry ==
  \A s \in Requesters : limiter[s] = "first" =>
    /\ otpView[s] = NoView /\ ~ttl /\ hits > 0
    /\ \A q \in Requesters : limiter[q] = "first" => q = s

\* What the window has let through is paid for by the counter.
Paid ==
  /\ guesses + Cardinality(Counted) <= hits
  /\ guesses + Cardinality(Counted) <= VerifyLimit

OtpIInv == LimiterType /\ ExpiryOfCounter /\ FirstSetsExpiry /\ LimiterExpires /\ Paid

-----------------------------------------------------------------------------
LEMMA OtpInitIInv == OtpInit => OtpIInv
<1> SUFFICES ASSUME OtpInit PROVE OtpIInv
  OBVIOUS
<1>1. Counted = {}
  BY DEF OtpInit, Counted
<1>2. IsFiniteSet(Counted) /\ Cardinality(Counted) = 0
  BY <1>1, FS_EmptySet
<1> QED BY <1>2, OtpAssumption
      DEF OtpInit, OtpIInv, LimiterType, ExpiryOfCounter, FirstSetsExpiry, LimiterExpires, Paid

\* The end of a request: what it read is gone, and it is counted no longer; if
\* the limiter counted it, it may have compared a wrong code.
LEMMA OtpCloseIInv ==
  ASSUME OtpIInv, NEW s \in Requesters, limiter[s] # "first",
         OtpClose(s), UNCHANGED limiterVars,
         \/ UNCHANGED guesses
         \/ limiter[s] = "passed" /\ guesses' = guesses + 1
  PROVE  OtpIInv'
<1> USE DEF OtpIInv, LimiterType
<1>1. Counted' = Counted \ {s}
  BY DEF OtpClose, Counted
<1>2. /\ IsFiniteSet(Counted') /\ Cardinality(Counted) \in Nat
      /\ Cardinality(Counted') =
           IF s \in Counted THEN Cardinality(Counted) - 1 ELSE Cardinality(Counted)
  BY <1>1, FS_RemoveElement, FS_CardinalityType
<1>3. LimiterType'
  BY <1>2 DEF OtpClose, limiterVars
<1>4. FirstSetsExpiry'
  BY DEF OtpClose, limiterVars, FirstSetsExpiry
<1>5. LimiterExpires'
  BY DEF OtpClose, limiterVars, LimiterExpires
<1>6. guesses' + Cardinality(Counted') <= guesses + Cardinality(Counted)
  <2>1. limiter[s] = "passed" => s \in Counted
    BY DEF Counted
  <2> QED BY <1>2, <2>1
<1>7. Paid'
  BY <1>2, <1>3, <1>6, OtpAssumption DEF Paid, limiterVars
<1> QED BY <1>3, <1>4, <1>5, <1>7 DEF ExpiryOfCounter, limiterVars

\* A step that leaves the limiter alone.
LEMMA AsideIInv ==
  ASSUME OtpIInv, otpView' = [s \in Requesters |-> otpView'[s]],
         \A s \in Requesters : limiter[s] = "first" => otpView'[s] = NoView,
         UNCHANGED <<limiterVars, limiter, guesses>>
  PROVE  OtpIInv'
<1>1. Counted' = Counted
  BY DEF Counted
<1> QED BY <1>1 DEF OtpIInv, LimiterType, ExpiryOfCounter, FirstSetsExpiry, LimiterExpires, Paid, limiterVars

-----------------------------------------------------------------------------
\* INCR counts a request that the limit has room for, or refuses it.
LEMMA IncrIInv ==
  ASSUME OtpIInv, NEW s \in Requesters, incr(s)
  PROVE  OtpIInv'
<1> USE DEF OtpIInv, LimiterType
<1> DEFINE state == IF hits' = 1 THEN "first"
                    ELSE IF hits' <= VerifyLimit THEN "passed" ELSE "idle"
<1>1. /\ limiter[s] = "idle" /\ otpView[s] = NoView
      /\ limiter' = [limiter EXCEPT ![s] = state]
      /\ hits' = IF hits <= VerifyLimit THEN hits + 1 ELSE hits
      /\ UNCHANGED <<ttl, stranded, guesses, otpView>>
  BY DEF incr, Limited, Free
<1>2. Counted' = IF state = "idle" THEN Counted ELSE Counted \cup {s}
  BY <1>1 DEF Counted
<1>3. s \notin Counted
  BY <1>1 DEF Counted
<1>4. /\ IsFiniteSet(Counted') /\ Cardinality(Counted) \in Nat
      /\ Cardinality(Counted') = Cardinality(Counted) + (IF state = "idle" THEN 0 ELSE 1)
  BY <1>2, <1>3, FS_AddElement, FS_CardinalityType
<1>5. LimiterType'
  BY <1>1, <1>4, OtpAssumption
<1>6. hits = 0 => \A q \in Requesters : limiter[q] # "first"
  BY DEF FirstSetsExpiry
<1>7. state = "first" <=> hits = 0
  BY <1>1, OtpAssumption
<1> HIDE DEF state
<1>8. FirstSetsExpiry'
  BY <1>1, <1>6, <1>7, OtpAssumption DEF FirstSetsExpiry, ExpiryOfCounter
<1>9. LimiterExpires'
  <2>1. CASE hits = 0
    BY <1>1, <1>7, <2>1 DEF LimiterExpires
  <2>2. CASE hits # 0
    BY <1>1, <1>7, <2>2 DEF LimiterExpires
  <2> QED BY <2>1, <2>2
<1>10. Paid'
  BY <1>1, <1>4, OtpAssumption DEF Paid, state
<1> QED BY <1>1, <1>5, <1>8, <1>9, <1>10, OtpAssumption DEF ExpiryOfCounter

\* EXPIRE, by the one request that has it to do.
LEMMA ExpireIInv ==
  ASSUME OtpIInv, NEW s \in Requesters, expire(s)
  PROVE  OtpIInv'
<1> USE DEF OtpIInv, LimiterType
<1>1. /\ limiter[s] = "first" /\ ttl' = TRUE
      /\ limiter' = [limiter EXCEPT ![s] = "passed"]
      /\ UNCHANGED <<hits, guesses, otpView>>
  BY DEF expire, Limited
<1>2. Counted' = Counted
  BY <1>1 DEF Counted
<1>3. hits > 0 /\ \A q \in Requesters : limiter[q] = "first" => q = s
  BY <1>1 DEF FirstSetsExpiry
<1>4. FirstSetsExpiry' /\ LimiterExpires'
  BY <1>1, <1>3 DEF FirstSetsExpiry, LimiterExpires
<1> QED BY <1>1, <1>2, <1>3, <1>4 DEF ExpiryOfCounter, Paid

\* Without Redis a request passes uncounted.
LEMMA FailOpenIInv ==
  ASSUME OtpIInv, NEW s \in Requesters, fail_open(s)
  PROVE  OtpIInv'
<1> USE DEF OtpIInv, LimiterType
<1>1. /\ limiter' = [limiter EXCEPT ![s] = "open"]
      /\ stranded' = (stranded \/ limiter[s] = "first")
      /\ UNCHANGED <<hits, ttl, guesses, otpView>>
  BY DEF fail_open, Limited
<1>2. Counted' = Counted \ {s}
  BY <1>1 DEF Counted
<1>3. /\ IsFiniteSet(Counted') /\ Cardinality(Counted) \in Nat
      /\ Cardinality(Counted') \in Nat /\ Cardinality(Counted') <= Cardinality(Counted)
  BY <1>2, FS_Subset, FS_CardinalityType, Counted' \subseteq Counted
<1>4. FirstSetsExpiry'
  BY <1>1 DEF FirstSetsExpiry
<1>5. LimiterExpires'
  BY <1>1 DEF LimiterExpires
<1>6. Paid'
  BY <1>1, <1>3, OtpAssumption DEF Paid
<1> QED BY <1>1, <1>3, <1>4, <1>5, <1>6 DEF ExpiryOfCounter

\* The counter expires, and with it what it had counted.
LEMMA WindowIInv == OtpIInv /\ WindowEnds => OtpIInv'
<1> SUFFICES ASSUME OtpIInv, WindowEnds PROVE OtpIInv'
  OBVIOUS
<1> USE DEF OtpIInv, LimiterType
<1>1. \A s \in Requesters : limiter[s] # "first"
  BY DEF WindowEnds, FirstSetsExpiry
<1>2. Counted' = {} /\ \A s \in Requesters : limiter'[s] # "first"
  BY <1>1 DEF WindowEnds, Counted
<1>3. IsFiniteSet(Counted') /\ Cardinality(Counted') = 0
  BY <1>2, FS_EmptySet
<1>4. hits' = 0 /\ guesses' = 0 /\ ttl' = FALSE /\ UNCHANGED otpView
  BY DEF WindowEnds
<1>5. limiter' \in [Requesters -> {"idle", "first", "passed", "open"}]
  BY DEF WindowEnds
<1> QED BY <1>2, <1>3, <1>4, <1>5, OtpAssumption
      DEF ExpiryOfCounter, FirstSetsExpiry, LimiterExpires, Paid

\* The requests die with their process, the counter does not.
LEMMA RestartIInv == OtpIInv /\ OtpRestart => OtpIInv'
<1> SUFFICES ASSUME OtpIInv, OtpRestart PROVE OtpIInv'
  OBVIOUS
<1> USE DEF OtpIInv, LimiterType
<1>1. /\ limiter' = [s \in Requesters |-> "idle"]
      /\ otpView' = [s \in Requesters |-> NoView]
      /\ stranded' = (stranded \/ \E s \in Requesters : limiter[s] = "first")
      /\ UNCHANGED <<hits, ttl, guesses>>
  BY DEF OtpRestart
<1>2. Counted' = {}
  BY <1>1 DEF Counted
<1>3. /\ IsFiniteSet(Counted') /\ Cardinality(Counted') = 0 /\ Cardinality(Counted) \in Nat
  BY <1>2, FS_EmptySet, FS_CardinalityType
<1>4. LimiterType'
  BY <1>1, <1>3
<1>5. FirstSetsExpiry'
  BY <1>1 DEF FirstSetsExpiry
<1>6. LimiterExpires'
  <2>1. ~stranded' => ~stranded /\ \A s \in Requesters : limiter[s] # "first"
    BY <1>1
  <2> QED BY <1>1, <2>1 DEF LimiterExpires
<1>7. Paid'
  BY <1>1, <1>3, OtpAssumption DEF Paid
<1> QED BY <1>1, <1>4, <1>5, <1>6, <1>7 DEF ExpiryOfCounter

\* Connecting to Redis, taking a snapshot, mailing a code.
LEMMA QuietIInv ==
  ASSUME OtpIInv, NEW s \in Requesters,
         _redis(s) \/ OtpBegin(s) \/ deliver_registration_otp(s)
  PROVE  OtpIInv'
<1>1. CASE _redis(s)
  <2>1. limiter' = limiter
    BY <1>1 DEF _redis, Free, Limited, OtpIInv, LimiterType
  <2>2. UNCHANGED <<hits, ttl, stranded, guesses, otpView>>
    BY <1>1 DEF _redis, Limited
  <2>3. Counted' = Counted
    BY <2>1 DEF Counted
  <2> QED BY <2>1, <2>2, <2>3
        DEF OtpIInv, LimiterType, ExpiryOfCounter, FirstSetsExpiry, LimiterExpires, Paid
<1>2. CASE OtpBegin(s)
  <2>1. /\ otpView' = [otpView EXCEPT ![s] = otp] /\ limiter[s] # "first"
        /\ UNCHANGED <<limiterVars, limiter, guesses>>
    BY <1>2 DEF OtpBegin
  <2>2. \A q \in Requesters : limiter[q] = "first" => otpView'[q] = NoView
    BY <2>1 DEF OtpIInv, LimiterType, FirstSetsExpiry
  <2>3. otpView' = [q \in Requesters |-> otpView'[q]]
    BY <2>1 DEF OtpIInv, LimiterType
  <2> QED BY <2>1, <2>2, <2>3, AsideIInv
<1>3. CASE deliver_registration_otp(s)
  <2>1. UNCHANGED <<otpView, limiterVars, limiter, guesses>>
    BY <1>3 DEF deliver_registration_otp
  <2> QED BY <2>1, AsideIInv DEF OtpIInv, LimiterType, FirstSetsExpiry
<1> QED BY <1>1, <1>2, <1>3

\* Every request ends in one of these.
LEMMA RequestIInv ==
  ASSUME OtpIInv, NEW s \in Requesters, otpView[s] # NoView,
         \/ OtpRollback(s) \/ register_initiate(s) \/ register(s)
         \/ verify_otp(s) \/ wrong_code(s)
  PROVE  OtpIInv'
<1>1. limiter[s] # "first"
  BY DEF OtpIInv, FirstSetsExpiry
<1>2. CASE OtpRollback(s)
  BY <1>1, <1>2, OtpCloseIInv DEF OtpRollback
<1>3. CASE register_initiate(s) \/ register(s)
  BY <1>1, <1>3, OtpCloseIInv DEF register_initiate, register, initiate_registration, OtpCommit
<1>4. CASE verify_otp(s)
  BY <1>1, <1>4, OtpCloseIInv DEF verify_otp, OtpCommit
<1>5. CASE wrong_code(s)
  <2>1. /\ OtpClose(s) /\ UNCHANGED limiterVars
        /\ UNCHANGED guesses \/ (limiter[s] = "passed" /\ guesses' = guesses + 1)
    BY <1>5 DEF wrong_code
  <2> QED BY <1>1, <2>1, OtpCloseIInv
<1> QED BY <1>2, <1>3, <1>4, <1>5

LEMMA OtpNextIInv == OtpIInv /\ [OtpNext]_otpVars => OtpIInv'
<1> SUFFICES ASSUME OtpIInv, [OtpNext]_otpVars PROVE OtpIInv'
  OBVIOUS
<1>1. ASSUME NEW s \in Requesters,
             \/ _redis(s) \/ incr(s) \/ expire(s) \/ fail_open(s)
             \/ OtpBegin(s) \/ deliver_registration_otp(s)
      PROVE  OtpIInv'
  BY <1>1, QuietIInv, IncrIInv, ExpireIInv, FailOpenIInv
<1>2. ASSUME NEW s \in Requesters, otpView[s] # NoView,
             \/ OtpRollback(s) \/ register_initiate(s) \/ register(s)
             \/ verify_otp(s) \/ wrong_code(s)
      PROVE  OtpIInv'
  BY <1>2, RequestIInv
<1>3. ASSUME NEW c \in CodeIds, CodeExpires(c) PROVE OtpIInv'
  <2>1. UNCHANGED <<otpView, limiterVars, limiter, guesses>>
    BY <1>3 DEF CodeExpires
  <2> QED BY <2>1, AsideIInv DEF OtpIInv, LimiterType, FirstSetsExpiry
<1>4. CASE WindowEnds \/ OtpRestart
  BY <1>4, WindowIInv, RestartIInv
<1>5. CASE UNCHANGED otpVars
  <2>1. UNCHANGED <<otpView, limiterVars, limiter, guesses>>
    BY <1>5 DEF otpVars
  <2> QED BY <2>1, AsideIInv DEF OtpIInv, LimiterType, FirstSetsExpiry
<1> QED BY <1>1, <1>2, <1>3, <1>4, <1>5 DEF OtpNext

LEMMA OtpSpecIInv == OtpSpec => []OtpIInv
<1>1. OtpIInv /\ [OtpNext]_otpVars => OtpIInv'
  BY OtpNextIInv
<1> QED BY OtpInitIInv, <1>1, PTL DEF OtpSpec

\* Of the requests check_rate_limit counted in a window, no more than the limit
\* compare a wrong code (ratelimit.py:41, auth_service.py:131).
THEOREM CountedGuessesAreLimited == OtpSpec => []GuessesAreLimited
<1>1. OtpIInv => GuessesAreLimited
  <2>1. OtpIInv => Cardinality(Counted) \in Nat
    BY FS_CardinalityType DEF OtpIInv, LimiterType
  <2> QED BY <2>1, OtpAssumption DEF OtpIInv, LimiterType, Paid, GuessesAreLimited
<1> QED BY <1>1, OtpSpecIInv, PTL

\* A counter has an expiry, or a request about to set it, unless an error or a
\* crash came between INCR and EXPIRE (ratelimit.py:43).
THEOREM CounterExpires == OtpSpec => []LimiterExpires
<1>1. OtpIInv => LimiterExpires
  BY DEF OtpIInv
<1> QED BY <1>1, OtpSpecIInv, PTL

-----------------------------------------------------------------------------
(***************************************************************************)
(* The codes and their mails.  As long as no commit had an outdated view   *)
(* of the codes, their ids are taken in order, at most the newest is live  *)
(* and unexpired, and what is mailed is a code that was made.              *)
(***************************************************************************)

CodesInOrder ==
  \A c, d \in CodeIds : otp.code[c] = "none" /\ c < d => otp.code[d] = "none"

UnexpiredIsNewest ==
  \A c, d \in CodeIds :
    otp.code[c] = "live" /\ c \notin expired /\ c < d => otp.code[d] = "none"

UsesMatch ==
  \A c \in CodeIds : uses[c] = IF otp.code[c] = "consumed" THEN 1 ELSE 0

MailedWasMade ==
  \A c \in CodeIds :
    c = lastSent \/ (\E s \in Requesters : outbox[s] = c) => otp.code[c] # "none"

CodesFit == CodesInOrder /\ UnexpiredIsNewest /\ UsesMatch /\ MailedWasMade

ActiveByCode == otp.user.status = "ACTIVE" => \E c \in CodeIds : uses[c] > 0

CodeIInv == OtpTypeOK /\ ("code" \notin otpLate => CodesFit) /\ ActiveByCode

-----------------------------------------------------------------------------
LEMMA CodeInitIInv == OtpInit => CodeIInv
<1> SUFFICES ASSUME OtpInit PROVE CodeIInv
  OBVIOUS
<1>1. otp.code = [c \in CodeIds |-> "none"] /\ otp.user = [status |-> "none"]
      /\ otp \in OtpTables
  BY DEF OtpInit, OtpTables
<1>2. OtpTypeOK
  <2>1. hits \in 0..VerifyLimit + 1 /\ guesses \in Nat /\ uses \in [CodeIds -> Nat]
    BY OtpAssumption DEF OtpInit
  <2> QED BY <1>1, <2>1 DEF OtpInit, OtpTypeOK
<1>3. CodesFit
  BY <1>1 DEF OtpInit, CodesFit, CodesInOrder, UnexpiredIsNewest, UsesMatch, MailedWasMade,
              CodeIds, NoCode
<1> QED BY <1>1, <1>2, <1>3 DEF CodeIInv, ActiveByCode

\* What a commit makes of the tables, and what it is when nothing was late.
LEMMA OtpCommitted ==
  ASSUME OtpTypeOK, NEW s \in Requesters, otpView[s] # NoView, NEW new \in OtpTables,
         OtpCommit(s, new)
  PROVE  /\ otp' \in OtpTables /\ otpView' \in [Requesters -> OtpTables \cup {NoView}]
         /\ limiter' \in [Requesters -> {"idle", "first", "passed", "open"}]
         /\ otpLate' \subseteq {"code", "user"}
         /\ "code" \notin otpLate' =>
              "code" \notin otpLate /\ otpView[s].code = otp.code /\ otp'.code = new.code
         /\ otp'.user.status = IF new.user.status # otpView[s].user.status
                               THEN new.user.status ELSE otp.user.status
<1> DEFINE v == otpView[s]
<1>1. v \in OtpTables /\ otp \in OtpTables
  BY DEF OtpTypeOK
<1>2. /\ otp' = [code |-> MergeRow(v.code, new.code, otp.code),
                 user |-> MergeRow(v.user, new.user, otp.user)]
      /\ otpLate' = otpLate \cup {table \in {"code", "user"} : otp[table] # v[table]}
      /\ otpView' = [otpView EXCEPT ![s] = NoView]
      /\ limiter' = [limiter EXCEPT ![s] = "idle"]
  BY DEF OtpCommit, OtpClose
<1> HIDE DEF v
<1>3. /\ otp'.code = MergeRow(v.code, new.code, otp.code)
      /\ otp'.user = MergeRow(v.user, new.user, otp.user)
      /\ otp' = [code |-> otp'.code, user |-> otp'.user]
  BY <1>2
<1>4. /\ otp'.code \in [CodeIds -> {"none", "live", "consumed"}]
      /\ v.code = otp.code => otp'.code = new.code
  <2>1. /\ otp.code \in [CodeIds -> {"none", "live", "consumed"}]
        /\ new.code \in [CodeIds -> {"none", "live", "consumed"}]
    BY <1>1 DEF OtpTables
  <2>2. otp'.code = [c \in CodeIds |-> IF new.code[c] # v.code[c] THEN new.code[c] ELSE otp.code[c]]
    BY <1>3, <2>1 DEF MergeRow
  <2> QED BY <2>1, <2>2
<1>5. /\ otp'.user \in [status : {"none", "PENDING_VERIFICATION", "ACTIVE"}]
      /\ otp'.user.status = IF new.user.status # v.user.status
                            THEN new.user.status ELSE otp.user.status
  <2> DEFINE st == IF new.user.status # v.user.status THEN new.user.status ELSE otp.user.status
  <2>1. DOMAIN otp.user = {"status"} /\ st \in {"none", "PENDING_VERIFICATION", "ACTIVE"}
    BY <1>1 DEF OtpTables
  <2>2. otp'.user = [c \in {"status"} |-> st]
    BY <1>3, <2>1 DEF MergeRow
  <2> HIDE DEF st
  <2>3. otp'.user = [status |-> st]
    BY <2>2
  <2> QED BY <2>1, <2>3 DEF st
<1>6. otp' \in OtpTables
  BY <1>3, <1>4, <1>5 DEF OtpTables
<1>7. otpLate' \subseteq {"code", "user"}
      /\ ("code" \notin otpLate' => "code" \notin otpLate /\ v.code = otp.code)
  BY <1>2 DEF OtpTypeOK
<1>8. /\ otpView' \in [Requesters -> OtpTables \cup {NoView}]
      /\ limiter' \in [Requesters -> {"idle", "first", "passed", "open"}]
  BY <1>2 DEF OtpTypeOK
<1> QED BY <1>4, <1>5, <1>6, <1>7, <1>8 DEF v

\* A code is sent again, or there is none to send and the next one is made.
LEMMA InitiateCodes ==
  ASSUME CodeIInv, NEW s \in Requesters, otpView[s] # NoView, NEW v \in OtpTables,
         v.code = otpView[s].code, initiate_registration(s, v)
  PROVE  /\ OtpTypeOK' /\ ("code" \notin otpLate' => CodesFit') /\ UNCHANGED uses
         /\ otp'.user.status = IF v.user.status # otpView[s].user.status
                               THEN v.user.status ELSE otp.user.status
<1> DEFINE recent == WithCode(v, "live") \ expired
<1>1. PICK c \in CodeIds, new \in OtpTables :
        /\ OtpCommit(s, new) /\ outbox' = [outbox EXCEPT ![s] = c]
        /\ UNCHANGED <<guesses, uses>> /\ new.user = v.user
        /\ \/ c \in recent /\ new.code = v.code
           \/ /\ recent = {} /\ c \in NextId(WithCode(otp, "none"))
              /\ new.code = [v.code EXCEPT ![c] = "live"]
  <2>1. CASE recent # {}
    <3>1. PICK c \in LatestCode(recent) : Sends(s, c) /\ OtpCommit(s, v)
      BY <2>1 DEF initiate_registration
    <3>2. c \in recent /\ c \in CodeIds
      BY DEF LatestCode, WithCode
    <3> QED BY <3>1, <3>2 DEF Sends, initiate_registration
  <2>2. CASE recent = {}
    <3>1. PICK c \in NextId(WithCode(otp, "none")) :
            OtpCommit(s, [v EXCEPT !.code[c] = "live"]) /\ Sends(s, c)
      BY <2>2 DEF initiate_registration
    <3> DEFINE new == [v EXCEPT !.code[c] = "live"]
    <3>2. c \in CodeIds
      BY DEF NextId, WithCode
    <3>3. new \in OtpTables /\ new.user = v.user /\ new.code = [v.code EXCEPT ![c] = "live"]
      BY <3>2 DEF OtpTables
    <3> HIDE DEF new
    <3>4. UNCHANGED <<guesses, uses>>
      BY DEF initiate_registration
    <3>5. OtpCommit(s, new) /\ outbox' = [outbox EXCEPT ![s] = c]
      BY <3>1 DEF new, Sends
    <3> QED BY <2>2, <3>2, <3>3, <3>4, <3>5
  <2> QED BY <2>1, <2>2
<1>2. UNCHANGED <<expired, lastSent, client, hits, ttl, stranded>>
  BY <1>1 DEF OtpCommit, limiterVars
<1>3. OtpTypeOK
  BY DEF CodeIInv
<1>4. OtpTypeOK'
  <2>1. outbox' \in [Requesters -> CodeIds \cup {NoCode}]
    BY <1>1, <1>3 DEF OtpTypeOK
  <2> QED BY <1>1, <1>2, <1>3, <2>1, OtpCommitted DEF OtpTypeOK
<1>5. ASSUME "code" \notin otpLate' PROVE CodesFit'
  <2>1. /\ CodesFit /\ v.code = otp.code /\ otp'.code = new.code
    BY <1>1, <1>3, <1>5, OtpCommitted DEF CodeIInv
  <2>2. otp.code \in [CodeIds -> {"none", "live", "consumed"}] /\ CodeIds \subseteq Int
    BY <1>3, OtpAssumption DEF OtpTypeOK, OtpTables, CodeIds
  <2>3. /\ otp'.code[c] # "none"
        /\ \A d \in CodeIds : otp.code[d] # "none" => otp'.code[d] # "none"
        /\ \A d \in CodeIds : otp'.code[d] = "consumed" <=> otp.code[d] = "consumed"
    BY <1>1, <2>1, <2>2 DEF WithCode, NextId
  <2>4. \A r \in Requesters : outbox'[r] \in {outbox[r], c}
    BY <1>1, <1>3 DEF OtpTypeOK
  <2>5. MailedWasMade'
    BY <1>2, <2>1, <2>3, <2>4 DEF CodesFit, MailedWasMade
  <2>6. UsesMatch'
    BY <1>1, <2>1, <2>3 DEF CodesFit, UsesMatch
  <2>7. CodesInOrder' /\ UnexpiredIsNewest'
    <3>1. CASE new.code = v.code
      BY <1>2, <2>1, <3>1 DEF CodesFit, CodesInOrder, UnexpiredIsNewest
    <3>2. CASE recent = {} /\ c \in NextId(WithCode(otp, "none"))
               /\ new.code = [v.code EXCEPT ![c] = "live"]
      <4>1. /\ otp'.code[c] = "live" /\ otp.code[c] = "none"
            /\ \A d \in CodeIds \ {c} : otp'.code[d] = otp.code[d]
            /\ \A d \in CodeIds : otp.code[d] = "none" => c <= d
        BY <2>1, <2>2, <3>2 DEF NextId, WithCode
      <4>2. \A d \in CodeIds : c < d => otp'.code[d] = "none"
        <5> SUFFICES ASSUME NEW d \in CodeIds, c < d PROVE otp'.code[d] = "none"
          OBVIOUS
        <5>1. otp.code[d] = "none"
          BY <2>1, <4>1 DEF CodesFit, CodesInOrder
        <5>2. d # c
          BY <2>2
        <5> QED BY <4>1, <5>1, <5>2
      <4>3. \A d \in CodeIds \ {c} : otp'.code[d] = "live" => d \in expired
        BY <2>1, <3>2, <4>1 DEF WithCode
      <4>4. CodesInOrder'
        BY <2>1, <2>2, <4>1, <4>2 DEF CodesFit, CodesInOrder
      <4>5. UnexpiredIsNewest'
        BY <1>2, <4>2, <4>3 DEF UnexpiredIsNewest
      <4> QED BY <4>4, <4>5
    <3> QED BY <1>1, <3>1, <3>2
  <2> QED BY <2>5, <2>6, <2>7 DEF CodesFit
<1>6. otp'.user.status = IF v.user.status # otpView[s].user.status
                         THEN v.user.status ELSE otp.user.status
  BY <1>1, <1>3, OtpCommitted
<1> QED BY <1>1, <1>4, <1>5, <1>6

LEMMA RegisterCodes ==
  ASSUME CodeIInv, NEW s \in Requesters, otpView[s] # NoView,
         register_initiate(s) \/ register(s)
  PROVE  CodeIInv'
<1> DEFINE v == otpView[s]
           pending == [v EXCEPT !.user.status = "PENDING_VERIFICATION"]
<1>1. v \in OtpTables
  BY DEF CodeIInv, OtpTypeOK
<1>2. /\ pending \in OtpTables /\ pending.code = v.code
      /\ pending.user.status = "PENDING_VERIFICATION"
  BY <1>1 DEF OtpTables
<1>3. PICK w \in {v, pending} : initiate_registration(s, w)
  BY DEF register_initiate, register
<1> HIDE DEF pending
<1>4. /\ OtpTypeOK' /\ ("code" \notin otpLate' => CodesFit') /\ UNCHANGED uses
      /\ otp'.user.status = IF w.user.status # v.user.status
                            THEN w.user.status ELSE otp.user.status
  BY <1>1, <1>2, <1>3, InitiateCodes
<1>5. otp'.user.status = "ACTIVE" => otp.user.status = "ACTIVE"
  BY <1>2, <1>3, <1>4
<1> QED BY <1>4, <1>5 DEF CodeIInv, ActiveByCode

\* The code that is compared is consumed, and makes the account active.
LEMMA VerifyCodes ==
  ASSUME CodeIInv, NEW s \in Requesters, otpView[s] # NoView, verify_otp(s)
  PROVE  CodeIInv'
<1> DEFINE v == otpView[s]
<1>1. v \in OtpTables /\ OtpTypeOK
  BY DEF CodeIInv, OtpTypeOK
<1>2. PICK c \in Compared(v) :
        /\ OtpCommit(s, [v EXCEPT !.code[c] = "consumed", !.user.status = "ACTIVE"])
        /\ uses' = [uses EXCEPT ![c] = @ + 1] /\ UNCHANGED <<outbox, guesses>>
  BY DEF verify_otp
<1> DEFINE new == [v EXCEPT !.code[c] = "consumed", !.user.status = "ACTIVE"]
<1>3. c \in CodeIds /\ v.code[c] = "live"
  BY DEF Compared, LatestCode, WithCode
<1>4. new \in OtpTables /\ new.code = [v.code EXCEPT ![c] = "consumed"]
  BY <1>1, <1>3 DEF OtpTables
<1> HIDE DEF new
<1>5. UNCHANGED <<expired, lastSent, client, hits, ttl, stranded>> /\ OtpCommit(s, new)
  BY <1>2 DEF OtpCommit, limiterVars, new
<1>6. uses' \in [CodeIds -> Nat] /\ uses'[c] = uses[c] + 1 /\ uses[c] \in Nat
      /\ \A d \in CodeIds \ {c} : uses'[d] = uses[d]
  BY <1>1, <1>2, <1>3 DEF OtpTypeOK
<1>7. OtpTypeOK'
  BY <1>1, <1>2, <1>4, <1>5, <1>6, OtpCommitted DEF OtpTypeOK
<1>8. ActiveByCode'
  BY <1>3, <1>6 DEF ActiveByCode
<1>9. ASSUME "code" \notin otpLate' PROVE CodesFit'
  <2>1. CodesFit /\ v.code = otp.code /\ otp'.code = new.code
    BY <1>1, <1>4, <1>5, <1>9, OtpCommitted DEF CodeIInv
  <2>2. otp.code \in [CodeIds -> {"none", "live", "consumed"}] /\ CodeIds \subseteq Int
    BY <1>1, OtpAssumption DEF OtpTypeOK, OtpTables, CodeIds
  <2>3. /\ otp'.code[c] = "consumed" /\ otp.code[c] = "live"
        /\ \A d \in CodeIds \ {c} : otp'.code[d] = otp.code[d]
    BY <1>3, <1>4, <2>1, <2>2
  <2>4. UsesMatch'
    BY <1>6, <2>1, <2>3 DEF CodesFit, UsesMatch
  <2>5. MailedWasMade'
    BY <1>2, <1>5, <2>1, <2>3 DEF CodesFit, MailedWasMade
  <2>6. CodesInOrder' /\ UnexpiredIsNewest'
    BY <1>5, <2>1, <2>2, <2>3 DEF CodesFit, CodesInOrder, UnexpiredIsNewest
  <2> QED BY <2>4, <2>5, <2>6 DEF CodesFit
<1> QED BY <1>7, <1>8, <1>9 DEF CodeIInv

\* Steps that leave the codes, the mails and the uses as they are.
LEMMA AsideCodes ==
  ASSUME CodeIInv, OtpTypeOK', UNCHANGED <<otp, lastSent, uses, otpLate>>,
         expired \subseteq expired',
         \A s \in Requesters : outbox'[s] \in {outbox[s], NoCode}
  PROVE  CodeIInv'
<1>1. CodesFit => CodesFit'
  <2>1. MailedWasMade => MailedWasMade'
    BY OtpAssumption DEF MailedWasMade, NoCode, CodeIds
  <2> QED BY <2>1 DEF CodesFit, CodesInOrder, UnexpiredIsNewest, UsesMatch
<1> QED BY <1>1 DEF CodeIInv, ActiveByCode

\* The limiter, which knows no codes.
LEMMA LimiterCodes ==
  ASSUME CodeIInv, NEW s \in Requesters,
         _redis(s) \/ incr(s) \/ expire(s) \/ fail_open(s)
  PROVE  CodeIInv'
<1>1. PICK state \in {"idle", "first", "passed", "open"} : Limited(s, state)
  BY DEF _redis, incr, expire, fail_open
<1>2. UNCHANGED <<otp, expired, otpView, outbox, lastSent, guesses, uses, otpLate>>
      /\ limiter' = [limiter EXCEPT ![s] = state]
  BY <1>1 DEF Limited
<1>3. /\ client' \in {"untried", "up", "off"} /\ hits' \in 0..VerifyLimit + 1
      /\ ttl' \in BOOLEAN /\ stranded' \in BOOLEAN
  <2>1. CASE incr(s)
    BY <2>1, OtpAssumption DEF incr, CodeIInv, OtpTypeOK
  <2>2. CASE _redis(s) \/ expire(s) \/ fail_open(s)
    BY <2>2 DEF _redis, expire, fail_open, CodeIInv, OtpTypeOK
  <2> QED BY <2>1, <2>2
<1>4. OtpTypeOK'
  BY <1>2, <1>3 DEF CodeIInv, OtpTypeOK
<1> QED BY <1>2, <1>4, AsideCodes

\* A mail may be lost, or carry the code the request has left to it.
LEMMA DeliverCodes ==
  ASSUME CodeIInv, NEW s \in Requesters, deliver_registration_otp(s)
  PROVE  CodeIInv'
<1>1. /\ outbox' = [outbox EXCEPT ![s] = NoCode] /\ lastSent' \in {lastSent, outbox[s]}
      /\ outbox[s] # NoCode
      /\ UNCHANGED <<otp, expired, otpView, limiterVars, limiter, guesses, uses, otpLate>>
  BY DEF deliver_registration_otp, Sends
<1>2. OtpTypeOK'
  BY <1>1 DEF CodeIInv, OtpTypeOK, limiterVars
<1>3. \A q \in Requesters : outbox'[q] \in {outbox[q], NoCode}
  BY <1>1 DEF CodeIInv, OtpTypeOK
<1>4. MailedWasMade => MailedWasMade'
  BY <1>1, <1>3, OtpAssumption DEF MailedWasMade, NoCode, CodeIds
<1>5. CodesFit => CodesFit'
  BY <1>1, <1>4 DEF CodesFit, CodesInOrder, UnexpiredIsNewest, UsesMatch
<1> QED BY <1>1, <1>2, <1>5 DEF CodeIInv, ActiveByCode

LEMMA CodeNextIInv == CodeIInv /\ [OtpNext]_otpVars => CodeIInv'
<1> SUFFICES ASSUME CodeIInv, [OtpNext]_otpVars PROVE CodeIInv'
  OBVIOUS
<1>1. ASSUME NEW s \in Requesters,
             \/ _redis(s) \/ incr(s) \/ expire(s) \/ fail_open(s)
             \/ deliver_registration_otp(s)
      PROVE  CodeIInv'
  BY <1>1, LimiterCodes, DeliverCodes
<1>2. ASSUME NEW s \in Requesters, OtpBegin(s) PROVE CodeIInv'
  <2>1. OtpTypeOK' /\ UNCHANGED <<otp, lastSent, uses, otpLate, expired, outbox>>
    BY <1>2 DEF OtpBegin, CodeIInv, OtpTypeOK, limiterVars
  <2> QED BY <2>1, AsideCodes
<1>3. ASSUME NEW s \in Requesters, OtpRollback(s) \/ wrong_code(s) PROVE CodeIInv'
  <2>1. OtpClose(s) /\ UNCHANGED <<otp, lastSent, uses, otpLate, expired, outbox, limiterVars>>
        /\ guesses' \in {guesses, guesses + 1}
    BY <1>3 DEF OtpRollback, wrong_code
  <2>2. OtpTypeOK'
    BY <2>1 DEF OtpClose, CodeIInv, OtpTypeOK, limiterVars
  <2> QED BY <2>1, <2>2, AsideCodes
<1>4. ASSUME NEW s \in Requesters, otpView[s] # NoView,
             register_initiate(s) \/ register(s) \/ verify_otp(s)
      PROVE  CodeIInv'
  BY <1>4, RegisterCodes, VerifyCodes
<1>5. ASSUME NEW c \in CodeIds, CodeExpires(c) PROVE CodeIInv'
  <2>1. /\ expired' = expired \cup {c}
        /\ UNCHANGED <<otp, otpView, outbox, lastSent, limiterVars, limiter, guesses, uses, otpLate>>
    BY <1>5 DEF CodeExpires
  <2>2. OtpTypeOK'
    BY <2>1 DEF CodeIInv, OtpTypeOK, limiterVars
  <2> QED BY <2>1, <2>2, AsideCodes
<1>6. CASE WindowEnds
  <2>1. UNCHANGED <<otp, expired, otpView, outbox, lastSent, client, stranded, uses, otpLate>>
    BY <1>6 DEF WindowEnds
  <2>2. hits' \in 0..VerifyLimit + 1 /\ ttl' \in BOOLEAN /\ guesses' \in Nat
        /\ limiter' \in [Requesters -> {"idle", "first", "passed", "open"}]
    <3>1. hits' = 0 /\ ttl' = FALSE /\ guesses' = 0
      BY <1>6 DEF WindowEnds
    <3>2. limiter' \in [Requesters -> {"idle", "first", "passed", "open"}]
      BY <1>6 DEF WindowEnds, CodeIInv, OtpTypeOK
    <3>3. 0 \in 0..VerifyLimit + 1
      BY OtpAssumption
    <3> QED BY <3>1, <3>2, <3>3
  <2>3. OtpTypeOK'
    BY <2>1, <2>2 DEF CodeIInv, OtpTypeOK
  <2> QED BY <2>1, <2>3, AsideCodes
<1>7. CASE OtpRestart
  <2>1. /\ UNCHANGED <<otp, expired, lastSent, hits, ttl, guesses, uses, otpLate>>
        /\ client' = "untried" /\ otpView' = [s \in Requesters |-> NoView]
        /\ outbox' = [s \in Requesters |-> NoCode] /\ limiter' = [s \in Requesters |-> "idle"]
        /\ stranded' = (stranded \/ \E s \in Requesters : limiter[s] = "first")
    BY <1>7 DEF OtpRestart
  <2>2. OtpTypeOK'
    BY <2>1 DEF CodeIInv, OtpTypeOK
  <2> QED BY <2>1, <2>2, AsideCodes
<1>8. CASE UNCHANGED otpVars
  <2>1. OtpTypeOK' /\ UNCHANGED <<otp, lastSent, uses, otpLate, expired, outbox>>
    BY <1>8 DEF otpVars, limiterVars, CodeIInv, OtpTypeOK
  <2> QED BY <2>1, AsideCodes
<1> QED BY <1>1, <1>2, <1>3, <1>4, <1>5, <1>6, <1>7, <1>8 DEF OtpNext

LEMMA CodeSpecIInv == OtpSpec => []CodeIInv
<1>1. CodeIInv /\ [OtpNext]_otpVars => CodeIInv'
  BY CodeNextIInv
<1> QED BY CodeInitIInv, <1>1, PTL DEF OtpSpec

\* But for requests that overlap, the code mailed last is the one a verification
\* compares with until it expires, and it opens one session; an account is active
\* by a code (auth_service.py:131).
THEOREM MailedCodeWorksOnce == OtpSpec => []SentCodeWorksOnce
<1>1. CodeIInv => LastSentIsChecked
  <2> SUFFICES ASSUME CodeIInv, "code" \notin otpLate, lastSent # NoCode,
                      lastSent \notin expired, otp.code[lastSent] # "consumed"
               PROVE  lastSent \in Compared(otp)
    BY DEF LastSentIsChecked
  <2>1. /\ CodesFit /\ lastSent \in CodeIds /\ CodeIds \subseteq Int
        /\ otp.code \in [CodeIds -> {"none", "live", "consumed"}]
    BY OtpAssumption DEF CodeIInv, OtpTypeOK, OtpTables, CodeIds
  <2>2. otp.code[lastSent] = "live"
    BY <2>1 DEF CodesFit, MailedWasMade
  <2>3. \A d \in CodeIds : otp.code[d] = "live" => d <= lastSent
    BY <2>1, <2>2 DEF CodesFit, UnexpiredIsNewest
  <2> QED BY <2>1, <2>2, <2>3 DEF Compared, LatestCode, WithCode
<1>2. CodeIInv => CodeUsedOnce
  BY DEF CodeIInv, CodesFit, UsesMatch, ActiveByCode, CodeUsedOnce
<1> QED BY <1>1, <1>2, CodeSpecIInv, PTL DEF SentCodeWorksOnce

\* The codes, the snapshots and the limiter keep their types; the counter stays
\* within one of its limit.
THEOREM OtpTypeCorrect == OtpSpec => []OtpTypeOK
<1>1. CodeIInv => OtpTypeOK
  BY DEF CodeIInv
<1> QED BY <1>1, CodeSpecIInv, PTL

-----------------------------------------------------------------------------
(***************************************************************************)
(* Passwords, tokens and resets.                                           *)
(***************************************************************************)

\* A reset that has set a password is used, whatever was written since.
UsedWhenSet == \A r \in ResetIds : resetBy[r] # {} => account.reset[r].used

SetOnce ==
  "reset" \notin accountLate =>
    \A r \in ResetIds : resetBy[r] = {} \/ \E p \in 1..MaxPasswords : resetBy[r] = {p}

Escapes == {"login", "otp", "register"}

\* Nobody has a session before the account is verified.
VerifiedFirst ==
  Escapes \cap accountLate = {} /\ ~account.user.active =>
    \A t \in TokenIds : account.token[t] # "live"

AccountIInv ==
  AccountTypeOK /\ TokensFollowPassword /\ VerifiedFirst /\ UsedWhenSet /\ SetOnce

\* What a session's UPDATEs of its rows make of the committed rows.
Merged(v, new) ==
  [user |-> MergeRow(v.user, new.user, account.user),
   token |-> MergeRow(v.token, new.token, account.token),
   reset |-> MergeTable(v.reset, new.reset, account.reset)]

-----------------------------------------------------------------------------
LEMMA MergedTables ==
  ASSUME account \in AccountTables, NEW v \in AccountTables, NEW new \in AccountTables
  PROVE  /\ Merged(v, new) \in AccountTables
         /\ Merged(v, new).user.password =
              IF new.user.password # v.user.password THEN new.user.password
              ELSE account.user.password
         /\ Merged(v, new).user.active =
              IF new.user.active # v.user.active THEN new.user.active
              ELSE account.user.active
         /\ \A t \in TokenIds : Merged(v, new).token[t] =
              IF new.token[t] # v.token[t] THEN new.token[t] ELSE account.token[t]
         /\ \A r \in ResetIds : Merged(v, new).reset[r].used =
              IF new.reset[r].used # v.reset[r].used THEN new.reset[r].used
              ELSE account.reset[r].used
<1> DEFINE m == Merged(v, new)
<1>1. /\ DOMAIN m = {"user", "token", "reset"}
      /\ m = [user |-> m.user, token |-> m.token, reset |-> m.reset]
      /\ m.user = MergeRow(v.user, new.user, account.user)
      /\ m.token = MergeRow(v.token, new.token, account.token)
      /\ m.reset = MergeTable(v.reset, new.reset, account.reset)
  BY DEF Merged
<1> HIDE DEF m
<1>2. /\ m.user \in [password : 1..MaxPasswords, active : BOOLEAN]
      /\ m.user.password = IF new.user.password # v.user.password THEN new.user.password
                           ELSE account.user.password
      /\ m.user.active = IF new.user.active # v.user.active THEN new.user.active
                         ELSE account.user.active
  <2> DEFINE column(c) == IF new.user[c] # v.user[c] THEN new.user[c] ELSE account.user[c]
  <2>1. column("password") \in 1..MaxPasswords /\ column("active") \in BOOLEAN
    BY DEF AccountTables
  <2>2. DOMAIN account.user = {"password", "active"}
    BY DEF AccountTables
  <2>3. m.user = [c \in {"password", "active"} |-> column(c)]
    BY <1>1, <2>2 DEF MergeRow
  <2> HIDE DEF column
  <2>4. m.user = [password |-> column("password"), active |-> column("active")]
    BY <2>3
  <2>5. /\ m.user \in [password : 1..MaxPasswords, active : BOOLEAN]
        /\ m.user.password = column("password") /\ m.user.active = column("active")
    BY <2>1, <2>4
  <2> QED BY <2>5 DEF column
<1>3. /\ m.token \in [TokenIds -> TokenStates]
      /\ \A t \in TokenIds : m.token[t] =
           IF new.token[t] # v.token[t] THEN new.token[t] ELSE account.token[t]
  <2>1. /\ account.token \in [TokenIds -> TokenStates]
        /\ new.token \in [TokenIds -> TokenStates]
    BY DEF AccountTables
  <2> QED BY <1>1, <2>1 DEF MergeRow
<1>4. /\ m.reset \in [ResetIds -> ResetRow]
      /\ \A r \in ResetIds : m.reset[r].used =
           IF new.reset[r].used # v.reset[r].used THEN new.reset[r].used
           ELSE account.reset[r].used
  <2>1. /\ account.reset \in [ResetIds -> ResetRow] /\ new.reset \in [ResetIds -> ResetRow]
        /\ v.reset \in [ResetIds -> ResetRow]
    BY DEF AccountTables
  <2>2. m.reset = [r \in ResetIds |-> MergeRow(v.reset[r], new.reset[r], account.reset[r])]
    BY <1>1, <2>1 DEF MergeTable
  <2>3. ASSUME NEW a \in ResetRow, NEW b \in ResetRow, NEW c \in ResetRow
        PROVE  /\ MergeRow(a, b, c) \in ResetRow
               /\ MergeRow(a, b, c).used = IF b.used # a.used THEN b.used ELSE c.used
    <3> DEFINE column(x) == IF b[x] # a[x] THEN b[x] ELSE c[x]
    <3>1. /\ DOMAIN c = {"made", "verified", "used"}
          /\ column("made") \in BOOLEAN /\ column("verified") \in BOOLEAN
          /\ column("used") \in BOOLEAN
      BY DEF ResetRow
    <3>2. MergeRow(a, b, c) = [x \in {"made", "verified", "used"} |-> column(x)]
      BY <3>1 DEF MergeRow
    <3> HIDE DEF column
    <3>3. MergeRow(a, b, c) = [made |-> column("made"), verified |-> column("verified"),
                               used |-> column("used")]
      BY <3>2
    <3>4. MergeRow(a, b, c) \in ResetRow /\ MergeRow(a, b, c).used = column("used")
      BY <3>1, <3>3 DEF ResetRow
    <3> QED BY <3>4 DEF column
  <2> QED BY <2>1, <2>2, <2>3
<1>5. m \in AccountTables
  BY <1>1, <1>2, <1>3, <1>4 DEF AccountTables
<1> QED BY <1>2, <1>3, <1>4, <1>5 DEF m

\* The commit of a request, with its UPDATE of the tokens or without.
LEMMA KeptCommit ==
  ASSUME account \in AccountTables, NEW s \in Requesters, accountView[s] \in AccountTables,
         NEW new \in AccountTables, AccountCommit(s, new, Kept)
  PROVE  account' = Merged(accountView[s], new)
<1> DEFINE m == Merged(accountView[s], new)
<1>1. /\ m.token \in [TokenIds -> TokenStates]
      /\ m = [user |-> m.user, token |-> m.token, reset |-> m.reset]
      /\ account' = [user |-> m.user, token |-> [t \in TokenIds |-> Kept[m.token[t]]],
                     reset |-> m.reset]
  BY MergedTables DEF AccountCommit, Merged, AccountTables
<1> HIDE DEF m
<1>2. m.token = [t \in TokenIds |-> Kept[m.token[t]]]
  BY <1>1 DEF Kept
<1> QED BY <1>1, <1>2 DEF m

LEMMA RevokedCommit ==
  ASSUME account \in AccountTables, NEW s \in Requesters, accountView[s] \in AccountTables,
         NEW new \in AccountTables, AccountCommit(s, new, Revoked)
  PROVE  /\ account' \in AccountTables
         /\ \A t \in TokenIds : account'.token[t] # "live"
         /\ account'.reset = Merged(accountView[s], new).reset
<1> DEFINE m == Merged(accountView[s], new)
<1>1. /\ m \in AccountTables
      /\ account' = [user |-> m.user, token |-> [t \in TokenIds |-> Revoked[m.token[t]]],
                     reset |-> m.reset]
  BY MergedTables DEF AccountCommit, Merged
<1> HIDE DEF m
<1>2. \A t \in TokenIds : Revoked[m.token[t]] \in {"none", "revoked"}
  BY <1>1 DEF AccountTables, Revoked, TokenStates
<1> QED BY <1>1, <1>2 DEF AccountTables, TokenStates, m

\* What every request leaves of the resets: used stays.
LEMMA UsedStays ==
  ASSUME account \in AccountTables, NEW v \in AccountTables, NEW new \in AccountTables,
         NEW r \in ResetIds, new.reset[r].used = v.reset[r].used \/ new.reset[r].used
  PROVE  account.reset[r].used => Merged(v, new).reset[r].used
<1>1. account.reset[r].used \in BOOLEAN /\ new.reset[r].used \in BOOLEAN
  BY DEF AccountTables, ResetRow
<1> QED BY <1>1, MergedTables

LEMMA WrittenColumn ==
  ASSUME NEW row \in ResetRow
  PROVE  /\ [row EXCEPT !.made = TRUE] \in ResetRow
         /\ [row EXCEPT !.made = TRUE].used = row.used
         /\ [row EXCEPT !.verified = TRUE] \in ResetRow
         /\ [row EXCEPT !.verified = TRUE].used = row.used
         /\ [row EXCEPT !.used = TRUE] \in ResetRow
         /\ [row EXCEPT !.used = TRUE].used = TRUE
BY DEF ResetRow

LEMMA RowOfReset ==
  ASSUME NEW v \in AccountTables, NEW r \in ResetIds
  PROVE  v.reset[r] \in ResetRow /\ v.reset[r].used \in BOOLEAN
BY DEF AccountTables, ResetRow

\* A request's copy of the tables with one row of the resets written.
LEMMA WrittenReset ==
  ASSUME NEW v \in AccountTables, NEW r \in ResetIds, NEW row \in ResetRow
  PROVE  LET w == [v EXCEPT !.reset = [v.reset EXCEPT ![r] = row]]
         IN /\ w \in AccountTables /\ w.user = v.user /\ w.token = v.token
            /\ w.reset[r] = row /\ \A q \in ResetIds \ {r} : w.reset[q] = v.reset[q]
<1> DEFINE rows == [v.reset EXCEPT ![r] = row]
<1>1. v.reset \in [ResetIds -> ResetRow]
  BY DEF AccountTables
<1>2. /\ rows \in [ResetIds -> ResetRow] /\ rows[r] = row
      /\ \A q \in ResetIds \ {r} : rows[q] = v.reset[q]
  BY <1>1
<1> HIDE DEF rows
<1>3. LET w == [v EXCEPT !.reset = rows]
      IN w \in AccountTables /\ w.user = v.user /\ w.token = v.token /\ w.reset = rows
  BY <1>2 DEF AccountTables
<1> QED BY <1>2, <1>3 DEF rows

-----------------------------------------------------------------------------
LEMMA AccountInitIInv == AccountInit => AccountIInv
<1> SUFFICES ASSUME AccountInit PROVE AccountIInv
  OBVIOUS
<1>1. account \in AccountTables
  BY SessionsAssumption DEF AccountInit, AccountTables, TokenStates, ResetRow
<1>2. AccountTypeOK
  BY <1>1, SessionsAssumption DEF AccountInit, AccountTypeOK
<1> QED BY <1>2
      DEF AccountInit, AccountIInv, TokensFollowPassword, VerifiedFirst, UsedWhenSet, SetOnce

\* Reading, giving up, and the term of a reset.
LEMMA AccountReadIInv ==
  ASSUME AccountIInv,
         \/ \E s \in Requesters : AccountBegin(s) \/ AccountRollback(s)
         \/ \E r \in ResetIds : ResetExpires(r)
  PROVE  AccountIInv'
<1>1. UNCHANGED <<account, passwords, accountHistory>>
  BY DEF AccountBegin, AccountRollback, ResetExpires
<1>2. accountView' \in [Requesters -> AccountTables \cup {NoView}] /\ overdue' \subseteq ResetIds
  BY DEF AccountBegin, AccountRollback, ResetExpires, AccountIInv, AccountTypeOK
<1> QED BY <1>1, <1>2
      DEF AccountIInv, AccountTypeOK, TokensFollowPassword, VerifiedFirst, UsedWhenSet, SetOnce,
          accountHistory

\* A token is issued under the password that was read, to an account that is
\* active or becomes so.
LEMMA LoginIInv ==
  ASSUME AccountIInv, NEW s \in Requesters, accountView[s] # NoView,
         NEW kind \in {"login", "otp"}, NEW opened \in AccountTables,
         opened.user.password = accountView[s].user.password, opened.user.active,
         opened.token = accountView[s].token, opened.reset = accountView[s].reset,
         InsertsToken(s, opened, kind)
  PROVE  AccountIInv'
<1> DEFINE v == accountView[s]
<1>1. account \in AccountTables /\ v \in AccountTables /\ v.user.active \in BOOLEAN
  BY DEF AccountIInv, AccountTypeOK, AccountTables
<1>2. PICK t \in TokenIds :
        /\ AccountCommit(s, [opened EXCEPT !.token[t] = "live"], Kept)
        /\ issuedUnder' = [issuedUnder EXCEPT ![t] = v.user.password]
        /\ NoteLate(kind, v.user # account.user)
        /\ UNCHANGED <<overdue, passwords, resetBy>>
  BY DEF InsertsToken, NextId
<1> DEFINE new == [opened EXCEPT !.token[t] = "live"]
<1>3. /\ new \in AccountTables /\ new.user = opened.user /\ new.reset = v.reset
      /\ new.user.password = v.user.password
      /\ new.token[t] = "live" /\ \A u \in TokenIds \ {t} : new.token[u] = v.token[u]
  BY <1>1 DEF AccountTables, TokenStates
<1>4. account' = Merged(v, new) /\ accountView' = [accountView EXCEPT ![s] = NoView]
  BY <1>1, <1>2, <1>3, KeptCommit DEF AccountCommit
<1> HIDE DEF new, v
<1>5. /\ account' \in AccountTables /\ account'.user.password = account.user.password
      /\ \A u \in TokenIds \ {t} : account'.token[u] = account.token[u]
      /\ \A r \in ResetIds : account'.reset[r].used = account.reset[r].used
  BY <1>1, <1>3, <1>4, MergedTables
<1>6. v.user.password \in 0..MaxPasswords
  BY <1>1, SessionsAssumption DEF AccountTables
<1>7. AccountTypeOK'
  BY <1>2, <1>4, <1>5, <1>6 DEF AccountIInv, AccountTypeOK, NoteLate
<1>8. TokensFollowPassword'
  <2> SUFFICES ASSUME Escapes \cap accountLate' = {}, NEW u \in TokenIds,
                      account'.token[u] = "live"
               PROVE  issuedUnder'[u] = account'.user.password
    BY DEF TokensFollowPassword, Escapes
  <2>1. v.user = account.user /\ Escapes \cap accountLate = {}
    BY <1>2 DEF NoteLate, Escapes
  <2> QED BY <1>2, <1>5, <2>1 DEF AccountIInv, AccountTypeOK, TokensFollowPassword, Escapes
<1>9. VerifiedFirst'
  <2> SUFFICES ASSUME Escapes \cap accountLate' = {} PROVE account'.user.active
    BY DEF VerifiedFirst
  <2>1. v.user = account.user
    BY <1>2 DEF NoteLate, Escapes
  <2>2. account'.user.active = IF new.user.active # v.user.active THEN new.user.active
                               ELSE account.user.active
    BY <1>1, <1>3, <1>4, MergedTables
  <2>3. new.user.active
    BY <1>3
  <2>4. CASE account.user.active
    BY <2>1, <2>2, <2>3, <2>4
  <2>5. CASE ~account.user.active
    BY <2>1, <2>2, <2>3, <2>5
  <2> QED BY <2>4, <2>5
<1>10. UsedWhenSet' /\ SetOnce'
  BY <1>2, <1>5 DEF AccountIInv, UsedWhenSet, SetOnce, NoteLate
<1> QED BY <1>7, <1>8, <1>9, <1>10 DEF AccountIInv

LEMMA OpeningIInv ==
  ASSUME AccountIInv, NEW s \in Requesters, accountView[s] # NoView,
         login(s) \/ issue_tokens(s)
  PROVE  AccountIInv'
<1>1. accountView[s] \in AccountTables
  BY DEF AccountIInv, AccountTypeOK
<1>2. CASE login(s)
  BY <1>1, <1>2, LoginIInv DEF login
<1>3. CASE issue_tokens(s)
  <2> DEFINE opened == [accountView[s] EXCEPT !.user.active = TRUE]
  <2>1. /\ opened \in AccountTables
        /\ opened.user.password = accountView[s].user.password /\ opened.user.active
        /\ opened.token = accountView[s].token /\ opened.reset = accountView[s].reset
    BY <1>1 DEF AccountTables
  <2>2. InsertsToken(s, opened, "otp")
    BY <1>3 DEF issue_tokens
  <2> HIDE DEF opened
  <2> QED BY <2>1, <2>2, LoginIInv
<1> QED BY <1>2, <1>3

\* A registration gives a new password to an account without a session, or to
\* one that was verified since.
LEMMA RegisterIInv ==
  ASSUME AccountIInv, NEW s \in Requesters, accountView[s] # NoView, register_user(s)
  PROVE  AccountIInv'
<1> DEFINE v == accountView[s]
           new == [v EXCEPT !.user.password = passwords']
<1>1. account \in AccountTables /\ v \in AccountTables
  BY DEF AccountIInv, AccountTypeOK
<1>2. /\ AccountCommit(s, new, Kept) /\ passwords' \in 1..MaxPasswords
      /\ NoteLate("register", account.user.active)
      /\ UNCHANGED <<overdue, issuedUnder, resetBy>>
  BY SessionsAssumption DEF register_user, AccountIInv, AccountTypeOK
<1>3. /\ new \in AccountTables /\ new.user.active = v.user.active
      /\ new.token = v.token /\ new.reset = v.reset
  BY <1>1, <1>2 DEF AccountTables
<1>4. account' = Merged(v, new) /\ accountView' = [accountView EXCEPT ![s] = NoView]
  BY <1>1, <1>2, <1>3, KeptCommit DEF AccountCommit
<1> HIDE DEF new, v
<1>5. /\ account' \in AccountTables /\ account'.user.active = account.user.active
      /\ \A t \in TokenIds : account'.token[t] = account.token[t]
      /\ \A r \in ResetIds : account'.reset[r].used = account.reset[r].used
  BY <1>1, <1>3, <1>4, MergedTables
<1>6. AccountTypeOK'
  BY <1>2, <1>4, <1>5 DEF AccountIInv, AccountTypeOK, NoteLate
<1>7. TokensFollowPassword' /\ VerifiedFirst'
  <2> SUFFICES ASSUME Escapes \cap accountLate' = {}
               PROVE  \A t \in TokenIds : account'.token[t] # "live"
    BY DEF TokensFollowPassword, VerifiedFirst, Escapes
  <2>1. ~account.user.active /\ Escapes \cap accountLate = {}
    BY <1>2 DEF NoteLate, Escapes
  <2> QED BY <1>5, <2>1 DEF AccountIInv, VerifiedFirst
<1>8. UsedWhenSet' /\ SetOnce'
  BY <1>2, <1>5 DEF AccountIInv, UsedWhenSet, SetOnce, NoteLate
<1> QED BY <1>6, <1>7, <1>8 DEF AccountIInv

\* Requests that write at most a column of a reset that is not used.
LEMMA KeepingIInv ==
  ASSUME AccountIInv, NEW s \in Requesters, accountView[s] # NoView,
         \/ request_reset(s) \/ \E t \in TokenIds : refresh_token(s, t)
         \/ \E r \in ResetIds : verify_code(s, r)
  PROVE  AccountIInv'
<1> DEFINE v == accountView[s]
<1>1. account \in AccountTables /\ v \in AccountTables
  BY DEF AccountIInv, AccountTypeOK
<1>2. PICK new \in AccountTables :
        /\ AccountCommit(s, new, Kept) /\ UNCHANGED <<overdue, passwords, accountHistory>>
        /\ new.user = v.user /\ new.token = v.token
        /\ \A r \in ResetIds : new.reset[r].used = v.reset[r].used
  <2>1. CASE \E t \in TokenIds : refresh_token(s, t)
    BY <1>1, <2>1 DEF refresh_token
  <2>2. CASE request_reset(s)
    <3>1. PICK r \in ResetIds :
            /\ AccountCommit(s, [v EXCEPT !.reset[r].made = TRUE], Kept)
            /\ UNCHANGED <<overdue, passwords, accountHistory>>
      BY <2>2 DEF request_reset, NextId
    <3> DEFINE row == [v.reset[r] EXCEPT !.made = TRUE]
               new == [v EXCEPT !.reset = [v.reset EXCEPT ![r] = row]]
    <3>2. row \in ResetRow /\ row.used = v.reset[r].used
      BY <1>1, RowOfReset, WrittenColumn
    <3>3. /\ new \in AccountTables /\ new.user = v.user /\ new.token = v.token
          /\ new.reset[r] = row /\ \A q \in ResetIds \ {r} : new.reset[q] = v.reset[q]
      <4> HIDE DEF row
      <4> QED BY <1>1, <3>2, WrittenReset
    <3>4. AccountCommit(s, new, Kept)
      BY <3>1
    <3> HIDE DEF row, new
    <3> QED BY <3>1, <3>2, <3>3, <3>4
  <2>3. CASE \E r \in ResetIds : verify_code(s, r)
    <3>1. PICK r \in ResetIds :
            /\ AccountCommit(s, [v EXCEPT !.reset[r].verified = TRUE], Kept)
            /\ UNCHANGED <<overdue, passwords, accountHistory>>
      BY <2>3 DEF verify_code
    <3> DEFINE row == [v.reset[r] EXCEPT !.verified = TRUE]
               new == [v EXCEPT !.reset = [v.reset EXCEPT ![r] = row]]
    <3>2. row \in ResetRow /\ row.used = v.reset[r].used
      BY <1>1, RowOfReset, WrittenColumn
    <3>3. /\ new \in AccountTables /\ new.user = v.user /\ new.token = v.token
          /\ new.reset[r] = row /\ \A q \in ResetIds \ {r} : new.reset[q] = v.reset[q]
      <4> HIDE DEF row
      <4> QED BY <1>1, <3>2, WrittenReset
    <3>4. AccountCommit(s, new, Kept)
      BY <3>1
    <3> HIDE DEF row, new
    <3> QED BY <3>1, <3>2, <3>3, <3>4
  <2> QED BY <2>1, <2>2, <2>3
<1>3. account' = Merged(v, new) /\ accountView' = [accountView EXCEPT ![s] = NoView]
  BY <1>1, <1>2, KeptCommit DEF AccountCommit
<1> HIDE DEF v
<1>4. /\ account' \in AccountTables /\ account'.user.password = account.user.password
      /\ account'.user.active = account.user.active
      /\ \A t \in TokenIds : account'.token[t] = account.token[t]
      /\ \A r \in ResetIds : account'.reset[r].used = account.reset[r].used
  BY <1>1, <1>2, <1>3, MergedTables
<1>5. AccountTypeOK'
  BY <1>2, <1>3, <1>4 DEF AccountIInv, AccountTypeOK, accountHistory
<1>6. TokensFollowPassword' /\ VerifiedFirst'
  BY <1>2, <1>4 DEF AccountIInv, TokensFollowPassword, VerifiedFirst, accountHistory
<1> QED BY <1>2, <1>4, <1>5, <1>6 DEF AccountIInv, UsedWhenSet, SetOnce, accountHistory

\* Requests that revoke every token there is.
LEMMA RevokingIInv ==
  ASSUME AccountIInv, NEW s \in Requesters, accountView[s] # NoView,
         revoke_other_sessions(s) \/ change_password(s)
  PROVE  AccountIInv'
<1> DEFINE v == accountView[s]
<1>1. account \in AccountTables /\ v \in AccountTables
  BY DEF AccountIInv, AccountTypeOK
<1>2. PICK new \in AccountTables :
        /\ AccountCommit(s, new, Revoked) /\ new.reset = v.reset
        /\ UNCHANGED <<overdue, accountHistory>> /\ passwords' \in 1..MaxPasswords
  <2>1. CASE revoke_other_sessions(s)
    BY <1>1, <2>1 DEF revoke_other_sessions, AccountIInv, AccountTypeOK
  <2>2. CASE change_password(s)
    <3>1. passwords' \in 1..MaxPasswords
      BY <2>2, SessionsAssumption DEF change_password, NewPassword, AccountIInv, AccountTypeOK
    <3>2. [v EXCEPT !.user.password = passwords'] \in AccountTables
      BY <1>1, <3>1 DEF AccountTables
    <3> QED BY <1>1, <2>2, <3>1, <3>2 DEF change_password, NewPassword, AccountTables
  <2> QED BY <2>1, <2>2
<1>3. accountView' = [accountView EXCEPT ![s] = NoView]
  BY <1>2 DEF AccountCommit
<1>4. /\ account' \in AccountTables /\ \A t \in TokenIds : account'.token[t] # "live"
      /\ account'.reset = Merged(v, new).reset
  BY <1>1, <1>2, RevokedCommit
<1> HIDE DEF v
<1>5. \A r \in ResetIds : account'.reset[r].used = account.reset[r].used
  BY <1>1, <1>2, <1>4, MergedTables
<1>6. AccountTypeOK'
  BY <1>2, <1>3, <1>4 DEF AccountIInv, AccountTypeOK, accountHistory
<1> QED BY <1>2, <1>4, <1>5, <1>6
      DEF AccountIInv, TokensFollowPassword, VerifiedFirst, UsedWhenSet, SetOnce, accountHistory

\* The end of a reset: it was not used in what the request has read.
LEMMA ResetIInv ==
  ASSUME AccountIInv, NEW s \in Requesters, accountView[s] # NoView,
         NEW r \in ResetIds, complete_reset(s, r)
  PROVE  AccountIInv'
<1> DEFINE v == accountView[s]
           new == [[v EXCEPT !.reset[r].used = TRUE] EXCEPT !.user.password = passwords']
<1>1. account \in AccountTables /\ v \in AccountTables /\ v.reset[r].used = FALSE
  <2>1. account \in AccountTables /\ v \in AccountTables /\ ~v.reset[r].used
    BY DEF AccountIInv, AccountTypeOK, complete_reset
  <2> QED BY <2>1, RowOfReset
<1>2. /\ AccountCommit(s, new, Revoked) /\ passwords < MaxPasswords
      /\ passwords' = passwords + 1
      /\ resetBy' = [resetBy EXCEPT ![r] = @ \cup {passwords'}]
      /\ NoteLate("reset", v.reset[r] # account.reset[r])
      /\ UNCHANGED <<overdue, issuedUnder>>
  BY DEF complete_reset, NewPassword
<1>3. passwords' \in 1..MaxPasswords
  BY <1>2, SessionsAssumption DEF AccountIInv, AccountTypeOK
<1>4. /\ new \in AccountTables /\ new.reset[r].used = TRUE
      /\ \A q \in ResetIds \ {r} : new.reset[q] = v.reset[q]
  <2> DEFINE row == [v.reset[r] EXCEPT !.used = TRUE]
             used == [v EXCEPT !.reset = [v.reset EXCEPT ![r] = row]]
  <2>1. row \in ResetRow /\ row.used = TRUE
    BY <1>1, RowOfReset, WrittenColumn
  <2>2. /\ used \in AccountTables /\ used.reset[r] = row
        /\ \A q \in ResetIds \ {r} : used.reset[q] = v.reset[q]
    <3> HIDE DEF row
    <3> QED BY <1>1, <2>1, WrittenReset
  <2>3. new = [used EXCEPT !.user.password = passwords']
    OBVIOUS
  <2> HIDE DEF used, row, new
  <2>4. new \in AccountTables /\ new.reset = used.reset
    BY <1>3, <2>2, <2>3 DEF AccountTables
  <2> QED BY <2>1, <2>2, <2>4
<1>5. accountView' = [accountView EXCEPT ![s] = NoView]
  BY <1>2 DEF AccountCommit
<1> HIDE DEF new
<1>6. /\ account' \in AccountTables /\ \A t \in TokenIds : account'.token[t] # "live"
      /\ account'.reset = Merged(v, new).reset
  BY <1>1, <1>2, <1>4, RevokedCommit
<1> HIDE DEF v
<1>7. /\ account'.reset[r].used
      /\ \A q \in ResetIds : account.reset[q].used => account'.reset[q].used
  <2>1. new.reset[r].used # v.reset[r].used
    BY <1>1, <1>4
  <2>2. account'.reset[r].used = new.reset[r].used
    <3>1. Merged(v, new).reset[r].used = new.reset[r].used
      BY <1>1, <1>4, <2>1, MergedTables
    <3> QED BY <1>6, <3>1
  <2>3. \A q \in ResetIds : new.reset[q].used = v.reset[q].used \/ new.reset[q].used
    BY <1>4
  <2> QED BY <1>1, <1>4, <1>6, <2>2, <2>3, UsedStays
<1>8. AccountTypeOK'
  BY <1>2, <1>3, <1>5, <1>6 DEF AccountIInv, AccountTypeOK, NoteLate
<1>9. UsedWhenSet'
  BY <1>2, <1>7 DEF AccountIInv, AccountTypeOK, UsedWhenSet
<1>10. SetOnce'
  <2> SUFFICES ASSUME "reset" \notin accountLate', NEW q \in ResetIds
               PROVE  resetBy'[q] = {} \/ \E p \in 1..MaxPasswords : resetBy'[q] = {p}
    BY DEF SetOnce
  <2>1. v.reset[r] = account.reset[r] /\ "reset" \notin accountLate
    BY <1>2 DEF NoteLate
  <2>2. resetBy[r] = {}
    BY <1>1, <2>1 DEF AccountIInv, UsedWhenSet
  <2>3. CASE q = r
    BY <1>2, <1>3, <2>2, <2>3 DEF AccountIInv, AccountTypeOK
  <2>4. CASE q # r
    BY <1>2, <2>1, <2>4 DEF AccountIInv, AccountTypeOK, SetOnce
  <2> QED BY <2>3, <2>4
<1> QED BY <1>6, <1>8, <1>9, <1>10 DEF AccountIInv, TokensFollowPassword, VerifiedFirst

LEMMA AccountNextIInv == AccountIInv /\ [AccountNext]_accountVars => AccountIInv'
<1> SUFFICES ASSUME AccountIInv, [AccountNext]_accountVars PROVE AccountIInv'
  OBVIOUS
<1>1. CASE \/ \E s \in Requesters : AccountBegin(s)
           \/ \E r \in ResetIds : ResetExpires(r)
  BY <1>1, AccountReadIInv
<1>2. ASSUME NEW s \in Requesters, accountView[s] # NoView,
             \/ AccountRollback(s) \/ login(s) \/ issue_tokens(s) \/ register_user(s)
             \/ revoke_other_sessions(s) \/ change_password(s) \/ request_reset(s)
             \/ \E t \in TokenIds : refresh_token(s, t)
             \/ \E r \in ResetIds : verify_code(s, r) \/ complete_reset(s, r)
      PROVE  AccountIInv'
  BY <1>2, AccountReadIInv, OpeningIInv, RegisterIInv, KeepingIInv, RevokingIInv, ResetIInv
<1>3. CASE UNCHANGED accountVars
  BY <1>3 DEF accountVars, accountHistory, AccountIInv, AccountTypeOK, TokensFollowPassword,
              VerifiedFirst, UsedWhenSet, SetOnce
<1> QED BY <1>1, <1>2, <1>3 DEF AccountNext

LEMMA AccountSpecIInv == AccountSpec => []AccountIInv
<1>1. AccountIInv /\ [AccountNext]_accountVars => AccountIInv'
  BY AccountNextIInv
<1> QED BY AccountInitIInv, <1>1, PTL DEF AccountSpec

\* The rows, the snapshots and the histories keep their types.
THEOREM AccountTypeCorrect == AccountSpec => []AccountTypeOK
<1>1. AccountIInv => AccountTypeOK
  BY DEF AccountIInv
<1> QED BY <1>1, AccountSpecIInv, PTL

\* But for a login or a verification that commits after a change of the password
\* it had not read, and a registration that commits after a verification it had
\* not read, live tokens were issued under today's password
\* (security_service.py:48, password_reset_service.py:119, routers/auth.py:62).
THEOREM LiveTokensFollowPassword == AccountSpec => []TokensFollowPassword
<1>1. AccountIInv => TokensFollowPassword
  BY DEF AccountIInv
<1> QED BY <1>1, AccountSpecIInv, PTL

\* But for two requests that overlap, a reset sets one password
\* (password_reset_service.py:104).
THEOREM ResetsAreUsedOnce == AccountSpec => []ResetUsedOnce
<1>1. AccountIInv => ResetUsedOnce
  <2>1. \A p : Cardinality({p}) = 1
    BY FS_Singleton
  <2>2. Cardinality({}) = 0
    BY FS_EmptySet
  <2> SUFFICES ASSUME AccountIInv, "reset" \notin accountLate, NEW r \in ResetIds
               PROVE  Cardinality(resetBy[r]) <= 1
    BY DEF ResetUsedOnce
  <2>3. resetBy[r] = {} \/ \E p \in 1..MaxPasswords : resetBy[r] = {p}
    BY DEF AccountIInv, SetOnce
  <2>4. Cardinality(resetBy[r]) = 0 \/ Cardinality(resetBy[r]) = 1
    BY <2>1, <2>2, <2>3
  <2> QED BY <2>4
<1> QED BY <1>1, AccountSpecIInv, PTL

-----------------------------------------------------------------------------
(* Presence and PushTokens.                                                *)

\* The sockets a process has in the room.
JoinedAt(p) == {tab \in Tabs : socket[tab] = "joined" /\ home[tab] = p}

SocketType ==
  /\ socket \in [Tabs -> {"none", "checking", "joined"}]
  /\ home \in [Tabs -> Apis \cup {Nowhere}]
  /\ _connection_counts \in [Apis -> Nat]

\* A connection that is under way or counted is with a process.
ConnectedSomewhere ==
  \A tab \in Tabs : socket[tab] # "none" => home[tab] \in Apis

PresenceIInv == SocketType /\ ConnectedSomewhere /\ CountsAreExact

-----------------------------------------------------------------------------
LEMMA JoinedIsFinite ==
  \A p \in Apis : IsFiniteSet(JoinedAt(p)) /\ Cardinality(JoinedAt(p)) \in Nat
BY FS_Subset, FS_CardinalityType, PresenceAssumption DEF JoinedAt

LEMMA CountsJoined == CountsAreExact <=>
  \A p \in Apis : _connection_counts[p] = Cardinality(JoinedAt(p))
BY DEF CountsAreExact, JoinedAt

LEMMA PresenceInitIInv == PresenceInit => PresenceIInv
<1> SUFFICES ASSUME PresenceInit PROVE PresenceIInv
  OBVIOUS
<1>1. \A p \in Apis : JoinedAt(p) = {}
  BY DEF PresenceInit, JoinedAt
<1>2. CountsAreExact
  BY <1>1, CountsJoined, FS_EmptySet DEF PresenceInit
<1> QED BY <1>2 DEF PresenceInit, PresenceIInv, SocketType, ConnectedSomewhere

\* Steps that change neither a socket nor a count: the deliveries.
LEMMA PresenceQuiet ==
  ASSUME PresenceIInv, UNCHANGED <<socket, home, _connection_counts>>
  PROVE  PresenceIInv'
BY DEF PresenceIInv, SocketType, ConnectedSomewhere, CountsAreExact

\* A connection that is not counted begins, or goes.
LEMMA UncountedIInv ==
  ASSUME PresenceIInv, NEW tab \in Tabs,
         refuse(tab) \/ \E p \in Apis : connect(tab, p)
  PROVE  PresenceIInv'
<1> USE DEF PresenceIInv, SocketType
<1>1. PICK state \in {"none", "checking"}, p \in Apis \cup {Nowhere} :
        /\ socket[tab] # "joined" /\ UNCHANGED _connection_counts
        /\ socket' = [socket EXCEPT ![tab] = state] /\ home' = [home EXCEPT ![tab] = p]
        /\ state = "checking" => p \in Apis
  BY DEF refuse, Gone, connect
<1>2. \A q \in Apis : JoinedAt(q)' = JoinedAt(q)
  BY <1>1 DEF JoinedAt
<1>3. CountsAreExact'
  <2>1. \A q \in Apis : _connection_counts'[q] = Cardinality(JoinedAt(q)')
    BY <1>1, <1>2, CountsJoined
  <2> QED BY <2>1 DEF CountsAreExact, JoinedAt
<1> QED BY <1>1, <1>3 DEF ConnectedSomewhere

\* The room is entered and the socket counted in one step of the loop.
LEMMA EnterIInv ==
  ASSUME PresenceIInv, NEW tab \in Tabs, enter_room(tab)
  PROVE  PresenceIInv'
<1> USE DEF PresenceIInv, SocketType
<1> DEFINE p == home[tab]
<1>1. /\ socket[tab] = "checking" /\ p \in Apis /\ UNCHANGED home
      /\ socket' = [socket EXCEPT ![tab] = "joined"]
      /\ _connection_counts' = [_connection_counts EXCEPT ![p] = @ + 1]
  BY DEF enter_room, ConnectedSomewhere
<1> HIDE DEF p
<1>2. \A q \in Apis : JoinedAt(q)' = IF q = p THEN JoinedAt(q) \cup {tab} ELSE JoinedAt(q)
  BY <1>1 DEF JoinedAt, p
<1>3. tab \notin JoinedAt(p)
  BY <1>1 DEF JoinedAt
<1>4. Cardinality(JoinedAt(p) \cup {tab}) = Cardinality(JoinedAt(p)) + 1
  BY <1>1, <1>3, JoinedIsFinite, FS_AddElement
<1>5. CountsAreExact'
  <2>1. \A q \in Apis : _connection_counts'[q] = Cardinality(JoinedAt(q)')
    BY <1>1, <1>2, <1>4, CountsJoined
  <2> QED BY <2>1 DEF CountsAreExact, JoinedAt
<1> QED BY <1>1, <1>5 DEF ConnectedSomewhere

\* A counted socket goes; the count is there to be taken down.
LEMMA DisconnectIInv ==
  ASSUME PresenceIInv, NEW tab \in Tabs, disconnect(tab)
  PROVE  PresenceIInv'
<1> USE DEF PresenceIInv, SocketType
<1> DEFINE p == home[tab]
<1>1. /\ socket[tab] = "joined" /\ p \in Apis
      /\ socket' = [socket EXCEPT ![tab] = "none"]
      /\ home' = [home EXCEPT ![tab] = Nowhere]
      /\ _connection_counts' =
           [_connection_counts EXCEPT ![p] = IF @ > 0 THEN @ - 1 ELSE @]
  BY DEF disconnect, Gone, ConnectedSomewhere
<1>2. tab \in JoinedAt(p)
  BY <1>1 DEF JoinedAt
<1>3. \A q \in Apis : JoinedAt(q)' = IF q = p THEN JoinedAt(q) \ {tab} ELSE JoinedAt(q)
  BY <1>1 DEF JoinedAt
<1> HIDE DEF p
<1>4. /\ Cardinality(JoinedAt(p)) \in Nat /\ Cardinality(JoinedAt(p) \ {tab}) \in Nat
      /\ Cardinality(JoinedAt(p) \ {tab}) = Cardinality(JoinedAt(p)) - 1
  BY <1>1, <1>2, JoinedIsFinite, FS_RemoveElement, FS_CardinalityType
<1>5. CountsAreExact'
  <2>1. \A q \in Apis : _connection_counts'[q] = Cardinality(JoinedAt(q)')
    BY <1>1, <1>3, <1>4, CountsJoined
  <2> QED BY <2>1 DEF CountsAreExact, JoinedAt
<1> QED BY <1>1, <1>5 DEF ConnectedSomewhere

\* A process that ends takes its sockets and its counts with it.
LEMMA PresenceRestarts ==
  ASSUME PresenceIInv, NEW p \in Processes, PresenceRestart(p)
  PROVE  PresenceIInv'
<1> USE DEF PresenceIInv, SocketType
<1>1. /\ socket' = [tab \in Tabs |-> IF home[tab] = p THEN "none" ELSE socket[tab]]
      /\ home' = [tab \in Tabs |-> IF home[tab] = p THEN Nowhere ELSE home[tab]]
      /\ _connection_counts' = [q \in Apis |-> IF q = p THEN 0 ELSE _connection_counts[q]]
  BY DEF PresenceRestart
<1>2. \A q \in Apis : JoinedAt(q)' = IF q = p THEN {} ELSE JoinedAt(q)
  BY <1>1, PresenceAssumption DEF JoinedAt, Processes
<1>3. CountsAreExact'
  <2>1. \A q \in Apis : _connection_counts'[q] = Cardinality(JoinedAt(q)')
    BY <1>1, <1>2, CountsJoined, FS_EmptySet
  <2> QED BY <2>1 DEF CountsAreExact, JoinedAt
<1>4. SocketType'
  BY <1>1
<1> QED BY <1>1, <1>3, <1>4 DEF ConnectedSomewhere

LEMMA PresenceNextIInv == PresenceIInv /\ [PresenceNext]_presenceVars => PresenceIInv'
<1> SUFFICES ASSUME PresenceIInv, [PresenceNext]_presenceVars PROVE PresenceIInv'
  OBVIOUS
<1>1. ASSUME NEW tab \in Tabs,
             \/ \E p \in Apis : connect(tab, p)
             \/ enter_room(tab) \/ refuse(tab) \/ disconnect(tab)
      PROVE  PresenceIInv'
  BY <1>1, UncountedIInv, EnterIInv, DisconnectIInv
<1>2. ASSUME NEW n \in Notices,
             \/ \E p \in Processes : emit_to_user(n, p)
             \/ should_send(n) \/ Emit(n) \/ drop_emission(n)
      PROVE  PresenceIInv'
  BY <1>2, PresenceQuiet DEF emit_to_user, should_send, Emit, drop_emission
<1>3. ASSUME NEW p \in Processes, PresenceRestart(p) PROVE PresenceIInv'
  BY <1>3, PresenceRestarts
<1>4. CASE UNCHANGED presenceVars
  BY <1>4, PresenceQuiet DEF presenceVars
<1> QED BY <1>1, <1>2, <1>3, <1>4 DEF PresenceNext

\* The count of a process is the number of sockets it has in the room, through
\* refusals, interrupted checks and restarts (socket.py:113, 129).
THEOREM CountsStayExact == PresenceSpec => []CountsAreExact
<1>1. PresenceIInv /\ [PresenceNext]_presenceVars => PresenceIInv'
  BY PresenceNextIInv
<1>2. PresenceIInv => CountsAreExact
  BY DEF PresenceIInv
<1> QED BY PresenceInitIInv, <1>1, <1>2, PTL DEF PresenceSpec

-----------------------------------------------------------------------------
(***************************************************************************)
(* Deliveries: what was decided with a count still fits the sockets.       *)
(***************************************************************************)

DeliveryType ==
  /\ sender \in [Notices -> Processes \cup {Nowhere}]
  /\ emission \in [Notices -> {"none", "scheduled", "ended"}]
  /\ push \in [Notices -> {"undecided", "sent", "skipped"}]
  /\ reached \in [Notices -> SUBSET Tabs] /\ moved \subseteq Notices

\* The push of a notification still to be emitted was skipped for a socket that is
\* there; one that is emitted and still to be decided will be pushed if it reached
\* nobody.
Undisturbed(n) ==
  /\ emission[n] = "scheduled" /\ push[n] = "skipped" => is_user_connected(sender[n])
  /\ emission[n] = "ended" /\ push[n] = "undecided" =>
       reached[n] # {} \/ ~is_user_connected(sender[n])
  /\ emission[n] = "ended" /\ push[n] # "undecided" => reached[n] # {} \/ push[n] = "sent"

DeliveryIInv ==
  /\ DeliveryType
  /\ \A n \in Notices : emission[n] = "none" => push[n] = "undecided"
  /\ \A n \in Notices \ moved : Undisturbed(n)

\* Whoever is counted is in the room.
LEMMA ConnectedHasRoom ==
  ASSUME PresenceIInv, NEW p
  PROVE  is_user_connected(p) => Room(p) # {}
<1> SUFFICES ASSUME p \in Apis, _connection_counts[p] > 0 PROVE Room(p) # {}
  BY DEF is_user_connected
<1>1. Cardinality(JoinedAt(p)) > 0
  BY CountsJoined DEF PresenceIInv
<1>2. JoinedAt(p) # {}
  BY <1>1, FS_EmptySet
<1> QED BY <1>2 DEF JoinedAt, Room

\* Steps of the sockets: a delivery is disturbed, or its counts are as they were.
LEMMA SocketStepDelivers ==
  ASSUME DeliveryIInv, UNCHANGED deliveryVars,
         Disturbs \/ UNCHANGED <<_connection_counts, moved>>
  PROVE  DeliveryIInv'
<1>1. moved \subseteq moved' /\ moved' \subseteq Notices
  BY DEF Disturbs, Delivering, DeliveryIInv, DeliveryType
<1>2. ASSUME NEW n \in Notices \ moved' PROVE Undisturbed(n)'
  <2>1. Undisturbed(n)
    BY <1>1, <1>2 DEF DeliveryIInv
  <2>2. CASE UNCHANGED _connection_counts
    BY <2>1, <2>2 DEF Undisturbed, is_user_connected, deliveryVars
  <2>3. CASE Disturbs
    BY <1>2, <2>1, <2>3 DEF Disturbs, Delivering, Undisturbed, deliveryVars
  <2> QED BY <2>2, <2>3
<1> QED BY <1>1, <1>2 DEF DeliveryIInv, DeliveryType, deliveryVars

\* A step of the delivery of one notification.
LEMMA OneDelivers ==
  ASSUME DeliveryIInv, NEW n \in Notices, UNCHANGED <<_connection_counts, moved>>,
         DeliveryType', emission'[n] # "none", Undisturbed(n)',
         \A m \in Notices \ {n} : /\ sender'[m] = sender[m] /\ emission'[m] = emission[m]
                                  /\ push'[m] = push[m] /\ reached'[m] = reached[m]
  PROVE  DeliveryIInv'
<1>1. \A m \in Notices \ {n} : Undisturbed(m)' <=> Undisturbed(m)
  BY DEF Undisturbed, is_user_connected
<1> QED BY <1>1 DEF DeliveryIInv

LEMMA EmitToUserDelivers ==
  ASSUME DeliveryIInv, NEW n \in Notices, NEW p \in Processes, emit_to_user(n, p)
  PROVE  DeliveryIInv'
<1> USE DEF DeliveryIInv, DeliveryType
<1> DEFINE state == IF p \in Workers /\ ~UseRedis THEN "ended" ELSE "scheduled"
<1>1. /\ emission' = [emission EXCEPT ![n] = state] /\ sender' = [sender EXCEPT ![n] = p]
      /\ UNCHANGED <<_connection_counts, push, reached, moved>> /\ push[n] = "undecided"
  BY DEF emit_to_user
<1>2. state \in {"scheduled", "ended"} /\ (state = "ended" => p \notin Apis)
  BY PresenceAssumption
<1> HIDE DEF state
<1>3. emission'[n] = state /\ sender'[n] = p /\ push'[n] = "undecided" /\ DeliveryType'
  BY <1>1, <1>2
<1>4. Undisturbed(n)'
  BY <1>2, <1>3 DEF Undisturbed, is_user_connected
<1> HIDE DEF DeliveryIInv, DeliveryType
<1>5. \A m \in Notices \ {n} : /\ sender'[m] = sender[m] /\ emission'[m] = emission[m]
                              /\ push'[m] = push[m] /\ reached'[m] = reached[m]
  BY <1>1 DEF DeliveryIInv, DeliveryType
<1> QED BY <1>1, <1>2, <1>3, <1>4, <1>5, OneDelivers

LEMMA ShouldSendDelivers ==
  ASSUME DeliveryIInv, NEW n \in Notices, should_send(n)
  PROVE  DeliveryIInv'
<1> DEFINE choice == IF n \in Urgent \/ ~is_user_connected(sender[n]) THEN "sent" ELSE "skipped"
<1>1. /\ push' = [push EXCEPT ![n] = choice] /\ emission[n] # "none" /\ push[n] = "undecided"
      /\ UNCHANGED <<_connection_counts, sender, emission, reached, moved>>
  BY DEF should_send
<1>2. choice \in {"sent", "skipped"} /\ (choice = "skipped" => is_user_connected(sender[n]))
  OBVIOUS
<1> HIDE DEF choice
<1>3. /\ DeliveryType' /\ push'[n] = choice
      /\ \A m \in Notices \ {n} : push'[m] = push[m]
  BY <1>1, <1>2 DEF DeliveryIInv, DeliveryType
<1>4. n \notin moved => Undisturbed(n)
  BY DEF DeliveryIInv
<1>5. n \notin moved => Undisturbed(n)'
  BY <1>1, <1>2, <1>3, <1>4 DEF Undisturbed, is_user_connected
<1>6. \A m \in Notices \ {n} : Undisturbed(m)' <=> Undisturbed(m)
  BY <1>1, <1>3 DEF Undisturbed, is_user_connected
<1> QED BY <1>1, <1>3, <1>5, <1>6 DEF DeliveryIInv

\* The emission reaches the room of the process, or is dropped by a worker.
LEMMA EmissionDelivers ==
  ASSUME PresenceIInv, DeliveryIInv, NEW n \in Notices, Emit(n) \/ drop_emission(n)
  PROVE  DeliveryIInv'
<1>1. /\ emission[n] = "scheduled" /\ emission' = [emission EXCEPT ![n] = "ended"]
      /\ UNCHANGED <<_connection_counts, sender, push, moved>>
  BY DEF Emit, drop_emission
<1>2. PICK tabs \in SUBSET Tabs :
        /\ reached' = [reached EXCEPT ![n] = tabs]
        /\ is_user_connected(sender[n]) => tabs # {}
  <2>1. CASE Emit(n)
    BY <2>1, ConnectedHasRoom DEF Emit, Room
  <2>2. CASE drop_emission(n)
    <3>1. reached' = [reached EXCEPT ![n] = reached[n]] /\ reached[n] \in SUBSET Tabs
      BY <2>2 DEF drop_emission, DeliveryIInv, DeliveryType
    <3>2. ~is_user_connected(sender[n])
      BY <2>2, PresenceAssumption DEF drop_emission, is_user_connected
    <3> QED BY <3>1, <3>2
  <2> QED BY <2>1, <2>2
<1>3. /\ DeliveryType' /\ emission'[n] = "ended" /\ reached'[n] = tabs
      /\ \A m \in Notices \ {n} : emission'[m] = emission[m] /\ reached'[m] = reached[m]
  BY <1>1, <1>2 DEF DeliveryIInv, DeliveryType
<1>4. n \notin moved => Undisturbed(n)
  BY DEF DeliveryIInv
<1>5. push[n] \in {"undecided", "sent", "skipped"}
  BY DEF DeliveryIInv, DeliveryType
<1>6. n \notin moved => Undisturbed(n)'
  BY <1>1, <1>2, <1>3, <1>4, <1>5 DEF Undisturbed, is_user_connected
<1>7. \A m \in Notices \ {n} : Undisturbed(m)' <=> Undisturbed(m)
  BY <1>1, <1>3 DEF Undisturbed, is_user_connected
<1> QED BY <1>1, <1>3, <1>6, <1>7 DEF DeliveryIInv

\* What the process was delivering is cut off, and everything else is disturbed.
LEMMA RestartDelivers ==
  ASSUME DeliveryIInv, NEW p \in Processes, PresenceRestart(p)
  PROVE  DeliveryIInv'
<1> DEFINE cut == {n \in Delivering : sender[n] = p}
<1>1. /\ emission' = [n \in Notices |-> IF n \in cut THEN "ended" ELSE emission[n]]
      /\ push' = [n \in Notices |->
                    IF n \in cut /\ push[n] = "undecided" THEN "skipped" ELSE push[n]]
      /\ moved' = moved \cup Delivering /\ UNCHANGED <<sender, reached>>
  BY DEF PresenceRestart, Disturbs
<1>2. cut \subseteq Delivering /\ Delivering \subseteq Notices
      /\ \A n \in Delivering : emission[n] # "none"
  BY DEF Delivering
<1> HIDE DEF cut
<1>3. DeliveryType'
  BY <1>1, <1>2 DEF DeliveryIInv, DeliveryType
<1>4. \A n \in Notices : emission'[n] = "none" => push'[n] = "undecided"
  BY <1>1, <1>2 DEF DeliveryIInv
<1>5. ASSUME NEW n \in Notices \ moved' PROVE Undisturbed(n)'
  <2>1. n \notin cut /\ n \notin Delivering /\ Undisturbed(n)
    BY <1>1, <1>2, <1>5 DEF DeliveryIInv
  <2>2. emission'[n] = emission[n] /\ push'[n] = push[n]
    BY <1>1, <2>1
  <2> QED BY <1>1, <2>1, <2>2 DEF Delivering, Undisturbed
<1> QED BY <1>3, <1>4, <1>5 DEF DeliveryIInv

LEMMA DeliveryNextIInv ==
  PresenceIInv /\ DeliveryIInv /\ [PresenceNext]_presenceVars => DeliveryIInv'
<1> SUFFICES ASSUME PresenceIInv, DeliveryIInv, [PresenceNext]_presenceVars
             PROVE  DeliveryIInv'
  OBVIOUS
<1>1. ASSUME NEW tab \in Tabs,
             \/ \E p \in Apis : connect(tab, p)
             \/ enter_room(tab) \/ refuse(tab) \/ disconnect(tab)
      PROVE  DeliveryIInv'
  BY <1>1, SocketStepDelivers DEF connect, enter_room, refuse, disconnect
<1>2. ASSUME NEW n \in Notices,
             \/ \E p \in Processes : emit_to_user(n, p)
             \/ should_send(n) \/ Emit(n) \/ drop_emission(n)
      PROVE  DeliveryIInv'
  BY <1>2, EmitToUserDelivers, ShouldSendDelivers, EmissionDelivers
<1>3. ASSUME NEW p \in Processes, PresenceRestart(p) PROVE DeliveryIInv'
  BY <1>3, RestartDelivers
<1>4. CASE UNCHANGED presenceVars
  BY <1>4, SocketStepDelivers DEF presenceVars
<1> QED BY <1>1, <1>2, <1>3, <1>4 DEF PresenceNext

LEMMA DeliveryInitIInv == PresenceInit => DeliveryIInv
BY DEF PresenceInit, DeliveryIInv, DeliveryType, Undisturbed

LEMMA PresenceSpecIInv == PresenceSpec => [](PresenceIInv /\ DeliveryIInv)
BY PresenceInitIInv, DeliveryInitIInv, PresenceNextIInv, DeliveryNextIInv, PTL DEF PresenceSpec

\* A notification whose delivery no socket and no crash disturbed reached a tab or
\* was pushed, in whatever order the emission and the decision came
\* (notification_service.py, fcm.py, socket.py).
THEOREM NoticesAreDelivered == PresenceSpec => []NoticeIsDelivered
<1>1. DeliveryIInv => NoticeIsDelivered
  BY DEF DeliveryIInv, Undisturbed, NoticeIsDelivered
<1> QED BY <1>1, PresenceSpecIInv, PTL

\* The sockets, the counts and the deliveries keep their types; a count never
\* exceeds the number of tabs.
THEOREM PresenceTypeCorrect == PresenceSpec => []PresenceTypeOK
<1>1. PresenceIInv /\ DeliveryIInv => PresenceTypeOK
  <2> SUFFICES ASSUME PresenceIInv, DeliveryIInv PROVE PresenceTypeOK
    OBVIOUS
  <2>1. \A p \in Apis : JoinedAt(p) \subseteq Tabs
    BY DEF JoinedAt
  <2>2. \A p \in Apis : Cardinality(JoinedAt(p)) \in 0..Cardinality(Tabs)
    BY <2>1, FS_Subset, FS_CardinalityType, PresenceAssumption
  <2>3. _connection_counts \in [Apis -> 0..Cardinality(Tabs)]
    BY <2>2, CountsJoined DEF PresenceIInv, SocketType
  <2> QED BY <2>3 DEF PresenceIInv, SocketType, DeliveryIInv, DeliveryType, PresenceTypeOK
<1> QED BY <1>1, PresenceSpecIInv, PTL

-----------------------------------------------------------------------------
(***************************************************************************)
(* Push tokens.                                                            *)
(***************************************************************************)

DeviceIInv == DeviceTypeOK /\ TokenFollowsLastUser

LEMMA DeviceInitIInv == DeviceInit => DeviceIInv
<1> SUFFICES ASSUME DeviceInit PROVE DeviceIInv
  OBVIOUS
<1>1. \A u \in Users : /\ device[u] = [made |-> FALSE, push_token |-> NoToken, is_active |-> FALSE]
                       /\ device[u].push_token = NoToken
  BY DEF DeviceInit
<1>2. device \in [Users -> DeviceRow]
  BY DEF DeviceInit, DeviceRow
<1>3. DeviceTypeOK
  BY <1>2 DEF DeviceInit, DeviceTypeOK
<1>4. TokenFollowsLastUser
  BY <1>1 DEF DeviceInit, TokenFollowsLastUser
<1> QED BY <1>3, <1>4 DEF DeviceIInv

LEMMA MergedDevice ==
  ASSUME NEW old \in DeviceRow, NEW new \in DeviceRow, NEW row \in DeviceRow
  PROVE  /\ MergeRow(old, new, row) \in DeviceRow
         /\ old = row => MergeRow(old, new, row) = new
<1> DEFINE columns == {"made", "push_token", "is_active"}
           column(c) == IF new[c] # old[c] THEN new[c] ELSE row[c]
<1>1. /\ DOMAIN row = columns
      /\ column("made") \in BOOLEAN /\ column("is_active") \in BOOLEAN
      /\ column("push_token") \in BrowserTokens \cup {NoToken}
  BY DEF DeviceRow
<1>2. MergeRow(old, new, row) = [c \in columns |-> column(c)]
  BY <1>1 DEF MergeRow
<1>3. new = [made |-> new.made, push_token |-> new.push_token, is_active |-> new.is_active]
  BY DEF DeviceRow
<1>4. old = row => \A c \in columns : column(c) = new[c]
  OBVIOUS
<1> HIDE DEF column
<1>5. MergeRow(old, new, row) = [made |-> column("made"), push_token |-> column("push_token"),
                                 is_active |-> column("is_active")]
  BY <1>2
<1>6. MergeRow(old, new, row) \in DeviceRow
  BY <1>1, <1>5 DEF DeviceRow
<1> QED BY <1>3, <1>4, <1>5, <1>6

LEMMA DetachedDevice ==
  ASSUME NEW row \in DeviceRow, NEW token
  PROVE  /\ Detached(row, token) \in DeviceRow
         /\ token # NoToken => Detached(row, token).push_token # token
         /\ row.push_token # token => Detached(row, token) = row
         /\ Detached(row, token).push_token \in {row.push_token, NoToken}
<1>1. /\ [row EXCEPT !.push_token = NoToken, !.is_active = FALSE] \in DeviceRow
      /\ [row EXCEPT !.push_token = NoToken, !.is_active = FALSE].push_token = NoToken
  BY DEF DeviceRow
<1> QED BY <1>1 DEF Detached

\* The rows after a registration: the token is the account's, and no other's.
LEMMA RegisterDevice ==
  ASSUME DeviceIInv, NEW s \in Requesters, deviceView[s] # NoView, NEW u \in Users,
         NEW token \in BrowserTokens \cup {NoToken}, register_device(s, u, token)
  PROVE  DeviceIInv'
<1> DEFINE v == deviceView[s]
           new == [made |-> TRUE, push_token |-> token, is_active |-> TRUE]
<1>1. /\ device \in [Users -> DeviceRow] /\ v \in [Users -> DeviceRow] /\ new \in DeviceRow
      /\ holder \in [BrowserTokens -> Users \cup {NoView}]
  BY DEF DeviceIInv, DeviceTypeOK, DeviceRow
<1>2. /\ device' = [w \in Users |-> IF w = u THEN MergeRow(v[u], new, device[u])
                                    ELSE Detached(device[w], token)]
      /\ holder' = [t \in BrowserTokens |->
                      IF t = token THEN u ELSE IF holder[t] = u THEN NoView ELSE holder[t]]
      /\ deviceLate' = (deviceLate \/ device # v)
      /\ deviceView' = [deviceView EXCEPT ![s] = NoView]
  BY DEF register_device, DeviceEnd
<1>3. new.push_token = token /\ new.is_active
  OBVIOUS
<1> HIDE DEF new, v
<1>4. /\ device'[u] \in DeviceRow /\ device' \in [Users -> DeviceRow]
      /\ \A w \in Users \ {u} : device'[w] = Detached(device[w], token)
  BY <1>1, <1>2, MergedDevice, DetachedDevice
<1>5. DeviceTypeOK'
  <2>1. holder' \in [BrowserTokens -> Users \cup {NoView}]
    BY <1>1, <1>2
  <2>2. deviceLate' \in BOOLEAN /\ deviceView' \in [Requesters -> [Users -> DeviceRow] \cup {NoView}]
    BY <1>2 DEF DeviceIInv, DeviceTypeOK
  <2> QED BY <1>4, <2>1, <2>2 DEF DeviceTypeOK
<1>6. ASSUME ~deviceLate'
      PROVE  TokenFollowsLastUser'
  <2>1. ~deviceLate /\ v = device
    BY <1>2, <1>6
  <2>2. device'[u] = new
    BY <1>1, <1>2, <2>1, MergedDevice
  <2>3. ASSUME NEW t \in BrowserTokens, holder'[t] # NoView
        PROVE  device'[holder'[t]].push_token = t /\ device'[holder'[t]].is_active
    <3>1. CASE t = token
      BY <1>2, <1>3, <2>2, <3>1
    <3>2. CASE t # token
      <4>1. holder'[t] = holder[t] /\ holder[t] \in Users \ {u}
        BY <1>1, <1>2, <2>3, <3>2
      <4>2. device[holder[t]].push_token = t /\ device[holder[t]].is_active
        BY <2>1, <2>3, <4>1 DEF DeviceIInv, TokenFollowsLastUser
      <4>3. device'[holder[t]] = device[holder[t]]
        BY <1>1, <1>4, <3>2, <4>1, <4>2, DetachedDevice
      <4> QED BY <4>1, <4>2, <4>3
    <3> QED BY <3>1, <3>2
  <2>4. ASSUME NEW x \in Users, NEW w \in Users, x # w,
               device'[x].push_token = device'[w].push_token
        PROVE  device'[x].push_token = NoToken
    <3>1. \A y \in Users \ {u} :
            /\ token # NoToken => device'[y].push_token # token
            /\ device'[y].push_token \in {device[y].push_token, NoToken}
      BY <1>1, <1>4, DetachedDevice
    <3>2. CASE u \in {x, w}
      BY <1>3, <2>2, <2>4, <3>1, <3>2
    <3>3. CASE u \notin {x, w}
      BY <2>1, <2>4, <3>1, <3>3 DEF DeviceIInv, TokenFollowsLastUser
    <3> QED BY <3>2, <3>3
  <2> QED BY <2>3, <2>4 DEF TokenFollowsLastUser
<1>7. TokenFollowsLastUser'
  BY <1>6 DEF TokenFollowsLastUser
<1> QED BY <1>5, <1>7 DEF DeviceIInv

\* An account gives its token up.
LEMMA UnregisterDevice ==
  ASSUME DeviceIInv, NEW s \in Requesters, deviceView[s] # NoView, NEW u \in Users,
         unregister_device(s, u)
  PROVE  DeviceIInv'
<1> DEFINE v == deviceView[s]
           new == [v[u] EXCEPT !.push_token = NoToken, !.is_active = FALSE]
<1>1. /\ device \in [Users -> DeviceRow] /\ v \in [Users -> DeviceRow]
      /\ holder \in [BrowserTokens -> Users \cup {NoView}]
  BY DEF DeviceIInv, DeviceTypeOK
<1>2. new \in DeviceRow /\ new.push_token = NoToken
  BY <1>1 DEF DeviceRow
<1>3. /\ device' = [device EXCEPT ![u] = MergeRow(v[u], new, device[u])]
      /\ holder' = [t \in BrowserTokens |-> IF holder[t] = u THEN NoView ELSE holder[t]]
      /\ deviceLate' = (deviceLate \/ device # v)
      /\ deviceView' = [deviceView EXCEPT ![s] = NoView]
  BY DEF unregister_device, GivesUp, DeviceEnd
<1> HIDE DEF new, v
<1>4. device' \in [Users -> DeviceRow] /\ \A w \in Users \ {u} : device'[w] = device[w]
  BY <1>1, <1>2, <1>3, MergedDevice
<1>5. DeviceTypeOK'
  <2>1. holder' \in [BrowserTokens -> Users \cup {NoView}]
    BY <1>1, <1>3
  <2>2. deviceLate' \in BOOLEAN /\ deviceView' \in [Requesters -> [Users -> DeviceRow] \cup {NoView}]
    BY <1>3 DEF DeviceIInv, DeviceTypeOK
  <2> QED BY <1>4, <2>1, <2>2 DEF DeviceTypeOK
<1>6. ASSUME ~deviceLate'
      PROVE  TokenFollowsLastUser'
  <2>1. ~deviceLate /\ v = device
    BY <1>3, <1>6
  <2>2. device'[u].push_token = NoToken
    BY <1>1, <1>2, <1>3, <2>1, MergedDevice
  <2>3. ASSUME NEW t \in BrowserTokens, holder'[t] # NoView
        PROVE  device'[holder'[t]].push_token = t /\ device'[holder'[t]].is_active
    <3>1. holder'[t] = holder[t] /\ holder[t] \in Users \ {u}
      BY <1>1, <1>3, <2>3
    <3>2. device'[holder[t]] = device[holder[t]]
      BY <1>4, <3>1
    <3>3. device[holder[t]].push_token = t /\ device[holder[t]].is_active
      BY <2>1, <2>3, <3>1 DEF DeviceIInv, TokenFollowsLastUser
    <3> QED BY <3>1, <3>2, <3>3
  <2>4. ASSUME NEW x \in Users, NEW w \in Users, x # w,
               device'[x].push_token = device'[w].push_token
        PROVE  device'[x].push_token = NoToken
    BY <1>4, <2>1, <2>2, <2>4 DEF DeviceIInv, TokenFollowsLastUser
  <2> QED BY <2>3, <2>4 DEF TokenFollowsLastUser
<1>7. TokenFollowsLastUser'
  BY <1>6 DEF TokenFollowsLastUser
<1> QED BY <1>5, <1>7 DEF DeviceIInv

\* What the provider reported is given up by whoever has it by then.
LEMMA SendDevice ==
  ASSUME DeviceIInv, NEW s \in Requesters, deviceView[s] # NoView, NEW u \in Users, _send(s, u)
  PROVE  DeviceIInv'
<1> DEFINE hit == {w \in Users : device[w].push_token = deviceView[s][u].push_token}
<1>1. /\ device' = [w \in Users |->
                      IF w \in hit THEN [device[w] EXCEPT !.is_active = FALSE] ELSE device[w]]
      /\ holder' = [t \in BrowserTokens |-> IF holder[t] \in hit THEN NoView ELSE holder[t]]
      /\ deviceView' = [deviceView EXCEPT ![s] = NoView] /\ UNCHANGED deviceLate
  BY DEF _send, GivesUp, DeviceEnd
<1> HIDE DEF hit
<1>2. /\ device \in [Users -> DeviceRow] /\ holder \in [BrowserTokens -> Users \cup {NoView}]
  BY DEF DeviceIInv, DeviceTypeOK
<1>3. \A row \in DeviceRow : /\ [row EXCEPT !.is_active = FALSE] \in DeviceRow
                             /\ [row EXCEPT !.is_active = FALSE].push_token = row.push_token
  BY DEF DeviceRow
<1>4. /\ device' \in [Users -> DeviceRow]
      /\ \A w \in Users : /\ device'[w].push_token = device[w].push_token
                          /\ w \notin hit => device'[w] = device[w]
  BY <1>1, <1>2, <1>3
<1>5. DeviceTypeOK'
  <2>1. holder' \in [BrowserTokens -> Users \cup {NoView}]
    BY <1>1, <1>2
  <2>2. deviceLate' \in BOOLEAN /\ deviceView' \in [Requesters -> [Users -> DeviceRow] \cup {NoView}]
    BY <1>1 DEF DeviceIInv, DeviceTypeOK
  <2> QED BY <1>4, <2>1, <2>2 DEF DeviceTypeOK
<1>6. ASSUME ~deviceLate, NEW t \in BrowserTokens, holder'[t] # NoView
      PROVE  device'[holder'[t]].push_token = t /\ device'[holder'[t]].is_active
  <2>1. holder'[t] = holder[t] /\ holder[t] \in Users \ hit
    BY <1>1, <1>2, <1>6
  <2> QED BY <1>4, <1>6, <2>1 DEF DeviceIInv, TokenFollowsLastUser
<1>7. ASSUME ~deviceLate, NEW x \in Users, NEW w \in Users, x # w,
             device'[x].push_token = device'[w].push_token
      PROVE  device'[x].push_token = NoToken
  BY <1>4, <1>7 DEF DeviceIInv, TokenFollowsLastUser
<1>8. TokenFollowsLastUser'
  BY <1>1, <1>6, <1>7 DEF TokenFollowsLastUser
<1> QED BY <1>5, <1>8 DEF DeviceIInv

LEMMA DeviceNextIInv == DeviceIInv /\ [DeviceNext]_deviceVars => DeviceIInv'
<1> SUFFICES ASSUME DeviceIInv, [DeviceNext]_deviceVars PROVE DeviceIInv'
  OBVIOUS
<1>1. ASSUME NEW s \in Requesters, DeviceBegin(s) \/ DeviceRollback(s) PROVE DeviceIInv'
  <2>1. UNCHANGED <<device, holder, deviceLate>>
    BY <1>1 DEF DeviceBegin, DeviceRollback
  <2>2. deviceView' \in [Requesters -> [Users -> DeviceRow] \cup {NoView}]
    BY <1>1 DEF DeviceBegin, DeviceRollback, DeviceEnd, DeviceIInv, DeviceTypeOK
  <2> QED BY <2>1, <2>2 DEF DeviceIInv, DeviceTypeOK, TokenFollowsLastUser
<1>2. ASSUME NEW s \in Requesters, deviceView[s] # NoView, NEW u \in Users,
             \/ unregister_device(s, u) \/ _send(s, u)
             \/ \E token \in BrowserTokens \cup {NoToken} : register_device(s, u, token)
      PROVE  DeviceIInv'
  BY <1>2, RegisterDevice, UnregisterDevice, SendDevice
<1>3. CASE UNCHANGED deviceVars
  BY <1>3 DEF deviceVars, DeviceIInv, DeviceTypeOK, TokenFollowsLastUser
<1> QED BY <1>1, <1>2, <1>3 DEF DeviceNext

\* But for two registrations that overlap, the account that registered a browser
\* last, and no other, gets what is pushed to it, however late a push deactivates
\* the token it had read (device_service.py, fcm.py).
THEOREM PushesFollowTheUser == DeviceSpec => []TokenFollowsLastUser
<1>1. DeviceInit => DeviceIInv
  BY DeviceInitIInv
<1>2. DeviceIInv /\ [DeviceNext]_deviceVars => DeviceIInv'
  BY DeviceNextIInv
<1>3. DeviceIInv => TokenFollowsLastUser
  BY DEF DeviceIInv
<1> QED BY <1>1, <1>2, <1>3, PTL DEF DeviceSpec

\* The rows, the snapshots and the histories keep their types.
THEOREM DeviceTypeCorrect == DeviceSpec => []DeviceTypeOK
<1>1. DeviceInit => DeviceIInv
  BY DeviceInitIInv
<1>2. DeviceIInv /\ [DeviceNext]_deviceVars => DeviceIInv'
  BY DeviceNextIInv
<1>3. DeviceIInv => DeviceTypeOK
  BY DEF DeviceIInv
<1> QED BY <1>1, <1>2, <1>3, PTL DEF DeviceSpec

(***************************************************************************)
(* The four together.                                                      *)
(***************************************************************************)

\* However the requests of the four services interleave, each of them sees its
\* own steps only: what is proved of one of them holds of the whole.
THEOREM AccountSidePartsApart ==
  AccountSideSpec => OtpSpec /\ AccountSpec /\ PresenceSpec /\ DeviceSpec
<1> DEFINE sideVars == <<otpVars, accountVars, presenceVars, deviceVars>>
<1>1. AccountSideInit => OtpInit /\ AccountInit /\ PresenceInit /\ DeviceInit
  BY DEF AccountSideInit
<1>2. [AccountSideNext]_sideVars =>
        [OtpNext]_otpVars /\ [AccountNext]_accountVars
        /\ [PresenceNext]_presenceVars /\ [DeviceNext]_deviceVars
  BY DEF AccountSideNext, OtpPart, AccountPart, PresencePart, DevicePart
<1> QED BY <1>1, <1>2, PTL
        DEF AccountSideSpec, OtpSpec, AccountSpec, PresenceSpec, DeviceSpec

\* Codes, tokens, sockets and devices keep their types, whatever the requests
\* of the other services do in between.
THEOREM AccountSideTypesCorrect == AccountSideSpec => []TypesOK
<1>1. OtpTypeOK /\ AccountTypeOK /\ PresenceTypeOK /\ DeviceTypeOK => TypesOK
  BY DEF TypesOK
<1> QED BY <1>1, AccountSidePartsApart, OtpTypeCorrect, AccountTypeCorrect,
           PresenceTypeCorrect, DeviceTypeCorrect, PTL
=============================================================================
