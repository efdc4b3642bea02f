---------------------------- MODULE OneTimeCodes ----------------------------
(***************************************************************************)
(* The registration of one phone number: the codes of auth_service.py, the *)
(* mails that carry them, and the Redis counter of ratelimit.py that every *)
(* attempt to verify a code passes first.  The limiter's commands are      *)
(* steps of their own; a request's transaction is a snapshot and a commit  *)
(* (see Snapshots).                                                        *)
(***************************************************************************)
EXTENDS Snapshots

CONSTANTS MaxCodes,     \* bound: rows of otp_codes
          VerifyLimit   \* RL_VERIFY_OTP_LIMIT

ASSUME OtpAssumption == MaxCodes \in Nat /\ VerifyLimit \in Nat \ {0}

CodeIds == 1..MaxCodes
NoCode == 0

\* A code is live until it is consumed.  Its column attempts stays 0: the
\* increment is flushed and then rolled back with the request it refuses, so
\* OTP_MAX_ATTEMPTS never refuses one.
OtpTables == [code : [CodeIds -> {"none", "live", "consumed"}],
              user : [status : {"none", "PENDING_VERIFICATION", "ACTIVE"}]]

VARIABLES
  otp,       \* committed: the codes, and the user row with its wallet
  expired,   \* codes whose expires_at has passed
  otpView,   \* the snapshot of each open session, or NoView
  outbox,    \* the code a request has yet to mail
  lastSent,  \* the code of the last mail
  client,    \* the Redis client of the process: untried, up, or off for good
  hits, ttl, \* the counter of the key, and whether it has an expiry
  limiter,   \* where a request stands with the limiter
  stranded,  \* history: a counter was left without an expiry
  guesses,   \* history: wrong codes checked in the window of the counter
  uses,      \* history: the commits that consumed a code
  otpLate    \* history: the tables some commit had an outdated view of

limiterVars == <<client, hits, ttl, stranded>>
otpVars == <<otp, expired, otpView, outbox, lastSent, limiterVars, limiter,
             guesses, uses, otpLate>>

OtpTypeOK ==
  /\ otp \in OtpTables /\ otpView \in [Requesters -> OtpTables \cup {NoView}]
  /\ expired \subseteq CodeIds /\ lastSent \in CodeIds \cup {NoCode}
  /\ outbox \in [Requesters -> CodeIds \cup {NoCode}]
  /\ client \in {"untried", "up", "off"}
  /\ hits \in 0..VerifyLimit + 1 /\ ttl \in BOOLEAN /\ stranded \in BOOLEAN
  /\ limiter \in [Requesters -> {"idle", "first", "passed", "open"}]
  /\ guesses \in Nat /\ uses \in [CodeIds -> Nat]
  /\ otpLate \subseteq {"code", "user"}

OtpInit ==
  /\ otp = [code |-> [c \in CodeIds |-> "none"], user |-> [status |-> "none"]]
  /\ otpView = [s \in Requesters |-> NoView]
  /\ expired = {} /\ lastSent = NoCode
  /\ outbox = [s \in Requesters |-> NoCode]
  /\ client = "untried" /\ hits = 0 /\ ttl = FALSE /\ stranded = FALSE
  /\ limiter = [s \in Requesters |-> "idle"]
  /\ guesses = 0 /\ uses = [c \in CodeIds |-> 0] /\ otpLate = {}

-----------------------------------------------------------------------------
(* check_rate_limit.                                                       *)

Free(s) == otpView[s] = NoView /\ outbox[s] = NoCode /\ limiter[s] = "idle"

Limited(s, state) ==
  /\ limiter' = [limiter EXCEPT ![s] = state]
  /\ UNCHANGED <<otp, expired, otpView, outbox, lastSent, guesses, uses, otpLate>>

\* The first request of a process connects; a failure is remembered.
_redis(s) ==
  /\ Free(s) /\ client = "untried"
  /\ client' \in {"up", "off"}
  /\ UNCHANGED <<hits, ttl, stranded>>
  /\ Limited(s, "idle")

\* Mutant: the count before this request is compared with the limit.
incr_compared_before(s) ==
  /\ Free(s) /\ client = "up"
  /\ hits' = IF hits <= VerifyLimit THEN hits + 1 ELSE hits
  /\ UNCHANGED <<client, ttl, stranded>>
  /\ Limited(s, IF hits = 0 THEN "first" ELSE IF hits <= VerifyLimit THEN "passed" ELSE "idle")

\* INCR, and the comparison with the limit.  The first to count has the expiry
\* to set before it passes.
incr(s) ==
  /\ Free(s) /\ client = "up"
  /\ hits' = IF hits <= VerifyLimit THEN hits + 1 ELSE hits
  /\ UNCHANGED <<client, ttl, stranded>>
  /\ Limited(s, IF hits' = 1 THEN "first"
                ELSE IF hits' <= VerifyLimit THEN "passed" ELSE "idle")

\* Mutant: the expiry is only set by the request that reaches the limit.
expire_at_limit(s) ==
  /\ limiter[s] = "first"
  /\ ttl' = (hits = VerifyLimit)
  /\ UNCHANGED <<client, hits, stranded>>
  /\ Limited(s, "passed")

expire(s) ==
  /\ limiter[s] = "first"
  /\ ttl' = TRUE
  /\ UNCHANGED <<client, hits, stranded>>
  /\ Limited(s, "passed")

\* No client, or an error of Redis: the request passes.
fail_open(s) ==
  /\ client # "untried" /\ (Free(s) \/ limiter[s] = "first")
  /\ stranded' = (stranded \/ limiter[s] = "first")
  /\ UNCHANGED <<client, hits, ttl>>
  /\ Limited(s, "open")

\* Requests still to be checked belong to no window any more.
WindowEnds ==
  /\ ttl
  /\ hits' = 0 /\ ttl' = FALSE /\ guesses' = 0
  /\ limiter' = [s \in Requesters |->
                   IF limiter[s] = "passed" THEN "open" ELSE limiter[s]]
  /\ UNCHANGED <<otp, expired, otpView, outbox, lastSent, client, stranded, uses, otpLate>>

-----------------------------------------------------------------------------
(* The requests.                                                           *)

\* A registration (whose own counter, under another key, is left out), or a
\* verification that has passed the limiter.
OtpBegin(s) ==
  /\ otpView[s] = NoView /\ outbox[s] = NoCode /\ limiter[s] # "first"
  /\ otpView' = [otpView EXCEPT ![s] = otp]
  /\ UNCHANGED <<otp, expired, outbox, lastSent, limiterVars, limiter, guesses, uses, otpLate>>

OtpClose(s) ==
  /\ otpView' = [otpView EXCEPT ![s] = NoView]
  /\ limiter' = [limiter EXCEPT ![s] = "idle"]

OtpRollback(s) ==
  /\ OtpClose(s)
  /\ UNCHANGED <<otp, expired, outbox, lastSent, limiterVars, guesses, uses, otpLate>>

OtpCommit(s, new) ==
  /\ otp' = [code |-> MergeRow(otpView[s].code, new.code, otp.code),
             user |-> MergeRow(otpView[s].user, new.user, otp.user)]
  /\ otpLate' = otpLate \cup {table \in {"code", "user"} : otp[table] # otpView[s][table]}
  /\ OtpClose(s)
  /\ UNCHANGED <<expired, lastSent, limiterVars>>

WithCode(v, state) == {c \in CodeIds : v.code[c] = state}

LatestCode(C) == {c \in C : \A d \in C : d <= c}

Sends(s, c) == outbox' = [outbox EXCEPT ![s] = c]

\* Mutant: every request makes a code.
initiate_afresh(s, v) ==
  /\ \E c \in NextId(WithCode(otp, "none")) :
       OtpCommit(s, [v EXCEPT !.code[c] = "live"]) /\ Sends(s, c)
  /\ UNCHANGED <<guesses, uses>>

\* A live code that has not expired is sent again; otherwise there is a new one.
initiate_registration(s, v) ==
  LET recent == WithCode(v, "live") \ expired
  IN /\ IF recent # {}
        THEN OtpCommit(s, v) /\ \E c \in LatestCode(recent) : Sends(s, c)
        ELSE \E c \in NextId(WithCode(otp, "none")) :
               OtpCommit(s, [v EXCEPT !.code[c] = "live"]) /\ Sends(s, c)
     /\ UNCHANGED <<guesses, uses>>

register_initiate(s) ==
  /\ limiter[s] = "idle"
  /\ initiate_registration(s, otpView[s])

\* A user row is inserted once (the phone is unique), and is given a new password
\* until the account is active.
register(s) ==
  LET v == otpView[s]
  IN /\ limiter[s] = "idle"
     /\ v.user.status # "ACTIVE" /\ (v.user.status = "none" => otp.user.status = "none")
     /\ initiate_registration(s, [v EXCEPT !.user.status = "PENDING_VERIFICATION"])

\* After the commit: mailed to the address of the user, if there is one.
deliver_registration_otp(s) ==
  /\ outbox[s] # NoCode
  /\ Sends(s, NoCode)
  /\ lastSent' \in {lastSent} \cup (IF otp.user.status = "none" THEN {} ELSE {outbox[s]})
  /\ UNCHANGED <<otp, expired, otpView, limiterVars, limiter, guesses, uses, otpLate>>

\* The code the handler compares with: the newest that is not consumed.
Compared(v) == LatestCode(WithCode(v, "live")) \ expired

Verifying(s) == limiter[s] \in {"passed", "open"}

\* The right code.  The wallet of the account is inserted once (its user is
\* unique): of two first verifications the later fails.
verify_otp(s) ==
  LET v == otpView[s]
  IN /\ Verifying(s)
     /\ v.user.status = "PENDING_VERIFICATION" => otp.user.status # "ACTIVE"
     /\ v.user.status # "none"
     /\ \E c \in Compared(v) :
          /\ OtpCommit(s, [v EXCEPT !.code[c] = "consumed", !.user.status = "ACTIVE"])
          /\ uses' = [uses EXCEPT ![c] = @ + 1]
     /\ UNCHANGED <<outbox, guesses>>

\* A wrong code: the request is rolled back with what it had counted.
wrong_code(s) ==
  /\ Verifying(s) /\ Compared(otpView[s]) # {}
  /\ guesses' = IF limiter[s] = "passed" THEN guesses + 1 ELSE guesses
  /\ OtpClose(s)
  /\ UNCHANGED <<otp, expired, outbox, lastSent, limiterVars, uses, otpLate>>

CodeExpires(c) ==
  /\ otp.code[c] = "live" /\ c \notin expired
  /\ expired' = expired \cup {c}
  /\ UNCHANGED <<otp, otpView, outbox, lastSent, limiterVars, limiter, guesses, uses, otpLate>>

\* The process dies with its requests; the database and Redis keep their state.
OtpRestart ==
  /\ client # "untried"
  /\ client' = "untried"
  /\ otpView' = [s \in Requesters |-> NoView]
  /\ outbox' = [s \in Requesters |-> NoCode]
  /\ limiter' = [s \in Requesters |-> "idle"]
  /\ stranded' = (stranded \/ \E s \in Requesters : limiter[s] = "first")
  /\ UNCHANGED <<otp, expired, lastSent, hits, ttl, guesses, uses, otpLate>>

OtpNext ==
  \/ \E s \in Requesters :
       \/ _redis(s) \/ incr(s) \/ expire(s) \/ fail_open(s)
       \/ OtpBegin(s) \/ deliver_registration_otp(s)
  \/ \E s \in Requesters :
       /\ otpView[s] # NoView
       /\ \/ OtpRollback(s) \/ register_initiate(s) \/ register(s)
          \/ verify_otp(s) \/ wrong_code(s)
  \/ \E c \in CodeIds : CodeExpires(c)
  \/ WindowEnds \/ OtpRestart

OtpSpec == OtpInit /\ [][OtpNext]_otpVars
-----------------------------------------------------------------------------
\* Wrong codes are not counted on the row, so it is the limiter alone that
\* bounds them: of the requests it counted, no more than the limit compare a
\* wrong code in one window, however they interleave with its end.
GuessesAreLimited == guesses <= VerifyLimit

\* A counter expires: it has an expiry, or a request is about to set it.  An
\* error or a crash between the two commands shuts the phone number out.
LimiterExpires ==
  hits > 0 /\ ~stranded => ttl \/ \E s \in Requesters : limiter[s] = "first"

\* The code the user was mailed last is the one a verification compares with,
\* as long as it lives: a mail may come after a newer request, and it still
\* holds unless two requests overlapped and each found no code to send again.
LastSentIsChecked ==
  "code" \notin otpLate /\ lastSent # NoCode =>
    lastSent \in expired \/ otp.code[lastSent] = "consumed" \/ lastSent \in Compared(otp)

\* A code opens one session, unless two verifications of it overlapped; and an
\* account becomes active by a code.
CodeUsedOnce ==
  /\ "code" \notin otpLate => \A c \in CodeIds : uses[c] <= 1
  /\ otp.user.status = "ACTIVE" => \E c \in CodeIds : uses[c] > 0

\* The code in the user's hands is the one that works, and it works once.
SentCodeWorksOnce == LastSentIsChecked /\ CodeUsedOnce
=============================================================================
