-------------------------- MODULE AccountSessions ---------------------------
(***************************************************************************)
(* The password of one account that was registered, its refresh tokens     *)
(* (auth_service, security_service, routers/auth) and its password resets  *)
(* (password_reset_service).  The codes that verify it are OneTimeCodes'.  *)
(* Requests read a snapshot (see Snapshots); revoking is one UPDATE with a *)
(* WHERE clause, which acts on the rows as they are, not as they were read. *)
(***************************************************************************)
EXTENDS Snapshots

CONSTANTS MaxPasswords, MaxTokens, MaxResets   \* bounds

ASSUME SessionsAssumption ==
  MaxPasswords \in Nat \ {0} /\ MaxTokens \in Nat /\ MaxResets \in Nat

TokenIds == 1..MaxTokens
ResetIds == 1..MaxResets

\* verified stands for code_consumed and reset_token, which are written together,
\* used for token_consumed.  attempts stays 0, as that of a registration code.
ResetRow == [made : BOOLEAN, verified : BOOLEAN, used : BOOLEAN]
TokenStates == {"none", "live", "revoked"}

AccountTables ==
  [user : [password : 1..MaxPasswords, active : BOOLEAN],
   token : [TokenIds -> TokenStates],
   reset : [ResetIds -> ResetRow]]

VARIABLES
  account,      \* committed rows
  overdue,      \* resets whose code, or then whose token, has expired
  accountView,  \* the snapshot of each open session, or NoView
  passwords,    \* passwords set so far; each is a new one
  issuedUnder,  \* history: the password a token was issued under
  resetBy,      \* history: the passwords each reset has set
  accountLate   \* history: the requests, by kind, that were committed after what
                \*   they had read of the user or the reset changed

accountHistory == <<issuedUnder, resetBy, accountLate>>
accountVars == <<account, overdue, accountView, passwords, accountHistory>>

AccountTypeOK ==
  /\ account \in AccountTables
  /\ accountView \in [Requesters -> AccountTables \cup {NoView}]
  /\ overdue \subseteq ResetIds
  /\ passwords \in 1..MaxPasswords
  /\ issuedUnder \in [TokenIds -> 0..MaxPasswords]
  /\ resetBy \in [ResetIds -> SUBSET (1..MaxPasswords)]
  /\ accountLate \subseteq {"login", "otp", "register", "reset"}

\* The account was registered with its first password.
AccountInit ==
  /\ account = [user |-> [password |-> 1, active |-> FALSE],
                token |-> [t \in TokenIds |-> "none"],
                reset |-> [r \in ResetIds |->
                             [made |-> FALSE, verified |-> FALSE, used |-> FALSE]]]
  /\ accountView = [s \in Requesters |-> NoView]
  /\ overdue = {}
  /\ passwords = 1
  /\ issuedUnder = [t \in TokenIds |-> 0]
  /\ resetBy = [r \in ResetIds |-> {}]
  /\ accountLate = {}

-----------------------------------------------------------------------------
AccountBegin(s) ==
  /\ accountView[s] = NoView
  /\ accountView' = [accountView EXCEPT ![s] = account]
  /\ UNCHANGED <<account, overdue, passwords, accountHistory>>

\* A refusal or an error; and GET, which only reads.
AccountRollback(s) ==
  /\ accountView' = [accountView EXCEPT ![s] = NoView]
  /\ UNCHANGED <<account, overdue, passwords, accountHistory>>

\* What SQLAlchemy writes, and then what an UPDATE of the tokens wrote.
AccountCommit(s, new, updated) ==
  /\ LET v == accountView[s]
         tokens == MergeRow(v.token, new.token, account.token)
     IN account' = [user |-> MergeRow(v.user, new.user, account.user),
                    token |-> [t \in TokenIds |-> updated[tokens[t]]],
                    reset |-> MergeTable(v.reset, new.reset, account.reset)]
  /\ accountView' = [accountView EXCEPT ![s] = NoView]

\* History: kind was decided by a part of the snapshot that is outdated.
NoteLate(kind, outdated) ==
  accountLate' = IF outdated THEN accountLate \cup {kind} ELSE accountLate

Kept == [state \in TokenStates |-> state]

\* UPDATE refresh_tokens SET revoked WHERE NOT revoked.
Revoked == [state \in TokenStates |-> IF state = "live" THEN "revoked" ELSE state]

\* A token is inserted, under the password that was read, and committed with
\* the answer.
InsertsToken(s, new, kind) ==
  /\ \E t \in NextId({t \in TokenIds : account.token[t] = "none"}) :
       /\ AccountCommit(s, [new EXCEPT !.token[t] = "live"], Kept)
       /\ issuedUnder' = [issuedUnder EXCEPT ![t] = accountView[s].user.password]
  /\ NoteLate(kind, accountView[s].user # account.user)
  /\ UNCHANGED <<overdue, passwords, resetBy>>

\* The password presented is compared with the hash that was read.
login(s) ==
  /\ accountView[s].user.active
  /\ InsertsToken(s, accountView[s], "login")

\* A registration code verifies the account and opens a session, of an account
\* that is active already too.  The wallet of the account is inserted once: of
\* two first verifications the later fails.
issue_tokens(s) ==
  /\ ~accountView[s].user.active => ~account.user.active
  /\ InsertsToken(s, [accountView[s] EXCEPT !.user.active = TRUE], "otp")

\* Another registration of an account that is not active yet gives it a new
\* password, and ends no session.
register_user(s) ==
  /\ ~accountView[s].user.active /\ passwords < MaxPasswords
  /\ passwords' = passwords + 1
  /\ AccountCommit(s, [accountView[s] EXCEPT !.user.password = passwords'], Kept)
  /\ NoteLate("register", account.user.active)
  /\ UNCHANGED <<overdue, issuedUnder, resetBy>>

\* A new access token for a refresh token that was read as live.
refresh_token(s, t) ==
  /\ accountView[s].token[t] = "live" /\ accountView[s].user.active
  /\ AccountCommit(s, accountView[s], Kept)
  /\ UNCHANGED <<overdue, passwords, accountHistory>>

\* logout, and revoking all sessions.
revoke_other_sessions(s) ==
  /\ accountView[s].user.active
  /\ AccountCommit(s, accountView[s], Revoked)
  /\ UNCHANGED <<overdue, passwords, accountHistory>>

\* Mutant: only the tokens that were read are revoked.
NewPasswordReadTokens(s, new) ==
  /\ passwords < MaxPasswords
  /\ passwords' = passwords + 1
  /\ AccountCommit(s, [new EXCEPT !.user.password = passwords',
       !.token = [t \in TokenIds |-> Revoked[@[t]]]], Kept)

NewPassword(s, new) ==
  /\ passwords < MaxPasswords
  /\ passwords' = passwords + 1
  /\ AccountCommit(s, [new EXCEPT !.user.password = passwords'], Revoked)

\* The current password is compared with the hash that was read.
change_password(s) ==
  /\ accountView[s].user.active
  /\ NewPassword(s, accountView[s])
  /\ UNCHANGED <<overdue, accountHistory>>

\* Every request makes a code; nothing is reused.  The mail follows the commit.
request_reset(s) ==
  \E r \in NextId({r \in ResetIds : ~account.reset[r].made}) :
    /\ AccountCommit(s, [accountView[s] EXCEPT !.reset[r].made = TRUE], Kept)
    /\ UNCHANGED <<overdue, passwords, accountHistory>>

\* The newest code that was not consumed is the one compared.
PendingResets(v) == {r \in ResetIds : v.reset[r].made /\ ~v.reset[r].verified}
NewestReset(v) == {r \in PendingResets(v) : \A q \in PendingResets(v) : q <= r}

\* The token has a term of its own.
verify_code(s, r) ==
  /\ r \in NewestReset(accountView[s]) \ overdue
  /\ AccountCommit(s, [accountView[s] EXCEPT !.reset[r].verified = TRUE], Kept)
  /\ UNCHANGED <<overdue, passwords, accountHistory>>

\* Mutant: a token that was used is taken again.
complete_reset_again(s, r) ==
  /\ accountView[s].reset[r].verified /\ r \notin overdue
  /\ NewPassword(s, [accountView[s] EXCEPT !.reset[r].used = TRUE])
  /\ resetBy' = [resetBy EXCEPT ![r] = @ \cup {passwords'}]
  /\ NoteLate("reset", accountView[s].reset[r] # account.reset[r])
  /\ UNCHANGED <<overdue, issuedUnder>>

complete_reset(s, r) ==
  /\ accountView[s].reset[r].verified /\ ~accountView[s].reset[r].used
  /\ r \notin overdue
  /\ NewPassword(s, [accountView[s] EXCEPT !.reset[r].used = TRUE])
  /\ resetBy' = [resetBy EXCEPT ![r] = @ \cup {passwords'}]
  /\ NoteLate("reset", accountView[s].reset[r] # account.reset[r])
  /\ UNCHANGED <<overdue, issuedUnder>>

ResetExpires(r) ==
  /\ account.reset[r].made /\ r \notin overdue
  /\ overdue' = overdue \cup {r}
  /\ UNCHANGED <<account, accountView, passwords, accountHistory>>

AccountNext ==
  \/ \E s \in Requesters : AccountBegin(s)
  \/ \E s \in Requesters :
       /\ accountView[s] # NoView
       /\ \/ AccountRollback(s) \/ login(s) \/ issue_tokens(s) \/ register_user(s)
          \/ revoke_other_sessions(s) \/ change_password(s) \/ request_reset(s)
          \/ \E t \in TokenIds : refresh_token(s, t)
          \/ \E r \in ResetIds : verify_code(s, r) \/ complete_reset(s, r)
  \/ \E r \in ResetIds : ResetExpires(r)

AccountSpec == AccountInit /\ [][AccountNext]_accountVars
-----------------------------------------------------------------------------
\* A session that can still be refreshed was opened, by the password or by a
\* registration code, while today's password was set: every change of it ends
\* the sessions there are, also those opened since the change read the account.
\* What escapes is a login or a verification that read the account before a
\* change and commits after it, and another registration that read the account
\* before it was verified.
TokensFollowPassword ==
  {"login", "otp", "register"} \cap accountLate = {} => \A t \in TokenIds :
    account.token[t] = "live" => issuedUnder[t] = account.user.password

\* A reset sets one password, unless two requests with its token overlapped.
ResetUsedOnce ==
  "reset" \notin accountLate =>
    \A r \in ResetIds : Cardinality(resetBy[r]) <= 1
=============================================================================
