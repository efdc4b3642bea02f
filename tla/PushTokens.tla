----------------------------- MODULE PushTokens -----------------------------
(***************************************************************************)
(* The devices of device_service.py: a browser has one push token, and the *)
(* accounts used in it register it in turn.  A row per account stands for  *)
(* the device of that account in this browser.  Detaching a token is an    *)
(* UPDATE of the rows as they are; the rest is written from a snapshot     *)
(* (see Snapshots).  fcm.py deactivates what the provider no longer knows. *)
(***************************************************************************)
EXTENDS Snapshots

CONSTANTS Users,       \* accounts
          BrowserTokens, NoToken

ASSUME TokensAssumption == NoToken \notin BrowserTokens

DeviceRow == [made : BOOLEAN, push_token : BrowserTokens \cup {NoToken}, is_active : BOOLEAN]

VARIABLES
  device,      \* committed user_devices row of each account
  deviceView,  \* the snapshot of each open session, or NoView
  holder,      \* history: the account that committed a token last, if it did
               \*   not give it up since
  deviceLate   \* history: some registration had an outdated view of the rows

deviceVars == <<device, deviceView, holder, deviceLate>>

DeviceTypeOK ==
  /\ device \in [Users -> DeviceRow]
  /\ deviceView \in [Requesters -> [Users -> DeviceRow] \cup {NoView}]
  /\ holder \in [BrowserTokens -> Users \cup {NoView}]
  /\ deviceLate \in BOOLEAN

DeviceInit ==
  /\ device = [u \in Users |-> [made |-> FALSE, push_token |-> NoToken, is_active |-> FALSE]]
  /\ deviceView = [s \in Requesters |-> NoView]
  /\ holder = [token \in BrowserTokens |-> NoView]
  /\ deviceLate = FALSE

DeviceBegin(s) ==
  /\ deviceView[s] = NoView
  /\ deviceView' = [deviceView EXCEPT ![s] = device]
  /\ UNCHANGED <<device, holder, deviceLate>>

DeviceEnd(s) == deviceView' = [deviceView EXCEPT ![s] = NoView]

DeviceRollback(s) == DeviceEnd(s) /\ UNCHANGED <<device, holder, deviceLate>>

\* Mutant: a token stays with the account it was registered for.
Attached(row, token) == row

Detached(row, token) ==
  IF token # NoToken /\ row.push_token = token
  THEN [row EXCEPT !.push_token = NoToken, !.is_active = FALSE] ELSE row

\* The token is detached from every other row, and written to the account's own.
\* A device is inserted once for an account.
register_device(s, u, token) ==
  LET v == deviceView[s]
      new == [made |-> TRUE, push_token |-> token, is_active |-> TRUE]
  IN /\ v[u].made \/ ~device[u].made
     /\ device' = [w \in Users |-> IF w = u THEN MergeRow(v[u], new, device[u])
                                   ELSE Detached(device[w], token)]
     /\ holder' = [t \in BrowserTokens |->
                     IF t = token THEN u ELSE IF holder[t] = u THEN NoView ELSE holder[t]]
     /\ deviceLate' = (deviceLate \/ device # v)
     /\ DeviceEnd(s)

GivesUp(C) == holder' = [t \in BrowserTokens |-> IF holder[t] \in C THEN NoView ELSE holder[t]]

unregister_device(s, u) ==
  LET v == deviceView[s]
  IN /\ v[u].made
     /\ device' = [device EXCEPT ![u] =
          MergeRow(v[u], [v[u] EXCEPT !.push_token = NoToken, !.is_active = FALSE], @)]
     /\ GivesUp({u})
     /\ deviceLate' = (deviceLate \/ device # v)
     /\ DeviceEnd(s)

\* The thread of a push reads the active tokens of its account, sends, and then
\* deactivates those that were reported: wherever the token is by then.
_send(s, u) ==
  LET v == deviceView[s]
      token == v[u].push_token
      hit == {w \in Users : device[w].push_token = token}
  IN /\ v[u].is_active /\ token # NoToken
     /\ device' = [w \in Users |->
                     IF w \in hit THEN [device[w] EXCEPT !.is_active = FALSE] ELSE device[w]]
     /\ GivesUp(hit)
     /\ DeviceEnd(s)
     /\ UNCHANGED deviceLate

DeviceNext ==
  \/ \E s \in Requesters : DeviceBegin(s)
  \/ \E s \in Requesters :
       /\ deviceView[s] # NoView
       /\ \/ DeviceRollback(s)
          \/ \E u \in Users :
               \/ unregister_device(s, u) \/ _send(s, u)
               \/ \E token \in BrowserTokens \cup {NoToken} : register_device(s, u, token)

DeviceSpec == DeviceInit /\ [][DeviceNext]_deviceVars
-----------------------------------------------------------------------------
\* The account that registered a browser last, and no other, gets what is pushed
\* to it, whatever others did with the token before; unless two registrations
\* overlapped, when both may hold it, or neither.
TokenFollowsLastUser ==
  ~deviceLate =>
    /\ \A token \in BrowserTokens : holder[token] # NoView =>
         /\ device[holder[token]].push_token = token
         /\ device[holder[token]].is_active
    /\ \A u, w \in Users : u # w /\ device[u].push_token = device[w].push_token =>
         device[u].push_token = NoToken
=============================================================================
