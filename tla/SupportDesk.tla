---------------------------- MODULE SupportDesk -----------------------------
(***************************************************************************)
(* A support ticket and the disputes of transactions: support_service.py,  *)
(* called by the user and by administrators, each call in a session that   *)
(* locks nothing (see Snapshots).                                          *)
(***************************************************************************)
EXTENDS Snapshots

CONSTANTS DisputedTxns,  \* transactions of the user
          MaxDisputes    \* bound: rows for one transaction

ASSUME SupportAssumption == MaxDisputes \in Nat

TicketStatus == {"OPEN", "IN_PROGRESS", "RESOLVED", "CLOSED"}

VARIABLES
  desk,       \* committed: [ticket |-> status or "none", disputes |-> rows]
  deskView,   \* the snapshot of each open session, or NoView
  lastCall,   \* history: what the last committed call on the ticket was
  talkedPast  \* history: it was made on an outdated snapshot

deskVars == <<desk, deskView, lastCall, talkedPast>>

Desks == [ticket : TicketStatus \cup {"none"},
          disputes : [DisputedTxns -> 0..MaxDisputes]]

SupportTypeOK ==
  /\ desk \in Desks /\ deskView \in [Requesters -> Desks \cup {NoView}]
  /\ lastCall \in {"none", "message", "close", "status"}
  /\ talkedPast \in BOOLEAN

SupportInit ==
  /\ desk = [ticket |-> "none", disputes |-> [t \in DisputedTxns |-> 0]]
  /\ deskView = [s \in Requesters |-> NoView]
  /\ lastCall = "none" /\ talkedPast = FALSE

-----------------------------------------------------------------------------
SupportBegin(s) ==
  /\ deskView[s] = NoView
  /\ deskView' = [deskView EXCEPT ![s] = desk]
  /\ UNCHANGED <<desk, lastCall, talkedPast>>

SupportEnd(s) == deskView' = [deskView EXCEPT ![s] = NoView]

SupportRollback(s) == SupportEnd(s) /\ UNCHANGED <<desk, lastCall, talkedPast>>

\* A call on the ticket: the status is written only if the call changes it.
TicketCommit(s, status, call) ==
  /\ desk' = [desk EXCEPT !.ticket =
                IF status # deskView[s].ticket THEN status ELSE @]
  /\ lastCall' = call /\ talkedPast' = (desk.ticket # deskView[s].ticket)
  /\ SupportEnd(s)

\* The ticket starts in progress, with the user's message and a receipt.
create_ticket(s) ==
  /\ desk.ticket = "none"
  /\ desk' = [desk EXCEPT !.ticket = "IN_PROGRESS"]
  /\ lastCall' = "message" /\ talkedPast' = FALSE
  /\ SupportEnd(s)

Exists(s) == deskView[s].ticket # "none"

\* Mutant: a message takes up a resolved ticket and leaves a closed one closed.
add_message_to_resolved(s) ==
  /\ Exists(s)
  /\ TicketCommit(s, IF deskView[s].ticket = "RESOLVED" THEN "IN_PROGRESS"
                     ELSE deskView[s].ticket, "message")

\* The user's message takes a closed ticket up again, and no other.
add_message(s) ==
  /\ Exists(s)
  /\ TicketCommit(s, IF deskView[s].ticket = "CLOSED" THEN "IN_PROGRESS"
                     ELSE deskView[s].ticket, "message")

\* A reply takes up whatever was put away.
admin_reply(s) ==
  /\ Exists(s)
  /\ TicketCommit(s, "IN_PROGRESS", "message")

close_ticket(s) == Exists(s) /\ TicketCommit(s, "CLOSED", "close")

admin_update_status(s, status) ==
  /\ Exists(s)
  /\ TicketCommit(s, status, IF status = "CLOSED" THEN "close" ELSE "status")

\* one_or_none: refused for one row, and an exception for more.  Nothing else
\* keeps a second row out.
create_dispute(s, t) ==
  /\ deskView[s].disputes[t] = 0
  /\ desk.disputes[t] < MaxDisputes
  /\ desk' = [desk EXCEPT !.disputes[t] = @ + 1]
  /\ SupportEnd(s)
  /\ UNCHANGED <<lastCall, talkedPast>>

SupportNext ==
  \/ \E s \in Requesters : SupportBegin(s)
  \/ \E s \in Requesters :
       /\ deskView[s] # NoView
       /\ \/ SupportRollback(s) \/ create_ticket(s) \/ add_message(s)
          \/ admin_reply(s) \/ close_ticket(s)
          \/ \E status \in TicketStatus : admin_update_status(s, status)
          \/ \E t \in DisputedTxns : create_dispute(s, t)

SupportSpec == SupportInit /\ [][SupportNext]_deskVars
-----------------------------------------------------------------------------
\* A message never rests on a closed ticket, and a close that came last closes,
\* unless that call had read the status before another call changed it.
TicketFollowsLastCall ==
  ~talkedPast =>
    /\ lastCall = "message" => desk.ticket # "CLOSED"
    /\ lastCall = "close" => desk.ticket = "CLOSED"

\* A transaction has at most as many disputes as calls were open at once: after
\* the first commit each new call finds it and is refused.
DisputesBounded ==
  \A t \in DisputedTxns : desk.disputes[t] <= Cardinality(Requesters)

\* What overlapping calls leave: no message lost on a closed ticket, no more
\* disputes than calls that overlapped.
DeskFollowsCalls == TicketFollowsLastCall /\ DisputesBounded
=============================================================================
