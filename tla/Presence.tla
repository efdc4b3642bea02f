------------------------------ MODULE Presence ------------------------------
(***************************************************************************)
(* The socket connections of one user and the delivery of stored           *)
(* notifications over them (websocket/socket.py, notification_service.py): *)
(* every process counts the connections it holds itself, and pushes a      *)
(* notification only if it counts none (fcm.py).  Handlers of connections  *)
(* run on the loop of the process, deliveries in its threads.              *)
(***************************************************************************)
EXTENDS Integers, FiniteSets

CONSTANTS Apis, Workers,   \* processes with and without a socket server
          Tabs,            \* clients of the user, each with a socket of its own
          Notices,         \* stored notifications
          Urgent,          \* those whose priority is always pushed
          UseRedis         \* emissions reach the rooms of other processes

Processes == Apis \cup Workers
Nowhere == "nowhere"

ASSUME PresenceAssumption ==
  /\ Apis \cap Workers = {} /\ Urgent \subseteq Notices /\ UseRedis \in BOOLEAN
  /\ Nowhere \notin Processes /\ IsFiniteSet(Tabs)

VARIABLES
  socket,             \* a tab's connection: none, checking its token, in the room
  home,               \* the process it is with
  _connection_counts, \* of each process
  sender,             \* the process that delivers a notification
  emission,           \* none, scheduled or ended
  push,               \* undecided, sent or skipped
  reached,            \* the tabs the emission reached
  moved               \* history: notifications during whose delivery the sockets
                      \*   changed, or whose sender died

deliveryVars == <<sender, emission, push, reached>>
presenceVars == <<socket, home, _connection_counts, deliveryVars, moved>>

PresenceTypeOK ==
  /\ socket \in [Tabs -> {"none", "checking", "joined"}]
  /\ home \in [Tabs -> Apis \cup {Nowhere}]
  /\ _connection_counts \in [Apis -> 0..Cardinality(Tabs)]
  /\ sender \in [Notices -> Processes \cup {Nowhere}]
  /\ emission \in [Notices -> {"none", "scheduled", "ended"}]
  /\ push \in [Notices -> {"undecided", "sent", "skipped"}]
  /\ reached \in [Notices -> SUBSET Tabs] /\ moved \subseteq Notices

PresenceInit ==
  /\ socket = [tab \in Tabs |-> "none"] /\ home = [tab \in Tabs |-> Nowhere]
  /\ _connection_counts = [p \in Apis |-> 0]
  /\ sender = [n \in Notices |-> Nowhere]
  /\ emission = [n \in Notices |-> "none"]
  /\ push = [n \in Notices |-> "undecided"]
  /\ reached = [n \in Notices |-> {}] /\ moved = {}

-----------------------------------------------------------------------------
Delivering == {n \in Notices : emission[n] = "scheduled" \/
                               (emission[n] = "ended" /\ push[n] = "undecided")}

Disturbs == moved' = moved \cup Delivering

\* The handler awaits the check of the token in an executor.
connect(tab, p) ==
  /\ socket[tab] = "none"
  /\ socket' = [socket EXCEPT ![tab] = "checking"]
  /\ home' = [home EXCEPT ![tab] = p]
  /\ UNCHANGED <<_connection_counts, deliveryVars, moved>>

\* Nothing in the rest of the handler gives way to another, up to the count.
enter_room(tab) ==
  /\ socket[tab] = "checking"
  /\ socket' = [socket EXCEPT ![tab] = "joined"]
  /\ _connection_counts' = [_connection_counts EXCEPT ![home[tab]] = @ + 1]
  /\ Disturbs
  /\ UNCHANGED <<home, deliveryVars>>

Gone(tab) ==
  /\ socket' = [socket EXCEPT ![tab] = "none"]
  /\ home' = [home EXCEPT ![tab] = Nowhere]

\* Mutant: a connection that was never counted is taken off.
refuse_counted(tab) ==
  /\ socket[tab] = "checking"
  /\ Gone(tab)
  /\ _connection_counts' = [_connection_counts EXCEPT ![home[tab]] = @ - 1]
  /\ UNCHANGED <<deliveryVars, moved>>

\* Refused, or left while the token is checked: the session names no user yet,
\* and the rest of the handler fails on a session that is gone.
refuse(tab) ==
  /\ socket[tab] = "checking"
  /\ Gone(tab)
  /\ UNCHANGED <<_connection_counts, deliveryVars, moved>>

disconnect(tab) ==
  /\ socket[tab] = "joined"
  /\ Gone(tab)
  /\ _connection_counts' =
       [_connection_counts EXCEPT ![home[tab]] = IF @ > 0 THEN @ - 1 ELSE @]
  /\ Disturbs
  /\ UNCHANGED deliveryVars

\* emit_to_user leaves the emission to the loop of the process or, in a worker,
\* to Redis; without Redis a worker drops it.
emit_to_user(n, p) ==
  /\ emission[n] = "none"
  /\ sender' = [sender EXCEPT ![n] = p]
  /\ emission' = [emission EXCEPT ![n] =
                    IF p \in Workers /\ ~UseRedis THEN "ended" ELSE "scheduled"]
  /\ UNCHANGED <<socket, home, _connection_counts, push, reached, moved>>

\* Mutant: a process without a socket server takes the user for connected.
assumed_connected(p) == p \in Workers \/ _connection_counts[p] > 0

is_user_connected(p) == p \in Apis /\ _connection_counts[p] > 0

\* The thread that delivers decides on the push without waiting for the emission.
should_send(n) ==
  /\ emission[n] # "none" /\ push[n] = "undecided"
  /\ push' = [push EXCEPT ![n] =
       IF n \in Urgent \/ ~is_user_connected(sender[n]) THEN "sent" ELSE "skipped"]
  /\ UNCHANGED <<socket, home, _connection_counts, sender, emission, reached, moved>>

Room(p) == {tab \in Tabs : socket[tab] = "joined" /\ (UseRedis \/ home[tab] = p)}

Emit(n) ==
  /\ emission[n] = "scheduled"
  /\ emission' = [emission EXCEPT ![n] = "ended"]
  /\ reached' = [reached EXCEPT ![n] = Room(sender[n])]
  /\ UNCHANGED <<socket, home, _connection_counts, sender, push, moved>>

\* A worker whose publication fails drops the emission.
drop_emission(n) ==
  /\ emission[n] = "scheduled" /\ sender[n] \in Workers
  /\ emission' = [emission EXCEPT ![n] = "ended"]
  /\ UNCHANGED <<socket, home, _connection_counts, sender, push, reached, moved>>

\* A process ends: its sockets, its counts, and what it was delivering.
PresenceRestart(p) ==
  LET cut == {n \in Delivering : sender[n] = p}
      held == {tab \in Tabs : home[tab] = p}
  IN /\ held # {} \/ cut # {}
     /\ socket' = [tab \in Tabs |-> IF tab \in held THEN "none" ELSE socket[tab]]
     /\ home' = [tab \in Tabs |-> IF tab \in held THEN Nowhere ELSE home[tab]]
     /\ _connection_counts' = [q \in Apis |-> IF q = p THEN 0 ELSE _connection_counts[q]]
     /\ emission' = [n \in Notices |-> IF n \in cut THEN "ended" ELSE emission[n]]
     /\ push' = [n \in Notices |->
                   IF n \in cut /\ push[n] = "undecided" THEN "skipped" ELSE push[n]]
     /\ Disturbs
     /\ UNCHANGED <<sender, reached>>

PresenceNext ==
  \/ \E tab \in Tabs :
       \/ \E p \in Apis : connect(tab, p)
       \/ enter_room(tab) \/ refuse(tab) \/ disconnect(tab)
  \/ \E n \in Notices :
       \/ \E p \in Processes : emit_to_user(n, p)
       \/ should_send(n) \/ Emit(n) \/ drop_emission(n)
  \/ \E p \in Processes : PresenceRestart(p)

PresenceSpec == PresenceInit /\ [][PresenceNext]_presenceVars
-----------------------------------------------------------------------------
\* A process counts the sockets of the user that it has in the room, through
\* connections that are refused, dropped while they are checked, or cut off.
CountsAreExact ==
  \A p \in Apis : _connection_counts[p] =
    Cardinality({tab \in Tabs : socket[tab] = "joined" /\ home[tab] = p})

\* A delivered notification reached a tab or was pushed.  It does neither only
\* if the sockets changed between the emission and the decision, two steps that
\* do not wait for each other, or the process died; then the stored row is all.
NoticeIsDelivered ==
  \A n \in Notices \ moved :
    emission[n] = "ended" /\ push[n] # "undecided" =>
      reached[n] # {} \/ push[n] = "sent"
=============================================================================
