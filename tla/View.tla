-------------------------------- MODULE View --------------------------------
(***************************************************************************)
(* What one client knows of its lobby (src/NutBlast.cpp): the tables that  *)
(* the handlers of server messages keep, against the registry of module    *)
(* Blaster.  Between the two are the channel of the client's session,      *)
(* which loses what does not fit, and the session, which answers a Ping    *)
(* past that channel.  The websocket only adds delay: it keeps the order,  *)
(* so a message on it may as well be one the session has not sent yet.     *)
(* Two setters also change the client's own copy before the server has     *)
(* seen the request.                                                       *)
(***************************************************************************)
EXTENDS Blaster

CONSTANTS
    Me,           \* the player of the client
    MaxRequests,  \* bound: requests of the client under way
    MaxBacklog    \* bound: the registry rests while Me's channel holds more

ASSUME ViewAssumption ==
    Me \in Pid /\ {MaxRequests, MaxBacklog} \subseteq Nat

\* The names of the other topics (see Topic) are no names of fields.
ASSUME TopicAssumption == Key \cap {"capacity", "other"} = {}

VARIABLES
    view,         \* the client's our_pid, players, master, lobby_meta and so on
    link,         \* the client's session: where it stands, the Pong it was given
    requests,     \* what the client asked for, on its way to the event loop
    unconfirmed,  \* what the client holds that no message has confirmed
    used          \* every pid ever drawn: 64 random bits do not repeat

viewvars == <<vars, view, link, requests, unconfirmed, used>>

-----------------------------------------------------------------------------
(* The handlers of server messages: each takes the tables and a message *)

\* The session's answer to a Ping; it does not pass through the outbox.
Pong(members) == [type |-> "Pong", players |-> members]

\* NutBlast_Disconnect: listed and the lobby's fields survive.
Reset(v) == [v EXCEPT !.pid = NULL, !.players = << >>, !.master = NULL, !.capacity = 0]

GotConnected(v, m) == [v EXCEPT !.pid = m.pid]
GotSetListed(v, m) == [v EXCEPT !.listed = m.listed]
GotSetCapacity(v, m) == [v EXCEPT !.capacity = m.capacity]

\* Fields of unknown players and our own are left alone.
GotPlayerMeta(v, m) ==
    IF m.pid \notin DOMAIN v.players \/ m.pid = v.pid THEN v
    ELSE [v EXCEPT !.players[m.pid] =
             IF m.type = "SetPlayerMeta" THEN Put(@, m.key, m.value) ELSE Without(@, m.key)]

GotLobbyMeta(v, m) ==
    [v EXCEPT !.meta =
        IF m.type = "SetLobbyMeta" THEN Put(@, m.key, m.value) ELSE Without(@, m.key)]

GotSetMaster(v, m) == [v EXCEPT !.master = m.pid]

\* insert() keeps a player that is already there.
GotJoined(v, m) ==
    IF m.pid \in DOMAIN v.players THEN v
    ELSE [v EXCEPT !.players = Put(@, m.pid, m.metadata)]

GotLeft(v, m) == [v EXCEPT !.players = Without(@, m.pid)]

\* Mutant of GotPong: an empty list is taken for no answer.
GotPongUnlessEmpty(v, m) ==
    IF m.players = {} THEN v
    ELSE [v EXCEPT !.players = [q \in DOMAIN v.players \cap m.players |-> v.players[q]]]

\* Whoever a Pong does not name is gone.
GotPong(v, m) ==
    [v EXCEPT !.players = [q \in DOMAIN v.players \cap m.players |-> v.players[q]]]

Handle(v, m) ==
    CASE m.type = "Connected" -> GotConnected(v, m)
      [] m.type = "Disconnected" -> Reset(v)
      [] m.type = "SetListed" -> GotSetListed(v, m)
      [] m.type = "SetCapacity" -> GotSetCapacity(v, m)
      [] m.type \in {"SetPlayerMeta", "ErasePlayerMeta"} -> GotPlayerMeta(v, m)
      [] m.type \in {"SetLobbyMeta", "EraseLobbyMeta"} -> GotLobbyMeta(v, m)
      [] m.type = "SetMaster" -> GotSetMaster(v, m)
      [] m.type = "Joined" -> GotJoined(v, m)
      [] m.type = "Left" -> GotLeft(v, m)
      [] m.type = "Pong" -> GotPong(v, m)

-----------------------------------------------------------------------------
(* The client *)

Arrived == view.pid = Me

\* A request is sent and its effect written to the client's own copy at once.
Ask(request, copy, topic) ==
    /\ Arrived /\ Len(requests) < MaxRequests
    /\ requests' = Append(requests, request)
    /\ view' = copy
    /\ unconfirmed' = unconfirmed \cup {topic}
    /\ UNCHANGED <<vars, link, used>>

\* NutBlast_SetMaxPlayers does not ask who the master is.
SetMaxPlayers(max) ==
    Ask([type |-> "SetCapacity", capacity |-> max], [view EXCEPT !.capacity = max], "capacity")

\* NutBlast_SetLobbyField, for whoever takes itself for the master.
SetLobbyField(key, value) ==
    /\ view.master = view.pid
    /\ can_add(view.meta, key)
    /\ Ask([type |-> "SetLobbyMeta", key |-> key, value |-> value],
           [view EXCEPT !.meta = Put(@, key, value)], key)
UnsetLobbyField(key) ==
    /\ view.master = view.pid
    /\ Ask([type |-> "EraseLobbyMeta", key |-> key],
           [view EXCEPT !.meta = Without(@, key)], key)

\* The game leaves, or the connection breaks: the session ends as well.
Disconnect ==
    /\ link.state # "off"
    /\ view' = Reset(view) /\ requests' = << >>
    /\ link' = [link EXCEPT !.state = "off"]
    /\ Hangup(Me)
    /\ UNCHANGED <<unconfirmed, used>>

-----------------------------------------------------------------------------
(* The client's session, and NutBlast_Update handling what it sends *)

\* Mutant of Drain: the channel is read while an answer is awaited, too.
DrainAlways ==
    /\ link.state # "off"
    /\ Receive(Me)
    /\ view' = Handle(view, Head(outbox[Me]))
    /\ UNCHANGED <<link, requests, unconfirmed, used>>

\* One message of the channel goes to the client; Disconnected is the last.
Drain ==
    /\ link.state = "loop"
    /\ Me \in DOMAIN outbox /\ outbox[Me] # << >>
    /\ view' = Handle(view, Head(outbox[Me]))
    /\ IF Head(outbox[Me]).type = "Disconnected"
       THEN Hangup(Me) /\ link' = [link EXCEPT !.state = "off"]
       ELSE Receive(Me) /\ UNCHANGED link
    /\ UNCHANGED <<requests, unconfirmed, used>>

\* A Ping (NutBlast_Flush sends one a second): the session asks the event loop
\* and reads nothing else until it has sent the answer.
Ping ==
    /\ link.state = "loop" /\ Me \in DOMAIN outbox
    /\ link' = [link EXCEPT !.state = "pinging"]
    /\ UNCHANGED <<vars, view, requests, unconfirmed, used>>

Assemble ==
    /\ link.state = "pinging"
    /\ link' = [state |-> "answered", pong |-> AssemblePong(Me)]
    /\ UNCHANGED <<vars, view, requests, unconfirmed, used>>

SendPong ==
    /\ link.state = "answered"
    /\ view' = Handle(view, Pong(link.pong))
    /\ link' = [state |-> "loop", pong |-> {}]
    /\ UNCHANGED <<vars, requests, unconfirmed, used>>

-----------------------------------------------------------------------------
(* The registry *)

\* What a message is about, as far as the client writes it too.
Topic(m) == CASE m.type = "SetCapacity" -> "capacity"
              [] m.type \in {"SetLobbyMeta", "EraseLobbyMeta"} -> m.key
              [] OTHER -> "other"

\* The topics of the messages that a step puts in Me's channel.
Told ==
    IF Me \notin DOMAIN outbox' THEN {}
    ELSE {Topic(outbox'[Me][i]) :
             i \in (IF Me \in DOMAIN outbox THEN Len(outbox[Me]) + 1 ELSE 1)
                   .. Len(outbox'[Me])}

\* Nothing that is sent after a Disconnected is ever read.
Parting == \E i \in DOMAIN outbox[Me] : outbox[Me][i].type = "Disconnected"

\* A step of the event loop, while Me's channel is neither long nor at its end.
EventLoop(Step) ==
    /\ Me \in DOMAIN outbox => Len(outbox[Me]) =< MaxBacklog /\ ~Parting
    /\ Step
    /\ unconfirmed' = unconfirmed \ Told
    /\ UNCHANGED <<view, link>>

\* A player enters by an operation that answers Ok(pid).
Draw(pid) ==
    /\ used' = used \cup {pid}
    /\ UNCHANGED requests

\* Hosting takes the lobby's fields from the client's own copy.
Enter ==
    \E pid \in Pid \ used, ip \in Ip :
       \/ \E gid \in Gid, m, pm \in Metadata, c \in Capacity, listed \in BOOLEAN :
             /\ pid = Me => m = view.meta
             /\ EventLoop(HostLobby(ip, gid, m, c, listed, pm, Ok(pid)))
             /\ Draw(pid)
       \/ \E l \in LobbyId, pm \in Metadata :
             /\ EventLoop(JoinLobby(ip, l, pm, Ok(pid)))
             /\ Draw(pid)

\* The oldest request of the client is executed.
Request ==
    /\ requests # << >>
    /\ requests' = Tail(requests)
    /\ LET r == Head(requests)
       IN  \/ r.type = "SetCapacity" /\ EventLoop(SetCapacity(Me, r.capacity))
           \/ r.type = "SetLobbyMeta" /\ EventLoop(SetLobbyMeta(Me, r.key, r.value))
           \/ r.type = "EraseLobbyMeta" /\ EventLoop(EraseLobbyMeta(Me, r.key))
    /\ UNCHANGED used

\* What the others do, and what Me does without a copy of its own.
Operation ==
    /\ \/ \E p \in Pid : EventLoop(RemovePlayer(p, "Natural"))
       \/ \E p \in Pid, listed \in BOOLEAN : EventLoop(SetListed(p, listed))
       \/ \E p, q \in Pid : EventLoop(SetMaster(p, q)) \/ EventLoop(KickPlayer(p, q))
       \/ \E p \in Pid, k \in Key, v \in Value : EventLoop(SetPlayerMeta(p, k, v))
       \/ \E p \in Pid, k \in Key : EventLoop(ErasePlayerMeta(p, k))
       \/ \E p \in Pid \ {Me}, c \in Capacity : EventLoop(SetCapacity(p, c))
       \/ \E p \in Pid \ {Me}, k \in Key, v \in Value : EventLoop(SetLobbyMeta(p, k, v))
       \/ \E p \in Pid \ {Me}, k \in Key : EventLoop(EraseLobbyMeta(p, k))
       \/ EventLoop(Prune)
       \/ EventLoop(EventLoopReset)
    /\ UNCHANGED <<requests, used>>

\* Everyone's connection has been introduced; the client may hold the fields of
\* an earlier lobby.
ViewInit ==
    /\ gid_lobbies = << >> /\ lobbies = << >> /\ players = << >> /\ outbox = << >>
    /\ peers = [ip \in Ip |-> [count |-> SESSIONS_PER_IP_CAP, age |-> 0]]
    /\ view \in [pid : {NULL}, listed : {TRUE}, capacity : {0}, meta : Metadata,
                 players : {<< >>}, master : {NULL}]
    /\ requests = << >> /\ used = {}
    /\ link = [state |-> "loop", pong |-> {}]
    /\ unconfirmed = DOMAIN view.meta \cup {"capacity"}

ViewNext ==
    \/ Disconnect
    \/ \E c \in Capacity : SetMaxPlayers(c)
    \/ \E k \in Key, v \in Value : SetLobbyField(k, v)
    \/ \E k \in Key : UnsetLobbyField(k)
    \/ Drain \/ Ping \/ Assemble \/ SendPong
    \/ Enter \/ Request \/ Operation

ViewSpec == ViewInit /\ [][ViewNext]_viewvars

\* The game calls NutBlast_Update every frame, which handles what came in and
\* sends a Ping each second; the session and the event loop are runnable.
FairViewSpec ==
    /\ ViewSpec
    /\ WF_viewvars(Ping) /\ WF_viewvars(Assemble)
    /\ WF_viewvars(SendPong) /\ WF_viewvars(Drain)

-----------------------------------------------------------------------------
(* Properties *)

\* The tables v once the messages in q have been handled, one after the other.
After(v, q) ==
    LET f[i \in 0 .. Len(q)] == IF i = 0 THEN v ELSE Handle(f[i - 1], q[i])
    IN  f[Len(q)]

\* The client's tables once it has handled all that is on its way to it.
Foreseen ==
    After(IF link.state = "answered" THEN Handle(view, Pong(link.pong)) ELSE view,
          outbox[Me])

\* While no message is lost, what the client will know once it has handled all
\* that is under way is the registry's own state: members and their fields, the
\* master, visibility, capacity and lobby fields.  The exceptions are what it
\* wrote itself and no message confirmed: requests under way or refused, and
\* fields left over from an earlier lobby.  The welcome, the changes of others,
\* Pongs that overtake them and the client's own writes mix in any order.
ViewConverges ==
    Me \in DOMAIN players \cap DOMAIN outbox /\ ~Parting =>
        LET lobby == LobbyOf(Me)
        IN  /\ Foreseen.pid = Me
            /\ Foreseen.master = lobby.master
            /\ Foreseen.listed = lobby.listed
            /\ Foreseen.players = [q \in lobby.players \ {Me} |-> players[q].metadata]
            /\ "capacity" \notin unconfirmed => Foreseen.capacity = lobby.capacity
            /\ \A k \in Key \ unconfirmed :
                  /\ k \in DOMAIN Foreseen.meta <=> k \in DOMAIN lobby.metadata
                  /\ k \in DOMAIN lobby.metadata => Foreseen.meta[k] = lobby.metadata[k]

\* "No effect if you aren't the lobby's master" (NutBlast_SetMaxPlayers): with nothing
\* under way in either direction, who is not the master sees the lobby's capacity.
MembersSeeCapacity ==
    /\ Me \in DOMAIN players \cap DOMAIN outbox
    /\ outbox[Me] = << >> /\ requests = << >> /\ link.state = "loop"
    /\ LobbyOf(Me).master # Me
    => view.capacity = LobbyOf(Me).capacity

\* A Pong never erases a player that is in the lobby, although it overtakes the
\* Joined and Left that wait in the channel and may be old when it is handled.
PongSpares ==
    link.state = "answered" /\ link'.state = "loop" =>
        \A q \in DOMAIN view.players \ DOMAIN view'.players : q \notin AssemblePong(Me)
PongSparesMembers == [][PongSpares]_viewvars

\* A player that has left is gone from the client's table in the end, even when
\* its Left was lost: the next Pong does not name it.
GhostsVanish ==
    \A q \in Pid : (q \in DOMAIN view.players /\ q \notin AssemblePong(Me))
                      ~> q \notin DOMAIN view.players
=============================================================================
