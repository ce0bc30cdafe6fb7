------------------------------- MODULE Client -------------------------------
(***************************************************************************)
(* The connection of the client library to the server (src/NutBlast.cpp):  *)
(* the game's thread, which calls the library and runs NutBlast_Update;    *)
(* the websocket's thread, which runs onOpen, onMessage and onClosed; and  *)
(* the session at the other end.  The threads share the queues ws_in and   *)
(* ws_out and the flags permission_to_cook and time_to_die, each behind a  *)
(* lock of its own, so nothing they do is atomic beyond one lock.          *)
(***************************************************************************)
EXTENDS Protocol, Sequences

CONSTANTS
    Sizes,      \* lobby sizes the game asks for, 0 for the default
    Names,      \* field names and values the players use, from Text
    Values,
    Gids,       \* game ids, and descriptions or candidates of a P2P connection
    Sdps,
    MaxConns,   \* bound: connections the game opens
    MaxQueue    \* bound: nobody but the last message adds to a queue this long

ASSUME ClientAssumption ==
    Sizes \subseteq Nat /\ Names \cup Values \cup Gids \cup Sdps \subseteq Text
    /\ {MaxConns, MaxQueue} \subseteq Nat

VARIABLES
    pc,         \* the game's thread: "game", "update", "reset", "clear" or "farewell"
    lib,        \* the globals that the API, the handlers and onOpen read
    ws_in, ws_out,
    inbox,      \* the copy of ws_in that NutBlast_Update is handling
    websocket,  \* "none", "connecting", "open", "closing" or "closed"
    entered,    \* onOpen has run
    conn,       \* how many connections there have been; also the pid of the last
    early,      \* something was sent on this connection before onOpen ran
    up, down,   \* what the websocket carries
    srv         \* the session: where it stands, its pid, why it ended

app == <<pc, lib, inbox, early>>
net == <<websocket, entered, up, down, srv, conn>>
queues == <<ws_in, inbox, ws_out>>
clientvars == <<app, net, ws_in, ws_out>>

Nothing == << >>                             \* empty metadata
Absent == [len |-> 0, chars |-> "plain"]     \* no value
Msg(type) == [type |-> type, capacity |-> 0, meta |-> Nothing,
              text |-> Absent, pid |-> 0]
NoSession == [state |-> "none", pid |-> 0, fault |-> "none", bad |-> Msg("none"), lost |-> FALSE]
Put(meta, k, v) == [x \in DOMAIN meta \cup {k} |-> IF x = k THEN v ELSE meta[x]]

-----------------------------------------------------------------------------
(* Sending *)

\* send: what is queued goes out together with m once the websocket is open.  An
\* exception sets time_to_die, as the onClosed of the broken websocket does.
Send(m) ==
    IF websocket = "open"
    THEN up' = up \o Append(ws_out, m) /\ ws_out' = << >>
    ELSE ws_out' = Append(ws_out, m) /\ UNCHANGED up

Room == Len(ws_out) < MaxQueue /\ Len(up) < MaxQueue

\* A message of the game or of Update, as opposed to the one onOpen sends.
Utter(m) ==
    /\ Send(m)
    /\ early' = (early \/ (websocket # "none" /\ ~entered))
    /\ UNCHANGED <<websocket, entered, down, srv, conn, ws_in, inbox>>

-----------------------------------------------------------------------------
(* The game's thread: calls of the game, which may also come from its          *)
(* on_disconnected                                                             *)

Calls == pc \in {"game", "farewell"}

\* Mutant of join: ws_out is left as the last connection left it.
join_keeping_ws_out(mode, max) ==
    /\ websocket = "none" /\ conn < MaxConns
    /\ lib' = [lib EXCEPT !.mode = mode, !.max_players = max, !.our_pid = 0,
                          !.permission_to_cook = FALSE]
    /\ ws_in' = << >>
    /\ websocket' = "connecting" /\ entered' = FALSE
    /\ conn' = conn + 1 /\ early' = FALSE
    /\ srv' = NoSession
    /\ UNCHANGED <<pc, inbox, up, down, ws_out>>

\* join: time_to_die is not among what a new connection clears.
join(mode, max) ==
    /\ websocket = "none" /\ conn < MaxConns
    /\ lib' = [lib EXCEPT !.mode = mode, !.max_players = max, !.our_pid = 0,
                          !.permission_to_cook = FALSE]
    /\ ws_in' = << >> /\ ws_out' = << >>
    /\ websocket' = "connecting" /\ entered' = FALSE
    /\ conn' = conn + 1 /\ early' = FALSE
    /\ srv' = NoSession
    /\ UNCHANGED <<pc, inbox, up, down>>

Host(max) ==
    /\ Calls /\ may_host(max)
    /\ join("Host", host_capacity(max))
Join == Calls /\ join("Join", lib.max_players)
FindLobbies == Calls /\ join("List", lib.max_players)

SetMaxPlayers(max) ==
    /\ Calls /\ Room /\ may_resize(max)
    /\ lib' = [lib EXCEPT !.max_players = max]
    /\ Utter([Msg("SetCapacity") EXCEPT !.capacity = max])
    /\ UNCHANGED pc

\* Before it has arrived a client is its own master: both ids are 0.
SetLobbyField(k, v) ==
    /\ Calls /\ Room
    /\ check_field(k, v) /\ may_set(lib.lobby_meta, k)
    /\ lib' = [lib EXCEPT !.lobby_meta = Put(@, k, v)]
    /\ Utter([Msg("SetLobbyMeta") EXCEPT !.meta = Put(Nothing, k, v)])
    /\ UNCHANGED pc
UnsetLobbyField(k) ==
    /\ Calls /\ Room
    /\ check_field(k, Absent)
    /\ lib' = [lib EXCEPT !.lobby_meta = [x \in DOMAIN @ \ {k} |-> @[x]]]
    /\ Utter([Msg("EraseLobbyMeta") EXCEPT !.meta = Put(Nothing, k, Absent)])
    /\ UNCHANGED pc
PurgeMetadata ==
    /\ Calls /\ DOMAIN lib.lobby_meta # {}
    /\ lib' = [lib EXCEPT !.lobby_meta = Nothing]
    /\ UNCHANGED <<pc, early, net, queues>>

\* Neither the length nor the characters are checked here.
SetGameID(gid) ==
    /\ Calls /\ gid # lib.our_gid
    /\ lib' = [lib EXCEPT !.our_gid = gid]
    /\ UNCHANGED <<pc, early, net, queues>>

\* SetListed, Kick, SetMaster and the like: a message and no copy of our own.
Request ==
    /\ Calls /\ Room
    /\ Utter(Msg("Request"))
    /\ UNCHANGED <<pc, lib>>

-----------------------------------------------------------------------------
(* NutBlast_Disconnect *)

\* Mutant of BeginDisconnect: the pid stays valid until the end.
BeginDisconnectKeepingPid ==
    /\ lib' = [lib EXCEPT !.time_to_die = FALSE]
    /\ pc' = "reset"

\* The flags fall first, while the websocket's thread still has its callbacks.
BeginDisconnect ==
    /\ lib' = [lib EXCEPT !.time_to_die = FALSE, !.permission_to_cook = FALSE]
    /\ pc' = "reset"

Disconnect ==
    /\ pc = "game"
    /\ BeginDisconnect
    /\ UNCHANGED <<early, net, queues>>

\* The callbacks and the websocket go, and the queues are emptied.
Silence ==
    /\ pc = "reset" /\ pc' = "clear"
    /\ websocket' = "none" /\ entered' = FALSE
    /\ ws_in' = << >> /\ ws_out' = << >> /\ up' = << >> /\ down' = << >>
    /\ srv' = NoSession
    /\ UNCHANGED <<lib, inbox, early, conn>>

\* The players and their P2P connections go, and the game is told.
ClearPlayers ==
    /\ pc = "clear" /\ pc' = "farewell"
    /\ UNCHANGED <<lib, early, net, queues>>

\* The rest of the state goes after on_disconnected has returned.
Forget ==
    /\ pc = "farewell" /\ pc' = "game"
    /\ lib' = [lib EXCEPT !.max_players = 0, !.our_pid = 0]
    /\ UNCHANGED <<early, net, queues>>

-----------------------------------------------------------------------------
(* NutBlast_Update *)

Handle(l, m) ==
    CASE m.type = "Connected" -> [l EXCEPT !.our_pid = m.pid, !.permission_to_cook = TRUE]
      [] m.type = "Disconnected" -> [l EXCEPT !.time_to_die = TRUE]
      [] m.type = "SetCapacity" -> [l EXCEPT !.max_players = m.capacity]
      [] m.type = "SetLobbyMeta" -> [l EXCEPT !.lobby_meta =
             [k \in DOMAIN @ \cup DOMAIN m.meta |->
                 IF k \in DOMAIN m.meta THEN m.meta[k] ELSE @[k]]]
      [] OTHER -> l                                     \* Pong, List

\* copy_and_clear: what comes from here on is for the next Update.
UpdateBegins ==
    /\ pc = "game" /\ pc' = "update"
    /\ inbox' = ws_in /\ ws_in' = << >>
    /\ UNCHANGED <<lib, early, net, ws_out>>

\* One message after the other, while the websocket's thread runs on; a compiler
\* that holds the lock of ws_in all through the loop makes its onMessage wait.
HandleMessage ==
    /\ pc = "update" /\ inbox # << >>
    /\ lib' = Handle(lib, Head(inbox)) /\ inbox' = Tail(inbox)
    /\ UNCHANGED <<pc, early, net, ws_in, ws_out>>

UpdateDies ==
    /\ pc = "update" /\ inbox = << >> /\ lib.time_to_die
    /\ BeginDisconnect
    /\ UNCHANGED <<early, net, queues>>

\* No P2P connection to some player after all attempts (module Peering).
UpdateLeaves ==
    /\ pc = "update" /\ inbox = << >> /\ ~lib.time_to_die /\ lib.permission_to_cook
    /\ BeginDisconnect
    /\ Utter(Msg("Leave"))

\* NutBlast_Flush, in a second with a Ping and in one without.
UpdateFlushes ==
    /\ pc = "update" /\ inbox = << >> /\ ~lib.time_to_die /\ pc' = "game"
    /\ \/ websocket = "open" /\ lib.mode # "List" /\ Room /\ Utter(Msg("Ping"))
       \/ UNCHANGED <<early, net, queues>>
    /\ UNCHANGED lib

-----------------------------------------------------------------------------
(* The websocket's thread (libdatachannel runs the library's callbacks) *)

\* isOpen() is true from here on, a little before onOpen runs.
Opens ==
    /\ websocket = "connecting" /\ websocket' = "open"
    /\ srv' = [srv EXCEPT !.state = "serving"]
    /\ UNCHANGED <<app, entered, up, down, conn, ws_in, ws_out>>

Entry ==
    IF lib.mode = "Host"
    THEN [Msg("Host") EXCEPT !.capacity = lib.max_players, !.meta = lib.lobby_meta,
                             !.text = lib.our_gid]
    ELSE [Msg(lib.mode) EXCEPT !.text = lib.our_gid]
onOpen ==
    /\ websocket = "open" /\ ~entered /\ entered' = TRUE
    /\ Send(Entry)
    /\ UNCHANGED <<app, websocket, down, srv, conn, ws_in>>

\* onLocalDescription and onLocalCandidate of a P2P connection (module Peering), on
\* a thread of libdatachannel's: as long as there are players, which come after
\* Connected, even when NutBlast_Disconnect has emptied ws_out already.
onLocal(sdp) ==
    /\ lib.our_pid # 0 /\ pc # "farewell" /\ Room
    /\ \E type \in {"PassOffer", "PassCandidate"} :
          Utter([Msg(type) EXCEPT !.text = sdp])
    /\ UNCHANGED <<pc, lib>>

onMessage ==
    /\ websocket = "open" /\ entered /\ down # << >> /\ Len(ws_in) < MaxQueue
    /\ ws_in' = Append(ws_in, Head(down)) /\ down' = Tail(down)
    /\ UNCHANGED <<app, websocket, entered, up, srv, conn, ws_out>>

\* The server could not be reached, has hung up, or the connection broke.
Closes ==
    /\ \/ websocket = "connecting"
       \/ websocket = "open" /\ entered
    /\ websocket' = "closing" /\ up' = << >> /\ down' = << >>
    /\ srv' = [srv EXCEPT !.state = "ended"]
    /\ UNCHANGED <<app, entered, conn, ws_in, ws_out>>

\* Mutant of onClosed: the flag is not raised.
onClosed_silent ==
    /\ websocket = "closing" /\ websocket' = "closed"
    /\ UNCHANGED <<app, entered, up, down, srv, conn, ws_in, ws_out>>

onClosed ==
    /\ websocket = "closing" /\ websocket' = "closed"
    /\ lib' = [lib EXCEPT !.time_to_die = TRUE]
    /\ UNCHANGED <<pc, early, entered, up, down, srv, conn, queues>>

-----------------------------------------------------------------------------
(* The session (server/src/session.rs; module Server has all of them).  An     *)
(* event loop that restarts answers nothing.                                   *)

Entries == {"Host", "Join", "List"}
Requests == {"Request", "SetCapacity", "SetLobbyMeta", "EraseLobbyMeta", "PassOffer", "PassCandidate"}

parses(m) ==
    /\ m.type \in {"Host", "SetCapacity"} => validate_capacity(m.capacity)
    /\ m.type \in Entries => validate_gid(m.text)
    /\ m.type = "PassOffer" => validate_sdp(m.text)
    /\ m.type = "PassCandidate" => validate_candidate(m.text)
    /\ deserialize_metadata(m.meta)

\* It stops, with a last message or without one.
End(fault, bad, last) ==
    /\ srv' = [srv EXCEPT !.state = "ended", !.fault = fault, !.bad = bad]
    /\ down' = down \o last

Goodbye == <<Msg("Disconnected")>>

\* Host and Join: welcome, refused, or never answered.
Admit ==
    \/ /\ srv' = [srv EXCEPT !.pid = conn]
       /\ down' = Append(down, [Msg("Connected") EXCEPT !.pid = conn])
    \/ End("refused", Msg("none"), Goodbye)
    \/ srv' = [srv EXCEPT !.lost = TRUE] /\ UNCHANGED down

Serve ==
    /\ srv.state = "serving" /\ Len(down) < MaxQueue
    /\ up # << >> /\ up' = Tail(up)
    /\ LET m == Head(up)
           new == srv.pid = 0
       IN  \/ ~parses(m) /\ End("bad_json", m, Goodbye)
           \/ parses(m) /\ m.type \in {"Host", "Join"} /\ new /\ Admit
           \/ parses(m) /\ m.type = "List" /\ new
              /\ \E last \in {<<Msg("List")>>, Goodbye, << >>} : End("listed", Msg("none"), last)
           \/ m.type = "Leave" /\ new /\ UNCHANGED <<srv, down>>
           \/ m.type = "Leave" /\ ~new /\ End("left", Msg("none"), Goodbye)
           \/ m.type = "Ping" /\ ~new /\ down' \in {Append(down, Msg("Pong")), down} /\ UNCHANGED srv
           \/ parses(m) /\ m.type \in Requests /\ ~new /\ UNCHANGED <<srv, down>>
           \/ /\ parses(m)
              /\ m.type \in (IF new THEN Requests \cup {"Ping"} ELSE Entries)
              /\ End("bad_payload", Msg("none"), Goodbye)
    /\ UNCHANGED <<app, websocket, entered, conn, ws_in, ws_out>>

\* Budgets, kicks and the pruning of lobbies end a session at any time.
ServerKicks ==
    /\ srv.state = "serving" /\ (srv.pid # 0 \/ up # << >>)
    /\ End("kicked", Msg("none"), Goodbye)
    /\ UNCHANGED <<app, websocket, entered, conn, up, ws_in, ws_out>>

\* The IDLE_TIMEOUT of a session that is nobody's.
Idle ==
    /\ srv.state = "serving" /\ srv.pid = 0 /\ up = << >>
    /\ End("idle", Msg("none"), << >>)
    /\ UNCHANGED <<app, websocket, entered, conn, up, ws_in, ws_out>>

\* The master of the lobby changes it.
Tell(m) ==
    /\ srv.state = "serving" /\ srv.pid # 0 /\ Len(down) < MaxQueue
    /\ parses(m)
    /\ down' = Append(down, m)
    /\ UNCHANGED <<app, websocket, entered, conn, up, srv, ws_in, ws_out>>

-----------------------------------------------------------------------------

ClientInit ==
    /\ pc = "game"
    /\ lib \in [mode : {"Join"}, max_players : {0}, our_pid : {0}, our_gid : Gids,
               lobby_meta : {Nothing}, permission_to_cook : {FALSE}, time_to_die : {FALSE}]
    /\ ws_in = << >> /\ inbox = << >> /\ ws_out = << >>
    /\ websocket = "none" /\ entered = FALSE /\ conn = 0 /\ early = FALSE
    /\ up = << >> /\ down = << >>
    /\ srv = NoSession

Game ==
    \/ \E max \in Sizes : Host(max) \/ SetMaxPlayers(max)
    \/ Join \/ FindLobbies \/ Request \/ PurgeMetadata \/ Disconnect
    \/ \E k \in Names, v \in Values : SetLobbyField(k, v)
    \/ \E k \in Names : UnsetLobbyField(k)
    \/ \E gid \in Gids : SetGameID(gid)

Session ==
    \/ Serve \/ ServerKicks \/ Idle
    \/ \E c \in Sizes : Tell([Msg("SetCapacity") EXCEPT !.capacity = c])
    \/ \E k \in Names, v \in Values : Tell([Msg("SetLobbyMeta") EXCEPT !.meta = Put(Nothing, k, v)])

ClientNext ==
    \/ Game \/ Session
    \/ Silence \/ ClearPlayers \/ Forget
    \/ UpdateBegins \/ HandleMessage \/ UpdateDies \/ UpdateLeaves \/ UpdateFlushes
    \/ \E sdp \in Sdps : onLocal(sdp)
    \/ Opens \/ onOpen \/ onMessage \/ Closes \/ onClosed

ClientSpec == ClientInit /\ [][ClientNext]_clientvars

\* A frame after a frame the game calls Update, and every call returns; the
\* websocket's thread runs, a connection is made or fails in the end, and the
\* session reads what it is sent and looks at its clock.
FairClientSpec ==
    /\ ClientSpec
    /\ WF_clientvars(UpdateBegins) /\ WF_clientvars(HandleMessage)
    /\ WF_clientvars(UpdateDies) /\ WF_clientvars(UpdateFlushes)
    /\ WF_clientvars(Silence) /\ WF_clientvars(ClearPlayers) /\ WF_clientvars(Forget)
    /\ WF_clientvars(Opens) /\ WF_clientvars(onOpen) /\ WF_clientvars(onMessage)
    /\ WF_clientvars(srv.state = "ended" /\ Closes) /\ WF_clientvars(onClosed)
    /\ WF_clientvars(Serve) /\ WF_clientvars(Idle)

-----------------------------------------------------------------------------
(* Properties *)

\* NutBlast_GetPlayerID, which is our_pid while permission_to_cook is set, is 0 or
\* the id that the server gave to this very connection, whatever the websocket's
\* thread left behind from the one before.
Identity ==
    lib.permission_to_cook =>
        /\ websocket # "none"
        /\ lib.our_pid = conn
        /\ srv.pid = conn

\* The server answers bad_payload only to what was sent before onOpen announced the
\* client: calls of the game while it connects, or a Ping that Update slipped in.
\* Or the event loop restarted and lost the announcement.  Nothing queued for an
\* earlier connection, and nothing said after arriving, is.
RefusedOnlyIfEarly ==
    srv.fault = "bad_payload" => (early \/ srv.lost) /\ ~lib.permission_to_cook

\* What leaves the library and the server does not take, see below.
Excused(m) ==
    \/ m.type \in {"Host", "SetCapacity"} /\ m.capacity \in {0, MAX_PLAYERS}
    \/ m.type \in Entries /\ ~validate_gid(m.text)
    \/ m.type = "PassOffer" /\ m.text.len > SDP_MAX
    \/ m.type = "PassCandidate" /\ m.text.len > CANDIDATE_MAX
    \/ \E k \in DOMAIN m.meta : k.chars = "control"
    \/ m.type = "Host" /\ Cardinality(DOMAIN m.meta) > MAX_FIELDS

\* The server takes all that passes the library's own checks for well-formed but
\* for these: a lobby of exactly MAX_PLAYERS; the size 0, when on_disconnected
\* hosted and the rest of NutBlast_Disconnect then cleared it; a game id, a
\* description or a candidate the library never looked at; a field name with
\* control characters; and more lobby fields than allowed, some of which were
\* other lobbies' and stayed.
MalformedOnlyIf == srv.fault = "bad_json" => Excused(srv.bad)

\* Every attempt to connect comes to something: the client arrives or is told in
\* on_disconnected that it did not.
AttemptsResolve ==
    websocket = "connecting" ~> lib.permission_to_cook \/ websocket = "none"

\* Whenever the session is over, for whatever reason and with or without a last
\* message, the library notices and gives the connection up.
EndingsReported == srv.state = "ended" ~> websocket = "none"

=============================================================================
