----------------------------- MODULE ViewProofs -----------------------------
(***************************************************************************)
(* That a Pong spares the members of the lobby, for any number of players, *)
(* channels of any size and any number of requests under way; and that the *)
(* client's tables, once it has handled all that is under way, are those   *)
(* of the registry as long as its channel has room.                        *)
(***************************************************************************)
EXTENDS View, BlasterProofs, WellFoundedInduction

\* The client's channel is watched for every message and has room for a welcome
\* behind a backlog: nothing sent to it is lost.
Roomy ==
    /\ Me \in Watched
    /\ {"SetListed", "SetCapacity", "SetLobbyMeta", "EraseLobbyMeta", "Connected", "Joined",
        "Left", "SetMaster", "SetPlayerMeta", "ErasePlayerMeta", "Disconnected"} \subseteq Observed
    /\ \A c \in Capacity \cup {0} :
          /\ \A n \in Slots : n >= 4 + MAX_FIELDS + c
          /\ QUEUE_CAP >= MaxBacklog + 4 + MAX_FIELDS + c

\* What a client may have asked for.
Requests ==
    [type : {"SetCapacity"}, capacity : Capacity]
    \cup [type : {"SetLobbyMeta"}, key : Key, value : Value]
    \cup [type : {"EraseLobbyMeta"}, key : Key]

\* The client's tables; which fields they have is all that matters here.
ViewFields == {"pid", "listed", "capacity", "meta", "players", "master"}

ViewTypes ==
    /\ DOMAIN view = ViewFields
    /\ link \in [state : {"loop", "pinging", "answered", "off"}, pong : SUBSET Pid]
    /\ requests \in Seq(Requests)
    /\ used \in SUBSET Pid

\* Ids are drawn once: whoever is registered, has a channel, is announced in one
\* or is in the client's table has drawn an id before.
UsedOK ==
    /\ DOMAIN players \subseteq used /\ DOMAIN outbox \subseteq used
    /\ \A p \in DOMAIN outbox : outbox[p] \in Seq(Naming(used))
    /\ DOMAIN view.players \subseteq used

\* An answer that waits for the client names every member of the lobby that the
\* client knows: those who came since are announced behind it, and those who
\* left never come back.
PongOK ==
    /\ link.state \in {"pinging", "answered"} => Me \in used
    /\ link.state = "answered" =>
          \A q \in DOMAIN view.players \ link.pong : q \notin AssemblePong(Me)

VInv == IInv /\ ViewTypes /\ UsedOK /\ PongOK

-----------------------------------------------------------------------------
(* What the channels announce *)

\* Every channel holds only announcements of players in U.
Announce(U, box) == \A p \in DOMAIN box : box[p] \in Seq(Naming(U))

LEMMA SendNames ==
    ASSUME NEW U, NEW msg \in Naming(U)
    PROVE  /\ \A pid : \A p \in Pid : send(pid, msg)[p] \in Seq(Naming(U))
           /\ \A lobby : \A p \in Pid : send_to_lobby(lobby, msg)[p] \in Seq(Naming(U))
<1>1. Emit(msg) \in Seq(Naming(U)) /\ << >> \in Seq(Naming(U))
    BY EmitNaming, EmptySeq
<1> QED
    BY <1>1 DEF send, send_to_lobby

LEMMA TrySendNames ==
    ASSUME IInv, NEW U, Announce(U, outbox), NEW sent,
           \A p \in Pid : sent[p] \in Seq(Naming(U)), try_send(outbox, sent)
    PROVE  Announce(U, outbox') /\ DOMAIN outbox' = DOMAIN outbox
<1>1. BoxOK(outbox) /\ \A p \in DOMAIN outbox : outbox[p] \in Seq(Naming(U))
    BY DEF IInv, Announce
<1>2. /\ DOMAIN outbox' = DOMAIN outbox
      /\ \A p \in DOMAIN outbox : outbox'[p] \in Seq(Naming(U))
    BY <1>1, TrySendKeeps
<1> QED
    BY <1>2 DEF Announce

\* A step that brings in nobody: its messages announce nobody new.
Quiet(U) ==
    /\ DOMAIN players' \subseteq DOMAIN players /\ DOMAIN outbox' \subseteq DOMAIN outbox
    /\ Announce(U, outbox')

LEMMA StutterNames ==
    ASSUME NEW U, Announce(U, outbox), UNCHANGED vars
    PROVE  Quiet(U)
BY DEF Quiet, Announce, vars

LEMMA NotifyNames ==
    ASSUME IInv, NEW U, Announce(U, outbox), NEW pid, NEW msg \in Naming(U),
           Notify(pid, msg)
    PROVE  Quiet(U)
<1>1. try_send(outbox, send(pid, msg)) /\ players' = players
    BY DEF Notify
<1>2. \A p \in Pid : send(pid, msg)[p] \in Seq(Naming(U))
    BY SendNames
<1> QED
    BY <1>1, <1>2, TrySendNames DEF Quiet

LEMMA BootNames ==
    ASSUME IInv, NEW U, Announce(U, outbox), NEW pid, boot(pid)
    PROVE  Quiet(U)
<1>1. Disconnected("Violation") \in Naming(U)
    BY MessageTypes, NamingTypes DEF Disconnected, Reason
<1> QED
    BY <1>1, NotifyNames DEF boot

LEMMA UpdateLobbyNames ==
    ASSUME IInv, NEW U, Announce(U, outbox), NEW pid, NEW lobby, NEW msg \in Naming(U),
           UpdateLobby(pid, lobby, msg)
    PROVE  Quiet(U)
<1>1. try_send(outbox, send_to_lobby(lobby, msg)) /\ players' = players
    BY DEF UpdateLobby
<1>2. \A p \in Pid : send_to_lobby(lobby, msg)[p] \in Seq(Naming(U))
    BY SendNames
<1> QED
    BY <1>1, <1>2, TrySendNames DEF Quiet

LEMMA UpdatePlayerNames ==
    ASSUME IInv, NEW U, Announce(U, outbox), NEW pid, NEW metadata, NEW msg \in Naming(U),
           UpdatePlayer(pid, metadata, msg)
    PROVE  Quiet(U)
<1>1. DOMAIN players' = DOMAIN players
    BY DEF UpdatePlayer
<1>2. CASE InLobby(pid)
  <2>1. try_send(outbox, send_to_lobby(LobbyOf(pid), msg))
      BY <1>2 DEF UpdatePlayer
  <2>2. \A p \in Pid : send_to_lobby(LobbyOf(pid), msg)[p] \in Seq(Naming(U))
      BY SendNames
  <2> QED
      BY <1>1, <2>1, <2>2, TrySendNames DEF Quiet
<1>3. CASE ~InLobby(pid)
    BY <1>1, <1>3 DEF UpdatePlayer, Quiet, Announce
<1> QED
    BY <1>2, <1>3

\* What masters and members do announces nobody.
LEMMA SetterNames ==
    ASSUME IInv, NEW U, Announce(U, outbox), NEW p \in Pid
    PROVE  /\ \A c \in Capacity : SetCapacity(p, c) => Quiet(U)
           /\ \A b \in BOOLEAN : SetListed(p, b) => Quiet(U)
           /\ \A q \in Pid : SetMaster(p, q) \/ KickPlayer(p, q) => Quiet(U)
           /\ \A k \in Key, v \in Value : SetLobbyMeta(p, k, v) => Quiet(U)
           /\ \A k \in Key : EraseLobbyMeta(p, k) => Quiet(U)
           /\ \A k \in Key, v \in Value : SetPlayerMeta(p, k, v) => Quiet(U)
           /\ \A k \in Key : ErasePlayerMeta(p, k) => Quiet(U)
<1>1. ASSUME NEW c \in Capacity, SetCapacity(p, c) PROVE Quiet(U)
  <2>1. [type |-> "SetCapacity", capacity |-> c] \in Naming(U)
      BY MessageTypes, NamingTypes
  <2> QED
      BY <1>1, <2>1, StutterNames, BootNames, UpdateLobbyNames DEF SetCapacity
<1>2. ASSUME NEW b \in BOOLEAN, SetListed(p, b) PROVE Quiet(U)
  <2>1. [type |-> "SetListed", listed |-> b] \in Naming(U)
      BY MessageTypes, NamingTypes
  <2> QED
      BY <1>2, <2>1, StutterNames, BootNames, UpdateLobbyNames DEF SetListed
<1>3. ASSUME NEW q \in Pid, SetMaster(p, q) \/ KickPlayer(p, q) PROVE Quiet(U)
  <2>1. [type |-> "SetMaster", pid |-> q] \in Naming(U) /\ Disconnected("Natural") \in Naming(U)
      BY MessageTypes, NamingTypes DEF Disconnected, Reason
  <2>2. CASE SetMaster(p, q)
      BY <2>1, <2>2, StutterNames, BootNames, UpdateLobbyNames DEF SetMaster
  <2>3. CASE KickPlayer(p, q)
      BY <2>1, <2>3, StutterNames, NotifyNames DEF KickPlayer
  <2> QED
      BY <1>3, <2>2, <2>3
<1>4. ASSUME NEW k \in Key, NEW v \in Value, SetLobbyMeta(p, k, v) PROVE Quiet(U)
  <2>1. [type |-> "SetLobbyMeta", key |-> k, value |-> v] \in Naming(U)
      BY MessageTypes, NamingTypes
  <2> QED
      BY <1>4, <2>1, StutterNames, BootNames, UpdateLobbyNames DEF SetLobbyMeta
<1>5. ASSUME NEW k \in Key, EraseLobbyMeta(p, k) PROVE Quiet(U)
  <2>1. [type |-> "EraseLobbyMeta", key |-> k] \in Naming(U)
      BY MessageTypes, NamingTypes
  <2> QED
      BY <1>5, <2>1, StutterNames, UpdateLobbyNames DEF EraseLobbyMeta
<1>6. ASSUME NEW k \in Key, NEW v \in Value, SetPlayerMeta(p, k, v) PROVE Quiet(U)
  <2>1. [type |-> "SetPlayerMeta", pid |-> p, key |-> k, value |-> v] \in Naming(U)
      BY MessageTypes, NamingTypes
  <2> QED
      BY <1>6, <2>1, StutterNames, BootNames, UpdatePlayerNames DEF SetPlayerMeta
<1>7. ASSUME NEW k \in Key, ErasePlayerMeta(p, k) PROVE Quiet(U)
  <2>1. [type |-> "ErasePlayerMeta", pid |-> p, key |-> k] \in Naming(U)
      BY MessageTypes, NamingTypes
  <2> QED
      BY <1>7, <2>1, StutterNames, UpdatePlayerNames DEF ErasePlayerMeta
<1> QED
    BY <1>1, <1>2, <1>3, <1>4, <1>5, <1>6, <1>7

LEMMA RemoveNames ==
    ASSUME IInv, NEW U, Announce(U, outbox), NEW p \in Pid, RemovePlayer(p, "Natural")
    PROVE  Quiet(U)
<1>1. CASE UNCHANGED vars
    BY <1>1, StutterNames
<1>2. CASE ~UNCHANGED vars
  <2> DEFINE lobby == LobbyOf(p)
             rest  == [lobby EXCEPT !.players = Remaining(lobby, p),
                           !.idle_since = IdleAfter(lobby, Remaining(lobby, p))]
             bye   == send(p, Disconnected("Natural"))
             left  == [type |-> "Left", pid |-> p, reason |-> "Natural"]
             all(new) == Then(bye, Then(send_to_lobby(rest, left),
                             send_to_lobby(rest, [type |-> "SetMaster", pid |-> new])))
  <2>1. DOMAIN players' \subseteq DOMAIN players
      BY <1>2 DEF RemovePlayer, Without
  <2>2. p \in DOMAIN players /\ lobby \in Lobby
      BY <1>2 DEF IInv, TablesOK, Membership, InLobby, LobbyOf, RemovePlayer
  <2>3. Disconnected("Natural") \in Naming(U) /\ left \in Naming(U)
      BY MessageTypes, NamingTypes DEF Disconnected, Reason
  <2>4. \A q \in Pid : bye[q] \in Seq(Naming(U)) /\ send_to_lobby(rest, left)[q] \in Seq(Naming(U))
      BY <2>3, SendNames
  <2>5. \/ try_send(outbox, bye)
        \/ \E new \in Heirs(lobby, p) : try_send(outbox, all(new))
      BY <1>2 DEF RemovePlayer, LobbyOf
  <2> HIDE DEF bye, rest
  <2>6. CASE try_send(outbox, bye)
      BY <2>1, <2>4, <2>6, TrySendNames DEF Quiet
  <2>7. ASSUME NEW new \in Heirs(lobby, p), try_send(outbox, all(new))
        PROVE  Quiet(U)
    <3>1. new \in Pid
        BY <2>2 DEF Heirs, Remaining, Lobby
    <3>2. [type |-> "SetMaster", pid |-> new] \in Naming(U)
        BY <3>1, MessageTypes, NamingTypes
    <3> DEFINE msg == [type |-> "SetMaster", pid |-> new]
    <3>3. \A q \in Pid : send_to_lobby(rest, msg)[q] \in Seq(Naming(U))
        BY <3>2, SendNames
    <3>4. \A s, t \in Seq(Naming(U)) : s \o t \in Seq(Naming(U))
        BY ConcatProperties
    <3> HIDE DEF msg, left
    <3>5. \A q \in Pid : Then(send_to_lobby(rest, left), send_to_lobby(rest, msg))[q]
                            \in Seq(Naming(U))
        BY <2>4, <3>3, <3>4 DEF Then
    <3> DEFINE more == Then(send_to_lobby(rest, left), send_to_lobby(rest, msg))
    <3>6. \A q \in Pid : more[q] \in Seq(Naming(U))
        BY <3>5
    <3> HIDE DEF more
    <3>7. \A q \in Pid : Then(bye, more)[q] \in Seq(Naming(U))
        BY <2>4, <3>4, <3>6 DEF Then
    <3>8. try_send(outbox, Then(bye, more))
        BY <2>7 DEF more, msg
    <3> QED
        BY <2>1, <3>7, <3>8, TrySendNames DEF Quiet
  <2> QED
      BY <2>5, <2>6, <2>7
<1> QED
    BY <1>1, <1>2

LEMMA PruneNames ==
    ASSUME IInv, NEW U, Announce(U, outbox), Prune \/ EventLoopReset
    PROVE  Quiet(U)
<1>1. CASE EventLoopReset
    BY <1>1 DEF EventLoopReset, Quiet, Announce
<1>2. CASE Prune
  <2> DEFINE sent == [p \in Pid |-> IF p \in DOMAIN players
                            /\ \E l \in DOMAIN lobbies : Chud(l) /\ p \in lobbies[l].players
                         THEN Emit(Disconnected("Natural")) ELSE << >>]
  <2>1. Disconnected("Natural") \in Naming(U)
      BY MessageTypes, NamingTypes DEF Disconnected, Reason
  <2>2. Emit(Disconnected("Natural")) \in Seq(Naming(U)) /\ << >> \in Seq(Naming(U))
      BY <2>1, EmitNaming, EmptySeq
  <2>3. \A p \in Pid : sent[p] \in Seq(Naming(U))
      BY <2>2
  <2>4. try_send(outbox, sent) /\ players' = players
      BY <1>2 DEF Prune
  <2> HIDE DEF sent
  <2> QED
      BY <2>3, <2>4, TrySendNames DEF Quiet
<1> QED
    BY <1>1, <1>2

\* The session reads its channel, or drops it.
LEMMA ChannelNames ==
    ASSUME IInv, NEW U, Announce(U, outbox), Receive(Me) \/ Hangup(Me)
    PROVE  Quiet(U)
<1>1. CASE Receive(Me)
  <2>1. /\ Me \in DOMAIN outbox /\ outbox[Me] \in Seq(Naming(U)) /\ outbox[Me] # << >>
        /\ outbox' = [outbox EXCEPT ![Me] = Tail(outbox[Me])] /\ players' = players
      BY <1>1 DEF Receive, Announce
  <2>2. Tail(outbox[Me]) \in Seq(Naming(U))
      BY <2>1
  <2> QED
      BY <2>1, <2>2 DEF Quiet, Announce
<1>2. CASE Hangup(Me)
    BY <1>2 DEF Hangup, Quiet, Announce, Without
<1> QED
    BY <1>1, <1>2

\* Whoever comes in is announced to the members, and they to the newcomer.
LEMMA InsertNames ==
    ASSUME IInv, NEW U, Announce(U, outbox), DOMAIN players \subseteq U,
           NEW pid \in Pid \cap U, NEW l \in LobbyId, NEW lobby \in Lobby,
           NEW metadata \in Metadata, insert_player(pid, l, lobby, metadata)
    PROVE  /\ DOMAIN players' = DOMAIN players \cup {pid}
           /\ DOMAIN outbox' = DOMAIN outbox \cup {pid}
           /\ Announce(U, outbox')
<1> DEFINE others == lobby.players \cap DOMAIN players
<1>1. PICK keys \in Orders(DOMAIN lobby.metadata), order \in Orders(others) :
              try_send(Put(outbox, pid, << >>),
                       [p \in Pid |-> IF p = pid THEN Welcome(pid, l, lobby, keys, order)
                                      ELSE IF p \in others
                                      THEN Emit(Joined(pid, metadata))
                                      ELSE << >>])
    BY DEF insert_player
<1> DEFINE sent == [p \in Pid |-> IF p = pid THEN Welcome(pid, l, lobby, keys, order)
                                  ELSE IF p \in others
                                  THEN Emit(Joined(pid, metadata))
                                  ELSE << >>]
           box == Put(outbox, pid, << >>)
<1>2. DOMAIN players' = DOMAIN players \cup {pid}
    BY DEF insert_player, Put
<1>3. BoxOK(box) /\ DOMAIN box = DOMAIN outbox \cup {pid}
    BY EmptySeq, CapsAssumption DEF IInv, BoxOK, Put
<1>4. \A p \in DOMAIN box : box[p] \in Seq(Naming(U))
    BY EmptySeq DEF Announce, Put
<1>5. Welcome(pid, l, lobby, keys, order) \in Seq(Naming(U))
    BY WelcomeNames DEF IInv
<1>6. Joined(pid, metadata) \in Naming(U)
    BY MessageTypes DEF Naming, Joined
<1>7. Emit(Joined(pid, metadata)) \in Seq(Naming(U)) /\ << >> \in Seq(Naming(U))
    BY <1>6, EmitNaming, EmptySeq
<1>8. \A p \in Pid : sent[p] \in Seq(Naming(U))
    BY <1>5, <1>7
<1>9. try_send(box, sent)
    BY <1>1
<1> HIDE DEF sent, box
<1>10. DOMAIN outbox' = DOMAIN box /\ \A p \in DOMAIN box : outbox'[p] \in Seq(Naming(U))
    BY <1>3, <1>4, <1>8, <1>9, TrySendKeeps
<1> QED
    BY <1>2, <1>3, <1>10 DEF Announce

LEMMA MoreNames ==
    ASSUME NEW U, NEW W, U \subseteq W, NEW box, Announce(U, box)
    PROVE  Announce(W, box)
<1>1. Naming(U) \subseteq Naming(W)
    BY DEF Naming
<1> QED
    BY <1>1 DEF Announce

\* Entering answers Ok(pid): that player is the only one who came.
Came(U, pid) ==
    /\ DOMAIN players' = DOMAIN players \cup {pid}
    /\ DOMAIN outbox' = DOMAIN outbox \cup {pid}
    /\ Announce(U \cup {pid}, outbox')

LEMMA HostNames ==
    ASSUME IInv, NEW U, Announce(U, outbox), DOMAIN players \subseteq U, NEW pid \in Pid,
           NEW ip \in Ip, NEW gid \in Gid, NEW m \in Metadata, NEW pm \in Metadata,
           NEW c \in Capacity, NEW listed \in BOOLEAN,
           HostLobby(ip, gid, m, c, listed, pm, Ok(pid))
    PROVE  Came(U, pid)
<1> DEFINE W == U \cup {pid}
           lobby == [players |-> {}, initiator |-> ip, master |-> pid,
                     metadata |-> m, capacity |-> c, listed |-> listed,
                     idle_since |-> 0]
<1>1. DOMAIN players \subseteq W /\ pid \in Pid \cap W /\ Announce(W, outbox)
    BY MoreNames
<1>2. PICK i \in FreshLid : insert_player(pid, [gid |-> gid, lid |-> i], lobby, pm)
  <2>1. Ok(pid) # Err("rate_limited") /\ \A q : Ok(pid) = Ok(q) => pid = q
      BY DEF Ok, Err
  <2> QED
      BY <2>1 DEF HostLobby
<1>3. [gid |-> gid, lid |-> i] \in LobbyId
    BY DEF FreshLid, LobbyId
<1>4. lobby \in Lobby
    BY CapsAssumption DEF Lobby
<1> HIDE DEF lobby, W
<1> QED
    BY <1>1, <1>2, <1>3, <1>4, InsertNames DEF W, Came

LEMMA JoinNames ==
    ASSUME IInv, NEW U, Announce(U, outbox), DOMAIN players \subseteq U, NEW pid \in Pid,
           NEW ip \in Ip, NEW l \in LobbyId, NEW pm \in Metadata,
           JoinLobby(ip, l, pm, Ok(pid))
    PROVE  Came(U, pid)
<1> DEFINE W == U \cup {pid}
<1>1. DOMAIN players \subseteq W /\ pid \in Pid \cap W /\ Announce(W, outbox)
    BY MoreNames
<1>2. l \in DOMAIN lobbies /\ insert_player(pid, l, lobbies[l], pm)
  <2>1. /\ Ok(pid) \notin {Err("rate_limited"), Err("lobby_not_found"), Err("lobby_full")}
        /\ \A q : Ok(pid) = Ok(q) => pid = q
      BY DEF Ok, Err
  <2> QED
      BY <2>1 DEF JoinLobby
<1>3. lobbies[l] \in Lobby
    BY <1>2 DEF IInv, TablesOK
<1> HIDE DEF W
<1> QED
    BY <1>1, <1>2, <1>3, InsertNames DEF W, Came

-----------------------------------------------------------------------------
(* The members of the client's lobby *)

\* No step moves a player to another lobby.
LEMMA LobbyStays ==
    ASSUME IInv, [Next]_vars
    PROVE  \A p \in DOMAIN players \cap DOMAIN players' : players'[p].lid = players[p].lid
<1>0. CASE EventLoopReset
    BY <1>0 DEF EventLoopReset
<1>1. CASE Same \/ \E pid \in Pid, l \in LobbyId, c \in Capacity : Hosted(pid, l, c)
    BY <1>1 DEF Same, Hosted
<1>2. CASE \E pid \in Pid, l \in LobbyId : Entered(pid, l) \/ Gone(pid, l)
    BY <1>2 DEF Entered, Gone
<1>3. CASE \/ \E l \in LobbyId, c \in Capacity : Resized(l, c)
           \/ \E l \in LobbyId, q \in Pid : Appointed(l, q)
    BY <1>3 DEF Resized, Appointed
<1> QED
    BY <1>0, <1>1, <1>2, <1>3, StepKinds

\* So the members of a lobby that was there are old members and newcomers.
LEMMA MembersStay ==
    ASSUME IInv, [Next]_vars, Me \in DOMAIN players' => Me \in DOMAIN players,
           NEW q, q \in AssemblePong(Me)', q \in DOMAIN players' => q \in DOMAIN players
    PROVE  q \in AssemblePong(Me)
<1>1. Membership /\ Membership'
    BY NextStep DEF IInv
<1>2. Me \in DOMAIN players' /\ q \in DOMAIN players' /\ players'[q].lid = players'[Me].lid
    BY <1>1 DEF AssemblePong, InLobby, LobbyOf, Membership
<1>3. players[q].lid = players[Me].lid
    BY <1>2, LobbyStays
<1>4. InLobby(Me) /\ q \in LobbyOf(q).players /\ LobbyOf(q) = LobbyOf(Me)
    BY <1>1, <1>2, <1>3 DEF Membership, InLobby, LobbyOf
<1> QED
    BY <1>4 DEF AssemblePong

-----------------------------------------------------------------------------
(* The client's tables *)

LEMMA ResetNames ==
    ASSUME NEW v, DOMAIN v = ViewFields
    PROVE  DOMAIN Reset(v) = ViewFields /\ DOMAIN Reset(v).players = {}
<1>1. DOMAIN Reset(v) = DOMAIN v /\ Reset(v).players = << >>
    BY DEF Reset, ViewFields
<1> QED
    BY <1>1

\* What handling a message, or a Pong, does to the table of players.
LEMMA HandleNames ==
    ASSUME NEW U, NEW v, DOMAIN v = ViewFields, DOMAIN v.players \subseteq U,
           NEW m \in Naming(U)
    PROVE  /\ DOMAIN Handle(v, m) = ViewFields
           /\ DOMAIN Handle(v, m).players \subseteq U
<1>1. CASE m.type = "Connected"
    BY <1>1 DEF Handle, GotConnected, ViewFields
<1>2. CASE m.type = "Disconnected"
  <2>1. Handle(v, m) = Reset(v)
      BY <1>2 DEF Handle
  <2> QED
      BY <2>1, ResetNames
<1>3. CASE m.type = "SetListed"
    BY <1>3 DEF Handle, GotSetListed, ViewFields
<1>4. CASE m.type = "SetCapacity"
    BY <1>4 DEF Handle, GotSetCapacity, ViewFields
<1>5. CASE m.type \in {"SetPlayerMeta", "ErasePlayerMeta"}
  <2>1. Handle(v, m) = GotPlayerMeta(v, m)
      BY <1>5 DEF Handle
  <2>2. /\ DOMAIN GotPlayerMeta(v, m) = DOMAIN v
        /\ DOMAIN GotPlayerMeta(v, m).players = DOMAIN v.players
      BY DEF GotPlayerMeta, ViewFields
  <2> QED
      BY <2>1, <2>2
<1>6. CASE m.type \in {"SetLobbyMeta", "EraseLobbyMeta"}
    BY <1>6 DEF Handle, GotLobbyMeta, ViewFields
<1>7. CASE m.type = "SetMaster"
    BY <1>7 DEF Handle, GotSetMaster, ViewFields
<1>8. CASE m.type = "Joined"
    BY <1>8 DEF Handle, GotJoined, Put, Naming, ViewFields
<1>9. CASE m.type = "Left"
    BY <1>9 DEF Handle, GotLeft, Without, ViewFields
<1>10. m.type \in {"Connected", "Disconnected", "SetListed", "SetCapacity", "SetPlayerMeta",
                   "ErasePlayerMeta", "SetLobbyMeta", "EraseLobbyMeta", "SetMaster",
                   "Joined", "Left"}
    BY DEF Naming, Message
<1> QED
    BY <1>1, <1>2, <1>3, <1>4, <1>5, <1>6, <1>7, <1>8, <1>9, <1>10

LEMMA HandlePong ==
    ASSUME NEW v, DOMAIN v = ViewFields, NEW members
    PROVE  /\ DOMAIN Handle(v, Pong(members)) = ViewFields
           /\ DOMAIN Handle(v, Pong(members)).players = DOMAIN v.players \cap members
<1>1. Pong(members).type = "Pong" /\ Pong(members).players = members
    BY DEF Pong
<1>2. Handle(v, Pong(members)) = GotPong(v, Pong(members))
    BY <1>1 DEF Handle
<1> QED
    BY <1>1, <1>2 DEF GotPong, ViewFields

-----------------------------------------------------------------------------
(* The steps *)

LEMMA ViewInitial == ViewInit => VInv
<1> SUFFICES ASSUME ViewInit PROVE VInv
    OBVIOUS
<1>1. /\ DOMAIN gid_lobbies = {} /\ DOMAIN lobbies = {} /\ DOMAIN players = {}
      /\ DOMAIN outbox = {} /\ used = {} /\ requests = << >>
      /\ link = [state |-> "loop", pong |-> {}]
      /\ view.players = << >> /\ DOMAIN view = ViewFields
    BY DEF ViewInit, ViewFields
<1>2. DOMAIN peers \subseteq Ip /\ \A ip \in DOMAIN peers : peers[ip] \in Peer
    BY CapsAssumption DEF ViewInit, Peer
<1>3. IInv
    BY <1>1, <1>2 DEF IInv, TablesOK, BoxOK, Membership, GameIndex, MasterIsMember, IdleClock
<1>4. ViewTypes
    BY <1>1, EmptySeq DEF ViewTypes
<1>5. UsedOK /\ PongOK
    BY <1>1 DEF UsedOK, PongOK
<1> QED
    BY <1>3, <1>4, <1>5 DEF VInv

\* A step of the event loop that brings in the players in N.
LEMMA LoopStep ==
    ASSUME VInv, [Next]_vars, NEW N, N \subseteq Pid \ used, used' = used \cup N,
           DOMAIN players' \subseteq DOMAIN players \cup N,
           DOMAIN outbox' \subseteq DOMAIN outbox \cup N,
           Announce(used \cup N, outbox'),
           UNCHANGED <<view, link>>, requests' \in Seq(Requests)
    PROVE  VInv'
<1>1. IInv'
    BY NextStep DEF VInv
<1>2. ViewTypes'
    BY DEF VInv, ViewTypes
<1>3. UsedOK'
    BY DEF VInv, UsedOK, Announce
<1>4. PongOK'
  <2> SUFFICES ASSUME link.state = "answered", NEW q \in DOMAIN view.players \ link.pong,
                      q \in AssemblePong(Me)'
               PROVE  FALSE
      BY DEF VInv, PongOK
  <2>1. q \in used /\ Me \in used /\ q \notin AssemblePong(Me)
      BY DEF VInv, PongOK, UsedOK
  <2> QED
      BY <2>1, MembersStay DEF VInv
<1> QED
    BY <1>1, <1>2, <1>3, <1>4 DEF VInv

\* The same for a step that brings in nobody.
LEMMA QuietStep ==
    ASSUME VInv, [Next]_vars, Quiet(used), UNCHANGED <<view, link, used>>,
           requests' \in Seq(Requests)
    PROVE  VInv'
<1> DEFINE N == {}
<1>1. N \subseteq Pid \ used /\ used' = used \cup N /\ used \cup N = used
    OBVIOUS
<1>2. /\ DOMAIN players' \subseteq DOMAIN players \cup N
      /\ DOMAIN outbox' \subseteq DOMAIN outbox \cup N
      /\ Announce(used \cup N, outbox')
    BY <1>1 DEF Quiet
<1> QED
    BY <1>1, <1>2, LoopStep

LEMMA EnterStep ==
    ASSUME VInv, Enter
    PROVE  VInv'
<1>1. PICK pid \in Pid \ used, ip \in Ip :
         \/ \E gid \in Gid, m, pm \in Metadata, c \in Capacity, listed \in BOOLEAN :
               /\ EventLoop(HostLobby(ip, gid, m, c, listed, pm, Ok(pid))) /\ Draw(pid)
         \/ \E l \in LobbyId, pm \in Metadata :
               /\ EventLoop(JoinLobby(ip, l, pm, Ok(pid))) /\ Draw(pid)
    BY DEF Enter
<1>2. PICK U : U = used
    OBVIOUS
<1>3. IInv /\ Announce(U, outbox) /\ DOMAIN players \subseteq U /\ requests \in Seq(Requests)
    BY <1>2 DEF VInv, UsedOK, Announce, ViewTypes
<1>4. /\ UNCHANGED <<view, link, requests>> /\ used' = used \cup {pid}
    BY <1>1 DEF EventLoop, Draw
<1>5. Next /\ Came(U, pid)
  <2>1. Ok(pid) \in Replies /\ pid \in Pid
      BY DEF Replies
  <2>2. CASE \E gid \in Gid, m, pm \in Metadata, c \in Capacity, listed \in BOOLEAN :
                HostLobby(ip, gid, m, c, listed, pm, Ok(pid))
    <3>1. PICK gid \in Gid, m \in Metadata, pm \in Metadata, c \in Capacity, listed \in BOOLEAN :
                HostLobby(ip, gid, m, c, listed, pm, Ok(pid))
        BY <2>2
    <3>2. Next
        BY <2>1, <3>1 DEF Next
    <3> QED
        BY <1>3, <2>1, <3>1, <3>2, HostNames
  <2>3. CASE \E l \in LobbyId, pm \in Metadata : JoinLobby(ip, l, pm, Ok(pid))
    <3>1. PICK l \in LobbyId, pm \in Metadata : JoinLobby(ip, l, pm, Ok(pid))
        BY <2>3
    <3>2. Next
        BY <2>1, <3>1 DEF Next
    <3> QED
        BY <1>3, <2>1, <3>1, <3>2, JoinNames
  <2> QED
      BY <1>1, <2>2, <2>3 DEF EventLoop
<1> DEFINE N == {pid}
<1>6. /\ N \subseteq Pid \ used /\ used' = used \cup N
      /\ DOMAIN players' \subseteq DOMAIN players \cup N
      /\ DOMAIN outbox' \subseteq DOMAIN outbox \cup N
      /\ Announce(used \cup N, outbox') /\ requests' \in Seq(Requests)
    BY <1>2, <1>3, <1>4, <1>5 DEF Came
<1> HIDE DEF N
<1> QED
    BY <1>4, <1>5, <1>6, LoopStep

LEMMA RequestStep ==
    ASSUME VInv, Request
    PROVE  VInv'
<1> DEFINE r == Head(requests)
<1>1. PICK U : U = used
    OBVIOUS
<1>2. IInv /\ Announce(U, outbox) /\ Me \in Pid
    BY <1>1, ViewAssumption DEF VInv, UsedOK, Announce
<1>3. r \in Requests /\ Tail(requests) \in Seq(Requests)
    BY DEF VInv, ViewTypes, Request
<1>4. requests' = Tail(requests) /\ UNCHANGED <<view, link, used>>
    BY DEF Request, EventLoop
<1>5. \/ r.type = "SetCapacity" /\ SetCapacity(Me, r.capacity)
      \/ r.type = "SetLobbyMeta" /\ SetLobbyMeta(Me, r.key, r.value)
      \/ r.type = "EraseLobbyMeta" /\ EraseLobbyMeta(Me, r.key)
    BY DEF Request, EventLoop
<1>6. /\ r.type = "SetCapacity" => r.capacity \in Capacity
      /\ r.type = "SetLobbyMeta" => r.key \in Key /\ r.value \in Value
      /\ r.type = "EraseLobbyMeta" => r.key \in Key
    BY <1>3 DEF Requests
<1> HIDE DEF r
<1>7. [Next]_vars
    BY <1>2, <1>5, <1>6 DEF Next
<1>8. Quiet(U)
    BY <1>2, <1>5, <1>6, SetterNames
<1>9. Quiet(used)
    BY <1>1, <1>8
<1> QED
    BY <1>3, <1>4, <1>7, <1>9, QuietStep

LEMMA OperationStep ==
    ASSUME VInv, Operation
    PROVE  VInv'
<1>1. PICK U : U = used
    OBVIOUS
<1>2. IInv /\ Announce(U, outbox) /\ requests \in Seq(Requests)
    BY <1>1 DEF VInv, UsedOK, Announce, ViewTypes
<1>3. UNCHANGED <<view, link, used, requests>>
    BY DEF Operation, EventLoop
<1>4. \/ \E p \in Pid : RemovePlayer(p, "Natural")
      \/ \E p \in Pid, listed \in BOOLEAN : SetListed(p, listed)
      \/ \E p, q \in Pid : SetMaster(p, q) \/ KickPlayer(p, q)
      \/ \E p \in Pid, k \in Key, v \in Value : SetPlayerMeta(p, k, v) \/ SetLobbyMeta(p, k, v)
      \/ \E p \in Pid, k \in Key : ErasePlayerMeta(p, k) \/ EraseLobbyMeta(p, k)
      \/ \E p \in Pid, c \in Capacity : SetCapacity(p, c)
      \/ Prune \/ EventLoopReset
    BY DEF Operation, EventLoop
<1>5. [Next]_vars
    BY <1>4 DEF Next, Reason
<1>6. Quiet(U)
    BY <1>2, <1>4, RemoveNames, SetterNames, PruneNames
<1>7. Quiet(used)
    BY <1>1, <1>6
<1> QED
    BY <1>2, <1>3, <1>5, <1>7, QuietStep

\* The client writes its own copy and asks for the same.
LEMMA AskStep ==
    ASSUME VInv, NEW request \in Requests, NEW copy, NEW topic, Ask(request, copy, topic),
           DOMAIN copy = ViewFields, copy.players = view.players
    PROVE  VInv'
<1>1. /\ view' = copy /\ requests' = Append(requests, request)
      /\ UNCHANGED <<gid_lobbies, lobbies, players, peers, outbox, link, used>>
    BY DEF Ask, vars
<1>2. IInv'
    BY <1>1, StutterStep DEF VInv, vars
<1>3. requests' \in Seq(Requests)
    BY <1>1, AppendProperties DEF VInv, ViewTypes
<1>4. ViewTypes' /\ UsedOK'
    BY <1>1, <1>3 DEF VInv, ViewTypes, UsedOK
<1>5. AssemblePong(Me)' = AssemblePong(Me)
    BY <1>1 DEF AssemblePong, InLobby, LobbyOf
<1>6. PongOK'
    BY <1>1, <1>5 DEF VInv, PongOK
<1> QED
    BY <1>2, <1>4, <1>6 DEF VInv

LEMMA SetterStep ==
    ASSUME VInv,
           \/ \E c \in Capacity : SetMaxPlayers(c)
           \/ \E k \in Key, v \in Value : SetLobbyField(k, v)
           \/ \E k \in Key : UnsetLobbyField(k)
    PROVE  VInv'
<1>0. DOMAIN view = ViewFields
    BY DEF VInv, ViewTypes
<1>1. ASSUME NEW c \in Capacity, SetMaxPlayers(c) PROVE VInv'
  <2>1. [type |-> "SetCapacity", capacity |-> c] \in Requests
      BY DEF Requests
  <2> DEFINE copy == [view EXCEPT !.capacity = c]
  <2>2. DOMAIN copy = ViewFields /\ copy.players = view.players
      BY <1>0 DEF ViewFields
  <2> QED
      BY <1>1, <2>1, <2>2, AskStep DEF SetMaxPlayers
<1>2. ASSUME NEW k \in Key, NEW v \in Value, SetLobbyField(k, v) PROVE VInv'
  <2>1. [type |-> "SetLobbyMeta", key |-> k, value |-> v] \in Requests
      BY DEF Requests
  <2> DEFINE copy == [view EXCEPT !.meta = Put(@, k, v)]
  <2>2. DOMAIN copy = ViewFields /\ copy.players = view.players
      BY <1>0 DEF ViewFields
  <2> QED
      BY <1>2, <2>1, <2>2, AskStep DEF SetLobbyField
<1>3. ASSUME NEW k \in Key, UnsetLobbyField(k) PROVE VInv'
  <2>1. [type |-> "EraseLobbyMeta", key |-> k] \in Requests
      BY DEF Requests
  <2> DEFINE copy == [view EXCEPT !.meta = Without(@, k)]
  <2>2. DOMAIN copy = ViewFields /\ copy.players = view.players
      BY <1>0 DEF ViewFields
  <2> QED
      BY <1>3, <2>1, <2>2, AskStep DEF UnsetLobbyField
<1> QED
    BY <1>1, <1>2, <1>3

\* The session and the client: a message read, a connection closed, a Ping and
\* its answer.
LEMMA DrainStep ==
    ASSUME VInv, Drain \/ Disconnect
    PROVE  VInv'
<1>1. PICK U : U = used
    OBVIOUS
<1>2. /\ IInv /\ Announce(U, outbox) /\ Me \in Pid
      /\ DOMAIN view = ViewFields /\ DOMAIN view.players \subseteq U
    BY <1>1, ViewAssumption DEF VInv, ViewTypes, UsedOK, Announce
<1>3. Receive(Me) \/ Hangup(Me)
    BY DEF Drain, Disconnect
<1>4. IInv' /\ Quiet(U)
    BY <1>2, <1>3, ReceiveHangupStep, ChannelNames
<1>5. DOMAIN view' = ViewFields /\ DOMAIN view'.players \subseteq U
  <2>1. CASE Disconnect
      BY <1>2, <2>1, ResetNames DEF Disconnect
  <2>2. CASE Drain
    <3>1. /\ outbox[Me] \in Seq(Naming(U)) /\ outbox[Me] # << >>
          /\ view' = Handle(view, Head(outbox[Me]))
        BY <1>2, <2>2 DEF Drain, Announce
    <3>2. Head(outbox[Me]) \in Naming(U)
        BY <3>1
    <3> QED
        BY <1>2, <3>1, <3>2, HandleNames
  <2> QED
      BY <2>1, <2>2
<1>6. /\ used' = used /\ requests' \in Seq(Requests)
      /\ link' \in [state : {"loop", "off"}, pong : SUBSET Pid]
    BY EmptySeq DEF VInv, ViewTypes, Drain, Disconnect
<1>7. UsedOK'
    BY <1>1, <1>4, <1>5, <1>6 DEF VInv, UsedOK, Quiet, Announce
<1>8. ViewTypes' /\ PongOK'
    BY <1>5, <1>6 DEF VInv, ViewTypes, PongOK
<1> QED
    BY <1>4, <1>7, <1>8 DEF VInv

LEMMA PongSteps ==
    ASSUME VInv, Ping \/ Assemble \/ SendPong
    PROVE  VInv'
<1>1. /\ UNCHANGED <<gid_lobbies, lobbies, players, peers, outbox, requests, used>>
    BY DEF Ping, Assemble, SendPong, vars
<1>2. IInv'
    BY <1>1, StutterStep DEF VInv, vars
<1>3. /\ AssemblePong(Me)' = AssemblePong(Me) /\ AssemblePong(Me) \subseteq Pid
    BY <1>1 DEF AssemblePong, InLobby, LobbyOf, VInv, IInv, TablesOK, Lobby
<1>4. CASE Ping
  <2>1. link' = [link EXCEPT !.state = "pinging"] /\ view' = view /\ Me \in used
      BY <1>4 DEF Ping, VInv, UsedOK
  <2>2. link'.state = "pinging"
        /\ link' \in [state : {"loop", "pinging", "answered", "off"}, pong : SUBSET Pid]
      BY <2>1 DEF VInv, ViewTypes
  <2> QED
      BY <1>1, <1>2, <2>1, <2>2 DEF VInv, ViewTypes, UsedOK, PongOK
<1>5. CASE Assemble
  <2>1. link' = [state |-> "answered", pong |-> AssemblePong(Me)] /\ view' = view /\ Me \in used
      BY <1>5 DEF Assemble, VInv, PongOK
  <2>2. PongOK'
      BY <1>1, <1>3, <2>1 DEF PongOK
  <2> QED
      BY <1>1, <1>2, <1>3, <2>1, <2>2 DEF VInv, ViewTypes, UsedOK
<1>6. CASE SendPong
  <2>1. link' = [state |-> "loop", pong |-> {}] /\ view' = Handle(view, Pong(link.pong))
      BY <1>6 DEF SendPong
  <2>2. DOMAIN view' = ViewFields /\ DOMAIN view'.players \subseteq DOMAIN view.players
      BY <2>1, HandlePong DEF VInv, ViewTypes
  <2> QED
      BY <1>1, <1>2, <2>1, <2>2 DEF VInv, ViewTypes, UsedOK, PongOK
<1> QED
    BY <1>4, <1>5, <1>6

LEMMA ViewStutter ==
    ASSUME VInv, UNCHANGED viewvars
    PROVE  VInv'
<1>1. UNCHANGED <<vars, gid_lobbies, lobbies, players, peers, outbox, view, link, requests, used>>
    BY DEF viewvars, vars
<1>2. IInv'
    BY <1>1, StutterStep DEF VInv
<1>3. AssemblePong(Me)' = AssemblePong(Me)
    BY <1>1 DEF AssemblePong, InLobby, LobbyOf
<1> QED
    BY <1>1, <1>2, <1>3 DEF VInv, ViewTypes, UsedOK, PongOK

LEMMA ViewStep ==
    ASSUME VInv, [ViewNext]_viewvars
    PROVE  VInv'
BY ViewStutter, DrainStep, SetterStep, PongSteps, EnterStep, RequestStep, OperationStep
   DEF ViewNext

-----------------------------------------------------------------------------
(* Handling a queue.  After is a recursive function over the positions of the *)
(* queue.  What it computes follows by induction, as a least counterexample:  *)
(* the order of the natural numbers is well-founded.                          *)

Precedes == {ss \in Nat \X Nat : ss[1] < ss[2]}

LEMMA LeastNumber ==
    ASSUME NEW T, T \subseteq Nat, T # {}
    PROVE  \E n \in T : \A m \in T : n =< m
<1>1. IsWellFoundedOn(Precedes, Nat)
    BY NatLessThanWellFounded DEF OpToRel, Precedes
<1>2. \E x \in T : \A y \in T : ~(<<y, x>> \in Precedes)
    BY <1>1, WFMin
<1>3. PICK x \in T : \A y \in T : ~(<<y, x>> \in Precedes)
    BY <1>2
<1>4. \A y \in T : ~(y < x)
    BY <1>3 DEF Precedes
<1> QED
    BY <1>4

\* Induction up to n.
LEMMA Induction ==
    ASSUME NEW T, NEW n \in Nat, 0 \in T, \A i \in 0 .. n - 1 : i \in T => i + 1 \in T
    PROVE  n \in T
<1> SUFFICES ASSUME n \notin T PROVE FALSE
    OBVIOUS
<1> DEFINE N == {i \in 0 .. n : i \notin T}
<1>0. N \subseteq Nat /\ N # {}
    OBVIOUS
<1>1. PICK i \in N : \A j \in N : i =< j
    BY <1>0, LeastNumber
<1>2. i # 0 /\ i - 1 \in 0 .. n - 1 /\ i - 1 \notin N
    BY <1>1
<1> QED
    BY <1>1, <1>2

\* f[i] is what the client holds after the first i messages of q.
Run(v, q, n, f) ==
    f = [i \in 0 .. n |-> IF i = 0 THEN v ELSE Handle(f[i - 1], q[i])]

LEMMA RunExists ==
    ASSUME NEW v, NEW q, NEW n \in Nat
    PROVE  \E f : Run(v, q, n, f)
<1> DEFINE T == {i \in Nat : \E f : Run(v, q, i, f)}
<1>1. 0 \in T
  <2> DEFINE f == [i \in 0 .. 0 |-> v]
  <2>1. Run(v, q, 0, f)
      BY DEF Run
  <2> QED
      BY <2>1
<1>2. ASSUME NEW i \in 0 .. n - 1, i \in T PROVE i + 1 \in T
  <2>1. PICK f : Run(v, q, i, f)
      BY <1>2
  <2> DEFINE g == [j \in 0 .. i + 1 |-> IF j = i + 1 THEN Handle(f[i], q[i + 1]) ELSE f[j]]
  <2>2. \A j \in 0 .. i : f[j] = IF j = 0 THEN v ELSE Handle(f[j - 1], q[j])
      BY <2>1 DEF Run
  <2>3. \A j \in 0 .. i + 1 : g[j] = IF j = 0 THEN v ELSE Handle(g[j - 1], q[j])
      BY <2>2
  <2>4. Run(v, q, i + 1, g)
      BY <2>3 DEF Run
  <2> QED
      BY <2>4
<1> HIDE DEF T
<1>3. n \in T
    BY <1>1, <1>2, Induction
<1> QED
    BY <1>3 DEF T

\* The recursive function that After names is such a run.
Steps(v, q, f) ==
    /\ f[0] = v /\ After(v, q) = f[Len(q)]
    /\ \A i \in 0 .. Len(q) - 1 : f[i + 1] = Handle(f[i], q[i + 1])

LEMMA AfterRun ==
    ASSUME NEW v, NEW q, Len(q) \in Nat
    PROVE  \E f : Steps(v, q, f)
<1> DEFINE g == CHOOSE f : Run(v, q, Len(q), f)
<1>1. Run(v, q, Len(q), g)
    BY RunExists
<1>2. After(v, q) = g[Len(q)]
    BY DEF After, Run
<1> HIDE DEF g
<1>3. \A j \in 0 .. Len(q) : g[j] = IF j = 0 THEN v ELSE Handle(g[j - 1], q[j])
    BY <1>1 DEF Run
<1> QED
    BY <1>2, <1>3 DEF Steps

\* What the event loop sends to a client, but for relayed descriptions.
Traffic == Naming(Pid)

LEMMA AfterEmpty ==
    ASSUME NEW v
    PROVE  After(v, << >>) = v
<1>1. Len(<< >>) = 0
    OBVIOUS
<1> QED
    BY <1>1, AfterRun DEF Steps

LEMMA AfterOne ==
    ASSUME NEW v, NEW m
    PROVE  After(v, <<m>>) = Handle(v, m)
<1>1. PICK q : q = <<m>>
    OBVIOUS
<1>2. Len(q) = 1 /\ q[1] = m
    BY <1>1
<1>3. PICK f : Steps(v, q, f)
    BY <1>2, AfterRun
<1>4. f[0 + 1] = Handle(f[0], q[0 + 1])
    BY <1>2, <1>3 DEF Steps
<1> QED
    BY <1>1, <1>2, <1>3, <1>4 DEF Steps

\* Handling two queues in a row.
LEMMA AfterConcat ==
    ASSUME NEW v, NEW s \in Seq(Traffic), NEW t \in Seq(Traffic)
    PROVE  After(v, s \o t) = After(After(v, s), t)
<1>1. PICK q, a, b : q = s \o t /\ a = Len(s) /\ b = Len(t)
    OBVIOUS
<1>2. /\ Len(q) = a + b /\ a \in Nat /\ b \in Nat /\ Len(q) \in Nat
      /\ \A i \in 1 .. a : q[i] = s[i]
      /\ \A i \in 1 .. b : q[a + i] = t[i]
    BY <1>1, ConcatProperties
<1>0. Len(s) \in Nat /\ Len(t) \in Nat /\ Len(q) \in Nat
    BY <1>1, <1>2
<1>3. PICK f : Steps(v, s, f)
    BY <1>0, AfterRun
<1>4. PICK w : w = f[a]
    OBVIOUS
<1>5. PICK g : Steps(w, t, g)
    BY <1>0, AfterRun
<1>6. PICK h : Steps(v, q, h)
    BY <1>0, AfterRun
<1>7. h[a] = f[a]
  <2> DEFINE T == {i \in Nat : i =< a => h[i] = f[i]}
  <2>1. 0 \in T
      BY <1>3, <1>6 DEF Steps
  <2>2. ASSUME NEW i \in 0 .. a - 1, i \in T PROVE i + 1 \in T
    <3>1. i \in 0 .. Len(q) - 1 /\ i \in 0 .. Len(s) - 1 /\ i + 1 \in 1 .. a /\ i + 1 \in Nat
        BY <1>1, <1>2
    <3>2. h[i + 1] = Handle(h[i], q[i + 1]) /\ f[i + 1] = Handle(f[i], s[i + 1])
        BY <1>3, <1>6, <3>1 DEF Steps
    <3>3. q[i + 1] = s[i + 1] /\ h[i] = f[i]
        BY <1>2, <2>2, <3>1
    <3> QED
        BY <3>1, <3>2, <3>3
  <2> HIDE DEF T
  <2>3. a \in T
      BY <1>2, <2>1, <2>2, Induction
  <2> QED
      BY <1>2, <2>3 DEF T
<1>8. h[a + b] = g[b]
  <2> DEFINE T == {i \in Nat : i =< b => h[a + i] = g[i]}
  <2>1. 0 \in T
      BY <1>2, <1>4, <1>5, <1>7 DEF Steps
  <2>2. ASSUME NEW i \in 0 .. b - 1, i \in T PROVE i + 1 \in T
    <3>1. a + i \in 0 .. Len(q) - 1 /\ i \in 0 .. Len(t) - 1 /\ i + 1 \in 1 .. b /\ i + 1 \in Nat
        BY <1>1, <1>2
    <3>2. h[a + i + 1] = Handle(h[a + i], q[a + i + 1]) /\ g[i + 1] = Handle(g[i], t[i + 1])
        BY <1>5, <1>6, <3>1 DEF Steps
    <3>3. q[a + (i + 1)] = t[i + 1] /\ h[a + i] = g[i]
        BY <1>2, <2>2, <3>1
    <3>4. a + (i + 1) = a + i + 1
        BY <1>2
    <3> QED
        BY <3>1, <3>2, <3>3, <3>4
  <2> HIDE DEF T
  <2>3. b \in T
      BY <1>2, <2>1, <2>2, Induction
  <2> QED
      BY <1>2, <2>3 DEF T
<1>9. After(v, q) = After(w, t)
    BY <1>1, <1>2, <1>5, <1>6, <1>8 DEF Steps
<1> QED
    BY <1>1, <1>3, <1>4, <1>9 DEF Steps

\* The head first, then the rest.
LEMMA AfterHead ==
    ASSUME NEW v, NEW q \in Seq(Traffic), q # << >>
    PROVE  After(v, q) = After(Handle(v, Head(q)), Tail(q))
<1>1. PICK s, t : s = <<Head(q)>> /\ t = Tail(q)
    OBVIOUS
<1>2. s \in Seq(Traffic) /\ t \in Seq(Traffic) /\ q = s \o t
    BY <1>1
<1>3. After(v, q) = After(After(v, s), t)
    BY <1>2, AfterConcat
<1> QED
    BY <1>1, <1>3, AfterOne

-----------------------------------------------------------------------------
(* What handling a message changes, and what it leaves alone *)

\* The tables are a record, and players is a table.
IsTable(f) == f = [x \in DOMAIN f |-> f[x]]
Shape(v) == DOMAIN v = ViewFields /\ IsTable(v.players)

LEMMA HandleShape ==
    ASSUME NEW v, Shape(v), NEW m \in Traffic
    PROVE  Shape(Handle(v, m))
<1>0. DOMAIN v = ViewFields /\ IsTable(v.players)
    BY DEF Shape
<1>1. CASE m.type \in {"Connected", "SetListed", "SetCapacity", "SetLobbyMeta",
                       "EraseLobbyMeta", "SetMaster"}
  <2>1. DOMAIN Handle(v, m) = DOMAIN v /\ Handle(v, m).players = v.players
      BY <1>0, <1>1 DEF Handle, GotConnected, GotSetListed, GotSetCapacity, GotLobbyMeta,
                        GotSetMaster, ViewFields
  <2> QED
      BY <1>0, <2>1 DEF Shape
<1>2. CASE m.type = "Disconnected"
  <2>1. Handle(v, m) = Reset(v)
      BY <1>2 DEF Handle
  <2>2. DOMAIN Reset(v) = DOMAIN v /\ Reset(v).players = << >>
      BY <1>0 DEF Reset, ViewFields
  <2>3. IsTable(<< >>)
      BY DEF IsTable
  <2> QED
      BY <1>0, <2>1, <2>2, <2>3 DEF Shape
<1>3. CASE m.type \in {"SetPlayerMeta", "ErasePlayerMeta"}
  <2>1. Handle(v, m) = GotPlayerMeta(v, m)
      BY <1>3 DEF Handle
  <2>2. CASE GotPlayerMeta(v, m) = v
      BY <2>1, <2>2
  <2>3. CASE GotPlayerMeta(v, m) # v
    <3>1. PICK x : GotPlayerMeta(v, m) = [v EXCEPT !.players[m.pid] = x]
        BY <2>3 DEF GotPlayerMeta
    <3> QED
        BY <1>0, <2>1, <3>1 DEF Shape, IsTable, ViewFields
  <2> QED
      BY <2>2, <2>3
<1>4. CASE m.type = "Joined"
  <2>1. Handle(v, m) = GotJoined(v, m)
      BY <1>4 DEF Handle
  <2>2. IsTable(Put(v.players, m.pid, m.metadata))
      BY DEF IsTable, Put
  <2> QED
      BY <1>0, <2>1, <2>2 DEF Shape, GotJoined, ViewFields
<1>5. CASE m.type = "Left"
  <2>1. Handle(v, m) = GotLeft(v, m)
      BY <1>5 DEF Handle
  <2>2. IsTable(Without(v.players, m.pid))
      BY DEF IsTable, Without
  <2> QED
      BY <1>0, <2>1, <2>2 DEF Shape, GotLeft, ViewFields
<1>6. m.type \in {"Connected", "Disconnected", "SetListed", "SetCapacity", "SetPlayerMeta",
                   "ErasePlayerMeta", "SetLobbyMeta", "EraseLobbyMeta", "SetMaster",
                   "Joined", "Left"}
    BY DEF Traffic, Naming, Message
<1> QED
    BY <1>1, <1>2, <1>3, <1>4, <1>5, <1>6

\* Two tables hold the same for x.
SameAt(f, g, x) == (x \in DOMAIN f <=> x \in DOMAIN g) /\ (x \in DOMAIN f => f[x] = g[x])

\* w is v but for some players that w does not know, those outside X, and but for
\* the topics outside T.
Alike(v, w, X, T) ==
    /\ v.pid = w.pid /\ v.master = w.master /\ v.listed = w.listed
    /\ DOMAIN w.players \subseteq DOMAIN v.players
    /\ \A x \in X : SameAt(v.players, w.players, x)
    /\ \A k \in Key \cap T : SameAt(v.meta, w.meta, k)
    /\ "capacity" \in T => v.capacity = w.capacity

LEMMA HandleAlike ==
    ASSUME NEW v, NEW w, NEW X, NEW T, Shape(v), Shape(w), Alike(v, w, X, T),
           NEW m \in Traffic
    PROVE  Alike(Handle(v, m), Handle(w, m), X, T)
<1>0. DOMAIN v = ViewFields /\ DOMAIN w = ViewFields
    BY DEF Shape
<1>1. CASE m.type \in {"Connected", "SetListed", "SetCapacity", "SetMaster"}
    BY <1>0, <1>1 DEF Alike, Handle, GotConnected, GotSetListed, GotSetCapacity,
                      GotSetMaster, ViewFields
<1>2. CASE m.type = "Disconnected"
  <2>1. Handle(v, m) = Reset(v) /\ Handle(w, m) = Reset(w)
      BY <1>2 DEF Handle
  <2> QED
      BY <1>0, <2>1 DEF Alike, Reset, SameAt, ViewFields
<1>3. CASE m.type \in {"SetPlayerMeta", "ErasePlayerMeta"}
  <2>1. Handle(v, m) = GotPlayerMeta(v, m) /\ Handle(w, m) = GotPlayerMeta(w, m)
      BY <1>3 DEF Handle
  <2> DEFINE new(f) == IF m.type = "SetPlayerMeta" THEN Put(f, m.key, m.value) ELSE Without(f, m.key)
  <2>2. ASSUME NEW u, DOMAIN u = ViewFields
        PROVE  LET h == GotPlayerMeta(u, m)
               IN /\ h.pid = u.pid /\ h.master = u.master /\ h.listed = u.listed
                  /\ h.meta = u.meta /\ h.capacity = u.capacity
                  /\ DOMAIN h.players = DOMAIN u.players
                  /\ \A x \in DOMAIN u.players : h.players[x] =
                        IF x = m.pid /\ m.pid # u.pid THEN new(u.players[x]) ELSE u.players[x]
      BY <2>2 DEF GotPlayerMeta, ViewFields
  <2> HIDE DEF new
  <2> QED
      BY <1>0, <2>1, <2>2 DEF Alike, SameAt
<1>4. CASE m.type \in {"SetLobbyMeta", "EraseLobbyMeta"}
  <2>1. Handle(v, m) = GotLobbyMeta(v, m) /\ Handle(w, m) = GotLobbyMeta(w, m)
      BY <1>4 DEF Handle
  <2> QED
      BY <1>0, <2>1 DEF Alike, SameAt, GotLobbyMeta, Put, Without, ViewFields
<1>5. CASE m.type = "Joined"
  <2>1. Handle(v, m) = GotJoined(v, m) /\ Handle(w, m) = GotJoined(w, m)
      BY <1>5 DEF Handle
  <2>2. ASSUME NEW u, DOMAIN u = ViewFields
        PROVE  LET h == GotJoined(u, m)
               IN /\ h.pid = u.pid /\ h.master = u.master /\ h.listed = u.listed
                  /\ h.meta = u.meta /\ h.capacity = u.capacity
                  /\ DOMAIN h.players = DOMAIN u.players \cup {m.pid}
                  /\ \A x \in DOMAIN u.players : h.players[x] = u.players[x]
                  /\ m.pid \notin DOMAIN u.players => h.players[m.pid] = m.metadata
      BY <2>2 DEF GotJoined, Put, ViewFields
  <2> QED
      BY <1>0, <2>1, <2>2 DEF Alike, SameAt
<1>6. CASE m.type = "Left"
  <2>1. Handle(v, m) = GotLeft(v, m) /\ Handle(w, m) = GotLeft(w, m)
      BY <1>6 DEF Handle
  <2> QED
      BY <1>0, <2>1 DEF Alike, SameAt, GotLeft, Without, ViewFields
<1>7. m.type \in {"Connected", "Disconnected", "SetListed", "SetCapacity", "SetPlayerMeta",
                   "ErasePlayerMeta", "SetLobbyMeta", "EraseLobbyMeta", "SetMaster",
                   "Joined", "Left"}
    BY DEF Traffic, Naming, Message
<1> QED
    BY <1>1, <1>2, <1>3, <1>4, <1>5, <1>6, <1>7

\* So a queue leaves alike what was alike.
LEMMA AfterAlike ==
    ASSUME NEW v, NEW w, NEW X, NEW T, Shape(v), Shape(w), Alike(v, w, X, T),
           NEW q \in Seq(Traffic)
    PROVE  /\ Shape(After(v, q)) /\ Shape(After(w, q))
           /\ Alike(After(v, q), After(w, q), X, T)
<1>1. Len(q) \in Nat /\ \A i \in 1 .. Len(q) : q[i] \in Traffic
    OBVIOUS
<1>2. PICK f : Steps(v, q, f)
    BY <1>1, AfterRun
<1>3. PICK g : Steps(w, q, g)
    BY <1>1, AfterRun
<1> DEFINE S == {i \in Nat : Shape(f[i]) /\ Shape(g[i]) /\ Alike(f[i], g[i], X, T)}
<1>4. 0 \in S
    BY <1>2, <1>3 DEF Steps
<1>5. ASSUME NEW i \in 0 .. Len(q) - 1, i \in S PROVE i + 1 \in S
  <2>1. f[i + 1] = Handle(f[i], q[i + 1]) /\ g[i + 1] = Handle(g[i], q[i + 1])
      BY <1>2, <1>3 DEF Steps
  <2>2. q[i + 1] \in Traffic /\ i + 1 \in Nat
      BY <1>1
  <2>3. Shape(f[i]) /\ Shape(g[i]) /\ Alike(f[i], g[i], X, T)
      BY <1>5
  <2>4. Shape(f[i + 1]) /\ Shape(g[i + 1])
      BY <2>1, <2>2, <2>3, HandleShape
  <2>5. Alike(f[i + 1], g[i + 1], X, T)
      BY <2>1, <2>2, <2>3, HandleAlike
  <2> QED
      BY <2>2, <2>4, <2>5
<1> HIDE DEF S
<1>6. Len(q) \in S
    BY <1>1, <1>4, <1>5, Induction
<1> QED
    BY <1>2, <1>3, <1>6 DEF S, Steps

-----------------------------------------------------------------------------
(* The welcome *)

\* An iteration of a finite set meets every element.
LEMMA OrdersOnto ==
    ASSUME NEW S, IsFiniteSet(S), NEW f \in Orders(S)
    PROVE  \E n \in Nat : /\ n = Cardinality(S) /\ f \in [1 .. n -> S]
                          /\ \A x \in S : \E i \in 1 .. n : f[i] = x
<1>1. PICK n \in Nat : n = Cardinality(S)
    BY FS_CardinalityType
<1>2. f \in [1 .. n -> S] /\ \A i, j \in 1 .. n : f[i] = f[j] => i = j
    BY <1>1 DEF Orders
<1>3. ASSUME NEW x \in S, \A i \in 1 .. n : f[i] # x PROVE FALSE
  <2>1. PICK A, B : A = 1 .. n /\ B = S \ {x}
      OBVIOUS
  <2>2. IsFiniteSet(A) /\ Cardinality(A) = n
      BY <2>1, FS_Interval
  <2>3. IsFiniteSet(B) /\ Cardinality(B) = n - 1
      BY <1>1, <2>1, FS_RemoveElement
  <2>4. f \in [A -> B]
      BY <1>2, <1>3, <2>1
  <2>5. \E i, j \in A : i # j /\ f[i] = f[j]
    <3>1. Cardinality(B) < Cardinality(A)
        BY <2>2, <2>3
    <3> QED
        BY <2>2, <2>3, <2>4, <3>1, FS_PigeonHole
  <2> QED
      BY <1>2, <2>1, <2>5
<1> QED
    BY <1>1, <1>2, <1>3

\* The fields of the lobby, in any order, over what the client had.
Fields(q, n, keys, meta) ==
    /\ Len(q) = n
    /\ \A i \in 1 .. n : q[i] = [type |-> "SetLobbyMeta", key |-> keys[i],
                                 value |-> meta[keys[i]]]

LEMMA AfterFields ==
    ASSUME NEW v, DOMAIN v = ViewFields, NEW n \in Nat, NEW keys, NEW meta, NEW q,
           Fields(q, n, keys, meta), NEW w, w = After(v, q)
    PROVE  /\ DOMAIN w = ViewFields
           /\ w.pid = v.pid /\ w.master = v.master /\ w.listed = v.listed
           /\ w.players = v.players /\ w.capacity = v.capacity
           /\ DOMAIN w.meta = DOMAIN v.meta \cup {keys[i] : i \in 1 .. n}
           /\ \A i \in 1 .. n : w.meta[keys[i]] = meta[keys[i]]
<1>0. Len(q) = n /\ \A i \in 1 .. n : q[i] = [type |-> "SetLobbyMeta", key |-> keys[i],
                                              value |-> meta[keys[i]]]
    BY DEF Fields
<1>1. PICK f : Steps(v, q, f)
    BY <1>0, AfterRun
<1> DEFINE Good(i) ==
       /\ DOMAIN f[i] = ViewFields
       /\ f[i].pid = v.pid /\ f[i].master = v.master /\ f[i].listed = v.listed
       /\ f[i].players = v.players /\ f[i].capacity = v.capacity
       /\ DOMAIN f[i].meta = DOMAIN v.meta \cup {keys[j] : j \in 1 .. i}
       /\ \A j \in 1 .. i : f[i].meta[keys[j]] = meta[keys[j]]
       S == {i \in Nat : Good(i)}
<1>2. 0 \in S
    BY <1>1 DEF Steps
<1>3. ASSUME NEW i \in 0 .. n - 1, i \in S PROVE i + 1 \in S
  <2>1. /\ f[i + 1] = Handle(f[i], q[i + 1]) /\ i + 1 \in Nat /\ i + 1 \in 1 .. n
        /\ q[i + 1] = [type |-> "SetLobbyMeta", key |-> keys[i + 1],
                       value |-> meta[keys[i + 1]]]
      BY <1>0, <1>1 DEF Steps
  <2>2. PICK k, m, a, b : k = keys[i + 1] /\ m = q[i + 1] /\ a = f[i] /\ b = f[i + 1]
      OBVIOUS
  <2>3. m.type = "SetLobbyMeta" /\ m.key = k /\ m.value = meta[k]
      BY <2>1, <2>2
  <2>4. b = GotLobbyMeta(a, m)
      BY <2>1, <2>2, <2>3 DEF Handle
  <2>5. DOMAIN a = ViewFields
      BY <1>3, <2>2
  <2>6. /\ DOMAIN b = ViewFields /\ b.pid = a.pid /\ b.master = a.master
        /\ b.listed = a.listed /\ b.players = a.players /\ b.capacity = a.capacity
        /\ b.meta = Put(a.meta, k, meta[k])
      BY <2>3, <2>4, <2>5 DEF GotLobbyMeta, ViewFields
  <2>7. /\ DOMAIN b.meta = DOMAIN a.meta \cup {k} /\ b.meta[k] = meta[k]
        /\ \A x \in DOMAIN a.meta : b.meta[x] = IF x = k THEN meta[k] ELSE a.meta[x]
      BY <2>6 DEF Put
  <2>8. 1 .. i + 1 = (1 .. i) \cup {i + 1}
      OBVIOUS
  <2>9. DOMAIN b.meta = DOMAIN v.meta \cup {keys[j] : j \in 1 .. i + 1}
      BY <1>3, <2>2, <2>7, <2>8
  <2>10. \A j \in 1 .. i + 1 : b.meta[keys[j]] = meta[keys[j]]
    <3> SUFFICES ASSUME NEW j \in 1 .. i + 1 PROVE b.meta[keys[j]] = meta[keys[j]]
        OBVIOUS
    <3>1. CASE keys[j] = k
        BY <2>7, <3>1
    <3>2. CASE keys[j] # k
      <4>1. j \in 1 .. i
          BY <2>2, <2>8, <3>2
      <4>2. a.meta[keys[j]] = meta[keys[j]] /\ keys[j] \in DOMAIN a.meta
          BY <1>3, <2>2, <4>1
      <4> QED
          BY <2>7, <3>2, <4>2
    <3> QED
        BY <3>1, <3>2
  <2> QED
      BY <1>3, <2>1, <2>2, <2>6, <2>9, <2>10
<1> HIDE DEF S
<1>4. n \in S
    BY <1>2, <1>3, Induction
<1>5. Good(n) /\ f[n] = After(v, q)
    BY <1>0, <1>1, <1>4 DEF S, Steps
<1> QED
    BY <1>5

\* The members of the lobby, in any order, over an empty table.
Joins(q, n, order, table) ==
    /\ Len(q) = n
    /\ \A i \in 1 .. n : q[i] = Joined(order[i], table[order[i]].metadata)

LEMMA AfterJoins ==
    ASSUME NEW v, DOMAIN v = ViewFields, v.players = << >>, NEW n \in Nat, NEW order,
           NEW table, NEW q, Joins(q, n, order, table), NEW w, w = After(v, q)
    PROVE  /\ DOMAIN w = ViewFields
           /\ w.pid = v.pid /\ w.master = v.master /\ w.listed = v.listed
           /\ w.meta = v.meta /\ w.capacity = v.capacity
           /\ IsTable(w.players) /\ DOMAIN w.players = {order[i] : i \in 1 .. n}
           /\ \A x \in DOMAIN w.players : w.players[x] = table[x].metadata
<1>0. Len(q) = n /\ \A i \in 1 .. n : q[i] = Joined(order[i], table[order[i]].metadata)
    BY DEF Joins
<1>1. PICK f : Steps(v, q, f)
    BY <1>0, AfterRun
<1> DEFINE Good(i) ==
       /\ DOMAIN f[i] = ViewFields
       /\ f[i].pid = v.pid /\ f[i].master = v.master /\ f[i].listed = v.listed
       /\ f[i].meta = v.meta /\ f[i].capacity = v.capacity
       /\ IsTable(f[i].players) /\ DOMAIN f[i].players = {order[j] : j \in 1 .. i}
       /\ \A x \in DOMAIN f[i].players : f[i].players[x] = table[x].metadata
       S == {i \in Nat : Good(i)}
<1>2. 0 \in S
  <2>1. IsTable(<< >>) /\ DOMAIN << >> = {}
      BY DEF IsTable
  <2> QED
      BY <1>1, <2>1 DEF Steps
<1>3. ASSUME NEW i \in 0 .. n - 1, i \in S PROVE i + 1 \in S
  <2>1. /\ f[i + 1] = Handle(f[i], q[i + 1]) /\ i + 1 \in Nat /\ i + 1 \in 1 .. n
        /\ q[i + 1] = Joined(order[i + 1], table[order[i + 1]].metadata)
      BY <1>0, <1>1 DEF Steps
  <2>2. PICK p, m, a, b : p = order[i + 1] /\ m = q[i + 1] /\ a = f[i] /\ b = f[i + 1]
      OBVIOUS
  <2>3. m.type = "Joined" /\ m.pid = p /\ m.metadata = table[p].metadata
      BY <2>1, <2>2 DEF Joined
  <2>4. b = GotJoined(a, m)
      BY <2>1, <2>2, <2>3 DEF Handle
  <2>5. /\ DOMAIN a = ViewFields /\ IsTable(a.players)
        /\ \A x \in DOMAIN a.players : a.players[x] = table[x].metadata
      BY <1>3, <2>2
  <2>6. /\ DOMAIN b = ViewFields /\ b.pid = a.pid /\ b.master = a.master
        /\ b.listed = a.listed /\ b.meta = a.meta /\ b.capacity = a.capacity
        /\ b.players = IF p \in DOMAIN a.players THEN a.players
                       ELSE Put(a.players, p, table[p].metadata)
      BY <2>3, <2>4, <2>5 DEF GotJoined, ViewFields
  <2>7. /\ DOMAIN b.players = DOMAIN a.players \cup {p} /\ IsTable(b.players)
        /\ \A x \in DOMAIN b.players : b.players[x] = table[x].metadata
    <3>1. CASE p \in DOMAIN a.players
        BY <2>5, <2>6, <3>1
    <3>2. CASE p \notin DOMAIN a.players
      <4>1. b.players = Put(a.players, p, table[p].metadata)
          BY <2>6, <3>2
      <4>2. IsTable(b.players)
          BY <4>1 DEF Put, IsTable
      <4> QED
          BY <2>5, <4>1, <4>2 DEF Put
    <3> QED
        BY <3>1, <3>2
  <2>8. 1 .. i + 1 = (1 .. i) \cup {i + 1}
      OBVIOUS
  <2>9. DOMAIN b.players = {order[j] : j \in 1 .. i + 1}
      BY <1>3, <2>2, <2>7, <2>8
  <2> QED
      BY <1>3, <2>1, <2>2, <2>6, <2>7, <2>9
<1> HIDE DEF S
<1>4. n \in S
    BY <1>2, <1>3, Induction
<1>5. Good(n) /\ f[n] = After(v, q)
    BY <1>0, <1>1, <1>4 DEF S, Steps
<1> QED
    BY <1>5

-----------------------------------------------------------------------------
(* The client's tables and a lobby *)

\* The tables f show the lobby with the players' fields in table, but for the
\* topics in loose.
Matches(f, lobby, table, loose) ==
    /\ Shape(f)
    /\ f.pid = Me /\ f.master = lobby.master /\ f.listed = lobby.listed
    /\ DOMAIN f.players = lobby.players \ {Me}
    /\ \A x \in DOMAIN f.players : f.players[x] = table[x].metadata
    /\ \A k \in Key \ loose : SameAt(f.meta, lobby.metadata, k)
    /\ "capacity" \notin loose => f.capacity = lobby.capacity

\* All of the lobby a but the fields in F is in b, too; the same for the players in S.
Kept(a, b, F) ==
    \A x \in {"players", "master", "listed", "capacity", "metadata"} \ F : b[x] = a[x]
Untouched(t, u, S) == \A x \in S : u[x].metadata = t[x].metadata

\* The message m says how the lobby a, with table t, became b with u.
Says(m, a, t, b, u) ==
    \/ /\ m.type = "SetListed" /\ b.listed = m.listed
       /\ Kept(a, b, {"listed"}) /\ Untouched(t, u, a.players)
    \/ /\ m.type = "SetCapacity" /\ b.capacity = m.capacity
       /\ Kept(a, b, {"capacity"}) /\ Untouched(t, u, a.players)
    \/ /\ m.type = "SetMaster" /\ b.master = m.pid
       /\ Kept(a, b, {"master"}) /\ Untouched(t, u, a.players)
    \/ /\ m.type = "SetLobbyMeta" /\ b.metadata = Put(a.metadata, m.key, m.value)
       /\ Kept(a, b, {"metadata"}) /\ Untouched(t, u, a.players)
    \/ /\ m.type = "EraseLobbyMeta" /\ b.metadata = Without(a.metadata, m.key)
       /\ Kept(a, b, {"metadata"}) /\ Untouched(t, u, a.players)
    \/ /\ m.type = "SetPlayerMeta"
       /\ u[m.pid].metadata = Put(t[m.pid].metadata, m.key, m.value)
       /\ Kept(a, b, {}) /\ Untouched(t, u, a.players \ {m.pid})
    \/ /\ m.type = "ErasePlayerMeta"
       /\ u[m.pid].metadata = Without(t[m.pid].metadata, m.key)
       /\ Kept(a, b, {}) /\ Untouched(t, u, a.players \ {m.pid})
    \/ /\ m.type = "Joined" /\ m.pid \notin a.players \cup {Me}
       /\ b.players = a.players \cup {m.pid} /\ u[m.pid].metadata = m.metadata
       /\ Kept(a, b, {"players"}) /\ Untouched(t, u, a.players)
    \/ /\ m.type = "Left" /\ m.pid # Me /\ b.players = a.players \ {m.pid}
       /\ Kept(a, b, {"players"}) /\ Untouched(t, u, b.players)

\* Handling such a message is all it takes.
LEMMA SaysMatches ==
    ASSUME NEW f, NEW a, NEW t, NEW b, NEW u, NEW loose, Matches(f, a, t, loose),
           NEW m \in Traffic, Says(m, a, t, b, u)
    PROVE  Matches(Handle(f, m), b, u, loose \ {Topic(m)})
<1>0. /\ DOMAIN f = ViewFields /\ Shape(Handle(f, m))
      /\ {"players", "master", "listed", "capacity", "metadata"} \ {} =
            {"players", "master", "listed", "capacity", "metadata"}
    BY HandleShape DEF Matches, Shape
<1> DEFINE h == Handle(f, m)
           now == loose \ {Topic(m)}
<1>1. CASE m.type \in {"SetListed", "SetMaster"}
  <2>1. /\ h.pid = f.pid /\ h.players = f.players /\ h.meta = f.meta
        /\ h.capacity = f.capacity
        /\ h.master = IF m.type = "SetMaster" THEN m.pid ELSE f.master
        /\ h.listed = IF m.type = "SetListed" THEN m.listed ELSE f.listed
      BY <1>0, <1>1 DEF Handle, GotSetListed, GotSetMaster, ViewFields
  <2>2. Topic(m) = "other"
      BY <1>1 DEF Topic
  <2>3. Key \ now = Key \ loose /\ ("capacity" \in now <=> "capacity" \in loose)
      BY <2>2, TopicAssumption
  <2> HIDE DEF h, now
  <2>4. /\ b.players = a.players /\ b.capacity = a.capacity /\ b.metadata = a.metadata
        /\ b.master = h.master /\ b.listed = h.listed
        /\ Untouched(t, u, a.players)
      BY <1>1, <2>1 DEF Says, Kept, Matches
  <2> QED
      BY <1>0, <2>1, <2>3, <2>4 DEF Matches, Untouched, h, now
<1>2. CASE m.type = "SetCapacity"
  <2>1. /\ h.pid = f.pid /\ h.players = f.players /\ h.meta = f.meta
        /\ h.capacity = m.capacity /\ h.master = f.master /\ h.listed = f.listed
      BY <1>0, <1>2 DEF Handle, GotSetCapacity, ViewFields
  <2>2. Topic(m) = "capacity"
      BY <1>2 DEF Topic
  <2>3. Key \ now = Key \ loose
      BY <2>2, TopicAssumption
  <2> HIDE DEF h, now
  <2>4. /\ b.players = a.players /\ b.capacity = m.capacity /\ b.metadata = a.metadata
        /\ b.master = a.master /\ b.listed = a.listed
        /\ Untouched(t, u, a.players)
      BY <1>2 DEF Says, Kept
  <2> QED
      BY <1>0, <2>1, <2>3, <2>4 DEF Matches, Untouched, h, now
<1>3. CASE m.type \in {"SetLobbyMeta", "EraseLobbyMeta"}
  <2>1. /\ h.pid = f.pid /\ h.players = f.players /\ h.capacity = f.capacity
        /\ h.master = f.master /\ h.listed = f.listed
        /\ h.meta = IF m.type = "SetLobbyMeta" THEN Put(f.meta, m.key, m.value)
                    ELSE Without(f.meta, m.key)
      BY <1>0, <1>3 DEF Handle, GotLobbyMeta, ViewFields
  <2>2. Topic(m) = m.key /\ m.key \in Key
      BY <1>3 DEF Topic, Traffic, Naming, Message
  <2>3. /\ "capacity" \in now <=> "capacity" \in loose
        /\ \A k \in Key \ now : k = m.key \/ k \in Key \ loose
      BY <2>2, TopicAssumption
  <2> HIDE DEF h, now
  <2>4. /\ b.players = a.players /\ b.capacity = a.capacity
        /\ b.master = a.master /\ b.listed = a.listed
        /\ b.metadata = IF m.type = "SetLobbyMeta" THEN Put(a.metadata, m.key, m.value)
                        ELSE Without(a.metadata, m.key)
        /\ Untouched(t, u, a.players)
      BY <1>3 DEF Says, Kept
  <2>5. ASSUME NEW k \in Key \ now PROVE SameAt(h.meta, b.metadata, k)
    <3>1. k # m.key => SameAt(f.meta, a.metadata, k)
        BY <2>3 DEF Matches
    <3> QED
        BY <2>1, <2>4, <3>1 DEF SameAt, Put, Without
  <2> QED
      BY <1>0, <2>1, <2>3, <2>4, <2>5 DEF Matches, Untouched, h, now
<1>4. CASE m.type \in {"SetPlayerMeta", "ErasePlayerMeta"}
  <2> DEFINE new(g) == IF m.type = "SetPlayerMeta" THEN Put(g, m.key, m.value)
                       ELSE Without(g, m.key)
  <2>1. h = GotPlayerMeta(f, m)
      BY <1>4 DEF Handle
  <2>2. /\ h.pid = f.pid /\ h.master = f.master /\ h.listed = f.listed
        /\ h.meta = f.meta /\ h.capacity = f.capacity
        /\ DOMAIN h.players = DOMAIN f.players
        /\ \A x \in DOMAIN f.players : h.players[x] =
              IF x = m.pid /\ m.pid # f.pid THEN new(f.players[x]) ELSE f.players[x]
      BY <1>0, <2>1 DEF GotPlayerMeta, ViewFields
  <2>3. Topic(m) = "other"
      BY <1>4 DEF Topic
  <2>4. Key \ now = Key \ loose /\ ("capacity" \in now <=> "capacity" \in loose)
      BY <2>3, TopicAssumption
  <2> HIDE DEF h, now
  <2>5. /\ b.players = a.players /\ b.capacity = a.capacity /\ b.metadata = a.metadata
        /\ b.master = a.master /\ b.listed = a.listed
        /\ u[m.pid].metadata = new(t[m.pid].metadata)
        /\ Untouched(t, u, a.players \ {m.pid})
      BY <1>0, <1>4 DEF Says, Kept
  <2> HIDE DEF new
  <2>6. \A x \in DOMAIN h.players : h.players[x] = u[x].metadata
      BY <2>2, <2>5 DEF Matches, Untouched
  <2> QED
      BY <1>0, <2>2, <2>4, <2>5, <2>6 DEF Matches, h, now
<1>5. CASE m.type = "Joined"
  <2>1. h = GotJoined(f, m)
      BY <1>5 DEF Handle
  <2>2. Topic(m) = "other"
      BY <1>5 DEF Topic
  <2>3. Key \ now = Key \ loose /\ ("capacity" \in now <=> "capacity" \in loose)
      BY <2>2, TopicAssumption
  <2>4. /\ m.pid \notin a.players \cup {Me} /\ b.players = a.players \cup {m.pid}
        /\ b.capacity = a.capacity /\ b.metadata = a.metadata
        /\ b.master = a.master /\ b.listed = a.listed
        /\ u[m.pid].metadata = m.metadata /\ Untouched(t, u, a.players)
      BY <1>5 DEF Says, Kept
  <2>5. m.pid \notin DOMAIN f.players
      BY <2>4 DEF Matches
  <2>6. /\ h.pid = f.pid /\ h.master = f.master /\ h.listed = f.listed
        /\ h.meta = f.meta /\ h.capacity = f.capacity
        /\ DOMAIN h.players = DOMAIN f.players \cup {m.pid}
        /\ h.players[m.pid] = m.metadata
        /\ \A x \in DOMAIN f.players : h.players[x] = f.players[x]
      BY <1>0, <2>1, <2>5 DEF GotJoined, Put, ViewFields
  <2> HIDE DEF h, now
  <2>7. \A x \in DOMAIN h.players : h.players[x] = u[x].metadata
      BY <2>4, <2>6 DEF Matches, Untouched
  <2> QED
      BY <1>0, <2>3, <2>4, <2>6, <2>7 DEF Matches, h, now
<1>6. CASE m.type = "Left"
  <2>1. h = GotLeft(f, m)
      BY <1>6 DEF Handle
  <2>2. Topic(m) = "other"
      BY <1>6 DEF Topic
  <2>3. Key \ now = Key \ loose /\ ("capacity" \in now <=> "capacity" \in loose)
      BY <2>2, TopicAssumption
  <2>4. /\ m.pid # Me /\ b.players = a.players \ {m.pid}
        /\ b.capacity = a.capacity /\ b.metadata = a.metadata
        /\ b.master = a.master /\ b.listed = a.listed /\ Untouched(t, u, b.players)
      BY <1>6 DEF Says, Kept
  <2>5. /\ h.pid = f.pid /\ h.master = f.master /\ h.listed = f.listed
        /\ h.meta = f.meta /\ h.capacity = f.capacity
        /\ DOMAIN h.players = DOMAIN f.players \ {m.pid}
        /\ \A x \in DOMAIN h.players : h.players[x] = f.players[x]
      BY <1>0, <2>1 DEF GotLeft, Without, ViewFields
  <2> HIDE DEF h, now
  <2>6. \A x \in DOMAIN h.players : h.players[x] = u[x].metadata
      BY <2>4, <2>5 DEF Matches, Untouched
  <2> QED
      BY <1>0, <2>3, <2>4, <2>5, <2>6 DEF Matches, h, now
<1>7. m.type \in {"SetListed", "SetCapacity", "SetMaster", "SetLobbyMeta", "EraseLobbyMeta",
                  "SetPlayerMeta", "ErasePlayerMeta", "Joined", "Left"}
    BY DEF Says
<1> QED
    BY <1>1, <1>2, <1>3, <1>4, <1>5, <1>6, <1>7

\* The topics of a queue.
Topics(s) == {Topic(s[i]) : i \in 1 .. Len(s)}

LEMMA TopicsConcat ==
    ASSUME NEW s \in Seq(Traffic), NEW t \in Seq(Traffic)
    PROVE  Topics(s \o t) = Topics(s) \cup Topics(t)
<1>1. PICK q, a, b : q = s \o t /\ a = Len(s) /\ b = Len(t)
    OBVIOUS
<1>2. /\ Len(q) = a + b /\ a \in Nat /\ b \in Nat
      /\ \A i \in 1 .. a : q[i] = s[i]
      /\ \A i \in 1 .. b : q[a + i] = t[i]
    BY <1>1, ConcatProperties
<1>3. ASSUME NEW i \in 1 .. Len(q) PROVE Topic(q[i]) \in Topics(s) \cup Topics(t)
  <2>1. CASE i \in 1 .. a
      BY <1>1, <1>2, <2>1 DEF Topics
  <2>2. CASE i \notin 1 .. a
    <3>1. i - a \in 1 .. b /\ i = a + (i - a)
        BY <1>2, <2>2
    <3>2. q[i] = t[i - a]
        BY <1>2, <3>1
    <3> QED
        BY <1>1, <3>1, <3>2 DEF Topics
  <2> QED
      BY <2>1, <2>2
<1>4. ASSUME NEW i \in 1 .. a PROVE Topic(s[i]) \in Topics(q)
  <2>1. i \in 1 .. Len(q) /\ q[i] = s[i]
      BY <1>2
  <2> QED
      BY <2>1 DEF Topics
<1>5. ASSUME NEW i \in 1 .. b PROVE Topic(t[i]) \in Topics(q)
  <2>1. a + i \in 1 .. Len(q) /\ q[a + i] = t[i]
      BY <1>2
  <2> QED
      BY <2>1 DEF Topics
<1>6. Topics(q) \subseteq Topics(s) \cup Topics(t)
    BY <1>3 DEF Topics
<1>7. Topics(s) \subseteq Topics(q) /\ Topics(t) \subseteq Topics(q)
    BY <1>1, <1>4, <1>5 DEF Topics
<1> QED
    BY <1>1, <1>6, <1>7

LEMMA TopicsOne ==
    ASSUME NEW m
    PROVE  Topics(<<m>>) = {Topic(m)} /\ Topics(<< >>) = {}
<1>1. Len(<<m>>) = 1 /\ <<m>>[1] = m /\ 1 .. 1 = {1} /\ Len(<< >>) = 0 /\ 1 .. 0 = {}
    OBVIOUS
<1> QED
    BY <1>1 DEF Topics

\* One queue behind another.
Queue == Seq(Traffic)
Behind(q, s, t) ==
    /\ q \in Queue /\ Len(q) = Len(s) + Len(t) /\ Len(s) \in Nat /\ Len(t) \in Nat
    /\ Topics(q) = Topics(s) \cup Topics(t)
    /\ \A v : After(v, q) = After(After(v, s), t)

LEMMA IsBehind ==
    ASSUME NEW s \in Queue, NEW t \in Queue
    PROVE  Behind(s \o t, s, t)
<1>1. s \in Seq(Traffic) /\ t \in Seq(Traffic)
    BY DEF Queue
<1>2. /\ s \o t \in Seq(Traffic) /\ Len(s \o t) = Len(s) + Len(t)
      /\ Len(s) \in Nat /\ Len(t) \in Nat
    BY <1>1, ConcatProperties
<1>3. \A v : After(v, s \o t) = After(After(v, s), t)
    BY <1>1, AfterConcat
<1>4. Topics(s \o t) = Topics(s) \cup Topics(t)
    BY <1>1, TopicsConcat
<1> QED
    BY <1>2, <1>3, <1>4 DEF Behind, Queue

\* The welcome shows a client without players the lobby it enters, and confirms
\* the capacity and the fields that the lobby has.
LEMMA WelcomeMatches ==
    ASSUME Roomy, TablesOK, NEW v, DOMAIN v = ViewFields, v.players = << >>,
           NEW loose, Key \cap DOMAIN v.meta \subseteq loose,
           NEW l \in LobbyId, NEW lobby \in Lobby, lobby.players \subseteq DOMAIN players \ {Me},
           Cardinality(lobby.players) =< lobby.capacity,
           NEW keys \in Orders(DOMAIN lobby.metadata),
           NEW order \in Orders(lobby.players \cap DOMAIN players),
           NEW b, Kept(lobby, b, {"players"}), b.players = lobby.players \cup {Me},
           NEW u, Untouched(players, u, lobby.players),
           NEW s, s = Welcome(Me, l, lobby, keys, order)
    PROVE  /\ s \in Queue /\ Len(s) =< 4 + MAX_FIELDS + lobby.capacity
           /\ Matches(After(v, s), b, u, loose \ Topics(s))
<1>1. /\ lobby.listed \in BOOLEAN /\ lobby.capacity \in Capacity /\ lobby.master \in Pid
      /\ lobby.metadata \in Metadata /\ lobby.players \in SUBSET Pid /\ l.lid \in Lid
      /\ Me \in Pid
    BY ViewAssumption DEF Lobby, LobbyId
<1>2. PICK m1, m2, m4, m6, table :
      /\ m1 = [type |-> "SetListed", listed |-> lobby.listed]
      /\ m2 = [type |-> "SetCapacity", capacity |-> lobby.capacity]
      /\ m4 = [type |-> "Connected", lid |-> l.lid, pid |-> Me]
      /\ m6 = [type |-> "SetMaster", pid |-> lobby.master]
      /\ table = players
    OBVIOUS
<1>3. PICK fields, joins :
      /\ fields = [i \in DOMAIN keys |->
            [type |-> "SetLobbyMeta", key |-> keys[i], value |-> lobby.metadata[keys[i]]]]
      /\ joins = [i \in DOMAIN order |-> Joined(order[i], table[order[i]].metadata)]
    OBVIOUS
<1>4. /\ m1 \in Traffic /\ m2 \in Traffic /\ m4 \in Traffic /\ m6 \in Traffic
    BY <1>1, <1>2, MessageTypes, NamingTypes DEF Traffic
<1>5. s = <<m1>> \o <<m2>> \o fields \o <<m4>> \o joins \o <<m6>>
    BY <1>2, <1>3 DEF Welcome, Emit, EmitAll, Roomy
<1>6. PICK n \in Nat :
         /\ n =< MAX_FIELDS /\ keys \in [1 .. n -> DOMAIN lobby.metadata]
         /\ \A k \in DOMAIN lobby.metadata : \E i \in 1 .. n : keys[i] = k
  <2>1. IsFiniteSet(DOMAIN lobby.metadata) /\ Cardinality(DOMAIN lobby.metadata) =< MAX_FIELDS
      BY <1>1, MetadataFacts DEF Metadata
  <2> QED
      BY <2>1, OrdersOnto
<1>7. PICK o \in Nat :
         /\ o =< lobby.capacity /\ order \in [1 .. o -> lobby.players]
         /\ \A x \in lobby.players : \E i \in 1 .. o : order[i] = x
  <2>1. lobby.players \cap DOMAIN players = lobby.players
      OBVIOUS
  <2>2. IsFiniteSet(lobby.players) /\ lobby.capacity \in Nat
      BY <1>1, FiniteAssumption, CapsAssumption, FS_Subset
  <2>3. order \in Orders(lobby.players)
      BY <2>1
  <2> QED
      BY <2>2, <2>3, OrdersOnto
<1>8. /\ fields \in Seq(Traffic) /\ Len(fields) = n
      /\ \A i \in 1 .. n : fields[i] = [type |-> "SetLobbyMeta", key |-> keys[i],
                                        value |-> lobby.metadata[keys[i]]]
  <2>1. \A i \in 1 .. n : keys[i] \in Key /\ lobby.metadata[keys[i]] \in Value
      BY <1>1, <1>6, MetadataFacts
  <2>2. DOMAIN fields = 1 .. n /\ \A i \in 1 .. n : fields[i] \in Traffic
      BY <1>3, <1>6, <2>1, MessageTypes, NamingTypes DEF Traffic
  <2>3. fields \in [1 .. n -> Traffic]
      BY <1>3, <2>2
  <2>4. fields \in Seq(Traffic) /\ Len(fields) = n
      BY <2>3
  <2> QED
      BY <1>3, <2>2, <2>4
<1>9. /\ joins \in Seq(Traffic) /\ Len(joins) = o
      /\ \A i \in 1 .. o : joins[i] = Joined(order[i], table[order[i]].metadata)
  <2>1. \A i \in 1 .. o : order[i] \in Pid /\ table[order[i]].metadata \in Metadata
      BY <1>1, <1>2, <1>7 DEF TablesOK, Player
  <2>2. DOMAIN joins = 1 .. o /\ \A i \in 1 .. o : joins[i] \in Traffic
      BY <1>3, <1>7, <2>1, MessageTypes DEF Traffic, Naming, Joined
  <2>3. joins \in [1 .. o -> Traffic]
      BY <1>3, <2>2
  <2>4. joins \in Seq(Traffic) /\ Len(joins) = o
      BY <2>3
  <2> QED
      BY <1>3, <2>2, <2>4
<1>10. PICK s1, s2, s4, s6 : s1 = <<m1>> /\ s2 = <<m2>> /\ s4 = <<m4>> /\ s6 = <<m6>>
    OBVIOUS
<1>11. /\ s1 \in Seq(Traffic) /\ s2 \in Seq(Traffic) /\ s4 \in Seq(Traffic) /\ s6 \in Seq(Traffic)
       /\ Len(s1) = 1 /\ Len(s2) = 1 /\ Len(s4) = 1 /\ Len(s6) = 1
    BY <1>4, <1>10
<1>12. PICK q2, q3, q4, q5 :
          q2 = s1 \o s2 /\ q3 = q2 \o fields /\ q4 = q3 \o s4 /\ q5 = q4 \o joins
    OBVIOUS
<1>13. s = q5 \o s6
    BY <1>5, <1>10, <1>12
<1>14. /\ Behind(q2, s1, s2) /\ Behind(q3, q2, fields) /\ Behind(q4, q3, s4)
       /\ Behind(q5, q4, joins) /\ Behind(s, q5, s6)
  <2>0. /\ fields \in Queue /\ joins \in Queue
        /\ s1 \in Queue /\ s2 \in Queue /\ s4 \in Queue /\ s6 \in Queue
      BY <1>8, <1>9, <1>11 DEF Queue
  <2>1. \A x, y \in Queue : Behind(x \o y, x, y) /\ x \o y \in Queue
      BY IsBehind DEF Behind
  <2>2. q2 \in Queue /\ Behind(q2, s1, s2)
      BY <1>12, <2>0, <2>1
  <2>3. q3 \in Queue /\ Behind(q3, q2, fields)
      BY <1>12, <2>0, <2>1, <2>2
  <2>4. q4 \in Queue /\ Behind(q4, q3, s4)
      BY <1>12, <2>0, <2>1, <2>3
  <2>5. q5 \in Queue /\ Behind(q5, q4, joins)
      BY <1>12, <2>0, <2>1, <2>4
  <2>6. Behind(s, q5, s6)
      BY <1>13, <2>0, <2>1, <2>5
  <2> QED
      BY <2>2, <2>3, <2>4, <2>5, <2>6
<1>15. Len(s) =< 4 + MAX_FIELDS + lobby.capacity
  <2>1. MAX_FIELDS \in Nat /\ lobby.capacity \in Nat
      BY <1>1, CapsAssumption
  <2>2. Len(s) = 4 + n + o
    <3>1. /\ Len(q2) = Len(s1) + Len(s2) /\ Len(q3) = Len(q2) + Len(fields)
          /\ Len(q4) = Len(q3) + Len(s4) /\ Len(q5) = Len(q4) + Len(joins)
          /\ Len(s) = Len(q5) + Len(s6)
        BY <1>14 DEF Behind
    <3>2. n \in Nat /\ o \in Nat /\ Len(fields) = n /\ Len(joins) = o
        BY <1>6, <1>7, <1>8, <1>9
    <3>3. Len(s1) = 1 /\ Len(s2) = 1 /\ Len(s4) = 1 /\ Len(s6) = 1
        BY <1>11
    <3>4. Len(q4) = 3 + n
        BY <3>1, <3>2, <3>3
    <3> QED
        BY <3>1, <3>2, <3>3, <3>4
  <2> QED
      BY <1>6, <1>7, <2>1, <2>2
<1>16. PICK v1, v2, v3, v4, v5, v6 :
          /\ v1 = Handle(v, m1) /\ v2 = Handle(v1, m2) /\ v3 = After(v2, fields)
          /\ v4 = Handle(v3, m4) /\ v5 = After(v4, joins) /\ v6 = Handle(v5, m6)
    OBVIOUS
<1>17. After(v, s) = v6
  <2>1. /\ After(v, s1) = v1 /\ After(v1, s2) = v2 /\ After(v3, s4) = v4 /\ After(v5, s6) = v6
      BY <1>10, <1>16, AfterOne
  <2>2. /\ After(v, q2) = After(After(v, s1), s2) /\ After(v, q3) = After(After(v, q2), fields)
        /\ After(v, q4) = After(After(v, q3), s4) /\ After(v, q5) = After(After(v, q4), joins)
        /\ After(v, s) = After(After(v, q5), s6)
      BY <1>14 DEF Behind
  <2> QED
      BY <1>16, <2>1, <2>2
<1>18. /\ DOMAIN v2 = ViewFields /\ v2.listed = lobby.listed /\ v2.capacity = lobby.capacity
       /\ v2.meta = v.meta /\ v2.players = << >>
    BY <1>2, <1>16 DEF Handle, GotSetListed, GotSetCapacity, ViewFields
<1>19. /\ DOMAIN v3 = ViewFields /\ v3.listed = lobby.listed /\ v3.capacity = lobby.capacity
       /\ v3.players = << >>
       /\ DOMAIN v3.meta = DOMAIN v.meta \cup {keys[i] : i \in 1 .. n}
       /\ \A i \in 1 .. n : v3.meta[keys[i]] = lobby.metadata[keys[i]]
  <2>1. Fields(fields, n, keys, lobby.metadata)
      BY <1>8 DEF Fields
  <2> QED
      BY <1>16, <1>18, <2>1, AfterFields
<1>20. /\ DOMAIN v4 = ViewFields /\ v4.listed = lobby.listed /\ v4.capacity = lobby.capacity
       /\ v4.players = << >> /\ v4.pid = Me /\ v4.meta = v3.meta
    BY <1>2, <1>16, <1>19 DEF Handle, GotConnected, ViewFields
<1>21. /\ DOMAIN v5 = ViewFields /\ v5.listed = lobby.listed /\ v5.capacity = lobby.capacity
       /\ v5.pid = Me /\ v5.meta = v3.meta
       /\ IsTable(v5.players) /\ DOMAIN v5.players = {order[i] : i \in 1 .. o}
       /\ \A x \in DOMAIN v5.players : v5.players[x] = table[x].metadata
  <2>1. Joins(joins, o, order, table)
      BY <1>9 DEF Joins
  <2> QED
      BY <1>16, <1>20, <2>1, AfterJoins
<1>22. /\ DOMAIN v6 = ViewFields /\ v6.listed = lobby.listed /\ v6.capacity = lobby.capacity
       /\ v6.pid = Me /\ v6.meta = v3.meta /\ v6.players = v5.players /\ v6.master = lobby.master
  <2>1. v6 = [v5 EXCEPT !.master = lobby.master]
      BY <1>2, <1>16 DEF Handle, GotSetMaster
  <2>2. /\ DOMAIN v6 = DOMAIN v5 /\ v6.listed = v5.listed /\ v6.capacity = v5.capacity
        /\ v6.pid = v5.pid /\ v6.meta = v5.meta /\ v6.players = v5.players
        /\ v6.master = lobby.master
      BY <1>21, <2>1 DEF ViewFields
  <2> QED
      BY <1>21, <2>2
<1>23. DOMAIN v5.players = lobby.players
    BY <1>7, <1>21
<1>24. Key \cap Topics(s) \subseteq DOMAIN lobby.metadata
  <2>1. /\ Topics(s1) = {"other"} /\ Topics(s2) = {"capacity"}
        /\ Topics(s4) = {"other"} /\ Topics(s6) = {"other"}
      BY <1>2, <1>10, TopicsOne DEF Topic
  <2>2. Topics(fields) \subseteq DOMAIN lobby.metadata
      BY <1>6, <1>8 DEF Topics, Topic
  <2>3. Topics(joins) \subseteq {"other"}
      BY <1>9 DEF Topics, Topic, Joined
  <2>4. Topics(s) = Topics(s1) \cup Topics(s2) \cup Topics(fields) \cup Topics(s4)
                    \cup Topics(joins) \cup Topics(s6)
      BY <1>14 DEF Behind
  <2> QED
      BY <2>1, <2>2, <2>3, <2>4, TopicAssumption
<1>25. ASSUME NEW k \in Key \ (loose \ Topics(s)) PROVE SameAt(v6.meta, lobby.metadata, k)
  <2>1. CASE k \in DOMAIN lobby.metadata
    <3>1. PICK i \in 1 .. n : keys[i] = k
        BY <1>6, <2>1
    <3> QED
        BY <1>19, <1>22, <2>1, <3>1 DEF SameAt
  <2>2. CASE k \notin DOMAIN lobby.metadata
    <3>1. k \notin DOMAIN v.meta
        BY <1>24, <1>25, <2>2
    <3>2. \A i \in 1 .. n : keys[i] # k
        BY <1>6, <2>2
    <3> QED
        BY <1>19, <1>22, <2>2, <3>1, <3>2 DEF SameAt
  <2> QED
      BY <2>1, <2>2
<1>26. /\ b.master = lobby.master /\ b.listed = lobby.listed /\ b.capacity = lobby.capacity
       /\ b.metadata = lobby.metadata /\ b.players \ {Me} = lobby.players
    BY DEF Kept
<1>27. \A x \in DOMAIN v6.players : v6.players[x] = u[x].metadata
    BY <1>2, <1>21, <1>22, <1>23 DEF Untouched
<1>28. Shape(v6)
    BY <1>21, <1>22 DEF Shape
<1>29. Matches(v6, b, u, loose \ Topics(s))
    BY <1>22, <1>23, <1>25, <1>26, <1>27, <1>28 DEF Matches
<1> QED
    BY <1>14, <1>15, <1>17, <1>29 DEF Behind

-----------------------------------------------------------------------------
(* What a step of the event loop tells the client *)

\* What is sent to Me arrives whole.
LEMMA Delivered ==
    ASSUME Roomy, NEW box, BoxOK(box), Me \in DOMAIN box, Len(box[Me]) =< MaxBacklog,
           NEW c \in Capacity \cup {0}, NEW sent, sent[Me] \in Queue,
           Len(sent[Me]) =< 4 + MAX_FIELDS + c, try_send(box, sent)
    PROVE  DOMAIN outbox' = DOMAIN box /\ outbox'[Me] = box[Me] \o sent[Me]
<1> DEFINE heard == DOMAIN box \cap Watched
<1>1. PICK kept :
        /\ \A p \in heard : kept[p] \in Accepted(box[p], sent[p])
        /\ outbox' = [p \in DOMAIN box |-> IF p \in heard THEN box[p] \o kept[p] ELSE << >>]
    BY DEF try_send
<1>2. PICK r \in Slots : kept[Me] \in Fitting(sent[Me], Least(r, QUEUE_CAP - Len(box[Me])))
    BY <1>1 DEF Roomy, Accepted
<1>3. PICK s, n, b, k : s = sent[Me] /\ n = Len(s) /\ b = Len(box[Me]) /\ k = kept[Me]
    OBVIOUS
<1>4. /\ s \in Seq(Traffic) /\ n \in Nat /\ b \in Nat /\ b =< MaxBacklog
      /\ n =< 4 + MAX_FIELDS + c
    BY <1>3 DEF BoxOK, Queue
<1>5. /\ MaxBacklog \in Nat /\ QUEUE_CAP \in Nat /\ MAX_FIELDS \in Nat
      /\ c \in Nat /\ r \in Nat
  <2>1. Slots \subseteq Nat /\ Capacity \subseteq Nat /\ MAX_FIELDS \in Nat /\ QUEUE_CAP \in Nat
      BY CapsAssumption
  <2>2. c \in Nat /\ r \in Nat
      BY <1>2, <2>1
  <2> QED
      BY <2>1, <2>2, ViewAssumption
<1>6. r >= n /\ QUEUE_CAP - b >= n
  <2>1. r >= 4 + MAX_FIELDS + c /\ QUEUE_CAP >= MaxBacklog + 4 + MAX_FIELDS + c
      BY <1>2 DEF Roomy
  <2> QED
      BY <1>4, <1>5, <2>1
<1>7. n =< Least(r, QUEUE_CAP - b)
    BY <1>4, <1>5, <1>6 DEF Least
<1>8. k = s
    BY <1>2, <1>3, <1>7 DEF Fitting
<1>9. DOMAIN outbox' = DOMAIN box /\ outbox'[Me] = box[Me] \o k
    BY <1>1, <1>3 DEF Roomy
<1> QED
    BY <1>3, <1>8, <1>9

\* The messages in s say how the lobby a, with table t, became b with u.
Tells(s, a, t, b, u) ==
    \/ s = << >> /\ Kept(a, b, {}) /\ Untouched(t, u, a.players)
    \/ \E m \in Traffic : s = <<m>> /\ Says(m, a, t, b, u)
    \/ \E m, n \in Traffic : \E c : /\ s = <<m>> \o <<n>>
                                    /\ Says(m, a, t, c, u) /\ Says(n, c, u, b, u)

LEMMA TellsMatches ==
    ASSUME NEW f, NEW a, NEW t, NEW b, NEW u, NEW loose, Matches(f, a, t, loose),
           NEW s, Tells(s, a, t, b, u)
    PROVE  Matches(After(f, s), b, u, loose \ Topics(s))
<1>1. CASE s = << >> /\ Kept(a, b, {}) /\ Untouched(t, u, a.players)
  <2>1. After(f, s) = f /\ loose \ Topics(s) = loose
      BY <1>1, AfterEmpty, TopicsOne
  <2>2. /\ b.players = a.players /\ b.capacity = a.capacity /\ b.metadata = a.metadata
        /\ b.master = a.master /\ b.listed = a.listed
    <3>1. {"players", "master", "listed", "capacity", "metadata"} \ {} =
            {"players", "master", "listed", "capacity", "metadata"}
        OBVIOUS
    <3> QED
        BY <1>1, <3>1 DEF Kept
  <2>3. \A x \in DOMAIN f.players : f.players[x] = u[x].metadata
      BY <1>1 DEF Matches, Untouched
  <2> QED
      BY <2>1, <2>2, <2>3 DEF Matches
<1>2. CASE \E m \in Traffic : s = <<m>> /\ Says(m, a, t, b, u)
  <2>1. PICK m \in Traffic : s = <<m>> /\ Says(m, a, t, b, u)
      BY <1>2
  <2>2. After(f, s) = Handle(f, m) /\ Topics(s) = {Topic(m)}
      BY <2>1, AfterOne, TopicsOne
  <2> QED
      BY <2>1, <2>2, SaysMatches
<1>3. CASE \E m, n \in Traffic : \E c : /\ s = <<m>> \o <<n>>
                                        /\ Says(m, a, t, c, u) /\ Says(n, c, u, b, u)
  <2>0. PICK m \in Traffic, n \in Traffic : \E c : /\ s = <<m>> \o <<n>>
                                        /\ Says(m, a, t, c, u) /\ Says(n, c, u, b, u)
      BY <1>3
  <2>1. PICK c : s = <<m>> \o <<n>> /\ Says(m, a, t, c, u) /\ Says(n, c, u, b, u)
      BY <2>0
  <2>2. PICK x, y : x = <<m>> /\ y = <<n>>
      OBVIOUS
  <2>3. x \in Queue /\ y \in Queue
      BY <2>2 DEF Queue
  <2>4. Behind(s, x, y)
      BY <2>1, <2>2, <2>3, IsBehind
  <2>5. /\ After(f, s) = Handle(Handle(f, m), n)
        /\ loose \ Topics(s) = (loose \ {Topic(m)}) \ {Topic(n)}
      BY <2>2, <2>4, AfterOne, TopicsOne DEF Behind
  <2>6. Matches(Handle(f, m), c, u, loose \ {Topic(m)})
      BY <2>1, SaysMatches
  <2>7. Matches(Handle(Handle(f, m), n), b, u, (loose \ {Topic(m)}) \ {Topic(n)})
      BY <2>1, <2>6, SaysMatches
  <2> QED
      BY <2>5, <2>7
<1> QED
    BY <1>1, <1>2, <1>3 DEF Tells

\* Me is sent s, which says what has become of its lobby, or ends the connection.
Informed(s) ==
    /\ s \in Queue /\ Me \in DOMAIN outbox' /\ outbox'[Me] = outbox[Me] \o s
    /\ \/ Tells(s, LobbyOf(Me), players, LobbyOf(Me)', players')
       \/ \E i \in 1 .. Len(s) : s[i].type = "Disconnected"

\* Me is in a lobby and its channel is not long.
Present ==
    /\ Roomy /\ IInv
    /\ Me \in DOMAIN players /\ Me \in DOMAIN outbox /\ Len(outbox[Me]) =< MaxBacklog

\* A short message to some.
LEMMA ShortDelivered ==
    ASSUME Present, NEW sent, try_send(outbox, sent), NEW s \in Queue, sent[Me] = s,
           Len(s) =< 2
    PROVE  Me \in DOMAIN outbox' /\ outbox'[Me] = outbox[Me] \o s
<1>1. MAX_FIELDS \in Nat /\ Len(s) \in Nat
    BY CapsAssumption DEF Queue
<1>2. PICK c \in Capacity \cup {0} : c = 0
    OBVIOUS
<1>3. Len(s) =< 4 + MAX_FIELDS + c
    BY <1>1, <1>2
<1> QED
    BY <1>3, Delivered DEF Present, IInv

LEMMA Short ==
    /\ << >> \in Queue /\ Len(<< >>) = 0
    /\ \A m \in Traffic : <<m>> \in Queue /\ Len(<<m>>) = 1 /\ <<m>>[1] = m
    /\ Roomy => \A m \in Traffic : Emit(m) = <<m>>
<1>1. \A m \in Traffic : m.type \in {"SetListed", "SetCapacity", "SetLobbyMeta",
        "EraseLobbyMeta", "Connected", "Joined", "Left", "SetMaster", "SetPlayerMeta",
        "ErasePlayerMeta", "Disconnected"}
    BY DEF Traffic, Naming, Message
<1> QED
    BY <1>1 DEF Queue, Emit, Roomy

\* Nothing happened to the lobby and nothing was sent.
LEMMA Uninformed ==
    ASSUME Present, Me \in DOMAIN outbox', outbox'[Me] = outbox[Me],
           LobbyOf(Me)' = LobbyOf(Me), Untouched(players, players', LobbyOf(Me).players)
    PROVE  Informed(<< >>)
<1>1. outbox[Me] \in Seq(Message)
    BY DEF Present, IInv, BoxOK
<1>2. outbox[Me] \o << >> = outbox[Me]
    BY <1>1
<1>3. PICK a : a = LobbyOf(Me)
    OBVIOUS
<1>4. Tells(<< >>, a, players, a, players')
    BY <1>3 DEF Tells, Kept
<1> QED
    BY <1>2, <1>3, <1>4, Short DEF Informed

\* One message to Me, or none.
LEMMA SendsOne ==
    ASSUME Present, NEW sent, try_send(outbox, sent), NEW m \in Traffic, sent[Me] = <<m>>
    PROVE  Me \in DOMAIN outbox' /\ outbox'[Me] = outbox[Me] \o <<m>>
<1>1. PICK s : s = <<m>>
    OBVIOUS
<1>2. s \in Queue /\ Len(s) =< 2
    BY <1>1, Short
<1> QED
    BY <1>1, <1>2, ShortDelivered

LEMMA SendsNone ==
    ASSUME Present, NEW sent, try_send(outbox, sent), sent[Me] = << >>
    PROVE  Me \in DOMAIN outbox' /\ outbox'[Me] = outbox[Me]
<1>1. PICK s : s = << >>
    OBVIOUS
<1>2. s \in Queue /\ Len(s) =< 2
    BY <1>1, Short
<1>3. Me \in DOMAIN outbox' /\ outbox'[Me] = outbox[Me] \o << >>
    BY <1>1, <1>2, ShortDelivered
<1>4. outbox[Me] \in Seq(Message)
    BY DEF Present, IInv, BoxOK
<1> QED
    BY <1>3, <1>4

\* boot and KickPlayer, for Me or for someone else.
LEMMA NotifyInforms ==
    ASSUME Present, NEW pid \in Pid, NEW reason \in Reason, Notify(pid, Disconnected(reason))
    PROVE  \E s : Informed(s)
<1>1. PICK m, sent : m = Disconnected(reason) /\ sent = send(pid, m)
    OBVIOUS
<1>2. m \in Traffic /\ m.type = "Disconnected"
    BY <1>1, MessageTypes, NamingTypes DEF Traffic, Disconnected
<1>3. Me \in Pid /\ try_send(outbox, sent) /\ players' = players /\ lobbies' = lobbies
    BY <1>1, ViewAssumption DEF Notify
<1>4. LobbyOf(Me)' = LobbyOf(Me) /\ Untouched(players, players', LobbyOf(Me).players)
    BY <1>3 DEF LobbyOf, Untouched
<1>5. CASE pid = Me
  <2>1. sent[Me] = <<m>>
      BY <1>1, <1>2, <1>3, <1>5, Short DEF send, Present
  <2>2. Me \in DOMAIN outbox' /\ outbox'[Me] = outbox[Me] \o <<m>>
      BY <1>2, <1>3, <2>1, SendsOne
  <2>3. Informed(<<m>>)
      BY <1>2, <2>2, Short DEF Informed
  <2> QED
      BY <2>3
<1>6. CASE pid # Me
  <2>1. sent[Me] = << >>
      BY <1>1, <1>3, <1>6 DEF send
  <2>2. Me \in DOMAIN outbox' /\ outbox'[Me] = outbox[Me]
      BY <1>3, <2>1, SendsNone
  <2> QED
      BY <1>4, <2>2, Uninformed
<1> QED
    BY <1>5, <1>6

\* A change of a lobby, announced to its members.
LEMMA UpdateLobbyInforms ==
    ASSUME Present, NEW pid \in DOMAIN players, NEW lobby, lobby.players = LobbyOf(pid).players,
           NEW m \in Traffic, \A t : Says(m, LobbyOf(pid), t, lobby, t),
           UpdateLobby(pid, lobby, m)
    PROVE  \E s : Informed(s)
<1>1. PICK sent, l, k, old : /\ sent = send_to_lobby(lobby, m) /\ l = players[Me].lid
                             /\ k = players[pid].lid /\ old = lobbies
    OBVIOUS
<1>2. /\ Me \in Pid /\ try_send(outbox, sent) /\ players' = players
      /\ lobbies' = [old EXCEPT ![k] = lobby]
    BY <1>1, ViewAssumption DEF UpdateLobby
<1>3. /\ l \in DOMAIN old /\ k \in DOMAIN old /\ Me \in old[l].players
      /\ \A p \in old[k].players : p \in DOMAIN players /\ players[p].lid = k
      /\ lobby.players = old[k].players
    BY <1>1 DEF Present, IInv, Membership, InLobby, LobbyOf
<1>4. /\ LobbyOf(Me) = old[l] /\ LobbyOf(Me)' = IF k = l THEN lobby ELSE old[l]
      /\ LobbyOf(pid) = old[k]
    BY <1>1, <1>2, <1>3 DEF LobbyOf
<1>5. CASE k = l
  <2>1. sent[Me] = <<m>>
      BY <1>1, <1>2, <1>3, <1>5, Short DEF send_to_lobby, Present
  <2>2. Me \in DOMAIN outbox' /\ outbox'[Me] = outbox[Me] \o <<m>>
      BY <1>2, <2>1, SendsOne
  <2>3. Says(m, LobbyOf(Me), players, LobbyOf(Me)', players')
      BY <1>2, <1>4, <1>5
  <2>4. Informed(<<m>>)
      BY <2>2, <2>3, Short DEF Informed, Tells
  <2> QED
      BY <2>4
<1>6. CASE k # l
  <2>1. sent[Me] = << >>
      BY <1>1, <1>2, <1>3, <1>6 DEF send_to_lobby
  <2>2. Me \in DOMAIN outbox' /\ outbox'[Me] = outbox[Me]
      BY <1>2, <2>1, SendsNone
  <2>3. LobbyOf(Me)' = LobbyOf(Me) /\ Untouched(players, players', LobbyOf(Me).players)
      BY <1>2, <1>4, <1>6 DEF Untouched
  <2> QED
      BY <2>2, <2>3, Uninformed
<1> QED
    BY <1>5, <1>6

\* A change of a player's fields, announced to its lobby.
LEMMA UpdatePlayerInforms ==
    ASSUME Present, NEW pid \in DOMAIN players, NEW metadata, NEW m \in Traffic,
           m.pid = pid,
           \/ m.type = "SetPlayerMeta" /\ metadata = Put(players[pid].metadata, m.key, m.value)
           \/ m.type = "ErasePlayerMeta" /\ metadata = Without(players[pid].metadata, m.key),
           UpdatePlayer(pid, metadata, m)
    PROVE  \E s : Informed(s)
<1>0. InLobby(pid)
    BY DEF Present, IInv, Membership
<1>1. PICK sent, l, k, old : /\ sent = send_to_lobby(LobbyOf(pid), m) /\ l = players[Me].lid
                             /\ k = players[pid].lid /\ old = lobbies
    OBVIOUS
<1>2. /\ Me \in Pid /\ try_send(outbox, sent) /\ lobbies' = lobbies
      /\ players' = [players EXCEPT ![pid].metadata = metadata]
    BY <1>0, <1>1, ViewAssumption DEF UpdatePlayer
<1>3. /\ l \in DOMAIN old /\ k \in DOMAIN old /\ Me \in old[l].players
      /\ \A i \in DOMAIN old : \A p \in old[i].players : p \in DOMAIN players /\ players[p].lid = i
    BY <1>1 DEF Present, IInv, Membership, InLobby, LobbyOf
<1>4. /\ \A p \in DOMAIN players \ {pid} : players'[p] = players[p]
      /\ players[pid] \in Player
    BY <1>2 DEF Present, IInv, TablesOK
<1>5. players'[pid].metadata = metadata /\ players'[pid].lid = players[pid].lid
    BY <1>2, <1>4 DEF Player
<1>6. /\ LobbyOf(Me) = old[l] /\ LobbyOf(Me)' = old[l] /\ LobbyOf(pid) = old[k]
      /\ Untouched(players, players', old[l].players \ {pid})
    BY <1>1, <1>2, <1>3, <1>4, <1>5 DEF LobbyOf, Untouched, Present
<1>7. CASE k = l
  <2>1. sent[Me] = <<m>>
      BY <1>1, <1>2, <1>3, <1>6, <1>7, Short DEF send_to_lobby, Present
  <2>2. Me \in DOMAIN outbox' /\ outbox'[Me] = outbox[Me] \o <<m>>
      BY <1>2, <2>1, SendsOne
  <2>3. PICK a, t, u : a = old[l] /\ t = players /\ u = players'
      OBVIOUS
  <2>4. Says(m, a, t, a, u)
      BY <1>5, <1>6, <2>3 DEF Says, Kept
  <2>5. Informed(<<m>>)
      BY <1>6, <2>2, <2>3, <2>4, Short DEF Informed, Tells
  <2> QED
      BY <2>5
<1>8. CASE k # l
  <2>1. sent[Me] = << >>
      BY <1>1, <1>2, <1>3, <1>6, <1>8 DEF send_to_lobby
  <2>2. Me \in DOMAIN outbox' /\ outbox'[Me] = outbox[Me]
      BY <1>2, <2>1, SendsNone
  <2>3. pid \notin old[l].players
      BY <1>1, <1>3, <1>8
  <2>4. LobbyOf(Me)' = LobbyOf(Me) /\ Untouched(players, players', LobbyOf(Me).players)
      BY <1>6, <2>3 DEF Untouched
  <2> QED
      BY <2>2, <2>4, Uninformed
<1> QED
    BY <1>7, <1>8

LEMMA StutterInforms ==
    ASSUME Present, UNCHANGED vars
    PROVE  \E s : Informed(s)
<1>1. outbox' = outbox /\ players' = players /\ lobbies' = lobbies
    BY DEF vars
<1>2. LobbyOf(Me)' = LobbyOf(Me) /\ Untouched(players, players', LobbyOf(Me).players)
    BY <1>1 DEF LobbyOf, Untouched
<1> QED
    BY <1>1, <1>2, Uninformed DEF Present

LEMMA BootInforms ==
    ASSUME Present, NEW pid \in Pid, boot(pid)
    PROVE  \E s : Informed(s)
BY NotifyInforms DEF boot, Reason

\* Whoever is master of a lobby is a player, and the lobby is a lobby.
LEMMA MasterLobby ==
    ASSUME Present, NEW p, IsMaster(p)
    PROVE  p \in DOMAIN players /\ LobbyOf(p) \in Lobby
BY DEF Present, IInv, TablesOK, IsMaster, InLobby, LobbyOf

\* What masters and members do, Me among them.
LEMMA SettersInform ==
    ASSUME Present, NEW p \in Pid
    PROVE  /\ \A c \in Capacity : SetCapacity(p, c) => \E s : Informed(s)
           /\ \A b \in BOOLEAN : SetListed(p, b) => \E s : Informed(s)
           /\ \A q \in Pid : SetMaster(p, q) \/ KickPlayer(p, q) => \E s : Informed(s)
           /\ \A k \in Key, v \in Value : SetLobbyMeta(p, k, v) => \E s : Informed(s)
           /\ \A k \in Key : EraseLobbyMeta(p, k) => \E s : Informed(s)
           /\ \A k \in Key, v \in Value : SetPlayerMeta(p, k, v) => \E s : Informed(s)
           /\ \A k \in Key : ErasePlayerMeta(p, k) => \E s : Informed(s)
<1> DEFINE old == LobbyOf(p)
<1>1. ASSUME NEW c \in Capacity, SetCapacity(p, c) PROVE \E s : Informed(s)
  <2>1. CASE UNCHANGED vars \/ boot(p)
      BY <2>1, StutterInforms, BootInforms
  <2>2. CASE ~(UNCHANGED vars \/ boot(p))
    <3>1. PICK m, new : m = [type |-> "SetCapacity", capacity |-> c]
                        /\ new = [old EXCEPT !.capacity = c]
        OBVIOUS
    <3>2. IsMaster(p) /\ UpdateLobby(p, new, m)
        BY <1>1, <2>2, <3>1 DEF SetCapacity
    <3>3. p \in DOMAIN players /\ old \in Lobby /\ m \in Traffic
        BY <3>1, <3>2, MasterLobby, MessageTypes, NamingTypes DEF Traffic
    <3>4. new.players = old.players /\ \A t : Says(m, old, t, new, t)
        BY <3>1, <3>3 DEF Says, Kept, Untouched, Lobby
    <3> QED
        BY <3>2, <3>3, <3>4, UpdateLobbyInforms
  <2> QED
      BY <2>1, <2>2
<1>2. ASSUME NEW b \in BOOLEAN, SetListed(p, b) PROVE \E s : Informed(s)
  <2>1. CASE UNCHANGED vars \/ boot(p)
      BY <2>1, StutterInforms, BootInforms
  <2>2. CASE ~(UNCHANGED vars \/ boot(p))
    <3>1. PICK m, new : m = [type |-> "SetListed", listed |-> b]
                        /\ new = [old EXCEPT !.listed = b]
        OBVIOUS
    <3>2. IsMaster(p) /\ UpdateLobby(p, new, m)
        BY <1>2, <2>2, <3>1 DEF SetListed
    <3>3. p \in DOMAIN players /\ old \in Lobby /\ m \in Traffic
        BY <3>1, <3>2, MasterLobby, MessageTypes, NamingTypes DEF Traffic
    <3>4. new.players = old.players /\ \A t : Says(m, old, t, new, t)
        BY <3>1, <3>3 DEF Says, Kept, Untouched, Lobby
    <3> QED
        BY <3>2, <3>3, <3>4, UpdateLobbyInforms
  <2> QED
      BY <2>1, <2>2
<1>3. ASSUME NEW q \in Pid, SetMaster(p, q) PROVE \E s : Informed(s)
  <2>1. CASE UNCHANGED vars \/ boot(p)
      BY <2>1, StutterInforms, BootInforms
  <2>2. CASE ~(UNCHANGED vars \/ boot(p))
    <3>1. PICK m, new : m = [type |-> "SetMaster", pid |-> q]
                        /\ new = [old EXCEPT !.master = q]
        OBVIOUS
    <3>2. IsMaster(p) /\ UpdateLobby(p, new, m)
        BY <1>3, <2>2, <3>1 DEF SetMaster, MayAppoint
    <3>3. p \in DOMAIN players /\ old \in Lobby /\ m \in Traffic
        BY <3>1, <3>2, MasterLobby, MessageTypes, NamingTypes DEF Traffic
    <3>4. new.players = old.players /\ \A t : Says(m, old, t, new, t)
        BY <3>1, <3>3 DEF Says, Kept, Untouched, Lobby
    <3> QED
        BY <3>2, <3>3, <3>4, UpdateLobbyInforms
  <2> QED
      BY <2>1, <2>2
<1>4. ASSUME NEW q \in Pid, KickPlayer(p, q) PROVE \E s : Informed(s)
    BY <1>4, StutterInforms, NotifyInforms DEF KickPlayer, Reason
<1>5. ASSUME NEW k \in Key, NEW v \in Value, SetLobbyMeta(p, k, v) PROVE \E s : Informed(s)
  <2>1. CASE UNCHANGED vars \/ boot(p)
      BY <2>1, StutterInforms, BootInforms
  <2>2. CASE ~(UNCHANGED vars \/ boot(p))
    <3>1. PICK m, new : m = [type |-> "SetLobbyMeta", key |-> k, value |-> v]
                        /\ new = [old EXCEPT !.metadata = Put(old.metadata, k, v)]
        OBVIOUS
    <3>2. IsMaster(p) /\ UpdateLobby(p, new, m)
        BY <1>5, <2>2, <3>1 DEF SetLobbyMeta
    <3>3. p \in DOMAIN players /\ old \in Lobby /\ m \in Traffic
        BY <3>1, <3>2, MasterLobby, MessageTypes, NamingTypes DEF Traffic
    <3>4. new.players = old.players /\ \A t : Says(m, old, t, new, t)
        BY <3>1, <3>3 DEF Says, Kept, Untouched, Lobby
    <3> QED
        BY <3>2, <3>3, <3>4, UpdateLobbyInforms
  <2> QED
      BY <2>1, <2>2
<1>6. ASSUME NEW k \in Key, EraseLobbyMeta(p, k) PROVE \E s : Informed(s)
  <2>1. CASE UNCHANGED vars
      BY <2>1, StutterInforms
  <2>2. CASE ~UNCHANGED vars
    <3>1. PICK m, new : m = [type |-> "EraseLobbyMeta", key |-> k]
                        /\ new = [old EXCEPT !.metadata = Without(old.metadata, k)]
        OBVIOUS
    <3>2. IsMaster(p) /\ UpdateLobby(p, new, m)
        BY <1>6, <2>2, <3>1 DEF EraseLobbyMeta
    <3>3. p \in DOMAIN players /\ old \in Lobby /\ m \in Traffic
        BY <3>1, <3>2, MasterLobby, MessageTypes, NamingTypes DEF Traffic
    <3>4. new.players = old.players /\ \A t : Says(m, old, t, new, t)
        BY <3>1, <3>3 DEF Says, Kept, Untouched, Lobby
    <3> QED
        BY <3>2, <3>3, <3>4, UpdateLobbyInforms
  <2> QED
      BY <2>1, <2>2
<1>7. ASSUME NEW k \in Key, NEW v \in Value, SetPlayerMeta(p, k, v) PROVE \E s : Informed(s)
  <2>1. CASE UNCHANGED vars \/ boot(p)
      BY <2>1, StutterInforms, BootInforms
  <2>2. CASE ~(UNCHANGED vars \/ boot(p))
    <3>1. PICK m, new : m = [type |-> "SetPlayerMeta", pid |-> p, key |-> k, value |-> v]
                        /\ new = Put(players[p].metadata, k, v)
        OBVIOUS
    <3>2. p \in DOMAIN players /\ UpdatePlayer(p, new, m)
        BY <1>7, <2>2, <3>1 DEF SetPlayerMeta
    <3>3. m \in Traffic /\ m.pid = p /\ m.type = "SetPlayerMeta" /\ m.key = k /\ m.value = v
        BY <3>1, MessageTypes, NamingTypes DEF Traffic
    <3> QED
        BY <3>1, <3>2, <3>3, UpdatePlayerInforms
  <2> QED
      BY <2>1, <2>2
<1>8. ASSUME NEW k \in Key, ErasePlayerMeta(p, k) PROVE \E s : Informed(s)
  <2>1. CASE UNCHANGED vars
      BY <2>1, StutterInforms
  <2>2. CASE ~UNCHANGED vars
    <3>1. PICK m, new : m = [type |-> "ErasePlayerMeta", pid |-> p, key |-> k]
                        /\ new = Without(players[p].metadata, k)
        OBVIOUS
    <3>2. p \in DOMAIN players /\ UpdatePlayer(p, new, m)
        BY <1>8, <2>2, <3>1 DEF ErasePlayerMeta
    <3>3. m \in Traffic /\ m.pid = p /\ m.type = "ErasePlayerMeta" /\ m.key = k
        BY <3>1, MessageTypes, NamingTypes DEF Traffic
    <3> QED
        BY <3>1, <3>2, <3>3, UpdatePlayerInforms
  <2> QED
      BY <2>1, <2>2
<1> QED
    BY <1>1, <1>2, <1>3, <1>4, <1>5, <1>6, <1>7, <1>8

LEMMA PruneInforms ==
    ASSUME Present, Me \in DOMAIN players', Prune \/ EventLoopReset
    PROVE  \E s : Informed(s)
<1>1. Prune
    BY DEF EventLoopReset
<1>2. PICK sent : sent = [p \in Pid |-> IF p \in DOMAIN players
                            /\ \E l \in DOMAIN lobbies : Chud(l) /\ p \in lobbies[l].players
                         THEN Emit(Disconnected("Natural")) ELSE << >>]
    OBVIOUS
<1>3. try_send(outbox, sent) /\ players' = players /\ lobbies' = lobbies
    BY <1>1, <1>2 DEF Prune
<1>4. PICK m : m = Disconnected("Natural")
    OBVIOUS
<1>5. m \in Traffic /\ m.type = "Disconnected" /\ Emit(m) = <<m>>
    BY <1>4, MessageTypes, NamingTypes, Short DEF Traffic, Disconnected, Reason, Present
<1>6. sent[Me] = <<m>> \/ sent[Me] = << >>
    BY <1>2, <1>4, <1>5, ViewAssumption
<1>7. CASE sent[Me] = <<m>>
  <2>1. Me \in DOMAIN outbox' /\ outbox'[Me] = outbox[Me] \o <<m>>
      BY <1>3, <1>5, <1>7, SendsOne
  <2>2. Informed(<<m>>)
      BY <1>5, <2>1, Short DEF Informed
  <2> QED
      BY <2>2
<1>8. CASE sent[Me] = << >>
  <2>1. Me \in DOMAIN outbox' /\ outbox'[Me] = outbox[Me]
      BY <1>3, <1>8, SendsNone
  <2>2. LobbyOf(Me)' = LobbyOf(Me) /\ Untouched(players, players', LobbyOf(Me).players)
      BY <1>3 DEF LobbyOf, Untouched
  <2> QED
      BY <2>1, <2>2, Uninformed
<1> QED
    BY <1>6, <1>7, <1>8

\* Whoever leaves Me's lobby is announced, and so is the master of those who stay.
LEMMA RemoveInforms ==
    ASSUME Present, Me \in DOMAIN players', NEW p \in Pid, RemovePlayer(p, "Natural")
    PROVE  \E s : Informed(s)
<1>1. CASE UNCHANGED vars
    BY <1>1, StutterInforms
<1>2. CASE ~UNCHANGED vars
  <2>1. PICK k, l, old, lobby : /\ k = players[p].lid /\ l = players[Me].lid
                                /\ old = lobbies /\ lobby = lobbies[k]
      OBVIOUS
  <2>2. PICK rest, bye, left :
          /\ rest = [lobby EXCEPT !.players = Remaining(lobby, p),
                         !.idle_since = IdleAfter(lobby, Remaining(lobby, p))]
          /\ bye = send(p, Disconnected("Natural"))
          /\ left = [type |-> "Left", pid |-> p, reason |-> "Natural"]
      OBVIOUS
  <2>3. /\ p \in DOMAIN players /\ players' = Without(players, p) /\ p # Me /\ Me \in Pid
      BY <1>2, ViewAssumption DEF RemovePlayer, Without
  <2>4. /\ k \in DOMAIN old /\ l \in DOMAIN old /\ Me \in old[l].players
        /\ \A i \in DOMAIN old : old[i] \in Lobby /\ old[i].master \in old[i].players
        /\ \A i \in DOMAIN old : \A q \in old[i].players : q \in DOMAIN players /\ players[q].lid = i
      BY <2>1, <2>3 DEF Present, IInv, TablesOK, MasterIsMember, Membership, InLobby, LobbyOf
  <2>5. \/ \E new \in Heirs(lobby, p) :
              /\ lobbies' = [old EXCEPT ![k] = [rest EXCEPT !.master = new]]
              /\ try_send(outbox, Then(bye, Then(send_to_lobby(rest, left),
                             send_to_lobby(rest, [type |-> "SetMaster", pid |-> new]))))
        \/ Heirs(lobby, p) = {} /\ lobbies' = Without(old, k) /\ try_send(outbox, bye)
      BY <1>2, <2>1, <2>2, <2>4 DEF RemovePlayer
  <2>6. bye[Me] = << >>
      BY <2>2, <2>3 DEF send
  <2>7. players'[Me] = players[Me] /\ \A q \in DOMAIN players \ {p} : players'[q] = players[q]
      BY <2>3 DEF Without, Present
  <2>8. ASSUME NEW new \in Heirs(lobby, p),
               lobbies' = [old EXCEPT ![k] = [rest EXCEPT !.master = new]],
               try_send(outbox, Then(bye, Then(send_to_lobby(rest, left),
                             send_to_lobby(rest, [type |-> "SetMaster", pid |-> new]))))
        PROVE  \E s : Informed(s)
    <3>1. PICK m, after, a, b, more, sent :
            /\ m = [type |-> "SetMaster", pid |-> new]
            /\ after = [rest EXCEPT !.master = new]
            /\ a = send_to_lobby(rest, left) /\ b = send_to_lobby(rest, m)
            /\ more = Then(a, b) /\ sent = Then(bye, more)
        OBVIOUS
    <3>2. try_send(outbox, sent) /\ lobbies' = [old EXCEPT ![k] = after]
        BY <2>8, <3>1
    <3>3. lobby \in Lobby /\ new \in Pid
        BY <2>1, <2>4 DEF Heirs, Remaining, Lobby
    <3>4. m \in Traffic /\ left \in Traffic
        BY <2>2, <3>1, <3>3, MessageTypes, NamingTypes DEF Traffic, Reason
    <3>5. /\ rest.players = lobby.players \ {p} /\ rest.master = lobby.master
          /\ rest.listed = lobby.listed /\ rest.capacity = lobby.capacity
          /\ rest.metadata = lobby.metadata
          /\ DOMAIN rest = DOMAIN lobby
        BY <2>2, <3>3 DEF Remaining, Lobby
    <3>6. /\ after.players = lobby.players \ {p} /\ after.master = new
          /\ after.listed = lobby.listed /\ after.capacity = lobby.capacity
          /\ after.metadata = lobby.metadata
        BY <3>1, <3>3, <3>5 DEF Lobby
    <3>7. LobbyOf(Me) = old[l] /\ LobbyOf(Me)' = IF k = l THEN after ELSE old[l]
        BY <2>1, <2>4, <2>7, <3>2 DEF LobbyOf
    <3>8. CASE k = l
      <4>1. a[Me] = <<left>> /\ b[Me] = <<m>>
        <5>1. Me \in rest.players \cap DOMAIN players
            BY <2>1, <2>3, <2>4, <3>5, <3>8
        <5>2. Emit(left) = <<left>> /\ Emit(m) = <<m>>
            BY <3>4, Short DEF Present
        <5> QED
            BY <2>3, <3>1, <5>1, <5>2 DEF send_to_lobby
      <4>2. PICK s : s = <<left>> \o <<m>>
          OBVIOUS
      <4>3. s \in Queue /\ Len(s) =< 2
          BY <3>4, <4>2 DEF Queue
      <4>4. sent[Me] = s
        <5>1. more[Me] = s
            BY <2>3, <3>1, <4>1, <4>2 DEF Then
        <5>2. sent[Me] = << >> \o s
            BY <2>3, <2>6, <3>1, <5>1 DEF Then
        <5> QED
            BY <4>3, <5>2 DEF Queue
      <4>5. Me \in DOMAIN outbox' /\ outbox'[Me] = outbox[Me] \o s
          BY <3>2, <4>3, <4>4, ShortDelivered
      <4>6. PICK t, u : t = players /\ u = players'
          OBVIOUS
      <4>7. Untouched(t, u, lobby.players \ {p})
          BY <2>1, <2>4, <2>7, <4>6 DEF Untouched
      <4>8. Says(left, lobby, t, rest, u)
        <5>1. left.type = "Left" /\ left.pid = p
            BY <2>2
        <5>2. Kept(lobby, rest, {"players"})
            BY <3>5 DEF Kept
        <5> QED
            BY <2>3, <3>5, <4>7, <5>1, <5>2 DEF Says
      <4>9. Says(m, rest, u, after, u)
        <5>1. m.type = "SetMaster" /\ m.pid = new
            BY <3>1
        <5>2. Kept(rest, after, {"master"}) /\ Untouched(u, u, rest.players)
            BY <3>5, <3>6 DEF Kept, Untouched
        <5> QED
            BY <3>6, <5>1, <5>2 DEF Says
      <4>10. Tells(s, lobby, t, after, u)
          BY <3>4, <4>2, <4>8, <4>9 DEF Tells
      <4>11. Informed(s)
          BY <2>1, <3>7, <3>8, <4>3, <4>5, <4>6, <4>10 DEF Informed
      <4> QED
          BY <4>11
    <3>9. CASE k # l
      <4>1. a[Me] = << >> /\ b[Me] = << >>
        <5>1. Me \notin rest.players
            BY <2>1, <2>4, <3>5, <3>9
        <5> QED
            BY <2>3, <3>1, <5>1 DEF send_to_lobby
      <4>2. more[Me] = << >> \o << >>
          BY <2>3, <3>1, <4>1 DEF Then
      <4>3. << >> \o << >> = << >>
          OBVIOUS
      <4>4. sent[Me] = << >>
          BY <2>3, <2>6, <3>1, <4>2, <4>3 DEF Then
      <4>5. Me \in DOMAIN outbox' /\ outbox'[Me] = outbox[Me]
          BY <3>2, <4>4, SendsNone
      <4>6. p \notin old[l].players
          BY <2>1, <2>4, <3>9
      <4>7. Untouched(players, players', LobbyOf(Me).players) /\ LobbyOf(Me)' = LobbyOf(Me)
          BY <2>4, <2>7, <3>7, <3>9, <4>6 DEF Untouched
      <4> QED
          BY <4>5, <4>7, Uninformed
    <3> QED
        BY <3>8, <3>9
  <2>9. CASE Heirs(lobby, p) = {} /\ lobbies' = Without(old, k) /\ try_send(outbox, bye)
    <3>1. lobby.players \subseteq {p}
        BY <2>9 DEF Heirs, Remaining
    <3>2. k # l
        BY <2>1, <2>3, <2>4, <3>1
    <3>3. LobbyOf(Me)' = LobbyOf(Me) /\ LobbyOf(Me) = old[l] /\ p \notin old[l].players
        BY <2>1, <2>4, <2>7, <2>9, <3>2 DEF LobbyOf, Without
    <3>4. Untouched(players, players', LobbyOf(Me).players)
        BY <2>4, <2>7, <3>3 DEF Untouched
    <3>5. Me \in DOMAIN outbox' /\ outbox'[Me] = outbox[Me]
        BY <2>6, <2>9, SendsNone
    <3> QED
        BY <3>3, <3>4, <3>5, Uninformed
  <2> QED
      BY <2>5, <2>8, <2>9
<1> QED
    BY <1>1, <1>2

\* Someone else enters Me's lobby or another one.
LEMMA InsertInforms ==
    ASSUME Present, NEW pid \in Pid, pid # Me, pid \notin DOMAIN players,
           NEW l \in LobbyId, NEW lobby \in Lobby, NEW metadata \in Metadata,
           IF l \in DOMAIN lobbies THEN lobby = lobbies[l] ELSE lobby.players = {},
           insert_player(pid, l, lobby, metadata)
    PROVE  \E s : Informed(s)
<1>1. PICK k, old, m, new : /\ k = players[Me].lid /\ old = lobbies /\ m = Joined(pid, metadata)
         /\ new = [lobby EXCEPT !.players = lobby.players \cup {pid},
                            !.idle_since = IF Cardinality(lobby.players \cup {pid}) >= CHUD_THRESHOLD
                                           THEN None ELSE lobby.idle_since]
    OBVIOUS
<1>2. lobbies' = Put(old, l, new) /\ players' = Put(players, pid, [lid |-> l, metadata |-> metadata])
    BY <1>1 DEF insert_player
<1>3. PICK keys \in Orders(DOMAIN lobby.metadata),
             order \in Orders(lobby.players \cap DOMAIN players) :
         try_send(Put(outbox, pid, << >>),
                  [p \in Pid |-> IF p = pid THEN Welcome(pid, l, lobby, keys, order)
                                 ELSE IF p \in lobby.players \cap DOMAIN players
                                 THEN Emit(Joined(pid, metadata)) ELSE << >>])
    BY DEF insert_player
<1>4. PICK box, sent : /\ box = Put(outbox, pid, << >>)
         /\ sent = [p \in Pid |-> IF p = pid THEN Welcome(pid, l, lobby, keys, order)
                                  ELSE IF p \in lobby.players \cap DOMAIN players
                                  THEN Emit(Joined(pid, metadata)) ELSE << >>]
    OBVIOUS
<1>5. BoxOK(box) /\ Me \in DOMAIN box /\ box[Me] = outbox[Me]
    BY <1>4, EmptySeq, CapsAssumption DEF Present, IInv, BoxOK, Put
<1>6. /\ k \in DOMAIN old /\ Me \in old[k].players /\ Me \in DOMAIN players
      /\ \A i \in DOMAIN old : \A q \in old[i].players : q \in DOMAIN players /\ players[q].lid = i
    BY <1>1 DEF Present, IInv, Membership, InLobby, LobbyOf
<1>7. m \in Traffic /\ m.type = "Joined" /\ m.pid = pid /\ m.metadata = metadata
    BY <1>1, MessageTypes DEF Traffic, Naming, Joined
<1>8. /\ sent[Me] = IF Me \in lobby.players THEN <<m>> ELSE << >>
  <2>1. Emit(m) = <<m>> /\ Me \in Pid
      BY <1>7, Short, ViewAssumption DEF Present
  <2> QED
      BY <1>1, <1>4, <1>6, <2>1
<1>9. /\ players'[pid].metadata = metadata /\ \A q \in DOMAIN players : players'[q] = players[q]
    BY <1>2 DEF Put
<1>10. LobbyOf(Me) = old[k] /\ LobbyOf(Me)' = IF k = l THEN new ELSE old[k]
    BY <1>1, <1>2, <1>6, <1>9 DEF LobbyOf, Put
<1>11. /\ new.players = lobby.players \cup {pid} /\ Kept(lobby, new, {"players"})
    BY <1>1 DEF Kept, Lobby
<1>12. pid \notin old[k].players /\ Untouched(players, players', old[k].players)
    BY <1>6, <1>9 DEF Untouched
<1>13. PICK c \in Capacity \cup {0} : c = 0 /\ MAX_FIELDS \in Nat
    BY CapsAssumption
<1>14. CASE k = l
  <2>1. lobby = old[k] /\ sent[Me] = <<m>>
      BY <1>1, <1>6, <1>8, <1>14
  <2>2. sent[Me] \in Queue /\ Len(sent[Me]) = 1
      BY <1>7, <2>1, Short
  <2>3. Len(sent[Me]) =< 4 + MAX_FIELDS + c
      BY <1>13, <2>2
  <2>4. Me \in DOMAIN outbox' /\ outbox'[Me] = outbox[Me] \o <<m>>
    <3>1. DOMAIN outbox' = DOMAIN box /\ outbox'[Me] = box[Me] \o sent[Me]
        BY <1>3, <1>4, <1>5, <2>2, <2>3, Delivered DEF Present
    <3> QED
        BY <1>5, <2>1, <3>1
  <2>5. PICK t, u : t = players /\ u = players'
      OBVIOUS
  <2>6. Says(m, lobby, t, new, u)
      BY <1>7, <1>9, <1>11, <1>12, <2>1, <2>5 DEF Says
  <2>7. Tells(<<m>>, lobby, t, new, u)
      BY <1>7, <2>6 DEF Tells
  <2>8. Informed(<<m>>)
      BY <1>7, <1>10, <1>14, <2>1, <2>4, <2>5, <2>7, Short DEF Informed
  <2> QED
      BY <2>8
<1>15. CASE k # l
  <2>1. Me \notin lobby.players
      BY <1>1, <1>6, <1>15
  <2>2. sent[Me] = << >> /\ sent[Me] \in Queue /\ Len(sent[Me]) = 0
      BY <1>8, <2>1, Short
  <2>3. Len(sent[Me]) =< 4 + MAX_FIELDS + c
      BY <1>13, <2>2
  <2>4. Me \in DOMAIN outbox' /\ outbox'[Me] = outbox[Me]
    <3>1. DOMAIN outbox' = DOMAIN box /\ outbox'[Me] = box[Me] \o sent[Me]
        BY <1>3, <1>4, <1>5, <2>2, <2>3, Delivered DEF Present
    <3>2. outbox[Me] \in Seq(Message)
        BY DEF Present, IInv, BoxOK
    <3>3. outbox[Me] \o << >> = outbox[Me]
        BY <3>2
    <3> QED
        BY <1>5, <2>2, <3>1, <3>3
  <2>5. LobbyOf(Me)' = LobbyOf(Me) /\ Untouched(players, players', LobbyOf(Me).players)
      BY <1>10, <1>12, <1>15
  <2> QED
      BY <2>4, <2>5, Uninformed
<1> QED
    BY <1>14, <1>15

-----------------------------------------------------------------------------
(* The client's tables match the registry *)

\* The client's tables as they are, once the answer it waits for is handled.
Base == IF link.state = "answered" THEN Handle(view, Pong(link.pong)) ELSE view

\* Before Me is drawn, the client knows nobody, and what fields it holds are left
\* over.
Fresh ==
    Me \notin used =>
        /\ view.players = << >> /\ view.pid # Me
        /\ Key \cap DOMAIN view.meta \subseteq unconfirmed

Converges ==
    Me \in DOMAIN players \cap DOMAIN outbox /\ ~Parting =>
        Matches(Foreseen, LobbyOf(Me), players, unconfirmed)

KInv == VInv /\ Shape(view) /\ Fresh /\ Converges

LEMMA ForeseenBase == Foreseen = After(Base, outbox[Me])
BY DEF Foreseen, Base

\* The players that a client in the lobby should know.
Others(lobby, table) == [q \in lobby.players \ {Me} |-> table[q].metadata]

LEMMA MatchesView ==
    ASSUME NEW f, NEW lobby, NEW table, NEW loose, Matches(f, lobby, table, loose)
    PROVE  f.players = Others(lobby, table)
<1>1. PICK g, S : g = f.players /\ S = lobby.players \ {Me}
    OBVIOUS
<1>2. g = [x \in DOMAIN g |-> g[x]] /\ DOMAIN g = S /\ \A x \in S : g[x] = table[x].metadata
    BY <1>1 DEF Matches, Shape, IsTable
<1>3. g = [x \in S |-> table[x].metadata]
    BY <1>2
<1> QED
    BY <1>1, <1>3 DEF Others

LEMMA ConvergesView == KInv => ViewConverges
<1> SUFFICES ASSUME KInv, Me \in DOMAIN players \cap DOMAIN outbox, ~Parting
             PROVE  LET lobby == LobbyOf(Me)
                    IN  /\ Foreseen.pid = Me
                        /\ Foreseen.master = lobby.master
                        /\ Foreseen.listed = lobby.listed
                        /\ Foreseen.players = [q \in lobby.players \ {Me} |-> players[q].metadata]
                        /\ "capacity" \notin unconfirmed => Foreseen.capacity = lobby.capacity
                        /\ \A k \in Key \ unconfirmed :
                              /\ k \in DOMAIN Foreseen.meta <=> k \in DOMAIN lobby.metadata
                              /\ k \in DOMAIN lobby.metadata => Foreseen.meta[k] = lobby.metadata[k]
    BY DEF ViewConverges
<1>1. PICK f, lobby, table, loose :
        f = Foreseen /\ lobby = LobbyOf(Me) /\ table = players /\ loose = unconfirmed
    OBVIOUS
<1>2. Matches(f, lobby, table, loose)
    BY <1>1 DEF KInv, Converges
<1>3. f.players = Others(lobby, table)
    BY <1>2, MatchesView
<1>4. /\ f.pid = Me /\ f.master = lobby.master /\ f.listed = lobby.listed
      /\ "capacity" \notin loose => f.capacity = lobby.capacity
      /\ \A k \in Key \ loose :
            /\ k \in DOMAIN f.meta <=> k \in DOMAIN lobby.metadata
            /\ k \in DOMAIN lobby.metadata => f.meta[k] = lobby.metadata[k]
    BY <1>2 DEF Matches, SameAt
<1> QED
    BY <1>1, <1>3, <1>4 DEF Others

\* What is in Me's channel.
LEMMA ChannelQueue ==
    ASSUME VInv, Me \in DOMAIN outbox
    PROVE  outbox[Me] \in Queue
<1>1. Naming(used) \subseteq Traffic
    BY DEF VInv, ViewTypes, Naming, Traffic
<1>2. outbox[Me] \in Seq(Naming(used))
    BY DEF VInv, UsedOK
<1> QED
    BY <1>1, <1>2 DEF Queue

\* The topics of a queue after its first n messages, and whether it ends the
\* connection.
TopicsFrom(r, n) == {Topic(r[i]) : i \in n + 1 .. Len(r)}
Ends(r) == \E i \in DOMAIN r : r[i].type = "Disconnected"

LEMMA BehindTopics ==
    ASSUME NEW q \in Queue, NEW s \in Queue, NEW r, r = q \o s
    PROVE  TopicsFrom(r, Len(q)) = Topics(s) /\ (Ends(s) => Ends(r))
<1>1. PICK a, b : a = Len(q) /\ b = Len(s)
    OBVIOUS
<1>2. /\ Len(r) = a + b /\ a \in Nat /\ b \in Nat /\ DOMAIN r = 1 .. a + b
      /\ \A i \in 1 .. b : r[a + i] = s[i]
    BY <1>1, ConcatProperties DEF Queue
<1>3. ASSUME NEW i \in a + 1 .. a + b PROVE Topic(r[i]) \in Topics(s)
  <2>1. i - a \in 1 .. b /\ i = a + (i - a)
      BY <1>2
  <2>2. r[i] = s[i - a]
      BY <1>2, <2>1
  <2> QED
      BY <1>1, <2>1, <2>2 DEF Topics
<1>4. ASSUME NEW i \in 1 .. b
      PROVE  \E j \in a + 1 .. a + b : r[j] = s[i]
  <2>1. a + i \in a + 1 .. a + b /\ r[a + i] = s[i]
      BY <1>2
  <2> QED
      BY <2>1
<1>5. {Topic(r[i]) : i \in a + 1 .. a + b} = Topics(s)
  <2> DEFINE S == {Topic(r[i]) : i \in a + 1 .. a + b}
  <2>1. \A i \in 1 .. b : Topic(s[i]) \in S
      BY <1>4
  <2>2. S \subseteq Topics(s)
      BY <1>3
  <2> HIDE DEF S
  <2>3. Topics(s) \subseteq S
      BY <1>1, <2>1 DEF Topics
  <2> QED
      BY <2>2, <2>3 DEF S
<1>6. ASSUME NEW i \in 1 .. b, s[i].type = "Disconnected"
      PROVE  \E j \in DOMAIN r : r[j].type = "Disconnected"
  <2>1. a + i \in DOMAIN r /\ r[a + i] = s[i]
      BY <1>2
  <2> QED
      BY <1>6, <2>1
<1>7. Ends(s) => Ends(r)
  <2>1. DOMAIN s = 1 .. b
      BY <1>1 DEF Queue
  <2> QED
      BY <1>6, <2>1 DEF Ends
<1> QED
    BY <1>1, <1>2, <1>5, <1>7 DEF TopicsFrom

\* What Me was told, told to those who know.
LEMMA InformedMatches ==
    ASSUME NEW v, NEW q \in Queue, NEW s \in Queue, NEW a, NEW t, NEW b, NEW u, NEW loose,
           Matches(After(v, q), a, t, loose), Tells(s, a, t, b, u)
    PROVE  Matches(After(v, q \o s), b, u, loose \ Topics(s))
<1>1. After(v, q \o s) = After(After(v, q), s)
    BY IsBehind DEF Behind
<1> QED
    BY <1>1, TellsMatches

\* A step of the event loop that tells Me what it does.
LEMMA LoopConverges ==
    ASSUME Roomy, KInv, Me \in DOMAIN outbox => Len(outbox[Me]) =< MaxBacklog /\ ~Parting,
           unconfirmed' = unconfirmed \ Told, UNCHANGED <<view, link>>,
           Me \in DOMAIN players' => Me \in DOMAIN players,
           Me \in DOMAIN outbox' => Me \in DOMAIN outbox,
           Present /\ Me \in DOMAIN players' => \E s : Informed(s)
    PROVE  Converges'
<1> SUFFICES ASSUME Me \in DOMAIN players', Me \in DOMAIN outbox', ~Parting'
             PROVE  Matches(Foreseen, LobbyOf(Me), players, unconfirmed)'
    BY DEF Converges
<1>1. Me \in DOMAIN players /\ Me \in DOMAIN outbox /\ VInv /\ ~Parting
    BY DEF KInv
<1>2. Present
    BY <1>1 DEF Present, VInv
<1>3. PICK s : Informed(s)
    BY <1>2
<1>4. PICK q, r : q = outbox[Me] /\ r = outbox'[Me]
    OBVIOUS
<1>5. q \in Queue /\ s \in Queue /\ r = q \o s
    BY <1>1, <1>3, <1>4, ChannelQueue DEF Informed
<1>6. TopicsFrom(r, Len(q)) = Topics(s) /\ (Ends(s) => Ends(r))
    BY <1>5, BehindTopics
<1>7. Told = Topics(s)
    BY <1>1, <1>4, <1>6 DEF Told, TopicsFrom
<1>8. Tells(s, LobbyOf(Me), players, LobbyOf(Me)', players')
  <2>1. ~Ends(r)
      BY <1>4 DEF Ends, Parting
  <2>2. DOMAIN s = 1 .. Len(s)
      BY <1>5 DEF Queue
  <2> QED
      BY <1>3, <1>6, <2>1, <2>2 DEF Informed, Ends
<1>9. Matches(Foreseen, LobbyOf(Me), players, unconfirmed)
    BY <1>1 DEF KInv, Converges
<1>10. PICK v, a, t, b, u, loose : /\ v = Base /\ a = LobbyOf(Me) /\ t = players
                                   /\ b = LobbyOf(Me)' /\ u = players' /\ loose = unconfirmed
    OBVIOUS
<1>11. Matches(After(v, q), a, t, loose) /\ Tells(s, a, t, b, u)
    BY <1>4, <1>8, <1>9, <1>10, ForeseenBase
<1>12. Matches(After(v, q \o s), b, u, loose \ Topics(s))
    BY <1>5, <1>11, InformedMatches
<1>13. Foreseen' = After(v, q \o s)
    BY <1>4, <1>5, <1>10 DEF Foreseen, Base
<1>14. unconfirmed' = loose \ Topics(s)
    BY <1>7, <1>10
<1> QED
    BY <1>10, <1>12, <1>13, <1>14

-----------------------------------------------------------------------------
(* The client's own steps *)

\* Tables like those that match, but for the topics in more, match but for those.
LEMMA AlikeMatches ==
    ASSUME NEW f, NEW g, NEW a, NEW t, NEW loose, NEW X, NEW T, NEW more,
           Matches(f, a, t, loose), Shape(g), Alike(f, g, X, T), a.players \subseteq X,
           Key \cup {"capacity"} \subseteq T \cup more
    PROVE  Matches(g, a, t, loose \cup more)
<1>1. /\ g.pid = Me /\ g.master = a.master /\ g.listed = a.listed
      /\ "capacity" \notin loose \cup more => g.capacity = a.capacity
    BY DEF Matches, Alike
<1>2. DOMAIN g.players = a.players \ {Me}
    BY DEF Matches, Alike, SameAt
<1>3. \A x \in DOMAIN g.players : g.players[x] = t[x].metadata
    BY <1>2 DEF Matches, Alike, SameAt
<1>4. \A k \in Key \ (loose \cup more) : SameAt(g.meta, a.metadata, k)
    BY DEF Matches, Alike, SameAt
<1> QED
    BY <1>1, <1>2, <1>3, <1>4 DEF Matches

\* The same once a queue is handled.
LEMMA BaseAlike ==
    ASSUME NEW v, NEW w, NEW X, NEW T, Shape(v), Shape(w), Alike(v, w, X, T),
           NEW q \in Queue, NEW a, NEW t, NEW loose, NEW more,
           Matches(After(v, q), a, t, loose), a.players \subseteq X,
           Key \cup {"capacity"} \subseteq T \cup more
    PROVE  Matches(After(w, q), a, t, loose \cup more)
<1>1. PICK f, g : f = After(v, q) /\ g = After(w, q)
    OBVIOUS
<1>2. q \in Seq(Traffic)
    BY DEF Queue
<1>3. Shape(g) /\ Alike(f, g, X, T)
    BY <1>1, <1>2, AfterAlike
<1> QED
    BY <1>1, <1>3, AlikeMatches

\* Handling a Pong.
LEMMA PongShape ==
    ASSUME NEW v, Shape(v), NEW members
    PROVE  LET w == Handle(v, Pong(members))
           IN  /\ Shape(w)
               /\ w.pid = v.pid /\ w.master = v.master /\ w.listed = v.listed
               /\ w.meta = v.meta /\ w.capacity = v.capacity
               /\ DOMAIN w.players = DOMAIN v.players \cap members
               /\ \A x \in DOMAIN w.players : w.players[x] = v.players[x]
<1>1. Pong(members).type = "Pong" /\ Pong(members).players = members
    BY DEF Pong
<1>2. Handle(v, Pong(members)) = GotPong(v, Pong(members))
    BY <1>1 DEF Handle
<1>3. PICK g, w : /\ g = [q \in DOMAIN v.players \cap members |-> v.players[q]]
                  /\ w = Handle(v, Pong(members))
    OBVIOUS
<1>4. w = [v EXCEPT !.players = g]
    BY <1>1, <1>2, <1>3 DEF GotPong
<1>5. DOMAIN v = ViewFields
    BY DEF Shape
<1>6. /\ DOMAIN w = ViewFields /\ w.players = g
      /\ w.pid = v.pid /\ w.master = v.master /\ w.listed = v.listed
      /\ w.meta = v.meta /\ w.capacity = v.capacity
    BY <1>4, <1>5 DEF ViewFields
<1>7. IsTable(g)
    BY <1>3 DEF IsTable
<1> QED
    BY <1>3, <1>6, <1>7 DEF Shape

LEMMA BaseShape ==
    ASSUME Shape(view)
    PROVE  Shape(Base)
<1>1. PICK v, x : v = view /\ x = link.pong
    OBVIOUS
<1>2. Shape(Handle(v, Pong(x)))
    BY <1>1, PongShape
<1> QED
    BY <1>1, <1>2 DEF Base

\* A message read.
LEMMA DrainConverges ==
    ASSUME KInv, Drain
    PROVE  Shape(view)' /\ Fresh' /\ Converges'
<1>1. /\ VInv /\ Me \in DOMAIN outbox /\ outbox[Me] # << >> /\ link.state = "loop"
      /\ UNCHANGED <<players, lobbies, unconfirmed, used>>
      /\ view' = Handle(view, Head(outbox[Me]))
    BY DEF KInv, Drain, Receive, Hangup
<1>2. PICK v, q, m : v = view /\ q = outbox[Me] /\ m = Head(q)
    OBVIOUS
<1>3. q \in Queue /\ q \in Seq(Traffic) /\ q # << >>
    BY <1>1, <1>2, ChannelQueue DEF Queue
<1>4. m \in Traffic /\ Shape(v)
    BY <1>2, <1>3 DEF KInv
<1>5. Shape(Handle(v, m))
    BY <1>4, HandleShape
<1>6. Me \in used
    BY <1>1 DEF VInv, UsedOK
<1>7. Converges'
  <2> SUFFICES ASSUME Me \in DOMAIN players', Me \in DOMAIN outbox', ~Parting'
               PROVE  Matches(Foreseen, LobbyOf(Me), players, unconfirmed)'
      BY DEF Converges
  <2>1. m.type # "Disconnected" /\ Receive(Me) /\ link' = link
      BY <1>2 DEF Drain, Hangup, Without
  <2>2. outbox'[Me] = Tail(q)
      BY <1>1, <1>2, <2>1 DEF Receive
  <2>3. ~Parting
    <3> SUFFICES ASSUME NEW i \in DOMAIN q, q[i].type = "Disconnected" PROVE FALSE
        BY <1>2 DEF Parting
    <3>1. q[1] = m /\ i # 1 /\ i \in 1 .. Len(q) /\ Len(q) \in Nat
        BY <1>2, <1>3, <2>1
    <3>2. i - 1 \in DOMAIN Tail(q) /\ Tail(q)[i - 1] = q[i]
        BY <1>3, <3>1
    <3> QED
        BY <2>2, <3>2 DEF Parting
  <2>4. Matches(Foreseen, LobbyOf(Me), players, unconfirmed)
      BY <1>1, <2>3 DEF KInv, Converges
  <2>5. Foreseen = After(v, q) /\ Foreseen' = After(Handle(v, m), Tail(q))
      BY <1>1, <1>2, <2>1, <2>2 DEF Foreseen
  <2>6. After(v, q) = After(Handle(v, Head(q)), Tail(q))
      BY <1>3, AfterHead
  <2>7. LobbyOf(Me)' = LobbyOf(Me)
      BY <1>1 DEF LobbyOf
  <2> QED
      BY <1>1, <1>2, <2>4, <2>5, <2>6, <2>7
<1> QED
    BY <1>1, <1>2, <1>5, <1>6, <1>7 DEF Fresh

\* The session ends.
LEMMA DisconnectConverges ==
    ASSUME KInv, Disconnect
    PROVE  Shape(view)' /\ Fresh' /\ Converges'
<1>1. view' = Reset(view) /\ Me \notin DOMAIN outbox' /\ UNCHANGED <<used, unconfirmed>>
    BY DEF Disconnect, Hangup, Without
<1>2. Shape(view) /\ DOMAIN view = ViewFields
    BY DEF KInv, Shape
<1>3. /\ DOMAIN view' = ViewFields /\ view'.players = << >> /\ view'.pid = NULL
      /\ view'.meta = view.meta
    BY <1>1, <1>2 DEF Reset, ViewFields
<1>4. IsTable(<< >>)
    BY DEF IsTable
<1>5. Shape(view)'
    BY <1>3, <1>4 DEF Shape
<1>6. Fresh'
    BY <1>1, <1>3, ViewAssumption, IdsAssumption DEF KInv, Fresh
<1> QED
    BY <1>1, <1>5, <1>6 DEF Converges

\* A Ping and its answer.
LEMMA PongConverges ==
    ASSUME KInv, Ping \/ Assemble \/ SendPong
    PROVE  Shape(view)' /\ Fresh' /\ Converges'
<1>1. UNCHANGED <<players, lobbies, outbox, unconfirmed, used>>
    BY DEF Ping, Assemble, SendPong, vars
<1>2. VInv /\ Shape(view) /\ Fresh /\ LobbyOf(Me)' = LobbyOf(Me) /\ Parting' = Parting
    BY <1>1 DEF KInv, LobbyOf, Parting
<1>3. CASE Ping \/ SendPong
  <2>1. Base' = Base
      BY <1>3 DEF Ping, SendPong, Base, VInv, ViewTypes, KInv
  <2>2. Foreseen' = Foreseen
      BY <1>1, <2>1 DEF Foreseen, Base
  <2>3. Converges'
      BY <1>1, <1>2, <2>2 DEF KInv, Converges
  <2>4. Shape(view)'
      BY <1>2, <1>3, BaseShape DEF Ping, SendPong, Base
  <2>5. Fresh'
      BY <1>1, <1>2, <1>3 DEF Ping, SendPong, Fresh, VInv, PongOK
  <2> QED
      BY <2>3, <2>4, <2>5
<1>4. CASE Assemble
  <2>1. view' = view /\ link' = [state |-> "answered", pong |-> AssemblePong(Me)]
        /\ link.state = "pinging"
      BY <1>4 DEF Assemble
  <2>2. Shape(view)' /\ Fresh'
      BY <1>1, <1>2, <2>1 DEF Fresh
  <2>3. Converges'
    <3> SUFFICES ASSUME Me \in DOMAIN players, Me \in DOMAIN outbox, ~Parting
                 PROVE  Matches(Foreseen, LobbyOf(Me), players, unconfirmed)'
        BY <1>1, <1>2 DEF Converges
    <3>1. Matches(Foreseen, LobbyOf(Me), players, unconfirmed)
        BY DEF KInv, Converges
    <3>2. PICK v, a, w, q, t, loose :
             /\ v = view /\ a = LobbyOf(Me) /\ w = Handle(v, Pong(a.players))
             /\ q = outbox[Me] /\ t = players /\ loose = unconfirmed
        OBVIOUS
    <3>3. AssemblePong(Me) = a.players
        BY <1>2, <3>2 DEF AssemblePong, VInv, IInv, Membership
    <3>4. Foreseen = After(v, q) /\ Foreseen' = After(w, q)
        BY <1>1, <2>1, <3>2, <3>3 DEF Foreseen
    <3>5. Shape(v) /\ Shape(w) /\ Alike(v, w, a.players, Key \cup {"capacity"})
      <4>1. Shape(v)
          BY <1>2, <3>2
      <4> QED
          BY <3>2, <4>1, PongShape DEF Alike, SameAt
    <3>6. q \in Queue
        BY <1>2, <3>2, ChannelQueue
    <3>7. Matches(After(v, q), a, t, loose)
        BY <3>1, <3>2, <3>4
    <3>8. PICK X, T, more : X = a.players /\ T = Key \cup {"capacity"} /\ more = {}
        OBVIOUS
    <3>9. /\ Alike(v, w, X, T) /\ a.players \subseteq X
          /\ Key \cup {"capacity"} \subseteq T \cup more /\ loose \cup more = loose
        BY <3>5, <3>8
    <3>10. Matches(After(w, q), a, t, loose \cup more)
        BY <3>5, <3>6, <3>7, <3>9, BaseAlike
    <3> QED
        BY <1>1, <1>2, <3>2, <3>4, <3>9, <3>10
  <2> QED
      BY <2>2, <2>3
<1> QED
    BY <1>3, <1>4

\* A write to the client's own copy: copy is the view but for the topic.
LEMMA AskConverges ==
    ASSUME KInv, NEW request, NEW copy, NEW topic, Ask(request, copy, topic),
           Shape(copy), copy.players = view.players, copy.pid = view.pid,
           copy.master = view.master, copy.listed = view.listed,
           \A k \in Key \ {topic} : SameAt(view.meta, copy.meta, k),
           topic # "capacity" => copy.capacity = view.capacity
    PROVE  Shape(view)' /\ Fresh' /\ Converges'
<1>1. /\ view' = copy /\ view.pid = Me /\ unconfirmed' = unconfirmed \cup {topic}
      /\ UNCHANGED <<players, lobbies, outbox, link, used>>
    BY DEF Ask, Arrived, vars
<1>2. VInv /\ Shape(view) /\ Fresh /\ LobbyOf(Me)' = LobbyOf(Me) /\ Parting' = Parting
    BY <1>1 DEF KInv, LobbyOf, Parting
<1>3. Fresh' /\ Shape(view)'
    BY <1>1, <1>2 DEF Fresh
<1>4. Converges'
  <2> SUFFICES ASSUME Me \in DOMAIN players, Me \in DOMAIN outbox, ~Parting
               PROVE  Matches(Foreseen, LobbyOf(Me), players, unconfirmed)'
      BY <1>1, <1>2 DEF Converges
  <2>1. PICK v, c, x : v = view /\ c = copy /\ x = link.pong
      OBVIOUS
  <2>2. PICK X, T, more : /\ X = LobbyOf(Me).players /\ more = {topic}
                          /\ T = (Key \cup {"capacity"}) \ {topic}
      OBVIOUS
  <2>3. Shape(v) /\ Shape(c) /\ Alike(v, c, X, T)
      BY <1>2, <2>1, <2>2 DEF Alike, SameAt
  <2>4. PICK y, z : y = Handle(v, Pong(x)) /\ z = Handle(c, Pong(x))
      OBVIOUS
  <2>5. /\ Shape(y) /\ y.pid = v.pid /\ y.master = v.master /\ y.listed = v.listed
        /\ y.meta = v.meta /\ y.capacity = v.capacity
        /\ DOMAIN y.players = DOMAIN v.players \cap x
        /\ \A i \in DOMAIN y.players : y.players[i] = v.players[i]
      BY <2>3, <2>4, PongShape
  <2>6. /\ Shape(z) /\ z.pid = c.pid /\ z.master = c.master /\ z.listed = c.listed
        /\ z.meta = c.meta /\ z.capacity = c.capacity
        /\ DOMAIN z.players = DOMAIN c.players \cap x
        /\ \A i \in DOMAIN z.players : z.players[i] = c.players[i]
      BY <2>3, <2>4, PongShape
  <2>7. v.players = c.players
      BY <2>1
  <2>8. Alike(y, z, X, T)
      BY <2>3, <2>5, <2>6, <2>7 DEF Alike, SameAt
  <2>9. PICK b, d, q, a, t, loose : /\ b = Base /\ d = Base' /\ q = outbox[Me]
                                    /\ a = LobbyOf(Me) /\ t = players /\ loose = unconfirmed
      OBVIOUS
  <2>10. (b = v /\ d = c) \/ (b = y /\ d = z)
      BY <1>1, <2>1, <2>4, <2>9 DEF Base
  <2>11. Shape(b) /\ Shape(d) /\ Alike(b, d, X, T)
      BY <2>3, <2>5, <2>6, <2>8, <2>10
  <2>12. Foreseen = After(b, q) /\ Foreseen' = After(d, q)
      BY <1>1, <2>9 DEF Foreseen, Base
  <2>13. Matches(After(b, q), a, t, loose)
      BY <2>9, <2>12 DEF KInv, Converges
  <2>14. q \in Queue
      BY <1>2, <2>9, ChannelQueue
  <2>15. a.players \subseteq X /\ Key \cup {"capacity"} \subseteq T \cup more
      BY <2>2, <2>9
  <2>16. Matches(After(d, q), a, t, loose \cup more)
      BY <2>11, <2>13, <2>14, <2>15, BaseAlike
  <2> QED
      BY <1>1, <1>2, <2>2, <2>9, <2>12, <2>16
<1> QED
    BY <1>3, <1>4

LEMMA SetterConverges ==
    ASSUME KInv,
           \/ \E c \in Capacity : SetMaxPlayers(c)
           \/ \E k \in Key, v \in Value : SetLobbyField(k, v)
           \/ \E k \in Key : UnsetLobbyField(k)
    PROVE  Shape(view)' /\ Fresh' /\ Converges'
<1>0. DOMAIN view = ViewFields /\ IsTable(view.players)
    BY DEF KInv, Shape
<1>1. ASSUME NEW c \in Capacity, SetMaxPlayers(c) PROVE Shape(view)' /\ Fresh' /\ Converges'
  <2>1. PICK request, copy, topic : /\ copy = [view EXCEPT !.capacity = c] /\ topic = "capacity"
                                    /\ Ask(request, copy, topic)
      BY <1>1 DEF SetMaxPlayers
  <2>2. /\ Shape(copy) /\ copy.players = view.players /\ copy.pid = view.pid
        /\ copy.master = view.master /\ copy.listed = view.listed
        /\ \A k \in Key \ {topic} : SameAt(view.meta, copy.meta, k)
      BY <1>0, <2>1 DEF ViewFields, Shape, SameAt
  <2> QED
      BY <2>1, <2>2, AskConverges
<1>2. ASSUME NEW k \in Key, NEW v \in Value, SetLobbyField(k, v)
      PROVE  Shape(view)' /\ Fresh' /\ Converges'
  <2>1. PICK request, copy, topic : /\ copy = [view EXCEPT !.meta = Put(view.meta, k, v)]
                                    /\ topic = k /\ Ask(request, copy, topic)
      BY <1>2 DEF SetLobbyField
  <2>2. /\ Shape(copy) /\ copy.players = view.players /\ copy.pid = view.pid
        /\ copy.master = view.master /\ copy.listed = view.listed
        /\ copy.capacity = view.capacity /\ copy.meta = Put(view.meta, k, v)
      BY <1>0, <2>1 DEF ViewFields, Shape
  <2>3. \A j \in Key \ {topic} : SameAt(view.meta, copy.meta, j)
      BY <2>1, <2>2 DEF SameAt, Put
  <2> QED
      BY <2>1, <2>2, <2>3, AskConverges
<1>3. ASSUME NEW k \in Key, UnsetLobbyField(k) PROVE Shape(view)' /\ Fresh' /\ Converges'
  <2>1. PICK request, copy, topic : /\ copy = [view EXCEPT !.meta = Without(view.meta, k)]
                                    /\ topic = k /\ Ask(request, copy, topic)
      BY <1>3 DEF UnsetLobbyField
  <2>2. /\ Shape(copy) /\ copy.players = view.players /\ copy.pid = view.pid
        /\ copy.master = view.master /\ copy.listed = view.listed
        /\ copy.capacity = view.capacity /\ copy.meta = Without(view.meta, k)
      BY <1>0, <2>1 DEF ViewFields, Shape
  <2>3. \A j \in Key \ {topic} : SameAt(view.meta, copy.meta, j)
      BY <2>1, <2>2 DEF SameAt, Without
  <2> QED
      BY <2>1, <2>2, <2>3, AskConverges
<1> QED
    BY <1>1, <1>2, <1>3

-----------------------------------------------------------------------------
(* Steps of the event loop *)

\* The guard of a step of the event loop, and what it leaves alone.
Looped ==
    /\ Me \in DOMAIN outbox => Len(outbox[Me]) =< MaxBacklog /\ ~Parting
    /\ unconfirmed' = unconfirmed \ Told
    /\ UNCHANGED <<view, link>>

LEMMA LoopFresh ==
    ASSUME KInv, VInv', Looped, used \subseteq used'
    PROVE  Shape(view)' /\ Fresh'
<1>1. view' = view /\ unconfirmed' = unconfirmed \ Told /\ Shape(view) /\ Fresh
    BY DEF Looped, KInv
<1>2. ASSUME Me \notin used' PROVE Told = {}
    BY <1>2 DEF VInv, UsedOK, Told
<1> QED
    BY <1>1, <1>2 DEF Fresh

\* A step that brings in nobody.
LEMMA QuietConverges ==
    ASSUME Roomy, KInv, Looped, NEW U, Quiet(U),
           Present /\ Me \in DOMAIN players' => \E s : Informed(s)
    PROVE  Converges'
BY LoopConverges DEF Looped, Quiet

LEMMA RequestConverges ==
    ASSUME Roomy, KInv, Request
    PROVE  Shape(view)' /\ Fresh' /\ Converges'
<1> DEFINE r == Head(requests)
<1>1. PICK U : U = used
    OBVIOUS
<1>2. VInv /\ IInv /\ Announce(U, outbox) /\ Me \in Pid
    BY <1>1, ViewAssumption DEF KInv, VInv, UsedOK, Announce
<1>3. r \in Requests
    BY <1>2 DEF VInv, ViewTypes, Request
<1>4. Looped /\ used' = used
    BY DEF Request, EventLoop, Looped
<1>5. \/ r.type = "SetCapacity" /\ SetCapacity(Me, r.capacity)
      \/ r.type = "SetLobbyMeta" /\ SetLobbyMeta(Me, r.key, r.value)
      \/ r.type = "EraseLobbyMeta" /\ EraseLobbyMeta(Me, r.key)
    BY DEF Request, EventLoop
<1>6. /\ r.type = "SetCapacity" => r.capacity \in Capacity
      /\ r.type = "SetLobbyMeta" => r.key \in Key /\ r.value \in Value
      /\ r.type = "EraseLobbyMeta" => r.key \in Key
    BY <1>3 DEF Requests
<1> HIDE DEF r
<1>7. Quiet(U)
    BY <1>2, <1>5, <1>6, SetterNames
<1>8. Present => \E s : Informed(s)
    BY <1>2, <1>5, <1>6, SettersInform
<1>9. Converges'
    BY <1>4, <1>7, <1>8, QuietConverges
<1> QED
    BY <1>2, <1>4, <1>9, RequestStep, LoopFresh

LEMMA OperationConverges ==
    ASSUME Roomy, KInv, Operation
    PROVE  Shape(view)' /\ Fresh' /\ Converges'
<1>1. PICK U : U = used
    OBVIOUS
<1>2. VInv /\ IInv /\ Announce(U, outbox)
    BY <1>1 DEF KInv, VInv, UsedOK, Announce
<1>3. Looped /\ used' = used
    BY DEF Operation, EventLoop, Looped
<1>4. \/ \E p \in Pid : RemovePlayer(p, "Natural")
      \/ \E p \in Pid, listed \in BOOLEAN : SetListed(p, listed)
      \/ \E p, q \in Pid : SetMaster(p, q) \/ KickPlayer(p, q)
      \/ \E p \in Pid, k \in Key, v \in Value : SetPlayerMeta(p, k, v) \/ SetLobbyMeta(p, k, v)
      \/ \E p \in Pid, k \in Key : ErasePlayerMeta(p, k) \/ EraseLobbyMeta(p, k)
      \/ \E p \in Pid, c \in Capacity : SetCapacity(p, c)
      \/ Prune \/ EventLoopReset
    BY DEF Operation, EventLoop
<1>5. Quiet(U)
    BY <1>2, <1>4, RemoveNames, SetterNames, PruneNames
<1>6. Present /\ Me \in DOMAIN players' => \E s : Informed(s)
    BY <1>4, RemoveInforms, SettersInform, PruneInforms
<1>7. Converges'
    BY <1>3, <1>5, <1>6, QuietConverges
<1> QED
    BY <1>2, <1>3, <1>7, OperationStep, LoopFresh

\* Whoever enters is inserted into a new lobby or one that is there.
Inserted(pid, l, lobby, metadata) ==
    /\ pid \in Pid \ used /\ l \in LobbyId /\ lobby \in Lobby /\ metadata \in Metadata
    /\ IF l \in DOMAIN lobbies THEN lobby = lobbies[l] ELSE lobby.players = {}
    /\ Cardinality(lobby.players) =< lobby.capacity
    /\ insert_player(pid, l, lobby, metadata)

LEMMA HostInserts ==
    ASSUME IInv, NEW pid \in Pid \ used, NEW ip \in Ip, NEW gid \in Gid, NEW m \in Metadata,
           NEW pm \in Metadata, NEW c \in Capacity, NEW listed \in BOOLEAN,
           HostLobby(ip, gid, m, c, listed, pm, Ok(pid))
    PROVE  \E l, lobby, metadata : Inserted(pid, l, lobby, metadata)
<1>0. Ok(pid) # Err("rate_limited") /\ \A q : Ok(pid) = Ok(q) => pid = q
    BY DEF Ok, Err
<1>1. PICK lobby : lobby = [players |-> {}, initiator |-> ip, master |-> pid,
                     metadata |-> m, capacity |-> c, listed |-> listed, idle_since |-> 0]
    OBVIOUS
<1>2. PICK i \in FreshLid : insert_player(pid, [gid |-> gid, lid |-> i], lobby, pm)
    BY <1>0, <1>1 DEF HostLobby
<1>3. PICK l : l = [gid |-> gid, lid |-> i]
    OBVIOUS
<1>4. l \in LobbyId /\ l \notin DOMAIN lobbies
    BY <1>3 DEF FreshLid, LobbyId
<1>5. lobby \in Lobby /\ lobby.players = {} /\ lobby.capacity \in Nat
    BY <1>1, CapsAssumption DEF Lobby
<1>6. Cardinality(lobby.players) =< lobby.capacity
    BY <1>5, FS_EmptySet
<1>7. Inserted(pid, l, lobby, pm)
    BY <1>2, <1>3, <1>4, <1>5, <1>6 DEF Inserted
<1> QED
    BY <1>7

LEMMA JoinInserts ==
    ASSUME IInv, NEW pid \in Pid \ used, NEW ip \in Ip, NEW l \in LobbyId, NEW pm \in Metadata,
           JoinLobby(ip, l, pm, Ok(pid))
    PROVE  \E k, lobby, metadata : Inserted(pid, k, lobby, metadata)
<1>0. /\ Ok(pid) \notin {Err("rate_limited"), Err("lobby_not_found"), Err("lobby_full")}
      /\ \A q : Ok(pid) = Ok(q) => pid = q
    BY DEF Ok, Err
<1>1. /\ l \in DOMAIN lobbies /\ ~is_full(lobbies[l])
      /\ insert_player(pid, l, lobbies[l], pm)
    BY <1>0 DEF JoinLobby
<1>2. PICK lobby : lobby = lobbies[l]
    OBVIOUS
<1>3. lobby \in Lobby /\ lobby.players \subseteq Pid /\ lobby.capacity \in Nat
    BY <1>1, <1>2, CapsAssumption DEF IInv, TablesOK, Lobby
<1>4. Cardinality(lobby.players) \in Nat
    BY <1>3, FiniteAssumption, FS_Subset, FS_CardinalityType
<1>5. Cardinality(lobby.players) =< lobby.capacity
    BY <1>1, <1>2, <1>3, <1>4 DEF is_full
<1>6. Inserted(pid, l, lobby, pm)
    BY <1>1, <1>2, <1>3, <1>5 DEF Inserted
<1> QED
    BY <1>6

\* Someone else enters.
LEMMA OtherEnters ==
    ASSUME Roomy, KInv, Looped, NEW pid, pid # Me, NEW l, NEW lobby, NEW metadata,
           Inserted(pid, l, lobby, metadata)
    PROVE  Converges'
<1>1. /\ pid \in Pid \ used /\ l \in LobbyId /\ lobby \in Lobby /\ metadata \in Metadata
      /\ IF l \in DOMAIN lobbies THEN lobby = lobbies[l] ELSE lobby.players = {}
      /\ insert_player(pid, l, lobby, metadata)
    BY DEF Inserted
<1>2. PICK U : U = used \cup {pid}
    OBVIOUS
<1>3. /\ IInv /\ DOMAIN players \subseteq U /\ pid \in Pid \cap U /\ pid \notin DOMAIN players
    BY <1>1, <1>2 DEF KInv, VInv, UsedOK
<1>4. Announce(U, outbox)
  <2>1. Announce(used, outbox) /\ used \subseteq U
      BY <1>2 DEF KInv, VInv, UsedOK, Announce
  <2> QED
      BY <2>1, MoreNames
<1>5. /\ DOMAIN players' = DOMAIN players \cup {pid}
      /\ DOMAIN outbox' = DOMAIN outbox \cup {pid}
    BY <1>1, <1>3, <1>4, InsertNames
<1>6. Present => \E s : Informed(s)
    BY <1>1, <1>3, InsertInforms
<1> QED
    BY <1>5, <1>6, LoopConverges DEF Looped

\* Me enters.
LEMMA MeEnters ==
    ASSUME Roomy, KInv, Looped, NEW l, NEW lobby, NEW metadata,
           Inserted(Me, l, lobby, metadata)
    PROVE  Converges'
<1>1. /\ Me \in Pid /\ Me \notin used /\ l \in LobbyId /\ lobby \in Lobby
      /\ IF l \in DOMAIN lobbies THEN lobby = lobbies[l] ELSE lobby.players = {}
      /\ Cardinality(lobby.players) =< lobby.capacity /\ lobby.capacity \in Capacity
      /\ insert_player(Me, l, lobby, metadata)
    BY DEF Inserted, Lobby
<1>2. /\ IInv /\ TablesOK /\ BoxOK(outbox) /\ Me \notin DOMAIN players /\ Me \notin DOMAIN outbox
      /\ link.state # "answered" /\ view.players = << >> /\ DOMAIN view = ViewFields
      /\ Key \cap DOMAIN view.meta \subseteq unconfirmed
    BY <1>1 DEF KInv, VInv, IInv, UsedOK, PongOK, Fresh, Shape
<1>3. lobby.players \subseteq DOMAIN players \ {Me}
    BY <1>1, <1>2 DEF IInv, Membership
<1>4. PICK keys \in Orders(DOMAIN lobby.metadata),
             order \in Orders(lobby.players \cap DOMAIN players) :
         try_send(Put(outbox, Me, << >>),
                       [p \in Pid |-> IF p = Me THEN Welcome(Me, l, lobby, keys, order)
                                      ELSE IF p \in lobby.players \cap DOMAIN players
                                      THEN Emit(Joined(Me, metadata))
                                      ELSE << >>])
    BY <1>1 DEF insert_player
<1>5. PICK s, sent, box :
         /\ s = Welcome(Me, l, lobby, keys, order) /\ box = Put(outbox, Me, << >>)
         /\ sent = [p \in Pid |-> IF p = Me THEN Welcome(Me, l, lobby, keys, order)
                                      ELSE IF p \in lobby.players \cap DOMAIN players
                                      THEN Emit(Joined(Me, metadata))
                                      ELSE << >>]
    OBVIOUS
<1>6. sent[Me] = s /\ try_send(box, sent)
    BY <1>1, <1>4, <1>5
<1>7. PICK v, loose, b, u : /\ v = view /\ loose = unconfirmed /\ b = LobbyOf(Me)' /\ u = players'
    OBVIOUS
<1>8. /\ DOMAIN v = ViewFields /\ v.players = << >> /\ Key \cap DOMAIN v.meta \subseteq loose
    BY <1>2, <1>7
<1>9. u = Put(players, Me, [lid |-> l, metadata |-> metadata])
    BY <1>1, <1>7 DEF insert_player
<1>10. Untouched(players, u, lobby.players)
    BY <1>3, <1>9 DEF Untouched, Put
<1>11. PICK idle : b = [lobby EXCEPT !.players = lobby.players \cup {Me}, !.idle_since = idle]
  <2>1. u[Me].lid = l
      BY <1>9 DEF Put
  <2>2. PICK idle : lobbies' = Put(lobbies, l,
           [lobby EXCEPT !.players = lobby.players \cup {Me}, !.idle_since = idle])
    <3>1. lobbies' = Put(lobbies, l,
              [lobby EXCEPT !.players = lobby.players \cup {Me},
                            !.idle_since = IF Cardinality(lobby.players \cup {Me}) >= CHUD_THRESHOLD
                                           THEN None ELSE lobby.idle_since])
        BY <1>1 DEF insert_player
    <3> QED
        BY <3>1
  <2>3. b = lobbies'[l]
      BY <1>7, <2>1 DEF LobbyOf
  <2> QED
      BY <2>2, <2>3 DEF Put
<1>12. Kept(lobby, b, {"players"}) /\ b.players = lobby.players \cup {Me}
    BY <1>1, <1>11 DEF Kept, Lobby
<1>13. /\ s \in Queue /\ Len(s) =< 4 + MAX_FIELDS + lobby.capacity
       /\ Matches(After(v, s), b, u, loose \ Topics(s))
    BY <1>1, <1>2, <1>3, <1>4, <1>5, <1>8, <1>10, <1>12, WelcomeMatches
<1>14. BoxOK(box) /\ Me \in DOMAIN box /\ box[Me] = << >>
    BY <1>1, <1>2, <1>5, EmptySeq, CapsAssumption DEF BoxOK, Put
<1>15. Len(box[Me]) =< MaxBacklog
    BY <1>14, ViewAssumption
<1>16. DOMAIN outbox' = DOMAIN box /\ outbox'[Me] = box[Me] \o sent[Me]
  <2>1. PICK c \in Capacity \cup {0} : c = lobby.capacity
      BY <1>1
  <2> QED
      BY <1>6, <1>13, <1>14, <1>15, <2>1, Delivered
<1>17. outbox'[Me] = s /\ Me \in DOMAIN outbox'
  <2>1. << >> \o s = s
      BY <1>13 DEF Queue
  <2> QED
      BY <1>6, <1>14, <1>16, <2>1
<1>18. Told = Topics(s)
    BY <1>2, <1>17 DEF Told, Topics
<1>19. unconfirmed' = loose \ Topics(s)
    BY <1>7, <1>18 DEF Looped
<1>20. Foreseen' = After(v, s)
    BY <1>2, <1>7, <1>17 DEF Foreseen, Looped
<1> QED
    BY <1>7, <1>13, <1>19, <1>20 DEF Converges

LEMMA EnterConverges ==
    ASSUME Roomy, KInv, Enter
    PROVE  Shape(view)' /\ Fresh' /\ Converges'
<1>1. VInv /\ IInv /\ VInv'
    BY EnterStep DEF KInv, VInv
<1>2. PICK pid \in Pid \ used, ip \in Ip :
         \/ \E gid \in Gid, m, pm \in Metadata, c \in Capacity, listed \in BOOLEAN :
               /\ EventLoop(HostLobby(ip, gid, m, c, listed, pm, Ok(pid))) /\ Draw(pid)
         \/ \E l \in LobbyId, pm \in Metadata :
               /\ EventLoop(JoinLobby(ip, l, pm, Ok(pid))) /\ Draw(pid)
    BY DEF Enter
<1>3. Looped /\ used \subseteq used'
    BY <1>2 DEF EventLoop, Draw, Looped
<1>4. \/ \E gid \in Gid, m, pm \in Metadata, c \in Capacity, listed \in BOOLEAN :
            HostLobby(ip, gid, m, c, listed, pm, Ok(pid))
      \/ \E l \in LobbyId, pm \in Metadata : JoinLobby(ip, l, pm, Ok(pid))
    BY <1>2 DEF EventLoop
<1>5. \E l, lobby, metadata : Inserted(pid, l, lobby, metadata)
    BY <1>1, <1>4, HostInserts, JoinInserts
<1>6. PICK l, lobby, metadata : Inserted(pid, l, lobby, metadata)
    BY <1>5
<1>7. Converges'
    BY <1>3, <1>6, OtherEnters, MeEnters
<1> QED
    BY <1>1, <1>3, <1>7, LoopFresh

LEMMA StutterConverges ==
    ASSUME KInv, UNCHANGED viewvars
    PROVE  Shape(view)' /\ Fresh' /\ Converges'
<1>1. UNCHANGED <<players, lobbies, outbox, view, link, used, unconfirmed>>
    BY DEF viewvars, vars
<1>2. Foreseen' = Foreseen /\ LobbyOf(Me)' = LobbyOf(Me) /\ Parting' = Parting
    BY <1>1 DEF Foreseen, LobbyOf, Parting
<1> QED
    BY <1>1, <1>2 DEF KInv, Fresh, Converges

LEMMA ConvergesStep ==
    ASSUME Roomy, KInv, [ViewNext]_viewvars
    PROVE  KInv'
<1>1. VInv'
    BY ViewStep DEF KInv
<1>2. Shape(view)' /\ Fresh' /\ Converges'
    BY StutterConverges, DrainConverges, DisconnectConverges, PongConverges, SetterConverges,
       EnterConverges, RequestConverges, OperationConverges DEF ViewNext
<1> QED
    BY <1>1, <1>2 DEF KInv

LEMMA ConvergesInit ==
    ASSUME ViewInit
    PROVE  KInv
<1>1. VInv
    BY ViewInitial
<1>2. /\ DOMAIN view = ViewFields /\ view.players = << >> /\ view.pid = NULL
      /\ unconfirmed = DOMAIN view.meta \cup {"capacity"} /\ DOMAIN players = {}
    BY DEF ViewInit, ViewFields
<1>3. IsTable(<< >>)
    BY DEF IsTable
<1>4. Shape(view) /\ Fresh /\ Converges
    BY <1>2, <1>3, ViewAssumption, IdsAssumption DEF Shape, Fresh, Converges
<1> QED
    BY <1>1, <1>4 DEF KInv

-----------------------------------------------------------------------------
(* Theorems *)

\* The registry's own invariant holds beside the client, ids are not used twice,
\* and an answer on its way names every member that the client knows.
THEOREM ViewInvariant == ViewSpec => []VInv
<1>1. VInv /\ [ViewNext]_viewvars => VInv'
    BY ViewStep
<1> QED
    BY <1>1, ViewInitial, PTL DEF ViewSpec

\* Handling a Pong never erases a player that is in the client's lobby, however
\* old the Pong is and whatever the event loop has done since it was assembled.
THEOREM PongSparesMembersHolds == ViewSpec => PongSparesMembers
<1>1. VInv /\ [ViewNext]_viewvars => [PongSpares]_viewvars
  <2> SUFFICES ASSUME VInv, ViewNext, link.state = "answered", link'.state = "loop",
                      NEW q \in DOMAIN view.players \ DOMAIN view'.players
               PROVE  q \notin AssemblePong(Me)
      BY DEF PongSpares
  <2>1. link' # link
      OBVIOUS
  <2>2. ~(Enter \/ Request \/ Operation \/ Ping \/ Drain)
      BY <2>1 DEF Enter, Request, Operation, EventLoop, Ping, Drain
  <2>3. ~Disconnect /\ ~Assemble
    <3>1. link \in [state : {"loop", "pinging", "answered", "off"}, pong : SUBSET Pid]
        BY DEF VInv, ViewTypes
    <3> QED
        BY <3>1 DEF Disconnect, Assemble
  <2>4. SendPong
      BY <2>1, <2>2, <2>3 DEF ViewNext, SetMaxPlayers, SetLobbyField, UnsetLobbyField, Ask
  <2>5. DOMAIN view'.players = DOMAIN view.players \cap link.pong
      BY <2>4, HandlePong DEF SendPong, VInv, ViewTypes
  <2> QED
      BY <2>5 DEF VInv, PongOK
<1> QED
    BY <1>1, ViewInvariant, PTL DEF ViewSpec, PongSparesMembers

\* While the client's channel has room, what the client will know once it has
\* handled all that is under way is the registry's own state, but for what it
\* wrote itself and no message confirmed.
THEOREM ViewConvergesHolds ==
    ASSUME Roomy
    PROVE  ViewSpec => []ViewConverges
<1>1. ViewInit => KInv
    BY ConvergesInit
<1>2. KInv /\ [ViewNext]_viewvars => KInv'
    BY ConvergesStep
<1> QED
    BY <1>1, <1>2, ConvergesView, PTL DEF ViewSpec
=============================================================================
