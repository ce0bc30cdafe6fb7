------------------------------ MODULE Blaster ------------------------------
(***************************************************************************)
(* The event loop of NutBlaster, the signalling server: the registry of    *)
(* lobbies, players and peers that one thread owns and that every websocket*)
(* session changes by sending it operations (server/src/blaster).  One     *)
(* action here is one BlasterOperation, executed to its end.               *)
(*                                                                         *)
(* Data abstractions.  A HashMap is a function whose domain is the set of  *)
(* its keys.  An Instant is the number of ticks since then, saturating at  *)
(* the timeout it is compared with.  A token bucket may refuse at any      *)
(* moment (module TokenBucket is the bucket itself).  A session gives its  *)
(* msg_sender away with the only Host or Join that succeeds for it, so a   *)
(* player's channel is named by the player's id; the channel is in the     *)
(* domain of outbox while the session holds the receiving end.             *)
(***************************************************************************)
EXTENDS Integers, Sequences, FiniteSets

CONSTANTS
    Pid, Lid,              \* what BasicId::random() may return
    NULL,                  \* BasicId::NULL
    None,                  \* Option::None
    Gid, Ip, Key, Value,   \* game ids, addresses, metadata keys and values
    Capacity,              \* what validate_capacity accepts
    SESSIONS_PER_IP_CAP, GLOBAL_SESSIONS_CAP, GLOBAL_PEERS_CAP,
    LOBBY_LISTING_CAP, LISTED_LOBBIES_PER_GID, LOBBIES_PER_IP,
    MAX_FIELDS, CHUD_THRESHOLD, QUEUE_CAP,
    SESSION_IDLE_TIMEOUT, CHUD_LOBBY_TIMEOUT,   \* in ticks
    Observed,   \* the message types outboxes keep; the others are projected out
    Watched,    \* the players whose outboxes are kept; the others' stay empty
    Slots       \* room that other traffic may leave in a channel

ASSUME IdsAssumption == NULL \notin Pid /\ None \notin Nat
ASSUME FiniteAssumption == IsFiniteSet(Pid) /\ IsFiniteSet(Key)
ASSUME CapsAssumption ==
    /\ Capacity \subseteq Nat
    /\ {SESSIONS_PER_IP_CAP, GLOBAL_SESSIONS_CAP, GLOBAL_PEERS_CAP,
        LOBBY_LISTING_CAP, LISTED_LOBBIES_PER_GID, LOBBIES_PER_IP,
        CHUD_THRESHOLD} \subseteq Nat \ {0}
    /\ {MAX_FIELDS, QUEUE_CAP, SESSION_IDLE_TIMEOUT, CHUD_LOBBY_TIMEOUT}
            \subseteq Nat
    /\ Slots \subseteq Nat

VARIABLES
    gid_lobbies,   \* gid |-> the lids of its lobbies
    lobbies,       \* [gid, lid] |-> Lobby
    players,       \* pid |-> Player
    peers,         \* ip |-> Peer
    outbox         \* pid |-> the messages in its session's channel

vars == <<gid_lobbies, lobbies, players, peers, outbox>>

-----------------------------------------------------------------------------
(* Types *)

LobbyId == [gid : Gid, lid : Lid]
ASSUME NoneAssumption == None \notin LobbyId

Metadata == {m \in UNION {[K -> Value] : K \in SUBSET Key} :
                Cardinality(DOMAIN m) =< MAX_FIELDS}

Lobby == [players : SUBSET Pid, initiator : Ip, master : Pid,
          metadata : Metadata, capacity : Capacity, listed : BOOLEAN,
          idle_since : (0 .. CHUD_LOBBY_TIMEOUT) \cup {None}]

Player == [lid : LobbyId, metadata : Metadata]

\* PeerSessionCount: Some(n) is count = n; Decaying is count = 0, and only
\* then age counts.  The code never holds Some(0).
Peer == [count : Nat, age : 0 .. SESSION_IDLE_TIMEOUT]

\* A Kick without its code and text: Natural for a Leave, a closed connection,
\* a kick and Prune, Violation for an empty bucket and a protocol error.
Reason == {"Natural", "Violation"}

Message ==
    [type : {"SetListed"}, listed : BOOLEAN]
    \cup [type : {"SetCapacity"}, capacity : Capacity]
    \cup [type : {"SetLobbyMeta"}, key : Key, value : Value]
    \cup [type : {"EraseLobbyMeta"}, key : Key]
    \cup [type : {"Connected"}, lid : Lid, pid : Pid]
    \cup [type : {"Joined"}, pid : Pid, metadata : Metadata]
    \cup [type : {"Left"}, pid : Pid, reason : Reason]
    \cup [type : {"SetMaster"}, pid : Pid]
    \cup [type : {"SetPlayerMeta"}, pid : Pid, key : Key, value : Value]
    \cup [type : {"ErasePlayerMeta"}, pid : Pid, key : Key]
    \cup [type : {"Disconnected"}, reason : Reason]
    \cup [type : {"Offer", "Answer", "Candidate"}, from : Pid]

\* What the event loop answers to HostLobby and JoinLobby: Ok(pid) or Err(code).
Ok(pid) == [pid |-> pid, code |-> "ok"]
Err(code) == [pid |-> NULL, code |-> code]
Replies == {Ok(p) : p \in Pid}
           \cup {Err(c) : c \in {"rate_limited", "lobby_not_found", "lobby_full"}}

TypeOK ==
    /\ DOMAIN gid_lobbies \subseteq Gid
    /\ \A g \in DOMAIN gid_lobbies : gid_lobbies[g] \subseteq Lid
    /\ DOMAIN lobbies \subseteq LobbyId
    /\ \A l \in DOMAIN lobbies : lobbies[l] \in Lobby
    /\ DOMAIN players \subseteq Pid
    /\ \A p \in DOMAIN players : players[p] \in Player
    /\ DOMAIN peers \subseteq Ip
    /\ \A ip \in DOMAIN peers : peers[ip] \in Peer
    /\ DOMAIN outbox \subseteq Pid
    /\ \A p \in DOMAIN outbox : outbox[p] \in Seq(Message) /\ Len(outbox[p]) =< QUEUE_CAP

-----------------------------------------------------------------------------
(* Helpers *)

Put(f, k, v) == [x \in DOMAIN f \cup {k} |-> IF x = k THEN v ELSE f[x]]
Without(f, k) == [x \in DOMAIN f \ {k} |-> f[x]]
Least(m, n) == IF m =< n THEN m ELSE n

\* The orders in which a hash table may be iterated.
Orders(S) == {f \in [1 .. Cardinality(S) -> S] :
                 \A i, j \in DOMAIN f : f[i] = f[j] => i = j}

\* One message as the channel sees it: nothing when it is not observed.
Emit(msg) == IF msg.type \in Observed THEN <<msg>> ELSE <<>>
EmitAll(type, msgs) == IF type \in Observed THEN msgs ELSE <<>>

\* What a step sends, as a function of the receiving player.
send(pid, msg) == [p \in Pid |-> IF p = pid THEN Emit(msg) ELSE <<>>]
\* Mutant of send_to_lobby: the master is left out.
send_to_lobby_others(lobby, msg) ==
    [p \in Pid |-> IF p \in lobby.players \cap DOMAIN players /\ p # lobby.master
                   THEN Emit(msg) ELSE <<>>]

send_to_lobby(lobby, msg) ==
    [p \in Pid |-> IF p \in lobby.players \cap DOMAIN players
                   THEN Emit(msg) ELSE <<>>]
Then(a, b) == [p \in Pid |-> a[p] \o b[p]]

\* What gets into a channel that has room for n messages of s.  The session empties
\* the channel meanwhile, so an earlier message may be lost and a later one kept.
Fitting(s, n) ==
    IF Len(s) =< n THEN {s}
    ELSE {[i \in 1 .. n |-> s[f[i]]] :
             f \in {g \in [1 .. n -> DOMAIN s] : \A i, j \in 1 .. n : i < j => g[i] < g[j]}}

\* Player::send is a try_send of its own for each message, whose failure is ignored:
\* what does not fit in the channel is lost, as is all that is sent to a closed one.
Accepted(queue, msgs) ==
    UNION {Fitting(msgs, Least(room, QUEUE_CAP - Len(queue))) : room \in Slots}

try_send(box, sent) ==
    LET heard == DOMAIN box \cap Watched
    IN  \E kept \in [heard -> UNION {Accepted(box[p], sent[p]) : p \in heard}] :
           /\ \A p \in heard : kept[p] \in Accepted(box[p], sent[p])
           /\ outbox' = [p \in DOMAIN box |-> IF p \in heard THEN box[p] \o kept[p] ELSE << >>]

Disconnected(reason) == [type |-> "Disconnected", reason |-> reason]

\* Mutant of is_full: off by one.
is_full_late(lobby) == Cardinality(lobby.players) > lobby.capacity

is_full(lobby) == Cardinality(lobby.players) >= lobby.capacity
can_add(metadata, key) ==
    key \in DOMAIN metadata \/ Cardinality(DOMAIN metadata) < MAX_FIELDS

LobbyOf(pid) == lobbies[players[pid].lid]
InLobby(pid) == pid \in DOMAIN players /\ players[pid].lid \in DOMAIN lobbies
IsMaster(pid) == InLobby(pid) /\ LobbyOf(pid).master = pid

-----------------------------------------------------------------------------
(* Coming and going *)

Init ==
    /\ gid_lobbies = << >> /\ lobbies = << >> /\ players = << >>
    /\ peers = << >> /\ outbox = << >>

\* BasicId::random(): 64 random bits are neither NULL nor an id in use.
FreshPid == Pid \ (DOMAIN players \cup DOMAIN outbox)
FreshLid == {i \in Lid : \A l \in DOMAIN lobbies : l.lid # i}

Joined(pid, metadata) == [type |-> "Joined", pid |-> pid, metadata |-> metadata]

\* What a new player is sent: lobby is the record before the insertion, keys and
\* order are the order its fields and its members come in.
Welcome(pid, l, lobby, keys, order) ==
    Emit([type |-> "SetListed", listed |-> lobby.listed])
    \o Emit([type |-> "SetCapacity", capacity |-> lobby.capacity])
    \o EmitAll("SetLobbyMeta", [i \in DOMAIN keys |->
          [type |-> "SetLobbyMeta", key |-> keys[i], value |-> lobby.metadata[keys[i]]]])
    \o Emit([type |-> "Connected", lid |-> l.lid, pid |-> pid])
    \o EmitAll("Joined", [i \in DOMAIN order |->
          Joined(order[i], players[order[i]].metadata)])
    \o Emit([type |-> "SetMaster", pid |-> lobby.master])

insert_player(pid, l, lobby, metadata) ==
    LET members == lobby.players \cup {pid}
        others  == lobby.players \cap DOMAIN players
    IN  /\ lobbies' = Put(lobbies, l,
              [lobby EXCEPT !.players = members,
                            !.idle_since = IF Cardinality(members) >= CHUD_THRESHOLD
                                           THEN None ELSE @])
        /\ players' = Put(players, pid, [lid |-> l, metadata |-> metadata])
        /\ \E keys \in Orders(DOMAIN lobby.metadata), order \in Orders(others) :
              try_send(Put(outbox, pid, << >>),
                       [p \in Pid |-> IF p = pid THEN Welcome(pid, l, lobby, keys, order)
                                      ELSE IF p \in others
                                      THEN Emit(Joined(pid, metadata))
                                      ELSE << >>])

\* The peer is known; whether its bucket has a token is left open.
cap_ip(ip) == ip \in DOMAIN peers

LobbiesFrom(ip) == {l \in DOMAIN lobbies : lobbies[l].initiator = ip}
ListedIn(gid) ==
    {i \in IF gid \in DOMAIN gid_lobbies THEN gid_lobbies[gid] ELSE {} :
        LET l == [gid |-> gid, lid |-> i]
        IN  l \in DOMAIN lobbies /\ lobbies[l].listed}

\* Mutant of MayHost: the address limit off by one.
MayHostOneMore(ip, gid, listed) == Cardinality(LobbiesFrom(ip)) =< LOBBIES_PER_IP

\* The per-address and per-game limits a new lobby must respect.
MayHost(ip, gid, listed) ==
    /\ Cardinality(LobbiesFrom(ip)) < LOBBIES_PER_IP
    /\ listed => /\ \A l \in LobbiesFrom(ip) : ~lobbies[l].listed
                 /\ Cardinality(ListedIn(gid)) < LISTED_LOBBIES_PER_GID

\* Refusal is always possible: an empty bucket, no peer, or a limit.
HostLobby(ip, gid, metadata, capacity, listed, player_metadata, reply) ==
    \/ reply = Err("rate_limited") /\ UNCHANGED vars
    \/ /\ cap_ip(ip)
       /\ MayHost(ip, gid, listed)
       /\ \E i \in FreshLid, pid \in FreshPid :
             /\ insert_player(pid, [gid |-> gid, lid |-> i],
                    [players |-> {}, initiator |-> ip, master |-> pid,
                     metadata |-> metadata, capacity |-> capacity,
                     listed |-> listed, idle_since |-> 0], player_metadata)
             /\ gid_lobbies' = Put(gid_lobbies, gid,
                    (IF gid \in DOMAIN gid_lobbies THEN gid_lobbies[gid] ELSE {})
                    \cup {i})
             /\ reply = Ok(pid)
       /\ UNCHANGED peers

JoinLobby(ip, l, player_metadata, reply) ==
    \/ reply = Err("rate_limited") /\ UNCHANGED vars
    \/ /\ cap_ip(ip) /\ l \notin DOMAIN lobbies
       /\ reply = Err("lobby_not_found") /\ UNCHANGED vars
    \/ /\ cap_ip(ip) /\ l \in DOMAIN lobbies /\ is_full(lobbies[l])
       /\ reply = Err("lobby_full") /\ UNCHANGED vars
    \/ /\ cap_ip(ip) /\ l \in DOMAIN lobbies /\ ~is_full(lobbies[l])
       /\ \E pid \in FreshPid :
             /\ insert_player(pid, l, lobbies[l], player_metadata)
             /\ reply = Ok(pid)
       /\ UNCHANGED <<gid_lobbies, peers>>

\* Mutant of Listings: full lobbies are listed too.
ListingsWithFull(gid, limit) ==
    {S \in SUBSET ListedIn(gid) :
        Cardinality(S) = Least(Least(limit, LOBBY_LISTING_CAP), Cardinality(ListedIn(gid)))}

\* The listings ListLobbies may return: sets of lobby ids, at most limit
\* (clamped) of the listed lobbies of the game that have room.
Listings(gid, limit) ==
    LET open == {i \in ListedIn(gid) : ~is_full(lobbies[[gid |-> gid, lid |-> i]])}
        n    == Least(IF limit < 1 THEN 1 ELSE limit, LOBBY_LISTING_CAP)
    IN  {S \in SUBSET open : Cardinality(S) = Least(n, Cardinality(open))}

\* Pong carries the current members, nothing for an unknown player.
AssemblePong(pid) == IF InLobby(pid) THEN LobbyOf(pid).players ELSE {}

\* Mutant of Remaining: the player stays in the lobby's own set.
RemainingAll(lobby, pid) == lobby.players

Remaining(lobby, pid) == lobby.players \ {pid}

\* Mutant of Heirs: the empty lobby is kept, with NULL as its master.
HeirsOrNull(lobby, pid) ==
    IF lobby.master # pid THEN {lobby.master}
    ELSE IF Remaining(lobby, pid) = {} THEN {NULL} ELSE Remaining(lobby, pid)

\* Who may be master once pid is gone: a departing master is succeeded by
\* whichever member the hash set yields first, by NULL when there is none.
Heirs(lobby, pid) ==
    IF lobby.master = pid THEN Remaining(lobby, pid) ELSE {lobby.master}

\* Mutant of IdleAfter: the clock is not started again.
IdleAfterNever(lobby, rest) == lobby.idle_since

\* The idle clock of a lobby left with the members in rest.
IdleAfter(lobby, rest) ==
    IF Cardinality(rest) < CHUD_THRESHOLD /\ lobby.idle_since = None
    THEN 0 ELSE lobby.idle_since

\* Mutant of Unindexed: the empty set of a game stays.
UnindexedKeep(l) ==
    IF l.gid \notin DOMAIN gid_lobbies THEN gid_lobbies
    ELSE Put(gid_lobbies, l.gid, gid_lobbies[l.gid] \ {l.lid})

\* gid_lobbies without lobby l, and without its game when no lobby is left.
Unindexed(l) ==
    LET set == gid_lobbies[l.gid] \ {l.lid}
    IN  IF l.gid \notin DOMAIN gid_lobbies THEN gid_lobbies
        ELSE IF set = {} THEN Without(gid_lobbies, l.gid)
        ELSE Put(gid_lobbies, l.gid, set)

\* The last member takes the lobby with it.
RemovePlayer(pid, reason) ==
    \/ pid \notin DOMAIN players /\ UNCHANGED vars
    \/ /\ pid \in DOMAIN players
       /\ players' = Without(players, pid)
       /\ UNCHANGED peers
       /\ LET l     == players[pid].lid
              lobby == lobbies[l]
              rest  == [lobby EXCEPT !.players = Remaining(lobby, pid),
                            !.idle_since = IdleAfter(lobby, Remaining(lobby, pid))]
              bye   == send(pid, Disconnected(reason))
              left  == [type |-> "Left", pid |-> pid, reason |-> reason]
          IN  \/ /\ l \notin DOMAIN lobbies
                 /\ try_send(outbox, bye)
                 /\ UNCHANGED <<gid_lobbies, lobbies>>
              \/ /\ l \in DOMAIN lobbies
                 /\ \E new \in Heirs(lobby, pid) :
                       /\ lobbies' = [lobbies EXCEPT ![l] = [rest EXCEPT !.master = new]]
                       /\ try_send(outbox, Then(bye, Then(send_to_lobby(rest, left),
                             send_to_lobby(rest, [type |-> "SetMaster", pid |-> new]))))
                 /\ UNCHANGED gid_lobbies
              \/ /\ l \in DOMAIN lobbies
                 /\ Heirs(lobby, pid) = {}
                 /\ lobbies' = Without(lobbies, l)
                 /\ gid_lobbies' = Unindexed(l)
                 /\ try_send(outbox, bye)

-----------------------------------------------------------------------------
(* What members and masters do *)

\* A lobby's new record, announced to its members.
UpdateLobby(pid, lobby, msg) ==
    /\ lobbies' = [lobbies EXCEPT ![players[pid].lid] = lobby]
    /\ try_send(outbox, send_to_lobby(lobby, msg))
    /\ UNCHANGED <<gid_lobbies, players, peers>>

\* A message to one player, the registry left alone.
Notify(pid, msg) ==
    /\ try_send(outbox, send(pid, msg))
    /\ UNCHANGED <<gid_lobbies, lobbies, players, peers>>

\* An exhausted budget: the client is told to go, its player stays registered.
boot(pid) == Notify(pid, Disconnected("Violation"))

SetCapacity(initiator, capacity) ==
    \/ ~IsMaster(initiator) /\ UNCHANGED vars
    \/ IsMaster(initiator) /\ boot(initiator)
    \/ /\ IsMaster(initiator)
       /\ UpdateLobby(initiator, [LobbyOf(initiator) EXCEPT !.capacity = capacity],
                      [type |-> "SetCapacity", capacity |-> capacity])

SetListed(initiator, listed) ==
    \/ ~IsMaster(initiator) /\ UNCHANGED vars
    \/ IsMaster(initiator) /\ boot(initiator)
    \/ /\ IsMaster(initiator)
       /\ UpdateLobby(initiator, [LobbyOf(initiator) EXCEPT !.listed = listed],
                      [type |-> "SetListed", listed |-> listed])

\* Mutant of MayAppoint: the new master may be in another lobby.
MayAppointAnyone(initiator, new_master) ==
    new_master # initiator /\ IsMaster(initiator) /\ new_master \in DOMAIN players

MayAppoint(initiator, new_master) ==
    /\ new_master # initiator
    /\ IsMaster(initiator)
    /\ new_master \in DOMAIN players
    /\ players[new_master].lid = players[initiator].lid

SetMaster(initiator, new_master) ==
    \/ ~MayAppoint(initiator, new_master) /\ UNCHANGED vars
    \/ MayAppoint(initiator, new_master) /\ boot(initiator)
    \/ /\ MayAppoint(initiator, new_master)
       /\ UpdateLobby(initiator, [LobbyOf(initiator) EXCEPT !.master = new_master],
                      [type |-> "SetMaster", pid |-> new_master])

\* A player's new metadata, announced to its lobby when that exists.
UpdatePlayer(pid, metadata, msg) ==
    /\ players' = [players EXCEPT ![pid].metadata = metadata]
    /\ IF InLobby(pid) THEN try_send(outbox, send_to_lobby(LobbyOf(pid), msg))
                       ELSE UNCHANGED outbox
    /\ UNCHANGED <<gid_lobbies, lobbies, peers>>

SetPlayerMeta(pid, key, value) ==
    LET may == pid \in DOMAIN players /\ can_add(players[pid].metadata, key)
    IN  \/ ~may /\ UNCHANGED vars
        \/ may /\ boot(pid)
        \/ may /\ UpdatePlayer(pid, Put(players[pid].metadata, key, value),
                     [type |-> "SetPlayerMeta", pid |-> pid, key |-> key,
                      value |-> value])

ErasePlayerMeta(pid, key) ==
    LET may == pid \in DOMAIN players /\ key \in DOMAIN players[pid].metadata
    IN  \/ ~may /\ UNCHANGED vars
        \/ may /\ UpdatePlayer(pid, Without(players[pid].metadata, key),
                     [type |-> "ErasePlayerMeta", pid |-> pid, key |-> key])

SetLobbyMeta(initiator, key, value) ==
    LET lobby == LobbyOf(initiator)
        may   == IsMaster(initiator) /\ can_add(lobby.metadata, key)
    IN  \/ ~may /\ UNCHANGED vars
        \/ may /\ boot(initiator)
        \/ may /\ UpdateLobby(initiator,
                     [lobby EXCEPT !.metadata = Put(@, key, value)],
                     [type |-> "SetLobbyMeta", key |-> key, value |-> value])

EraseLobbyMeta(initiator, key) ==
    LET lobby == LobbyOf(initiator)
        may   == IsMaster(initiator) /\ key \in DOMAIN lobby.metadata
    IN  \/ ~may /\ UNCHANGED vars
        \/ may /\ UpdateLobby(initiator, [lobby EXCEPT !.metadata = Without(@, key)],
                     [type |-> "EraseLobbyMeta", key |-> key])

\* Kicking only tells the victim's session to end; that removes the player.
KickPlayer(kicker, kickee) ==
    LET may == /\ IsMaster(kicker) /\ kickee \in DOMAIN players
               /\ players[kickee].lid = players[kicker].lid
    IN  \/ ~may /\ UNCHANGED vars
        \/ may /\ Notify(kickee, Disconnected("Natural"))

Relay(from, to, type) ==
    LET may == /\ {from, to} \subseteq DOMAIN players
               /\ players[from].lid = players[to].lid
    IN  \/ ~may /\ UNCHANGED vars
        \/ may /\ Notify(to, [type |-> type, from |-> from])

-----------------------------------------------------------------------------
(* Peers and time *)

session_count(ip) == peers[ip].count
\* The sum of the counts: the sessions are numbered, address by address.
Counts == UNION {{ip} \X (1 .. session_count(ip)) : ip \in DOMAIN peers}
total_sessions == Cardinality(Counts)

\* The reply is whether the session may go on.
MayIntroduce(ip) ==
    /\ total_sessions < GLOBAL_SESSIONS_CAP
    /\ IF ip \in DOMAIN peers THEN session_count(ip) < SESSIONS_PER_IP_CAP
       ELSE Cardinality(DOMAIN peers) < GLOBAL_PEERS_CAP

IntroduceSession(ip, reply) ==
    /\ reply = MayIntroduce(ip)
    /\ peers' = IF ~reply THEN peers
                ELSE Put(peers, ip,
                         [count |-> IF ip \in DOMAIN peers
                                    THEN session_count(ip) + 1 ELSE 1,
                          age |-> 0])
    /\ UNCHANGED <<gid_lobbies, lobbies, players, outbox>>

\* Nothing to do for an unknown or a decaying peer.
CloseSession(ip) ==
    /\ peers' = IF ip \in DOMAIN peers /\ session_count(ip) > 0
                THEN [peers EXCEPT ![ip].count = @ - 1] ELSE peers
    /\ UNCHANGED <<gid_lobbies, lobbies, players, outbox>>

Chud(l) == lobbies[l].idle_since # None
           /\ lobbies[l].idle_since >= CHUD_LOBBY_TIMEOUT
Decayed(ip) == session_count(ip) = 0 /\ peers[ip].age >= SESSION_IDLE_TIMEOUT

Prune ==
    /\ try_send(outbox,
          [p \in Pid |-> IF p \in DOMAIN players
                            /\ \E l \in DOMAIN lobbies : Chud(l) /\ p \in lobbies[l].players
                         THEN Emit(Disconnected("Natural")) ELSE << >>])
    /\ peers' = [ip \in {i \in DOMAIN peers : ~Decayed(i)} |-> peers[ip]]
    /\ UNCHANGED <<gid_lobbies, lobbies, players>>

\* Time passes: every running Instant is one tick older.
Tick ==
    /\ lobbies' = [l \in DOMAIN lobbies |->
          [lobbies[l] EXCEPT !.idle_since =
              IF @ = None THEN None ELSE Least(@ + 1, CHUD_LOBBY_TIMEOUT)]]
    /\ peers' = [ip \in DOMAIN peers |->
          [peers[ip] EXCEPT !.age =
              IF peers[ip].count > 0 THEN 0 ELSE Least(@ + 1, SESSION_IDLE_TIMEOUT)]]
    /\ UNCHANGED <<gid_lobbies, players, outbox>>

\* The other end of the channel: a session takes a message, or drops the
\* receiver when it ends.
Receive(pid) ==
    /\ pid \in DOMAIN outbox /\ outbox[pid] # << >>
    /\ outbox' = [outbox EXCEPT ![pid] = Tail(@)]
    /\ UNCHANGED <<gid_lobbies, lobbies, players, peers>>

Hangup(pid) ==
    /\ pid \in DOMAIN outbox
    /\ outbox' = Without(outbox, pid)
    /\ UNCHANGED <<gid_lobbies, lobbies, players, peers>>

\* A panic while an operation runs: catch_unwind replaces the event loop by a
\* new one; sessions and their channels live on.
EventLoopReset ==
    /\ gid_lobbies' = << >> /\ lobbies' = << >> /\ players' = << >> /\ peers' = << >>
    /\ UNCHANGED outbox

Next ==
    \/ \E ip \in Ip, gid \in Gid, m, pm \in Metadata, c \in Capacity,
          listed \in BOOLEAN, reply \in Replies :
             HostLobby(ip, gid, m, c, listed, pm, reply)
    \/ \E ip \in Ip, l \in LobbyId, pm \in Metadata, reply \in Replies :
             JoinLobby(ip, l, pm, reply)
    \/ \E p \in Pid, reason \in Reason : RemovePlayer(p, reason)
    \/ \E p \in Pid, c \in Capacity : SetCapacity(p, c)
    \/ \E p \in Pid, listed \in BOOLEAN : SetListed(p, listed)
    \/ \E p, q \in Pid : SetMaster(p, q) \/ KickPlayer(p, q)
    \/ \E p \in Pid, k \in Key, v \in Value : SetPlayerMeta(p, k, v) \/ SetLobbyMeta(p, k, v)
    \/ \E p \in Pid, k \in Key : ErasePlayerMeta(p, k) \/ EraseLobbyMeta(p, k)
    \/ \E p, q \in Pid, type \in {"Offer", "Answer", "Candidate"} : Relay(p, q, type)
    \/ \E ip \in Ip, reply \in BOOLEAN : IntroduceSession(ip, reply)
    \/ \E ip \in Ip : CloseSession(ip)
    \/ \E p \in Pid : Receive(p) \/ Hangup(p)
    \/ Prune
    \/ Tick
    \/ EventLoopReset

Spec == Init /\ [][Next]_vars

-----------------------------------------------------------------------------
(* Properties *)

\* The two tables agree about who is where: a player's lobby exists and has
\* the player among its members, and every member of a lobby is a player of it.
\* Host, Join and RemovePlayer change both tables one after the other.
Membership ==
    /\ \A p \in DOMAIN players : InLobby(p) /\ p \in LobbyOf(p).players
    /\ \A l \in DOMAIN lobbies : \A p \in lobbies[l].players :
          p \in DOMAIN players /\ players[p].lid = l

\* The per-game index lists exactly the lobbies that exist, and forgets a game
\* with its last lobby (no gid from a past client stays in memory).
GameIndex ==
    /\ \A g \in Gid, i \in Lid :
          [gid |-> g, lid |-> i] \in DOMAIN lobbies
             <=> g \in DOMAIN gid_lobbies /\ i \in gid_lobbies[g]
    /\ \A g \in DOMAIN gid_lobbies : gid_lobbies[g] # {}

\* Every lobby has a master, and the master is one of its members: whoever
\* leaves, in whatever order, the lobby never becomes leaderless.
MasterIsMember == \A l \in DOMAIN lobbies : lobbies[l].master \in lobbies[l].players

\* A lobby's idle clock runs exactly while it has fewer members than
\* CHUD_THRESHOLD, so that Prune throws out lonely lobbies and no others.
IdleClock ==
    \A l \in DOMAIN lobbies :
        lobbies[l].idle_since = None
            <=> Cardinality(lobbies[l].players) >= CHUD_THRESHOLD

\* The limits on lobbies per address and on sessions and peers are never
\* exceeded, whatever the order of introductions, closes and pruning.
Limits ==
    /\ \A ip \in Ip : Cardinality(LobbiesFrom(ip)) =< LOBBIES_PER_IP
    /\ \A ip \in DOMAIN peers : session_count(ip) =< SESSIONS_PER_IP_CAP
    /\ total_sessions =< GLOBAL_SESSIONS_CAP
    /\ Cardinality(DOMAIN peers) =< GLOBAL_PEERS_CAP

\* A listing shows only lobbies one can join, and all of them unless it is cut
\* off at the cap: a lobby missing from the index would be open and unfindable.
ListingComplete ==
    \A gid \in Gid : \A S \in Listings(gid, LOBBY_LISTING_CAP) :
        LET joinable == {i \in Lid : LET l == [gid |-> gid, lid |-> i]
                                     IN  /\ l \in DOMAIN lobbies /\ lobbies[l].listed
                                         /\ ~is_full(lobbies[l])}
        IN  S \subseteq joinable
            /\ (S = joinable \/ Cardinality(S) = LOBBY_LISTING_CAP)

\* The tables implement the service: a player's lobby is what the players table
\* says, masters and capacities are those of the lobbies table.
Where == [p \in Pid |-> IF p \in DOMAIN players THEN players[p].lid ELSE None]
Masters == [l \in DOMAIN lobbies |-> lobbies[l].master]
Capacities == [l \in DOMAIN lobbies |-> lobbies[l].capacity]
Service == INSTANCE LobbyService WITH
    Player <- Pid, Lobby <- LobbyId, Nowhere <- None,
    where <- Where, master <- Masters, capacity <- Capacities

ImplementsLobbyService == Service!Spec
=============================================================================
