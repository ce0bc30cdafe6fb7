---------------------------- MODULE BlasterProofs ----------------------------
(* Proofs that the event loop's tables stay typed and consistent. *)
EXTENDS Blaster, FiniteSetTheorems, SequenceTheorems, TLAPS

\* TypeOK in two parts: the tables, and the channels.
TablesOK ==
    /\ DOMAIN gid_lobbies \subseteq Gid
    /\ \A g \in DOMAIN gid_lobbies : gid_lobbies[g] \subseteq Lid
    /\ DOMAIN lobbies \subseteq LobbyId
    /\ \A l \in DOMAIN lobbies : lobbies[l] \in Lobby
    /\ DOMAIN players \subseteq Pid
    /\ \A p \in DOMAIN players : players[p] \in Player
    /\ DOMAIN peers \subseteq Ip
    /\ \A ip \in DOMAIN peers : peers[ip] \in Peer
BoxOK(box) ==
    /\ DOMAIN box \subseteq Pid
    /\ \A p \in DOMAIN box : box[p] \in Seq(Message) /\ Len(box[p]) =< QUEUE_CAP

\* The inductive invariant: the types, and the four facts that keep one another
\* true (RemovePlayer deletes a lobby when its master has no heir: that leaves no
\* player behind only because the master is a member and members are players).
IInv == /\ TablesOK /\ BoxOK(outbox)
        /\ Membership /\ GameIndex /\ MasterIsMember /\ IdleClock

-----------------------------------------------------------------------------
(* Messages and channels *)

\* What a step sends is, for every player, a sequence of messages.
Sendable(sent) == \A p \in Pid : sent[p] \in Seq(Message)

LEMMA EmitType ==
    ASSUME NEW msg \in Message
    PROVE  Emit(msg) \in Seq(Message)
BY DEF Emit

LEMMA SendType ==
    ASSUME NEW msg \in Message
    PROVE  /\ \A pid : Sendable(send(pid, msg))
           /\ \A lobby : Sendable(send_to_lobby(lobby, msg))
<1>1. Emit(msg) \in Seq(Message) /\ << >> \in Seq(Message)
    BY EmitType, EmptySeq
<1> QED
    BY <1>1 DEF Sendable, send, send_to_lobby

LEMMA ThenType ==
    ASSUME NEW a, NEW b, Sendable(a), Sendable(b)
    PROVE  Sendable(Then(a, b))
<1> SUFFICES ASSUME NEW p \in Pid PROVE Then(a, b)[p] \in Seq(Message)
    BY DEF Sendable
<1> QED
    BY ConcatProperties DEF Sendable, Then

\* A channel takes some of the messages, no more than it has room for.
LEMMA FittingKeeps ==
    ASSUME NEW M, NEW s \in Seq(M), NEW n \in Nat, NEW k \in Fitting(s, n)
    PROVE  k \in Seq(M) /\ Len(k) =< n
<1>1. CASE Len(s) =< n
    BY <1>1 DEF Fitting
<1>2. CASE ~(Len(s) =< n)
  <2>1. PICK f \in [1 .. n -> DOMAIN s] : k = [i \in 1 .. n |-> s[f[i]]]
      BY <1>2 DEF Fitting
  <2>2. \A i \in 1 .. n : s[f[i]] \in M
      BY <2>1, LenProperties, ElementOfSeq
  <2>3. k \in [1 .. n -> M]
      BY <2>1, <2>2
  <2> QED
      BY <2>3, SeqDef, LenProperties
<1> QED
    BY <1>1, <1>2

\* try_send puts in the channels only what was sent, and stays within QUEUE_CAP.
LEMMA TrySendKeeps ==
    ASSUME NEW M, NEW box, BoxOK(box), \A p \in DOMAIN box : box[p] \in Seq(M),
           NEW sent, \A p \in Pid : sent[p] \in Seq(M), try_send(box, sent)
    PROVE  /\ DOMAIN outbox' = DOMAIN box
           /\ \A p \in DOMAIN box : outbox'[p] \in Seq(M) /\ Len(outbox'[p]) =< QUEUE_CAP
<1> DEFINE heard == DOMAIN box \cap Watched
<1>0. PICK kept :
        /\ \A p \in heard : kept[p] \in Accepted(box[p], sent[p])
        /\ outbox' = [p \in DOMAIN box |-> IF p \in heard THEN box[p] \o kept[p] ELSE << >>]
    BY DEF try_send
<1>1. DOMAIN outbox' = DOMAIN box
    BY <1>0
<1> SUFFICES ASSUME NEW p \in DOMAIN box
             PROVE  outbox'[p] \in Seq(M) /\ Len(outbox'[p]) =< QUEUE_CAP
    BY <1>1
<1>2. /\ box[p] \in Seq(M) /\ sent[p] \in Seq(M)
      /\ Len(box[p]) \in Nat /\ Len(box[p]) =< QUEUE_CAP /\ QUEUE_CAP \in Nat
    BY CapsAssumption DEF BoxOK
<1>3. CASE p \notin heard
  <2>1. outbox'[p] = << >>
      BY <1>0, <1>3
  <2> QED
      BY <1>2, <2>1
<1>4. CASE p \in heard
  <2>1. PICK room \in Slots : kept[p] \in Fitting(sent[p], Least(room, QUEUE_CAP - Len(box[p])))
      BY <1>0, <1>4 DEF Accepted
  <2>2. PICK n \in Nat : n = Least(room, QUEUE_CAP - Len(box[p])) /\ n =< QUEUE_CAP - Len(box[p])
    <3>1. room \in Nat
        BY <2>1, CapsAssumption
    <3>2. PICK b \in Nat : b = QUEUE_CAP - Len(box[p])
        BY <1>2
    <3>3. Least(room, b) \in Nat /\ Least(room, b) =< b
        BY <3>1, <3>2 DEF Least
    <3> QED
        BY <3>2, <3>3
  <2>3. PICK added, msgs : added = kept[p] /\ msgs = sent[p]
      OBVIOUS
  <2>4. msgs \in Seq(M) /\ added \in Fitting(msgs, n)
      BY <1>2, <2>1, <2>2, <2>3
  <2>5. added \in Seq(M) /\ Len(added) =< n /\ Len(added) \in Nat
      BY <2>4, FittingKeeps, LenProperties
  <2>6. box[p] \o added \in Seq(M) /\ Len(box[p] \o added) = Len(box[p]) + Len(added)
      BY <1>2, <2>5, ConcatProperties
  <2>7. outbox'[p] = box[p] \o added
      BY <1>0, <1>4, <2>3
  <2> QED
      BY <1>2, <2>2, <2>5, <2>6, <2>7
<1> QED
    BY <1>3, <1>4

LEMMA TrySendType ==
    ASSUME NEW box, BoxOK(box), NEW sent, Sendable(sent), try_send(box, sent)
    PROVE  BoxOK(outbox') /\ DOMAIN outbox' = DOMAIN box
<1>1. \A p \in DOMAIN box : box[p] \in Seq(Message)
    BY DEF BoxOK
<1>2. \A p \in Pid : sent[p] \in Seq(Message)
    BY DEF Sendable
<1>3. /\ DOMAIN outbox' = DOMAIN box
      /\ \A p \in DOMAIN box : outbox'[p] \in Seq(Message) /\ Len(outbox'[p]) =< QUEUE_CAP
    BY <1>1, <1>2, TrySendKeeps
<1> QED
    BY <1>3 DEF BoxOK

\* The messages the event loop makes are messages.
LEMMA MessageTypes ==
    /\ \A b \in BOOLEAN : [type |-> "SetListed", listed |-> b] \in Message
    /\ \A c \in Capacity : [type |-> "SetCapacity", capacity |-> c] \in Message
    /\ \A k \in Key, v \in Value : [type |-> "SetLobbyMeta", key |-> k, value |-> v] \in Message
    /\ \A k \in Key : [type |-> "EraseLobbyMeta", key |-> k] \in Message
    /\ \A i \in Lid, p \in Pid : [type |-> "Connected", lid |-> i, pid |-> p] \in Message
    /\ \A p \in Pid, m \in Metadata :
          Joined(p, m) \in Message
    /\ \A p \in Pid, r \in Reason : [type |-> "Left", pid |-> p, reason |-> r] \in Message
    /\ \A p \in Pid : [type |-> "SetMaster", pid |-> p] \in Message
    /\ \A p \in Pid, k \in Key, v \in Value :
          [type |-> "SetPlayerMeta", pid |-> p, key |-> k, value |-> v] \in Message
    /\ \A p \in Pid, k \in Key :
          [type |-> "ErasePlayerMeta", pid |-> p, key |-> k] \in Message
    /\ \A r \in Reason : Disconnected(r) \in Message
    /\ \A t \in {"Offer", "Answer", "Candidate"}, p \in Pid :
          [type |-> t, from |-> p] \in Message
BY DEF Message, Disconnected, Joined

-----------------------------------------------------------------------------
(* Metadata *)

\* What it takes to be a Metadata.
LEMMA MetadataFacts ==
    ASSUME NEW m \in Metadata
    PROVE  /\ m \in [DOMAIN m -> Value] /\ DOMAIN m \subseteq Key
           /\ IsFiniteSet(DOMAIN m)
           /\ Cardinality(DOMAIN m) \in Nat /\ Cardinality(DOMAIN m) =< MAX_FIELDS
<1>1. PICK K \in SUBSET Key : m \in [K -> Value]
    BY DEF Metadata
<1>2. DOMAIN m = K
    BY <1>1
<1>3. IsFiniteSet(K)
    BY FiniteAssumption, FS_Subset
<1> QED
    BY <1>1, <1>2, <1>3, FS_CardinalityType DEF Metadata

LEMMA IsMetadata ==
    ASSUME NEW K \in SUBSET Key, NEW m \in [K -> Value], Cardinality(K) =< MAX_FIELDS
    PROVE  m \in Metadata
BY DEF Metadata

\* A field that can be added keeps the metadata within MAX_FIELDS.
LEMMA PutMetadata ==
    ASSUME NEW m \in Metadata, NEW key \in Key, NEW value \in Value, can_add(m, key)
    PROVE  Put(m, key, value) \in Metadata
<1> DEFINE K == DOMAIN m \cup {key}
<1>1. K \in SUBSET Key /\ Put(m, key, value) \in [K -> Value]
    BY MetadataFacts DEF Put
<1>2. Cardinality(K) =< MAX_FIELDS
  <2>1. CASE key \in DOMAIN m
    <3>1. K = DOMAIN m
        BY <2>1
    <3> QED
        BY <3>1, MetadataFacts
  <2>2. CASE key \notin DOMAIN m
    <3>1. Cardinality(DOMAIN m) < MAX_FIELDS
        BY <2>2 DEF can_add
    <3>2. Cardinality(K) = Cardinality(DOMAIN m) + 1
        BY <2>2, MetadataFacts, FS_AddElement
    <3> QED
        BY <3>1, <3>2, MetadataFacts, CapsAssumption
  <2> QED
      BY <2>1, <2>2
<1> QED
    BY <1>1, <1>2, IsMetadata

LEMMA WithoutMetadata ==
    ASSUME NEW m \in Metadata, NEW key
    PROVE  Without(m, key) \in Metadata
<1> DEFINE K == DOMAIN m \ {key}
<1>1. K \in SUBSET Key /\ Without(m, key) \in [K -> Value]
    BY MetadataFacts DEF Without
<1>2. Cardinality(K) =< MAX_FIELDS
  <2>1. IsFiniteSet(K) /\ Cardinality(K) =< Cardinality(DOMAIN m)
      BY MetadataFacts, FS_Subset
  <2> QED
      BY <2>1, MetadataFacts, FS_CardinalityType, CapsAssumption
<1> QED
    BY <1>1, <1>2, IsMetadata

-----------------------------------------------------------------------------
(* The steps *)

\* A step that only touches channels.
LEMMA ChannelStep ==
    ASSUME IInv, BoxOK(outbox'), UNCHANGED <<gid_lobbies, lobbies, players, peers>>
    PROVE  IInv'
BY DEF IInv, TablesOK, BoxOK, Membership, GameIndex, MasterIsMember, IdleClock, InLobby, LobbyOf

\* boot, KickPlayer and Relay: a message to one player.
LEMMA NotifyStep ==
    ASSUME IInv, NEW pid, NEW msg \in Message, Notify(pid, msg)
    PROVE  IInv'
<1>1. BoxOK(outbox')
    BY SendType, TrySendType DEF IInv, Notify
<1> QED
    BY <1>1, ChannelStep DEF Notify

LEMMA BootStep ==
    ASSUME IInv, NEW pid, boot(pid)
    PROVE  IInv'
BY NotifyStep, MessageTypes DEF boot, Reason

\* A master changes its lobby, but neither who is in it nor the idle clock.
LEMMA UpdateLobbyStep ==
    ASSUME IInv, NEW pid, InLobby(pid), NEW msg \in Message,
           NEW lobby \in Lobby, lobby.master \in lobby.players,
           lobby.players = LobbyOf(pid).players,
           lobby.idle_since = LobbyOf(pid).idle_since,
           UpdateLobby(pid, lobby, msg)
    PROVE  IInv'
<1> DEFINE l == players[pid].lid
<1>1. l \in DOMAIN lobbies /\ LobbyOf(pid) = lobbies[l]
    BY DEF InLobby, LobbyOf
<1>2. lobbies' = [lobbies EXCEPT ![l] = lobby]
      /\ gid_lobbies' = gid_lobbies /\ players' = players /\ peers' = peers
    BY DEF UpdateLobby
<1> HIDE DEF l
<1>3. BoxOK(outbox')
    BY SendType, TrySendType DEF IInv, UpdateLobby
<1>4. TablesOK'
    BY <1>1, <1>2 DEF IInv, TablesOK
<1>5. DOMAIN lobbies' = DOMAIN lobbies
      /\ \A k \in DOMAIN lobbies : /\ lobbies'[k].players = lobbies[k].players
                                   /\ lobbies'[k].idle_since = lobbies[k].idle_since
                                   /\ lobbies'[k].master \in lobbies'[k].players
    BY <1>1, <1>2 DEF IInv, MasterIsMember
<1>6. Membership'
    BY <1>2, <1>5 DEF IInv, Membership, InLobby, LobbyOf
<1>7. GameIndex' /\ MasterIsMember' /\ IdleClock'
    BY <1>2, <1>5 DEF IInv, GameIndex, MasterIsMember, IdleClock
<1> QED
    BY <1>3, <1>4, <1>6, <1>7 DEF IInv

\* A player's metadata changes.
LEMMA UpdatePlayerStep ==
    ASSUME IInv, NEW pid \in DOMAIN players, NEW metadata \in Metadata, NEW msg \in Message,
           UpdatePlayer(pid, metadata, msg)
    PROVE  IInv'
<1>1. players' = [players EXCEPT ![pid].metadata = metadata]
      /\ gid_lobbies' = gid_lobbies /\ lobbies' = lobbies /\ peers' = peers
    BY DEF UpdatePlayer
<1>2. BoxOK(outbox')
    BY SendType, TrySendType DEF IInv, UpdatePlayer, BoxOK
<1>3. DOMAIN players' = DOMAIN players
      /\ \A p \in DOMAIN players : players'[p].lid = players[p].lid /\ players'[p] \in Player
    BY <1>1 DEF IInv, TablesOK, Player
<1>4. TablesOK'
    BY <1>1, <1>3 DEF IInv, TablesOK
<1>5. Membership'
    BY <1>1, <1>3 DEF IInv, Membership, InLobby, LobbyOf
<1>6. GameIndex' /\ MasterIsMember' /\ IdleClock'
    BY <1>1 DEF IInv, GameIndex, MasterIsMember, IdleClock
<1> QED
    BY <1>2, <1>4, <1>5, <1>6 DEF IInv

LEMMA MasterFacts ==
    ASSUME IInv, NEW p, IsMaster(p)
    PROVE  LobbyOf(p) \in Lobby /\ LobbyOf(p).master \in LobbyOf(p).players /\ InLobby(p)
BY DEF IsMaster, InLobby, LobbyOf, IInv, TablesOK, MasterIsMember

LEMMA StutterStep ==
    ASSUME IInv, UNCHANGED vars
    PROVE  IInv'
BY ChannelStep DEF vars, IInv

LEMMA SetCapacityStep ==
    ASSUME IInv, NEW p \in Pid, NEW c \in Capacity, SetCapacity(p, c)
    PROVE  IInv'
<1> DEFINE lobby == [LobbyOf(p) EXCEPT !.capacity = c]
           msg == [type |-> "SetCapacity", capacity |-> c]
<1>1. CASE IsMaster(p) /\ UpdateLobby(p, lobby, msg)
  <2>1. msg \in Message
      BY MessageTypes
  <2>2. /\ lobby \in Lobby /\ lobby.master \in lobby.players
        /\ lobby.players = LobbyOf(p).players /\ lobby.idle_since = LobbyOf(p).idle_since
      BY <1>1, MasterFacts DEF Lobby
  <2> QED
      BY <1>1, <2>1, <2>2, MasterFacts, UpdateLobbyStep
<1> QED
    BY <1>1, StutterStep, BootStep DEF SetCapacity

LEMMA SetListedStep ==
    ASSUME IInv, NEW p \in Pid, NEW listed \in BOOLEAN, SetListed(p, listed)
    PROVE  IInv'
<1> DEFINE lobby == [LobbyOf(p) EXCEPT !.listed = listed]
           msg == [type |-> "SetListed", listed |-> listed]
<1>1. CASE IsMaster(p) /\ UpdateLobby(p, lobby, msg)
  <2>1. msg \in Message
      BY MessageTypes
  <2>2. /\ lobby \in Lobby /\ lobby.master \in lobby.players
        /\ lobby.players = LobbyOf(p).players /\ lobby.idle_since = LobbyOf(p).idle_since
      BY <1>1, MasterFacts DEF Lobby
  <2> QED
      BY <1>1, <2>1, <2>2, MasterFacts, UpdateLobbyStep
<1> QED
    BY <1>1, StutterStep, BootStep DEF SetListed

\* The new master is a player of the same lobby, hence one of its members.
LEMMA SetMasterStep ==
    ASSUME IInv, NEW p \in Pid, NEW q \in Pid, SetMaster(p, q)
    PROVE  IInv'
<1> DEFINE lobby == [LobbyOf(p) EXCEPT !.master = q]
           msg == [type |-> "SetMaster", pid |-> q]
<1>1. CASE MayAppoint(p, q) /\ UpdateLobby(p, lobby, msg)
  <2>1. msg \in Message
      BY MessageTypes
  <2>2. IsMaster(p) /\ q \in LobbyOf(p).players
      BY <1>1 DEF MayAppoint, IInv, Membership, InLobby, LobbyOf
  <2>3. /\ lobby \in Lobby /\ lobby.master \in lobby.players
        /\ lobby.players = LobbyOf(p).players /\ lobby.idle_since = LobbyOf(p).idle_since
      BY <2>2, MasterFacts DEF Lobby
  <2> QED
      BY <1>1, <2>1, <2>2, <2>3, MasterFacts, UpdateLobbyStep
<1> QED
    BY <1>1, StutterStep, BootStep DEF SetMaster

LEMMA SetLobbyMetaStep ==
    ASSUME IInv, NEW p \in Pid, NEW k \in Key, NEW v \in Value, SetLobbyMeta(p, k, v)
    PROVE  IInv'
<1> DEFINE lobby == [LobbyOf(p) EXCEPT !.metadata = Put(@, k, v)]
           msg == [type |-> "SetLobbyMeta", key |-> k, value |-> v]
<1>1. CASE IsMaster(p) /\ can_add(LobbyOf(p).metadata, k) /\ UpdateLobby(p, lobby, msg)
  <2>1. msg \in Message
      BY MessageTypes
  <2>2. Put(LobbyOf(p).metadata, k, v) \in Metadata
      BY <1>1, MasterFacts, PutMetadata DEF Lobby
  <2>3. /\ lobby \in Lobby /\ lobby.master \in lobby.players
        /\ lobby.players = LobbyOf(p).players /\ lobby.idle_since = LobbyOf(p).idle_since
      BY <1>1, <2>2, MasterFacts DEF Lobby
  <2> QED
      BY <1>1, <2>1, <2>3, MasterFacts, UpdateLobbyStep
<1> QED
    BY <1>1, StutterStep, BootStep DEF SetLobbyMeta

LEMMA EraseLobbyMetaStep ==
    ASSUME IInv, NEW p \in Pid, NEW k \in Key, EraseLobbyMeta(p, k)
    PROVE  IInv'
<1> DEFINE lobby == [LobbyOf(p) EXCEPT !.metadata = Without(@, k)]
           msg == [type |-> "EraseLobbyMeta", key |-> k]
<1>1. CASE IsMaster(p) /\ UpdateLobby(p, lobby, msg)
  <2>1. msg \in Message
      BY MessageTypes
  <2>2. Without(LobbyOf(p).metadata, k) \in Metadata
      BY <1>1, MasterFacts, WithoutMetadata DEF Lobby
  <2>3. /\ lobby \in Lobby /\ lobby.master \in lobby.players
        /\ lobby.players = LobbyOf(p).players /\ lobby.idle_since = LobbyOf(p).idle_since
      BY <1>1, <2>2, MasterFacts DEF Lobby
  <2> QED
      BY <1>1, <2>1, <2>3, MasterFacts, UpdateLobbyStep
<1> QED
    BY <1>1, StutterStep DEF EraseLobbyMeta

LEMMA SetPlayerMetaStep ==
    ASSUME IInv, NEW p \in Pid, NEW k \in Key, NEW v \in Value, SetPlayerMeta(p, k, v)
    PROVE  IInv'
<1> DEFINE metadata == Put(players[p].metadata, k, v)
           msg == [type |-> "SetPlayerMeta", pid |-> p, key |-> k, value |-> v]
<1>1. CASE /\ p \in DOMAIN players /\ can_add(players[p].metadata, k)
           /\ UpdatePlayer(p, metadata, msg)
  <2>1. msg \in Message
      BY MessageTypes
  <2>2. players[p].metadata \in Metadata
      BY <1>1 DEF IInv, TablesOK, Player
  <2>3. metadata \in Metadata
      BY <1>1, <2>2, PutMetadata
  <2> QED
      BY <1>1, <2>1, <2>3, UpdatePlayerStep
<1> QED
    BY <1>1, StutterStep, BootStep DEF SetPlayerMeta

LEMMA ErasePlayerMetaStep ==
    ASSUME IInv, NEW p \in Pid, NEW k \in Key, ErasePlayerMeta(p, k)
    PROVE  IInv'
<1> DEFINE metadata == Without(players[p].metadata, k)
           msg == [type |-> "ErasePlayerMeta", pid |-> p, key |-> k]
<1>1. CASE p \in DOMAIN players /\ UpdatePlayer(p, metadata, msg)
  <2>1. msg \in Message
      BY MessageTypes
  <2>2. players[p].metadata \in Metadata
      BY <1>1 DEF IInv, TablesOK, Player
  <2>3. metadata \in Metadata
      BY <2>2, WithoutMetadata
  <2> QED
      BY <1>1, <2>1, <2>3, UpdatePlayerStep
<1> QED
    BY <1>1, StutterStep DEF ErasePlayerMeta

LEMMA KickRelayStep ==
    ASSUME IInv, NEW p \in Pid, NEW q \in Pid, NEW t \in {"Offer", "Answer", "Candidate"},
           KickPlayer(p, q) \/ Relay(p, q, t)
    PROVE  IInv'
<1>1. Disconnected("Natural") \in Message /\ [type |-> t, from |-> p] \in Message
    BY MessageTypes DEF Reason
<1> QED
    BY <1>1, StutterStep, NotifyStep DEF KickPlayer, Relay

-----------------------------------------------------------------------------
(* Peers and time *)

\* The tables of lobbies and players are left alone.
LEMMA PeerStep ==
    ASSUME IInv, BoxOK(outbox'), UNCHANGED <<gid_lobbies, lobbies, players>>,
           DOMAIN peers' \subseteq Ip, \A ip \in DOMAIN peers' : peers'[ip] \in Peer
    PROVE  IInv'
BY DEF IInv, TablesOK, Membership, GameIndex, MasterIsMember, IdleClock, InLobby, LobbyOf

LEMMA IntroduceStep ==
    ASSUME IInv, NEW ip \in Ip, NEW reply \in BOOLEAN, IntroduceSession(ip, reply)
    PROVE  IInv'
<1> DEFINE n == IF ip \in DOMAIN peers THEN session_count(ip) + 1 ELSE 1
<1>1. [count |-> n, age |-> 0] \in Peer
    BY CapsAssumption DEF IInv, TablesOK, Peer, session_count
<1>2. peers' = IF ~reply THEN peers ELSE Put(peers, ip, [count |-> n, age |-> 0])
    BY DEF IntroduceSession
<1> HIDE DEF n
<1>3. DOMAIN peers' \subseteq Ip /\ \A i \in DOMAIN peers' : peers'[i] \in Peer
    BY <1>1, <1>2 DEF IInv, TablesOK, Put
<1> QED
    BY <1>3, PeerStep DEF IntroduceSession, IInv

LEMMA CloseStep ==
    ASSUME IInv, NEW ip \in Ip, CloseSession(ip)
    PROVE  IInv'
<1>1. DOMAIN peers' \subseteq Ip /\ \A i \in DOMAIN peers' : peers'[i] \in Peer
    BY DEF IInv, TablesOK, Peer, session_count, CloseSession
<1> QED
    BY <1>1, PeerStep DEF CloseSession, IInv

LEMMA PruneStep ==
    ASSUME IInv, Prune
    PROVE  IInv'
<1> DEFINE sent == [p \in Pid |-> IF p \in DOMAIN players
                            /\ \E l \in DOMAIN lobbies : Chud(l) /\ p \in lobbies[l].players
                         THEN Emit(Disconnected("Natural")) ELSE << >>]
<1>1. Emit(Disconnected("Natural")) \in Seq(Message) /\ << >> \in Seq(Message)
    BY MessageTypes, EmitType, EmptySeq DEF Reason
<1>2. Sendable(sent)
    BY <1>1 DEF Sendable
<1>3. BoxOK(outbox')
    BY <1>2, TrySendType DEF IInv, Prune
<1>4. DOMAIN peers' \subseteq Ip /\ \A i \in DOMAIN peers' : peers'[i] \in Peer
    BY DEF IInv, TablesOK, Prune
<1> QED
    BY <1>3, <1>4, PeerStep DEF Prune

\* A running clock is a number and stays one; a stopped one stays None.
LEMMA TickStep ==
    ASSUME IInv, Tick
    PROVE  IInv'
<1>1. CHUD_LOBBY_TIMEOUT \in Nat /\ SESSION_IDLE_TIMEOUT \in Nat /\ None \notin Nat
    BY CapsAssumption, IdsAssumption
<1>2. /\ DOMAIN peers' = DOMAIN peers
      /\ \A i \in DOMAIN peers : peers'[i] \in Peer
    BY <1>1 DEF IInv, TablesOK, Peer, Tick, Least
<1>3. /\ DOMAIN lobbies' = DOMAIN lobbies
      /\ \A l \in DOMAIN lobbies : /\ lobbies'[l] \in Lobby
                                   /\ lobbies'[l].players = lobbies[l].players
                                   /\ lobbies'[l].master = lobbies[l].master
                                   /\ lobbies'[l].idle_since = None
                                        <=> lobbies[l].idle_since = None
    BY <1>1 DEF IInv, TablesOK, Lobby, Tick, Least
<1>4. TablesOK' /\ BoxOK(outbox')
    BY <1>2, <1>3 DEF IInv, TablesOK, BoxOK, Tick
<1>5. Membership' /\ GameIndex'
  <2>1. gid_lobbies' = gid_lobbies /\ players' = players
      BY DEF Tick
  <2>2. Membership'
      BY <1>3, <2>1 DEF IInv, Membership, InLobby, LobbyOf
  <2> QED
      BY <1>3, <2>1, <2>2 DEF IInv, GameIndex
<1>6. MasterIsMember' /\ IdleClock'
    BY <1>3 DEF IInv, MasterIsMember, IdleClock
<1> QED
    BY <1>4, <1>5, <1>6 DEF IInv

LEMMA ReceiveHangupStep ==
    ASSUME IInv, NEW p \in Pid, Receive(p) \/ Hangup(p)
    PROVE  IInv'
<1>1. CASE Receive(p)
  <2>1. /\ outbox[p] \in Seq(Message) /\ outbox[p] # << >> /\ p \in DOMAIN outbox
        /\ Len(outbox[p]) \in Nat /\ Len(outbox[p]) =< QUEUE_CAP
      BY <1>1 DEF Receive, IInv, BoxOK
  <2>2. Tail(outbox[p]) \in Seq(Message) /\ Len(Tail(outbox[p])) =< QUEUE_CAP
      BY <2>1, HeadTailProperties, CapsAssumption
  <2>3. outbox' = [outbox EXCEPT ![p] = Tail(outbox[p])]
      BY <1>1 DEF Receive
  <2>4. BoxOK(outbox')
      BY <2>2, <2>3 DEF IInv, BoxOK
  <2> QED
      BY <1>1, <2>4, ChannelStep DEF Receive
<1>2. CASE Hangup(p)
  <2>1. BoxOK(outbox')
      BY <1>2 DEF IInv, BoxOK, Hangup, Without
  <2> QED
      BY <1>2, <2>1, ChannelStep DEF Hangup
<1> QED
    BY <1>1, <1>2

LEMMA ResetStep ==
    ASSUME IInv, EventLoopReset
    PROVE  IInv'
BY DEF IInv, TablesOK, BoxOK, Membership, GameIndex, MasterIsMember, IdleClock,
       EventLoopReset

LEMMA InitStep == Init => IInv
BY DEF Init, IInv, TablesOK, BoxOK, Membership, GameIndex, MasterIsMember, IdleClock

-----------------------------------------------------------------------------
(* Coming and going *)

\* Iterating a finite set gives a sequence of its elements.
LEMMA OrdersType ==
    ASSUME NEW S, IsFiniteSet(S), NEW f \in Orders(S)
    PROVE  \E n \in Nat : f \in [1 .. n -> S]
BY FS_CardinalityType DEF Orders

\* Messages that relay nothing and announce only players in U.
Naming(U) == {m \in Message : /\ m.type \notin {"Offer", "Answer", "Candidate"}
                              /\ m.type = "Joined" => m.pid \in U}

LEMMA NamingTypes ==
    ASSUME NEW U
    PROVE  \A m \in Message :
              m.type \notin {"Offer", "Answer", "Candidate", "Joined"} => m \in Naming(U)
BY DEF Naming

LEMMA EmitNaming ==
    ASSUME NEW U, NEW msg \in Naming(U)
    PROVE  Emit(msg) \in Seq(Naming(U))
BY DEF Emit

\* The welcome announces the members that are there.
LEMMA WelcomeNames ==
    ASSUME TablesOK, NEW U, DOMAIN players \subseteq U, NEW pid \in Pid, NEW l \in LobbyId, NEW lobby \in Lobby,
           NEW keys \in Orders(DOMAIN lobby.metadata),
           NEW order \in Orders(lobby.players \cap DOMAIN players)
    PROVE  Welcome(pid, l, lobby, keys, order) \in Seq(Naming(U))
<1>1. /\ lobby.listed \in BOOLEAN /\ lobby.capacity \in Capacity /\ lobby.master \in Pid
      /\ lobby.metadata \in Metadata /\ lobby.players \in SUBSET Pid /\ l.lid \in Lid
    BY DEF Lobby, LobbyId
<1>2. /\ Emit([type |-> "SetListed", listed |-> lobby.listed]) \in Seq(Naming(U))
      /\ Emit([type |-> "SetCapacity", capacity |-> lobby.capacity]) \in Seq(Naming(U))
      /\ Emit([type |-> "Connected", lid |-> l.lid, pid |-> pid]) \in Seq(Naming(U))
      /\ Emit([type |-> "SetMaster", pid |-> lobby.master]) \in Seq(Naming(U))
    BY <1>1, MessageTypes, NamingTypes, EmitNaming
<1> DEFINE fields == [i \in DOMAIN keys |->
               [type |-> "SetLobbyMeta", key |-> keys[i], value |-> lobby.metadata[keys[i]]]]
           joins == [i \in DOMAIN order |-> Joined(order[i], players[order[i]].metadata)]
<1>3. EmitAll("SetLobbyMeta", fields) \in Seq(Naming(U))
  <2>1. PICK n \in Nat : keys \in [1 .. n -> DOMAIN lobby.metadata]
      BY <1>1, MetadataFacts, OrdersType
  <2>2. \A i \in 1 .. n : keys[i] \in Key /\ lobby.metadata[keys[i]] \in Value
      BY <1>1, <2>1, MetadataFacts
  <2>3. DOMAIN fields = 1 .. n /\ \A i \in 1 .. n : fields[i] \in Naming(U)
      BY <2>1, <2>2, MessageTypes, NamingTypes
  <2>4. fields \in [1 .. n -> Naming(U)]
      BY <2>3
  <2> HIDE DEF fields
  <2>5. fields \in Seq(Naming(U))
      BY <2>4
  <2> QED
      BY <2>5, EmptySeq DEF EmitAll
<1>4. EmitAll("Joined", joins) \in Seq(Naming(U))
  <2>1. IsFiniteSet(lobby.players \cap DOMAIN players)
      BY <1>1, FiniteAssumption, FS_Subset
  <2>2. PICK n \in Nat : order \in [1 .. n -> lobby.players \cap DOMAIN players]
      BY <2>1, OrdersType
  <2>3. \A i \in 1 .. n : order[i] \in Pid /\ players[order[i]].metadata \in Metadata
      BY <2>2 DEF TablesOK, Player
  <2>4. DOMAIN joins = 1 .. n /\ \A i \in 1 .. n : joins[i] \in Naming(U)
      BY <2>2, <2>3, MessageTypes DEF Naming, Joined
  <2>5. joins \in [1 .. n -> Naming(U)]
      BY <2>4
  <2> HIDE DEF joins
  <2>6. joins \in Seq(Naming(U))
      BY <2>5
  <2> QED
      BY <2>6, EmptySeq DEF EmitAll
<1>5. \A s, t \in Seq(Naming(U)) : s \o t \in Seq(Naming(U))
    BY ConcatProperties
<1> HIDE DEF fields, joins
<1> DEFINE a == Emit([type |-> "SetListed", listed |-> lobby.listed])
           b == Emit([type |-> "SetCapacity", capacity |-> lobby.capacity])
           c == EmitAll("SetLobbyMeta", fields)
           d == Emit([type |-> "Connected", lid |-> l.lid, pid |-> pid])
           e == EmitAll("Joined", joins)
           f == Emit([type |-> "SetMaster", pid |-> lobby.master])
<1>6. Welcome(pid, l, lobby, keys, order) = a \o b \o c \o d \o e \o f
    BY DEF Welcome, fields, joins
<1>7. a \in Seq(Naming(U)) /\ b \in Seq(Naming(U)) /\ c \in Seq(Naming(U))
      /\ d \in Seq(Naming(U)) /\ e \in Seq(Naming(U)) /\ f \in Seq(Naming(U))
    BY <1>2, <1>3, <1>4
<1> HIDE DEF a, b, c, d, e, f
<1> QED
    BY <1>5, <1>6, <1>7

LEMMA WelcomeType ==
    ASSUME TablesOK, NEW pid \in Pid, NEW l \in LobbyId, NEW lobby \in Lobby,
           NEW keys \in Orders(DOMAIN lobby.metadata),
           NEW order \in Orders(lobby.players \cap DOMAIN players)
    PROVE  Welcome(pid, l, lobby, keys, order) \in Seq(Message)
<1>1. Welcome(pid, l, lobby, keys, order) \in Seq(Naming(DOMAIN players))
    BY WelcomeNames
<1>2. Naming(DOMAIN players) \subseteq Message
    BY DEF Naming
<1> QED
    BY <1>1, <1>2

\* insert_player, for a new lobby or an old one: its record lists exactly the
\* players that are in it, and its clock, when stopped, was stopped for a reason.
LEMMA InsertStep ==
    ASSUME IInv, NEW pid \in FreshPid, NEW l \in LobbyId, NEW lobby \in Lobby,
           NEW metadata \in Metadata, insert_player(pid, l, lobby, metadata),
           lobby.master \in lobby.players \cup {pid},
           \A p \in lobby.players : p \in DOMAIN players /\ players[p].lid = l,
           \A p \in DOMAIN players : players[p].lid = l => p \in lobby.players,
           lobby.idle_since = None => Cardinality(lobby.players) >= CHUD_THRESHOLD
    PROVE  /\ DOMAIN lobbies' = DOMAIN lobbies \cup {l}
           /\ DOMAIN lobbies' \subseteq LobbyId
           /\ \A k \in DOMAIN lobbies' : lobbies'[k] \in Lobby
           /\ DOMAIN players' \subseteq Pid
           /\ \A p \in DOMAIN players' : players'[p] \in Player
           /\ BoxOK(outbox') /\ Membership' /\ MasterIsMember' /\ IdleClock'
<1> DEFINE members == lobby.players \cup {pid}
           others  == lobby.players \cap DOMAIN players
           idle == IF Cardinality(members) >= CHUD_THRESHOLD
                   THEN None ELSE lobby.idle_since
           new == [lobby EXCEPT !.players = members, !.idle_since = idle]
           player == [lid |-> l, metadata |-> metadata]
<1>1. pid \in Pid /\ pid \notin DOMAIN players /\ pid \notin lobby.players
    BY DEF FreshPid
<1>2. lobbies' = Put(lobbies, l, new) /\ players' = Put(players, pid, player)
    BY DEF insert_player
<1>3. /\ new \in Lobby /\ new.players = members /\ new.master = lobby.master
      /\ new.idle_since = idle
    BY <1>1 DEF Lobby
<1>4. player \in Player /\ player.lid = l
    BY DEF Player
<1>5. idle = None <=> Cardinality(members) >= CHUD_THRESHOLD
  <2>1. IsFiniteSet(lobby.players)
      BY FiniteAssumption, FS_Subset DEF Lobby
  <2>2. Cardinality(members) = Cardinality(lobby.players) + 1
    <3> HIDE DEF new, idle, player, others
    <3>1. \A S, x : IsFiniteSet(S) /\ x \notin S => Cardinality(S \cup {x}) = Cardinality(S) + 1
        BY FS_AddElement
    <3> QED
        BY <1>1, <2>1, <3>1
  <2>3. Cardinality(lobby.players) \in Nat /\ CHUD_THRESHOLD \in Nat
      BY <2>1, FS_CardinalityType, CapsAssumption
  <2> QED
      BY <2>2, <2>3
<1>6. BoxOK(outbox')
  <2>1. PICK keys \in Orders(DOMAIN lobby.metadata), order \in Orders(others) :
              try_send(Put(outbox, pid, << >>),
                       [p \in Pid |-> IF p = pid THEN Welcome(pid, l, lobby, keys, order)
                                      ELSE IF p \in others
                                      THEN Emit(Joined(pid, metadata))
                                      ELSE << >>])
      BY DEF insert_player
  <2> DEFINE sent == [p \in Pid |-> IF p = pid THEN Welcome(pid, l, lobby, keys, order)
                                      ELSE IF p \in others
                                      THEN Emit(Joined(pid, metadata))
                                      ELSE << >>]
  <2>2. BoxOK(Put(outbox, pid, << >>))
      BY <1>1, EmptySeq, CapsAssumption DEF IInv, BoxOK, Put
  <2>3. Welcome(pid, l, lobby, keys, order) \in Seq(Message)
      BY <1>1, WelcomeType DEF IInv
  <2>4. Emit(Joined(pid, metadata)) \in Seq(Message) /\ << >> \in Seq(Message)
      BY <1>1, MessageTypes, EmitType, EmptySeq
  <2>5. Sendable(sent)
      BY <2>3, <2>4 DEF Sendable
  <2> HIDE DEF sent
  <2> QED
      BY <2>1, <2>2, <2>5, TrySendType DEF sent
<1> HIDE DEF new, player, idle, members
<1>7. /\ DOMAIN lobbies' = DOMAIN lobbies \cup {l}
      /\ lobbies'[l] = new
      /\ \A k \in DOMAIN lobbies \ {l} : lobbies'[k] = lobbies[k]
    BY <1>2 DEF Put
<1>8. /\ DOMAIN players' = DOMAIN players \cup {pid}
      /\ players'[pid] = player
      /\ \A p \in DOMAIN players : players'[p] = players[p]
    BY <1>1, <1>2 DEF Put
<1>9. /\ DOMAIN lobbies' \subseteq LobbyId
      /\ \A k \in DOMAIN lobbies' : lobbies'[k] \in Lobby
      /\ DOMAIN players' \subseteq Pid
      /\ \A p \in DOMAIN players' : players'[p] \in Player
    BY <1>1, <1>3, <1>4, <1>7, <1>8 DEF IInv, TablesOK
<1>10. Membership'
  <2>1. \A p \in DOMAIN players' : /\ players'[p].lid \in DOMAIN lobbies'
                                   /\ p \in lobbies'[players'[p].lid].players
    <3> SUFFICES ASSUME NEW p \in DOMAIN players'
                 PROVE  /\ players'[p].lid \in DOMAIN lobbies'
                        /\ p \in lobbies'[players'[p].lid].players
        OBVIOUS
    <3>1. CASE p = pid
        BY <3>1, <1>3, <1>4, <1>7, <1>8 DEF members
    <3>2. CASE p # pid
      <4>1. /\ p \in DOMAIN players /\ players'[p] = players[p]
            /\ players[p].lid \in DOMAIN lobbies /\ p \in lobbies[players[p].lid].players
          BY <3>2, <1>8 DEF IInv, Membership, InLobby, LobbyOf
      <4>2. CASE players[p].lid = l
          BY <4>1, <4>2, <1>3, <1>7 DEF members
      <4>3. CASE players[p].lid # l
          BY <4>1, <4>3, <1>7
      <4> QED
          BY <4>2, <4>3
    <3> QED
        BY <3>1, <3>2
  <2>2. \A k \in DOMAIN lobbies' : \A p \in lobbies'[k].players :
            p \in DOMAIN players' /\ players'[p].lid = k
    <3> SUFFICES ASSUME NEW k \in DOMAIN lobbies', NEW p \in lobbies'[k].players
                 PROVE  p \in DOMAIN players' /\ players'[p].lid = k
        OBVIOUS
    <3>1. CASE k = l
        BY <3>1, <1>3, <1>4, <1>7, <1>8 DEF members
    <3>2. CASE k # l
        BY <3>2, <1>7, <1>8 DEF IInv, Membership
    <3> QED
        BY <3>1, <3>2
  <2> QED
      BY <2>1, <2>2 DEF Membership, InLobby, LobbyOf
<1>11. MasterIsMember'
    BY <1>3, <1>7 DEF IInv, MasterIsMember, members
<1>12. IdleClock'
    BY <1>3, <1>5, <1>7 DEF IInv, IdleClock
<1> QED
    BY <1>6, <1>7, <1>9, <1>10, <1>11, <1>12

LEMMA HostStep ==
    ASSUME IInv, NEW ip \in Ip, NEW gid \in Gid, NEW m \in Metadata, NEW c \in Capacity,
           NEW listed \in BOOLEAN, NEW pm \in Metadata, NEW reply,
           HostLobby(ip, gid, m, c, listed, pm, reply)
    PROVE  IInv'
<1>1. CASE UNCHANGED vars
    BY <1>1, StutterStep
<1>2. CASE ~UNCHANGED vars
  <2> DEFINE old == IF gid \in DOMAIN gid_lobbies THEN gid_lobbies[gid] ELSE {}
             fresh(pid) == [players |-> {}, initiator |-> ip, master |-> pid,
                            metadata |-> m, capacity |-> c, listed |-> listed,
                            idle_since |-> 0]
  <2>1. PICK i \in FreshLid, pid \in FreshPid :
            /\ insert_player(pid, [gid |-> gid, lid |-> i], fresh(pid), pm)
            /\ gid_lobbies' = Put(gid_lobbies, gid, old \cup {i})
            /\ peers' = peers
      BY <1>2 DEF HostLobby
  <2> DEFINE l == [gid |-> gid, lid |-> i]
  <2>2. i \in Lid /\ l \in LobbyId /\ l \notin DOMAIN lobbies /\ pid \in Pid
      BY DEF FreshLid, FreshPid, LobbyId
  <2>3. /\ fresh(pid) \in Lobby /\ fresh(pid).master = pid /\ fresh(pid).players = {}
        /\ fresh(pid).idle_since # None
      BY <2>2, CapsAssumption, IdsAssumption DEF Lobby
  <2>4. \A p \in DOMAIN players : players[p].lid # l
      BY <2>2 DEF IInv, Membership, InLobby
  <2> DEFINE lobby == fresh(pid)
  <2>5. insert_player(pid, l, lobby, pm)
      BY <2>1
  <2>6. gid_lobbies' = Put(gid_lobbies, gid, old \cup {i}) /\ peers' = peers
      BY <2>1
  <2> HIDE DEF fresh, lobby, l
  <2>7. /\ DOMAIN lobbies' = DOMAIN lobbies \cup {l}
        /\ DOMAIN lobbies' \subseteq LobbyId
        /\ \A k \in DOMAIN lobbies' : lobbies'[k] \in Lobby
        /\ DOMAIN players' \subseteq Pid
        /\ \A p \in DOMAIN players' : players'[p] \in Player
        /\ BoxOK(outbox') /\ Membership' /\ MasterIsMember' /\ IdleClock'
    <3>1. lobby \in Lobby /\ lobby.master = pid /\ lobby.players = {} /\ lobby.idle_since # None
        BY <2>3 DEF lobby
    <3> QED
        BY <2>2, <2>4, <2>5, <3>1, InsertStep
  <2>8. /\ DOMAIN gid_lobbies' = DOMAIN gid_lobbies \cup {gid}
        /\ gid_lobbies'[gid] = old \cup {i}
        /\ \A g \in DOMAIN gid_lobbies \ {gid} : gid_lobbies'[g] = gid_lobbies[g]
      BY <2>6 DEF Put
  <2>9. TablesOK'
      BY <2>2, <2>6, <2>7, <2>8 DEF IInv, TablesOK
  <2>10. GameIndex'
    <3>1. \A g \in Gid, j \in Lid :
             [gid |-> g, lid |-> j] \in DOMAIN lobbies'
                <=> g \in DOMAIN gid_lobbies' /\ j \in gid_lobbies'[g]
      <4> SUFFICES ASSUME NEW g \in Gid, NEW j \in Lid
                   PROVE  [gid |-> g, lid |-> j] \in DOMAIN lobbies'
                            <=> g \in DOMAIN gid_lobbies' /\ j \in gid_lobbies'[g]
          OBVIOUS
      <4>1. [gid |-> g, lid |-> j] = l <=> g = gid /\ j = i
          BY DEF l
      <4>2. [gid |-> g, lid |-> j] \in DOMAIN lobbies
                <=> g \in DOMAIN gid_lobbies /\ j \in gid_lobbies[g]
          BY DEF IInv, GameIndex
      <4> QED
          BY <2>7, <2>8, <4>1, <4>2
    <3>2. \A g \in DOMAIN gid_lobbies' : gid_lobbies'[g] # {}
        BY <2>8 DEF IInv, GameIndex
    <3> QED
        BY <3>1, <3>2 DEF GameIndex
  <2> QED
      BY <2>7, <2>9, <2>10 DEF IInv
<1> QED
    BY <1>1, <1>2

LEMMA JoinStep ==
    ASSUME IInv, NEW ip \in Ip, NEW l \in LobbyId, NEW pm \in Metadata, NEW reply,
           JoinLobby(ip, l, pm, reply)
    PROVE  IInv'
<1>1. CASE UNCHANGED vars
    BY <1>1, StutterStep
<1>2. CASE ~UNCHANGED vars
  <2>1. /\ l \in DOMAIN lobbies /\ gid_lobbies' = gid_lobbies /\ peers' = peers
        /\ \E pid \in FreshPid : insert_player(pid, l, lobbies[l], pm)
      BY <1>2 DEF JoinLobby
  <2>2. PICK pid \in FreshPid : insert_player(pid, l, lobbies[l], pm)
      BY <2>1
  <2>3. /\ lobbies[l] \in Lobby /\ lobbies[l].master \in lobbies[l].players
        /\ \A p \in lobbies[l].players : p \in DOMAIN players /\ players[p].lid = l
        /\ \A p \in DOMAIN players : players[p].lid = l => p \in lobbies[l].players
        /\ lobbies[l].idle_since = None
              => Cardinality(lobbies[l].players) >= CHUD_THRESHOLD
      BY <2>1 DEF IInv, TablesOK, MasterIsMember, Membership, InLobby, LobbyOf, IdleClock
  <2>4. /\ DOMAIN lobbies' = DOMAIN lobbies \cup {l}
        /\ DOMAIN lobbies' \subseteq LobbyId
        /\ \A k \in DOMAIN lobbies' : lobbies'[k] \in Lobby
        /\ DOMAIN players' \subseteq Pid
        /\ \A p \in DOMAIN players' : players'[p] \in Player
        /\ BoxOK(outbox') /\ Membership' /\ MasterIsMember' /\ IdleClock'
      BY <2>2, <2>3, InsertStep
  <2>5. TablesOK'
      BY <2>1, <2>4 DEF IInv, TablesOK
  <2>6. GameIndex'
      BY <2>1, <2>4 DEF IInv, GameIndex
  <2> QED
      BY <2>4, <2>5, <2>6 DEF IInv
<1> QED
    BY <1>1, <1>2

\* Without the player and with one of the heirs as master the lobby stays in
\* order; without an heir the player was alone, and the lobby goes with it.
LEMMA RemoveStep ==
    ASSUME IInv, NEW pid \in Pid, NEW reason \in Reason, RemovePlayer(pid, reason)
    PROVE  IInv'
<1>1. CASE UNCHANGED vars
    BY <1>1, StutterStep
<1>2. CASE ~UNCHANGED vars
  <2> DEFINE l     == players[pid].lid
             lobby == lobbies[l]
             left  == Remaining(lobby, pid)
             rest  == [lobby EXCEPT !.players = left, !.idle_since = IdleAfter(lobby, left)]
             bye   == send(pid, Disconnected(reason))
             gone  == [type |-> "Left", pid |-> pid, reason |-> reason]
  <2>1. pid \in DOMAIN players /\ players' = Without(players, pid) /\ peers' = peers
      BY <1>2 DEF RemovePlayer
  <2>2. /\ l \in DOMAIN lobbies /\ lobby \in Lobby /\ pid \in lobby.players /\ l \in LobbyId
        /\ lobby.master \in lobby.players
      BY <2>1 DEF IInv, TablesOK, Membership, InLobby, LobbyOf, MasterIsMember
  <2>3. \/ /\ \E new \in Heirs(lobby, pid) :
                 /\ lobbies' = [lobbies EXCEPT ![l] = [rest EXCEPT !.master = new]]
                 /\ try_send(outbox, Then(bye, Then(send_to_lobby(rest, gone),
                       send_to_lobby(rest, [type |-> "SetMaster", pid |-> new]))))
           /\ gid_lobbies' = gid_lobbies
        \/ /\ Heirs(lobby, pid) = {}
           /\ lobbies' = Without(lobbies, l)
           /\ gid_lobbies' = Unindexed(l)
           /\ try_send(outbox, bye)
      BY <1>2, <2>2 DEF RemovePlayer
  <2>4. left = lobby.players \ {pid} /\ left \subseteq Pid
      BY <2>2 DEF Remaining, Lobby
  <2>5. /\ DOMAIN players' = DOMAIN players \ {pid}
        /\ \A p \in DOMAIN players \ {pid} : players'[p] = players[p]
      BY <2>1 DEF Without
  <2>6. Sendable(bye)
      BY MessageTypes, SendType
  <2>7. /\ DOMAIN players' \subseteq Pid /\ \A p \in DOMAIN players' : players'[p] \in Player
        /\ DOMAIN peers' \subseteq Ip /\ \A ip \in DOMAIN peers' : peers'[ip] \in Peer
      BY <2>1, <2>5 DEF IInv, TablesOK
  <2>8. CASE /\ \E new \in Heirs(lobby, pid) :
                 /\ lobbies' = [lobbies EXCEPT ![l] = [rest EXCEPT !.master = new]]
                 /\ try_send(outbox, Then(bye, Then(send_to_lobby(rest, gone),
                       send_to_lobby(rest, [type |-> "SetMaster", pid |-> new]))))
             /\ gid_lobbies' = gid_lobbies
    <3>1. PICK new \in Heirs(lobby, pid) :
                 /\ lobbies' = [lobbies EXCEPT ![l] = [rest EXCEPT !.master = new]]
                 /\ try_send(outbox, Then(bye, Then(send_to_lobby(rest, gone),
                       send_to_lobby(rest, [type |-> "SetMaster", pid |-> new]))))
        BY <2>8
    <3>2. new \in left /\ new \in Pid
        BY <2>2, <2>4 DEF Heirs
    <3>3. BoxOK(outbox')
      <4>1. gone \in Message /\ [type |-> "SetMaster", pid |-> new] \in Message
          BY <3>2, MessageTypes
      <4>2. /\ Sendable(send_to_lobby(rest, gone))
            /\ Sendable(send_to_lobby(rest, [type |-> "SetMaster", pid |-> new]))
          BY <4>1, SendType
      <4> HIDE DEF rest, bye, gone
      <4> QED
          BY <2>6, <3>1, <4>2, ThenType, TrySendType DEF IInv
    <3> DEFINE idle == IdleAfter(lobby, left)
               after == [rest EXCEPT !.master = new]
    <3>4. /\ idle \in (0 .. CHUD_LOBBY_TIMEOUT) \cup {None}
          /\ idle = None <=> Cardinality(left) >= CHUD_THRESHOLD
      <4>1. lobby.idle_since \in (0 .. CHUD_LOBBY_TIMEOUT) \cup {None}
          BY <2>2 DEF Lobby
      <4>2. IsFiniteSet(lobby.players)
          BY <2>2, FiniteAssumption, FS_Subset DEF Lobby
      <4>3. Cardinality(left) = Cardinality(lobby.players) - 1
        <5>1. pid \in lobby.players /\ left = lobby.players \ {pid}
            BY <2>2, <2>4
        <5> HIDE DEF left, lobby
        <5> QED
            BY <4>2, <5>1, FS_RemoveElement
      <4>4. Cardinality(lobby.players) \in Nat /\ CHUD_THRESHOLD \in Nat
          BY <4>2, FS_CardinalityType, CapsAssumption
      <4>5. lobby.idle_since = None <=> Cardinality(lobby.players) >= CHUD_THRESHOLD
          BY <2>2 DEF IInv, IdleClock
      <4>6. 0 \in 0 .. CHUD_LOBBY_TIMEOUT /\ None # 0
          BY CapsAssumption, IdsAssumption
      <4> HIDE DEF left, lobby
      <4> QED
          BY <4>1, <4>3, <4>4, <4>5, <4>6 DEF IdleAfter
    <3>5. /\ after \in Lobby /\ after.players = left /\ after.master = new
          /\ after.idle_since = idle
      <4> HIDE DEF left, idle, lobby
      <4>1. rest = [lobby EXCEPT !.players = left, !.idle_since = idle]
          BY DEF idle
      <4> QED
          BY <2>2, <2>4, <3>2, <3>4, <4>1 DEF Lobby
    <3> HIDE DEF after, idle
    <3>6. /\ DOMAIN lobbies' = DOMAIN lobbies /\ lobbies'[l] = after
          /\ \A k \in DOMAIN lobbies \ {l} : lobbies'[k] = lobbies[k]
        BY <2>2, <3>1 DEF after
    <3>7. TablesOK'
        BY <2>7, <2>8, <3>5, <3>6 DEF IInv, TablesOK
    <3>8. Membership'
      <4>1. \A p \in DOMAIN players' : /\ players'[p].lid \in DOMAIN lobbies'
                                       /\ p \in lobbies'[players'[p].lid].players
          BY <2>4, <2>5, <3>5, <3>6 DEF IInv, Membership, InLobby, LobbyOf
      <4>2. \A k \in DOMAIN lobbies' : \A p \in lobbies'[k].players :
                p \in DOMAIN players' /\ players'[p].lid = k
        <5> SUFFICES ASSUME NEW k \in DOMAIN lobbies', NEW p \in lobbies'[k].players
                     PROVE  p \in DOMAIN players' /\ players'[p].lid = k
            OBVIOUS
        <5>1. p \in lobbies[k].players /\ p # pid /\ k \in DOMAIN lobbies
          <6>1. CASE k = l
              BY <6>1, <2>2, <2>4, <3>5, <3>6
          <6>2. CASE k # l
              BY <6>2, <3>6 DEF IInv, Membership
          <6> QED
              BY <6>1, <6>2
        <5> QED
            BY <5>1, <2>5 DEF IInv, Membership
      <4> QED
          BY <4>1, <4>2 DEF Membership, InLobby, LobbyOf
    <3>9. GameIndex'
        BY <2>8, <3>6 DEF IInv, GameIndex
    <3>10. MasterIsMember' /\ IdleClock'
        BY <3>2, <3>4, <3>5, <3>6 DEF IInv, MasterIsMember, IdleClock
    <3> QED
        BY <3>3, <3>7, <3>8, <3>9, <3>10 DEF IInv
  <2>9. CASE /\ Heirs(lobby, pid) = {}
             /\ lobbies' = Without(lobbies, l)
             /\ gid_lobbies' = Unindexed(l)
             /\ try_send(outbox, bye)
    <3>1. lobby.players = {pid}
        BY <2>2, <2>4, <2>9 DEF Heirs
    <3>2. BoxOK(outbox')
        BY <2>6, <2>9, TrySendType DEF IInv
    <3>3. /\ DOMAIN lobbies' = DOMAIN lobbies \ {l}
          /\ \A k \in DOMAIN lobbies \ {l} : lobbies'[k] = lobbies[k]
        BY <2>9 DEF Without
    <3>4. l.gid \in Gid /\ l.lid \in Lid /\ l = [gid |-> l.gid, lid |-> l.lid]
        BY <2>2 DEF LobbyId
    <3>5. l.gid \in DOMAIN gid_lobbies /\ l.lid \in gid_lobbies[l.gid]
        BY <2>2, <3>4 DEF IInv, GameIndex
    <3> DEFINE set == gid_lobbies[l.gid] \ {l.lid}
    <3>6. gid_lobbies' = IF set = {} THEN Without(gid_lobbies, l.gid)
                                     ELSE Put(gid_lobbies, l.gid, set)
        BY <2>9, <3>5 DEF Unindexed
    <3>7. /\ DOMAIN gid_lobbies' \subseteq DOMAIN gid_lobbies
          /\ l.gid \in DOMAIN gid_lobbies' <=> set # {}
          /\ set # {} => gid_lobbies'[l.gid] = set
          /\ \A g \in DOMAIN gid_lobbies \ {l.gid} :
                g \in DOMAIN gid_lobbies' /\ gid_lobbies'[g] = gid_lobbies[g]
        BY <3>5, <3>6 DEF Without, Put
    <3> HIDE DEF l, lobby
    <3>8. TablesOK'
        BY <2>7, <3>3, <3>7 DEF IInv, TablesOK
    <3>9. Membership'
      <4>1. \A p \in DOMAIN players' : /\ players'[p].lid \in DOMAIN lobbies'
                                       /\ p \in lobbies'[players'[p].lid].players
        <5> SUFFICES ASSUME NEW p \in DOMAIN players'
                     PROVE  /\ players'[p].lid \in DOMAIN lobbies'
                            /\ p \in lobbies'[players'[p].lid].players
            OBVIOUS
        <5>1. /\ p \in DOMAIN players /\ p # pid /\ players'[p] = players[p]
              /\ players[p].lid \in DOMAIN lobbies /\ p \in lobbies[players[p].lid].players
            BY <2>5 DEF IInv, Membership, InLobby, LobbyOf
        <5>2. players[p].lid # l
            BY <5>1, <3>1 DEF lobby
        <5> QED
            BY <5>1, <5>2, <3>3
      <4>2. \A k \in DOMAIN lobbies' : \A p \in lobbies'[k].players :
                p \in DOMAIN players' /\ players'[p].lid = k
        <5> SUFFICES ASSUME NEW k \in DOMAIN lobbies', NEW p \in lobbies'[k].players
                     PROVE  p \in DOMAIN players' /\ players'[p].lid = k
            OBVIOUS
        <5>1. k # l /\ p \in DOMAIN players /\ players[p].lid = k
            BY <3>3 DEF IInv, Membership
        <5>2. p # pid
            BY <5>1 DEF l
        <5> QED
            BY <5>1, <5>2, <2>5
      <4> QED
          BY <4>1, <4>2 DEF Membership, InLobby, LobbyOf
    <3>10. GameIndex'
      <4>1. \A g \in Gid, j \in Lid :
               [gid |-> g, lid |-> j] \in DOMAIN lobbies'
                  <=> g \in DOMAIN gid_lobbies' /\ j \in gid_lobbies'[g]
        <5> SUFFICES ASSUME NEW g \in Gid, NEW j \in Lid
                     PROVE  [gid |-> g, lid |-> j] \in DOMAIN lobbies'
                              <=> g \in DOMAIN gid_lobbies' /\ j \in gid_lobbies'[g]
            OBVIOUS
        <5>1. [gid |-> g, lid |-> j] \in DOMAIN lobbies
                  <=> g \in DOMAIN gid_lobbies /\ j \in gid_lobbies[g]
            BY DEF IInv, GameIndex
        <5>2. [gid |-> g, lid |-> j] = l <=> g = l.gid /\ j = l.lid
            BY <3>4
        <5>3. CASE g = l.gid
            BY <5>1, <5>2, <5>3, <3>3, <3>5, <3>7
        <5>4. CASE g # l.gid
            BY <5>1, <5>2, <5>4, <3>3, <3>7
        <5> QED
            BY <5>3, <5>4
      <4>2. \A g \in DOMAIN gid_lobbies' : gid_lobbies'[g] # {}
          BY <3>7 DEF IInv, GameIndex
      <4> QED
          BY <4>1, <4>2 DEF GameIndex
    <3>11. MasterIsMember' /\ IdleClock'
        BY <3>3 DEF IInv, MasterIsMember, IdleClock
    <3> QED
        BY <3>2, <3>8, <3>9, <3>10, <3>11 DEF IInv
  <2> QED
      BY <2>3, <2>8, <2>9
<1> QED
    BY <1>1, <1>2

\* Every step of the event loop keeps the invariant.
LEMMA NextStep ==
    ASSUME IInv, [Next]_vars
    PROVE  IInv'
<1>1. CASE UNCHANGED vars
    BY <1>1, StutterStep
<1>2. CASE \E ip \in Ip, gid \in Gid, m, pm \in Metadata, c \in Capacity,
              listed \in BOOLEAN, reply \in Replies :
                 HostLobby(ip, gid, m, c, listed, pm, reply)
    BY <1>2, HostStep
<1>3. CASE \E ip \in Ip, l \in LobbyId, pm \in Metadata, reply \in Replies :
                 JoinLobby(ip, l, pm, reply)
    BY <1>3, JoinStep
<1>4. CASE \E p \in Pid, reason \in Reason : RemovePlayer(p, reason)
    BY <1>4, RemoveStep
<1>5. CASE \E p \in Pid, c \in Capacity : SetCapacity(p, c)
    BY <1>5, SetCapacityStep
<1>6. CASE \E p \in Pid, listed \in BOOLEAN : SetListed(p, listed)
    BY <1>6, SetListedStep
<1>7. CASE \E p, q \in Pid : SetMaster(p, q) \/ KickPlayer(p, q)
    BY <1>7, SetMasterStep, KickRelayStep
<1>8. CASE \E p \in Pid, k \in Key, v \in Value :
              SetPlayerMeta(p, k, v) \/ SetLobbyMeta(p, k, v)
    BY <1>8, SetPlayerMetaStep, SetLobbyMetaStep
<1>9. CASE \E p \in Pid, k \in Key : ErasePlayerMeta(p, k) \/ EraseLobbyMeta(p, k)
    BY <1>9, ErasePlayerMetaStep, EraseLobbyMetaStep
<1>10. CASE \E p, q \in Pid, type \in {"Offer", "Answer", "Candidate"} : Relay(p, q, type)
    BY <1>10, KickRelayStep
<1>11. CASE \E ip \in Ip, reply \in BOOLEAN : IntroduceSession(ip, reply)
    BY <1>11, IntroduceStep
<1>12. CASE \E ip \in Ip : CloseSession(ip)
    BY <1>12, CloseStep
<1>13. CASE \E p \in Pid : Receive(p) \/ Hangup(p)
    BY <1>13, ReceiveHangupStep
<1>14. CASE Prune \/ Tick \/ EventLoopReset
    BY <1>14, PruneStep, TickStep, ResetStep
<1> QED
    BY <1>1, <1>2, <1>3, <1>4, <1>5, <1>6, <1>7, <1>8, <1>9, <1>10, <1>11, <1>12,
       <1>13, <1>14 DEF Next

-----------------------------------------------------------------------------
(* What a step does to the tables, for the proofs that build on these *)

\* Nobody comes or goes, and lobbies keep their masters, capacities and hosts.
Same ==
    /\ DOMAIN players' = DOMAIN players
    /\ \A p \in DOMAIN players : players'[p].lid = players[p].lid
    /\ DOMAIN lobbies' = DOMAIN lobbies
    /\ \A l \in DOMAIN lobbies : /\ lobbies'[l].master = lobbies[l].master
                                /\ lobbies'[l].capacity = lobbies[l].capacity
                                /\ lobbies'[l].initiator = lobbies[l].initiator

LEMMA SameTables ==
    ASSUME UNCHANGED <<lobbies, players>>
    PROVE  Same
BY DEF Same

\* A master's changes that are not about capacity or mastery.
LEMMA SameUpdate ==
    ASSUME IInv, NEW pid, InLobby(pid), NEW lobby, NEW msg, UpdateLobby(pid, lobby, msg),
           lobby.master = LobbyOf(pid).master, lobby.capacity = LobbyOf(pid).capacity,
           lobby.initiator = LobbyOf(pid).initiator
    PROVE  Same
BY DEF Same, UpdateLobby, InLobby, LobbyOf

LEMMA SamePlayer ==
    ASSUME IInv, NEW pid \in DOMAIN players, NEW metadata, NEW msg,
           UpdatePlayer(pid, metadata, msg)
    PROVE  Same
BY DEF Same, UpdatePlayer, IInv, TablesOK, Player

\* Who hosts: a new lobby l with the new player pid in it.
Hosted(pid, l, c) ==
    /\ pid \in Pid \ DOMAIN players /\ l \in LobbyId \ DOMAIN lobbies /\ c \in Capacity
    /\ DOMAIN players' = DOMAIN players \cup {pid} /\ players'[pid].lid = l
    /\ \A p \in DOMAIN players : players'[p] = players[p]
    /\ DOMAIN lobbies' = DOMAIN lobbies \cup {l}
    /\ \A k \in DOMAIN lobbies : lobbies'[k] = lobbies[k]
    /\ lobbies'[l].master = pid /\ lobbies'[l].capacity = c
    /\ MayHost(lobbies'[l].initiator, l.gid, lobbies'[l].listed)
    /\ lobbies'[l].initiator \in Ip
    /\ DOMAIN outbox' = DOMAIN outbox \cup {pid}
    /\ UNCHANGED peers

\* Who joins: the lobby exists, has room and keeps its master.
Entered(pid, l) ==
    /\ pid \in Pid \ DOMAIN players /\ l \in DOMAIN lobbies /\ ~is_full(lobbies[l])
    /\ DOMAIN players' = DOMAIN players \cup {pid} /\ players'[pid].lid = l
    /\ \A p \in DOMAIN players : players'[p] = players[p]
    /\ DOMAIN lobbies' = DOMAIN lobbies
    /\ \A k \in DOMAIN lobbies : /\ lobbies'[k].master = lobbies[k].master
                                /\ lobbies'[k].capacity = lobbies[k].capacity
                                /\ lobbies'[k].initiator = lobbies[k].initiator
    /\ DOMAIN outbox' = DOMAIN outbox \cup {pid}
    /\ UNCHANGED peers

\* Who leaves: the lobby closes behind the last member; otherwise it keeps its
\* master, or another member succeeds.
Gone(pid, l) ==
    /\ pid \in DOMAIN players /\ players[pid].lid = l /\ l \in DOMAIN lobbies
    /\ DOMAIN players' = DOMAIN players \ {pid}
    /\ \A p \in DOMAIN players \ {pid} : players'[p] = players[p]
    /\ DOMAIN outbox' = DOMAIN outbox
    /\ UNCHANGED peers
    /\ \/ /\ lobbies[l].players = {pid}
          /\ DOMAIN lobbies' = DOMAIN lobbies \ {l}
          /\ \A k \in DOMAIN lobbies \ {l} : lobbies'[k] = lobbies[k]
       \/ /\ DOMAIN lobbies' = DOMAIN lobbies
          /\ \A k \in DOMAIN lobbies \ {l} : lobbies'[k] = lobbies[k]
          /\ lobbies'[l].capacity = lobbies[l].capacity
          /\ lobbies'[l].initiator = lobbies[l].initiator
          /\ \E q \in lobbies[l].players \ {pid} :
                lobbies'[l].master = IF lobbies[l].master = pid THEN q ELSE lobbies[l].master

\* Sending opens and closes no channel; a new player's channel is opened.
LEMMA TrySendDomain ==
    ASSUME NEW box, NEW sent, try_send(box, sent)
    PROVE  DOMAIN outbox' = DOMAIN box
BY DEF try_send

LEMMA InsertDomain ==
    ASSUME NEW pid, NEW l, NEW lobby, NEW metadata, insert_player(pid, l, lobby, metadata)
    PROVE  DOMAIN outbox' = DOMAIN outbox \cup {pid}
<1>1. \E sent : try_send(Put(outbox, pid, << >>), sent)
    BY DEF insert_player
<1>2. DOMAIN outbox' = DOMAIN Put(outbox, pid, << >>)
    BY <1>1, TrySendDomain
<1> QED
    BY <1>2 DEF Put

LEMMA HostEffect ==
    ASSUME IInv, NEW ip \in Ip, NEW gid \in Gid, NEW m \in Metadata, NEW pm \in Metadata,
           NEW c \in Capacity, NEW listed \in BOOLEAN, NEW reply,
           HostLobby(ip, gid, m, c, listed, pm, reply)
    PROVE  \/ UNCHANGED vars /\ reply = Err("rate_limited")
           \/ \E pid \in FreshPid, l \in LobbyId : Hosted(pid, l, c) /\ reply = Ok(pid)
<1>1. CASE reply = Err("rate_limited") /\ UNCHANGED vars
    BY <1>1
<1>2. CASE ~(reply = Err("rate_limited") /\ UNCHANGED vars)
  <2>1. /\ MayHost(ip, gid, listed) /\ UNCHANGED peers
        /\ \E i \in FreshLid, pid \in FreshPid :
             /\ insert_player(pid, [gid |-> gid, lid |-> i],
                    [players |-> {}, initiator |-> ip, master |-> pid,
                     metadata |-> m, capacity |-> c,
                     listed |-> listed, idle_since |-> 0], pm)
             /\ reply = Ok(pid)
      BY <1>2 DEF HostLobby
  <2>2. PICK i \in FreshLid, pid \in FreshPid :
             /\ insert_player(pid, [gid |-> gid, lid |-> i],
                    [players |-> {}, initiator |-> ip, master |-> pid,
                     metadata |-> m, capacity |-> c,
                     listed |-> listed, idle_since |-> 0], pm)
             /\ reply = Ok(pid)
      BY <2>1
  <2> DEFINE l == [gid |-> gid, lid |-> i]
             lobby == [players |-> {}, initiator |-> ip, master |-> pid,
                       metadata |-> m, capacity |-> c,
                       listed |-> listed, idle_since |-> 0]
             idle == IF Cardinality(lobby.players \cup {pid}) >= CHUD_THRESHOLD
                     THEN None ELSE lobby.idle_since
             new == [lobby EXCEPT !.players = lobby.players \cup {pid}, !.idle_since = idle]
  <2>3. /\ lobbies' = Put(lobbies, l, new)
        /\ players' = Put(players, pid, [lid |-> l, metadata |-> pm])
      BY <2>2 DEF insert_player
  <2>4. /\ new.master = pid /\ new.capacity = c /\ new.initiator = ip /\ new.listed = listed
      OBVIOUS
  <2>5. /\ l \in LobbyId \ DOMAIN lobbies /\ l.gid = gid /\ pid \in Pid \ DOMAIN players
      BY DEF FreshLid, FreshPid, LobbyId
  <2> HIDE DEF l, new
  <2>6. /\ DOMAIN lobbies' = DOMAIN lobbies \cup {l} /\ lobbies'[l] = new
        /\ \A k \in DOMAIN lobbies : lobbies'[k] = lobbies[k]
        /\ DOMAIN players' = DOMAIN players \cup {pid} /\ players'[pid].lid = l
        /\ \A p \in DOMAIN players : players'[p] = players[p]
      BY <2>3, <2>5 DEF Put
  <2>7. DOMAIN outbox' = DOMAIN outbox \cup {pid}
      BY <2>2, InsertDomain
  <2>8. Hosted(pid, l, c)
      BY <2>1, <2>4, <2>5, <2>6, <2>7 DEF Hosted
  <2> QED
      BY <2>2, <2>5, <2>8
<1> QED
    BY <1>1, <1>2

LEMMA JoinEffect ==
    ASSUME IInv, NEW ip \in Ip, NEW l \in LobbyId, NEW pm \in Metadata, NEW reply,
           JoinLobby(ip, l, pm, reply)
    PROVE  \/ /\ UNCHANGED vars
              /\ reply \in {Err("rate_limited"), Err("lobby_not_found"), Err("lobby_full")}
           \/ \E pid \in FreshPid : Entered(pid, l) /\ reply = Ok(pid)
<1>1. CASE /\ UNCHANGED vars
           /\ reply \in {Err("rate_limited"), Err("lobby_not_found"), Err("lobby_full")}
    BY <1>1
<1>2. CASE ~(/\ UNCHANGED vars
             /\ reply \in {Err("rate_limited"), Err("lobby_not_found"), Err("lobby_full")})
  <2>1. /\ l \in DOMAIN lobbies /\ ~is_full(lobbies[l]) /\ UNCHANGED peers
        /\ \E pid \in FreshPid : insert_player(pid, l, lobbies[l], pm) /\ reply = Ok(pid)
      BY <1>2 DEF JoinLobby
  <2>2. PICK pid \in FreshPid : insert_player(pid, l, lobbies[l], pm) /\ reply = Ok(pid)
      BY <2>1
  <2> DEFINE lobby == lobbies[l]
             idle == IF Cardinality(lobby.players \cup {pid}) >= CHUD_THRESHOLD
                     THEN None ELSE lobby.idle_since
             new == [lobby EXCEPT !.players = lobby.players \cup {pid}, !.idle_since = idle]
  <2>3. /\ lobbies' = Put(lobbies, l, new)
        /\ players' = Put(players, pid, [lid |-> l, metadata |-> pm])
      BY <2>2 DEF insert_player
  <2>4. /\ new.master = lobby.master /\ new.capacity = lobby.capacity
        /\ new.initiator = lobby.initiator
      BY <2>1 DEF IInv, TablesOK, Lobby
  <2>5. pid \in Pid \ DOMAIN players
      BY DEF FreshPid
  <2> HIDE DEF new
  <2>6. /\ DOMAIN lobbies' = DOMAIN lobbies /\ lobbies'[l] = new
        /\ \A k \in DOMAIN lobbies \ {l} : lobbies'[k] = lobbies[k]
        /\ DOMAIN players' = DOMAIN players \cup {pid} /\ players'[pid].lid = l
        /\ \A p \in DOMAIN players : players'[p] = players[p]
      BY <2>1, <2>3, <2>5 DEF Put
  <2>7. DOMAIN outbox' = DOMAIN outbox \cup {pid}
      BY <2>2, InsertDomain
  <2>8. Entered(pid, l)
      BY <2>1, <2>4, <2>5, <2>6, <2>7 DEF Entered
  <2> QED
      BY <2>2, <2>8
<1> QED
    BY <1>1, <1>2

LEMMA RemoveEffect ==
    ASSUME IInv, NEW pid \in Pid, NEW reason \in Reason, RemovePlayer(pid, reason)
    PROVE  \/ UNCHANGED vars /\ pid \notin DOMAIN players
           \/ \E l \in LobbyId : Gone(pid, l)
<1>1. CASE pid \notin DOMAIN players
    BY <1>1 DEF RemovePlayer
<1>2. CASE pid \in DOMAIN players
  <2> DEFINE l     == players[pid].lid
             lobby == lobbies[l]
             left  == Remaining(lobby, pid)
             rest  == [lobby EXCEPT !.players = left, !.idle_since = IdleAfter(lobby, left)]
  <2>0. DOMAIN outbox' = DOMAIN outbox
      BY <1>2, TrySendDomain DEF RemovePlayer
  <2>1. players' = Without(players, pid) /\ peers' = peers
      BY <1>2 DEF RemovePlayer
  <2>2. /\ l \in DOMAIN lobbies /\ lobby \in Lobby /\ pid \in lobby.players /\ l \in LobbyId
        /\ lobby.master \in lobby.players
      BY <1>2 DEF IInv, TablesOK, Membership, InLobby, LobbyOf, MasterIsMember
  <2>3. \/ \E new \in Heirs(lobby, pid) :
                 lobbies' = [lobbies EXCEPT ![l] = [rest EXCEPT !.master = new]]
        \/ Heirs(lobby, pid) = {} /\ lobbies' = Without(lobbies, l)
      BY <1>2, <2>2 DEF RemovePlayer
  <2>4. /\ DOMAIN players' = DOMAIN players \ {pid}
        /\ \A p \in DOMAIN players \ {pid} : players'[p] = players[p]
      BY <2>1 DEF Without
  <2>5. left = lobby.players \ {pid}
      BY DEF Remaining
  <2>6. CASE \E new \in Heirs(lobby, pid) :
                 lobbies' = [lobbies EXCEPT ![l] = [rest EXCEPT !.master = new]]
    <3>1. PICK new \in Heirs(lobby, pid) :
                 lobbies' = [lobbies EXCEPT ![l] = [rest EXCEPT !.master = new]]
        BY <2>6
    <3> DEFINE after == [rest EXCEPT !.master = new]
    <3>2. /\ after.master = new /\ after.capacity = lobby.capacity
          /\ after.initiator = lobby.initiator
        BY <2>2 DEF Lobby
    <3>3. \E q \in lobby.players \ {pid} : new = IF lobby.master = pid THEN q ELSE lobby.master
        BY <2>2, <2>5 DEF Heirs
    <3> HIDE DEF after, lobby, l
    <3>4. /\ DOMAIN lobbies' = DOMAIN lobbies /\ lobbies'[l] = after
          /\ \A k \in DOMAIN lobbies \ {l} : lobbies'[k] = lobbies[k]
        BY <2>2, <3>1 DEF after
    <3>5. Gone(pid, l)
        BY <1>2, <2>0, <2>1, <2>2, <2>4, <3>2, <3>3, <3>4 DEF Gone, l, lobby
    <3> QED
        BY <2>2, <3>5
  <2>7. CASE Heirs(lobby, pid) = {} /\ lobbies' = Without(lobbies, l)
    <3>1. lobby.players = {pid}
        BY <2>2, <2>5, <2>7 DEF Heirs
    <3>2. /\ DOMAIN lobbies' = DOMAIN lobbies \ {l}
          /\ \A k \in DOMAIN lobbies \ {l} : lobbies'[k] = lobbies[k]
        BY <2>7 DEF Without
    <3>3. Gone(pid, l)
        BY <1>2, <2>0, <2>1, <2>2, <2>4, <3>1, <3>2 DEF Gone
    <3> QED
        BY <2>2, <3>3
  <2> QED
      BY <2>3, <2>6, <2>7
<1> QED
    BY <1>1, <1>2

\* A master resizes its lobby, or hands it to another member.
Resized(l, c) ==
    /\ l \in DOMAIN lobbies /\ players' = players /\ DOMAIN lobbies' = DOMAIN lobbies
    /\ \A k \in DOMAIN lobbies : /\ lobbies'[k].master = lobbies[k].master
                                /\ lobbies'[k].initiator = lobbies[k].initiator
                                /\ lobbies'[k].capacity = IF k = l THEN c
                                                          ELSE lobbies[k].capacity
Appointed(l, q) ==
    /\ l \in DOMAIN lobbies /\ players' = players /\ DOMAIN lobbies' = DOMAIN lobbies
    /\ q \in DOMAIN players /\ players[q].lid = l
    /\ \A k \in DOMAIN lobbies : /\ lobbies'[k].capacity = lobbies[k].capacity
                                /\ lobbies'[k].initiator = lobbies[k].initiator
                                /\ lobbies'[k].master = IF k = l THEN q ELSE lobbies[k].master

LEMMA ResizeEffect ==
    ASSUME IInv, NEW p \in Pid, NEW c \in Capacity, SetCapacity(p, c)
    PROVE  Same \/ \E l \in LobbyId : Resized(l, c)
<1> DEFINE lobby == [LobbyOf(p) EXCEPT !.capacity = c]
           msg == [type |-> "SetCapacity", capacity |-> c]
           l == players[p].lid
<1>1. CASE IsMaster(p) /\ UpdateLobby(p, lobby, msg)
  <2>1. l \in DOMAIN lobbies /\ lobbies[l] \in Lobby /\ l \in LobbyId /\ LobbyOf(p) = lobbies[l]
      BY <1>1 DEF IsMaster, InLobby, LobbyOf, IInv, TablesOK
  <2>2. lobbies' = [lobbies EXCEPT ![l] = lobby] /\ players' = players
      BY <1>1 DEF UpdateLobby
  <2>3. /\ lobby.master = lobbies[l].master /\ lobby.initiator = lobbies[l].initiator
        /\ lobby.capacity = c
      BY <2>1 DEF Lobby
  <2> HIDE DEF l, lobby
  <2>4. Resized(l, c)
      BY <2>1, <2>2, <2>3 DEF Resized
  <2> QED
      BY <2>1, <2>4
<1> QED
    BY <1>1, SameTables DEF SetCapacity, boot, Notify, vars

LEMMA AppointEffect ==
    ASSUME IInv, NEW p \in Pid, NEW q \in Pid, SetMaster(p, q)
    PROVE  Same \/ \E l \in LobbyId : Appointed(l, q)
<1> DEFINE lobby == [LobbyOf(p) EXCEPT !.master = q]
           msg == [type |-> "SetMaster", pid |-> q]
           l == players[p].lid
<1>1. CASE MayAppoint(p, q) /\ UpdateLobby(p, lobby, msg)
  <2>1. /\ l \in DOMAIN lobbies /\ lobbies[l] \in Lobby /\ l \in LobbyId
        /\ LobbyOf(p) = lobbies[l] /\ q \in DOMAIN players /\ players[q].lid = l
      BY <1>1 DEF MayAppoint, IsMaster, InLobby, LobbyOf, IInv, TablesOK
  <2>2. lobbies' = [lobbies EXCEPT ![l] = lobby] /\ players' = players
      BY <1>1 DEF UpdateLobby
  <2>3. /\ lobby.capacity = lobbies[l].capacity /\ lobby.initiator = lobbies[l].initiator
        /\ lobby.master = q
      BY <2>1 DEF Lobby
  <2> HIDE DEF l, lobby
  <2>4. Appointed(l, q)
      BY <2>1, <2>2, <2>3 DEF Appointed
  <2> QED
      BY <2>1, <2>4
<1> QED
    BY <1>1, SameTables DEF SetMaster, boot, Notify, vars

\* Metadata, listing, kicks and relayed messages move nobody.
LEMMA QuietEffect ==
    ASSUME IInv, NEW p, NEW q, NEW b, NEW k, NEW v, NEW t,
           \/ SetListed(p, b) \/ KickPlayer(p, q) \/ Relay(p, q, t)
           \/ SetPlayerMeta(p, k, v) \/ ErasePlayerMeta(p, k)
           \/ SetLobbyMeta(p, k, v) \/ EraseLobbyMeta(p, k)
    PROVE  Same
<1>1. CASE UNCHANGED <<lobbies, players>>
    BY <1>1, SameTables
<1>2. CASE SetListed(p, b)
  <2>1. CASE IsMaster(p) /\ UpdateLobby(p, [LobbyOf(p) EXCEPT !.listed = b],
                                        [type |-> "SetListed", listed |-> b])
      BY <2>1, MasterFacts, SameUpdate DEF Lobby
  <2> QED
      BY <1>1, <1>2, <2>1 DEF SetListed, boot, Notify, vars
<1>3. CASE KickPlayer(p, q) \/ Relay(p, q, t)
    BY <1>1, <1>3 DEF KickPlayer, Relay, Notify, vars
<1>4. CASE SetPlayerMeta(p, k, v)
    BY <1>1, <1>4, SamePlayer DEF SetPlayerMeta, boot, Notify, vars
<1>5. CASE ErasePlayerMeta(p, k)
    BY <1>1, <1>5, SamePlayer DEF ErasePlayerMeta, vars
<1>6. CASE SetLobbyMeta(p, k, v)
  <2>1. CASE IsMaster(p) /\ UpdateLobby(p, [LobbyOf(p) EXCEPT !.metadata = Put(@, k, v)],
                                [type |-> "SetLobbyMeta", key |-> k, value |-> v])
      BY <2>1, MasterFacts, SameUpdate DEF Lobby
  <2> QED
      BY <1>1, <1>6, <2>1 DEF SetLobbyMeta, boot, Notify, vars
<1>7. CASE EraseLobbyMeta(p, k)
  <2>1. CASE IsMaster(p) /\ UpdateLobby(p, [LobbyOf(p) EXCEPT !.metadata = Without(@, k)],
                                [type |-> "EraseLobbyMeta", key |-> k])
      BY <2>1, MasterFacts, SameUpdate DEF Lobby
  <2> QED
      BY <1>1, <1>7, <2>1 DEF EraseLobbyMeta, vars
<1> QED
    BY <1>2, <1>3, <1>4, <1>5, <1>6, <1>7

\* Time and the sessions' own steps move nobody either.
LEMMA OutsideEffect ==
    ASSUME IInv, NEW p, NEW ip, NEW reply,
           \/ IntroduceSession(ip, reply) \/ CloseSession(ip)
           \/ Receive(p) \/ Hangup(p) \/ Prune \/ Tick
    PROVE  Same
<1>1. CASE UNCHANGED <<lobbies, players>>
    BY <1>1, SameTables
<1>2. CASE Tick
  <2>1. \A l \in DOMAIN lobbies : lobbies[l] \in Lobby
      BY DEF IInv, TablesOK
  <2> QED
      BY <1>2, <2>1 DEF Same, Tick, Lobby
<1> QED
    BY <1>1, <1>2 DEF IntroduceSession, CloseSession, Receive, Hangup, Prune

\* Every step is one of the six that the service knows, or moves nobody.
LEMMA StepKinds ==
    ASSUME IInv, [Next]_vars
    PROVE  \/ Same
           \/ \E pid \in Pid, l \in LobbyId, c \in Capacity : Hosted(pid, l, c)
           \/ \E pid \in Pid, l \in LobbyId : Entered(pid, l) \/ Gone(pid, l)
           \/ \E l \in LobbyId, c \in Capacity : Resized(l, c)
           \/ \E l \in LobbyId, q \in Pid : Appointed(l, q)
           \/ EventLoopReset
<1>1. CASE UNCHANGED vars
    BY <1>1, SameTables DEF vars
<1>2. CASE \E ip \in Ip, gid \in Gid, m, pm \in Metadata, c \in Capacity,
              listed \in BOOLEAN, reply \in Replies :
                 HostLobby(ip, gid, m, c, listed, pm, reply)
    BY <1>1, <1>2, HostEffect DEF FreshPid
<1>3. CASE \E ip \in Ip, l \in LobbyId, pm \in Metadata, reply \in Replies :
                 JoinLobby(ip, l, pm, reply)
    BY <1>1, <1>3, JoinEffect DEF FreshPid
<1>4. CASE \E p \in Pid, reason \in Reason : RemovePlayer(p, reason)
    BY <1>1, <1>4, RemoveEffect
<1>5. CASE \E p \in Pid, c \in Capacity : SetCapacity(p, c)
    BY <1>5, ResizeEffect
<1>6. CASE \E p, q \in Pid : SetMaster(p, q)
    BY <1>6, AppointEffect
<1>7. CASE \/ \E p \in Pid, listed \in BOOLEAN : SetListed(p, listed)
           \/ \E p, q \in Pid : KickPlayer(p, q)
           \/ \E p \in Pid, k \in Key, v \in Value : SetPlayerMeta(p, k, v) \/ SetLobbyMeta(p, k, v)
           \/ \E p \in Pid, k \in Key : ErasePlayerMeta(p, k) \/ EraseLobbyMeta(p, k)
           \/ \E p, q \in Pid, type \in {"Offer", "Answer", "Candidate"} : Relay(p, q, type)
    BY <1>7, QuietEffect
<1>8. CASE \/ \E ip \in Ip, reply \in BOOLEAN : IntroduceSession(ip, reply)
           \/ \E ip \in Ip : CloseSession(ip)
           \/ \E p \in Pid : Receive(p) \/ Hangup(p)
           \/ Prune \/ Tick
    BY <1>8, OutsideEffect
<1> QED
    BY <1>1, <1>2, <1>3, <1>4, <1>5, <1>6, <1>7, <1>8 DEF Next

-----------------------------------------------------------------------------
(* Theorems *)

\* The inductive invariant holds in every reachable state of the event loop.
THEOREM RegistryInvariant == Spec => []IInv
<1>1. IInv /\ [Next]_vars => IInv'
    BY NextStep
<1> QED
    BY <1>1, InitStep, PTL DEF Spec

\* The tables and channels keep their types for any numbers of players, lobbies,
\* games and addresses: in particular no lobby ever has the master NULL, metadata
\* stays within MAX_FIELDS and no channel exceeds QUEUE_CAP.
THEOREM TypeCorrect == Spec => []TypeOK
<1>1. IInv => TypeOK
    BY DEF IInv, TablesOK, BoxOK, TypeOK
<1> QED
    BY <1>1, RegistryInvariant, PTL

\* The players table and the lobbies table always agree about who is where.
THEOREM MembershipHolds == Spec => []Membership
<1>1. IInv => Membership
    BY DEF IInv
<1> QED
    BY <1>1, RegistryInvariant, PTL

\* The per-game index lists exactly the existing lobbies and no empty game.
THEOREM GameIndexHolds == Spec => []GameIndex
<1>1. IInv => GameIndex
    BY DEF IInv
<1> QED
    BY <1>1, RegistryInvariant, PTL

\* Whoever leaves or is appointed, in whatever order, a lobby's master is one of
\* its members.
THEOREM MasterIsMemberHolds == Spec => []MasterIsMember
<1>1. IInv => MasterIsMember
    BY DEF IInv
<1> QED
    BY <1>1, RegistryInvariant, PTL

\* A lobby's idle clock runs exactly while it has fewer than CHUD_THRESHOLD members.
THEOREM IdleClockHolds == Spec => []IdleClock
<1>1. IInv => IdleClock
    BY DEF IInv
<1> QED
    BY <1>1, RegistryInvariant, PTL
=============================================================================
