---------------------------- MODULE LimitsProofs ----------------------------
(***************************************************************************)
(* Proofs about the event loop's limits: lobbies per address, sessions and *)
(* peers, and what a listing shows.                                        *)
(***************************************************************************)
EXTENDS BlasterProofs

\* One element more adds at most one to the size of a finite set.
LEMMA AddOne ==
    ASSUME NEW S, IsFiniteSet(S), NEW x
    PROVE  /\ IsFiniteSet(S \cup {x})
           /\ Cardinality(S) \in Nat /\ Cardinality(S \cup {x}) \in Nat
           /\ Cardinality(S \cup {x}) =< Cardinality(S) + 1
           /\ x \in S => Cardinality(S \cup {x}) = Cardinality(S)
<1>1. /\ IsFiniteSet(S \cup {x})
      /\ Cardinality(S \cup {x}) = IF x \in S THEN Cardinality(S) ELSE Cardinality(S) + 1
    BY FS_AddElement
<1>2. Cardinality(S) \in Nat
    BY FS_CardinalityType
<1> QED
    BY <1>1, <1>2

-----------------------------------------------------------------------------
(* Peers *)

\* The sessions that a table of peers counts, and how the table grows.
CountsOf(table) == UNION {{ip} \X (1 .. table[ip].count) : ip \in DOMAIN table}

LEMMA CountsFacts ==
    ASSUME NEW table
    PROVE  /\ \A x \in CountsOf(table) : \E ip \in DOMAIN table :
                 \E n \in 1 .. table[ip].count : x = <<ip, n>>
           /\ \A ip \in DOMAIN table : \A n \in 1 .. table[ip].count :
                 <<ip, n>> \in CountsOf(table)
BY DEF CountsOf

\* The part of Limits about peers, with the finiteness that counting needs.
PeersOK ==
    /\ IsFiniteSet(DOMAIN peers) /\ IsFiniteSet(Counts)
    /\ \A ip \in DOMAIN peers : session_count(ip) =< SESSIONS_PER_IP_CAP
    /\ total_sessions =< GLOBAL_SESSIONS_CAP
    /\ Cardinality(DOMAIN peers) =< GLOBAL_PEERS_CAP

\* A table that counts no session and knows no address that it did not before.
LEMMA FewerPeers ==
    ASSUME TablesOK, PeersOK, DOMAIN peers' \subseteq DOMAIN peers,
           \A ip \in DOMAIN peers' : peers'[ip].count \in Nat
                                     /\ peers'[ip].count =< peers[ip].count
    PROVE  PeersOK'
<1>1. /\ Counts = CountsOf(peers) /\ Counts' = CountsOf(peers')
    BY DEF Counts, CountsOf, session_count
<1>2. \A ip \in DOMAIN peers : peers[ip].count \in Nat
    BY DEF TablesOK, Peer
<1>3. Counts' \subseteq Counts
  <2> SUFFICES ASSUME NEW x \in CountsOf(peers') PROVE x \in CountsOf(peers)
      BY <1>1
  <2>1. PICK ip \in DOMAIN peers' : \E n \in 1 .. peers'[ip].count : x = <<ip, n>>
      BY CountsFacts
  <2>2. PICK n \in 1 .. peers'[ip].count : x = <<ip, n>>
      BY <2>1
  <2>3. ip \in DOMAIN peers /\ n \in 1 .. peers[ip].count
      BY <1>2
  <2> QED
      BY <2>2, <2>3, CountsFacts
<1>4. /\ IsFiniteSet(Counts') /\ Cardinality(Counts') =< Cardinality(Counts)
      /\ Cardinality(Counts) \in Nat /\ Cardinality(Counts') \in Nat
    BY <1>3, FS_Subset, FS_CardinalityType DEF PeersOK
<1>5. /\ IsFiniteSet(DOMAIN peers') /\ Cardinality(DOMAIN peers') =< Cardinality(DOMAIN peers)
      /\ Cardinality(DOMAIN peers) \in Nat /\ Cardinality(DOMAIN peers') \in Nat
    BY FS_Subset, FS_CardinalityType DEF PeersOK
<1>6. \A ip \in DOMAIN peers' : peers'[ip].count =< SESSIONS_PER_IP_CAP
    BY <1>2, CapsAssumption DEF PeersOK, session_count
<1> QED
    BY <1>4, <1>5, <1>6, CapsAssumption DEF PeersOK, session_count, total_sessions

\* A session is only introduced below all three limits, and adds one to each.
LEMMA IntroducePeers ==
    ASSUME TablesOK, PeersOK, NEW ip \in Ip, NEW reply \in BOOLEAN, IntroduceSession(ip, reply)
    PROVE  PeersOK'
<1>0. \A i \in DOMAIN peers : peers[i].count \in Nat
    BY DEF TablesOK, Peer
<1>1. CASE ~reply
  <2>1. peers' = peers
      BY <1>1 DEF IntroduceSession
  <2> QED
      BY <1>0, <2>1, FewerPeers
<1>2. CASE reply
  <2> DEFINE n == IF ip \in DOMAIN peers THEN session_count(ip) + 1 ELSE 1
  <2>1. peers' = Put(peers, ip, [count |-> n, age |-> 0])
      BY <1>2 DEF IntroduceSession
  <2>2. /\ total_sessions < GLOBAL_SESSIONS_CAP
        /\ ip \in DOMAIN peers => session_count(ip) < SESSIONS_PER_IP_CAP
        /\ ip \notin DOMAIN peers => Cardinality(DOMAIN peers) < GLOBAL_PEERS_CAP
      BY <1>2 DEF IntroduceSession, MayIntroduce
  <2>3. /\ n \in Nat /\ n =< SESSIONS_PER_IP_CAP /\ n >= 1
        /\ ip \in DOMAIN peers => n = peers[ip].count + 1
        /\ ip \notin DOMAIN peers => n = 1
      BY <1>0, <2>2, CapsAssumption DEF session_count
  <2> HIDE DEF n
  <2>4. /\ DOMAIN peers' = DOMAIN peers \cup {ip} /\ peers'[ip].count = n
        /\ \A i \in DOMAIN peers \ {ip} : peers'[i] = peers[i]
      BY <2>1 DEF Put
  <2>5. Counts = CountsOf(peers) /\ Counts' = CountsOf(peers')
      BY DEF Counts, CountsOf, session_count
  <2>6. Counts' \subseteq Counts \cup {<<ip, n>>}
    <3> SUFFICES ASSUME NEW x \in CountsOf(peers'), x # <<ip, n>> PROVE x \in CountsOf(peers)
        BY <2>5
    <3>1. PICK i \in DOMAIN peers' : \E m \in 1 .. peers'[i].count : x = <<i, m>>
        BY CountsFacts
    <3>2. PICK m \in 1 .. peers'[i].count : x = <<i, m>>
        BY <3>1
    <3>3. i \in DOMAIN peers /\ m \in 1 .. peers[i].count
      <4>1. CASE i = ip
        <5>1. m # n
            BY <4>1, <3>2
        <5> QED
            BY <4>1, <5>1, <1>0, <2>3, <2>4
      <4>2. CASE i # ip
          BY <4>2, <2>4
      <4> QED
          BY <4>1, <4>2
    <3> QED
        BY <3>2, <3>3, CountsFacts
  <2>7. /\ IsFiniteSet(Counts \cup {<<ip, n>>})
        /\ Cardinality(Counts \cup {<<ip, n>>}) =< Cardinality(Counts) + 1
        /\ Cardinality(Counts) \in Nat /\ Cardinality(Counts \cup {<<ip, n>>}) \in Nat
      BY AddOne DEF PeersOK
  <2>8. IsFiniteSet(Counts') /\ Cardinality(Counts') =< Cardinality(Counts) + 1
        /\ Cardinality(Counts') \in Nat
      BY <2>6, <2>7, FS_Subset, FS_CardinalityType
  <2>9. Cardinality(Counts') =< GLOBAL_SESSIONS_CAP
      BY <2>2, <2>7, <2>8, CapsAssumption DEF total_sessions
  <2>10. /\ IsFiniteSet(DOMAIN peers')
         /\ Cardinality(DOMAIN peers') =< GLOBAL_PEERS_CAP
    <3>1. /\ IsFiniteSet(DOMAIN peers')
          /\ Cardinality(DOMAIN peers) \in Nat /\ Cardinality(DOMAIN peers') \in Nat
          /\ Cardinality(DOMAIN peers') =< Cardinality(DOMAIN peers) + 1
          /\ ip \in DOMAIN peers => Cardinality(DOMAIN peers') = Cardinality(DOMAIN peers)
        BY <2>4, AddOne DEF PeersOK
    <3> QED
        BY <3>1, <2>2, CapsAssumption DEF PeersOK
  <2>11. \A i \in DOMAIN peers' : peers'[i].count =< SESSIONS_PER_IP_CAP
      BY <2>3, <2>4 DEF PeersOK, session_count
  <2> QED
      BY <2>8, <2>9, <2>10, <2>11 DEF PeersOK, session_count, total_sessions
<1> QED
    BY <1>1, <1>2

\* Only introductions, closes, pruning, time and a reset touch the peers.
LEMMA PeersAlone ==
    ASSUME [Next]_vars,
           ~\E ip \in Ip, reply \in BOOLEAN : IntroduceSession(ip, reply),
           ~\E ip \in Ip : CloseSession(ip), ~Prune, ~Tick, ~EventLoopReset
    PROVE  peers' = peers
<1>1. CASE UNCHANGED vars
    BY <1>1 DEF vars
<1>2. CASE \/ \E ip \in Ip, gid \in Gid, m, pm \in Metadata, c \in Capacity,
                 listed \in BOOLEAN, reply \in Replies :
                    HostLobby(ip, gid, m, c, listed, pm, reply)
           \/ \E ip \in Ip, l \in LobbyId, pm \in Metadata, reply \in Replies :
                    JoinLobby(ip, l, pm, reply)
    BY <1>2 DEF HostLobby, JoinLobby, vars
<1>3. CASE \/ \E p \in Pid, reason \in Reason : RemovePlayer(p, reason)
           \/ \E p \in Pid : Receive(p) \/ Hangup(p)
    BY <1>3 DEF RemovePlayer, Receive, Hangup, vars
<1>4. ASSUME NEW p, NEW q, NEW t, KickPlayer(p, q) \/ Relay(p, q, t) \/ SetMaster(p, q)
      PROVE  peers' = peers
    BY <1>4 DEF KickPlayer, Relay, SetMaster, UpdateLobby, Notify, boot, vars
<1>5. ASSUME NEW p, NEW k, NEW v, SetPlayerMeta(p, k, v) \/ ErasePlayerMeta(p, k)
      PROVE  peers' = peers
    BY <1>5 DEF SetPlayerMeta, ErasePlayerMeta, UpdatePlayer, Notify, boot, vars
<1>6. ASSUME NEW p, NEW k, NEW v, SetLobbyMeta(p, k, v) \/ EraseLobbyMeta(p, k)
      PROVE  peers' = peers
    BY <1>6 DEF SetLobbyMeta, EraseLobbyMeta, UpdateLobby, Notify, boot, vars
<1>7. ASSUME NEW p, NEW v, SetCapacity(p, v) \/ SetListed(p, v)
      PROVE  peers' = peers
    BY <1>7 DEF SetCapacity, SetListed, UpdateLobby, Notify, boot, vars
<1> QED
    BY <1>1, <1>2, <1>3, <1>4, <1>5, <1>6, <1>7 DEF Next

LEMMA PeersStep ==
    ASSUME TablesOK, PeersOK, [Next]_vars
    PROVE  PeersOK'
<1>0. \A ip \in DOMAIN peers : peers[ip].count \in Nat
    BY DEF TablesOK, Peer
<1>1. CASE peers' = peers
    BY <1>0, <1>1, FewerPeers
<1>2. CASE \E ip \in Ip, reply \in BOOLEAN : IntroduceSession(ip, reply)
    BY <1>2, IntroducePeers
<1>3. CASE \E ip \in Ip : CloseSession(ip)
  <2>1. PICK ip \in Ip : CloseSession(ip)
      BY <1>3
  <2>2. /\ DOMAIN peers' = DOMAIN peers
        /\ \A i \in DOMAIN peers : peers'[i].count \in Nat /\ peers'[i].count =< peers[i].count
      BY <1>0, <2>1 DEF CloseSession, session_count, TablesOK, Peer
  <2> QED
      BY <2>2, FewerPeers
<1>4. CASE Prune
  <2>1. /\ DOMAIN peers' \subseteq DOMAIN peers
        /\ \A ip \in DOMAIN peers' : peers'[ip] = peers[ip]
      BY <1>4 DEF Prune
  <2> QED
      BY <1>0, <2>1, FewerPeers
<1>5. CASE Tick
  <2>1. /\ DOMAIN peers' = DOMAIN peers
        /\ \A ip \in DOMAIN peers : peers'[ip].count = peers[ip].count
      BY <1>5 DEF Tick, TablesOK, Peer
  <2> QED
      BY <1>0, <2>1, FewerPeers
<1>6. CASE EventLoopReset
  <2>1. DOMAIN peers' = {}
      BY <1>6 DEF EventLoopReset
  <2> QED
      BY <2>1, FewerPeers
<1> QED
    BY <1>1, <1>2, <1>3, <1>4, <1>5, <1>6, PeersAlone

-----------------------------------------------------------------------------
(* Lobbies *)

\* There are finitely many lobbies: each has a master of its own.
LEMMA LobbiesFinite ==
    ASSUME IInv
    PROVE  IsFiniteSet(DOMAIN lobbies)
<1> DEFINE f == [l \in DOMAIN lobbies |-> lobbies[l].master]
<1>1. \A l \in DOMAIN lobbies : /\ lobbies[l].master \in Pid
                               /\ lobbies[l].master \in lobbies[l].players
                               /\ players[lobbies[l].master].lid = l
    BY DEF IInv, TablesOK, Lobby, MasterIsMember, Membership
<1>2. f \in Injection(DOMAIN lobbies, Pid)
    BY <1>1 DEF Injection, IsInjective
<1> QED
    BY <1>2, FiniteAssumption, FS_Injection

\* The index of a game and the lobbies of the game are the same lobbies.
LEMMA ListedFacts ==
    ASSUME IInv, NEW gid \in Gid
    PROVE  /\ IsFiniteSet(ListedIn(gid)) /\ Cardinality(ListedIn(gid)) \in Nat
           /\ ListedIn(gid) \subseteq Lid
           /\ \A i \in Lid : i \in ListedIn(gid) <=>
                 LET l == [gid |-> gid, lid |-> i]
                 IN  l \in DOMAIN lobbies /\ lobbies[l].listed
<1>1. ListedIn(gid) \subseteq Lid
    BY DEF ListedIn, IInv, TablesOK
<1>2. \A i \in Lid : i \in ListedIn(gid) <=>
          [gid |-> gid, lid |-> i] \in DOMAIN lobbies /\ lobbies[[gid |-> gid, lid |-> i]].listed
    BY DEF ListedIn, IInv, GameIndex
<1> DEFINE f == [i \in ListedIn(gid) |-> [gid |-> gid, lid |-> i]]
<1>3. f \in Injection(ListedIn(gid), DOMAIN lobbies)
    BY <1>1, <1>2 DEF Injection, IsInjective
<1>4. IsFiniteSet(ListedIn(gid))
    BY <1>3, LobbiesFinite, FS_Injection
<1> QED
    BY <1>1, <1>2, <1>4, FS_CardinalityType

LobbyLimit == \A ip \in Ip : Cardinality(LobbiesFrom(ip)) =< LOBBIES_PER_IP

\* A step leaves the lobbies' hosts alone, or it hosts a lobby.
LEMMA HostsKept ==
    ASSUME IInv, [Next]_vars
    PROVE  \/ /\ DOMAIN lobbies' \subseteq DOMAIN lobbies
              /\ \A l \in DOMAIN lobbies' : lobbies'[l].initiator = lobbies[l].initiator
           \/ \E pid \in Pid, l \in LobbyId, c \in Capacity : Hosted(pid, l, c)
<1>1. CASE \E pid \in Pid, l \in LobbyId : Gone(pid, l)
    BY <1>1 DEF Gone
<1>2. CASE \E pid \in Pid, l \in LobbyId : Entered(pid, l)
    BY <1>2 DEF Entered
<1>3. CASE Same
    BY <1>3 DEF Same
<1>4. CASE \E l \in LobbyId, c \in Capacity : Resized(l, c)
    BY <1>4 DEF Resized
<1>5. CASE \E l \in LobbyId, q \in Pid : Appointed(l, q)
    BY <1>5 DEF Appointed
<1>6. CASE EventLoopReset
    BY <1>6 DEF EventLoopReset
<1> QED
    BY <1>1, <1>2, <1>3, <1>4, <1>5, <1>6, StepKinds

LEMMA LobbyLimitStep ==
    ASSUME IInv, LobbyLimit, [Next]_vars
    PROVE  LobbyLimit'
<1> SUFFICES ASSUME NEW ip \in Ip
             PROVE  Cardinality(LobbiesFrom(ip)') =< LOBBIES_PER_IP
    BY DEF LobbyLimit
<1>1. /\ IsFiniteSet(LobbiesFrom(ip)) /\ Cardinality(LobbiesFrom(ip)) \in Nat
      /\ Cardinality(LobbiesFrom(ip)) =< LOBBIES_PER_IP /\ LOBBIES_PER_IP \in Nat
    BY LobbiesFinite, FS_Subset, FS_CardinalityType, CapsAssumption DEF LobbiesFrom, LobbyLimit
<1>2. CASE /\ DOMAIN lobbies' \subseteq DOMAIN lobbies
           /\ \A l \in DOMAIN lobbies' : lobbies'[l].initiator = lobbies[l].initiator
  <2>1. LobbiesFrom(ip)' \subseteq LobbiesFrom(ip)
      BY <1>2 DEF LobbiesFrom
  <2>2. /\ Cardinality(LobbiesFrom(ip)') =< Cardinality(LobbiesFrom(ip))
        /\ Cardinality(LobbiesFrom(ip)') \in Nat
      BY <1>1, <2>1, FS_Subset, FS_CardinalityType
  <2> QED
      BY <1>1, <2>2
<1>3. CASE \E pid \in Pid, l \in LobbyId, c \in Capacity : Hosted(pid, l, c)
  <2>1. PICK pid \in Pid, l \in LobbyId, c \in Capacity : Hosted(pid, l, c)
      BY <1>3
  <2>2. CASE lobbies'[l].initiator = ip
    <3>1. LobbiesFrom(ip)' = LobbiesFrom(ip) \cup {l}
        BY <2>1, <2>2 DEF LobbiesFrom, Hosted
    <3>2. Cardinality(LobbiesFrom(ip)) < LOBBIES_PER_IP
        BY <2>1, <2>2 DEF Hosted, MayHost
    <3> QED
        BY <1>1, <3>1, <3>2, AddOne
  <2>3. CASE lobbies'[l].initiator # ip
    <3>1. LobbiesFrom(ip)' = LobbiesFrom(ip)
        BY <2>1, <2>3 DEF LobbiesFrom, Hosted
    <3> QED
        BY <1>1, <3>1
  <2> QED
      BY <2>2, <2>3
<1> QED
    BY <1>2, <1>3, HostsKept

-----------------------------------------------------------------------------
(* Theorems *)

\* For any numbers of addresses and players and in any order of introductions,
\* closes, pruning, hosting and resets, no address has more than LOBBIES_PER_IP
\* lobbies or SESSIONS_PER_IP_CAP sessions, and the server counts no more than
\* GLOBAL_SESSIONS_CAP sessions and GLOBAL_PEERS_CAP addresses.
THEOREM LimitsHold == Spec => []Limits
<1> DEFINE LInv == IInv /\ PeersOK /\ LobbyLimit
<1>1. Init => LInv
  <2> SUFFICES ASSUME Init PROVE LInv
      OBVIOUS
  <2>1. DOMAIN peers = {} /\ DOMAIN lobbies = {}
      BY DEF Init
  <2>2. Counts = {} /\ \A ip \in Ip : LobbiesFrom(ip) = {}
      BY <2>1 DEF Counts, LobbiesFrom
  <2>3. /\ IsFiniteSet({}) /\ Cardinality({}) = 0
        /\ 0 =< LOBBIES_PER_IP /\ 0 =< GLOBAL_SESSIONS_CAP /\ 0 =< GLOBAL_PEERS_CAP
      BY FS_EmptySet, CapsAssumption
  <2>4. PeersOK
      BY <2>1, <2>2, <2>3 DEF PeersOK, total_sessions
  <2>5. LobbyLimit
      BY <2>2, <2>3 DEF LobbyLimit
  <2> QED
      BY <2>4, <2>5, InitStep
<1>2. LInv /\ [Next]_vars => LInv'
    BY NextStep, PeersStep, LobbyLimitStep DEF IInv
<1>3. LInv => Limits
    BY DEF PeersOK, LobbyLimit, Limits
<1> HIDE DEF LInv
<1> QED
    BY <1>1, <1>2, <1>3, PTL DEF Spec

\* A listing shows only lobbies that one can join, and every one of them unless
\* it is cut off at LOBBY_LISTING_CAP.
THEOREM ListingCompleteHolds == Spec => []ListingComplete
<1>1. ASSUME IInv PROVE ListingComplete
  <2> SUFFICES ASSUME NEW gid \in Gid, NEW S \in Listings(gid, LOBBY_LISTING_CAP)
               PROVE  LET joinable == {i \in Lid : LET l == [gid |-> gid, lid |-> i]
                                     IN  /\ l \in DOMAIN lobbies /\ lobbies[l].listed
                                         /\ ~is_full(lobbies[l])}
                      IN  S \subseteq joinable
                          /\ (S = joinable \/ Cardinality(S) = LOBBY_LISTING_CAP)
      BY DEF ListingComplete
  <2> DEFINE joinable == {i \in Lid : LET l == [gid |-> gid, lid |-> i]
                                     IN  /\ l \in DOMAIN lobbies /\ lobbies[l].listed
                                         /\ ~is_full(lobbies[l])}
             open == {i \in ListedIn(gid) : ~is_full(lobbies[[gid |-> gid, lid |-> i]])}
             n == Least(IF LOBBY_LISTING_CAP < 1 THEN 1 ELSE LOBBY_LISTING_CAP,
                        LOBBY_LISTING_CAP)
  <2>1. open = joinable
      BY <1>1, ListedFacts
  <2>2. n = LOBBY_LISTING_CAP /\ LOBBY_LISTING_CAP \in Nat
      BY CapsAssumption DEF Least
  <2>3. S \subseteq open /\ Cardinality(S) = Least(n, Cardinality(open))
      BY DEF Listings
  <2>4. IsFiniteSet(open) /\ Cardinality(open) \in Nat
      BY <1>1, ListedFacts, FS_Subset, FS_CardinalityType
  <2> HIDE DEF open, n
  <2>5. Cardinality(S) = Cardinality(open) \/ Cardinality(S) = LOBBY_LISTING_CAP
      BY <2>2, <2>3 DEF Least
  <2>6. Cardinality(S) = Cardinality(open) => S = open
      BY <2>3, <2>4, FS_Subset
  <2> QED
      BY <2>1, <2>3, <2>5, <2>6
<1> QED
    BY <1>1, RegistryInvariant, PTL
=============================================================================
