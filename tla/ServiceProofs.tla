--------------------------- MODULE ServiceProofs ---------------------------
(***************************************************************************)
(* The proof that the event loop's tables implement the lobby service:     *)
(* every step of the event loop is a step of LobbyService or leaves        *)
(* everyone where they are.                                                *)
(***************************************************************************)
EXTENDS BlasterProofs

\* The service's members of a lobby are those of the lobbies table.
LEMMA MembersFacts ==
    ASSUME IInv, NEW l \in DOMAIN lobbies
    PROVE  /\ Service!Members(l) = lobbies[l].players
           /\ DOMAIN Masters = DOMAIN lobbies /\ DOMAIN Capacities = DOMAIN lobbies
           /\ Masters[l] = lobbies[l].master /\ Capacities[l] = lobbies[l].capacity
<1>1. l # None
    BY NoneAssumption DEF IInv, TablesOK
<1>2. \A p \in Pid : Where[p] = l <=> p \in DOMAIN players /\ players[p].lid = l
    BY <1>1 DEF Where
<1>3. \A p \in Pid : p \in lobbies[l].players <=> p \in DOMAIN players /\ players[p].lid = l
    BY DEF IInv, Membership, InLobby, LobbyOf
<1>4. lobbies[l].players \subseteq Pid
    BY DEF IInv, TablesOK, Lobby
<1> QED
    BY <1>2, <1>3, <1>4 DEF Service!Members, Masters, Capacities

\* Nobody moved: the service takes no step.
LEMMA SameMap ==
    ASSUME Same
    PROVE  UNCHANGED <<Where, Masters, Capacities>>
<1>1. Where' = Where
    BY DEF Same, Where
<1>2. Masters' = Masters /\ Capacities' = Capacities
    BY DEF Same, Masters, Capacities
<1> QED
    BY <1>1, <1>2

LEMMA HostMap ==
    ASSUME NEW pid \in Pid, NEW l \in LobbyId, NEW c \in Capacity, Hosted(pid, l, c)
    PROVE  Service!Host(pid, l, c)
<1>1. Where[pid] = None /\ l \notin DOMAIN Masters
    BY DEF Hosted, Where, Masters
<1>2. Where' = [Where EXCEPT ![pid] = l]
    BY DEF Hosted, Where
<1>3. Masters' = [k \in DOMAIN Masters \cup {l} |-> IF k = l THEN pid ELSE Masters[k]]
    BY DEF Hosted, Masters
<1>4. Capacities' = [k \in DOMAIN Capacities \cup {l} |-> IF k = l THEN c ELSE Capacities[k]]
    BY DEF Hosted, Capacities
<1> QED
    BY <1>1, <1>2, <1>3, <1>4 DEF Service!Host, Service!Open, Service!With

LEMMA EnterMap ==
    ASSUME IInv, NEW pid \in Pid, NEW l \in LobbyId, Entered(pid, l)
    PROVE  Service!Enter(pid, l)
<1>1. Where[pid] = None /\ l \in DOMAIN Masters
    BY DEF Entered, Where, Masters
<1>2. Where' = [Where EXCEPT ![pid] = l]
    BY DEF Entered, Where
<1>3. Masters' = Masters /\ Capacities' = Capacities
    BY DEF Entered, Masters, Capacities
<1>4. Cardinality(Service!Members(l)) < Capacities[l]
  <2>1. l \in DOMAIN lobbies /\ ~is_full(lobbies[l])
      BY DEF Entered
  <2>2. Cardinality(lobbies[l].players) \in Nat /\ lobbies[l].capacity \in Nat
      BY <2>1, FiniteAssumption, CapsAssumption, FS_Subset, FS_CardinalityType
         DEF IInv, TablesOK, Lobby
  <2> QED
      BY <2>1, <2>2, MembersFacts DEF is_full
<1> QED
    BY <1>1, <1>2, <1>3, <1>4 DEF Service!Enter, Service!Open, Service!Cardinality, Cardinality

LEMMA LeaveMap ==
    ASSUME IInv, NEW pid \in Pid, NEW l \in LobbyId, Gone(pid, l)
    PROVE  Service!Leave(pid, l)
<1>0. /\ l \in DOMAIN lobbies /\ pid \in DOMAIN players /\ players[pid].lid = l
    BY DEF Gone
<1>1. l \in DOMAIN Masters /\ Where[pid] = l
    BY <1>0 DEF Where, Masters
<1>2. Where' = [Where EXCEPT ![pid] = None]
    BY DEF Gone, Where
<1>3. CASE /\ lobbies[l].players = {pid}
           /\ DOMAIN lobbies' = DOMAIN lobbies \ {l}
           /\ \A k \in DOMAIN lobbies \ {l} : lobbies'[k] = lobbies[k]
  <2>1. /\ Masters' = [k \in DOMAIN Masters \ {l} |-> Masters[k]]
        /\ Capacities' = [k \in DOMAIN Capacities \ {l} |-> Capacities[k]]
      BY <1>3 DEF Masters, Capacities
  <2>2. Service!Members(l) = {pid}
      BY <1>0, <1>3, MembersFacts
  <2> QED
      BY <1>1, <1>2, <2>1, <2>2 DEF Service!Leave, Service!Open, Service!Minus
<1>4. CASE /\ DOMAIN lobbies' = DOMAIN lobbies
           /\ \A k \in DOMAIN lobbies \ {l} : lobbies'[k] = lobbies[k]
           /\ lobbies'[l].capacity = lobbies[l].capacity
           /\ \E q \in lobbies[l].players \ {pid} :
                 lobbies'[l].master = IF lobbies[l].master = pid THEN q ELSE lobbies[l].master
  <2>1. PICK q \in Service!Members(l) \ {pid} :
                 lobbies'[l].master = IF lobbies[l].master = pid THEN q ELSE lobbies[l].master
      BY <1>0, <1>4, MembersFacts
  <2>2. Capacities' = Capacities
      BY <1>0, <1>4 DEF Capacities
  <2>3. Masters' = [Masters EXCEPT ![l] = IF Masters[l] = pid THEN q ELSE Masters[l]]
      BY <1>0, <1>4, <2>1 DEF Masters
  <2> QED
      BY <1>1, <1>2, <2>1, <2>2, <2>3 DEF Service!Leave, Service!Open
<1> QED
    BY <1>3, <1>4 DEF Gone

LEMMA ResizeMap ==
    ASSUME NEW l \in LobbyId, NEW c \in Capacity, Resized(l, c)
    PROVE  Service!Resize(l, c)
<1>1. Where' = Where
    BY DEF Resized, Where
<1>2. /\ l \in DOMAIN Masters /\ Masters' = Masters
      /\ Capacities' = [Capacities EXCEPT ![l] = c]
    BY DEF Resized, Masters, Capacities
<1> QED
    BY <1>1, <1>2 DEF Service!Resize, Service!Open

LEMMA AppointMap ==
    ASSUME IInv, NEW l \in LobbyId, NEW q \in Pid, Appointed(l, q)
    PROVE  Service!Appoint(l, q)
<1>1. Where' = Where /\ Where[q] = l
    BY DEF Appointed, Where
<1>2. /\ l \in DOMAIN Masters /\ Capacities' = Capacities
      /\ Masters' = [Masters EXCEPT ![l] = q]
    BY DEF Appointed, Masters, Capacities
<1> QED
    BY <1>1, <1>2 DEF Service!Appoint, Service!Open, Service!Members

\* No table, nobody anywhere.
LEMMA EmptyMap ==
    ASSUME lobbies = << >>, players = << >>
    PROVE  Where = [p \in Pid |-> None] /\ Masters = << >> /\ Capacities = << >>
<1>1. DOMAIN lobbies = {} /\ DOMAIN players = {}
    OBVIOUS
<1>2. Where = [p \in Pid |-> None]
    BY <1>1 DEF Where
<1>3. Masters = << >> /\ Capacities = << >>
    BY <1>1 DEF Masters, Capacities
<1> QED
    BY <1>2, <1>3

LEMMA ResetMap ==
    ASSUME EventLoopReset
    PROVE  Service!Reset
<1>1. lobbies' = << >> /\ players' = << >>
    BY DEF EventLoopReset
<1>2. DOMAIN lobbies' = {} /\ DOMAIN players' = {}
    BY <1>1
<1>3. Where' = [p \in Pid |-> None]
    BY <1>2 DEF Where
<1>4. Masters' = << >> /\ Capacities' = << >>
    BY <1>2 DEF Masters, Capacities
<1> QED
    BY <1>3, <1>4 DEF Service!Reset

\* The event loop's tables implement the lobby service for any numbers of
\* players, games and lobbies: a player is in one lobby at most, enters only
\* lobbies with room, a lobby lives from its host to its last member, and a
\* departing master is succeeded by a member.  Operations that the service does
\* not know, rate limits and lost messages leave everyone where they are.
THEOREM LobbyServiceImplemented == Spec => ImplementsLobbyService
<1>1. Init => Service!Init
    BY EmptyMap DEF Init, Service!Init
<1>2. IInv /\ [Next]_vars => [Service!Next]_<<Where, Masters, Capacities>>
  <2> SUFFICES ASSUME IInv, [Next]_vars
               PROVE  Service!Next \/ UNCHANGED <<Where, Masters, Capacities>>
      OBVIOUS
  <2>1. CASE Same
      BY <2>1, SameMap
  <2>2. CASE \E pid \in Pid, l \in LobbyId, c \in Capacity : Hosted(pid, l, c)
      BY <2>2, HostMap DEF Service!Next
  <2>3. CASE \E pid \in Pid, l \in LobbyId : Entered(pid, l) \/ Gone(pid, l)
      BY <2>3, EnterMap, LeaveMap DEF Service!Next
  <2>4. CASE \E l \in LobbyId, c \in Capacity : Resized(l, c)
      BY <2>4, ResizeMap DEF Service!Next
  <2>5. CASE \E l \in LobbyId, q \in Pid : Appointed(l, q)
      BY <2>5, AppointMap DEF Service!Next
  <2>6. CASE EventLoopReset
      BY <2>6, ResetMap DEF Service!Next
  <2> QED
      BY <2>1, <2>2, <2>3, <2>4, <2>5, <2>6, StepKinds
<1> QED
    BY <1>1, <1>2, RegistryInvariant, PTL DEF Spec, ImplementsLobbyService, Service!Spec
=============================================================================
