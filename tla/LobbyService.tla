---------------------------- MODULE LobbyService ----------------------------
(***************************************************************************)
(* What the signalling server promises about lobbies, without its tables:  *)
(* every player is in one lobby or in none, a lobby exists exactly as long *)
(* as it has members, one of them is its master, and nobody enters a lobby *)
(* that is full.                                                           *)
(***************************************************************************)
EXTENDS Naturals, FiniteSets

CONSTANTS Player, Lobby, Capacity, Nowhere

VARIABLES
    where,      \* player |-> its lobby or Nowhere
    master,     \* open lobby |-> its master
    capacity    \* open lobby |-> how many may enter

Open == DOMAIN master
Members(l) == {p \in Player : where[p] = l}

Init ==
    /\ where = [p \in Player |-> Nowhere]
    /\ master = << >>
    /\ capacity = << >>

\* f with k mapped to v, and f without k.
With(f, k, v) == [x \in DOMAIN f \cup {k} |-> IF x = k THEN v ELSE f[x]]
Minus(f, k) == [x \in DOMAIN f \ {k} |-> f[x]]

Host(p, l, c) ==
    /\ where[p] = Nowhere /\ l \notin Open
    /\ where' = [where EXCEPT ![p] = l]
    /\ master' = With(master, l, p)
    /\ capacity' = With(capacity, l, c)

Enter(p, l) ==
    /\ where[p] = Nowhere /\ l \in Open
    /\ Cardinality(Members(l)) < capacity[l]
    /\ where' = [where EXCEPT ![p] = l]
    /\ UNCHANGED <<master, capacity>>

\* Leaving hands the lobby over when the master goes, and closes it when the
\* last member does.
Leave(p, l) ==
    /\ l \in Open /\ where[p] = l
    /\ where' = [where EXCEPT ![p] = Nowhere]
    /\ \/ /\ Members(l) = {p}
          /\ master' = Minus(master, l)
          /\ capacity' = Minus(capacity, l)
       \/ /\ \E q \in Members(l) \ {p} :
                master' = [master EXCEPT ![l] = IF @ = p THEN q ELSE @]
          /\ UNCHANGED capacity

Appoint(l, q) ==
    /\ l \in Open /\ q \in Members(l)
    /\ master' = [master EXCEPT ![l] = q]
    /\ UNCHANGED <<where, capacity>>

Resize(l, c) ==
    /\ l \in Open
    /\ capacity' = [capacity EXCEPT ![l] = c]
    /\ UNCHANGED <<where, master>>

\* The server lost its state: every lobby is gone.
Reset ==
    /\ where' = [p \in Player |-> Nowhere]
    /\ master' = << >>
    /\ capacity' = << >>

Next ==
    \/ \E p \in Player, l \in Lobby, c \in Capacity : Host(p, l, c)
    \/ \E p \in Player, l \in Lobby : Enter(p, l) \/ Leave(p, l)
    \/ \E l \in Lobby, q \in Player : Appoint(l, q)
    \/ \E l \in Lobby, c \in Capacity : Resize(l, c)
    \/ Reset

Spec == Init /\ [][Next]_<<where, master, capacity>>
=============================================================================
