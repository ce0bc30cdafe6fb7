------------------------------ MODULE Peering -------------------------------
(***************************************************************************)
(* How two players of a lobby get a P2P connection (Player in              *)
(* src/NutBlast.cpp).  The one with the larger pid offers, the other       *)
(* answers; the server may lose whatever it tells or relays to them.  Each *)
(* side has a clock and starts again when no PONG came for sdp_timeout,    *)
(* until the newest of the two leaves the lobby.  A peer connection is     *)
(* libdatachannel's: it is named by its number on its side, a description  *)
(* by the numbers it is made from, and ICE either joins the two            *)
(* connections that were told of each other or does not.  Candidates       *)
(* travel with the descriptions.                                           *)
(***************************************************************************)
EXTENDS Integers, Sequences, FiniteSets

CONSTANTS
    sdp_timeout,                \* in ticks of the clock, as are Delays
    Delays,                     \* how long a relayed message may take at most
    MAX_RENEGOTIATION_ATTEMPTS,
    MaxFailures                 \* bound: losses the network inflicts in all

ASSUME PeeringAssumption ==
    {sdp_timeout, MAX_RENEGOTIATION_ATTEMPTS, MaxFailures} \cup Delays \subseteq Nat

Side == {"offerer", "answerer"}
Other(s) == CHOOSE t \in Side : t # s

VARIABLES
    player,     \* what each side holds of the other: its Player
    net,        \* messages of the server under way to a side
    gone,       \* the sides that have left the lobby
    newest,     \* the sides whose birth is not before the other's
    delay,      \* the longest a relayed message takes here, from Delays
    dud,        \* a pair of peer connections that ICE failed to join, or lost
    missed,     \* the sides whose Joined was lost
    failures,   \* messages and connections lost since the last PONG
    budget      \* those the network may still lose

fate == <<newest, delay, dud, missed, failures, budget>>
vars == <<player, net, gone, fate>>

-----------------------------------------------------------------------------
(* Peer connections *)

\* 0 stands for no object; remote is the peer connection of the remote description.
NoPlayer == [known |-> FALSE, pc |-> 0, remote |-> 0, dcs |-> 0,
             timer |-> 0, attempts |-> 0, made |-> 0]

\* The two current peer connections have been told of each other.
Matched ==
    /\ \A s \in Side : player[s].known /\ player[s].pc # 0
    /\ player["answerer"].remote = player["offerer"].pc
    /\ player["offerer"].remote = player["answerer"].pc

Pair == <<player["offerer"].pc, player["answerer"].pc>>

\* onDataChannel has handed the offerer's channels to the answerer.
Linked == Matched /\ dud # Pair /\ player["answerer"].dcs = player["answerer"].pc

is_ready(s) == player[s].known /\ player[s].dcs # 0

-----------------------------------------------------------------------------
(* Player's methods *)

\* renegotiate: the answerer keeps the channels of its last peer connection.
renegotiate(s, p) ==
    [p EXCEPT !.timer = sdp_timeout, !.made = p.made + 1, !.pc = p.made + 1, !.remote = 0,
              !.dcs = IF s = "offerer" THEN p.made + 1 ELSE @]

reset(p) == [p EXCEPT !.timer = sdp_timeout, !.pc = 0, !.remote = 0, !.dcs = 0]

\* onLocalDescription: what the offerer sends for its new peer connection.
Offer(p) == [type |-> "Offer", pc |-> p.pc, age |-> 0]
Answer(p) == [type |-> "Answer", pc |-> p.pc, age |-> 0]
Left == [type |-> "Left", pc |-> 0, age |-> 0]

\* The server relays between players of the lobby only.
Relay(n, s, m) == IF s \in gone THEN n ELSE [n EXCEPT ![s] = Append(@, m)]

-----------------------------------------------------------------------------
(* NutBlast_Update of side s; s has received the head of net[s] *)

Got(s, type) == s \notin gone /\ net[s] # << >> /\ Head(net[s]).type = type
Taken(s) == [net EXCEPT ![s] = Tail(@)]

\* Joined: the player is known and the negotiation starts.
Joined(s) ==
    /\ Got(s, "Joined")
    /\ LET p == renegotiate(s, [player[s] EXCEPT !.known = TRUE])
       IN  /\ player' = [player EXCEPT ![s] = p]
           /\ net' = IF s = "offerer" THEN Relay(Taken(s), Other(s), Offer(p)) ELSE Taken(s)
    /\ UNCHANGED <<gone, fate>>

\* Every offer is answered from a new peer connection.
GotOffer ==
    /\ Got("answerer", "Offer") /\ player["answerer"].known
    /\ LET p == [renegotiate("answerer", player["answerer"])
                    EXCEPT !.remote = Head(net["answerer"]).pc]
       IN  /\ player' = [player EXCEPT !["answerer"] = p]
           /\ net' = Relay(Taken("answerer"), "offerer", Answer(p))
    /\ UNCHANGED <<gone, fate>>

\* An answer to an earlier offer is taken, too, if it is the first; it names a
\* peer connection that knows nothing of this one.  A second answer is skipped.
GotAnswer ==
    /\ Got("offerer", "Answer") /\ player["offerer"].known
    /\ player' = IF player["offerer"].remote # 0 THEN player
                 ELSE [player EXCEPT !["offerer"].remote = Head(net["offerer"]).pc]
    /\ net' = Taken("offerer")
    /\ UNCHANGED <<gone, fate>>

\* A description from a player one has not been told of waits for it, in vain.
Unclaimed(s) ==
    /\ Got(s, "Offer") \/ Got(s, "Answer")
    /\ ~player[s].known
    /\ net' = Taken(s)
    /\ UNCHANGED <<player, gone, fate>>

Forgets(s) ==
    /\ player' = [player EXCEPT ![s] = NoPlayer]
    /\ net' = [net EXCEPT ![s] = << >>]
    /\ UNCHANGED <<gone, fate>>

GotLeft(s) == Got(s, "Left") /\ Forgets(s)

\* The server's Pong no longer names the player (module View).
GotPong(s) == s \notin gone /\ player[s].known /\ Other(s) \in gone /\ Forgets(s)

\* Mutant of GivesUp: nobody leaves if the births are equal.
YoungerGivesUp(s) ==
    player[s].attempts >= MAX_RENEGOTIATION_ATTEMPTS /\ newest = {s}

\* The attempts are used up, and our birth is not before the player's.
GivesUp(s) == player[s].attempts >= MAX_RENEGOTIATION_ATTEMPTS /\ s \in newest

\* The clock of s has run out.  One attempt more: the offerer offers again, the
\* answerer waits.  Past the last attempt an older player just stays as it is.
Timeout(s) ==
    /\ s \notin gone /\ player[s].known /\ player[s].timer = 0
    /\ player[s].attempts =< MAX_RENEGOTIATION_ATTEMPTS
    /\ LET p == [player[s] EXCEPT !.attempts = @ + 1]
           q == renegotiate(s, p)
       IN  IF GivesUp(s)
           THEN /\ gone' = gone \cup {s}
                /\ net' = [Relay(net, Other(s), Left) EXCEPT ![s] = << >>]
                /\ player' = [player EXCEPT ![s] = NoPlayer]
           ELSE /\ UNCHANGED gone
                /\ \/ /\ p.attempts > MAX_RENEGOTIATION_ATTEMPTS
                      /\ player' = [player EXCEPT ![s] = p] /\ UNCHANGED net
                   \/ /\ p.attempts =< MAX_RENEGOTIATION_ATTEMPTS
                      /\ player' = [player EXCEPT ![s] = IF s = "offerer" THEN q ELSE reset(p)]
                      /\ net' = IF s = "offerer" THEN Relay(net, Other(s), Offer(q)) ELSE net
    /\ UNCHANGED fate

-----------------------------------------------------------------------------
(* The network and the clock *)

\* ICE joins the peer connections, and onDataChannel runs at the answerer.
Connects ==
    /\ Matched /\ dud # Pair /\ ~Linked
    /\ player' = [player EXCEPT !["answerer"].dcs = player["answerer"].pc]
    /\ UNCHANGED <<net, gone, fate>>

Fail == budget > 0 /\ budget' = budget - 1 /\ failures' = failures + 1

\* ICE finds no route, or the one in use breaks.
Breaks ==
    /\ Matched /\ dud # Pair /\ dud' = Pair /\ Fail
    /\ UNCHANGED <<player, net, gone, newest, delay, missed>>

\* A message does not fit the channel of its session, or the relay was dropped.
Loses(s) ==
    /\ net[s] # << >> /\ Fail
    /\ net' = Taken(s)
    /\ missed' = IF Head(net[s]).type = "Joined" THEN missed \cup {s} ELSE missed
    /\ UNCHANGED <<player, gone, newest, delay, dud>>

\* Mutant of Pong: the attempts of an earlier negotiation count on.
PongKeepingAttempts(p) == [p EXCEPT !.timer = sdp_timeout]

\* The answer to a PING, of which each side sends one a tick.
Pong(p) == [p EXCEPT !.timer = sdp_timeout, !.attempts = 0]

\* Time passes when all that is due has been done: ICE has made up its mind, no
\* message is later than that, and whoever has an expired clock has seen it.
Tick ==
    /\ Matched /\ dud # Pair => Linked
    /\ \A s \in Side : \A i \in DOMAIN net[s] : net[s][i].age < delay
    /\ \A s \in Side : player[s].known /\ player[s].timer = 0 =>
                          player[s].attempts > MAX_RENEGOTIATION_ATTEMPTS
    /\ net' = [s \in Side |-> [i \in DOMAIN net[s] |-> [net[s][i] EXCEPT !.age = @ + 1]]]
    /\ player' = [s \in Side |->
          IF Linked THEN Pong(player[s])
          ELSE [player[s] EXCEPT !.timer = IF @ = 0 THEN 0 ELSE @ - 1]]
    /\ failures' = IF Linked THEN 0 ELSE failures
    /\ UNCHANGED <<gone, newest, delay, dud, missed, budget>>

-----------------------------------------------------------------------------

\* Both have been told of each other by the server, and know nothing yet.
PeeringInit ==
    /\ player = [s \in Side |-> NoPlayer]
    /\ net = [s \in Side |-> <<[type |-> "Joined", pc |-> 0, age |-> 0]>>]
    /\ gone = {} /\ delay \in Delays /\ newest \in SUBSET Side \ {{}}
    /\ dud = <<0, 0>> /\ missed = {} /\ failures = 0 /\ budget = MaxFailures

PeeringNext ==
    \/ \E s \in Side : Joined(s) \/ Unclaimed(s) \/ GotLeft(s) \/ GotPong(s)
                       \/ Timeout(s) \/ Loses(s)
    \/ GotOffer \/ GotAnswer \/ Connects \/ Breaks \/ Tick

PeeringSpec == PeeringInit /\ [][PeeringNext]_vars

\* Both games call NutBlast_Update every frame, the server relays or loses, ICE
\* decides, and time goes on.
FairPeeringSpec ==
    /\ PeeringSpec
    /\ \A s \in Side : /\ WF_vars(Joined(s)) /\ WF_vars(Unclaimed(s)) /\ WF_vars(Timeout(s))
                       /\ WF_vars(GotLeft(s)) /\ WF_vars(GotPong(s))
    /\ WF_vars(GotOffer) /\ WF_vars(GotAnswer) /\ WF_vars(Connects) /\ WF_vars(Tick)

-----------------------------------------------------------------------------
(* Properties *)

\* Where an offer and its answer take less than sdp_timeout together, nobody leaves
\* unless the other was never told of it (a lost Joined is not repeated), or every
\* attempt of this negotiation has met a failure of the network: the two clocks,
\* which start apart and go on apart, and the attempts of earlier negotiations never
\* use up an attempt by themselves.
LeavingHasReasons ==
    2 * delay < sdp_timeout /\ gone # {} =>
        missed # {} \/ failures > MAX_RENEGOTIATION_ATTEMPTS

\* However the network fails, two players who were told of each other end up
\* connected, or one of them leaves.
PairSettles == []<>(Linked \/ gone # {} \/ missed # {})

\* NutBlast_IsReady and NutBlast_IsConnectedToPlayer: ready means connected.
ReadyMeansConnected == \A s \in Side : is_ready(s) => Linked
=============================================================================
