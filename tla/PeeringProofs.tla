--------------------------- MODULE PeeringProofs ----------------------------
(* What holds of two negotiating players for every timeout and delay. *)
EXTENDS Peering, SequenceTheorems, TLAPS

USE DEF fate

-----------------------------------------------------------------------------
(* Types *)

PlayerType ==
    [known : BOOLEAN, pc : Nat, remote : Nat, dcs : Nat, timer : 0..sdp_timeout,
     attempts : 0..(MAX_RENEGOTIATION_ATTEMPTS + 1), made : Nat]

MessageType == [type : {"Joined", "Offer", "Answer", "Left"}, pc : Nat, age : Nat]

Typed ==
    /\ player \in [Side -> PlayerType] /\ net \in [Side -> Seq(MessageType)]
    /\ gone \subseteq Side /\ newest \subseteq Side /\ missed \subseteq Side
    /\ delay \in Nat /\ dud \in Nat \X Nat /\ failures \in Nat /\ budget \in Nat

LEMMA Bounds == sdp_timeout \in Nat /\ MAX_RENEGOTIATION_ATTEMPTS \in Nat
    BY PeeringAssumption

LEMMA Others == Other("offerer") = "answerer" /\ Other("answerer") = "offerer"
    BY DEF Other, Side

LEMMA NoPlayerTyped == NoPlayer \in PlayerType
    BY PeeringAssumption DEF NoPlayer, PlayerType

LEMMA FieldTyped ==
    ASSUME NEW p \in PlayerType, NEW n \in Nat
    PROVE  /\ [p EXCEPT !.pc = n] \in PlayerType /\ [p EXCEPT !.remote = n] \in PlayerType
           /\ [p EXCEPT !.dcs = n] \in PlayerType /\ [p EXCEPT !.made = n] \in PlayerType
           /\ [p EXCEPT !.timer = sdp_timeout] \in PlayerType
           /\ [p EXCEPT !.known = TRUE] \in PlayerType
           /\ [p EXCEPT !.attempts = 0] \in PlayerType
<1>1. [p EXCEPT !.pc = n] \in PlayerType /\ [p EXCEPT !.remote = n] \in PlayerType
    BY DEF PlayerType
<1>2. [p EXCEPT !.dcs = n] \in PlayerType /\ [p EXCEPT !.made = n] \in PlayerType
    BY DEF PlayerType
<1>3. [p EXCEPT !.timer = sdp_timeout] \in PlayerType
    BY Bounds DEF PlayerType
<1>4. [p EXCEPT !.known = TRUE] \in PlayerType
    BY DEF PlayerType
<1>5. [p EXCEPT !.attempts = 0] \in PlayerType
    BY Bounds DEF PlayerType
<1> QED
    BY <1>1, <1>2, <1>3, <1>4, <1>5

LEMMA Renegotiated ==
    ASSUME NEW s \in Side, NEW p \in PlayerType
    PROVE  LET q == renegotiate(s, p)
           IN  /\ q \in PlayerType /\ q.known = p.known /\ q.attempts = p.attempts
               /\ q.timer = sdp_timeout /\ q.made = p.made + 1 /\ q.pc = p.made + 1
               /\ q.remote = 0
<1>1. PICK n \in Nat, d \in Nat :
          n = p.made + 1 /\ d = IF s = "offerer" THEN p.made + 1 ELSE p.dcs
    BY DEF PlayerType
<1>2. renegotiate(s, p) =
          [[[[[p EXCEPT !.timer = sdp_timeout] EXCEPT !.made = n] EXCEPT !.pc = n]
              EXCEPT !.remote = 0] EXCEPT !.dcs = d]
    BY <1>1 DEF renegotiate, PlayerType
<1>3. PICK p1 \in PlayerType : p1 = [p EXCEPT !.timer = sdp_timeout]
    BY FieldTyped
<1>4. PICK p2 \in PlayerType : p2 = [p1 EXCEPT !.made = n]
    BY FieldTyped
<1>5. PICK p3 \in PlayerType : p3 = [p2 EXCEPT !.pc = n]
    BY FieldTyped
<1>6. PICK p4 \in PlayerType : p4 = [p3 EXCEPT !.remote = 0]
    BY FieldTyped
<1>7. PICK p5 \in PlayerType : p5 = [p4 EXCEPT !.dcs = d]
    BY FieldTyped
<1>8. renegotiate(s, p) = p5
    BY <1>2, <1>3, <1>4, <1>5, <1>6, <1>7
<1> QED
    BY <1>1, <1>3, <1>4, <1>5, <1>6, <1>7, <1>8 DEF PlayerType

LEMMA ResetTyped ==
    ASSUME NEW p \in PlayerType
    PROVE  /\ reset(p) \in PlayerType /\ reset(p).known = p.known
           /\ reset(p).attempts = p.attempts /\ reset(p).timer = sdp_timeout
<1>1. reset(p) = [[[[p EXCEPT !.timer = sdp_timeout] EXCEPT !.pc = 0] EXCEPT !.remote = 0]
                     EXCEPT !.dcs = 0]
    BY DEF reset, PlayerType
<1>2. PICK p1 \in PlayerType : p1 = [p EXCEPT !.timer = sdp_timeout]
    BY FieldTyped
<1>3. PICK p2 \in PlayerType : p2 = [p1 EXCEPT !.pc = 0]
    BY FieldTyped
<1>4. PICK p3 \in PlayerType : p3 = [p2 EXCEPT !.remote = 0]
    BY FieldTyped
<1>5. PICK p4 \in PlayerType : p4 = [p3 EXCEPT !.dcs = 0]
    BY FieldTyped
<1>6. reset(p) = p4
    BY <1>1, <1>2, <1>3, <1>4, <1>5
<1> QED
    BY <1>2, <1>3, <1>4, <1>5, <1>6 DEF PlayerType

LEMMA RelayTyped ==
    ASSUME NEW n \in [Side -> Seq(MessageType)], NEW s \in Side, NEW m \in MessageType
    PROVE  /\ Relay(n, s, m) \in [Side -> Seq(MessageType)]
           /\ \A t \in Side : t # s => Relay(n, s, m)[t] = n[t]
           /\ s \notin gone => Relay(n, s, m)[s] = Append(n[s], m)
           /\ s \in gone => Relay(n, s, m) = n
    BY DEF Relay

LEMMA SentTyped ==
    ASSUME NEW p \in PlayerType
    PROVE  /\ Offer(p) \in MessageType /\ Answer(p) \in MessageType /\ Left \in MessageType
           /\ Offer(p) = [type |-> "Offer", pc |-> p.pc, age |-> 0]
           /\ Answer(p) = [type |-> "Answer", pc |-> p.pc, age |-> 0]
    BY DEF Offer, Answer, Left, PlayerType, MessageType

LEMMA TakenTyped ==
    ASSUME Typed, NEW s \in Side, net[s] # << >>
    PROVE  /\ Taken(s) \in [Side -> Seq(MessageType)] /\ Head(net[s]) \in MessageType
           /\ Taken(s)[s] = Tail(net[s])
           /\ \A t \in Side : t # s => Taken(s)[t] = net[t]
<1>1. net[s] \in Seq(MessageType) /\ Tail(net[s]) \in Seq(MessageType)
    BY DEF Typed
<1>2. Head(net[s]) \in MessageType
    BY <1>1
<1> QED
    BY <1>1, <1>2 DEF Typed, Taken

-----------------------------------------------------------------------------
(* What a step does to a player and to the messages, in terms of their fields *)

\* A negotiation that starts at p, with the attempts of q.
Fresh(p, q) ==
    /\ p \in PlayerType /\ p.known = TRUE /\ p.attempts = q.attempts
    /\ p.timer = sdp_timeout /\ p.made = q.made + 1 /\ p.pc = q.made + 1

LEMMA JoinedFacts ==
    ASSUME Typed, NEW s \in Side, Joined(s)
    PROVE  \E p \in PlayerType :
              /\ Fresh(p, player[s]) /\ p.remote = 0
              /\ player' = [player EXCEPT ![s] = p]
              /\ net' = IF s = "offerer" THEN Relay(Taken(s), Other(s), Offer(p)) ELSE Taken(s)
<1>1. PICK q \in PlayerType : q = [player[s] EXCEPT !.known = TRUE]
    BY FieldTyped DEF Typed
<1>2. q.known = TRUE /\ q.attempts = player[s].attempts /\ q.made = player[s].made
    BY <1>1 DEF Typed, PlayerType
<1>3. PICK p : p = renegotiate(s, q)
    OBVIOUS
<1>4. Fresh(p, player[s]) /\ p.remote = 0
    BY <1>2, <1>3, Renegotiated DEF Fresh
<1>5. /\ player' = [player EXCEPT ![s] = p]
      /\ net' = IF s = "offerer" THEN Relay(Taken(s), Other(s), Offer(p)) ELSE Taken(s)
    BY <1>1, <1>3 DEF Joined
<1> QED
    BY <1>4, <1>5 DEF Fresh

LEMMA GotOfferFacts ==
    ASSUME Typed, GotOffer
    PROVE  \E p \in PlayerType :
              /\ Fresh(p, player["answerer"]) /\ p.remote = Head(net["answerer"]).pc
              /\ player' = [player EXCEPT !["answerer"] = p]
              /\ net' = Relay(Taken("answerer"), "offerer", Answer(p))
<1> USE DEF Side
<1>1. PICK q : q = renegotiate("answerer", player["answerer"])
    OBVIOUS
<1>2. q \in PlayerType /\ Fresh(q, player["answerer"])
    BY <1>1, Renegotiated DEF Typed, Fresh, GotOffer
<1>3. PICK n \in Nat : n = Head(net["answerer"]).pc
    BY TakenTyped DEF GotOffer, Got, MessageType
<1>4. PICK p \in PlayerType : p = [q EXCEPT !.remote = n]
    BY <1>2, FieldTyped
<1>5. Fresh(p, player["answerer"]) /\ p.remote = n
    BY <1>2, <1>4 DEF Fresh, PlayerType
<1>6. /\ player' = [player EXCEPT !["answerer"] = p]
      /\ net' = Relay(Taken("answerer"), "offerer", Answer(p))
    BY <1>1, <1>3, <1>4 DEF GotOffer
<1> QED
    BY <1>3, <1>5, <1>6

LEMMA GotAnswerFacts ==
    ASSUME Typed, GotAnswer
    PROVE  \E p \in PlayerType :
              /\ p.known = player["offerer"].known /\ p.pc = player["offerer"].pc
              /\ p.timer = player["offerer"].timer /\ p.made = player["offerer"].made
              /\ p.attempts = player["offerer"].attempts
              /\ p.remote = IF player["offerer"].remote # 0 THEN player["offerer"].remote
                            ELSE Head(net["offerer"]).pc
              /\ player' = [player EXCEPT !["offerer"] = p]
<1> USE DEF Side
<1>1. PICK n \in Nat : n = Head(net["offerer"]).pc
    BY TakenTyped DEF GotAnswer, Got, MessageType
<1>2. player["offerer"] \in PlayerType
    BY DEF Typed
<1>3. CASE player["offerer"].remote # 0
    BY <1>2, <1>3 DEF GotAnswer, Typed
<1>4. CASE player["offerer"].remote = 0
    <2>1. PICK p \in PlayerType : p = [player["offerer"] EXCEPT !.remote = n]
        BY <1>2, FieldTyped
    <2>2. player' = [player EXCEPT !["offerer"] = p]
        BY <1>1, <1>4, <2>1 DEF GotAnswer, Typed
    <2>3. /\ p.known = player["offerer"].known /\ p.pc = player["offerer"].pc
          /\ p.timer = player["offerer"].timer /\ p.made = player["offerer"].made
          /\ p.attempts = player["offerer"].attempts /\ p.remote = n
        BY <1>2, <2>1 DEF PlayerType
    <2> QED
        BY <1>1, <1>4, <2>2, <2>3
<1> QED
    BY <1>3, <1>4

\* The ways a clock runs out: s leaves, stays as it is, or tries once more.
Leaves(s) ==
    /\ player[s].attempts >= MAX_RENEGOTIATION_ATTEMPTS
    /\ gone' = gone \cup {s} /\ player' = [player EXCEPT ![s] = NoPlayer]
    /\ net' = [Relay(net, Other(s), Left) EXCEPT ![s] = << >>]

Stops(s, p) ==
    /\ player[s].attempts >= MAX_RENEGOTIATION_ATTEMPTS
    /\ p \in PlayerType /\ p.known = player[s].known /\ p.pc = player[s].pc
    /\ p.remote = player[s].remote /\ p.timer = player[s].timer /\ p.made = player[s].made
    /\ p.attempts = player[s].attempts + 1
    /\ gone' = gone /\ net' = net /\ player' = [player EXCEPT ![s] = p]

Retries(s, p) ==
    /\ player[s].attempts < MAX_RENEGOTIATION_ATTEMPTS
    /\ p \in PlayerType /\ p.known = player[s].known /\ p.timer = sdp_timeout
    /\ p.attempts = player[s].attempts + 1
    /\ gone' = gone /\ player' = [player EXCEPT ![s] = p]
    /\ s = "offerer" => /\ p.made = player[s].made + 1 /\ p.pc = player[s].made + 1
                        /\ p.remote = 0 /\ net' = Relay(net, Other(s), Offer(p))
    /\ s # "offerer" => net' = net

LEMMA TimeoutFacts ==
    ASSUME Typed, NEW s \in Side, Timeout(s)
    PROVE  Leaves(s) \/ \E p \in PlayerType : Stops(s, p) \/ Retries(s, p)
<1>1. player[s] \in PlayerType /\ player[s].attempts =< MAX_RENEGOTIATION_ATTEMPTS
    BY DEF Typed, Timeout
<1>2. player[s].attempts \in Nat /\ player[s].attempts + 1 \in 0..(MAX_RENEGOTIATION_ATTEMPTS + 1)
    BY <1>1, Bounds DEF PlayerType
<1>3. PICK n \in 0..(MAX_RENEGOTIATION_ATTEMPTS + 1) : n = player[s].attempts + 1
    BY <1>2
<1>4. PICK p : p = [player[s] EXCEPT !.attempts = n]
    OBVIOUS
<1>5. p \in PlayerType
    BY <1>1, <1>4 DEF PlayerType
<1>6. /\ p.known = player[s].known /\ p.pc = player[s].pc
      /\ p.remote = player[s].remote /\ p.timer = player[s].timer /\ p.made = player[s].made
      /\ p.attempts = n
    BY <1>1, <1>4 DEF PlayerType
<1>7. p = [player[s] EXCEPT !.attempts = @ + 1]
    BY <1>3, <1>4
<1>8. PICK q : q = renegotiate(s, p)
    OBVIOUS
<1>9. /\ q \in PlayerType /\ q.known = player[s].known /\ q.attempts = n
      /\ q.timer = sdp_timeout /\ q.made = player[s].made + 1 /\ q.pc = player[s].made + 1
      /\ q.remote = 0
    BY <1>5, <1>6, <1>8, Renegotiated
<1>10. /\ reset(p) \in PlayerType /\ reset(p).known = player[s].known
       /\ reset(p).attempts = n /\ reset(p).timer = sdp_timeout
    BY <1>5, <1>6, ResetTyped
<1>11. IF GivesUp(s)
       THEN /\ gone' = gone \cup {s}
            /\ net' = [Relay(net, Other(s), Left) EXCEPT ![s] = << >>]
            /\ player' = [player EXCEPT ![s] = NoPlayer]
       ELSE /\ UNCHANGED gone
            /\ \/ /\ p.attempts > MAX_RENEGOTIATION_ATTEMPTS
                  /\ player' = [player EXCEPT ![s] = p] /\ UNCHANGED net
               \/ /\ p.attempts =< MAX_RENEGOTIATION_ATTEMPTS
                  /\ player' = [player EXCEPT ![s] = IF s = "offerer" THEN q ELSE reset(p)]
                  /\ net' = IF s = "offerer" THEN Relay(net, Other(s), Offer(q)) ELSE net
    BY <1>7, <1>8 DEF Timeout
<1>12. CASE GivesUp(s)
    BY <1>11, <1>12 DEF GivesUp, Leaves
<1>13. CASE ~GivesUp(s) /\ p.attempts > MAX_RENEGOTIATION_ATTEMPTS
    <2>1. player[s].attempts >= MAX_RENEGOTIATION_ATTEMPTS
        BY <1>2, <1>3, <1>6, <1>13, Bounds
    <2>2. ~(p.attempts =< MAX_RENEGOTIATION_ATTEMPTS)
        BY <1>3, <1>6, <1>13, Bounds
    <2>3. player' = [player EXCEPT ![s] = p] /\ UNCHANGED <<gone, net>>
        BY <1>11, <1>13, <2>2
    <2> QED
        BY <1>3, <1>5, <1>6, <2>1, <2>3 DEF Stops
<1>14. CASE ~GivesUp(s) /\ ~(p.attempts > MAX_RENEGOTIATION_ATTEMPTS)
    <2>1. player[s].attempts < MAX_RENEGOTIATION_ATTEMPTS
        BY <1>2, <1>3, <1>6, <1>14, Bounds
    <2>2. /\ UNCHANGED gone
          /\ player' = [player EXCEPT ![s] = IF s = "offerer" THEN q ELSE reset(p)]
          /\ net' = IF s = "offerer" THEN Relay(net, Other(s), Offer(q)) ELSE net
        BY <1>11, <1>14
    <2>3. CASE s = "offerer"
        BY <1>3, <1>9, <2>1, <2>2, <2>3 DEF Retries
    <2>4. CASE s # "offerer"
        BY <1>3, <1>10, <2>1, <2>2, <2>4 DEF Retries
    <2> QED
        BY <2>3, <2>4
<1> QED
    BY <1>12, <1>13, <1>14

\* Messages that have grown older by a tick.
Older(q) == [i \in DOMAIN q |-> [q[i] EXCEPT !.age = @ + 1]]

\* What is left of a clock after a tick.
Left1(n) == IF n = 0 THEN 0 ELSE n - 1

LEMMA TickFacts ==
    ASSUME Typed, Tick, NEW s \in Side
    PROVE  /\ player'[s] \in PlayerType /\ net'[s] = Older(net[s])
           /\ player'[s].known = player[s].known /\ player'[s].pc = player[s].pc
           /\ player'[s].remote = player[s].remote /\ player'[s].made = player[s].made
           /\ ~Linked => /\ player'[s].timer = Left1(player[s].timer)
                         /\ player'[s].attempts = player[s].attempts
           /\ Linked => player'[s].timer = sdp_timeout /\ player'[s].attempts = 0
<1>1. player[s] \in PlayerType
    BY DEF Typed
<1>2. net'[s] = Older(net[s])
    BY DEF Tick, Older
<1>3. CASE Linked
    <2>1. player'[s] = Pong(player[s])
        BY <1>3 DEF Tick
    <2>2. PICK p1 \in PlayerType : p1 = [player[s] EXCEPT !.timer = sdp_timeout]
        BY <1>1, FieldTyped
    <2>3. PICK p2 \in PlayerType : p2 = [p1 EXCEPT !.attempts = 0]
        BY FieldTyped
    <2>4. player'[s] = p2
        BY <1>1, <2>1, <2>2, <2>3 DEF Pong, PlayerType
    <2> QED
        BY <1>1, <1>2, <1>3, <2>2, <2>3, <2>4 DEF PlayerType
<1>4. CASE ~Linked
    <2>1. player[s].timer \in 0..sdp_timeout
        BY <1>1 DEF PlayerType
    <2>2. Left1(player[s].timer) \in 0..sdp_timeout
        BY <2>1, Bounds DEF Left1
    <2>3. player'[s] = [player[s] EXCEPT !.timer = Left1(player[s].timer)]
        BY <1>1, <1>4 DEF Tick, Left1
    <2>4. player'[s] \in PlayerType
        BY <1>1, <2>2, <2>3 DEF PlayerType
    <2> QED
        BY <1>1, <1>2, <1>4, <2>3, <2>4 DEF PlayerType
<1> QED
    BY <1>3, <1>4

LEMMA OlderTyped ==
    ASSUME NEW q \in Seq(MessageType)
    PROVE  Older(q) \in Seq(MessageType)
<1>1. PICK n \in Nat : DOMAIN q = 1..n
    BY LenProperties
<1>2. \A i \in 1..n : [q[i] EXCEPT !.age = @ + 1] \in MessageType
    <2> SUFFICES ASSUME NEW i \in 1..n
                 PROVE  [q[i] EXCEPT !.age = @ + 1] \in MessageType
        OBVIOUS
    <2>1. q[i] \in MessageType
        BY <1>1, ElementOfSeq, LenProperties
    <2>2. PICK a \in Nat : a = q[i].age + 1
        BY <2>1 DEF MessageType
    <2> QED
        BY <2>1, <2>2 DEF MessageType
<1>3. Older(q) \in [1..n -> MessageType]
    BY <1>1, <1>2 DEF Older
<1> QED
    BY <1>3, SeqDef

\* The types hold throughout.
LEMMA NextTyped ==
    ASSUME Typed, [PeeringNext]_vars
    PROVE  Typed'
<1>1. ASSUME NEW s \in Side, Joined(s)
      PROVE  Typed'
    <2>1. PICK p \in PlayerType :
              /\ player' = [player EXCEPT ![s] = p]
              /\ net' = IF s = "offerer" THEN Relay(Taken(s), Other(s), Offer(p)) ELSE Taken(s)
        BY <1>1, JoinedFacts
    <2>2. Taken(s) \in [Side -> Seq(MessageType)] /\ Other(s) \in Side
        BY <1>1, TakenTyped, Others DEF Joined, Got, Side
    <2>3. net' \in [Side -> Seq(MessageType)]
        BY <2>1, <2>2, RelayTyped, SentTyped
    <2> QED
        BY <1>1, <2>1, <2>3 DEF Typed, Joined
<1>2. ASSUME GotOffer
      PROVE  Typed'
    <2> USE DEF Side
    <2>1. PICK p \in PlayerType :
              /\ player' = [player EXCEPT !["answerer"] = p]
              /\ net' = Relay(Taken("answerer"), "offerer", Answer(p))
        BY <1>2, GotOfferFacts
    <2>2. Taken("answerer") \in [Side -> Seq(MessageType)]
        BY <1>2, TakenTyped DEF GotOffer, Got
    <2>3. net' \in [Side -> Seq(MessageType)]
        BY <2>1, <2>2, RelayTyped, SentTyped
    <2>4. player' \in [Side -> PlayerType]
        BY <2>1 DEF Typed
    <2>5. UNCHANGED <<gone, fate>>
        BY <1>2 DEF GotOffer
    <2> QED
        BY <2>3, <2>4, <2>5 DEF Typed
<1>3. ASSUME GotAnswer
      PROVE  Typed'
    <2> USE DEF Side
    <2>1. PICK p \in PlayerType : player' = [player EXCEPT !["offerer"] = p]
        BY <1>3, GotAnswerFacts
    <2>2. net' \in [Side -> Seq(MessageType)]
        BY <1>3, TakenTyped DEF GotAnswer, Got
    <2>3. player' \in [Side -> PlayerType]
        BY <2>1 DEF Typed
    <2>4. UNCHANGED <<gone, fate>>
        BY <1>3 DEF GotAnswer
    <2> QED
        BY <2>2, <2>3, <2>4 DEF Typed
<1>4. ASSUME NEW s \in Side, GotLeft(s) \/ GotPong(s)
      PROVE  Typed'
    <2>1. Forgets(s)
        BY <1>4 DEF GotLeft, GotPong
    <2>2. player' \in [Side -> PlayerType]
        BY <2>1, NoPlayerTyped DEF Typed, Forgets
    <2>3. net' \in [Side -> Seq(MessageType)] /\ UNCHANGED <<gone, fate>>
        BY <2>1 DEF Typed, Forgets
    <2> QED
        BY <2>2, <2>3 DEF Typed
<1>5. ASSUME NEW s \in Side, Timeout(s)
      PROVE  Typed'
    <2>1. Other(s) \in Side /\ Left \in MessageType
        BY Others DEF Side, Left, MessageType
    <2>2. CASE Leaves(s)
        <3>1. PICK n : n = Relay(net, Other(s), Left)
            OBVIOUS
        <3>2. n \in [Side -> Seq(MessageType)]
            BY <2>1, <3>1, RelayTyped DEF Typed
        <3>3. net' \in [Side -> Seq(MessageType)]
            BY <2>2, <3>1, <3>2 DEF Leaves
        <3> QED
            BY <1>5, <2>2, <3>3, NoPlayerTyped DEF Typed, Leaves, Timeout
    <2>3. CASE \E p \in PlayerType : Stops(s, p)
        BY <1>5, <2>3 DEF Typed, Stops, Timeout
    <2>4. CASE \E p \in PlayerType : Retries(s, p)
        <3>1. PICK p \in PlayerType : Retries(s, p)
            BY <2>4
        <3>2. net' = net \/ net' = Relay(net, Other(s), Offer(p))
            BY <3>1 DEF Retries
        <3>3. net \in [Side -> Seq(MessageType)] /\ Offer(p) \in MessageType
            BY <3>1, SentTyped DEF Typed
        <3>4. net' \in [Side -> Seq(MessageType)]
            BY <2>1, <3>2, <3>3, RelayTyped
        <3> QED
            BY <1>5, <3>1, <3>4 DEF Typed, Retries, Timeout
    <2> QED
        BY <1>5, <2>2, <2>3, <2>4, TimeoutFacts
<1>6. ASSUME Connects
      PROVE  Typed'
    <2> USE DEF Side
    <2>1. player["answerer"] \in PlayerType /\ player["answerer"].pc \in Nat
        BY DEF Typed, PlayerType
    <2>2. PICK p \in PlayerType : p = [player["answerer"] EXCEPT !.dcs = player["answerer"].pc]
        BY <2>1, FieldTyped
    <2>3. player' = [player EXCEPT !["answerer"] = p]
        BY <1>6, <2>2 DEF Connects, Typed
    <2> QED
        BY <1>6, <2>3 DEF Typed, Connects
<1>7. ASSUME Breaks
      PROVE  Typed'
    <2>1. Pair \in Nat \X Nat
        BY DEF Pair, Typed, PlayerType, Side
    <2> QED
        BY <1>7, <2>1 DEF Typed, Breaks, Fail
<1>8. ASSUME NEW s \in Side, Loses(s)
      PROVE  Typed'
    BY <1>8, TakenTyped DEF Typed, Loses, Fail
<1>9. ASSUME Tick
      PROVE  Typed'
    <2>1. \A s \in Side : player'[s] \in PlayerType /\ net'[s] \in Seq(MessageType)
        BY <1>9, TickFacts, OlderTyped DEF Typed
    <2>2. player' \in [Side -> PlayerType]
        BY <1>9, <2>1 DEF Tick
    <2>3. net' \in [Side -> Seq(MessageType)]
        BY <1>9, <2>1 DEF Tick
    <2> QED
        BY <1>9, <2>2, <2>3 DEF Typed, Tick
<1>10. ASSUME NEW s \in Side, Unclaimed(s)
      PROVE  Typed'
    BY <1>10, TakenTyped DEF Typed, Unclaimed, Got
<1>11. CASE UNCHANGED vars
    BY <1>11 DEF vars, Typed
<1> QED
    BY <1>1, <1>2, <1>3, <1>4, <1>5, <1>6, <1>7, <1>8, <1>9, <1>10, <1>11 DEF PeeringNext

-----------------------------------------------------------------------------
(* Why a player leaves *)

\* How long ago the current attempt of the side that holds p began.
Since(p) == sdp_timeout - p.timer

Message(type, pc, age) == [type |-> type, pc |-> pc, age |-> age]

\* In what follows o and a are the players that the offerer and the answerer hold, no
\* and na the messages on their way to them, x a failed pair of peer connections, f
\* the failures, d the longest delay.

Stranger(p) == ~p.known /\ p.attempts = 0

\* The two have been told of each other g ticks ago, and not both know it.
NoneKnows(g, o, a, no, na) ==
    /\ Stranger(o) /\ no = <<Message("Joined", 0, g)>>
    /\ Stranger(a) /\ na = <<Message("Joined", 0, g)>>

AnswererKnows(g, o, a, no, na) ==
    /\ Stranger(o) /\ no = <<Message("Joined", 0, g)>>
    /\ a.known /\ a.attempts = 0 /\ Since(a) =< g /\ na = << >>

OffererKnows(g, o, a, no, na) ==
    /\ o.known /\ o.attempts = 0 /\ Since(o) =< g /\ o.remote = 0 /\ o.pc = o.made /\ o.pc > 0
    /\ no = << >> /\ Stranger(a)
    /\ na = <<Message("Joined", 0, g), Message("Offer", o.pc, Since(o))>>

\* The offer of the current attempt is under way.
Offered(o, a, no, na, d) ==
    /\ na = <<Message("Offer", o.pc, Since(o))>> /\ no = << >>
    /\ o.remote = 0 /\ Since(o) =< d

\* Its answer is under way; the answerer's clock started with it.
Answered(o, a, no, na, d) ==
    /\ no = <<Message("Answer", a.pc, Since(a))>> /\ na = << >>
    /\ o.remote = 0 /\ a.pc > 0 /\ a.remote = o.pc
    /\ Since(a) =< d /\ Since(a) =< Since(o) /\ Since(o) =< Since(a) + d

\* The answer has arrived in time, and the network has not failed since.
Works(o, a, x, d) ==
    /\ a.pc # 0 /\ a.remote = o.pc /\ o.remote = a.pc /\ x # <<o.pc, a.pc>>
    /\ Since(a) =< Since(o) /\ Since(o) =< 2 * d

\* Nothing is under way: the attempt works, or it has met a failure of its own.
Quiet(o, a, no, na, x, f, d) ==
    /\ no = << >> /\ na = << >>
    /\ Works(o, a, x, d) \/ (o.attempts =< MAX_RENEGOTIATION_ATTEMPTS => f > o.attempts)

\* The answerer is behind the offerer in attempts; or in the same one, begun at most
\* a delay earlier; or in the next, because this one failed, and a delay ahead.
Skew(o, a, f, d) ==
    \/ a.attempts < o.attempts
    \/ a.attempts = o.attempts /\ Since(a) =< Since(o) + d
    \/ /\ a.attempts = o.attempts + 1 /\ f > o.attempts
       /\ a.attempts =< MAX_RENEGOTIATION_ATTEMPTS => Since(a) + sdp_timeout =< Since(o) + d

\* The offerer's peer connections: never 0, and none unanswered is a failed one.
Numbers(o, a, x) ==
    /\ o.known /\ a.known /\ o.pc = o.made /\ o.pc > 0
    /\ x[1] =< o.made /\ (o.remote = 0 => x[1] < o.made)

Met(o, a, no, na, x, f, d) ==
    /\ Numbers(o, a, x) /\ Skew(o, a, f, d) /\ f >= o.attempts
    /\ o.attempts > MAX_RENEGOTIATION_ATTEMPTS => o.timer = 0
    /\ Offered(o, a, no, na, d) \/ Answered(o, a, no, na, d) \/ Quiet(o, a, no, na, x, f, d)

Meeting(o, a, no, na, x, d) ==
    /\ x[1] = 0
    /\ \E g \in 0..d : \/ NoneKnows(g, o, a, no, na)
                       \/ AnswererKnows(g, o, a, no, na)
                       \/ OffererKnows(g, o, a, no, na)

NowMet ==
    Met(player["offerer"], player["answerer"], net["offerer"], net["answerer"],
        dud, failures, delay)

NowMeeting ==
    Meeting(player["offerer"], player["answerer"], net["offerer"], net["answerer"], dud, delay)

Decided ==
    /\ gone # {} /\ failures > MAX_RENEGOTIATION_ATTEMPTS
    /\ \A s \in gone : ~player[s].known

\* Each attempt of either side has met a failure, or its messages are still in time.
Reasons ==
    2 * delay < sdp_timeout /\ missed = {} => (gone = {} /\ (NowMeeting \/ NowMet)) \/ Decided

-----------------------------------------------------------------------------
(* Sequences of at most two messages *)

LEMMA Short ==
    ASSUME NEW m
    PROVE  /\ <<m>> # << >> /\ Head(<<m>>) = m /\ Tail(<<m>>) = << >> /\ Append(<< >>, m) = <<m>>
           /\ \A k : /\ Append(<<k>>, m) = <<k, m>> /\ <<k, m>> # << >>
                     /\ Head(<<k, m>>) = k /\ Tail(<<k, m>>) = <<m>>
<1>1. <<m>> # << >> /\ Head(<<m>>) = m
    OBVIOUS
<1>2. Tail(<<m>>) = << >>
    OBVIOUS
<1>3. Append(<< >>, m) = <<m>>
    OBVIOUS
<1>4. ASSUME NEW k
      PROVE  Append(<<k>>, m) = <<k, m>>
    <2>1. /\ <<k>> \in Seq({k, m}) /\ <<k, m>> \in Seq({k, m})
          /\ Len(<<k>>) = 1 /\ Len(<<k, m>>) = 2
        OBVIOUS
    <2>2. /\ Append(<<k>>, m) \in Seq({k, m}) /\ Len(Append(<<k>>, m)) = 2
          /\ Append(<<k>>, m)[1] = k /\ Append(<<k>>, m)[2] = m
        BY <2>1, AppendProperties
    <2>3. PICK a, b : a = Append(<<k>>, m) /\ b = <<k, m>>
        OBVIOUS
    <2>4. /\ a \in Seq({k, m}) /\ b \in Seq({k, m}) /\ Len(a) = 2 /\ Len(b) = 2
          /\ a[1] = k /\ a[2] = m /\ b[1] = k /\ b[2] = m
        BY <2>1, <2>2, <2>3
    <2>5. Len(a) = Len(b) /\ \A i \in 1..Len(a) : a[i] = b[i]
        BY <2>4
    <2>6. a = b
        BY <2>4, <2>5, SeqEqual
    <2> QED
        BY <2>3, <2>6
<1>5. ASSUME NEW k
      PROVE  <<k, m>> # << >> /\ Head(<<k, m>>) = k
    OBVIOUS
<1>6. ASSUME NEW k
      PROVE  Tail(<<k, m>>) = <<m>>
    OBVIOUS
<1> QED
    BY <1>1, <1>2, <1>3, <1>4, <1>5, <1>6

LEMMA MessageFields ==
    ASSUME NEW type, NEW pc, NEW age
    PROVE  /\ Message(type, pc, age).type = type /\ Message(type, pc, age).pc = pc
           /\ Message(type, pc, age).age = age
           /\ [Message(type, pc, age) EXCEPT !.age = @ + 1] = Message(type, pc, age + 1)
    BY DEF Message

LEMMA OlderShort ==
    /\ Older(<< >>) = << >>
    /\ \A type, pc, age : Older(<<Message(type, pc, age)>>) = <<Message(type, pc, age + 1)>>
    /\ \A t1, p1, a1, t2, p2, a2 :
          Older(<<Message(t1, p1, a1), Message(t2, p2, a2)>>)
              = <<Message(t1, p1, a1 + 1), Message(t2, p2, a2 + 1)>>
<1>1. Older(<< >>) = << >>
    BY DEF Older
<1>2. ASSUME NEW type, NEW pc, NEW age
      PROVE  Older(<<Message(type, pc, age)>>) = <<Message(type, pc, age + 1)>>
    BY MessageFields DEF Older
<1>3. ASSUME NEW t1, NEW p1, NEW a1, NEW t2, NEW p2, NEW a2
      PROVE  Older(<<Message(t1, p1, a1), Message(t2, p2, a2)>>)
                 = <<Message(t1, p1, a1 + 1), Message(t2, p2, a2 + 1)>>
    BY MessageFields DEF Older
<1> QED
    BY <1>1, <1>2, <1>3

-----------------------------------------------------------------------------
(* The steps of two players who know each other, on plain values *)

LEMMA PlayerFields ==
    ASSUME NEW p \in PlayerType
    PROVE  /\ p.known \in BOOLEAN /\ p.pc \in Nat /\ p.remote \in Nat /\ p.made \in Nat
           /\ p.timer \in Nat /\ p.timer =< sdp_timeout
           /\ p.attempts \in Nat /\ p.attempts =< MAX_RENEGOTIATION_ATTEMPTS + 1
           /\ Since(p) \in Nat /\ Since(p) =< sdp_timeout
    BY Bounds DEF PlayerType, Since

\* Only the current offer or its answer is under way, and never both.
LEMMA MetHeads ==
    ASSUME NEW o, NEW a, NEW no, NEW na, NEW x, NEW f, NEW d, Met(o, a, no, na, x, f, d)
    PROVE  /\ na # << >> => Offered(o, a, no, na, d) /\ Head(na) = Message("Offer", o.pc, Since(o))
           /\ no # << >> => Answered(o, a, no, na, d) /\ Head(no) = Message("Answer", a.pc, Since(a))
    BY Short DEF Met, Offered, Answered, Quiet

\* The offer arrives, and q is what the answerer makes of a.
LEMMA MetGotOffer ==
    ASSUME NEW o \in PlayerType, NEW a \in PlayerType, NEW no, NEW na, NEW x \in Nat \X Nat,
           NEW f \in Nat, NEW d \in Nat, 2 * d < sdp_timeout,
           Met(o, a, no, na, x, f, d), Offered(o, a, no, na, d),
           NEW q \in PlayerType, Fresh(q, a), q.remote = o.pc
    PROVE  Met(o, q, <<Message("Answer", q.pc, 0)>>, << >>, x, f, d)
<1>1. Since(q) = 0 /\ q.attempts = a.attempts /\ q.known /\ q.pc > 0
    BY PlayerFields, Bounds DEF Fresh, Since
<1>2. Answered(o, q, <<Message("Answer", q.pc, 0)>>, << >>, d)
    BY <1>1, PlayerFields DEF Answered, Offered
<1>3. Skew(o, q, f, d)
    BY <1>1, PlayerFields, Bounds DEF Skew, Met, Offered
<1> QED
    BY <1>1, <1>2, <1>3 DEF Met, Numbers

\* The answer arrives, and q is what the offerer makes of o.
LEMMA MetGotAnswer ==
    ASSUME NEW o \in PlayerType, NEW a \in PlayerType, NEW no, NEW na, NEW x \in Nat \X Nat,
           NEW f \in Nat, NEW d \in Nat, 2 * d < sdp_timeout,
           Met(o, a, no, na, x, f, d), Answered(o, a, no, na, d),
           NEW q \in PlayerType, q.known = o.known, q.pc = o.pc, q.timer = o.timer,
           q.made = o.made, q.attempts = o.attempts, q.remote = a.pc
    PROVE  Met(q, a, << >>, << >>, x, f, d)
<1>1. Since(q) = Since(o)
    BY DEF Since
<1>2. x # <<q.pc, a.pc>>
    BY PlayerFields DEF Met, Numbers, Answered
<1>3. Works(q, a, x, d)
    BY <1>1, <1>2, PlayerFields DEF Works, Answered
<1>4. Skew(q, a, f, d)
    BY <1>1 DEF Skew, Met
<1>5. Numbers(q, a, x)
    BY PlayerFields DEF Met, Numbers, Answered
<1> QED
    BY <1>3, <1>4, <1>5 DEF Met, Quiet

\* The offer or the answer is lost.
LEMMA MetLoses ==
    ASSUME NEW o \in PlayerType, NEW a \in PlayerType, NEW no, NEW na, NEW x \in Nat \X Nat,
           NEW f \in Nat, NEW d \in Nat, Met(o, a, no, na, x, f, d)
    PROVE  Met(o, a, << >>, << >>, x, f + 1, d)
<1>1. Skew(o, a, f + 1, d)
    BY PlayerFields DEF Met, Skew
<1>2. f + 1 > o.attempts
    BY PlayerFields DEF Met
<1> QED
    BY <1>1, <1>2, PlayerFields DEF Met, Quiet

\* The pair fails.
LEMMA MetBreaks ==
    ASSUME NEW o \in PlayerType, NEW a \in PlayerType, NEW no, NEW na, NEW x \in Nat \X Nat,
           NEW f \in Nat, NEW d \in Nat, Met(o, a, no, na, x, f, d), o.remote # 0
    PROVE  Met(o, a, no, na, <<o.pc, a.pc>>, f + 1, d)
<1>1. Skew(o, a, f + 1, d)
    BY PlayerFields DEF Met, Skew
<1>2. f + 1 > o.attempts
    BY PlayerFields DEF Met
<1>3. no = << >> /\ na = << >>
    BY DEF Met, Offered, Answered, Quiet
<1>4. Numbers(o, a, <<o.pc, a.pc>>)
    BY PlayerFields DEF Met, Numbers
<1> QED
    BY <1>1, <1>2, <1>3, <1>4, PlayerFields DEF Met, Quiet

\* A clock that has run out has a failure to show for this attempt.
LEMMA MetExpired ==
    ASSUME NEW o \in PlayerType, NEW a \in PlayerType, NEW no, NEW na, NEW x \in Nat \X Nat,
           NEW f \in Nat, NEW d \in Nat, 2 * d < sdp_timeout, Met(o, a, no, na, x, f, d)
    PROVE  /\ o.timer = 0 /\ o.attempts =< MAX_RENEGOTIATION_ATTEMPTS =>
                 f > o.attempts /\ no = << >> /\ na = << >>
           /\ a.timer = 0 /\ a.attempts =< MAX_RENEGOTIATION_ATTEMPTS =>
                 /\ f > a.attempts /\ ~Answered(o, a, no, na, d) /\ ~Works(o, a, x, d)
                 /\ a.attempts =< o.attempts
<1>1. /\ o.timer = 0 => Since(o) = sdp_timeout
      /\ a.timer = 0 => Since(a) = sdp_timeout
    BY Bounds DEF Since
<1>2. ASSUME o.timer = 0, o.attempts =< MAX_RENEGOTIATION_ATTEMPTS
      PROVE  f > o.attempts /\ no = << >> /\ na = << >>
    <2>1. Since(o) > 2 * d
        BY <1>1, <1>2
    <2>2. ~Offered(o, a, no, na, d)
        BY <2>1, PlayerFields DEF Offered
    <2>3. ~Answered(o, a, no, na, d)
        BY <2>1, PlayerFields DEF Answered
    <2>4. ~Works(o, a, x, d)
        BY <2>1, PlayerFields DEF Works
    <2> QED
        BY <1>2, <2>2, <2>3, <2>4 DEF Met, Quiet
<1>3. ASSUME a.timer = 0, a.attempts =< MAX_RENEGOTIATION_ATTEMPTS
      PROVE  /\ f > a.attempts /\ ~Answered(o, a, no, na, d) /\ ~Works(o, a, x, d)
             /\ a.attempts =< o.attempts
    <2>1. Since(a) > 2 * d /\ Since(a) = sdp_timeout
        BY <1>1, <1>3
    <2>2. ~Answered(o, a, no, na, d)
        BY <2>1, PlayerFields DEF Answered
    <2>3. ~Works(o, a, x, d)
        BY <2>1, PlayerFields DEF Works
    <2>4. a.attempts =< o.attempts
        BY <1>3, <2>1, PlayerFields, Bounds DEF Met, Skew
    <2>5. ASSUME a.attempts < o.attempts
          PROVE  f > a.attempts
        BY <2>5, PlayerFields DEF Met
    <2>6. ASSUME a.attempts = o.attempts
          PROVE  f > a.attempts
        <3>1. Since(a) =< Since(o) + d
            BY <2>6, PlayerFields DEF Met, Skew
        <3>2. ~Offered(o, a, no, na, d)
            BY <2>1, <3>1, PlayerFields DEF Offered
        <3> QED
            BY <1>3, <2>2, <2>3, <2>6, <3>2 DEF Met, Quiet
    <2> QED
        BY <2>2, <2>3, <2>4, <2>5, <2>6, PlayerFields
<1> QED
    BY <1>2, <1>3

\* The offerer tries once more, as q.
LEMMA MetOffererRetries ==
    ASSUME NEW o \in PlayerType, NEW a \in PlayerType, NEW no, NEW na, NEW x \in Nat \X Nat,
           NEW f \in Nat, NEW d \in Nat, 2 * d < sdp_timeout, Met(o, a, no, na, x, f, d),
           o.timer = 0, o.attempts < MAX_RENEGOTIATION_ATTEMPTS,
           NEW q \in PlayerType, q.known = o.known, q.timer = sdp_timeout, q.remote = 0,
           q.attempts = o.attempts + 1, q.made = o.made + 1, q.pc = o.made + 1
    PROVE  Met(q, a, << >>, <<Message("Offer", q.pc, 0)>>, x, f, d)
<1>1. Since(q) = 0 /\ Since(o) = sdp_timeout
    BY Bounds DEF Since
<1>2. f > o.attempts
    <2>1. o.attempts =< MAX_RENEGOTIATION_ATTEMPTS
        BY PlayerFields, Bounds
    <2> QED
        BY <2>1, MetExpired
<1>3. Offered(q, a, << >>, <<Message("Offer", q.pc, 0)>>, d)
    BY <1>1 DEF Offered
<1>4. Skew(q, a, f, d)
    BY <1>1, PlayerFields, Bounds DEF Met, Skew
<1>5. Numbers(q, a, x)
    BY PlayerFields DEF Met, Numbers
<1>6. f >= q.attempts /\ ~(q.attempts > MAX_RENEGOTIATION_ATTEMPTS)
    BY <1>2, PlayerFields, Bounds
<1> QED
    BY <1>3, <1>4, <1>5, <1>6 DEF Met

\* The offerer has used up its attempts and stays, as q.
LEMMA MetOffererStops ==
    ASSUME NEW o \in PlayerType, NEW a \in PlayerType, NEW no, NEW na, NEW x \in Nat \X Nat,
           NEW f \in Nat, NEW d \in Nat, 2 * d < sdp_timeout, Met(o, a, no, na, x, f, d),
           o.timer = 0, o.attempts = MAX_RENEGOTIATION_ATTEMPTS,
           NEW q \in PlayerType, q.known = o.known, q.timer = o.timer, q.remote = o.remote,
           q.attempts = o.attempts + 1, q.made = o.made, q.pc = o.pc
    PROVE  Met(q, a, no, na, x, f, d)
<1>1. Since(q) = sdp_timeout /\ Since(o) = sdp_timeout
    BY Bounds DEF Since
<1>2. f > o.attempts /\ no = << >> /\ na = << >>
    <2>1. o.attempts =< MAX_RENEGOTIATION_ATTEMPTS
        BY PlayerFields, Bounds
    <2> QED
        BY <2>1, MetExpired
<1>3. Skew(q, a, f, d)
    BY <1>1, PlayerFields, Bounds DEF Met, Skew
<1>4. Numbers(q, a, x)
    BY DEF Met, Numbers
<1>5. f >= q.attempts /\ ~(q.attempts =< MAX_RENEGOTIATION_ATTEMPTS)
    BY <1>2, PlayerFields, Bounds
<1> QED
    BY <1>2, <1>3, <1>4, <1>5 DEF Met, Quiet

\* The answerer waits once more, as q.
LEMMA MetAnswererRetries ==
    ASSUME NEW o \in PlayerType, NEW a \in PlayerType, NEW no, NEW na, NEW x \in Nat \X Nat,
           NEW f \in Nat, NEW d \in Nat, 2 * d < sdp_timeout, Met(o, a, no, na, x, f, d),
           a.timer = 0, a.attempts < MAX_RENEGOTIATION_ATTEMPTS,
           NEW q \in PlayerType, q.known = a.known, q.timer = sdp_timeout,
           q.attempts = a.attempts + 1
    PROVE  Met(o, q, no, na, x, f, d)
<1>1. Since(q) = 0 /\ Since(a) = sdp_timeout
    BY Bounds DEF Since
<1>2. /\ f > a.attempts /\ ~Answered(o, a, no, na, d) /\ ~Works(o, a, x, d)
      /\ a.attempts =< o.attempts
    <2>1. a.attempts =< MAX_RENEGOTIATION_ATTEMPTS
        BY PlayerFields, Bounds
    <2> QED
        BY <2>1, MetExpired
<1>3. Skew(o, q, f, d)
    BY <1>1, <1>2, PlayerFields, Bounds DEF Met, Skew
<1>4. Offered(o, a, no, na, d) => Offered(o, q, no, na, d)
    BY DEF Offered
<1>5. Quiet(o, a, no, na, x, f, d) => Quiet(o, q, no, na, x, f, d)
    BY <1>2 DEF Quiet
<1> QED
    BY <1>2, <1>3, <1>4, <1>5 DEF Met, Numbers

\* The answerer has used up its attempts and stays, as q.
LEMMA MetAnswererStops ==
    ASSUME NEW o \in PlayerType, NEW a \in PlayerType, NEW no, NEW na, NEW x \in Nat \X Nat,
           NEW f \in Nat, NEW d \in Nat, 2 * d < sdp_timeout, Met(o, a, no, na, x, f, d),
           a.timer = 0, a.attempts = MAX_RENEGOTIATION_ATTEMPTS,
           NEW q \in PlayerType, q.known = a.known, q.timer = a.timer,
           q.attempts = a.attempts + 1
    PROVE  Met(o, q, no, na, x, f, d)
<1>1. Since(q) = sdp_timeout /\ Since(a) = sdp_timeout
    BY Bounds DEF Since
<1>2. /\ f > a.attempts /\ ~Answered(o, a, no, na, d) /\ ~Works(o, a, x, d)
      /\ a.attempts =< o.attempts
    <2>1. a.attempts =< MAX_RENEGOTIATION_ATTEMPTS
        BY PlayerFields, Bounds
    <2> QED
        BY <2>1, MetExpired
<1>3. Skew(o, q, f, d)
    <2>1. ASSUME a.attempts < o.attempts
          PROVE  Skew(o, q, f, d)
        <3>1. o.attempts = q.attempts /\ o.timer = 0
            BY <2>1, PlayerFields, Bounds DEF Met
        <3>2. Since(o) = sdp_timeout
            BY <3>1, Bounds DEF Since
        <3> QED
            BY <1>1, <3>1, <3>2, Bounds DEF Skew
    <2>2. ASSUME a.attempts = o.attempts
          PROVE  Skew(o, q, f, d)
        BY <1>2, <2>2, PlayerFields, Bounds DEF Skew
    <2> QED
        BY <1>2, <2>1, <2>2, PlayerFields
<1>4. Offered(o, a, no, na, d) => Offered(o, q, no, na, d)
    BY DEF Offered
<1>5. Quiet(o, a, no, na, x, f, d) => Quiet(o, q, no, na, x, f, d)
    BY <1>2 DEF Quiet
<1> QED
    BY <1>2, <1>3, <1>4, <1>5 DEF Met, Numbers

\* A player a tick later, when no PONG came.
Aged(p, q) ==
    /\ q.known = p.known /\ q.pc = p.pc /\ q.remote = p.remote /\ q.made = p.made
    /\ q.attempts = p.attempts /\ q.timer = Left1(p.timer)

LEMMA AgedSince ==
    ASSUME NEW p \in PlayerType, NEW q \in PlayerType, Aged(p, q)
    PROVE  /\ p.timer > 0 => Since(q) = Since(p) + 1
           /\ p.timer = 0 => Since(q) = Since(p) /\ Since(q) = sdp_timeout /\ q.timer = 0
           /\ Since(q) =< Since(p) + 1 /\ Since(p) =< Since(q)
    BY PlayerFields, Bounds DEF Aged, Since, Left1

\* A tick passes without a connection.
LEMMA MetTick ==
    ASSUME NEW o \in PlayerType, NEW a \in PlayerType, NEW no, NEW na, NEW x \in Nat \X Nat,
           NEW f \in Nat, NEW d \in Nat, 2 * d < sdp_timeout, Met(o, a, no, na, x, f, d),
           NEW p \in PlayerType, Aged(o, p), NEW q \in PlayerType, Aged(a, q),
           o.timer = 0 => o.attempts > MAX_RENEGOTIATION_ATTEMPTS,
           a.timer = 0 => a.attempts > MAX_RENEGOTIATION_ATTEMPTS,
           ~Works(o, a, x, d),
           Offered(o, a, no, na, d) => Since(o) < d,
           Answered(o, a, no, na, d) => Since(a) < d
    PROVE  Met(p, q, Older(no), Older(na), x, f, d)
<1>1. Numbers(p, q, x)
    BY DEF Met, Numbers, Aged
<1>2. f >= p.attempts
    BY DEF Met, Aged
<1>3. p.attempts > MAX_RENEGOTIATION_ATTEMPTS => p.timer = 0
    BY AgedSince DEF Met, Aged
<1>4. Skew(p, q, f, d)
    <2>1. CASE a.attempts < o.attempts
        BY <2>1 DEF Skew, Aged
    <2>2. CASE a.attempts = o.attempts /\ Since(a) =< Since(o) + d
        <3>1. Since(q) =< Since(p) + d
            BY <2>2, AgedSince, PlayerFields
        <3> QED
            BY <2>2, <3>1 DEF Skew, Aged
    <2>3. CASE /\ a.attempts = o.attempts + 1 /\ f > o.attempts
               /\ a.attempts =< MAX_RENEGOTIATION_ATTEMPTS =>
                      Since(a) + sdp_timeout =< Since(o) + d
        <3>1. ASSUME a.attempts =< MAX_RENEGOTIATION_ATTEMPTS
              PROVE  Since(q) + sdp_timeout =< Since(p) + d
            <4>1. o.timer > 0
                BY <2>3, <3>1, PlayerFields, Bounds
            <4> QED
                BY <2>3, <3>1, <4>1, AgedSince, PlayerFields, Bounds
        <3> QED
            BY <2>3, <3>1 DEF Skew, Aged
    <2> QED
        BY <2>1, <2>2, <2>3 DEF Met, Skew
<1>5. CASE Offered(o, a, no, na, d)
    <2>1. o.timer > 0
        BY <1>5, PlayerFields, Bounds DEF Since
    <2>2. Since(p) = Since(o) + 1 /\ Since(p) =< d
        BY <1>5, <2>1, AgedSince, PlayerFields
    <2>3. Older(no) = << >> /\ Older(na) = <<Message("Offer", p.pc, Since(p))>>
        BY <1>5, <2>2, OlderShort DEF Offered, Aged
    <2>4. Offered(p, q, Older(no), Older(na), d)
        BY <1>5, <2>2, <2>3 DEF Offered, Aged
    <2> QED
        BY <1>1, <1>2, <1>3, <1>4, <2>4 DEF Met
<1>6. CASE Answered(o, a, no, na, d)
    <2>1. Since(a) =< d /\ Since(a) =< Since(o) /\ Since(o) =< Since(a) + d
        BY <1>6 DEF Answered
    <2>2. Since(o) \in Nat /\ Since(a) \in Nat
        BY PlayerFields
    <2>3. Since(o) < sdp_timeout /\ Since(a) < sdp_timeout
        BY <2>1, <2>2, Bounds
    <2>4. o.timer > 0 /\ a.timer > 0
        BY <2>3, PlayerFields, Bounds DEF Since
    <2>5. Since(p) = Since(o) + 1 /\ Since(q) = Since(a) + 1
        BY <2>4, AgedSince
    <2>6. Since(q) =< d /\ Since(q) =< Since(p) /\ Since(p) =< Since(q) + d
        BY <1>6, <2>1, <2>2, <2>5
    <2>7. Older(na) = << >> /\ Older(no) = <<Message("Answer", q.pc, Since(q))>>
        BY <1>6, <2>5, OlderShort DEF Answered, Aged
    <2>8. Answered(p, q, Older(no), Older(na), d)
        BY <1>6, <2>6, <2>7 DEF Answered, Aged
    <2> QED
        BY <1>1, <1>2, <1>3, <1>4, <2>8 DEF Met
<1>7. CASE Quiet(o, a, no, na, x, f, d)
    <2>1. Quiet(p, q, Older(no), Older(na), x, f, d)
        BY <1>7, OlderShort DEF Quiet, Aged
    <2> QED
        BY <1>1, <1>2, <1>3, <1>4, <2>1 DEF Met
<1> QED
    BY <1>5, <1>6, <1>7 DEF Met

\* A tick passes and PONGs come: p and q begin anew.
LEMMA MetPong ==
    ASSUME NEW o \in PlayerType, NEW a \in PlayerType, NEW no, NEW na, NEW x \in Nat \X Nat,
           NEW f \in Nat, NEW d \in Nat, Met(o, a, no, na, x, f, d),
           a.pc # 0, a.remote = o.pc, o.remote = a.pc, x # <<o.pc, a.pc>>,
           NEW p \in PlayerType, NEW q \in PlayerType,
           p.known = o.known, p.pc = o.pc, p.remote = o.remote, p.made = o.made,
           p.timer = sdp_timeout, p.attempts = 0,
           q.known = a.known, q.pc = a.pc, q.remote = a.remote,
           q.timer = sdp_timeout, q.attempts = 0
    PROVE  Met(p, q, Older(no), Older(na), x, 0, d)
<1>1. Since(p) = 0 /\ Since(q) = 0
    BY Bounds DEF Since
<1>2. no = << >> /\ na = << >>
    BY DEF Met, Offered, Answered, Quiet
<1>3. Works(p, q, x, d)
    BY <1>1 DEF Works
<1>4. Quiet(p, q, Older(no), Older(na), x, 0, d)
    BY <1>2, <1>3, OlderShort DEF Quiet
<1>5. Skew(p, q, 0, d) /\ ~(p.attempts > MAX_RENEGOTIATION_ATTEMPTS)
    BY <1>1, Bounds DEF Skew
<1> QED
    BY <1>4, <1>5 DEF Met, Numbers

-----------------------------------------------------------------------------
(* The steps of two players who do not both know each other yet *)

LEMMA FreshSince ==
    ASSUME NEW p \in PlayerType, NEW q \in PlayerType, Fresh(p, q)
    PROVE  Since(p) = 0 /\ p.pc = p.made /\ p.pc > 0 /\ p.known
    BY PlayerFields, Bounds DEF Fresh, Since

\* The offerer is told of the answerer first, and offers as p.
LEMMA NoneToOfferer ==
    ASSUME NEW o \in PlayerType, NEW a \in PlayerType, NEW no, NEW na, NEW d \in Nat,
           NEW g \in 0..d, NoneKnows(g, o, a, no, na),
           NEW p \in PlayerType, Fresh(p, o), p.remote = 0
    PROVE  OffererKnows(g, p, a, Tail(no), Append(na, Message("Offer", p.pc, 0)))
<1>1. /\ Tail(no) = << >>
      /\ Append(na, Message("Offer", p.pc, 0))
            = <<Message("Joined", 0, g), Message("Offer", p.pc, 0)>>
    BY Short DEF NoneKnows
<1>2. Since(p) = 0 /\ p.pc = p.made /\ p.pc > 0 /\ p.known /\ p.attempts = 0
    BY FreshSince DEF NoneKnows, Stranger, Fresh
<1> QED
    BY <1>1, <1>2 DEF NoneKnows, OffererKnows

\* The answerer is told of the offerer first.
LEMMA NoneToAnswerer ==
    ASSUME NEW o \in PlayerType, NEW a \in PlayerType, NEW no, NEW na, NEW d \in Nat,
           NEW g \in 0..d, NoneKnows(g, o, a, no, na),
           NEW q \in PlayerType, Fresh(q, a)
    PROVE  AnswererKnows(g, o, q, no, Tail(na))
<1>1. Tail(na) = << >>
    BY Short DEF NoneKnows
<1>2. Since(q) = 0 /\ q.known /\ q.attempts = 0
    BY FreshSince DEF NoneKnows, Stranger, Fresh
<1> QED
    BY <1>1, <1>2 DEF NoneKnows, AnswererKnows

\* The offerer is told of the answerer last, and offers as p.
LEMMA AnswererToMet ==
    ASSUME NEW o \in PlayerType, NEW a \in PlayerType, NEW no, NEW na, NEW d \in Nat,
           NEW g \in 0..d, AnswererKnows(g, o, a, no, na),
           NEW x \in Nat \X Nat, x[1] = 0, NEW f \in Nat,
           NEW p \in PlayerType, Fresh(p, o), p.remote = 0
    PROVE  Met(p, a, Tail(no), Append(na, Message("Offer", p.pc, 0)), x, f, d)
<1>1. /\ Tail(no) = << >>
      /\ Append(na, Message("Offer", p.pc, 0)) = <<Message("Offer", p.pc, 0)>>
    BY Short DEF AnswererKnows
<1>2. Since(p) = 0 /\ p.pc = p.made /\ p.pc > 0 /\ p.known /\ p.attempts = 0
    BY FreshSince DEF AnswererKnows, Stranger, Fresh
<1>3. Skew(p, a, f, d)
    BY <1>2, PlayerFields DEF AnswererKnows, Skew
<1>4. Offered(p, a, Tail(no), Append(na, Message("Offer", p.pc, 0)), d)
    BY <1>1, <1>2 DEF Offered
<1>5. Numbers(p, a, x)
    BY <1>2, PlayerFields DEF Numbers, AnswererKnows
<1>6. f >= p.attempts /\ ~(p.attempts > MAX_RENEGOTIATION_ATTEMPTS)
    BY <1>2, Bounds
<1> QED
    BY <1>3, <1>4, <1>5, <1>6 DEF Met

\* The answerer is told of the offerer last; the offer may be waiting.
LEMMA OffererToMet ==
    ASSUME NEW o \in PlayerType, NEW a \in PlayerType, NEW no, NEW na, NEW d \in Nat,
           NEW g \in 0..d, OffererKnows(g, o, a, no, na),
           NEW x \in Nat \X Nat, x[1] = 0, NEW f \in Nat,
           NEW q \in PlayerType, Fresh(q, a)
    PROVE  Met(o, q, no, Tail(na), x, f, d)
<1>1. Tail(na) = <<Message("Offer", o.pc, Since(o))>>
    BY Short DEF OffererKnows
<1>2. Since(q) = 0 /\ q.known /\ q.attempts = 0
    BY FreshSince DEF OffererKnows, Stranger, Fresh
<1>3. Skew(o, q, f, d)
    BY <1>2, PlayerFields DEF OffererKnows, Skew
<1>4. Offered(o, q, no, Tail(na), d)
    BY <1>1, PlayerFields DEF OffererKnows, Offered
<1>5. Numbers(o, q, x)
    BY <1>2, PlayerFields DEF Numbers, OffererKnows
<1>6. f >= o.attempts /\ ~(o.attempts > MAX_RENEGOTIATION_ATTEMPTS)
    BY Bounds DEF OffererKnows
<1> QED
    BY <1>3, <1>4, <1>5, <1>6 DEF Met

\* A tick passes before both know.
LEMMA MeetingTick ==
    ASSUME NEW o \in PlayerType, NEW a \in PlayerType, NEW no, NEW na, NEW x,
           NEW d \in Nat, 2 * d < sdp_timeout, Meeting(o, a, no, na, x, d),
           NEW p \in PlayerType, Aged(o, p), NEW q \in PlayerType, Aged(a, q),
           \A i \in DOMAIN no : no[i].age < d, \A i \in DOMAIN na : na[i].age < d
    PROVE  Meeting(p, q, Older(no), Older(na), x, d)
<1>1. PICK g \in 0..d : \/ NoneKnows(g, o, a, no, na)
                        \/ AnswererKnows(g, o, a, no, na)
                        \/ OffererKnows(g, o, a, no, na)
    BY DEF Meeting
<1>2. ASSUME NEW m, <<m>> = no \/ <<m>> = na \/ \E k : <<m, k>> = na
      PROVE  m.age < d
    <2>1. CASE <<m>> = no
        BY <2>1
    <2>2. CASE <<m>> = na
        BY <2>2
    <2>3. CASE \E k : <<m, k>> = na
        BY <2>3
    <2> QED
        BY <1>2, <2>1, <2>2, <2>3
<1>3. Message("Joined", 0, g).age < d
    BY <1>1, <1>2 DEF NoneKnows, AnswererKnows, OffererKnows
<1>4. g + 1 \in 0..d
    BY <1>3 DEF Message
<1>5. CASE NoneKnows(g, o, a, no, na)
    <2>1. NoneKnows(g + 1, p, q, Older(no), Older(na))
        BY <1>5, OlderShort DEF NoneKnows, Stranger, Aged
    <2> QED
        BY <1>4, <2>1 DEF Meeting
<1>6. CASE AnswererKnows(g, o, a, no, na)
    <2>1. Since(q) =< g + 1
        BY <1>6, AgedSince, PlayerFields DEF AnswererKnows
    <2>2. AnswererKnows(g + 1, p, q, Older(no), Older(na))
        BY <1>6, <2>1, OlderShort DEF AnswererKnows, Stranger, Aged
    <2> QED
        BY <1>4, <2>2 DEF Meeting
<1>7. CASE OffererKnows(g, o, a, no, na)
    <2>1. o.timer > 0
        <3>1. Since(o) < sdp_timeout
            BY <1>7, PlayerFields, Bounds DEF OffererKnows
        <3> QED
            BY <3>1, PlayerFields, Bounds DEF Since
    <2>2. Since(p) = Since(o) + 1 /\ Since(p) =< g + 1
        BY <1>7, <2>1, AgedSince, PlayerFields DEF OffererKnows
    <2>3. /\ Older(no) = << >>
          /\ Older(na) = <<Message("Joined", 0, g + 1), Message("Offer", p.pc, Since(p))>>
        BY <1>7, <2>2, OlderShort DEF OffererKnows, Aged
    <2>4. OffererKnows(g + 1, p, q, Older(no), Older(na))
        BY <1>7, <2>2, <2>3 DEF OffererKnows, Stranger, Aged
    <2> QED
        BY <1>4, <2>4 DEF Meeting
<1> QED
    BY <1>1, <1>5, <1>6, <1>7

-----------------------------------------------------------------------------
(* The steps of the specification *)

LEMMA BothTyped ==
    ASSUME Typed
    PROVE  /\ player["offerer"] \in PlayerType /\ player["answerer"] \in PlayerType
           /\ net["offerer"] \in Seq(MessageType) /\ net["answerer"] \in Seq(MessageType)
           /\ delay \in Nat /\ failures \in Nat /\ dud \in Nat \X Nat
    BY DEF Typed, Side

\* What Joined does, side by side.
LEMMA JoinedSides ==
    ASSUME Typed, gone = {}, NEW s \in Side, Joined(s)
    PROVE  \E p \in PlayerType :
              /\ Fresh(p, player[s]) /\ p.remote = 0 /\ player'[s] = p
              /\ player'[Other(s)] = player[Other(s)] /\ net'[s] = Tail(net[s])
              /\ net'[Other(s)] = IF s = "offerer" THEN Append(net[Other(s)], Message("Offer", p.pc, 0))
                                  ELSE net[Other(s)]
<1> USE DEF Side
<1>1. PICK p \in PlayerType :
          /\ Fresh(p, player[s]) /\ p.remote = 0
          /\ player' = [player EXCEPT ![s] = p]
          /\ net' = IF s = "offerer" THEN Relay(Taken(s), Other(s), Offer(p)) ELSE Taken(s)
    BY JoinedFacts
<1>2. Other(s) \in Side /\ Other(s) # s
    BY Others
<1>3. player'[s] = p /\ player'[Other(s)] = player[Other(s)]
    BY <1>1, <1>2 DEF Typed
<1>4. /\ Taken(s) \in [Side -> Seq(MessageType)] /\ Taken(s)[s] = Tail(net[s])
      /\ Taken(s)[Other(s)] = net[Other(s)]
    BY <1>2, TakenTyped DEF Joined, Got
<1>5. Offer(p) \in MessageType /\ Offer(p) = Message("Offer", p.pc, 0)
    BY SentTyped DEF Message
<1>6. PICK n, m : n = Taken(s) /\ m = Offer(p)
    OBVIOUS
<1>7. CASE s = "offerer"
    <2>1. net' = Relay(n, Other(s), m)
        BY <1>1, <1>6, <1>7
    <2>2. Relay(n, Other(s), m)[s] = n[s] /\ Relay(n, Other(s), m)[Other(s)] = Append(n[Other(s)], m)
        <3>1. n \in [Side -> Seq(MessageType)] /\ m \in MessageType
            BY <1>4, <1>5, <1>6
        <3>2. PICK t \in Side : t = Other(s) /\ t # s /\ t \notin gone
            BY <1>2
        <3>3. Relay(n, t, m)[s] = n[s] /\ Relay(n, t, m)[t] = Append(n[t], m)
            BY <3>1, <3>2 DEF Relay
        <3> QED
            BY <3>2, <3>3
    <2> QED
        BY <1>1, <1>3, <1>4, <1>5, <1>6, <1>7, <2>1, <2>2
<1>8. CASE s # "offerer"
    BY <1>1, <1>3, <1>4, <1>8
<1> QED
    BY <1>7, <1>8

LEMMA JoinedMeeting ==
    ASSUME Typed, gone = {}, NowMeeting, NEW s \in Side, Joined(s)
    PROVE  NowMeeting' \/ NowMet'
<1> USE DEF Side
<1> DEFINE o == player["offerer"]   a == player["answerer"]
           no == net["offerer"]     na == net["answerer"]
<1>1. PICK g \in 0..delay : \/ NoneKnows(g, o, a, no, na)
                            \/ AnswererKnows(g, o, a, no, na)
                            \/ OffererKnows(g, o, a, no, na)
    BY DEF NowMeeting, Meeting
<1>2. /\ UNCHANGED <<delay, dud, failures>> /\ dud[1] = 0 /\ net[s] # << >>
      /\ Head(net[s]).type = "Joined"
    BY DEF Joined, Got, NowMeeting, Meeting
<1>3. CASE s = "offerer"
    <2>1. PICK p \in PlayerType :
              /\ Fresh(p, o) /\ p.remote = 0 /\ player'["offerer"] = p
              /\ player'["answerer"] = a /\ net'["offerer"] = Tail(no)
              /\ net'["answerer"] = Append(na, Message("Offer", p.pc, 0))
        BY <1>3, JoinedSides, Others
    <2>2. CASE NoneKnows(g, o, a, no, na)
        <3>1. OffererKnows(g, p, a, Tail(no), Append(na, Message("Offer", p.pc, 0)))
            BY <2>1, <2>2, BothTyped, NoneToOfferer
        <3> QED
            BY <1>2, <2>1, <3>1 DEF NowMeeting, Meeting
    <2>3. CASE AnswererKnows(g, o, a, no, na)
        <3>1. Met(p, a, Tail(no), Append(na, Message("Offer", p.pc, 0)), dud, failures, delay)
            BY <1>2, <2>1, <2>3, BothTyped, AnswererToMet
        <3> QED
            BY <1>2, <2>1, <3>1 DEF NowMet
    <2>4. ~OffererKnows(g, o, a, no, na)
        BY <1>2, <1>3 DEF OffererKnows
    <2> QED
        BY <1>1, <2>2, <2>3, <2>4
<1>4. CASE s = "answerer"
    <2>1. PICK p \in PlayerType :
              /\ Fresh(p, a) /\ player'["answerer"] = p
              /\ player'["offerer"] = o /\ net'["answerer"] = Tail(na)
              /\ net'["offerer"] = no
        BY <1>4, JoinedSides, Others
    <2>2. CASE NoneKnows(g, o, a, no, na)
        <3>1. AnswererKnows(g, o, p, no, Tail(na))
            BY <2>1, <2>2, BothTyped, NoneToAnswerer
        <3> QED
            BY <1>2, <2>1, <3>1 DEF NowMeeting, Meeting
    <2>3. CASE OffererKnows(g, o, a, no, na)
        <3>1. Met(o, p, no, Tail(na), dud, failures, delay)
            BY <1>2, <2>1, <2>3, BothTyped, OffererToMet
        <3> QED
            BY <1>2, <2>1, <3>1 DEF NowMet
    <2>4. ~AnswererKnows(g, o, a, no, na)
        BY <1>2, <1>4 DEF AnswererKnows
    <2> QED
        BY <1>1, <2>2, <2>3, <2>4
<1> QED
    BY <1>3, <1>4

\* Before both know, nothing but a Joined can be lost, nothing is answered or late,
\* and only Joined and the clock are at work.
LEMMA MeetingStep ==
    ASSUME Typed, gone = {}, 2 * delay < sdp_timeout, NowMeeting, PeeringNext, missed' = {}
    PROVE  gone' = {} /\ (NowMeeting' \/ NowMet')
<1> USE DEF Side
<1> DEFINE o == player["offerer"]   a == player["answerer"]
           no == net["offerer"]     na == net["answerer"]
<1>1. PICK g \in 0..delay : \/ NoneKnows(g, o, a, no, na)
                            \/ AnswererKnows(g, o, a, no, na)
                            \/ OffererKnows(g, o, a, no, na)
    BY DEF NowMeeting, Meeting
<1>2. ASSUME NEW s \in Side, net[s] # << >>
      PROVE  Head(net[s]).type = "Joined"
    <2>1. Head(net[s]) = Message("Joined", 0, g)
        BY <1>1, <1>2, Short DEF NoneKnows, AnswererKnows, OffererKnows
    <2> QED
        BY <2>1 DEF Message
<1>3. ~Matched
    BY <1>1 DEF Matched, NoneKnows, AnswererKnows, OffererKnows, Stranger
<1>4. ASSUME NEW s \in Side, player[s].known
      PROVE  player[s].timer # 0
    <2>1. player[s] \in PlayerType /\ Since(player[s]) =< g
        BY <1>1, <1>4 DEF Typed, NoneKnows, AnswererKnows, OffererKnows, Stranger
    <2>2. Since(player[s]) < sdp_timeout
        BY <2>1, BothTyped, PlayerFields, Bounds
    <2> QED
        BY <2>1, <2>2, PlayerFields, Bounds DEF Since
<1>5. ASSUME NEW s \in Side, Joined(s)
      PROVE  gone' = {} /\ (NowMeeting' \/ NowMet')
    BY <1>5, JoinedMeeting DEF Joined
<1>6. ASSUME NEW s \in Side
      PROVE  ~Unclaimed(s) /\ ~GotLeft(s) /\ ~GotPong(s) /\ ~Timeout(s) /\ ~Loses(s)
    BY <1>2, <1>4 DEF Unclaimed, GotLeft, GotPong, Got, Timeout, Loses
<1>7. ~GotOffer /\ ~GotAnswer /\ ~Connects /\ ~Breaks
    BY <1>2, <1>3 DEF GotOffer, GotAnswer, Got, Connects, Breaks
<1>8. ASSUME Tick
      PROVE  gone' = {} /\ NowMeeting'
    <2>1. ~Linked /\ UNCHANGED <<gone, delay, dud>>
        BY <1>3, <1>8 DEF Linked, Tick
    <2>2. PICK p \in PlayerType : p = player'["offerer"] /\ Aged(o, p)
        BY <1>8, <2>1, TickFacts DEF Aged
    <2>3. PICK q \in PlayerType : q = player'["answerer"] /\ Aged(a, q)
        BY <1>8, <2>1, TickFacts DEF Aged
    <2>4. net'["offerer"] = Older(no) /\ net'["answerer"] = Older(na)
        BY <1>8, TickFacts
    <2>5. (\A i \in DOMAIN no : no[i].age < delay) /\ (\A i \in DOMAIN na : na[i].age < delay)
        BY <1>8 DEF Tick
    <2>6. Meeting(o, a, no, na, dud, delay)
        BY DEF NowMeeting
    <2>7. Meeting(p, q, Older(no), Older(na), dud, delay)
        BY <2>2, <2>3, <2>5, <2>6, BothTyped, MeetingTick
    <2> QED
        BY <2>1, <2>2, <2>3, <2>4, <2>7 DEF NowMeeting
<1> QED
    BY <1>5, <1>6, <1>7, <1>8 DEF PeeringNext

\* Once somebody has left, the two are not connected and no failure is forgotten.
LEMMA DecidedStep ==
    ASSUME Typed, Decided, PeeringNext
    PROVE  Decided'
<1>1. ~Matched /\ ~Linked
    BY DEF Decided, Matched, Linked, Typed
<1>2. ASSUME NEW s \in Side, Joined(s)
      PROVE  Decided'
    <2>1. PICK p : player' = [player EXCEPT ![s] = p]
        BY <1>2, JoinedFacts
    <2> QED
        BY <1>2, <2>1 DEF Decided, Joined, Got, Typed
<1>3. ASSUME GotOffer
      PROVE  Decided'
    <2>1. PICK p : player' = [player EXCEPT !["answerer"] = p]
        BY <1>3, GotOfferFacts
    <2> QED
        BY <1>3, <2>1 DEF Decided, GotOffer, Got, Typed
<1>4. ASSUME GotAnswer
      PROVE  Decided'
    <2>1. PICK p : player' = [player EXCEPT !["offerer"] = p]
        BY <1>4, GotAnswerFacts
    <2> QED
        BY <1>4, <2>1 DEF Decided, GotAnswer, Got, Typed
<1>5. ASSUME NEW s \in Side, Unclaimed(s) \/ GotLeft(s) \/ GotPong(s)
      PROVE  Decided'
    <2>1. CASE Unclaimed(s)
        BY <2>1 DEF Decided, Unclaimed
    <2>2. CASE Forgets(s)
        <3>1. \A t \in Side : ~player[t].known => ~player'[t].known
            BY <2>2 DEF Forgets, NoPlayer, Typed
        <3> QED
            BY <2>2, <3>1 DEF Decided, Forgets, Typed
    <2> QED
        BY <1>5, <2>1, <2>2 DEF GotLeft, GotPong
<1>6. ASSUME NEW s \in Side, Timeout(s)
      PROVE  Decided'
    <2>1. CASE Leaves(s)
        BY <1>6, <2>1 DEF Decided, Leaves, Timeout, NoPlayer, Typed
    <2>2. CASE \E p \in PlayerType : Stops(s, p) \/ Retries(s, p)
        <3>1. PICK p : player' = [player EXCEPT ![s] = p] /\ gone' = gone
            BY <2>2 DEF Stops, Retries
        <3> QED
            BY <1>6, <3>1 DEF Decided, Timeout, Typed
    <2> QED
        BY <1>6, <2>1, <2>2, TimeoutFacts
<1>7. ~Connects /\ ~Breaks
    BY <1>1 DEF Connects, Breaks
<1>8. ASSUME NEW s \in Side, Loses(s)
      PROVE  Decided'
    BY <1>8, Bounds DEF Decided, Loses, Fail, Typed
<1>9. ASSUME Tick
      PROVE  Decided'
    <2>1. failures' = failures /\ gone' = gone
        BY <1>1, <1>9 DEF Tick
    <2>2. \A s \in Side : player'[s].known = player[s].known
        BY <1>9, TickFacts
    <2> QED
        BY <2>1, <2>2 DEF Decided, Typed
<1> QED
    BY <1>2, <1>3, <1>4, <1>5, <1>6, <1>7, <1>8, <1>9 DEF PeeringNext

\* A clock that runs out between two who know each other.
LEMMA MetTimeout ==
    ASSUME Typed, gone = {}, 2 * delay < sdp_timeout, NowMet, NEW s \in Side, Timeout(s)
    PROVE  (gone' = {} /\ NowMet') \/ Decided'
<1> DEFINE o == player["offerer"]   a == player["answerer"]
           no == net["offerer"]     na == net["answerer"]
<1>1. /\ player[s].timer = 0 /\ player[s].attempts =< MAX_RENEGOTIATION_ATTEMPTS
      /\ UNCHANGED <<delay, dud, failures>>
    BY DEF Timeout
<1>2. Met(o, a, no, na, dud, failures, delay)
    BY DEF NowMet
<1>3. player[s] \in PlayerType /\ player[s].attempts \in Nat
    BY PlayerFields DEF Typed
<1>4. /\ failures > player[s].attempts
      /\ s = "offerer" => no = << >> /\ na = << >>
    BY <1>1, <1>2, BothTyped, MetExpired DEF Side
<1>5. CASE Leaves(s)
    <2>1. failures > MAX_RENEGOTIATION_ATTEMPTS
        BY <1>3, <1>4, <1>5, BothTyped, Bounds DEF Leaves
    <2>2. gone' = {s} /\ ~player'[s].known
        BY <1>5 DEF Leaves, NoPlayer, Typed
    <2> QED
        BY <1>1, <2>1, <2>2 DEF Decided
<1>6. ASSUME NEW p \in PlayerType, Stops(s, p)
      PROVE  gone' = {} /\ NowMet'
    <2>1. player[s].attempts = MAX_RENEGOTIATION_ATTEMPTS
        BY <1>1, <1>3, <1>6, Bounds DEF Stops
    <2>2. CASE s = "offerer"
        <3>1. player'["offerer"] = p /\ player'["answerer"] = a
            BY <1>6, <2>2 DEF Stops, Typed, Side
        <3>2. Met(p, a, no, na, dud, failures, delay)
            BY <1>1, <1>2, <1>6, <2>1, <2>2, BothTyped, MetOffererStops DEF Stops
        <3> QED
            BY <1>1, <1>6, <3>1, <3>2 DEF NowMet, Stops
    <2>3. CASE s = "answerer"
        <3>1. player'["answerer"] = p /\ player'["offerer"] = o
            BY <1>6, <2>3 DEF Stops, Typed, Side
        <3>2. Met(o, p, no, na, dud, failures, delay)
            BY <1>1, <1>2, <1>6, <2>1, <2>3, BothTyped, MetAnswererStops DEF Stops
        <3> QED
            BY <1>1, <1>6, <3>1, <3>2 DEF NowMet, Stops
    <2> QED
        BY <2>2, <2>3 DEF Side
<1>7. ASSUME NEW p \in PlayerType, Retries(s, p)
      PROVE  gone' = {} /\ NowMet'
    <2>1. player[s].attempts < MAX_RENEGOTIATION_ATTEMPTS
        BY <1>7 DEF Retries
    <2>2. CASE s = "offerer"
        <3>1. player'["offerer"] = p /\ player'["answerer"] = a
            BY <1>7, <2>2 DEF Retries, Typed, Side
        <3>2. Met(p, a, << >>, <<Message("Offer", p.pc, 0)>>, dud, failures, delay)
            BY <1>1, <1>2, <1>7, <2>1, <2>2, BothTyped, MetOffererRetries DEF Retries
        <3>3. net' = Relay(net, "answerer", Offer(p))
            BY <1>7, <2>2, Others DEF Retries
        <3>4. Offer(p) = Message("Offer", p.pc, 0)
            BY SentTyped DEF Message
        <3>5. net'["offerer"] = no /\ net'["answerer"] = Append(na, Message("Offer", p.pc, 0))
            BY <3>3, <3>4 DEF Relay, Typed, Side
        <3>6. net'["offerer"] = << >> /\ net'["answerer"] = <<Message("Offer", p.pc, 0)>>
            BY <1>4, <2>2, <3>5, Short
        <3> QED
            BY <1>1, <1>7, <3>1, <3>2, <3>6 DEF NowMet, Retries
    <2>3. CASE s = "answerer"
        <3>1. player'["answerer"] = p /\ player'["offerer"] = o /\ net' = net
            BY <1>7, <2>3 DEF Retries, Typed, Side
        <3>2. Met(o, p, no, na, dud, failures, delay)
            BY <1>1, <1>2, <1>7, <2>1, <2>3, BothTyped, MetAnswererRetries DEF Retries
        <3> QED
            BY <1>1, <1>7, <3>1, <3>2 DEF NowMet, Retries
    <2> QED
        BY <2>2, <2>3 DEF Side
<1> QED
    BY <1>5, <1>6, <1>7, TimeoutFacts

\* Between two who know each other.
LEMMA MetStep ==
    ASSUME Typed, gone = {}, 2 * delay < sdp_timeout, NowMet, PeeringNext
    PROVE  (gone' = {} /\ NowMet') \/ Decided'
<1> DEFINE o == player["offerer"]   a == player["answerer"]
           no == net["offerer"]     na == net["answerer"]
<1>1. Met(o, a, no, na, dud, failures, delay)
    BY DEF NowMet
<1>2. /\ na # << >> => Offered(o, a, no, na, delay) /\ Head(na) = Message("Offer", o.pc, Since(o))
      /\ no # << >> => Answered(o, a, no, na, delay) /\ Head(no) = Message("Answer", a.pc, Since(a))
    BY <1>1, MetHeads
<1>3. ASSUME NEW s \in Side, Joined(s) \/ Unclaimed(s) \/ GotLeft(s) \/ GotPong(s)
      PROVE  FALSE
    <2>1. player[s].known
        BY <1>1 DEF Met, Numbers, Side
    <2>2. net[s] # << >> /\ Head(net[s]).type \in {"Joined", "Left"}
        BY <1>3, <2>1 DEF Joined, Unclaimed, GotLeft, GotPong, Got
    <2> QED
        BY <1>2, <2>2 DEF Side, Message
<1>4. ASSUME NEW s \in Side, Loses(s)
      PROVE  gone' = {} /\ NowMet'
    <2>1. net'["offerer"] = << >> /\ net'["answerer"] = << >>
        <3>1. net[s] # << >> /\ net' = Taken(s)
            BY <1>4 DEF Loses
        <3>2. Tail(net[s]) = << >> /\ \A t \in Side : t # s => net[t] = << >>
            BY <1>2, <3>1, Short DEF Side, Offered, Answered
        <3> QED
            BY <3>1, <3>2, TakenTyped DEF Side
    <2>2. Met(o, a, << >>, << >>, dud, failures + 1, delay)
        BY <1>1, BothTyped, MetLoses
    <2>3. failures' = failures + 1 /\ UNCHANGED <<player, gone, dud, delay>>
        BY <1>4 DEF Loses, Fail
    <2> QED
        BY <2>1, <2>2, <2>3 DEF NowMet
<1>5. ASSUME GotOffer
      PROVE  gone' = {} /\ NowMet'
    <2>1. Offered(o, a, no, na, delay) /\ Head(na) = Message("Offer", o.pc, Since(o))
        BY <1>2, <1>5 DEF GotOffer, Got
    <2>2. PICK p \in PlayerType :
              /\ Fresh(p, a) /\ p.remote = Head(na).pc
              /\ player' = [player EXCEPT !["answerer"] = p]
              /\ net' = Relay(Taken("answerer"), "offerer", Answer(p))
        BY <1>5, GotOfferFacts
    <2>3. p.remote = o.pc
        BY <2>1, <2>2 DEF Message
    <2>4. player'["offerer"] = o /\ player'["answerer"] = p
        BY <2>2 DEF Typed, Side
    <2>5. PICK n : n = Taken("answerer")
        OBVIOUS
    <2>6. n \in [Side -> Seq(MessageType)] /\ n["answerer"] = << >> /\ n["offerer"] = << >>
        BY <1>5, <2>1, <2>5, TakenTyped, Short DEF Offered, GotOffer, Got, Side
    <2>7. Answer(p) = Message("Answer", p.pc, 0)
        BY SentTyped DEF Message
    <2>8. net'["answerer"] = << >> /\ net'["offerer"] = Append(<< >>, Message("Answer", p.pc, 0))
        BY <2>2, <2>5, <2>6, <2>7 DEF Relay, Side
    <2>9. net'["offerer"] = <<Message("Answer", p.pc, 0)>>
        BY <2>8, Short
    <2>10. Met(o, p, <<Message("Answer", p.pc, 0)>>, << >>, dud, failures, delay)
        BY <1>1, <2>1, <2>2, <2>3, BothTyped, MetGotOffer
    <2> QED
        BY <1>5, <2>4, <2>8, <2>9, <2>10 DEF NowMet, GotOffer
<1>6. ASSUME GotAnswer
      PROVE  gone' = {} /\ NowMet'
    <2>1. Answered(o, a, no, na, delay) /\ Head(no) = Message("Answer", a.pc, Since(a))
        BY <1>2, <1>6 DEF GotAnswer, Got
    <2>2. Head(no).pc = a.pc /\ o.remote = 0
        BY <2>1 DEF Message, Answered
    <2>3. PICK p \in PlayerType :
              /\ p.known = o.known /\ p.pc = o.pc /\ p.timer = o.timer /\ p.made = o.made
              /\ p.attempts = o.attempts /\ p.remote = a.pc
              /\ player' = [player EXCEPT !["offerer"] = p]
        BY <1>6, <2>2, GotAnswerFacts
    <2>4. player'["offerer"] = p /\ player'["answerer"] = a
        BY <2>3 DEF Typed, Side
    <2>5. net'["offerer"] = << >> /\ net'["answerer"] = << >>
        BY <1>6, <2>1, TakenTyped, Short DEF Answered, GotAnswer, Got, Side
    <2>6. Met(p, a, << >>, << >>, dud, failures, delay)
        BY <1>1, <2>1, <2>3, BothTyped, MetGotAnswer
    <2> QED
        BY <1>6, <2>4, <2>5, <2>6 DEF NowMet, GotAnswer
<1>7. ASSUME Connects
      PROVE  gone' = {} /\ NowMet'
    <2>1. PICK q : q = player'["answerer"]
        OBVIOUS
    <2>2. /\ player'["offerer"] = o /\ q.known = a.known /\ q.pc = a.pc /\ q.remote = a.remote
          /\ q.timer = a.timer /\ q.attempts = a.attempts
        BY <1>7, <2>1, BothTyped DEF Connects, Typed, Side, PlayerType
    <2>3. Met(o, q, no, na, dud, failures, delay)
        <3>1. Since(q) = Since(a)
            BY <2>2 DEF Since
        <3> QED
            BY <1>1, <2>2, <3>1 DEF Met, Numbers, Skew, Offered, Answered, Quiet, Works
    <2> QED
        BY <1>7, <2>1, <2>2, <2>3 DEF NowMet, Connects
<1>8. ASSUME Breaks
      PROVE  gone' = {} /\ NowMet'
    <2>1. o.remote # 0
        BY <1>8 DEF Breaks, Matched, Side
    <2>2. Met(o, a, no, na, <<o.pc, a.pc>>, failures + 1, delay)
        BY <1>1, <2>1, BothTyped, MetBreaks
    <2> QED
        BY <1>8, <2>2 DEF NowMet, Breaks, Fail, Pair
<1>9. ASSUME Tick
      PROVE  gone' = {} /\ NowMet'
    <2>1. PICK p \in PlayerType, q \in PlayerType : p = player'["offerer"] /\ q = player'["answerer"]
        BY <1>9, TickFacts DEF Side
    <2>2. net'["offerer"] = Older(no) /\ net'["answerer"] = Older(na)
        BY <1>9, TickFacts DEF Side
    <2>3. UNCHANGED <<gone, delay, dud>>
        BY <1>9 DEF Tick
    <2>4. o.known /\ a.known /\ o.pc # 0
        BY <1>1, BothTyped, PlayerFields DEF Met, Numbers
    <2>5. CASE Linked
        <3>1. a.pc # 0 /\ a.remote = o.pc /\ o.remote = a.pc /\ dud # <<o.pc, a.pc>>
            BY <2>5 DEF Linked, Matched, Pair, Side
        <3>2. /\ p.known = o.known /\ p.pc = o.pc /\ p.remote = o.remote /\ p.made = o.made
              /\ p.timer = sdp_timeout /\ p.attempts = 0
              /\ q.known = a.known /\ q.pc = a.pc /\ q.remote = a.remote
              /\ q.timer = sdp_timeout /\ q.attempts = 0
            BY <1>9, <2>1, <2>5, TickFacts DEF Side
        <3>3. Met(p, q, Older(no), Older(na), dud, 0, delay)
            BY <1>1, <3>1, <3>2, BothTyped, MetPong
        <3>4. failures' = 0
            BY <1>9, <2>5 DEF Tick
        <3> QED
            BY <2>1, <2>2, <2>3, <3>3, <3>4 DEF NowMet
    <2>6. CASE ~Linked
        <3>1. ~Works(o, a, dud, delay)
            BY <1>9, <2>4, <2>6 DEF Tick, Works, Matched, Pair, Side
        <3>2. Aged(o, p) /\ Aged(a, q)
            BY <1>9, <2>1, <2>6, TickFacts DEF Aged, Side
        <3>3. /\ o.timer = 0 => o.attempts > MAX_RENEGOTIATION_ATTEMPTS
              /\ a.timer = 0 => a.attempts > MAX_RENEGOTIATION_ATTEMPTS
            BY <1>9, <2>4 DEF Tick, Side
        <3>4. Offered(o, a, no, na, delay) => Since(o) < delay
            <4>1. ASSUME NEW m, na = <<m>>
                  PROVE  m.age < delay
                BY <1>9, <4>1 DEF Tick, Side
            <4> QED
                BY <4>1 DEF Offered, Message
        <3>5. Answered(o, a, no, na, delay) => Since(a) < delay
            <4>1. ASSUME NEW m, no = <<m>>
                  PROVE  m.age < delay
                BY <1>9, <4>1 DEF Tick, Side
            <4> QED
                BY <4>1 DEF Answered, Message
        <3>6. Met(p, q, Older(no), Older(na), dud, failures, delay)
            BY <1>1, <3>1, <3>2, <3>3, <3>4, <3>5, BothTyped, MetTick
        <3>7. failures' = failures
            BY <1>9, <2>6 DEF Tick
        <3> QED
            BY <2>1, <2>2, <2>3, <3>6, <3>7 DEF NowMet
    <2> QED
        BY <2>5, <2>6
<1> QED
    BY <1>3, <1>4, <1>5, <1>6, <1>7, <1>8, <1>9, MetTimeout DEF PeeringNext

\* With relays that take less than half of sdp_timeout, and unless the Joined of one of
\* the two was lost, a player leaves only after more failures of the network than MAX_RENEGOTIATION_ATTEMPTS: NutBlast_Update
\* never counts an attempt against a player because of how the two clocks stand to
\* each other, a description that is still under way, or an earlier negotiation.
THEOREM LeavingHasReasonsHolds == PeeringSpec => []LeavingHasReasons
<1>1. PeeringInit => Typed /\ Reasons
    <2> SUFFICES ASSUME PeeringInit
                 PROVE  Typed /\ Reasons
        OBVIOUS
    <2>1. Message("Joined", 0, 0) = [type |-> "Joined", pc |-> 0, age |-> 0]
        BY DEF Message
    <2>2. Message("Joined", 0, 0) \in MessageType
        BY DEF Message, MessageType
    <2>3. <<Message("Joined", 0, 0)>> \in Seq(MessageType)
        BY <2>2
    <2>4. Typed
        BY <2>1, <2>3, NoPlayerTyped, PeeringAssumption DEF PeeringInit, Typed
    <2>5. /\ player["offerer"] = NoPlayer /\ net["offerer"] = <<Message("Joined", 0, 0)>>
          /\ player["answerer"] = NoPlayer /\ net["answerer"] = <<Message("Joined", 0, 0)>>
          /\ dud[1] = 0 /\ gone = {} /\ delay \in Nat
        BY <2>1, <2>4 DEF PeeringInit, Side, Typed
    <2>6. Stranger(NoPlayer)
        BY DEF Stranger, NoPlayer
    <2>7. NoneKnows(0, player["offerer"], player["answerer"], net["offerer"], net["answerer"])
        BY <2>5, <2>6 DEF NoneKnows
    <2> QED
        BY <2>4, <2>5, <2>7 DEF Reasons, NowMeeting, Meeting
<1>2. ASSUME Typed /\ Reasons, [PeeringNext]_vars
      PROVE  (Typed /\ Reasons)'
    <2>1. Typed'
        BY <1>2, NextTyped
    <2>2. CASE UNCHANGED vars
        BY <1>2, <2>1, <2>2 DEF vars, Reasons, NowMeeting, NowMet, Decided
    <2>3. CASE PeeringNext
        <3>1. delay' = delay /\ missed \subseteq missed'
            BY <2>3 DEF PeeringNext, Joined, Unclaimed, GotLeft, GotPong, Forgets, Timeout,
                        Loses, GotOffer, GotAnswer, Connects, Breaks, Tick
        <3> SUFFICES ASSUME 2 * delay < sdp_timeout, missed' = {}
                     PROVE  (gone' = {} /\ (NowMeeting' \/ NowMet')) \/ Decided'
            BY <2>1, <3>1 DEF Reasons
        <3>2. CASE gone = {} /\ NowMeeting
            BY <1>2, <2>3, <3>2, MeetingStep
        <3>3. CASE gone = {} /\ NowMet
            BY <1>2, <2>3, <3>3, MetStep
        <3>4. CASE Decided
            BY <1>2, <2>3, <3>4, DecidedStep
        <3> QED
            BY <1>2, <3>1, <3>2, <3>3, <3>4 DEF Reasons
    <2> QED
        BY <1>2, <2>2, <2>3
<1>3. Typed /\ Reasons => LeavingHasReasons
    BY DEF Reasons, Decided, LeavingHasReasons
<1> QED
    BY <1>1, <1>2, <1>3, PTL DEF PeeringSpec
=============================================================================
