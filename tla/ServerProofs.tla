---------------------------- MODULE ServerProofs ----------------------------
(***************************************************************************)
(* Proofs about the whole server: operations in flight and the sessions    *)
(* that sent them agree, no player is left without a session that will     *)
(* remove it, and sessions are counted once and uncounted once.            *)
(***************************************************************************)
EXTENDS Server, LimitsProofs

-----------------------------------------------------------------------------
(* The inductive invariant *)

\* What a session's fields say about one another: only a served session has a
\* player, and an answer is there only for a task that waits for one.
SessionsOK ==
    \A s \in Session :
        /\ sess[s].state # "closed" => sess[s].ip \in Ip
        /\ sess[s].pid # NULL => sess[s].state \in {"loop", "pinging", "ending", "dropping"}
        /\ sess[s].answer # None => sess[s].state \in Waiting
        /\ \A p \in Pid : sess[s].answer = Ok(p) => sess[s].state = "entering"

\* The state in which a session waits for the answer to a question.
Awaits(state, type) ==
    \/ type = "IntroduceSession" /\ state = "introducing"
    \/ type \in {"HostLobby", "JoinLobby"} /\ state = "entering"
    \/ type = "ListLobbies" /\ state = "listing"
    \/ type = "AssemblePong" /\ state = "pinging"

\* A question in the channel is the only one of its session, which waits for
\* its answer and has none yet: no answer overwrites another.
QuestionsOK ==
    \A i \in DOMAIN ops : ops[i].type \in Questions =>
        /\ sess[ops[i].s].answer = None
        /\ Awaits(sess[ops[i].s].state, ops[i].type)
        /\ \A j \in DOMAIN ops :
              ops[j].type \in Questions /\ ops[j].s = ops[i].s => j = i

\* The session that holds the receiving end of a player's channel.
Owner(s, p) ==
    \/ sess[s].pid = p /\ sess[s].state \in InServe
    \/ sess[s].answer = Ok(p)

\* Owners keep the channel open (which keeps the id from being drawn again), are
\* unique, and registered players have one until their removal is on its way.
OwnersOK ==
    /\ \A s \in Session, p \in Pid : Owner(s, p) => p \in DOMAIN outbox
    /\ \A s, t \in Session, p \in Pid : Owner(s, p) /\ Owner(t, p) => s = t
    /\ \A p \in DOMAIN players : (\E s \in Session : Owner(s, p)) \/ RemovalPending(p)

TypesOK == sess \in [Session -> SessionState] /\ ops \in Seq(Op)
SInv == IInv /\ TypesOK /\ SessionsOK /\ QuestionsOK /\ OwnersOK

-----------------------------------------------------------------------------
(* The channel of operations *)

\* Sending an operation, and taking the first one.
LEMMA AppendFacts ==
    ASSUME ops \in Seq(Op), NEW op \in Op, ops' = Append(ops, op)
    PROVE  /\ ops' \in Seq(Op) /\ Len(ops) \in Nat /\ Len(ops) + 1 \notin DOMAIN ops
           /\ DOMAIN ops' = DOMAIN ops \cup {Len(ops) + 1}
           /\ \A i \in DOMAIN ops : ops'[i] = ops[i]
           /\ ops'[Len(ops) + 1] = op
BY DEF Seq

LEMMA TailFacts ==
    ASSUME ops \in Seq(Op), ops # << >>, ops' = Tail(ops)
    PROVE  /\ ops' \in Seq(Op)
           /\ 1 \in DOMAIN ops /\ Head(ops) = ops[1] /\ Head(ops) \in Op
           /\ \A i \in DOMAIN ops' : i + 1 \in DOMAIN ops /\ i + 1 # 1 /\ ops'[i] = ops[i + 1]
           /\ \A i \in DOMAIN ops \ {1} : i - 1 \in DOMAIN ops' /\ ops'[i - 1] = ops[i]
<1>1. /\ Len(ops) \in Nat /\ Len(ops) >= 1 /\ DOMAIN ops = 1 .. Len(ops)
      /\ \A i \in 1 .. Len(ops) : ops[i] \in Op
    BY EmptySeq, ElementOfSeq
<1>2. /\ Tail(ops) \in Seq(Op) /\ Head(ops) \in Op /\ Len(Tail(ops)) = Len(ops) - 1
      /\ \A i \in 1 .. Len(Tail(ops)) : Tail(ops)[i] = ops[i + 1]
    BY HeadTailProperties
<1>3. DOMAIN Tail(ops) = 1 .. (Len(ops) - 1)
    BY <1>2
<1> QED
    BY <1>1, <1>2, <1>3

\* The fields that an operation of each type has.
LEMMA OpFacts ==
    ASSUME NEW op \in Op
    PROVE  /\ op.type \in Questions => op.s \in Session
           /\ op.type \in Requests \cup {"RemovePlayer"} => op.pid \in Pid
           /\ op.type = "RemovePlayer" => op.reason \in Reason
           /\ op.type = "CloseSession" => op.ip \in Ip
           /\ op.type \in Questions \cup Requests \cup {"RemovePlayer", "CloseSession", "Prune"}
BY DEF Op, Questions, Requests

LEMMA SessionFields ==
    ASSUME TypesOK, NEW s \in Session
    PROVE  /\ sess[s] \in SessionState /\ sess[s].state \in State
           /\ sess[s].ip \in Ip \cup {None} /\ sess[s].pid \in Pid \cup {NULL}
           /\ sess[s].bye \in Reason /\ sess[s].answer \in Answer \cup {None}
BY DEF TypesOK, SessionState

LEMMA ClosedFacts ==
    /\ Closed \in SessionState /\ Closed.pid = NULL /\ Closed.answer = None
    /\ Closed.state = "closed" /\ Closed.ip = None
BY DEF Closed, SessionState, State, Reason

LEMMA OpsFacts ==
    ASSUME TypesOK, NEW i \in DOMAIN ops
    PROVE  ops[i] \in Op /\ (ops[i].type \in Questions => ops[i].s \in Session)
<1>1. ops[i] \in Op
    BY ElementOfSeq DEF TypesOK
<1> QED
    BY <1>1, OpFacts

\* Answers are told apart: by their pid when they have one, by None otherwise.
LEMMA AnswerFacts ==
    /\ \A p \in Pid : Ok(p) # None /\ Ok(p) # Done /\ Ok(p) # Refused /\ Ok(p) # Lost
    /\ \A p \in Pid : \A c : Ok(p) # Err(c)
    /\ \A p, q \in Pid : Ok(p) = Ok(q) => p = q
    /\ \A p \in Pid : Ok(p).pid = p
    /\ Done \in Answer /\ Refused \in Answer /\ Lost \in Answer
    /\ None \notin Answer /\ Done # Refused /\ Done # Lost
    /\ \A a \in Answer : a.pid \in Pid => a = Ok(a.pid)
    /\ \A a \in Answer : a.pid \in Pid \cup {NULL}
BY IdsAssumption, AnswerAssumption DEF Ok, Err, Done, Refused, Lost, Answer, Replies

-----------------------------------------------------------------------------
(* The sessions' own steps *)

\* A session that awaits no answer, or has it, has no question in the channel.
LEMMA NoQuestion ==
    ASSUME SInv, NEW s \in Session, sess[s].state \notin Waiting \/ sess[s].answer # None
    PROVE  \A i \in DOMAIN ops : ops[i].type \in Questions => ops[i].s # s
BY DEF SInv, QuestionsOK, Awaits, Waiting

\* What must be kept of the owners when the registry loses at most players.
LEMMA OwnersKept ==
    ASSUME SInv, \A s \in Session, p \in Pid : Owner(s, p)' <=> Owner(s, p),
           DOMAIN outbox' = DOMAIN outbox, DOMAIN players' \subseteq DOMAIN players,
           \A p \in DOMAIN players' : RemovalPending(p) => RemovalPending(p)'
    PROVE  OwnersOK'
<1> USE DEF SInv, IInv, TablesOK
<1>1. \A s \in Session, p \in Pid : Owner(s, p)' => p \in DOMAIN outbox'
    BY DEF OwnersOK
<1>2. \A s, t \in Session, p \in Pid : Owner(s, p)' /\ Owner(t, p)' => s = t
    BY DEF OwnersOK
<1>3. \A p \in DOMAIN players' : (\E s \in Session : Owner(s, p)') \/ RemovalPending(p)'
    BY DEF OwnersOK
<1> QED
    BY <1>1, <1>2, <1>3 DEF OwnersOK

\* A session takes a step of its own: nothing is sent and nobody is let go.
LEMMA LocalStep ==
    ASSUME SInv, IInv', UNCHANGED ops, UNCHANGED players, DOMAIN outbox' = DOMAIN outbox,
           NEW s \in Session, NEW new \in SessionState,
           sess' = [sess EXCEPT ![s] = new],
           sess[s].state \notin Waiting \/ sess[s].answer # None,
           new.state # "closed" => new.ip \in Ip,
           new.pid # NULL => new.state \in {"loop", "pinging", "ending", "dropping"},
           new.answer = None,
           \A p \in Pid : new.pid = p /\ new.state \in InServe <=> Owner(s, p)
    PROVE  SInv'
<1>1. /\ sess'[s] = new /\ \A t \in Session \ {s} : sess'[t] = sess[t]
      /\ sess' \in [Session -> SessionState]
    BY DEF SInv, TypesOK
<1>3. TypesOK'
    BY <1>1 DEF SInv, TypesOK
<1>4. SessionsOK'
    BY <1>1, AnswerFacts DEF SInv, SessionsOK
<1>5. QuestionsOK'
  <2> SUFFICES ASSUME NEW i \in DOMAIN ops, ops[i].type \in Questions
               PROVE  /\ sess'[ops[i].s].answer = None
                      /\ Awaits(sess'[ops[i].s].state, ops[i].type)
                      /\ \A j \in DOMAIN ops :
                            ops[j].type \in Questions /\ ops[j].s = ops[i].s => j = i
      BY DEF QuestionsOK, Awaits
  <2>1. ops[i].s # s /\ ops[i].s \in Session
      BY NoQuestion, OpsFacts DEF SInv
  <2> QED
      BY <1>1, <2>1 DEF SInv, QuestionsOK
<1>6. OwnersOK'
  <2>1. \A t \in Session, p \in Pid : Owner(t, p)' <=> Owner(t, p)
      BY <1>1, AnswerFacts DEF Owner
  <2>2. \A p : RemovalPending(p)' <=> RemovalPending(p)
      BY DEF RemovalPending
  <2> QED
      BY <2>1, <2>2, OwnersKept
<1> QED
    BY <1>3, <1>4, <1>5, <1>6 DEF SInv

\* A session asks, and waits.
LEMMA AskStep ==
    ASSUME SInv, UNCHANGED vars, NEW s \in Session, NEW new \in SessionState,
           NEW type \in Questions,
           sess' = [sess EXCEPT ![s] = new], ops' = Append(ops, [type |-> type, s |-> s]),
           sess[s].state \in {"closed", "loop"}, Awaits(new.state, type),
           new.ip \in Ip, new.pid # NULL => new.state = "pinging", new.answer = None,
           \A p \in Pid : new.pid = p /\ new.state \in InServe <=> Owner(s, p)
    PROVE  SInv'
<1> DEFINE op == [type |-> type, s |-> s]
<1>0. op \in Op /\ op.type = type /\ op.s = s
    BY DEF Op
<1>1. /\ sess'[s] = new /\ \A t \in Session \ {s} : sess'[t] = sess[t]
      /\ sess' \in [Session -> SessionState]
    BY DEF SInv, TypesOK
<1> HIDE DEF op
<1>2. /\ ops' \in Seq(Op) /\ Len(ops) + 1 \notin DOMAIN ops
      /\ DOMAIN ops' = DOMAIN ops \cup {Len(ops) + 1}
      /\ \A i \in DOMAIN ops : ops'[i] = ops[i]
      /\ ops'[Len(ops) + 1] = op
    BY <1>0, AppendFacts DEF SInv, TypesOK, op
<1>3. IInv'
    BY StutterStep DEF SInv
<1>4. TypesOK'
    BY <1>1, <1>2 DEF TypesOK
<1>5. SessionsOK'
  <2>1. new.state \in Waiting
      BY DEF Awaits, Waiting
  <2>2. \A p \in Pid : Ok(p) # None
      BY AnswerFacts
  <2> QED
      BY <1>1, <2>1, <2>2 DEF SInv, SessionsOK
<1>6. QuestionsOK'
  <2> SUFFICES ASSUME NEW i \in DOMAIN ops', ops'[i].type \in Questions
               PROVE  /\ sess'[ops'[i].s].answer = None
                      /\ Awaits(sess'[ops'[i].s].state, ops'[i].type)
                      /\ \A j \in DOMAIN ops' :
                            ops'[j].type \in Questions /\ ops'[j].s = ops'[i].s => j = i
      BY DEF QuestionsOK, Awaits
  <2>1. \A j \in DOMAIN ops : ops[j].type \in Questions => ops[j].s # s /\ ops[j].s \in Session
      BY NoQuestion, OpsFacts DEF SInv, Waiting
  <2>2. CASE i = Len(ops) + 1
      BY <1>0, <1>1, <1>2, <2>1, <2>2
  <2>3. CASE i # Len(ops) + 1
    <3>1. i \in DOMAIN ops /\ ops'[i] = ops[i] /\ ops[i].s # s /\ ops[i].s \in Session
        BY <1>2, <2>1, <2>3
    <3> QED
        BY <1>0, <1>1, <1>2, <3>1 DEF SInv, QuestionsOK
  <2> QED
      BY <2>2, <2>3
<1>7. OwnersOK'
  <2>1. \A t \in Session, p \in Pid : Owner(t, p)' <=> Owner(t, p)
      BY <1>1, AnswerFacts DEF Owner
  <2>2. \A p : RemovalPending(p) => RemovalPending(p)'
      BY <1>2 DEF RemovalPending
  <2> QED
      BY <2>1, <2>2, OwnersKept DEF vars
<1> QED
    BY <1>3, <1>4, <1>5, <1>6, <1>7 DEF SInv

\* An operation is sent that nobody waits for.
LEMMA TellStep ==
    ASSUME SInv, UNCHANGED <<vars, sess>>, NEW op \in Op, op.type \notin Questions,
           ops' = Append(ops, op)
    PROVE  SInv'
<1>1. /\ ops' \in Seq(Op) /\ Len(ops) + 1 \notin DOMAIN ops
      /\ DOMAIN ops' = DOMAIN ops \cup {Len(ops) + 1}
      /\ \A i \in DOMAIN ops : ops'[i] = ops[i]
      /\ ops'[Len(ops) + 1] = op
    BY AppendFacts DEF SInv, TypesOK
<1>2. IInv'
    BY StutterStep DEF SInv
<1>3. TypesOK' /\ SessionsOK'
    BY <1>1 DEF SInv, TypesOK, SessionsOK
<1>4. QuestionsOK'
    BY <1>1 DEF SInv, QuestionsOK, Awaits
<1>5. OwnersOK'
  <2>1. \A t \in Session, p \in Pid : Owner(t, p)' <=> Owner(t, p)
      BY DEF Owner
  <2>2. \A p : RemovalPending(p) => RemovalPending(p)'
      BY <1>1 DEF RemovalPending
  <2> QED
      BY <2>1, <2>2, OwnersKept DEF vars
<1> QED
    BY <1>2, <1>3, <1>4, <1>5 DEF SInv

LEMMA AcceptStep ==
    ASSUME SInv, NEW s \in Session, NEW ip \in Ip, Accept(s, ip)
    PROVE  SInv'
<1> DEFINE new == [Closed EXCEPT !.state = "introducing", !.ip = ip]
<1>1. Closed \in SessionState /\ Closed.pid = NULL /\ Closed.answer = None
    BY ClosedFacts
<1>2. /\ new \in SessionState /\ new.ip \in Ip /\ new.pid = NULL /\ new.answer = None
      /\ new.state = "introducing" /\ Awaits(new.state, "IntroduceSession")
    BY <1>1 DEF SessionState, State, Waiting, Reason, Awaits
<1>3. /\ sess[s].state = "closed" /\ sess' = [sess EXCEPT ![s] = new]
      /\ ops' = Append(ops, [type |-> "IntroduceSession", s |-> s]) /\ UNCHANGED vars
    BY DEF Accept, Execute
<1>4. \A p \in Pid : ~Owner(s, p)
    BY <1>3, AnswerFacts DEF SInv, SessionsOK, Owner, InServe, Waiting
<1>5. "IntroduceSession" \in Questions /\ "introducing" \notin InServe
    BY DEF Questions, InServe
<1> HIDE DEF new
<1> QED
    BY <1>2, <1>3, <1>4, <1>5, AskStep

LEMMA ClientAsks ==
    ASSUME SInv, NEW s \in Session, Host(s) \/ Join(s) \/ List(s) \/ Ping(s)
    PROVE  SInv'
<1>1. PICK state \in {"entering", "listing", "pinging"}, type \in Questions :
          /\ Ask(s, state, [type |-> type, s |-> s]) /\ Awaits(state, type)
          /\ sess[s].pid # NULL => state = "pinging"
    BY DEF Host, Join, List, Ping, Questions, Awaits
<1> DEFINE new == [sess[s] EXCEPT !.state = state]
<1>2. /\ sess[s].state = "loop" /\ sess' = [sess EXCEPT ![s] = new] /\ UNCHANGED vars
      /\ ops' = Append(ops, [type |-> type, s |-> s])
    BY <1>1 DEF Ask, Goto, Execute, SInv, TypesOK, SessionState
<1>3. /\ new \in SessionState /\ new.state = state /\ new.ip = sess[s].ip
      /\ new.pid = sess[s].pid /\ new.answer = sess[s].answer
    BY SessionFields DEF SInv, SessionState, State, Waiting
<1>4. new.ip \in Ip /\ new.answer = None
    BY <1>2, <1>3 DEF SInv, SessionsOK, Waiting
<1>5. \A p \in Pid : new.pid = p /\ new.state \in InServe <=> Owner(s, p)
    BY <1>2, <1>3, <1>4, AnswerFacts DEF Owner, InServe
<1> HIDE DEF new
<1> QED
    BY <1>1, <1>2, <1>3, <1>4, <1>5, AskStep

LEMMA ClientTells ==
    ASSUME SInv, NEW s \in Session, Request(s) \/ Leave(s)
    PROVE  SInv'
<1>1. sess[s].pid \in Pid
    BY SessionFields DEF SInv, Request, Leave, Tell
<1>2. CASE Request(s)
  <2>1. PICK type \in Requests : Tell(s, [type |-> type, pid |-> sess[s].pid])
      BY <1>2 DEF Request
  <2>2. [type |-> type, pid |-> sess[s].pid] \in Op /\ type \notin Questions
      BY <1>1 DEF Op, Requests, Questions
  <2> QED
      BY <2>1, <2>2, TellStep DEF Tell, Execute
<1>3. CASE Leave(s)
  <2>1. PICK reason \in Reason :
            Tell(s, [type |-> "RemovePlayer", pid |-> sess[s].pid, reason |-> reason])
      BY <1>3 DEF Leave
  <2>2. /\ [type |-> "RemovePlayer", pid |-> sess[s].pid, reason |-> reason] \in Op
        /\ "RemovePlayer" \notin Questions
      BY <1>1 DEF Op, Questions
  <2> QED
      BY <2>1, <2>2, TellStep DEF Tell, Execute
<1> QED
    BY <1>2, <1>3

LEMMA TimerStep ==
    ASSUME SInv, PruneTimer
    PROVE  SInv'
<1>1. [type |-> "Prune"] \in Op /\ [type |-> "Prune"].type \notin Questions
    BY DEF Op, Questions
<1> QED
    BY <1>1, TellStep DEF PruneTimer, Execute

\* The loop is left; the upgrade succeeds or fails.
LEMMA MoveStep ==
    ASSUME SInv, NEW s \in Session,
           Handshake(s) \/ Violate(s) \/ ClientGone(s) \/ IdleTimeout(s)
    PROVE  SInv'
<1>1. PICK state \in {"loop", "ending", "dropping"}, bye \in Reason :
          /\ sess' = [sess EXCEPT ![s] = [sess[s] EXCEPT !.state = state, !.bye = bye]]
          /\ UNCHANGED <<vars, ops>>
          /\ \/ sess[s].state = "handshake" /\ state \in {"loop", "dropping"}
             \/ sess[s].state = "loop" /\ state = "ending"
  <2>1. \A st : [sess EXCEPT ![s].state = st]
                 = [sess EXCEPT ![s] = [sess[s] EXCEPT !.state = st, !.bye = sess[s].bye]]
      BY SessionFields DEF SInv, TypesOK, SessionState
  <2>2. [sess EXCEPT ![s].state = "ending", ![s].bye = "Violation"]
            = [sess EXCEPT ![s] = [sess[s] EXCEPT !.state = "ending", !.bye = "Violation"]]
      BY SessionFields DEF SInv, TypesOK, SessionState
  <2>3. sess[s].bye \in Reason /\ "Violation" \in Reason
      BY SessionFields DEF SInv, Reason
  <2> QED
      BY <2>1, <2>2, <2>3 DEF Handshake, Violate, ClientGone, IdleTimeout, Goto, Quit
<1> DEFINE new == [sess[s] EXCEPT !.state = state, !.bye = bye]
<1>2. /\ new \in SessionState /\ new.state = state /\ new.ip = sess[s].ip
      /\ new.pid = sess[s].pid /\ new.answer = sess[s].answer
    BY SessionFields DEF SInv, SessionState, State, Waiting, InServe
<1>3. /\ new.ip \in Ip /\ new.answer = None /\ sess[s].state \notin Waiting
      /\ sess[s].state = "handshake" => sess[s].pid = NULL
    BY <1>1, <1>2 DEF SInv, SessionsOK, Waiting
<1>4. \A p \in Pid : new.pid = p /\ new.state \in InServe <=> Owner(s, p)
    BY <1>1, <1>2, <1>3, AnswerFacts, IdsAssumption DEF Owner, InServe
<1>5. new.pid # NULL => new.state \in {"loop", "pinging", "ending", "dropping"}
    BY <1>2
<1> HIDE DEF new
<1> QED
    BY <1>1, <1>2, <1>3, <1>4, <1>5, LocalStep, StutterStep DEF new, vars, SInv

\* The answer arrives: only an answer to Host or Join brings a player.
LEMMA ResumeStep ==
    ASSUME SInv, NEW s \in Session, Resume(s)
    PROVE  SInv'
<1> DEFINE answer == sess[s].answer
           next == CASE sess[s].state = "introducing" ->
                    IF answer = Done THEN "handshake" ELSE "closed"
              [] sess[s].state = "entering" ->
                    IF answer.pid # NULL \/ answer = Lost THEN "loop" ELSE "ending"
              [] sess[s].state = "listing" -> "ending"
              [] sess[s].state = "pinging" -> "loop"
           pid == IF sess[s].pid = NULL THEN answer.pid ELSE sess[s].pid
           bye == IF next = "ending" /\ answer \notin {Done, Lost}
                  THEN "Violation" ELSE sess[s].bye
           moved == [sess[s] EXCEPT !.state = next, !.answer = None, !.pid = pid, !.bye = bye]
           new == IF next = "closed" THEN Closed ELSE moved
<1>1. /\ sess[s].state \in Waiting /\ answer # None /\ sess' = [sess EXCEPT ![s] = new]
      /\ UNCHANGED <<vars, ops>>
    BY DEF Resume
<1>2. /\ answer \in Answer /\ answer.pid \in Pid \cup {NULL}
      /\ answer.pid \in Pid => answer = Ok(answer.pid) /\ sess[s].state = "entering"
      /\ sess[s].ip \in Ip /\ sess[s].pid \in Pid \cup {NULL} /\ sess[s].bye \in Reason
      /\ sess[s].pid # NULL => sess[s].state = "pinging"
      /\ "Violation" \in Reason
    BY <1>1, SessionFields, AnswerFacts DEF SInv, SessionsOK, Waiting, Reason
<1>3. /\ next \in {"handshake", "closed", "loop", "ending"}
      /\ sess[s].state = "introducing" => next \in {"handshake", "closed"}
      /\ sess[s].state \in {"entering", "listing", "pinging"} => next \in {"loop", "ending"}
    BY <1>1 DEF Waiting
<1>4. /\ pid \in Pid \cup {NULL} /\ bye \in Reason
      /\ \A p \in Pid : pid = p <=> sess[s].pid = p \/ answer = Ok(p)
    BY <1>2, AnswerFacts, IdsAssumption
<1>5. pid # NULL => next \in {"loop", "ending"}
    BY <1>1, <1>2, <1>3 DEF Waiting
<1> HIDE DEF next, pid, bye, answer
<1>6. /\ moved \in SessionState /\ moved.state = next /\ moved.ip = sess[s].ip
      /\ moved.pid = pid /\ moved.answer = None
    BY <1>3, <1>4, SessionFields DEF SInv, SessionState, State, InServe
<1> HIDE DEF moved
<1>7. /\ new \in SessionState /\ new.state = next /\ new.answer = None
      /\ new.state # "closed" => new.ip \in Ip
      /\ new.pid # NULL => new.state \in {"loop", "pinging", "ending", "dropping"}
    BY <1>2, <1>5, <1>6, ClosedFacts
<1>8. \A p \in Pid : new.pid = p /\ new.state \in InServe <=> Owner(s, p)
  <2>1. CASE sess[s].state = "introducing"
    <3>1. \A p \in Pid : ~Owner(s, p)
        BY <2>1 DEF Owner, InServe, SInv, SessionsOK
    <3>2. new.state \notin InServe
        BY <2>1, <1>3, <1>7 DEF InServe
    <3> QED
        BY <3>1, <3>2
  <2>2. CASE sess[s].state # "introducing"
    <3>1. next \in InServe /\ next # "closed" /\ sess[s].state \in InServe
        BY <1>1, <1>3, <2>2 DEF Waiting, InServe
    <3>2. new = moved
        BY <3>1
    <3> QED
        BY <1>4, <1>6, <3>1, <3>2 DEF Owner, answer
  <2> QED
      BY <2>1, <2>2
<1>9. IInv' /\ UNCHANGED players /\ DOMAIN outbox' = DOMAIN outbox
    BY <1>1, StutterStep DEF SInv, vars
<1> HIDE DEF new
<1> QED
    BY <1>1, <1>7, <1>8, <1>9, LocalStep DEF answer

\* A Disconnected in a channel carries a reason.
LEMMA DisconnectedFacts ==
    ASSUME NEW m \in Message, m.type = "Disconnected"
    PROVE  m.reason \in Reason
BY DEF Message

LEMMA DrainStep ==
    ASSUME SInv, NEW s \in Session, Drain(s)
    PROVE  SInv'
<1> DEFINE pid == sess[s].pid
           m == Head(outbox[pid])
           left == [sess[s] EXCEPT !.state = "ending", !.bye = m.reason]
           new == IF m.type = "Disconnected" THEN left ELSE sess[s]
<1>1. /\ sess[s].state = "loop" /\ pid # NULL /\ Receive(pid) /\ UNCHANGED ops
      /\ sess' = IF m.type = "Disconnected"
                 THEN [sess EXCEPT ![s].state = "ending", ![s].bye = m.reason] ELSE sess
    BY DEF Drain, Quit
<1>2. pid \in Pid /\ sess[s] \in SessionState
    BY <1>1, SessionFields DEF SInv
<1>3. IInv' /\ UNCHANGED players /\ DOMAIN outbox' = DOMAIN outbox
    BY <1>1, <1>2, ReceiveHangupStep DEF SInv, Receive
<1>4. m \in Message
    BY <1>1, HeadTailProperties DEF Receive, SInv, IInv, BoxOK
<1>5. m.type = "Disconnected" => m.reason \in Reason
    BY <1>4, DisconnectedFacts
<1> HIDE DEF m, pid
<1>6. sess' = [sess EXCEPT ![s] = new]
    BY <1>1, <1>2 DEF SInv, TypesOK, SessionState
<1>7. /\ new \in SessionState /\ new.state \in {"loop", "ending"} /\ new.ip = sess[s].ip
      /\ new.pid = sess[s].pid /\ new.answer = sess[s].answer
    BY <1>1, <1>2, <1>5 DEF SessionState, State, InServe
<1>8. new.ip \in Ip /\ new.answer = None /\ sess[s].state \notin Waiting
    BY <1>1, <1>7 DEF SInv, SessionsOK, Waiting
<1>9. \A p \in Pid : new.pid = p /\ new.state \in InServe <=> Owner(s, p)
    BY <1>1, <1>7, <1>8, AnswerFacts DEF Owner, InServe
<1> HIDE DEF new
<1> QED
    BY <1>1, <1>3, <1>6, <1>7, <1>8, <1>9, LocalStep

\* The end of a session with a player: the channel is closed and the removal is
\* on its way.  Nobody else reads the channel that is closed.
LEMMA EndStep ==
    ASSUME SInv, NEW s \in Session, End(s)
    PROVE  SInv'
<1>0. PICK q \in Pid \cup {NULL} : sess[s].pid = q
    BY SessionFields DEF SInv
<1> DEFINE new == [sess[s] EXCEPT !.state = "dropping"]
<1>1. sess[s].state = "ending" /\ sess' = [sess EXCEPT ![s] = new]
    BY SessionFields DEF End, Goto, SInv, TypesOK, SessionState
<1>2. /\ new \in SessionState /\ new.state = "dropping" /\ new.ip = sess[s].ip
      /\ new.pid = q /\ new.answer = sess[s].answer
    BY <1>0, SessionFields DEF SInv, SessionState, State
<1>3. new.ip \in Ip /\ new.answer = None /\ sess[s].state \notin Waiting
    BY <1>1, <1>2 DEF SInv, SessionsOK, Waiting
<1>4. sess[s].bye \in Reason
    BY SessionFields DEF SInv
<1> HIDE DEF new
<1>5. CASE q = NULL
  <2>1. UNCHANGED <<vars, ops>>
      BY <1>0, <1>5 DEF End
  <2>2. \A p \in Pid : new.pid = p /\ new.state \in InServe <=> Owner(s, p)
      BY <1>0, <1>2, <1>3, <1>5, AnswerFacts, IdsAssumption DEF Owner, InServe
  <2>3. IInv' /\ UNCHANGED players /\ DOMAIN outbox' = DOMAIN outbox
      BY <2>1, StutterStep DEF SInv, vars
  <2> QED
      BY <1>1, <1>2, <1>3, <2>1, <2>2, <2>3, LocalStep
<1>6. CASE q # NULL
  <2> DEFINE op == [type |-> "RemovePlayer", pid |-> q, reason |-> sess[s].bye]
  <2>1. q \in Pid /\ Hangup(q) /\ ops' = Append(ops, op)
      BY <1>0, <1>6 DEF End, Execute
  <2>2. op \in Op /\ op.type = "RemovePlayer" /\ op.pid = q /\ op.type \notin Questions
      BY <1>4, <2>1 DEF Op, Questions
  <2> HIDE DEF op
  <2>3. /\ ops' \in Seq(Op) /\ Len(ops) + 1 \notin DOMAIN ops
        /\ DOMAIN ops' = DOMAIN ops \cup {Len(ops) + 1}
        /\ \A i \in DOMAIN ops : ops'[i] = ops[i]
        /\ ops'[Len(ops) + 1] = op
      BY <2>1, <2>2, AppendFacts DEF SInv, TypesOK
  <2>4. /\ sess'[s] = new /\ \A t \in Session \ {s} : sess'[t] = sess[t]
        /\ sess' \in [Session -> SessionState]
      BY <1>1, <1>2 DEF SInv, TypesOK
  <2>5. IInv'
      BY <2>1, ReceiveHangupStep DEF SInv
  <2>6. TypesOK'
      BY <2>3, <2>4 DEF TypesOK
  <2>7. SessionsOK'
      BY <1>2, <1>3, <2>4, AnswerFacts DEF SInv, SessionsOK
  <2>8. QuestionsOK'
    <3>1. \A i \in DOMAIN ops : ops[i].type \in Questions => ops[i].s # s /\ ops[i].s \in Session
        BY <1>3, NoQuestion, OpsFacts DEF SInv
    <3> SUFFICES ASSUME NEW i \in DOMAIN ops', ops'[i].type \in Questions
                 PROVE  /\ sess'[ops'[i].s].answer = None
                        /\ Awaits(sess'[ops'[i].s].state, ops'[i].type)
                        /\ \A j \in DOMAIN ops' :
                              ops'[j].type \in Questions /\ ops'[j].s = ops'[i].s => j = i
        BY DEF QuestionsOK, Awaits
    <3> QED
        BY <2>2, <2>3, <2>4, <3>1 DEF SInv, QuestionsOK
  <2>9. OwnersOK'
    <3>1. Owner(s, q) /\ \A p \in Pid : Owner(s, p) => p = q
        BY <1>0, <1>1, <1>2, <1>3, AnswerFacts DEF Owner, InServe
    <3>2. /\ \A p \in Pid : ~Owner(s, p)'
          /\ \A t \in Session \ {s}, p \in Pid : Owner(t, p)' <=> Owner(t, p)
        BY <1>2, <1>3, <2>4, AnswerFacts DEF Owner, InServe
    <3>3. \A t \in Session \ {s}, p \in Pid : Owner(t, p) => p # q
        BY <2>1, <3>1 DEF SInv, OwnersOK
    <3>4. DOMAIN outbox' = DOMAIN outbox \ {q} /\ players' = players
        BY <2>1 DEF Hangup, Without
    <3>5. /\ RemovalPending(q)' /\ \A p : RemovalPending(p) => RemovalPending(p)'
        BY <2>2, <2>3 DEF RemovalPending
    <3>6. \A t \in Session, p \in Pid : Owner(t, p)' => p \in DOMAIN outbox'
        BY <3>2, <3>3, <3>4 DEF SInv, OwnersOK
    <3>7. \A t, u \in Session, p \in Pid : Owner(t, p)' /\ Owner(u, p)' => t = u
        BY <3>2 DEF SInv, OwnersOK
    <3>8. \A p \in DOMAIN players' : (\E t \in Session : Owner(t, p)') \/ RemovalPending(p)'
      <4> SUFFICES ASSUME NEW p \in DOMAIN players, ~RemovalPending(p)'
                   PROVE  \E t \in Session : Owner(t, p)'
          BY <3>4
      <4>1. p \in Pid /\ p # q
          BY <3>5 DEF SInv, IInv, TablesOK
      <4>2. PICK t \in Session : Owner(t, p)
          BY <3>5 DEF SInv, OwnersOK
      <4> QED
          BY <3>1, <3>2, <4>1, <4>2
    <3> QED
        BY <3>6, <3>7, <3>8 DEF OwnersOK
  <2> QED
      BY <2>5, <2>6, <2>7, <2>8, <2>9 DEF SInv
<1> QED
    BY <1>5, <1>6

\* The handle is dropped: its close is on its way, and the slot is free.
LEMMA DropStep ==
    ASSUME SInv, NEW s \in Session, DropHandle(s)
    PROVE  SInv'
<1> DEFINE op == [type |-> "CloseSession", ip |-> sess[s].ip]
<1>1. /\ sess[s].state = "dropping" /\ sess' = [sess EXCEPT ![s] = Closed]
      /\ ops' = Append(ops, op) /\ UNCHANGED vars
    BY DEF DropHandle, Execute
<1>2. op \in Op /\ op.type \notin Questions /\ sess[s].state \notin Waiting
    BY <1>1 DEF SInv, SessionsOK, Op, Questions, Waiting
<1> HIDE DEF op
<1>3. /\ ops' \in Seq(Op) /\ Len(ops) + 1 \notin DOMAIN ops
      /\ DOMAIN ops' = DOMAIN ops \cup {Len(ops) + 1}
      /\ \A i \in DOMAIN ops : ops'[i] = ops[i]
      /\ ops'[Len(ops) + 1] = op
    BY <1>1, <1>2, AppendFacts DEF SInv, TypesOK
<1>4. /\ sess'[s] = Closed /\ \A t \in Session \ {s} : sess'[t] = sess[t]
      /\ sess' \in [Session -> SessionState]
    BY <1>1, ClosedFacts DEF SInv, TypesOK
<1>5. IInv'
    BY <1>1, StutterStep DEF SInv
<1>6. TypesOK' /\ SessionsOK'
    BY <1>3, <1>4, ClosedFacts, AnswerFacts DEF SInv, TypesOK, SessionsOK
<1>7. QuestionsOK'
  <2>1. \A i \in DOMAIN ops : ops[i].type \in Questions => ops[i].s # s /\ ops[i].s \in Session
      BY <1>2, NoQuestion, OpsFacts DEF SInv
  <2> SUFFICES ASSUME NEW i \in DOMAIN ops', ops'[i].type \in Questions
               PROVE  /\ sess'[ops'[i].s].answer = None
                      /\ Awaits(sess'[ops'[i].s].state, ops'[i].type)
                      /\ \A j \in DOMAIN ops' :
                            ops'[j].type \in Questions /\ ops'[j].s = ops'[i].s => j = i
      BY DEF QuestionsOK, Awaits
  <2> QED
      BY <1>2, <1>3, <1>4, <2>1 DEF SInv, QuestionsOK
<1>8. OwnersOK'
  <2>1. \A t \in Session, p \in Pid : Owner(t, p)' <=> Owner(t, p)
    <3>1. \A p \in Pid : ~Owner(s, p) /\ ~Owner(s, p)'
        BY <1>1, <1>2, <1>4, ClosedFacts, AnswerFacts
           DEF Owner, InServe, SInv, SessionsOK
    <3>2. \A t \in Session \ {s}, p \in Pid : Owner(t, p)' <=> Owner(t, p)
        BY <1>4 DEF Owner
    <3> QED
        BY <3>1, <3>2
  <2>2. \A p : RemovalPending(p) => RemovalPending(p)'
      BY <1>3 DEF RemovalPending
  <2> QED
      BY <1>1, <2>1, <2>2, OwnersKept DEF vars
<1> QED
    BY <1>5, <1>6, <1>7, <1>8 DEF SInv

LEMMA TimeStep ==
    ASSUME SInv, TimePasses
    PROVE  SInv'
<1>1. IInv' /\ TypesOK' /\ SessionsOK' /\ QuestionsOK'
    BY TickStep DEF TimePasses, SInv, TypesOK, SessionsOK, QuestionsOK, Awaits
<1>2. \A t \in Session, p \in Pid : Owner(t, p)' <=> Owner(t, p)
    BY DEF TimePasses, Owner
<1>3. \A p : RemovalPending(p) => RemovalPending(p)'
    BY DEF TimePasses, RemovalPending
<1>4. OwnersOK'
    BY <1>2, <1>3, OwnersKept DEF TimePasses, Tick
<1> QED
    BY <1>1, <1>4 DEF SInv

-----------------------------------------------------------------------------
(* The event loop *)

\* The sessions and questions once the first operation is taken, and answered
\* when it was a question.
LEMMA AnsweredStep ==
    ASSUME SInv, ops # << >>, ops' = Tail(ops), NEW answer \in Answer,
           sess' = IF Head(ops).type \in Questions
                   THEN [sess EXCEPT ![Head(ops).s].answer = answer] ELSE sess,
           \A p \in Pid : answer = Ok(p) => Head(ops).type \in {"HostLobby", "JoinLobby"}
    PROVE  TypesOK' /\ SessionsOK' /\ QuestionsOK'
<1> DEFINE op == Head(ops)
<1>1. /\ ops' \in Seq(Op) /\ 1 \in DOMAIN ops /\ op = ops[1] /\ op \in Op
      /\ \A i \in DOMAIN ops' : i + 1 \in DOMAIN ops /\ i + 1 # 1 /\ ops'[i] = ops[i + 1]
    BY TailFacts DEF SInv, TypesOK
<1>2. \A i \in DOMAIN ops' : i \in Int
    BY <1>1 DEF Seq
<1> HIDE DEF op
<1>3. CASE op.type \in Questions
  <2> DEFINE s == op.s
             new == [sess[s] EXCEPT !.answer = answer]
  <2>1. s \in Session /\ sess[s] \in SessionState
      BY <1>1, <1>3, OpFacts, SessionFields DEF SInv
  <2>2. sess' = [sess EXCEPT ![s] = new]
      BY <1>3, <2>1 DEF op, SInv, TypesOK
  <2>3. /\ new \in SessionState /\ new.state = sess[s].state /\ new.ip = sess[s].ip
        /\ new.pid = sess[s].pid /\ new.answer = answer
      BY <2>1 DEF SessionState
  <2>4. /\ sess[s].answer = None /\ Awaits(sess[s].state, op.type)
        /\ \A j \in DOMAIN ops' : ops'[j].type \in Questions => ops'[j].s # s
      BY <1>1, <1>2, <1>3 DEF SInv, QuestionsOK
  <2> HIDE DEF s, new
  <2>5. /\ sess'[s] = new /\ \A t \in Session \ {s} : sess'[t] = sess[t]
        /\ sess' \in [Session -> SessionState]
      BY <2>1, <2>2, <2>3 DEF SInv, TypesOK
  <2>6. TypesOK'
      BY <1>1, <2>5 DEF TypesOK
  <2>7. SessionsOK'
    <3>1. sess[s].state \in Waiting
        BY <2>4 DEF Awaits, Waiting
    <3>2. \A p \in Pid : answer = Ok(p) => sess[s].state = "entering"
        BY <2>4 DEF Awaits, op
    <3> SUFFICES ASSUME NEW t \in Session
                 PROVE  /\ sess'[t].state # "closed" => sess'[t].ip \in Ip
                        /\ sess'[t].pid # NULL
                              => sess'[t].state \in {"loop", "pinging", "ending", "dropping"}
                        /\ sess'[t].answer # None => sess'[t].state \in Waiting
                        /\ \A p \in Pid : sess'[t].answer = Ok(p) => sess'[t].state = "entering"
        BY DEF SessionsOK
    <3>3. CASE t = s
      <4>1. /\ sess'[t].state = sess[s].state /\ sess'[t].ip = sess[s].ip
            /\ sess'[t].pid = sess[s].pid /\ sess'[t].answer = answer
          BY <2>3, <2>5, <3>3
      <4>2. /\ sess[s].state # "closed" => sess[s].ip \in Ip
            /\ sess[s].pid # NULL
                  => sess[s].state \in {"loop", "pinging", "ending", "dropping"}
          BY <2>1 DEF SInv, SessionsOK
      <4> QED
          BY <3>1, <3>2, <4>1, <4>2
    <3>4. CASE t # s
      <4>1. sess'[t] = sess[t]
          BY <2>5, <3>4
      <4>2. /\ sess[t].state # "closed" => sess[t].ip \in Ip
            /\ sess[t].pid # NULL
                  => sess[t].state \in {"loop", "pinging", "ending", "dropping"}
            /\ sess[t].answer # None => sess[t].state \in Waiting
            /\ \A p \in Pid : sess[t].answer = Ok(p) => sess[t].state = "entering"
          BY DEF SInv, SessionsOK
      <4> QED
          BY <4>1, <4>2
    <3> QED
        BY <3>3, <3>4
  <2>8. QuestionsOK'
    <3> SUFFICES ASSUME NEW i \in DOMAIN ops', ops'[i].type \in Questions
                 PROVE  /\ sess'[ops'[i].s].answer = None
                        /\ Awaits(sess'[ops'[i].s].state, ops'[i].type)
                        /\ \A j \in DOMAIN ops' :
                              ops'[j].type \in Questions /\ ops'[j].s = ops'[i].s => j = i
        BY DEF QuestionsOK, Awaits
    <3>1. i + 1 \in DOMAIN ops /\ ops'[i] = ops[i + 1] /\ ops'[i].s # s /\ ops'[i].s \in Session
        BY <1>1, <2>4, OpsFacts DEF SInv
    <3>2. sess'[ops'[i].s] = sess[ops[i + 1].s]
        BY <2>5, <3>1
    <3>3. \A j \in DOMAIN ops' : ops'[j].type \in Questions /\ ops'[j].s = ops'[i].s => j = i
      <4> SUFFICES ASSUME NEW j \in DOMAIN ops', ops'[j].type \in Questions, ops'[j].s = ops'[i].s
                   PROVE  j = i
          OBVIOUS
      <4>1. j + 1 = i + 1
          BY <1>1, <3>1 DEF SInv, QuestionsOK
      <4> QED
          BY <1>2, <4>1
    <3> QED
        BY <3>1, <3>2, <3>3 DEF SInv, QuestionsOK
  <2> QED
      BY <2>6, <2>7, <2>8
<1>4. CASE op.type \notin Questions
  <2>1. sess' = sess
      BY <1>4 DEF op
  <2>2. TypesOK' /\ SessionsOK'
      BY <1>1, <2>1 DEF SInv, TypesOK, SessionsOK
  <2>3. QuestionsOK'
    <3> SUFFICES ASSUME NEW i \in DOMAIN ops', ops'[i].type \in Questions
                 PROVE  /\ sess'[ops'[i].s].answer = None
                        /\ Awaits(sess'[ops'[i].s].state, ops'[i].type)
                        /\ \A j \in DOMAIN ops' :
                              ops'[j].type \in Questions /\ ops'[j].s = ops'[i].s => j = i
        BY DEF QuestionsOK, Awaits
    <3>1. i + 1 \in DOMAIN ops /\ ops'[i] = ops[i + 1]
        BY <1>1
    <3>2. \A j \in DOMAIN ops' : ops'[j].type \in Questions /\ ops'[j].s = ops'[i].s => j = i
      <4> SUFFICES ASSUME NEW j \in DOMAIN ops', ops'[j].type \in Questions, ops'[j].s = ops'[i].s
                   PROVE  j = i
          OBVIOUS
      <4>1. j + 1 = i + 1
          BY <1>1, <3>1 DEF SInv, QuestionsOK
      <4> QED
          BY <1>2, <4>1
    <3> QED
        BY <2>1, <3>1, <3>2 DEF SInv, QuestionsOK
  <2> QED
      BY <2>2, <2>3
<1> QED
    BY <1>3, <1>4

\* Removals stay in the channel until it is their turn.
LEMMA RemovalsKept ==
    ASSUME SInv, ops # << >>, ops' = Tail(ops), NEW p, RemovalPending(p),
           ~(Head(ops).type = "RemovePlayer" /\ Head(ops).pid = p)
    PROVE  RemovalPending(p)'
<1>1. PICK i \in DOMAIN ops : ops[i].type = "RemovePlayer" /\ ops[i].pid = p
    BY DEF RemovalPending
<1>2. i # 1 /\ i - 1 \in DOMAIN ops' /\ ops'[i - 1] = ops[i]
    BY <1>1, TailFacts DEF SInv, TypesOK
<1> QED
    BY <1>1, <1>2 DEF RemovalPending

\* An operation that brings no player.
LEMMA NobodyComes ==
    ASSUME SInv, IInv', ops # << >>, ops' = Tail(ops), NEW answer \in Answer,
           sess' = IF Head(ops).type \in Questions
                   THEN [sess EXCEPT ![Head(ops).s].answer = answer] ELSE sess,
           \A p \in Pid : answer # Ok(p),
           DOMAIN outbox' = DOMAIN outbox, DOMAIN players' \subseteq DOMAIN players,
           Head(ops).type = "RemovePlayer" => Head(ops).pid \notin DOMAIN players'
    PROVE  SInv'
<1>1. TypesOK' /\ SessionsOK' /\ QuestionsOK'
    BY AnsweredStep
<1>2. \A t \in Session, p \in Pid : Owner(t, p)' <=> Owner(t, p)
  <2> SUFFICES ASSUME NEW t \in Session, NEW p \in Pid PROVE Owner(t, p)' <=> Owner(t, p)
      OBVIOUS
  <2>1. /\ sess'[t].pid = sess[t].pid /\ sess'[t].state = sess[t].state
        /\ \/ sess'[t].answer = sess[t].answer
           \/ sess'[t].answer = answer /\ sess[t].answer = None
    <3>1. CASE Head(ops).type \in Questions /\ Head(ops).s = t
      <4>1. sess[t].answer = None
          BY <3>1, TailFacts DEF SInv, TypesOK, QuestionsOK
      <4> QED
          BY <3>1, <4>1, SessionFields DEF SInv, TypesOK, SessionState
    <3>2. CASE ~(Head(ops).type \in Questions /\ Head(ops).s = t)
        BY <3>2 DEF SInv, TypesOK
    <3> QED
        BY <3>1, <3>2
  <2> QED
      BY <2>1, AnswerFacts DEF Owner
<1>3. OwnersOK'
    BY <1>2, RemovalsKept, OwnersKept
<1> QED
    BY <1>1, <1>3 DEF SInv

\* Host or Join succeeds: the answer brings the player and its channel.
LEMMA SomebodyComes ==
    ASSUME SInv, IInv', ops # << >>, ops' = Tail(ops), NEW q \in FreshPid,
           Head(ops).type \in {"HostLobby", "JoinLobby"},
           sess' = [sess EXCEPT ![Head(ops).s].answer = Ok(q)],
           DOMAIN outbox' = DOMAIN outbox \cup {q}, DOMAIN players' = DOMAIN players \cup {q}
    PROVE  SInv'
<1>0. q \in Pid /\ q \notin DOMAIN outbox /\ Ok(q) \in Answer /\ Head(ops).type \in Questions
    BY DEF FreshPid, Answer, Replies, Questions
<1>1. TypesOK' /\ SessionsOK' /\ QuestionsOK'
    BY <1>0, AnsweredStep
<1>2. PICK s \in Session : s = Head(ops).s
    BY <1>0, TailFacts, OpFacts DEF SInv, TypesOK
<1>3. sess[s].answer = None
    BY <1>0, <1>2, TailFacts DEF SInv, TypesOK, QuestionsOK
<1>4. /\ \A t \in Session \ {s} : sess'[t] = sess[t]
      /\ sess'[s].pid = sess[s].pid /\ sess'[s].state = sess[s].state /\ sess'[s].answer = Ok(q)
    BY <1>2, SessionFields DEF SInv, TypesOK, SessionState
<1>5. \A t \in Session, p \in Pid : Owner(t, p)' <=> Owner(t, p) \/ (t = s /\ p = q)
  <2>1. \A t \in Session \ {s}, p \in Pid : Owner(t, p)' <=> Owner(t, p)
      BY <1>4 DEF Owner
  <2>2. \A p \in Pid : Owner(s, p)' <=> Owner(s, p) \/ p = q
      BY <1>0, <1>3, <1>4, AnswerFacts DEF Owner
  <2> QED
      BY <2>1, <2>2
<1>6. \A t \in Session : ~Owner(t, q)
    BY <1>0 DEF SInv, OwnersOK
<1>7. \A t \in Session, p \in Pid : Owner(t, p)' => p \in DOMAIN outbox'
    BY <1>5 DEF SInv, OwnersOK
<1>8. \A t, u \in Session, p \in Pid : Owner(t, p)' /\ Owner(u, p)' => t = u
    BY <1>5, <1>6 DEF SInv, OwnersOK
<1>9. \A p \in DOMAIN players' : (\E t \in Session : Owner(t, p)') \/ RemovalPending(p)'
  <2> SUFFICES ASSUME NEW p \in DOMAIN players', ~RemovalPending(p)'
               PROVE  \E t \in Session : Owner(t, p)'
      OBVIOUS
  <2>1. p \in Pid
      BY DEF IInv, TablesOK
  <2>2. CASE p = q
      BY <1>0, <1>5, <2>2
  <2>3. CASE p # q
    <3>1. p \in DOMAIN players /\ ~RemovalPending(p)
        BY <2>3, RemovalsKept
    <3>2. PICK t \in Session : Owner(t, p)
        BY <3>1 DEF SInv, OwnersOK
    <3> QED
        BY <1>5, <2>1, <3>2
  <2> QED
      BY <2>2, <2>3
<1> QED
    BY <1>1, <1>7, <1>8, <1>9 DEF SInv, OwnersOK

\* The channels that an operation without an answer leaves open.
LEMMA ObeyDomain ==
    ASSUME NEW op, Obey(op)
    PROVE  DOMAIN outbox' = DOMAIN outbox
<1>1. CASE UNCHANGED outbox
    BY <1>1
<1>2. CASE \E sent : try_send(outbox, sent)
    BY <1>2, TrySendDomain
<1>3. UNCHANGED outbox \/ \E sent : try_send(outbox, sent)
    BY DEF Obey, vars, SetListed, SetCapacity, SetMaster, KickPlayer, Relay, SetPlayerMeta,
           ErasePlayerMeta, SetLobbyMeta, EraseLobbyMeta, RemovePlayer, CloseSession, Prune,
           UpdateLobby, UpdatePlayer, Notify, boot
<1> QED
    BY <1>1, <1>2, <1>3

\* Every operation is a step of the registry.
LEMMA ObeyNext ==
    ASSUME NEW op \in Op, Obey(op)
    PROVE  Next
BY OpFacts DEF Obey, Next, Requests

\* The address of a session that asked.
LEMMA AskerFacts ==
    ASSUME SInv, ops # << >>, Head(ops).type \in Questions
    PROVE  Head(ops).s \in Session /\ sess[Head(ops).s].ip \in Ip
<1>1. 1 \in DOMAIN ops /\ Head(ops) = ops[1] /\ Head(ops) \in Op
    BY EmptySeq, ElementOfSeq, HeadTailProperties DEF SInv, TypesOK
<1>2. Head(ops).s \in Session /\ Awaits(sess[Head(ops).s].state, Head(ops).type)
    BY <1>1, OpFacts DEF SInv, QuestionsOK
<1> QED
    BY <1>2 DEF SInv, SessionsOK, Awaits

LEMMA RespondNext ==
    ASSUME SInv, ops # << >>, Respond(Head(ops))
    PROVE  [Next]_vars
<1>1. Head(ops).type \in Questions
    BY DEF Respond, Questions
<1>2. sess[Head(ops).s].ip \in Ip
    BY <1>1, AskerFacts
<1> QED
    BY <1>2 DEF Respond, Next

\* Seen from the registry, a step of the server is a step of the event loop, of
\* time or of a session at its channel, or nothing.
LEMMA RegistryStep ==
    ASSUME SInv, [ServerNext]_svars
    PROVE  [Next]_vars
<1>1. CASE EventLoop
  <2>1. CASE Respond(Head(ops))
      BY <1>1, <2>1, RespondNext DEF EventLoop
  <2>2. CASE Obey(Head(ops))
      BY <1>1, <2>2, TailFacts, ObeyNext DEF EventLoop, SInv, TypesOK
  <2> QED
      BY <1>1, <2>1, <2>2 DEF EventLoop
<1>2. CASE Panic
    BY <1>2 DEF Panic, Next
<1>3. CASE TimePasses
    BY <1>3 DEF TimePasses, Next
<1>4. CASE PruneTimer \/ UNCHANGED svars
    BY <1>4 DEF PruneTimer, svars, vars
<1>5. CASE \E s \in Session, ip \in Ip : Accept(s, ip)
    BY <1>5 DEF Accept
<1>6. ASSUME NEW s \in Session, Drain(s) \/ End(s) PROVE [Next]_vars
  <2>1. sess[s].pid \in Pid \cup {NULL}
      BY SessionFields DEF SInv
  <2> QED
      BY <1>6, <2>1 DEF Drain, End, Next
<1>7. ASSUME NEW s \in Session,
             \/ Handshake(s) \/ Resume(s) \/ DropHandle(s) \/ Host(s) \/ Join(s) \/ List(s)
             \/ Ping(s) \/ Request(s) \/ Leave(s) \/ Violate(s) \/ ClientGone(s) \/ IdleTimeout(s)
      PROVE  UNCHANGED vars
    BY <1>7 DEF Handshake, Resume, DropHandle, Host, Join, List, Ping, Request, Leave, Ask, Tell,
                Violate, ClientGone, IdleTimeout
<1> QED
    BY <1>1, <1>2, <1>3, <1>4, <1>5, <1>6, <1>7 DEF ServerNext

LEMMA ObeyStep ==
    ASSUME SInv, ops # << >>, ops' = Tail(ops), Obey(Head(ops)), UNCHANGED sess
    PROVE  SInv'
<1> DEFINE op == Head(ops)
<1>1. op \in Op
    BY TailFacts DEF SInv, TypesOK
<1>2. op.type \notin Questions
    BY DEF Obey, Questions
<1>3. IInv' /\ DOMAIN outbox' = DOMAIN outbox
    BY <1>1, ObeyNext, ObeyDomain, NextStep DEF SInv
<1>4. /\ DOMAIN players' \subseteq DOMAIN players
      /\ op.type = "RemovePlayer" => op.pid \notin DOMAIN players'
  <2>1. CASE op.type = "RemovePlayer"
    <3>1. RemovePlayer(op.pid, op.reason) /\ op.pid \in Pid /\ op.reason \in Reason
        BY <1>1, <2>1, OpFacts DEF Obey
    <3>2. \/ UNCHANGED vars /\ op.pid \notin DOMAIN players
          \/ \E l \in LobbyId : Gone(op.pid, l)
        BY <3>1, RemoveEffect DEF SInv
    <3>3. CASE UNCHANGED vars /\ op.pid \notin DOMAIN players
        BY <3>3 DEF vars
    <3>4. CASE \E l \in LobbyId : Gone(op.pid, l)
        BY <3>4 DEF Gone
    <3> QED
        BY <3>2, <3>3, <3>4
  <2>2. CASE op.type # "RemovePlayer"
    <3>1. DOMAIN players' = DOMAIN players
        BY <2>2 DEF Obey, vars, SetListed, SetCapacity, SetMaster, KickPlayer, Relay,
               SetPlayerMeta, ErasePlayerMeta, SetLobbyMeta, EraseLobbyMeta, CloseSession, Prune,
               UpdateLobby, UpdatePlayer, Notify, boot
    <3> QED
        BY <2>2, <3>1
  <2> QED
      BY <2>1, <2>2
<1>5. Lost \in Answer /\ \A p \in Pid : Lost # Ok(p)
    BY AnswerFacts
<1> QED
    BY <1>2, <1>3, <1>4, <1>5, NobodyComes

\* Answers that are not a player leave the registry's players alone.
LEMMA RespondStep ==
    ASSUME SInv, ops # << >>, ops' = Tail(ops), Respond(Head(ops))
    PROVE  SInv'
<1> DEFINE op == Head(ops)
           ip == sess[op.s].ip
<1>1. op.type \in Questions
    BY DEF Respond, Questions
<1>2. ip \in Ip
    BY <1>1, AskerFacts
<1>3. IInv'
    BY RespondNext, NextStep DEF SInv
<1>4. \/ /\ \E answer \in Answer :
                  sess' = [sess EXCEPT ![op.s].answer = answer] /\ \A p \in Pid : answer # Ok(p)
         /\ UNCHANGED <<players, outbox>>
      \/ /\ op.type \in {"HostLobby", "JoinLobby"}
         /\ \E q \in FreshPid : /\ sess' = [sess EXCEPT ![op.s].answer = Ok(q)]
                                /\ DOMAIN outbox' = DOMAIN outbox \cup {q}
                                /\ DOMAIN players' = DOMAIN players \cup {q}
  <2>0. /\ \A c \in {"rate_limited", "lobby_not_found", "lobby_full"} : Err(c) \in Answer
        /\ \A p \in Pid : \A c : Ok(p) # Err(c)
        /\ Done \in Answer /\ Refused \in Answer
        /\ \A p \in Pid : Ok(p) # Done /\ Ok(p) # Refused
      BY AnswerFacts DEF Answer, Replies
  <2>1. CASE op.type = "IntroduceSession"
    <3>1. PICK ok \in BOOLEAN : /\ IntroduceSession(ip, ok)
                                /\ Reply(op.s, IF ok THEN Done ELSE Refused)
        BY <2>1 DEF Respond
    <3> QED
        BY <2>0, <3>1 DEF IntroduceSession, Reply
  <2>2. CASE op.type = "HostLobby"
    <3>1. PICK gid \in Gid, c \in Capacity, listed \in BOOLEAN, m \in Metadata, pm \in Metadata,
               reply \in Replies : /\ HostLobby(ip, gid, m, c, listed, pm, reply)
                                   /\ Reply(op.s, reply)
        BY <2>2 DEF Respond
    <3>2. \/ UNCHANGED vars /\ reply = Err("rate_limited")
          \/ \E pid \in FreshPid, l \in LobbyId : Hosted(pid, l, c) /\ reply = Ok(pid)
        BY <1>2, <3>1, HostEffect DEF SInv
    <3> QED
        BY <2>0, <2>2, <3>1, <3>2 DEF Reply, Hosted, vars
  <2>3. CASE op.type = "JoinLobby"
    <3>1. PICK l \in LobbyId, pm \in Metadata, reply \in Replies :
               JoinLobby(ip, l, pm, reply) /\ Reply(op.s, reply)
        BY <2>3 DEF Respond
    <3>2. \/ /\ UNCHANGED vars
             /\ reply \in {Err("rate_limited"), Err("lobby_not_found"), Err("lobby_full")}
          \/ \E pid \in FreshPid : Entered(pid, l) /\ reply = Ok(pid)
        BY <1>2, <3>1, JoinEffect DEF SInv
    <3> QED
        BY <2>0, <2>3, <3>1, <3>2 DEF Reply, Entered, vars
  <2>4. CASE op.type = "ListLobbies" \/ op.type = "AssemblePong"
    <3>1. /\ UNCHANGED vars
          /\ \E answer \in {Err("rate_limited"), Done} :
                sess' = [sess EXCEPT ![op.s].answer = answer]
        BY <2>4 DEF Respond, Reply
    <3> QED
        BY <2>0, <3>1 DEF vars
  <2> QED
      BY <1>1, <2>1, <2>2, <2>3, <2>4 DEF Questions
<1>5. CASE /\ \E answer \in Answer :
                  sess' = [sess EXCEPT ![op.s].answer = answer] /\ \A p \in Pid : answer # Ok(p)
           /\ UNCHANGED <<players, outbox>>
  <2>1. op.type # "RemovePlayer"
      BY <1>1 DEF Questions
  <2> QED
      BY <1>1, <1>3, <1>5, <2>1, NobodyComes
<1>6. CASE /\ op.type \in {"HostLobby", "JoinLobby"}
           /\ \E q \in FreshPid : /\ sess' = [sess EXCEPT ![op.s].answer = Ok(q)]
                                  /\ DOMAIN outbox' = DOMAIN outbox \cup {q}
                                  /\ DOMAIN players' = DOMAIN players \cup {q}
    BY <1>3, <1>6, SomebodyComes
<1> QED
    BY <1>4, <1>5, <1>6

LEMMA PanicStep ==
    ASSUME SInv, Panic
    PROVE  SInv'
<1>1. /\ ops # << >> /\ ops' = Tail(ops) /\ EventLoopReset
      /\ sess' = IF Head(ops).type \in Questions
                 THEN [sess EXCEPT ![Head(ops).s].answer = Lost] ELSE sess
    BY DEF Panic, Reply
<1>2. Lost \in Answer /\ \A p \in Pid : Lost # Ok(p)
    BY AnswerFacts
<1>3. IInv' /\ DOMAIN outbox' = DOMAIN outbox /\ DOMAIN players' = {}
    BY <1>1, ResetStep DEF SInv, EventLoopReset
<1> QED
    BY <1>1, <1>2, <1>3, NobodyComes

\* Every step of the server keeps the invariant.
LEMMA ServerStep ==
    ASSUME SInv, [ServerNext]_svars
    PROVE  SInv'
<1>1. CASE UNCHANGED svars
  <2>1. IInv' /\ TypesOK' /\ SessionsOK' /\ QuestionsOK' /\ UNCHANGED <<players, outbox>>
      BY <1>1, StutterStep
         DEF svars, vars, SInv, TypesOK, SessionsOK, QuestionsOK, Awaits
  <2>2. \A t \in Session, p \in Pid : Owner(t, p)' <=> Owner(t, p)
      BY <1>1 DEF svars, Owner
  <2>3. \A p : RemovalPending(p) => RemovalPending(p)'
      BY <1>1 DEF svars, RemovalPending
  <2> QED
      BY <2>1, <2>2, <2>3, OwnersKept DEF SInv
<1>2. CASE EventLoop
    BY <1>2, RespondStep, ObeyStep DEF EventLoop
<1>3. CASE Panic \/ PruneTimer \/ TimePasses
    BY <1>3, PanicStep, TimerStep, TimeStep
<1>4. CASE \E s \in Session, ip \in Ip : Accept(s, ip)
    BY <1>4, AcceptStep
<1>5. ASSUME NEW s \in Session,
             \/ Handshake(s) \/ Resume(s) \/ Drain(s) \/ End(s) \/ DropHandle(s)
             \/ Host(s) \/ Join(s) \/ List(s) \/ Ping(s) \/ Request(s) \/ Leave(s)
             \/ Violate(s) \/ ClientGone(s) \/ IdleTimeout(s)
      PROVE  SInv'
    BY <1>5, MoveStep, ResumeStep, DrainStep, EndStep, DropStep, ClientAsks, ClientTells
<1> QED
    BY <1>1, <1>2, <1>3, <1>4, <1>5 DEF ServerNext

LEMMA ServerStart == ServerInit => SInv
<1> SUFFICES ASSUME ServerInit PROVE SInv
    OBVIOUS
<1>1. IInv /\ DOMAIN players = {}
    BY InitStep DEF ServerInit, Init
<1>2. TypesOK
    BY ClosedFacts, EmptySeq DEF ServerInit, TypesOK
<1>3. ops = << >> /\ \A s \in Session : sess[s] = Closed
    BY DEF ServerInit
<1>4. SessionsOK /\ QuestionsOK
    BY <1>3, ClosedFacts, AnswerFacts DEF SessionsOK, QuestionsOK
<1>5. \A s \in Session, p \in Pid : ~Owner(s, p)
    BY <1>3, ClosedFacts, AnswerFacts, IdsAssumption DEF Owner
<1> QED
    BY <1>1, <1>2, <1>4, <1>5 DEF SInv, OwnersOK

-----------------------------------------------------------------------------
(* Theorems *)

\* Sessions, the operations in flight and the registry agree in every reachable
\* state, with any number of connections and operations, with panics or without.
THEOREM ServerInvariant == ServerSpec => []SInv
BY ServerStart, ServerStep, PTL DEF ServerSpec

\* Every behaviour of the server is one of the registry: a message, a session
\* and an operation in flight never make the event loop do what module Blaster
\* does not allow, so what is proved of the registry holds inside the server.
THEOREM ServerRunsRegistry == ServerSpec => Spec
<1>1. ServerInit => Init
    BY DEF ServerInit
<1> QED
    BY <1>1, RegistryStep, ServerInvariant, PTL DEF ServerSpec, Spec

\* The operations in the channel and the sessions have their types.
THEOREM ServerTypeCorrect == ServerSpec => []ServerTypeOK
<1>1. SInv /\ TypeOK => ServerTypeOK
    BY DEF SInv, TypesOK, ServerTypeOK
<1> QED
    BY <1>1, ServerInvariant, ServerRunsRegistry, TypeCorrect, PTL

\* A registered player belongs to exactly one session that knows of it or is
\* about to, or its removal is in the channel: whatever ends a session, whenever
\* it ends, and whether or not the event loop panics, no player stays behind.
THEOREM NoGhostPlayersHolds == ServerSpec => []NoGhostPlayers
<1>1. ASSUME SInv PROVE NoGhostPlayers
  <2> SUFFICES ASSUME NEW p \in DOMAIN players
               PROVE  LET owners == {s \in Session : \/ sess[s].pid = p /\ sess[s].state \in InServe
                                                     \/ sess[s].answer = Ok(p)}
                      IN  \/ Cardinality(owners) = 1
                          \/ owners = {} /\ RemovalPending(p)
      BY DEF NoGhostPlayers
  <2> DEFINE owners == {s \in Session : \/ sess[s].pid = p /\ sess[s].state \in InServe
                                        \/ sess[s].answer = Ok(p)}
  <2>1. p \in Pid /\ owners = {s \in Session : Owner(s, p)}
      BY <1>1 DEF SInv, IInv, TablesOK, Owner
  <2> HIDE DEF owners
  <2>2. CASE \E s \in Session : Owner(s, p)
    <3>1. PICK s \in Session : Owner(s, p)
        BY <2>2
    <3>2. owners = {s}
        BY <1>1, <2>1, <3>1 DEF SInv, OwnersOK
    <3> QED
        BY <3>2, FS_Singleton DEF owners
  <2>3. CASE ~\E s \in Session : Owner(s, p)
    <3>1. owners = {} /\ RemovalPending(p)
        BY <1>1, <2>1, <2>3 DEF SInv, OwnersOK
    <3> QED
        BY <3>1 DEF owners
  <2> QED
      BY <2>2, <2>3
<1> QED
    BY <1>1, ServerInvariant, PTL

-----------------------------------------------------------------------------
(* Counting sessions *)

\* Whether a task's record stands for a handle that the event loop counts.
Holds(me, ip) ==
    /\ me.ip = ip
    /\ \/ me.state \notin {"closed", "introducing"}
       \/ me.state = "introducing" /\ me.answer = Done

\* The sessions of an address, and its closes in the channel, can be counted.
LEMMA DueFinite ==
    ASSUME TypesOK, NEW ip
    PROVE  /\ IsFiniteSet(Handles(ip)) /\ Cardinality(Handles(ip)) \in Nat
           /\ IsFiniteSet(PendingCloses(ip)) /\ Cardinality(PendingCloses(ip)) \in Nat
<1>1. IsFiniteSet(Handles(ip))
    BY ServerAssumption, FS_Subset DEF Handles
<1>2. Len(ops) \in Nat /\ DOMAIN ops = 1 .. Len(ops)
    BY DEF TypesOK
<1>3. IsFiniteSet(PendingCloses(ip))
  <2>1. IsFiniteSet(1 .. Len(ops))
      BY <1>2, FS_Interval
  <2> QED
      BY <1>2, <2>1, FS_Subset DEF PendingCloses
<1> QED
    BY <1>1, <1>3, FS_CardinalityType

\* Sending a close adds one to those in the channel; sending another operation
\* adds none.
LEMMA ClosesSent ==
    ASSUME TypesOK, NEW op \in Op, ops' = Append(ops, op), NEW ip \in Ip
    PROVE  Cardinality(PendingCloses(ip)') =
              Cardinality(PendingCloses(ip))
              + (IF op.type = "CloseSession" /\ op.ip = ip THEN 1 ELSE 0)
<1>1. /\ Len(ops) + 1 \notin DOMAIN ops
      /\ DOMAIN ops' = DOMAIN ops \cup {Len(ops) + 1}
      /\ \A i \in DOMAIN ops : ops'[i] = ops[i]
      /\ ops'[Len(ops) + 1] = op
    BY AppendFacts DEF TypesOK
<1>2. IsFiniteSet(PendingCloses(ip)) /\ Cardinality(PendingCloses(ip)) \in Nat
    BY DueFinite
<1>3. CASE op.type = "CloseSession" /\ op.ip = ip
  <2>1. PendingCloses(ip)' = PendingCloses(ip) \cup {Len(ops) + 1}
      BY <1>1, <1>3 DEF PendingCloses
  <2>2. Len(ops) + 1 \notin PendingCloses(ip)
      BY <1>1 DEF PendingCloses
  <2> QED
      BY <1>2, <1>3, <2>1, <2>2, FS_AddElement
<1>4. CASE ~(op.type = "CloseSession" /\ op.ip = ip)
  <2>1. PendingCloses(ip)' = PendingCloses(ip)
      BY <1>1, <1>4 DEF PendingCloses
  <2> QED
      BY <1>2, <1>4, <2>1
<1> QED
    BY <1>3, <1>4

\* Taking an operation out shifts the others: one close less, or none.
LEMMA ClosesTaken ==
    ASSUME TypesOK, ops # << >>, ops' = Tail(ops), NEW ip \in Ip
    PROVE  Cardinality(PendingCloses(ip)') =
              Cardinality(PendingCloses(ip))
              - (IF Head(ops).type = "CloseSession" /\ Head(ops).ip = ip THEN 1 ELSE 0)
<1> DEFINE S == PendingCloses(ip) \ {1}
           T == PendingCloses(ip)'
           f == [i \in S |-> i - 1]
<1>1. /\ 1 \in DOMAIN ops /\ Head(ops) = ops[1]
      /\ \A i \in DOMAIN ops' : i + 1 \in DOMAIN ops /\ i + 1 # 1 /\ ops'[i] = ops[i + 1]
      /\ \A i \in DOMAIN ops \ {1} : i - 1 \in DOMAIN ops' /\ ops'[i - 1] = ops[i]
    BY TailFacts DEF TypesOK
<1>2. (\A i \in DOMAIN ops : i \in Int) /\ (\A i \in DOMAIN ops' : i \in Int)
  <2>1. ops \in Seq(Op) /\ ops' \in Seq(Op)
      BY TailFacts DEF TypesOK
  <2> QED
      BY <2>1
<1>3. IsFiniteSet(PendingCloses(ip)) /\ Cardinality(PendingCloses(ip)) \in Nat
    BY DueFinite
<1>4. f \in Bijection(S, T)
  <2>1. \A i \in S : i \in Int /\ i - 1 \in T
      BY <1>1, <1>2 DEF PendingCloses
  <2>2. \A j \in T : j \in Int /\ j + 1 \in S /\ (j + 1) - 1 = j
      BY <1>1, <1>2 DEF PendingCloses
  <2> HIDE DEF S, T
  <2>3. \A i, j \in S : i - 1 = j - 1 => i = j
      BY <2>1
  <2> QED
      BY <2>1, <2>2, <2>3 DEF Bijection, Injection, IsInjective, Surjection
<1>5. /\ IsFiniteSet(S)
      /\ Cardinality(S) = IF 1 \in PendingCloses(ip) THEN Cardinality(PendingCloses(ip)) - 1
                          ELSE Cardinality(PendingCloses(ip))
    BY <1>3, FS_RemoveElement
<1>6. Cardinality(T) = Cardinality(S)
  <2> HIDE DEF S, T, f
  <2>1. ExistsBijection(S, T)
      BY <1>4 DEF ExistsBijection
  <2> QED
      BY <1>5, <2>1, FS_Bijection
<1>7. 1 \in PendingCloses(ip) <=> Head(ops).type = "CloseSession" /\ Head(ops).ip = ip
    BY <1>1 DEF PendingCloses
<1> HIDE DEF S, T
<1>8. Cardinality(T) = Cardinality(PendingCloses(ip))
              - (IF Head(ops).type = "CloseSession" /\ Head(ops).ip = ip THEN 1 ELSE 0)
    BY <1>3, <1>5, <1>6, <1>7
<1> QED
    BY <1>8 DEF T

LEMMA HandlesAre ==
    ASSUME NEW ip
    PROVE  /\ Handles(ip) = {s \in Session : Holds(sess[s], ip)}
           /\ Handles(ip)' = {s \in Session : Holds(sess'[s], ip)}
BY DEF Handles, Holds

\* A task's own steps neither give it a handle nor take one away.
LEMMA HandlesKept ==
    ASSUME SInv, NEW s \in Session, NEW ip \in Ip,
           \/ \E a \in Ip : Accept(s, a)
           \/ Handshake(s) \/ Resume(s) \/ Drain(s) \/ End(s)
           \/ Host(s) \/ Join(s) \/ List(s) \/ Ping(s) \/ Request(s) \/ Leave(s)
           \/ Violate(s) \/ ClientGone(s) \/ IdleTimeout(s)
    PROVE  Handles(ip)' = Handles(ip)
<1>0. sess[s] \in SessionState /\ sess \in [Session -> SessionState]
    BY SessionFields DEF SInv, TypesOK
<1>1. (\A t \in Session \ {s} : sess'[t] = sess[t])
      /\ (Holds(sess'[s], ip) <=> Holds(sess[s], ip))
  <2>1. CASE \E a \in Ip : Accept(s, a)
    <3>1. PICK a \in Ip : Accept(s, a)
        BY <2>1
    <3> DEFINE new == [Closed EXCEPT !.state = "introducing", !.ip = a]
    <3>2. /\ sess[s].state = "closed" /\ sess' = [sess EXCEPT ![s] = new]
        BY <3>1 DEF Accept
    <3>3. new.state = "introducing" /\ new.answer = None
        BY DEF Closed
    <3> HIDE DEF new
    <3>4. sess'[s] = new /\ \A t \in Session \ {s} : sess'[t] = sess[t]
        BY <1>0, <3>2
    <3> QED
        BY <3>2, <3>3, <3>4, AnswerFacts DEF Holds
  <2>2. CASE Resume(s)
    <3> DEFINE answer == sess[s].answer
               next == CASE sess[s].state = "introducing" ->
                        IF answer = Done THEN "handshake" ELSE "closed"
                  [] sess[s].state = "entering" ->
                        IF answer.pid # NULL \/ answer = Lost THEN "loop" ELSE "ending"
                  [] sess[s].state = "listing" -> "ending"
                  [] sess[s].state = "pinging" -> "loop"
               pid == IF sess[s].pid = NULL THEN answer.pid ELSE sess[s].pid
               bye == IF next = "ending" /\ answer \notin {Done, Lost}
                      THEN "Violation" ELSE sess[s].bye
               moved == [sess[s] EXCEPT !.state = next, !.answer = None, !.pid = pid, !.bye = bye]
               new == IF next = "closed" THEN Closed ELSE moved
    <3>1. sess[s].state \in Waiting /\ answer # None /\ sess' = [sess EXCEPT ![s] = new]
        BY <2>2 DEF Resume
    <3>2. /\ sess[s].state = "introducing" =>
                next = IF answer = Done THEN "handshake" ELSE "closed"
          /\ sess[s].state \in {"entering", "listing", "pinging"} => next \in {"loop", "ending"}
        BY DEF Waiting
    <3> HIDE DEF next, pid, bye, answer
    <3>3. moved.state = next /\ moved.ip = sess[s].ip
        BY <1>0 DEF SessionState
    <3> HIDE DEF moved
    <3>4. new.state = next /\ (next # "closed" => new.ip = sess[s].ip)
        BY <3>3, ClosedFacts
    <3> HIDE DEF new
    <3>5. sess'[s] = new /\ \A t \in Session \ {s} : sess'[t] = sess[t]
        BY <1>0, <3>1
    <3> QED
        BY <3>1, <3>2, <3>4, <3>5 DEF Holds, Waiting, answer
  <2>3. CASE Handshake(s) \/ Violate(s) \/ ClientGone(s) \/ IdleTimeout(s) \/ Drain(s) \/ End(s)
    <3>1. /\ sess[s].state \in {"handshake", "loop", "ending"}
          /\ \/ sess' = sess
             \/ \E st \in {"loop", "dropping", "ending"} : sess' = [sess EXCEPT ![s].state = st]
             \/ \E bye : sess' = [sess EXCEPT ![s].state = "ending", ![s].bye = bye]
        BY <2>3 DEF Handshake, Violate, ClientGone, IdleTimeout, Drain, End, Goto, Quit
    <3>2. CASE sess' = sess
        BY <3>2
    <3>3. CASE \E st \in {"loop", "dropping", "ending"} : sess' = [sess EXCEPT ![s].state = st]
      <4>1. PICK st \in {"loop", "dropping", "ending"} : sess' = [sess EXCEPT ![s].state = st]
          BY <3>3
      <4>2. /\ sess'[s].state = st /\ sess'[s].ip = sess[s].ip
            /\ \A t \in Session \ {s} : sess'[t] = sess[t]
          BY <1>0, <4>1 DEF SessionState
      <4> QED
          BY <3>1, <4>2 DEF Holds
    <3>4. CASE \E bye : sess' = [sess EXCEPT ![s].state = "ending", ![s].bye = bye]
      <4>1. PICK bye : sess' = [sess EXCEPT ![s].state = "ending", ![s].bye = bye]
          BY <3>4
      <4>2. /\ sess'[s].state = "ending" /\ sess'[s].ip = sess[s].ip
            /\ \A t \in Session \ {s} : sess'[t] = sess[t]
          BY <1>0, <4>1 DEF SessionState
      <4> QED
          BY <3>1, <4>2 DEF Holds
    <3> QED
        BY <3>1, <3>2, <3>3, <3>4
  <2>4. CASE Host(s) \/ Join(s) \/ List(s) \/ Ping(s)
    <3>1. /\ sess[s].state = "loop"
          /\ \E st \in {"entering", "listing", "pinging"} : sess' = [sess EXCEPT ![s].state = st]
        BY <2>4 DEF Host, Join, List, Ping, Ask, Goto
    <3> QED
        BY <1>0, <3>1 DEF Holds, SessionState
  <2>5. CASE Request(s) \/ Leave(s)
      BY <2>5 DEF Request, Leave, Tell
  <2> QED
      BY <2>1, <2>2, <2>3, <2>4, <2>5
<1> QED
    BY <1>1, HandlesAre

\* What a step does to an address's count and to what is due for it.  Introducing
\* a session and closing one change both alike, except that a close finds nothing
\* to uncount after a reset has forgotten the session.
Due(ip) == Cardinality(Handles(ip)) + Cardinality(PendingCloses(ip))
CountsAlike(ip) == Counted(ip)' + Due(ip) = Counted(ip) + Due(ip)'
CloseForgotten(ip) == Counted(ip) = 0 /\ Counted(ip)' = 0 /\ Due(ip)' + 1 = Due(ip)

LEMMA CountedType ==
    ASSUME IInv, NEW ip
    PROVE  Counted(ip) \in Nat
BY DEF Counted, session_count, IInv, TablesOK, Peer

LEMMA DueType ==
    ASSUME TypesOK, NEW ip
    PROVE  Due(ip) \in Nat
BY DueFinite DEF Due

LEMMA CountTypes ==
    ASSUME NEW ip
    PROVE  /\ SInv => Counted(ip) \in Nat /\ Due(ip) \in Nat
           /\ SInv' => Counted(ip)' \in Nat /\ Due(ip)' \in Nat
<1>1. SInv => Counted(ip) \in Nat /\ Due(ip) \in Nat
    BY CountedType, DueType DEF SInv
<1>2. SInv' => (Counted(ip) \in Nat /\ Due(ip) \in Nat)'
    BY <1>1, PTL
<1> QED
    BY <1>1, <1>2

LEMMA AlikeWhen ==
    ASSUME SInv, NEW ip, Counted(ip)' = Counted(ip), Handles(ip)' = Handles(ip),
           Cardinality(PendingCloses(ip)') = Cardinality(PendingCloses(ip))
    PROVE  CountsAlike(ip)
<1>1. Due(ip)' = Due(ip)
    BY DEF Due
<1>2. Due(ip) \in Nat /\ Counted(ip) \in Nat
    BY DueType, CountedType DEF SInv
<1> QED
    BY <1>1, <1>2 DEF CountsAlike

LEMMA TaskCounts ==
    ASSUME SInv, NEW s \in Session, NEW ip \in Ip,
           \/ \E a \in Ip : Accept(s, a)
           \/ Handshake(s) \/ Resume(s) \/ Drain(s) \/ End(s)
           \/ Host(s) \/ Join(s) \/ List(s) \/ Ping(s) \/ Request(s) \/ Leave(s)
           \/ Violate(s) \/ ClientGone(s) \/ IdleTimeout(s)
    PROVE  CountsAlike(ip)
<1>1. peers' = peers
    BY DEF vars, Accept, Handshake, Resume, Drain, Receive, End, Hangup, Host, Join, List, Ping,
           Ask, Request, Leave, Tell, Violate, ClientGone, IdleTimeout
<1>2. ops' = ops \/ \E op \in Op : op.type # "CloseSession" /\ ops' = Append(ops, op)
  <2>0. sess[s].pid \in Pid \cup {NULL} /\ sess[s].bye \in Reason
      BY SessionFields DEF SInv
  <2>1. \A type \in Questions : /\ [type |-> type, s |-> s] \in Op
                                /\ [type |-> type, s |-> s].type # "CloseSession"
      BY DEF Op, Questions
  <2>2. /\ \A p \in Pid : \A r \in Reason :
              LET op == [type |-> "RemovePlayer", pid |-> p, reason |-> r]
              IN  op \in Op /\ op.type # "CloseSession"
        /\ \A p \in Pid : \A type \in Requests :
              LET op == [type |-> type, pid |-> p]
              IN  op \in Op /\ op.type # "CloseSession"
      BY DEF Op, Requests
  <2>3. CASE \/ \E a \in Ip : Accept(s, a)
             \/ Host(s) \/ Join(s) \/ List(s) \/ Ping(s)
      BY <2>1, <2>3 DEF Accept, Host, Join, List, Ping, Ask, Execute, Questions
  <2>4. CASE Request(s)
    <3>1. PICK type \in Requests : ops' = Append(ops, [type |-> type, pid |-> sess[s].pid])
        BY <2>4 DEF Request, Tell, Execute
    <3>2. sess[s].pid \in Pid
        BY <2>0, <2>4 DEF Request, Tell
    <3> QED
        BY <2>2, <3>1, <3>2
  <2>5. CASE Leave(s)
    <3>1. PICK r \in Reason :
              ops' = Append(ops, [type |-> "RemovePlayer", pid |-> sess[s].pid, reason |-> r])
        BY <2>5 DEF Leave, Tell, Execute
    <3>2. sess[s].pid \in Pid
        BY <2>0, <2>5 DEF Leave, Tell
    <3> QED
        BY <2>2, <3>1, <3>2
  <2>6. CASE End(s)
    <3>1. CASE sess[s].pid = NULL
        BY <2>6, <3>1 DEF End
    <3>2. CASE sess[s].pid # NULL
      <4>1. sess[s].pid \in Pid
          BY <2>0, <3>2
      <4>2. ops' = Append(ops, [type |-> "RemovePlayer", pid |-> sess[s].pid,
                                reason |-> sess[s].bye])
          BY <2>6, <3>2 DEF End, Execute
      <4> QED
          BY <2>0, <2>2, <4>1, <4>2
    <3> QED
        BY <3>1, <3>2
  <2>7. CASE Handshake(s) \/ Resume(s) \/ Drain(s) \/ Violate(s) \/ ClientGone(s) \/ IdleTimeout(s)
      BY <2>7 DEF Handshake, Resume, Drain, Violate, ClientGone, IdleTimeout
  <2> QED
      BY <2>3, <2>4, <2>5, <2>6, <2>7
<1>3. Counted(ip)' = Counted(ip)
    BY <1>1 DEF Counted, session_count
<1>4. Cardinality(PendingCloses(ip)') = Cardinality(PendingCloses(ip))
  <2>1. CASE ops' = ops
      BY <2>1 DEF PendingCloses
  <2>2. CASE \E op \in Op : op.type # "CloseSession" /\ ops' = Append(ops, op)
    <3>1. PICK op \in Op : op.type # "CloseSession" /\ ops' = Append(ops, op)
        BY <2>2
    <3>2. Cardinality(PendingCloses(ip)) \in Nat
        BY DueFinite DEF SInv
    <3> QED
        BY <3>1, <3>2, ClosesSent DEF SInv
  <2> QED
      BY <1>2, <2>1, <2>2
<1>5. Handles(ip)' = Handles(ip)
    BY HandlesKept
<1> QED
    BY <1>3, <1>4, <1>5, AlikeWhen

\* A handle turns into a close in the channel.
LEMMA DropCounts ==
    ASSUME SInv, NEW s \in Session, NEW ip \in Ip, DropHandle(s)
    PROVE  CountsAlike(ip)
<1> DEFINE op == [type |-> "CloseSession", ip |-> sess[s].ip]
<1>1. /\ sess[s].state = "dropping" /\ sess' = [sess EXCEPT ![s] = Closed]
      /\ ops' = Append(ops, op) /\ peers' = peers
    BY DEF DropHandle, Execute, vars
<1>2. op \in Op /\ op.type = "CloseSession" /\ op.ip = sess[s].ip
    BY <1>1 DEF SInv, SessionsOK, Op
<1> HIDE DEF op
<1>3. Cardinality(PendingCloses(ip)') =
          Cardinality(PendingCloses(ip)) + (IF sess[s].ip = ip THEN 1 ELSE 0)
    BY <1>1, <1>2, ClosesSent DEF SInv
<1>4. /\ sess'[s] = Closed /\ \A t \in Session \ {s} : sess'[t] = sess[t]
    BY <1>1 DEF SInv, TypesOK
<1>5. ~Holds(sess'[s], ip) /\ (Holds(sess[s], ip) <=> sess[s].ip = ip)
    BY <1>1, <1>4, ClosedFacts DEF Holds
<1>6. Handles(ip)' = Handles(ip) \ {s} /\ (s \in Handles(ip) <=> sess[s].ip = ip)
    BY <1>4, <1>5, HandlesAre
<1>7. /\ IsFiniteSet(Handles(ip)) /\ Cardinality(Handles(ip)) \in Nat
      /\ Cardinality(PendingCloses(ip)) \in Nat
    BY DueFinite DEF SInv
<1>8. Cardinality(Handles(ip)') = IF sess[s].ip = ip THEN Cardinality(Handles(ip)) - 1
                                  ELSE Cardinality(Handles(ip))
    BY <1>6, <1>7, FS_RemoveElement
<1>9. Due(ip)' = Due(ip) /\ Due(ip) \in Nat
    BY <1>3, <1>7, <1>8 DEF Due
<1>10. Counted(ip)' = Counted(ip) /\ Counted(ip) \in Nat
    BY <1>1, CountedType DEF Counted, session_count, SInv
<1> QED
    BY <1>9, <1>10 DEF CountsAlike

\* An operation without an answer: a close uncounts its session, or finds none;
\* pruning forgets only addresses without sessions.
LEMMA ObeyCounts ==
    ASSUME SInv, NEW ip \in Ip, ops # << >>, ops' = Tail(ops), Obey(Head(ops)), UNCHANGED sess
    PROVE  CountsAlike(ip) \/ CloseForgotten(ip)
<1> DEFINE op == Head(ops)
<1>1. op \in Op
    BY TailFacts DEF SInv, TypesOK
<1>2. Handles(ip)' = Handles(ip)
    BY DEF Handles
<1>3. Cardinality(PendingCloses(ip)') = Cardinality(PendingCloses(ip))
          - (IF op.type = "CloseSession" /\ op.ip = ip THEN 1 ELSE 0)
    BY ClosesTaken DEF SInv
<1>4. /\ Cardinality(PendingCloses(ip)) \in Nat /\ Cardinality(Handles(ip)) \in Nat
      /\ Counted(ip) \in Nat
    BY DueFinite, CountedType DEF SInv
<1>5. CASE op.type = "CloseSession"
  <2>1. CloseSession(op.ip)
      BY <1>5 DEF Obey
  <2>2. CASE op.ip # ip
    <3>1. Counted(ip)' = Counted(ip)
        BY <2>1, <2>2 DEF CloseSession, Counted, session_count
    <3>2. Cardinality(PendingCloses(ip)') = Cardinality(PendingCloses(ip))
        BY <1>3, <1>4, <2>2
    <3> QED
        BY <1>2, <3>1, <3>2, AlikeWhen
  <2>3. CASE op.ip = ip
    <3> DEFINE h == Cardinality(Handles(ip))
               c == Cardinality(PendingCloses(ip))
    <3>0. /\ Cardinality(PendingCloses(ip)') = c - 1 /\ c \in Nat /\ h \in Nat
          /\ Due(ip) = h + c /\ Due(ip)' = h + Cardinality(PendingCloses(ip)')
        BY <1>2, <1>3, <1>4, <1>5, <2>3 DEF Due
    <3> HIDE DEF h, c
    <3>1. Due(ip)' = Due(ip) - 1 /\ Due(ip) \in Int
        BY <3>0
    <3>2. CASE ip \in DOMAIN peers /\ session_count(ip) > 0
      <4>1. Counted(ip)' = Counted(ip) - 1
          BY <2>1, <2>3, <3>2 DEF CloseSession, Counted, session_count, SInv, IInv, TablesOK, Peer
      <4> QED
          BY <1>4, <3>1, <4>1 DEF CountsAlike
    <3>3. CASE ~(ip \in DOMAIN peers /\ session_count(ip) > 0)
      <4>1. peers' = peers
          BY <2>1, <2>3, <3>3 DEF CloseSession
      <4>2. Counted(ip) = 0 /\ Counted(ip)' = 0
          BY <3>3, <4>1 DEF Counted, session_count, SInv, IInv, TablesOK, Peer
      <4> QED
          BY <3>1, <4>2 DEF CloseForgotten
    <3> QED
        BY <3>2, <3>3
  <2> QED
      BY <2>2, <2>3
<1>6. CASE op.type # "CloseSession"
  <2>1. Counted(ip)' = Counted(ip)
    <3>1. CASE Prune
        BY <3>1 DEF Prune, Decayed, Counted, session_count
    <3>2. CASE peers' = peers
        BY <3>2 DEF Counted, session_count
    <3>3. Prune \/ peers' = peers
        BY <1>6 DEF Obey, vars, SetListed, SetCapacity, SetMaster, KickPlayer, Relay,
               SetPlayerMeta, ErasePlayerMeta, SetLobbyMeta, EraseLobbyMeta, RemovePlayer,
               UpdateLobby, UpdatePlayer, Notify, boot
    <3> QED
        BY <3>1, <3>2, <3>3
  <2>2. Cardinality(PendingCloses(ip)') = Cardinality(PendingCloses(ip))
      BY <1>3, <1>4, <1>6
  <2> QED
      BY <1>2, <2>1, <2>2, AlikeWhen
<1> QED
    BY <1>5, <1>6

\* A question: only an introduction that is let in counts, and gives a handle.
LEMMA RespondCounts ==
    ASSUME SInv, NEW ip \in Ip, ops # << >>, ops' = Tail(ops), Respond(Head(ops))
    PROVE  CountsAlike(ip)
<1> DEFINE op == Head(ops)
<1>1. op.type \in Questions /\ op.type # "CloseSession"
    BY DEF Respond, Questions
<1>2. PICK s \in Session : s = op.s
    BY <1>1, AskerFacts
<1>3. /\ sess[s].answer = None /\ Awaits(sess[s].state, op.type)
      /\ sess[s] \in SessionState /\ sess \in [Session -> SessionState]
    BY <1>1, <1>2, TailFacts, SessionFields DEF SInv, TypesOK, QuestionsOK
<1>4. /\ Cardinality(PendingCloses(ip)) \in Nat /\ Cardinality(Handles(ip)) \in Nat
      /\ IsFiniteSet(Handles(ip)) /\ Counted(ip) \in Nat
    BY DueFinite, CountedType DEF SInv
<1>5. Cardinality(PendingCloses(ip)') = Cardinality(PendingCloses(ip))
    BY <1>1, <1>4, ClosesTaken DEF SInv
<1>6. PICK answer \in Answer : sess' = [sess EXCEPT ![s].answer = answer]
  <2>1. Done \in Answer /\ Refused \in Answer /\ Err("rate_limited") \in Answer
        /\ Replies \subseteq Answer
      BY AnswerFacts DEF Answer, Replies
  <2> QED
      BY <1>2, <2>1 DEF Respond, Reply
<1>7. /\ sess'[s].state = sess[s].state /\ sess'[s].ip = sess[s].ip /\ sess'[s].answer = answer
      /\ \A t \in Session \ {s} : sess'[t] = sess[t]
    BY <1>3, <1>6 DEF SessionState
<1>8. CASE op.type # "IntroduceSession"
  <2>1. peers' = peers
    <3>1. op.type = "HostLobby" \/ op.type = "JoinLobby" => peers' = peers
        BY DEF Respond, HostLobby, JoinLobby, vars
    <3>2. op.type = "ListLobbies" \/ op.type = "AssemblePong" => peers' = peers
        BY DEF Respond, vars
    <3> QED
        BY <1>1, <1>8, <3>1, <3>2 DEF Questions
  <2>2. sess[s].state \in {"entering", "listing", "pinging"}
      BY <1>3, <1>8 DEF Awaits
  <2>3. Handles(ip)' = Handles(ip)
    <3>1. Holds(sess'[s], ip) <=> Holds(sess[s], ip)
        BY <1>7, <2>2 DEF Holds
    <3>2. \A t \in Session : Holds(sess'[t], ip) <=> Holds(sess[t], ip)
        BY <1>7, <3>1
    <3> QED
        BY <3>2, HandlesAre
  <2>4. Counted(ip)' = Counted(ip)
      BY <2>1 DEF Counted, session_count
  <2> QED
      BY <1>5, <2>3, <2>4, AlikeWhen
<1>9. CASE op.type = "IntroduceSession"
  <2>1. PICK ok \in BOOLEAN : /\ IntroduceSession(sess[s].ip, ok)
                              /\ sess' = [sess EXCEPT ![s].answer = IF ok THEN Done ELSE Refused]
      BY <1>2, <1>9 DEF Respond, Reply
  <2>2. sess'[s].answer = IF ok THEN Done ELSE Refused
      BY <1>3, <2>1 DEF SessionState
  <2>3. sess[s].state = "introducing" /\ ~Holds(sess[s], ip)
      BY <1>3, <1>9, AnswerFacts DEF Awaits, Holds
  <2>4. Holds(sess'[s], ip) <=> ok /\ sess[s].ip = ip
      BY <1>7, <2>2, <2>3, AnswerFacts DEF Holds
  <2>5. CASE ok /\ sess[s].ip = ip
    <3>1. Handles(ip)' = Handles(ip) \cup {s} /\ s \notin Handles(ip)
        BY <1>7, <2>3, <2>4, <2>5, HandlesAre
    <3>2. Cardinality(Handles(ip)') = Cardinality(Handles(ip)) + 1
        BY <1>4, <3>1, FS_AddElement
    <3>3. Due(ip)' = Due(ip) + 1 /\ Due(ip) \in Nat
        BY <1>4, <1>5, <3>2 DEF Due
    <3>4. Counted(ip)' = Counted(ip) + 1
      <4>1. peers' = Put(peers, ip, [count |-> IF ip \in DOMAIN peers
                                               THEN session_count(ip) + 1 ELSE 1, age |-> 0])
          BY <2>1, <2>5 DEF IntroduceSession
      <4>2. ip \in DOMAIN peers' /\ peers'[ip].count = IF ip \in DOMAIN peers
                                                       THEN session_count(ip) + 1 ELSE 1
          BY <4>1 DEF Put
      <4> QED
          BY <4>2 DEF Counted, session_count
    <3> QED
        BY <1>4, <3>3, <3>4 DEF CountsAlike
  <2>6. CASE ~(ok /\ sess[s].ip = ip)
    <3>1. Handles(ip)' = Handles(ip)
        BY <1>7, <2>3, <2>4, <2>6, HandlesAre
    <3>2. Counted(ip)' = Counted(ip)
        BY <2>1, <2>6 DEF IntroduceSession, Put, Counted, session_count
    <3> QED
        BY <1>5, <3>1, <3>2, AlikeWhen
  <2> QED
      BY <2>5, <2>6
<1> QED
    BY <1>8, <1>9

LEMMA CountStep ==
    ASSUME SInv, [ServerNext]_svars, NEW ip \in Ip
    PROVE  CountsAlike(ip) \/ CloseForgotten(ip) \/ (Panic /\ Counted(ip)' = 0)
<1>1. CASE EventLoop
    BY <1>1, RespondCounts, ObeyCounts DEF EventLoop
<1>2. CASE Panic
    BY <1>2 DEF Panic, EventLoopReset, Counted
<1>3. CASE PruneTimer \/ TimePasses \/ UNCHANGED svars
  <2>1. Handles(ip)' = Handles(ip)
      BY <1>3 DEF PruneTimer, TimePasses, svars, Handles
  <2>2. Counted(ip)' = Counted(ip)
    <3>1. CASE TimePasses
        BY <3>1 DEF TimePasses, Tick, Counted, session_count, SInv, IInv, TablesOK, Peer
    <3>2. CASE peers' = peers
        BY <3>2 DEF Counted, session_count
    <3> QED
        BY <1>3, <3>1, <3>2 DEF PruneTimer, svars, vars
  <2>3. Cardinality(PendingCloses(ip)') = Cardinality(PendingCloses(ip))
    <3>1. CASE ops' = ops
        BY <3>1 DEF PendingCloses
    <3>2. CASE PruneTimer
      <4>1. [type |-> "Prune"] \in Op /\ [type |-> "Prune"].type # "CloseSession"
          BY DEF Op
      <4>2. Cardinality(PendingCloses(ip)) \in Nat
          BY DueFinite DEF SInv
      <4> QED
          BY <3>2, <4>1, <4>2, ClosesSent DEF PruneTimer, Execute, SInv
    <3> QED
        BY <1>3, <3>1, <3>2 DEF TimePasses, svars
  <2> QED
      BY <2>1, <2>2, <2>3, AlikeWhen
<1> QED
    BY <1>1, <1>2, <1>3, TaskCounts, DropCounts DEF ServerNext

\* However sessions come, fail and go, and however often the event loop panics,
\* no address is counted for more sessions than it has open or closing: the
\* limit per address never locks out an address for good.
THEOREM NeverOvercountedHolds == ServerSpec => []NeverOvercounted
<1>1. ServerInit => NeverOvercounted
  <2> SUFFICES ASSUME ServerInit, NEW ip \in Ip
               PROVE  Counted(ip) =< Cardinality(Handles(ip)) + Cardinality(PendingCloses(ip))
      BY DEF NeverOvercounted
  <2>1. Counted(ip) = 0
      BY DEF ServerInit, Init, Counted
  <2>2. Cardinality(Handles(ip)) \in Nat /\ Cardinality(PendingCloses(ip)) \in Nat
      BY ServerStart, DueFinite DEF SInv
  <2> QED
      BY <2>1, <2>2
<1>2. ASSUME SInv, SInv', NeverOvercounted, [ServerNext]_svars PROVE NeverOvercounted'
  <2> SUFFICES ASSUME NEW ip \in Ip PROVE Counted(ip)' =< Due(ip)'
      BY DEF NeverOvercounted, Due
  <2>1. Counted(ip) =< Due(ip)
      BY <1>2 DEF NeverOvercounted, Due
  <2>2. /\ Counted(ip) \in Nat /\ Due(ip) \in Nat
        /\ Counted(ip)' \in Nat /\ Due(ip)' \in Nat
      BY <1>2, CountTypes
  <2>3. CountsAlike(ip) \/ CloseForgotten(ip) \/ Counted(ip)' = 0
      BY <1>2, CountStep
  <2> QED
      BY <2>1, <2>2, <2>3 DEF CountsAlike, CloseForgotten
<1> QED
    BY <1>1, <1>2, ServerInvariant, PTL DEF ServerSpec

\* As long as the event loop does not panic, an address is counted for exactly
\* the sessions it has open or closing: each is counted once and uncounted once.
THEOREM SessionAccountingHolds ==
    ASSUME Panics = FALSE
    PROVE  ServerSpec => []SessionAccounting
<1>1. ServerInit => SessionAccounting
  <2> SUFFICES ASSUME ServerInit, NEW ip \in Ip
               PROVE  Counted(ip) = Cardinality(Handles(ip)) + Cardinality(PendingCloses(ip))
      BY DEF SessionAccounting
  <2>1. Counted(ip) = 0
      BY DEF ServerInit, Init, Counted
  <2>2. Handles(ip) = {} /\ PendingCloses(ip) = {}
      BY ClosedFacts DEF ServerInit, Handles, PendingCloses
  <2> QED
      BY <2>1, <2>2, FS_EmptySet
<1>2. ASSUME SInv, SInv', SessionAccounting, [ServerNext]_svars PROVE SessionAccounting'
  <2> SUFFICES ASSUME NEW ip \in Ip PROVE Counted(ip)' = Due(ip)'
      BY DEF SessionAccounting, Due
  <2>1. Counted(ip) = Due(ip)
      BY <1>2 DEF SessionAccounting, Due
  <2>2. /\ Counted(ip) \in Nat /\ Due(ip) \in Nat
        /\ Counted(ip)' \in Nat /\ Due(ip)' \in Nat
      BY <1>2, CountTypes
  <2>3. CountsAlike(ip) \/ CloseForgotten(ip)
      BY <1>2, CountStep DEF Panic
  <2> QED
      BY <2>1, <2>2, <2>3 DEF CountsAlike, CloseForgotten
<1> QED
    BY <1>1, <1>2, ServerInvariant, PTL DEF ServerSpec
=============================================================================
