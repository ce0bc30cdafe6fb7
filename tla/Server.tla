------------------------------- MODULE Server -------------------------------
(***************************************************************************)
(* The whole signalling server: the event loop (module Blaster), the       *)
(* unbounded FIFO channel of operations in front of it, and one task per   *)
(* websocket connection (main.rs, session.rs) that sends operations and,   *)
(* for some, waits for the answer.  A session slot is used again by later  *)
(* connections.                                                            *)
(***************************************************************************)
EXTENDS Blaster

CONSTANTS
    Session,    \* connection slots
    Says,       \* the client message types of the instance
    MaxOps,     \* bound: clients and timer add no operation beyond this many
    Panics      \* whether an operation may panic

ASSUME ServerAssumption ==
    MaxOps \in Nat /\ Panics \in BOOLEAN /\ IsFiniteSet(Session)

VARIABLES
    sess,   \* what each connection's task is doing
    ops     \* operations sent to the event loop and not yet executed

svars == <<vars, sess, ops>>

-----------------------------------------------------------------------------
(* Types *)

\* Where a task stands: no connection; blocked in introduce_session; in the
\* websocket handshake; in the select loop; awaiting the answer to Host or Join,
\* List, Ping; the loop left, RemovePlayer to be sent; the handle to be dropped.
Waiting == {"introducing", "entering", "listing", "pinging"}
InServe == {"loop", "entering", "listing", "pinging", "ending"}
State == {"closed", "handshake", "dropping"} \cup Waiting \cup InServe

\* Operations whose sender waits on a oneshot channel for the answer, and those
\* of a member that the event loop carries out without one.
Questions == {"IntroduceSession", "HostLobby", "JoinLobby", "ListLobbies", "AssemblePong"}
Requests == {"SetListed", "SetCapacity", "SetMaster", "KickPlayer", "Relay",
             "SetPlayerMeta", "ErasePlayerMeta", "SetLobbyMeta", "EraseLobbyMeta"}

Done == Ok(NULL)             \* an answer the session only forwards
Refused == Err("refused")    \* introduce_session: Some(false)
Lost == Err("lost")          \* the event loop panicked: the sender was dropped
Answer == Replies \cup {Done, Refused, Lost}
ASSUME AnswerAssumption == None \notin Answer

SessionState == [state : State, ip : Ip \cup {None}, pid : Pid \cup {NULL}, bye : Reason,
                 answer : Answer \cup {None}]

Closed == [state |-> "closed", ip |-> None, pid |-> NULL, bye |-> "Natural", answer |-> None]

\* A BlasterOperation, without the arguments that the client chooses.
Op == [type : Questions, s : Session]
      \cup [type : Requests, pid : Pid]
      \cup [type : {"RemovePlayer"}, pid : Pid, reason : Reason]
      \cup [type : {"CloseSession"}, ip : Ip]
      \cup [type : {"Prune"}]

ServerTypeOK ==
    /\ TypeOK
    /\ sess \in [Session -> SessionState]
    /\ ops \in Seq(Op)

RemovalPending(p) ==
    \E i \in DOMAIN ops : ops[i].type = "RemovePlayer" /\ ops[i].pid = p

-----------------------------------------------------------------------------
(* The connection's task *)

Goto(s, state) == sess' = [sess EXCEPT ![s].state = state]
Quit(s, reason) == sess' = [sess EXCEPT ![s].state = "ending", ![s].bye = reason]
Execute(op) == ops' = Append(ops, op)

\* accept(): the handshake callback blocks on IntroduceSession.
Accept(s, ip) ==
    /\ sess[s].state = "closed" /\ Len(ops) < MaxOps
    /\ sess' = [sess EXCEPT ![s] = [Closed EXCEPT !.state = "introducing", !.ip = ip]]
    /\ Execute([type |-> "IntroduceSession", s |-> s])
    /\ UNCHANGED vars

\* Mutant of Handshake: a failed upgrade forgets the handle.
HandshakeLeak(s) ==
    /\ sess[s].state = "handshake"
    /\ Goto(s, "loop") \/ sess' = [sess EXCEPT ![s] = Closed]
    /\ UNCHANGED <<vars, ops>>

\* The websocket upgrade completes, or fails and the task ends with its handle.
Handshake(s) ==
    /\ sess[s].state = "handshake"
    /\ Goto(s, "loop") \/ Goto(s, "dropping")
    /\ UNCHANGED <<vars, ops>>

\* The task resumes with the answer it was waiting for.
Resume(s) ==
    LET me == sess[s]
        answer == me.answer
        next ==
            CASE me.state = "introducing" ->
                    IF answer = Done THEN "handshake" ELSE "closed"
              [] me.state = "entering" ->
                    IF answer.pid # NULL \/ answer = Lost THEN "loop" ELSE "ending"
              [] me.state = "listing" -> "ending"
              [] me.state = "pinging" -> "loop"
        pid == IF me.pid = NULL THEN answer.pid ELSE me.pid
        bye == IF next = "ending" /\ answer \notin {Done, Lost} THEN "Violation" ELSE me.bye
    IN  /\ me.state \in Waiting /\ answer # None
        /\ sess' = [sess EXCEPT ![s] =
              IF next = "closed" THEN Closed
              ELSE [me EXCEPT !.state = next, !.answer = None, !.pid = pid, !.bye = bye]]
        /\ UNCHANGED <<vars, ops>>

\* A message of the client that needs an answer; one that does not.
Ask(s, state, op) ==
    /\ sess[s].state = "loop" /\ Len(ops) < MaxOps
    /\ Goto(s, state) /\ Execute(op)
    /\ UNCHANGED vars
Tell(s, op) ==
    /\ sess[s].state = "loop" /\ sess[s].pid # NULL /\ Len(ops) < MaxOps
    /\ Execute(op)
    /\ UNCHANGED <<vars, sess>>

\* A client's messages.  Their arguments are whatever the client likes: they
\* are drawn when the operation is executed.  Host, Join and List are accepted
\* before the session has a player, the others after.
Host(s) == /\ "Host" \in Says /\ sess[s].pid = NULL
           /\ Ask(s, "entering", [type |-> "HostLobby", s |-> s])
Join(s) == /\ "Join" \in Says /\ sess[s].pid = NULL
           /\ Ask(s, "entering", [type |-> "JoinLobby", s |-> s])
List(s) == /\ "List" \in Says /\ sess[s].pid = NULL
           /\ Ask(s, "listing", [type |-> "ListLobbies", s |-> s])
Ping(s) == /\ "Ping" \in Says /\ sess[s].pid # NULL
           /\ Ask(s, "pinging", [type |-> "AssemblePong", s |-> s])
Request(s) == \E type \in Says \cap Requests :
                 Tell(s, [type |-> type, pid |-> sess[s].pid])

\* Leave removes the player, and so does relay() with an exhausted budget; the
\* session goes on until it reads its Disconnected.
Leave(s) == /\ "Leave" \in Says
            /\ \E reason \in Reason :
                  Tell(s, [type |-> "RemovePlayer", pid |-> sess[s].pid,
                           reason |-> reason])

\* An unparsable, oversized or misplaced message, or an exhausted session budget.
Violate(s) ==
    /\ sess[s].state = "loop"
    /\ Quit(s, "Violation")
    /\ UNCHANGED <<vars, ops>>

\* The client closes the websocket or the connection breaks.
ClientGone(s) ==
    /\ sess[s].state = "loop"
    /\ Goto(s, "ending")
    /\ UNCHANGED <<vars, ops>>

\* Five seconds without traffic end only a session that has no player.
IdleTimeout(s) ==
    /\ sess[s].state = "loop" /\ sess[s].pid = NULL
    /\ Goto(s, "ending")
    /\ UNCHANGED <<vars, ops>>

\* Mutant of Drain: Disconnected is forwarded like any other message.
DrainOn(s) ==
    /\ sess[s].state = "loop" /\ sess[s].pid # NULL
    /\ Receive(sess[s].pid)
    /\ UNCHANGED <<sess, ops>>

\* A message from the session's own channel goes to the client; Disconnected
\* ends the loop.
Drain(s) ==
    LET pid == sess[s].pid
    IN  /\ sess[s].state = "loop" /\ pid # NULL
        /\ Receive(pid)
        /\ IF Head(outbox[pid]).type = "Disconnected"
           THEN Quit(s, Head(outbox[pid]).reason) ELSE UNCHANGED sess
        /\ UNCHANGED ops

\* Mutant of End: a session that ends in a violation forgets its player.
EndForgetful(s) ==
    /\ sess[s].state = "ending"
    /\ Goto(s, "dropping")
    /\ IF sess[s].pid = NULL THEN UNCHANGED <<vars, ops>>
       ELSE /\ IF sess[s].bye = "Violation" THEN UNCHANGED ops
               ELSE Execute([type |-> "RemovePlayer", pid |-> sess[s].pid,
                             reason |-> sess[s].bye])
            /\ Hangup(sess[s].pid)

\* The end of serve(): RemovePlayer, then the session with its receiver is dropped.
End(s) ==
    /\ sess[s].state = "ending"
    /\ Goto(s, "dropping")
    /\ IF sess[s].pid = NULL THEN UNCHANGED <<vars, ops>>
       ELSE /\ Execute([type |-> "RemovePlayer", pid |-> sess[s].pid,
                        reason |-> sess[s].bye])
            /\ Hangup(sess[s].pid)

\* SessionHandle::drop.
DropHandle(s) ==
    /\ sess[s].state = "dropping"
    /\ sess' = [sess EXCEPT ![s] = Closed]
    /\ Execute([type |-> "CloseSession", ip |-> sess[s].ip])
    /\ UNCHANGED vars

-----------------------------------------------------------------------------
(* The event loop's thread and the timers *)

Reply(s, answer) == sess' = [sess EXCEPT ![s].answer = answer]

\* 64-bit ids do not repeat: no id that an operation in flight still names.
Unnamed(pid) == ~RemovalPending(pid)

Obey(op) ==
    \/ op.type = "SetListed" /\ \E b \in BOOLEAN : SetListed(op.pid, b)
    \/ op.type = "SetCapacity" /\ \E c \in Capacity : SetCapacity(op.pid, c)
    \/ op.type = "SetMaster" /\ \E q \in Pid : SetMaster(op.pid, q)
    \/ op.type = "KickPlayer" /\ \E q \in Pid : KickPlayer(op.pid, q)
    \/ /\ op.type = "Relay"
       /\ \E q \in Pid, t \in {"Offer", "Answer", "Candidate"} : Relay(op.pid, q, t)
    \/ /\ op.type = "SetPlayerMeta"
       /\ \E k \in Key, v \in Value : SetPlayerMeta(op.pid, k, v)
    \/ op.type = "ErasePlayerMeta" /\ \E k \in Key : ErasePlayerMeta(op.pid, k)
    \/ /\ op.type = "SetLobbyMeta"
       /\ \E k \in Key, v \in Value : SetLobbyMeta(op.pid, k, v)
    \/ op.type = "EraseLobbyMeta" /\ \E k \in Key : EraseLobbyMeta(op.pid, k)
    \/ op.type = "RemovePlayer" /\ RemovePlayer(op.pid, op.reason)
    \/ op.type = "CloseSession" /\ CloseSession(op.ip)
    \/ op.type = "Prune" /\ Prune

\* The questions, each answered to the session that asked.
Respond(op) ==
    \/ /\ op.type = "IntroduceSession"
       /\ \E ok \in BOOLEAN : /\ IntroduceSession(sess[op.s].ip, ok)
                              /\ Reply(op.s, IF ok THEN Done ELSE Refused)
    \/ /\ op.type = "HostLobby"
       /\ \E gid \in Gid, c \in Capacity, listed \in BOOLEAN, m, pm \in Metadata,
             reply \in Replies :
                /\ HostLobby(sess[op.s].ip, gid, m, c, listed, pm, reply)
                /\ Unnamed(reply.pid) /\ Reply(op.s, reply)
    \/ /\ op.type = "JoinLobby"
       /\ \E l \in LobbyId, pm \in Metadata, reply \in Replies :
                /\ JoinLobby(sess[op.s].ip, l, pm, reply)
                /\ Unnamed(reply.pid) /\ Reply(op.s, reply)
    \/ /\ op.type = "ListLobbies" /\ UNCHANGED vars
       /\ \/ Reply(op.s, Err("rate_limited"))
          \/ cap_ip(sess[op.s].ip) /\ Reply(op.s, Done)
    \/ op.type = "AssemblePong" /\ Reply(op.s, Done) /\ UNCHANGED vars

EventLoop ==
    /\ ops # << >>
    /\ ops' = Tail(ops)
    /\ \/ Respond(Head(ops))
       \/ Obey(Head(ops)) /\ UNCHANGED sess

\* A panic loses the operation; whoever waits for its answer sees it lost.
Panic ==
    /\ Panics /\ ops # << >>
    /\ ops' = Tail(ops)
    /\ EventLoopReset
    /\ IF Head(ops).type \in Questions THEN Reply(Head(ops).s, Lost) ELSE UNCHANGED sess

PruneTimer ==
    /\ Len(ops) < MaxOps /\ ~\E i \in DOMAIN ops : ops[i].type = "Prune"
    /\ Execute([type |-> "Prune"])
    /\ UNCHANGED <<vars, sess>>

TimePasses == Tick /\ UNCHANGED <<sess, ops>>

ServerInit ==
    /\ Init
    /\ ops = << >>
    /\ sess = [s \in Session |-> Closed]

ServerNext ==
    \/ \E s \in Session, ip \in Ip : Accept(s, ip)
    \/ \E s \in Session :
          \/ Handshake(s) \/ Resume(s) \/ Drain(s) \/ End(s) \/ DropHandle(s)
          \/ Host(s) \/ Join(s) \/ List(s) \/ Ping(s) \/ Request(s) \/ Leave(s)
          \/ Violate(s) \/ ClientGone(s) \/ IdleTimeout(s)
    \/ EventLoop
    \/ Panic
    \/ PruneTimer
    \/ TimePasses

\* The event loop's thread runs whenever there is an operation; a task that can
\* go on does; select! draws at random among its ready branches, so a channel
\* that again and again holds a message is read in the end.
Fairness ==
    /\ WF_svars(EventLoop)
    /\ \A s \in Session : /\ WF_svars(Resume(s)) /\ WF_svars(End(s))
                          /\ WF_svars(DropHandle(s)) /\ WF_svars(Handshake(s))
                          /\ SF_svars(Drain(s))

ServerSpec == ServerInit /\ [][ServerNext]_svars
FairServerSpec == ServerSpec /\ Fairness

-----------------------------------------------------------------------------
(* Properties *)

\* The sessions of an address that hold a SessionHandle, or are about to be
\* given one, and the closes of its past handles that are still in the channel.
Handles(ip) ==
    {s \in Session : /\ sess[s].ip = ip
                     /\ \/ sess[s].state \notin {"closed", "introducing"}
                        \/ sess[s].state = "introducing" /\ sess[s].answer = Done}
PendingCloses(ip) ==
    {i \in DOMAIN ops : ops[i].type = "CloseSession" /\ ops[i].ip = ip}
Counted(ip) == IF ip \in DOMAIN peers THEN session_count(ip) ELSE 0

\* The event loop's count of an address's sessions is exactly its handles plus
\* the closes under way: on every path (refused, failed handshake, kicked, idle,
\* listing) a session is counted once and uncounted once.
SessionAccounting ==
    \A ip \in Ip :
        Counted(ip) = Cardinality(Handles(ip)) + Cardinality(PendingCloses(ip))

\* Even when panics reset the event loop an address is never counted for more
\* sessions than it has, so it is never locked out for good.
NeverOvercounted ==
    \A ip \in Ip :
        Counted(ip) =< Cardinality(Handles(ip)) + Cardinality(PendingCloses(ip))

\* No ghosts: a registered player belongs to exactly one session that will know
\* of it, or its removal is already in the channel.  A player is registered
\* before its session learns the pid, and a session may end in between.
NoGhostPlayers ==
    \A p \in DOMAIN players :
        LET owners == {s \in Session : \/ sess[s].pid = p /\ sess[s].state \in InServe
                                       \/ sess[s].answer = Ok(p)}
        IN  \/ Cardinality(owners) = 1
            \/ owners = {} /\ RemovalPending(p)

\* Whatever ends a session, its player leaves the registry.
EndedSessionsLeave ==
    \A p \in Pid : (\E s \in Session : sess[s].state = "ending" /\ sess[s].pid = p)
                      ~> p \notin DOMAIN players

\* A player whose channel holds a Disconnected (kicked, pruned, out of budget)
\* is gone from its lobby in the end, whatever its client keeps sending.
DisconnectedPlayersLeave ==
    \A p \in Pid : (p \in DOMAIN outbox /\ \E i \in DOMAIN outbox[p] :
                        outbox[p][i].type = "Disconnected")
                      ~> p \notin DOMAIN players

\* A session does not outlive its player: after Leave or a refused relay the
\* Disconnected it is sent ends it, although it never idles out.
SessionsFollowTheirPlayer ==
    \A s \in Session : (sess[s].state \in InServe /\ sess[s].pid # NULL
                          /\ sess[s].pid \notin DOMAIN players)
                      ~> sess[s].state \notin InServe
=============================================================================
