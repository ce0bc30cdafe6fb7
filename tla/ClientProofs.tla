--------------------------- MODULE ClientProofs -----------------------------
(***************************************************************************)
(* What holds of the library and its session for every limit of the        *)
(* protocol, any names, values and ids, any number of connections and      *)
(* queues of any length.                                                   *)
(***************************************************************************)
EXTENDS Client, FiniteSetTheorems, SequenceTheorems, TLAPS

-----------------------------------------------------------------------------
(* Types *)

\* The sizes of a lobby that the library may hold or send.
Capacities == {0, MAX_PLAYERS} \cup 2 .. MAX_PLAYERS

\* The fields that passed check_field here or at another client.
Meta ==
    {f \in UNION {[D -> Values \cup {Absent}] : D \in SUBSET Names} :
        /\ IsFiniteSet(DOMAIN f)
        /\ \A k \in DOMAIN f : check_field(k, f[k])}

\* Announcements, requests, and the rest that either side sends.
Types == Entries \cup Requests \cup
         {"none", "Leave", "Ping", "Pong", "Connected", "Disconnected"}
Message == [type : Types, capacity : Capacities, meta : Meta, text : Text, pid : Nat]

Outgoing == {m \in Message : parses(m) \/ Excused(m)}
Uttered == {m \in Outgoing : m.type \notin Entries}
Unwelcoming == {m \in Message : m.type # "Connected"}

\* What the server may send on the connection n: a welcome carries its id.
Inbound(n) == {m \in Message : m.type = "Connected" => m.pid = n}

Lib == [mode : Entries, max_players : Capacities, our_pid : Nat, our_gid : Text,
        lobby_meta : Meta, permission_to_cook : BOOLEAN, time_to_die : BOOLEAN]
Faults == {"none", "bad_json", "bad_payload", "refused", "listed", "left", "kicked", "idle"}
Srv == [state : {"none", "serving", "ended"}, pid : Nat, fault : Faults,
        bad : Message, lost : BOOLEAN]

Places == {"game", "update", "reset", "clear", "farewell"}

TypesOK ==
    /\ pc \in Places
    /\ websocket \in {"none", "connecting", "open", "closing", "closed"}
    /\ entered \in BOOLEAN /\ early \in BOOLEAN /\ conn \in Nat
    /\ lib \in Lib /\ srv \in Srv
    /\ ws_out \in Seq(Uttered) /\ up \in Seq(Outgoing)
    /\ ws_in \in Seq(Inbound(conn)) /\ inbox \in Seq(Inbound(conn))
    /\ down \in Seq(Inbound(conn))

-----------------------------------------------------------------------------
(* The inductive invariant *)

\* The server has given this connection its id.
Arrived == websocket # "none" /\ srv.pid = conn

\* Which thread is where: a welcome of the server is on its way, queued or being
\* handled only on the connection it was given to.
ThreadsOK ==
    /\ inbox # << >> => pc = "update"
    /\ lib.permission_to_cook => pc \in {"game", "update"} /\ Arrived /\ lib.our_pid = conn
    /\ websocket = "none" => srv = NoSession /\ up = << >> /\ down = << >> /\ ~entered
    /\ websocket = "connecting" => srv = NoSession /\ ~entered
    /\ websocket # "none" => conn > 0
    /\ srv.state = "serving" => websocket = "open"
    /\ srv.pid \in {0, conn}
    /\ Arrived \/ /\ ws_in \in Seq(Unwelcoming)
                  /\ inbox \in Seq(Unwelcoming)
                  /\ down \in Seq(Unwelcoming)

\* The announcement, Host, Join or List, is made once on a connection, by onOpen.
\* As long as the session waits for it, it is the first thing the session will
\* read, unless something was sent early.
AnnouncementOK ==
    /\ \A i, j \in DOMAIN up : up[i].type \in Entries /\ up[j].type \in Entries => i = j
    /\ \A i \in DOMAIN up : up[i].type \in Entries => entered /\ srv.pid = 0 /\ ~srv.lost
    /\ srv.pid # 0 \/ srv.lost => entered
    /\ websocket # "none" /\ ~entered /\ ~early => ws_out = << >> /\ up = << >>
    /\ srv.state = "serving" /\ entered /\ ~early /\ srv.pid = 0 /\ ~srv.lost =>
          up # << >> /\ up[1].type \in Entries

\* Why the session ended.
FaultsOK ==
    /\ srv.fault = "bad_payload" => srv.state = "ended" /\ srv.pid = 0 /\ (early \/ srv.lost)
    /\ srv.fault = "bad_json" => Excused(srv.bad)

CInv == TypesOK /\ ThreadsOK /\ AnnouncementOK /\ FaultsOK

-----------------------------------------------------------------------------
(* Data *)

LEMMA MetaIntro ==
    ASSUME NEW D \in SUBSET Names, IsFiniteSet(D),
           NEW f \in [D -> Values \cup {Absent}],
           \A k \in D : check_field(k, f[k])
    PROVE  f \in Meta
<1>1. DOMAIN f = D
    OBVIOUS
<1>2. f \in UNION {[E -> Values \cup {Absent}] : E \in SUBSET Names}
    OBVIOUS
<1> QED
    BY <1>1, <1>2 DEF Meta

LEMMA MetaElim ==
    ASSUME NEW f \in Meta
    PROVE  /\ DOMAIN f \in SUBSET Names
           /\ f \in [DOMAIN f -> Values \cup {Absent}]
           /\ IsFiniteSet(DOMAIN f)
           /\ \A k \in DOMAIN f : check_field(k, f[k])
<1>1. PICK D \in SUBSET Names : f \in [D -> Values \cup {Absent}]
    BY DEF Meta
<1>2. DOMAIN f = D
    BY <1>1
<1> QED
    BY <1>1, <1>2 DEF Meta

LEMMA Limits ==
    /\ {MAX_PLAYERS, MAX_FIELDS, FIELD_NAME_MAX, FIELD_VALUE_MAX,
        GID_MAX, SDP_MAX, CANDIDATE_MAX} \subseteq Nat \ {0}
    /\ Names \subseteq Text /\ Values \subseteq Text /\ Gids \subseteq Text
    /\ Sdps \subseteq Text /\ Sizes \subseteq Nat
    /\ Absent \in Text
BY LimitsAssumption, ClientAssumption DEF Absent, Text, Chars

LEMMA NothingMeta == Nothing \in Meta /\ Cardinality(DOMAIN Nothing) = 0
<1>1. DOMAIN Nothing = {}
    BY DEF Nothing
<1>2. Nothing \in [{} -> Values \cup {Absent}]
    BY DEF Nothing
<1> QED
    BY <1>1, <1>2, MetaIntro, FS_EmptySet

\* A field that passed the check may be put into any fields.
LEMMA PutMeta ==
    ASSUME NEW meta \in Meta, NEW k \in Names, NEW v \in Values \cup {Absent},
           check_field(k, v)
    PROVE  /\ Put(meta, k, v) \in Meta
           /\ DOMAIN Put(meta, k, v) = DOMAIN meta \cup {k}
<1>1. /\ DOMAIN meta \in SUBSET Names /\ meta \in [DOMAIN meta -> Values \cup {Absent}]
      /\ IsFiniteSet(DOMAIN meta) /\ \A x \in DOMAIN meta : check_field(x, meta[x])
    BY MetaElim
<1>2. IsFiniteSet(DOMAIN meta \cup {k})
    BY <1>1, FS_AddElement
<1>3. Put(meta, k, v) \in [DOMAIN meta \cup {k} -> Values \cup {Absent}]
    BY <1>1 DEF Put
<1>4. \A x \in DOMAIN meta \cup {k} : check_field(x, Put(meta, k, v)[x])
    BY <1>1 DEF Put
<1>5. DOMAIN meta \cup {k} \in SUBSET Names
    BY <1>1
<1> QED
    BY <1>2, <1>3, <1>4, <1>5, MetaIntro

LEMMA SingleField ==
    ASSUME NEW k \in Names, NEW v \in Values \cup {Absent}, check_field(k, v)
    PROVE  /\ Put(Nothing, k, v) \in Meta
           /\ Cardinality(DOMAIN Put(Nothing, k, v)) = 1
<1>1. DOMAIN Nothing = {}
    BY DEF Nothing
<1>2. DOMAIN Put(Nothing, k, v) = {k} /\ Put(Nothing, k, v) \in Meta
    BY <1>1, NothingMeta, PutMeta
<1> QED
    BY <1>2, FS_Singleton

LEMMA RemoveMeta ==
    ASSUME NEW meta \in Meta, NEW k
    PROVE  [x \in DOMAIN meta \ {k} |-> meta[x]] \in Meta
<1>1. /\ DOMAIN meta \in SUBSET Names /\ meta \in [DOMAIN meta -> Values \cup {Absent}]
      /\ IsFiniteSet(DOMAIN meta) /\ \A x \in DOMAIN meta : check_field(x, meta[x])
    BY MetaElim
<1>2. IsFiniteSet(DOMAIN meta \ {k}) /\ DOMAIN meta \ {k} \in SUBSET Names
    BY <1>1, FS_Subset
<1> DEFINE f == [x \in DOMAIN meta \ {k} |-> meta[x]]
<1>3. f \in [DOMAIN meta \ {k} -> Values \cup {Absent}]
      /\ \A x \in DOMAIN meta \ {k} : check_field(x, f[x])
    BY <1>1
<1> QED
    BY <1>2, <1>3, MetaIntro

LEMMA MergeMeta ==
    ASSUME NEW old \in Meta, NEW new \in Meta
    PROVE  [k \in DOMAIN old \cup DOMAIN new |->
               IF k \in DOMAIN new THEN new[k] ELSE old[k]] \in Meta
<1>1. /\ DOMAIN old \in SUBSET Names /\ old \in [DOMAIN old -> Values \cup {Absent}]
      /\ IsFiniteSet(DOMAIN old) /\ \A x \in DOMAIN old : check_field(x, old[x])
    BY MetaElim
<1>2. /\ DOMAIN new \in SUBSET Names /\ new \in [DOMAIN new -> Values \cup {Absent}]
      /\ IsFiniteSet(DOMAIN new) /\ \A x \in DOMAIN new : check_field(x, new[x])
    BY MetaElim
<1>3. IsFiniteSet(DOMAIN old \cup DOMAIN new) /\ DOMAIN old \cup DOMAIN new \in SUBSET Names
    BY <1>1, <1>2, FS_Union
<1> DEFINE f == [k \in DOMAIN old \cup DOMAIN new |->
                    IF k \in DOMAIN new THEN new[k] ELSE old[k]]
<1>4. f \in [DOMAIN old \cup DOMAIN new -> Values \cup {Absent}]
    BY <1>1, <1>2
<1>5. \A x \in DOMAIN old \cup DOMAIN new : check_field(x, f[x])
    BY <1>1, <1>2
<1> QED
    BY <1>3, <1>4, <1>5, MetaIntro

LEMMA MsgType ==
    ASSUME NEW type \in Types
    PROVE  /\ Msg(type) \in Message
           /\ Msg(type).type = type /\ Msg(type).capacity = 0
           /\ Msg(type).meta = Nothing /\ Msg(type).text = Absent /\ Msg(type).pid = 0
BY NothingMeta, Limits DEF Msg, Message, Capacities

\* A message with one of its fields set.
LEMMA MsgCapacity ==
    ASSUME NEW type \in Types, NEW c \in Capacities
    PROVE  /\ [Msg(type) EXCEPT !.capacity = c] \in Message
           /\ [Msg(type) EXCEPT !.capacity = c].type = type
           /\ [Msg(type) EXCEPT !.capacity = c].capacity = c
           /\ [Msg(type) EXCEPT !.capacity = c].meta = Nothing
<1>1. [Msg(type) EXCEPT !.capacity = c] =
          [type |-> type, capacity |-> c, meta |-> Nothing, text |-> Absent, pid |-> 0]
    BY DEF Msg
<1> QED
    BY <1>1, NothingMeta, Limits DEF Message

LEMMA MsgMeta ==
    ASSUME NEW type \in Types, NEW f \in Meta
    PROVE  /\ [Msg(type) EXCEPT !.meta = f] \in Message
           /\ [Msg(type) EXCEPT !.meta = f].type = type
           /\ [Msg(type) EXCEPT !.meta = f].meta = f
<1>1. [Msg(type) EXCEPT !.meta = f] =
          [type |-> type, capacity |-> 0, meta |-> f, text |-> Absent, pid |-> 0]
    BY DEF Msg
<1> QED
    BY <1>1, Limits DEF Message, Capacities

LEMMA MsgText ==
    ASSUME NEW type \in Types, NEW x \in Text
    PROVE  /\ [Msg(type) EXCEPT !.text = x] \in Message
           /\ [Msg(type) EXCEPT !.text = x].type = type
           /\ [Msg(type) EXCEPT !.text = x].meta = Nothing
<1>1. [Msg(type) EXCEPT !.text = x] =
          [type |-> type, capacity |-> 0, meta |-> Nothing, text |-> x, pid |-> 0]
    BY DEF Msg
<1> QED
    BY <1>1, NothingMeta DEF Message, Capacities

\* What the library checks is all that the server checks, but for what is excused.
LEMMA CheckedOrExcused ==
    ASSUME NEW m \in Message,
           m.type = "Host" \/ Cardinality(DOMAIN m.meta) =< MAX_FIELDS
    PROVE  parses(m) \/ Excused(m)
<1>1. /\ m.capacity \in Capacities /\ m.meta \in Meta /\ m.text \in Text
      /\ m.text.len \in Nat
    BY DEF Message, Text
<1>2. /\ DOMAIN m.meta \in SUBSET Text /\ IsFiniteSet(DOMAIN m.meta)
      /\ \A k \in DOMAIN m.meta : check_field(k, m.meta[k])
    BY <1>1, MetaElim, Limits
<1>3. Cardinality(DOMAIN m.meta) \in Nat
    BY <1>2, FS_CardinalityType
<1>4. m.type \in {"Host", "SetCapacity"} /\ ~Excused(m) => validate_capacity(m.capacity)
    BY <1>1, Limits DEF Capacities, validate_capacity, Excused
<1>5. m.type \in Entries /\ ~Excused(m) => validate_gid(m.text)
    BY DEF Excused
<1>6. m.type = "PassOffer" /\ ~Excused(m) => validate_sdp(m.text)
    BY <1>1, Limits DEF Excused, validate_sdp
<1>7. m.type = "PassCandidate" /\ ~Excused(m) => validate_candidate(m.text)
    BY <1>1, Limits DEF Excused, validate_candidate
<1>8. ~Excused(m) => Cardinality(DOMAIN m.meta) =< MAX_FIELDS
    BY <1>3, Limits DEF Excused
<1>9. ~Excused(m) => \A k \in DOMAIN m.meta :
                        deserialize_field_name(k) /\ deserialize_field_value(m.meta[k])
    BY <1>2, Limits DEF Excused, check_field, deserialize_field_name,
       deserialize_field_value, Text
<1> QED
    BY <1>4, <1>5, <1>6, <1>7, <1>8, <1>9 DEF parses, deserialize_metadata

-----------------------------------------------------------------------------
(* Messages *)

\* A message that is no announcement and has at most one field is in order.
LEMMA UtteredIntro ==
    ASSUME NEW m \in Message, m.type \notin Entries, Cardinality(DOMAIN m.meta) \in {0, 1}
    PROVE  m \in Uttered
<1>1. Cardinality(DOMAIN m.meta) =< MAX_FIELDS
    BY Limits
<1> QED
    BY <1>1, CheckedOrExcused DEF Uttered, Outgoing

LEMMA PlainUttered ==
    ASSUME NEW type \in Types, type \notin Entries
    PROVE  Msg(type) \in Uttered
BY MsgType, NothingMeta, UtteredIntro

LEMMA ResizeUttered ==
    ASSUME NEW max \in Sizes, may_resize(max)
    PROVE  /\ max \in Capacities
           /\ [Msg("SetCapacity") EXCEPT !.capacity = max] \in Uttered
<1> DEFINE m == [Msg("SetCapacity") EXCEPT !.capacity = max]
<1>1. max \in Capacities
    BY Limits DEF may_resize, Capacities
<1>2. m \in Message /\ m.type = "SetCapacity" /\ m.meta = Nothing
    BY <1>1, MsgCapacity DEF Types, Requests
<1>3. m.type \notin Entries
    BY <1>2 DEF Entries
<1> HIDE DEF m
<1>4. m \in Uttered
    BY <1>2, <1>3, NothingMeta, UtteredIntro
<1> QED
    BY <1>1, <1>4 DEF m

LEMMA FieldUttered ==
    ASSUME NEW type \in {"SetLobbyMeta", "EraseLobbyMeta"},
           NEW k \in Names, NEW v \in Values \cup {Absent}, check_field(k, v)
    PROVE  [Msg(type) EXCEPT !.meta = Put(Nothing, k, v)] \in Uttered
<1> DEFINE m == [Msg(type) EXCEPT !.meta = Put(Nothing, k, v)]
<1>1. Put(Nothing, k, v) \in Meta /\ Cardinality(DOMAIN Put(Nothing, k, v)) = 1
    BY SingleField
<1>2. m \in Message /\ m.type = type /\ m.meta = Put(Nothing, k, v)
    BY <1>1, MsgMeta DEF Types, Requests
<1>3. m.type \notin Entries
    BY <1>2 DEF Entries
<1> HIDE DEF m
<1>4. m \in Uttered
    BY <1>1, <1>2, <1>3, UtteredIntro
<1> QED
    BY <1>4 DEF m

LEMMA LocalUttered ==
    ASSUME NEW type \in {"PassOffer", "PassCandidate"}, NEW sdp \in Sdps
    PROVE  [Msg(type) EXCEPT !.text = sdp] \in Uttered
<1> DEFINE m == [Msg(type) EXCEPT !.text = sdp]
<1>1. sdp \in Text
    BY Limits
<1>2. m \in Message /\ m.type = type /\ m.meta = Nothing
    BY <1>1, MsgText DEF Types, Requests
<1>3. m.type \notin Entries
    BY <1>2 DEF Entries
<1> HIDE DEF m
<1>4. m \in Uttered
    BY <1>2, <1>3, NothingMeta, UtteredIntro
<1> QED
    BY <1>4 DEF m

\* What onOpen sends.
LEMMA EntryOutgoing ==
    ASSUME lib \in Lib
    PROVE  Entry \in Outgoing /\ Entry.type \in Entries
<1>1. CASE lib.mode = "Host"
  <2> DEFINE m == [type |-> "Host", capacity |-> lib.max_players, meta |-> lib.lobby_meta,
                   text |-> lib.our_gid, pid |-> 0]
  <2>1. m \in Message /\ m.type = "Host"
    <3>1. /\ lib.max_players \in Capacities /\ lib.lobby_meta \in Meta
          /\ lib.our_gid \in Text
        BY DEF Lib
    <3> QED
        BY <3>1 DEF Message, Types, Entries
  <2>2. Entry = m
      BY <1>1 DEF Entry, Msg
  <2> HIDE DEF m
  <2>3. m \in Outgoing
      BY <2>1, CheckedOrExcused DEF Outgoing
  <2> QED
      BY <2>1, <2>2, <2>3 DEF Entries
<1>2. CASE lib.mode # "Host"
  <2> DEFINE m == [Msg(lib.mode) EXCEPT !.text = lib.our_gid]
  <2>1. lib.mode \in Types /\ lib.mode \in Entries /\ lib.our_gid \in Text
    <3>1. lib.mode \in Entries /\ lib.our_gid \in Text
        BY DEF Lib
    <3> QED
        BY <3>1 DEF Types
  <2>2. m \in Message /\ m.type = lib.mode /\ m.meta = Nothing
      BY <2>1, MsgText
  <2>3. Entry = m
      BY <1>2 DEF Entry
  <2> HIDE DEF m
  <2>4. Cardinality(DOMAIN m.meta) =< MAX_FIELDS
      BY <2>2, NothingMeta, Limits
  <2>5. m \in Outgoing
      BY <2>2, <2>4, CheckedOrExcused DEF Outgoing
  <2> QED
      BY <2>1, <2>2, <2>3, <2>5
<1> QED
    BY <1>1, <1>2

-----------------------------------------------------------------------------
(* Queues *)

LEMMA QueueTail ==
    ASSUME NEW S, NEW q \in Seq(S), q # << >>
    PROVE  /\ Tail(q) \in Seq(S) /\ Head(q) \in S /\ Head(q) = q[1]
           /\ Len(q) \in Nat \ {0} /\ Len(Tail(q)) = Len(q) - 1
           /\ DOMAIN q = 1 .. Len(q) /\ DOMAIN Tail(q) = 1 .. Len(q) - 1
           /\ \A i \in DOMAIN Tail(q) : i + 1 \in DOMAIN q /\ Tail(q)[i] = q[i + 1]
OBVIOUS

\* What is sent goes behind what is there.
Sent(q, r, m, s) ==
    /\ s \in Seq(Outgoing) /\ s # << >>
    /\ \A i \in DOMAIN s : s[i].type \in Entries =>
          \/ i \in DOMAIN q /\ s[i] = q[i]
          \/ i = Len(s) /\ i \notin DOMAIN q /\ m.type \in Entries
    /\ q # << >> => s[1] = q[1]
    /\ q = << >> /\ r = << >> => s[1] = m

LEMMA QueueSend ==
    ASSUME NEW q \in Seq(Outgoing), NEW r \in Seq(Uttered), NEW m \in Outgoing,
           NEW s, s = q \o Append(r, m)
    PROVE  Sent(q, r, m, s)
<1>1. r \in Seq(Outgoing)
    BY DEF Uttered
<1>2. Append(r, m) \in Seq(Outgoing) /\ Len(Append(r, m)) = Len(r) + 1
    BY <1>1
<1>3. /\ s \in Seq(Outgoing) /\ Len(s) = Len(q) + Len(r) + 1
      /\ \A i \in 1 .. Len(s) : s[i] = IF i =< Len(q) THEN q[i] ELSE Append(r, m)[i - Len(q)]
  <2>1. PICK a \in Seq(Outgoing) : a = Append(r, m)
      BY <1>2
  <2>2. s = q \o a /\ Len(a) = Len(r) + 1
      BY <1>2, <2>1
  <2>3. s \in Seq(Outgoing) /\ Len(s) = Len(q) + Len(a)
      BY <2>2, ConcatProperties
  <2>4. \A i \in 1 .. Len(s) : s[i] = IF i =< Len(q) THEN q[i] ELSE a[i - Len(q)]
      BY <2>2, <2>3, ConcatProperties
  <2>5. Len(q) \in Nat /\ Len(r) \in Nat
      OBVIOUS
  <2> QED
      BY <2>1, <2>2, <2>3, <2>4, <2>5
<1>4. \A i \in 1 .. Len(r) : Append(r, m)[i] = r[i] /\ r[i].type \notin Entries
    BY DEF Uttered
<1>5. Append(r, m)[Len(r) + 1] = m
    BY <1>1
<1>6. Len(q) \in Nat /\ Len(r) \in Nat /\ DOMAIN q = 1 .. Len(q) /\ DOMAIN s = 1 .. Len(s)
    BY <1>3
<1>7. ASSUME NEW i \in DOMAIN s, s[i].type \in Entries
      PROVE  \/ i \in DOMAIN q /\ s[i] = q[i]
             \/ i = Len(s) /\ i \notin DOMAIN q /\ m.type \in Entries
  <2>0. i \in 1 .. Len(s) /\ Len(s) \in Nat
      BY <1>3, <1>6
  <2>1. CASE i =< Len(q)
      BY <2>1, <1>3, <1>6
  <2>2. CASE i > Len(q) /\ i < Len(s)
      BY <2>2, <1>3, <1>4, <1>6, <1>7
  <2>3. CASE i > Len(q) /\ i = Len(s)
      BY <2>3, <1>3, <1>5, <1>6, <1>7
  <2> QED
      BY <2>0, <2>1, <2>2, <2>3, <1>6
<1>8. q = << >> /\ r = << >> => s[1] = m
    BY <1>3, <1>5
<1> QED
    BY <1>3, <1>6, <1>7, <1>8 DEF Sent

-----------------------------------------------------------------------------
(* Steps of the game's thread that send nothing, or one message.  They may     *)
(* take away the permission to cook, never give it.                            *)

Calm ==
    /\ lib' \in Lib
    /\ pc' \in Places
    /\ lib'.permission_to_cook =>
          lib.permission_to_cook /\ lib'.our_pid = lib.our_pid /\ pc' \in {"game", "update"}
    /\ inbox' # << >> => pc' = "update"

LEMMA QuietCInv ==
    ASSUME CInv, Calm, UNCHANGED <<early, net, queues>>
    PROVE  CInv'
<1>1. UNCHANGED <<websocket, entered, up, down, srv, conn, early, ws_in, inbox, ws_out>>
    BY DEF net, queues
<1>2. TypesOK'
    BY <1>1 DEF CInv, TypesOK, Calm
<1>3. ThreadsOK'
    BY <1>1 DEF CInv, ThreadsOK, Calm, Arrived
<1>4. AnnouncementOK'
    BY <1>1 DEF CInv, AnnouncementOK
<1>5. FaultsOK'
    BY <1>1 DEF CInv, FaultsOK
<1> QED
    BY <1>2, <1>3, <1>4, <1>5 DEF CInv

LEMMA UtterCInv ==
    ASSUME CInv, Calm, NEW m \in Uttered, Utter(m)
    PROVE  CInv'
<1>0. TypesOK /\ ThreadsOK /\ AnnouncementOK /\ FaultsOK
    BY DEF CInv
<1>1. /\ UNCHANGED <<websocket, entered, down, srv, conn, ws_in, inbox>>
      /\ early' = (early \/ (websocket # "none" /\ ~entered))
      /\ Send(m)
    BY DEF Utter
<1>2. m \in Outgoing /\ m.type \notin Entries
    BY DEF Uttered
<1>3. /\ ws_out' \in Seq(Uttered) /\ up' \in Seq(Outgoing)
      /\ \A i \in DOMAIN up' : up'[i].type \in Entries => i \in DOMAIN up /\ up'[i] = up[i]
      /\ up # << >> => up' # << >> /\ up'[1] = up[1]
      /\ websocket # "open" => up' = up
  <2>1. CASE websocket = "open"
    <3>1. up' = up \o Append(ws_out, m) /\ ws_out' = << >>
        BY <1>1, <2>1 DEF Send
    <3>2. ws_out \in Seq(Uttered) /\ up \in Seq(Outgoing)
        BY <1>0 DEF TypesOK
    <3>3. Sent(up, ws_out, m, up')
        BY <1>2, <3>1, <3>2, QueueSend
    <3> QED
        BY <1>2, <2>1, <3>1, <3>3 DEF Sent
  <2>2. CASE websocket # "open"
    <3>1. ws_out' = Append(ws_out, m) /\ up' = up
        BY <1>1, <2>2 DEF Send
    <3>2. ws_out \in Seq(Uttered) /\ up \in Seq(Outgoing)
        BY <1>0 DEF TypesOK
    <3>3. ws_out' \in Seq(Uttered)
        BY <3>1, <3>2
    <3> QED
        BY <3>1, <3>2, <3>3
  <2> QED
      BY <2>1, <2>2
<1>4. TypesOK'
    BY <1>0, <1>1, <1>3 DEF TypesOK, Calm
<1>5. ThreadsOK'
    BY <1>0, <1>1, <1>3 DEF ThreadsOK, Calm, Arrived
<1>6. AnnouncementOK'
    BY <1>0, <1>1, <1>3 DEF AnnouncementOK, ThreadsOK, TypesOK
<1>7. FaultsOK'
    BY <1>0, <1>1 DEF FaultsOK
<1> QED
    BY <1>4, <1>5, <1>6, <1>7 DEF CInv

-----------------------------------------------------------------------------
(* The game's calls *)

\* The queues may be long; what a call adds is in order.
LEMMA SettersCInv ==
    ASSUME CInv,
           \/ \E max \in Sizes : SetMaxPlayers(max)
           \/ \E k \in Names, v \in Values : SetLobbyField(k, v)
           \/ \E k \in Names : UnsetLobbyField(k)
           \/ Request
    PROVE  CInv'
<1>0. lib \in Lib /\ pc \in Places
      /\ (inbox # << >> => pc = "update")
      /\ (lib.permission_to_cook => pc \in {"game", "update"})
    BY DEF CInv, TypesOK, ThreadsOK
<1>1. ASSUME NEW max \in Sizes, SetMaxPlayers(max)
      PROVE  CInv'
  <2>1. /\ max \in Capacities
        /\ [Msg("SetCapacity") EXCEPT !.capacity = max] \in Uttered
      BY <1>1, ResizeUttered DEF SetMaxPlayers
  <2>2. Utter([Msg("SetCapacity") EXCEPT !.capacity = max])
      BY <1>1 DEF SetMaxPlayers
  <2>3. Calm
      BY <1>0, <1>1, <2>1, <2>2 DEF SetMaxPlayers, Utter, Calm, Places, Lib
  <2> QED
      BY <2>1, <2>2, <2>3, UtterCInv
<1>2. ASSUME NEW k \in Names, NEW v \in Values, SetLobbyField(k, v)
      PROVE  CInv'
  <2>1. [Msg("SetLobbyMeta") EXCEPT !.meta = Put(Nothing, k, v)] \in Uttered
      BY <1>2, FieldUttered DEF SetLobbyField
  <2>2. Utter([Msg("SetLobbyMeta") EXCEPT !.meta = Put(Nothing, k, v)])
      BY <1>2 DEF SetLobbyField
  <2>3. Put(lib.lobby_meta, k, v) \in Meta
      BY <1>0, <1>2, PutMeta DEF SetLobbyField, Lib
  <2>4. Calm
      BY <1>0, <1>2, <2>2, <2>3 DEF SetLobbyField, Utter, Calm, Places, Lib
  <2> QED
      BY <2>1, <2>2, <2>4, UtterCInv
<1>3. ASSUME NEW k \in Names, UnsetLobbyField(k)
      PROVE  CInv'
  <2>1. [Msg("EraseLobbyMeta") EXCEPT !.meta = Put(Nothing, k, Absent)] \in Uttered
      BY <1>3, FieldUttered DEF UnsetLobbyField
  <2>2. Utter([Msg("EraseLobbyMeta") EXCEPT !.meta = Put(Nothing, k, Absent)])
      BY <1>3 DEF UnsetLobbyField
  <2>3. [x \in DOMAIN lib.lobby_meta \ {k} |-> lib.lobby_meta[x]] \in Meta
      BY <1>0, RemoveMeta DEF Lib
  <2>4. Calm
      BY <1>0, <1>3, <2>2, <2>3 DEF UnsetLobbyField, Utter, Calm, Places, Lib
  <2> QED
      BY <2>1, <2>2, <2>4, UtterCInv
<1>4. CASE Request
  <2>1. Msg("Request") \in Uttered
      BY PlainUttered DEF Types, Requests, Entries
  <2>2. Calm /\ Utter(Msg("Request"))
      BY <1>0, <1>4 DEF Request, Utter, Calm, Places
  <2> QED
      BY <2>1, <2>2, UtterCInv
<1> QED
    BY <1>1, <1>2, <1>3, <1>4

LEMMA LocalCInv ==
    ASSUME CInv, NEW sdp \in Sdps, onLocal(sdp)
    PROVE  CInv'
<1>1. PICK type \in {"PassOffer", "PassCandidate"} : Utter([Msg(type) EXCEPT !.text = sdp])
    BY DEF onLocal
<1>2. [Msg(type) EXCEPT !.text = sdp] \in Uttered
    BY LocalUttered
<1>3. Calm
    BY <1>1 DEF onLocal, Utter, Calm, CInv, TypesOK, ThreadsOK
<1> QED
    BY <1>1, <1>2, <1>3, UtterCInv

\* What changes the globals only.
LEMMA GlobalsCInv ==
    ASSUME CInv,
           \/ PurgeMetadata \/ Disconnect \/ ClearPlayers \/ Forget \/ UpdateDies
           \/ \E gid \in Gids : SetGameID(gid)
    PROVE  CInv'
<1>0. lib \in Lib /\ pc \in Places
      /\ (inbox # << >> => pc = "update")
      /\ (lib.permission_to_cook => pc \in {"game", "update"})
    BY DEF CInv, TypesOK, ThreadsOK
<1>1. CASE PurgeMetadata
  <2>1. Calm /\ UNCHANGED <<early, net, queues>>
      BY <1>0, <1>1, NothingMeta DEF PurgeMetadata, Calm, Places, Lib, queues
  <2> QED
      BY <2>1, QuietCInv
<1>2. CASE Disconnect
  <2>1. Calm /\ UNCHANGED <<early, net, queues>>
      BY <1>0, <1>2 DEF Disconnect, BeginDisconnect, Calm, Places, Lib, queues
  <2> QED
      BY <2>1, QuietCInv
<1>3. CASE Forget
  <2>1. Calm /\ UNCHANGED <<early, net, queues>>
      BY <1>0, <1>3 DEF Forget, Calm, Places, Lib, queues, Capacities
  <2> QED
      BY <2>1, QuietCInv
<1>4. CASE UpdateDies
  <2>1. Calm /\ UNCHANGED <<early, net, queues>>
      BY <1>0, <1>4 DEF UpdateDies, BeginDisconnect, Calm, Places, Lib, queues
  <2> QED
      BY <2>1, QuietCInv
<1>5. CASE ClearPlayers
  <2>1. Calm /\ UNCHANGED <<early, net, queues>>
      BY <1>0, <1>5 DEF ClearPlayers, Calm, Places, queues
  <2> QED
      BY <2>1, QuietCInv
<1>6. ASSUME NEW gid \in Gids, SetGameID(gid)
      PROVE  CInv'
  <2>1. Calm /\ UNCHANGED <<early, net, queues>>
      BY <1>0, <1>6, Limits DEF SetGameID, Calm, Places, Lib, queues
  <2> QED
      BY <2>1, QuietCInv
<1> QED
    BY <1>1, <1>2, <1>3, <1>4, <1>5, <1>6

LEMMA UpdateSendsCInv ==
    ASSUME CInv, UpdateLeaves \/ UpdateFlushes
    PROVE  CInv'
<1>0. lib \in Lib
    BY DEF CInv, TypesOK
<1>1. Msg("Leave") \in Uttered /\ Msg("Ping") \in Uttered
    BY PlainUttered DEF Types, Entries
<1>2. CASE UpdateLeaves
  <2>1. Calm /\ Utter(Msg("Leave"))
      BY <1>0, <1>2 DEF UpdateLeaves, BeginDisconnect, Utter, Calm, Places, Lib
  <2> QED
      BY <1>1, <2>1, UtterCInv
<1>3. CASE UpdateFlushes
  <2>1. Calm /\ (Utter(Msg("Ping")) \/ UNCHANGED <<early, net, queues>>)
      BY <1>0, <1>3 DEF UpdateFlushes, Utter, Calm, Places, queues
  <2> QED
      BY <1>1, <2>1, UtterCInv, QuietCInv
<1> QED
    BY <1>2, <1>3

-----------------------------------------------------------------------------
(* A connection begins and ends *)

LEMMA EmptyQueues == (\A n : << >> \in Seq(Inbound(n)))
                     /\ << >> \in Seq(Uttered) /\ << >> \in Seq(Outgoing)
                     /\ << >> \in Seq(Unwelcoming) /\ DOMAIN << >> = {}
OBVIOUS

LEMMA NoSessionType ==
    /\ NoSession \in Srv /\ NoSession.state = "none" /\ NoSession.pid = 0
    /\ NoSession.fault = "none" /\ ~NoSession.lost
<1>1. Msg("none") \in Message
    BY MsgType DEF Types
<1> QED
    BY <1>1 DEF NoSession, Srv, Faults

LEMMA JoinCInv ==
    ASSUME CInv, Calls, NEW mode \in Entries, NEW max \in Capacities, join(mode, max)
    PROVE  CInv'
<1>0. TypesOK /\ ThreadsOK
    BY DEF CInv
<1>1. /\ websocket = "none" /\ websocket' = "connecting" /\ ~entered'
      /\ conn' = conn + 1 /\ ~early' /\ srv' = NoSession
      /\ ws_in' = << >> /\ ws_out' = << >> /\ UNCHANGED <<pc, inbox, up, down>>
    BY DEF join
<1>2. lib' \in Lib /\ ~lib'.permission_to_cook
    BY <1>0 DEF join, TypesOK, Lib
<1>3. up = << >> /\ down = << >> /\ inbox = << >>
    BY <1>0, <1>1 DEF ThreadsOK, Calls
<1>4. early' \in BOOLEAN /\ entered' \in BOOLEAN
    BY DEF join
<1>5. TypesOK'
    BY <1>0, <1>1, <1>2, <1>3, <1>4, NoSessionType, EmptyQueues DEF TypesOK, Places
<1>6. ThreadsOK'
    BY <1>0, <1>1, <1>2, <1>3, NoSessionType, EmptyQueues DEF ThreadsOK, TypesOK
<1>7. AnnouncementOK'
    BY <1>1, <1>3, NoSessionType, EmptyQueues DEF AnnouncementOK
<1>8. FaultsOK'
    BY <1>1, NoSessionType DEF FaultsOK
<1> QED
    BY <1>5, <1>6, <1>7, <1>8 DEF CInv

LEMMA ConnectCInv ==
    ASSUME CInv, (\E max \in Sizes : Host(max)) \/ Join \/ FindLobbies
    PROVE  CInv'
<1>0. lib.max_players \in Capacities
    BY DEF CInv, TypesOK, Lib
<1>1. ASSUME NEW max \in Sizes, Host(max)
      PROVE  CInv'
  <2>1. host_capacity(max) \in Capacities
      BY <1>1, Limits DEF Host, may_host, may_resize, host_capacity, Capacities
  <2> QED
      BY <1>1, <2>1, JoinCInv DEF Host, Entries
<1>2. CASE Join \/ FindLobbies
    BY <1>0, <1>2, JoinCInv DEF Join, FindLobbies, Entries
<1> QED
    BY <1>1, <1>2

LEMMA SilenceCInv ==
    ASSUME CInv, Silence
    PROVE  CInv'
<1>0. TypesOK /\ ThreadsOK
    BY DEF CInv
<1>1. /\ pc = "reset" /\ pc' = "clear" /\ websocket' = "none" /\ entered' = FALSE
      /\ ws_in' = << >> /\ ws_out' = << >> /\ up' = << >> /\ down' = << >>
      /\ srv' = NoSession /\ UNCHANGED <<lib, inbox, early, conn>>
    BY DEF Silence
<1>2. inbox = << >> /\ ~lib.permission_to_cook
    BY <1>0, <1>1 DEF ThreadsOK
<1>3. TypesOK'
    BY <1>0, <1>1, NoSessionType, EmptyQueues DEF TypesOK, Places
<1>4. ThreadsOK'
    BY <1>1, <1>2, NoSessionType, EmptyQueues DEF ThreadsOK
<1>5. AnnouncementOK'
    BY <1>1, NoSessionType, EmptyQueues DEF AnnouncementOK
<1>6. FaultsOK'
    BY <1>1, NoSessionType DEF FaultsOK
<1> QED
    BY <1>3, <1>4, <1>5, <1>6 DEF CInv

LEMMA OpensCInv ==
    ASSUME CInv, Opens
    PROVE  CInv'
<1>0. TypesOK /\ ThreadsOK /\ AnnouncementOK /\ FaultsOK
    BY DEF CInv
<1>1. /\ websocket = "connecting" /\ websocket' = "open"
      /\ srv' = [srv EXCEPT !.state = "serving"]
      /\ UNCHANGED <<pc, lib, inbox, early, entered, up, down, conn, ws_in, ws_out>>
    BY DEF Opens, app
<1>2. /\ srv' \in Srv /\ srv'.pid = srv.pid /\ srv'.lost = srv.lost
      /\ srv'.fault = srv.fault /\ srv'.bad = srv.bad /\ srv'.state = "serving"
    BY <1>0, <1>1 DEF TypesOK, Srv
<1>3. TypesOK'
    BY <1>0, <1>1, <1>2 DEF TypesOK
<1>4. ThreadsOK'
    BY <1>0, <1>1, <1>2 DEF ThreadsOK, Arrived
<1>5. AnnouncementOK'
    BY <1>0, <1>1, <1>2 DEF AnnouncementOK, ThreadsOK
<1>6. srv.fault = "none"
    BY <1>0, <1>1, NoSessionType DEF ThreadsOK
<1>7. FaultsOK'
    BY <1>0, <1>1, <1>2, <1>6 DEF FaultsOK
<1> QED
    BY <1>3, <1>4, <1>5, <1>7 DEF CInv

LEMMA ClosesCInv ==
    ASSUME CInv, Closes
    PROVE  CInv'
<1>0. TypesOK /\ ThreadsOK /\ AnnouncementOK /\ FaultsOK
    BY DEF CInv
<1>1. /\ websocket \in {"connecting", "open"} /\ websocket' = "closing"
      /\ up' = << >> /\ down' = << >> /\ srv' = [srv EXCEPT !.state = "ended"]
      /\ UNCHANGED <<pc, lib, inbox, early, entered, conn, ws_in, ws_out>>
    BY DEF Closes, app
<1>2. /\ srv' \in Srv /\ srv'.pid = srv.pid /\ srv'.lost = srv.lost
      /\ srv'.fault = srv.fault /\ srv'.bad = srv.bad /\ srv'.state = "ended"
    BY <1>0, <1>1 DEF TypesOK, Srv
<1>3. TypesOK'
    BY <1>0, <1>1, <1>2, EmptyQueues DEF TypesOK
<1>4. ThreadsOK'
    BY <1>0, <1>1, <1>2, EmptyQueues DEF ThreadsOK, Arrived
<1>5. AnnouncementOK'
    BY <1>0, <1>1, <1>2, EmptyQueues DEF AnnouncementOK, ThreadsOK
<1>6. FaultsOK'
    BY <1>0, <1>1, <1>2 DEF FaultsOK
<1> QED
    BY <1>3, <1>4, <1>5, <1>6 DEF CInv

LEMMA ClosedCInv ==
    ASSUME CInv, onClosed
    PROVE  CInv'
<1>0. TypesOK /\ ThreadsOK /\ AnnouncementOK /\ FaultsOK
    BY DEF CInv
<1>1. /\ websocket = "closing" /\ websocket' = "closed"
      /\ UNCHANGED <<pc, early, entered, up, down, srv, conn, ws_in, inbox, ws_out>>
    BY DEF onClosed, queues
<1>2. /\ lib' \in Lib /\ lib'.our_pid = lib.our_pid
      /\ lib'.permission_to_cook = lib.permission_to_cook
    BY <1>0 DEF onClosed, TypesOK, Lib
<1>3. TypesOK'
    BY <1>0, <1>1, <1>2 DEF TypesOK
<1>4. ThreadsOK'
    BY <1>0, <1>1, <1>2 DEF ThreadsOK, Arrived
<1>5. AnnouncementOK' /\ FaultsOK'
    BY <1>0, <1>1 DEF AnnouncementOK, FaultsOK
<1> QED
    BY <1>3, <1>4, <1>5 DEF CInv

-----------------------------------------------------------------------------
(* Messages arrive and are handled *)

LEMMA MessageCInv ==
    ASSUME CInv, onMessage
    PROVE  CInv'
<1>0. TypesOK /\ ThreadsOK /\ AnnouncementOK /\ FaultsOK
    BY DEF CInv
<1>1. /\ down # << >> /\ ws_in' = Append(ws_in, Head(down)) /\ down' = Tail(down)
      /\ websocket = "open"
      /\ UNCHANGED <<pc, lib, inbox, early, websocket, entered, up, srv, conn, ws_out>>
    BY DEF onMessage, app
<1>2. down' \in Seq(Inbound(conn)) /\ ws_in' \in Seq(Inbound(conn))
    BY <1>0, <1>1, QueueTail DEF TypesOK
<1>3. ASSUME ~Arrived
      PROVE  down' \in Seq(Unwelcoming) /\ ws_in' \in Seq(Unwelcoming)
  <2>1. down \in Seq(Unwelcoming) /\ ws_in \in Seq(Unwelcoming)
      BY <1>0, <1>3 DEF ThreadsOK
  <2> QED
      BY <1>1, <2>1, QueueTail
<1>4. TypesOK'
    BY <1>0, <1>1, <1>2 DEF TypesOK
<1>5. ThreadsOK'
    BY <1>0, <1>1, <1>3 DEF ThreadsOK, Arrived
<1>6. AnnouncementOK' /\ FaultsOK'
    BY <1>0, <1>1 DEF AnnouncementOK, FaultsOK
<1> QED
    BY <1>4, <1>5, <1>6 DEF CInv

LEMMA UpdateBeginsCInv ==
    ASSUME CInv, UpdateBegins
    PROVE  CInv'
<1>0. TypesOK /\ ThreadsOK /\ AnnouncementOK /\ FaultsOK
    BY DEF CInv
<1>1. /\ pc = "game" /\ pc' = "update" /\ inbox' = ws_in /\ ws_in' = << >>
      /\ UNCHANGED <<lib, early, websocket, entered, up, down, srv, conn, ws_out>>
    BY DEF UpdateBegins, net
<1>2. TypesOK'
    BY <1>0, <1>1, EmptyQueues DEF TypesOK, Places
<1>3. ThreadsOK'
    BY <1>0, <1>1, EmptyQueues DEF ThreadsOK, Arrived
<1>4. AnnouncementOK' /\ FaultsOK'
    BY <1>0, <1>1 DEF AnnouncementOK, FaultsOK
<1> QED
    BY <1>2, <1>3, <1>4 DEF CInv

\* A handler gives the permission to cook only for a welcome, and then the server
\* has given this connection its id.
LEMMA HandleLib ==
    ASSUME lib \in Lib, NEW m \in Inbound(conn), lib' = Handle(lib, m)
    PROVE  /\ lib' \in Lib
           /\ m.type = "Connected" => lib'.our_pid = conn
           /\ m.type # "Connected" =>
                 /\ lib'.permission_to_cook = lib.permission_to_cook
                 /\ lib'.our_pid = lib.our_pid
<1>0. m \in Message /\ (m.type = "Connected" => m.pid = conn)
    BY DEF Inbound
<1>1. CASE m.type = "Connected"
  <2>1. lib' = [lib EXCEPT !.our_pid = m.pid, !.permission_to_cook = TRUE]
      BY <1>1 DEF Handle
  <2>2. m.pid = conn /\ m.pid \in Nat
      BY <1>0, <1>1 DEF Message
  <2> QED
      BY <1>1, <2>1, <2>2 DEF Lib
<1>2. CASE m.type = "Disconnected"
  <2>1. lib' = [lib EXCEPT !.time_to_die = TRUE]
      BY <1>2 DEF Handle
  <2> QED
      BY <1>2, <2>1 DEF Lib
<1>3. CASE m.type = "SetCapacity"
  <2>1. lib' = [lib EXCEPT !.max_players = m.capacity]
      BY <1>3 DEF Handle
  <2> QED
      BY <1>0, <1>3, <2>1 DEF Lib, Message
<1>4. CASE m.type = "SetLobbyMeta"
  <2>1. PICK f : f = [k \in DOMAIN lib.lobby_meta \cup DOMAIN m.meta |->
                        IF k \in DOMAIN m.meta THEN m.meta[k] ELSE lib.lobby_meta[k]]
      OBVIOUS
  <2>2. f \in Meta
      BY <1>0, <2>1, MergeMeta DEF Lib, Message
  <2>3. lib' = [lib EXCEPT !.lobby_meta = f]
      BY <1>4, <2>1 DEF Handle
  <2> QED
      BY <1>4, <2>2, <2>3 DEF Lib
<1>5. CASE m.type \notin {"Connected", "Disconnected", "SetCapacity", "SetLobbyMeta"}
  <2>1. lib' = lib
      BY <1>5 DEF Handle
  <2> QED
      BY <1>5, <2>1
<1> QED
    BY <1>1, <1>2, <1>3, <1>4, <1>5

LEMMA HandleMessageCInv ==
    ASSUME CInv, HandleMessage
    PROVE  CInv'
<1>0. TypesOK /\ ThreadsOK /\ AnnouncementOK /\ FaultsOK
    BY DEF CInv
<1>1. /\ pc = "update" /\ inbox # << >> /\ inbox' = Tail(inbox)
      /\ UNCHANGED <<pc, early, websocket, entered, up, down, srv, conn, ws_in, ws_out>>
    BY DEF HandleMessage, net
<1>2. PICK m \in Inbound(conn) : m = Head(inbox) /\ inbox' \in Seq(Inbound(conn))
    BY <1>0, <1>1, QueueTail DEF TypesOK
<1>3. /\ lib' \in Lib
      /\ m.type = "Connected" => lib'.our_pid = conn
      /\ m.type # "Connected" => /\ lib'.permission_to_cook = lib.permission_to_cook
                                 /\ lib'.our_pid = lib.our_pid
    BY <1>0, <1>2, HandleLib DEF HandleMessage, TypesOK
<1>4. ASSUME ~Arrived
      PROVE  m.type # "Connected" /\ inbox' \in Seq(Unwelcoming)
  <2>1. inbox \in Seq(Unwelcoming)
      BY <1>0, <1>4 DEF ThreadsOK
  <2>2. inbox' \in Seq(Unwelcoming) /\ m \in Unwelcoming
      BY <1>1, <1>2, <2>1, QueueTail
  <2> QED
      BY <2>2 DEF Unwelcoming
<1>5. TypesOK'
    BY <1>0, <1>1, <1>2, <1>3 DEF TypesOK
<1>6. ThreadsOK'
    BY <1>0, <1>1, <1>3, <1>4 DEF ThreadsOK, Arrived
<1>7. AnnouncementOK' /\ FaultsOK'
    BY <1>0, <1>1 DEF AnnouncementOK, FaultsOK
<1> QED
    BY <1>5, <1>6, <1>7 DEF CInv

\* onOpen puts the announcement behind whatever was sent early, and at the front
\* if nothing was.
LEMMA OpenCInv ==
    ASSUME CInv, onOpen
    PROVE  CInv'
<1>0. TypesOK /\ ThreadsOK /\ AnnouncementOK /\ FaultsOK
    BY DEF CInv
<1>1. /\ websocket = "open" /\ ~entered /\ entered' = TRUE
      /\ up' = up \o Append(ws_out, Entry) /\ ws_out' = << >>
      /\ UNCHANGED <<pc, lib, inbox, early, websocket, down, srv, conn, ws_in>>
    BY DEF onOpen, Send, app
<1>2. PICK m \in Outgoing : m = Entry /\ m.type \in Entries
    BY <1>0, EntryOutgoing DEF TypesOK
<1>3. Sent(up, ws_out, m, up')
    BY <1>0, <1>1, <1>2, QueueSend DEF TypesOK
<1>4. TypesOK'
    BY <1>0, <1>1, <1>3, EmptyQueues DEF TypesOK, Sent
<1>5. ThreadsOK'
    BY <1>0, <1>1 DEF ThreadsOK, Arrived
<1>6. \A i \in DOMAIN up : up[i].type \notin Entries
    BY <1>0, <1>1 DEF AnnouncementOK
<1>7. \A i \in DOMAIN up' : up'[i].type \in Entries => i = Len(up')
    BY <1>3, <1>6 DEF Sent
<1>8. ~early => up' # << >> /\ up'[1].type \in Entries
    BY <1>0, <1>1, <1>2, <1>3 DEF AnnouncementOK, Sent
<1>9. AnnouncementOK'
    BY <1>0, <1>1, <1>7, <1>8 DEF AnnouncementOK
<1>10. FaultsOK'
    BY <1>0, <1>1 DEF FaultsOK
<1> QED
    BY <1>4, <1>5, <1>9, <1>10 DEF CInv

-----------------------------------------------------------------------------
(* The session *)

\* What the session has not touched, apart from up, down and srv.
Aside == UNCHANGED <<pc, lib, inbox, early, websocket, entered, conn, ws_in, ws_out>>

LEMMA ReadHead ==
    ASSUME CInv, up # << >>, up' = Tail(up)
    PROVE  /\ up' \in Seq(Outgoing) /\ Head(up) \in Outgoing /\ Head(up) = up[1]
           /\ \A i, j \in DOMAIN up' : up'[i].type \in Entries /\ up'[j].type \in Entries => i = j
           /\ \A i \in DOMAIN up' : up'[i].type \in Entries =>
                 entered /\ srv.pid = 0 /\ ~srv.lost /\ Head(up).type \notin Entries
<1>0. up \in Seq(Outgoing) /\ AnnouncementOK
    BY DEF CInv, TypesOK
<1>1. /\ up' \in Seq(Outgoing) /\ Head(up) \in Outgoing /\ Head(up) = up[1]
      /\ DOMAIN up = 1 .. Len(up) /\ DOMAIN up' = 1 .. Len(up) - 1 /\ Len(up) \in Nat \ {0}
      /\ \A i \in DOMAIN up' : i + 1 \in DOMAIN up /\ up'[i] = up[i + 1]
    BY <1>0, QueueTail
<1>2. ASSUME NEW i \in DOMAIN up', NEW j \in DOMAIN up',
             up'[i].type \in Entries, up'[j].type \in Entries
      PROVE  i = j
  <2>1. i + 1 = j + 1
      BY <1>0, <1>1, <1>2 DEF AnnouncementOK
  <2> QED
      BY <1>1, <2>1
<1>3. ASSUME NEW i \in DOMAIN up', up'[i].type \in Entries
      PROVE  entered /\ srv.pid = 0 /\ ~srv.lost /\ Head(up).type \notin Entries
  <2>1. i + 1 \in DOMAIN up /\ up[i + 1].type \in Entries /\ 1 \in DOMAIN up /\ i + 1 # 1
      BY <1>1, <1>3
  <2> QED
      BY <1>0, <1>1, <2>1 DEF AnnouncementOK
<1> QED
    BY <1>1, <1>2, <1>3

\* Every end of a session keeps the invariant if its reason is a good one.
LEMMA EndCInv ==
    ASSUME CInv, srv.state = "serving", Aside,
           \/ up' = up
           \/ up # << >> /\ up' = Tail(up),
           NEW fault \in Faults, NEW bad \in Message, NEW last \in Seq(Unwelcoming),
           End(fault, bad, last),
           fault = "bad_payload" => srv.pid = 0 /\ (early \/ srv.lost),
           fault = "bad_json" => Excused(bad)
    PROVE  CInv'
<1>0. TypesOK /\ ThreadsOK /\ AnnouncementOK /\ FaultsOK
    BY DEF CInv
<1>1. UNCHANGED <<pc, lib, inbox, early, websocket, entered, conn, ws_in, ws_out>>
    BY DEF Aside
<1>2. /\ srv' \in Srv /\ srv'.pid = srv.pid /\ srv'.lost = srv.lost
      /\ srv'.fault = fault /\ srv'.bad = bad /\ srv'.state = "ended"
    BY <1>0 DEF TypesOK, Srv, End
<1>3. last \in Seq(Inbound(conn))
    BY DEF Unwelcoming, Inbound
<1>4. down' \in Seq(Inbound(conn))
    BY <1>0, <1>3, ConcatProperties DEF TypesOK, End
<1>5. ASSUME ~Arrived
      PROVE  down' \in Seq(Unwelcoming)
  <2>1. down \in Seq(Unwelcoming)
      BY <1>0, <1>5 DEF ThreadsOK
  <2> QED
      BY <2>1, ConcatProperties DEF End
<1>6. /\ up' \in Seq(Outgoing)
      /\ \A i, j \in DOMAIN up' : up'[i].type \in Entries /\ up'[j].type \in Entries => i = j
      /\ \A i \in DOMAIN up' : up'[i].type \in Entries => entered /\ srv.pid = 0 /\ ~srv.lost
      /\ up = << >> => up' = << >>
  <2>1. CASE up' = up
      BY <1>0, <2>1 DEF TypesOK, AnnouncementOK
  <2>2. CASE up # << >> /\ up' = Tail(up)
      BY <2>2, ReadHead
  <2> QED
      BY <2>1, <2>2
<1>7. TypesOK'
    BY <1>0, <1>1, <1>2, <1>4, <1>6 DEF TypesOK
<1>8. ThreadsOK'
    BY <1>0, <1>1, <1>2, <1>5 DEF ThreadsOK, Arrived
<1>9. AnnouncementOK'
    BY <1>0, <1>1, <1>2, <1>6 DEF AnnouncementOK
<1>10. FaultsOK'
    BY <1>1, <1>2 DEF FaultsOK
<1> QED
    BY <1>7, <1>8, <1>9, <1>10 DEF CInv

LEMMA LastWords ==
    /\ Msg("none") \in Message /\ Goodbye \in Seq(Unwelcoming)
    /\ << >> \in Seq(Unwelcoming) /\ <<Msg("List")>> \in Seq(Unwelcoming)
    /\ Msg("Pong") \in Unwelcoming
<1>1. /\ Msg("none") \in Message
      /\ Msg("Pong") \in Message /\ Msg("Pong").type = "Pong"
      /\ Msg("List") \in Message /\ Msg("List").type = "List"
      /\ Msg("Disconnected") \in Message /\ Msg("Disconnected").type = "Disconnected"
    BY MsgType DEF Types, Entries
<1>2. Msg("Pong") \in Unwelcoming /\ Msg("List") \in Unwelcoming
      /\ Msg("Disconnected") \in Unwelcoming
    BY <1>1 DEF Unwelcoming
<1> QED
    BY <1>1, <1>2 DEF Goodbye

LEMMA WelcomeInbound ==
    ASSUME NEW n \in Nat
    PROVE  [Msg("Connected") EXCEPT !.pid = n] \in Inbound(n)
<1>1. [Msg("Connected") EXCEPT !.pid = n] =
          [type |-> "Connected", capacity |-> 0, meta |-> Nothing, text |-> Absent, pid |-> n]
    BY DEF Msg
<1>2. "Connected" \in Types /\ 0 \in Capacities /\ Nothing \in Meta /\ Absent \in Text
    BY NothingMeta, Limits DEF Types, Capacities
<1> QED
    BY <1>1, <1>2 DEF Inbound, Message

LEMMA KickCInv ==
    ASSUME CInv, ServerKicks \/ Idle
    PROVE  CInv'
<1>1. PICK fault \in {"kicked", "idle"}, last \in {Goodbye, << >>} :
          srv.state = "serving" /\ End(fault, Msg("none"), last) /\ Aside /\ up' = up
    BY DEF ServerKicks, Idle, Aside, app
<1>2. fault \in Faults /\ fault # "bad_payload" /\ fault # "bad_json"
    BY DEF Faults
<1> QED
    BY <1>1, <1>2, LastWords, EndCInv

\* The other players' masters and the answers to our Ping.
LEMMA TellCInv ==
    ASSUME CInv, srv.state = "serving", Aside, UNCHANGED srv,
           \/ up' = up
           \/ up # << >> /\ up' = Tail(up) /\ (Head(up).type \notin Entries \/ srv.pid # 0),
           \/ down' = down
           \/ \E m \in Unwelcoming : down' = Append(down, m)
    PROVE  CInv'
<1>0. TypesOK /\ ThreadsOK /\ AnnouncementOK /\ FaultsOK
    BY DEF CInv
<1>1. UNCHANGED <<pc, lib, inbox, early, websocket, entered, conn, ws_in, ws_out, srv>>
    BY DEF Aside
<1>2. /\ down' \in Seq(Inbound(conn))
      /\ ~Arrived => down' \in Seq(Unwelcoming)
  <2>1. down \in Seq(Inbound(conn)) /\ (~Arrived => down \in Seq(Unwelcoming))
      BY <1>0 DEF TypesOK, ThreadsOK
  <2>2. ASSUME NEW m \in Unwelcoming, down' = Append(down, m)
        PROVE  /\ down' \in Seq(Inbound(conn))
               /\ ~Arrived => down' \in Seq(Unwelcoming)
    <3>1. m \in Inbound(conn)
        BY DEF Unwelcoming, Inbound
    <3> QED
        BY <2>1, <2>2, <3>1, AppendProperties
  <2> QED
      BY <2>1, <2>2
<1>4. /\ up' \in Seq(Outgoing)
      /\ \A i, j \in DOMAIN up' : up'[i].type \in Entries /\ up'[j].type \in Entries => i = j
      /\ \A i \in DOMAIN up' : up'[i].type \in Entries => entered /\ srv.pid = 0 /\ ~srv.lost
      /\ up = << >> => up' = << >>
  <2>1. CASE up' = up
      BY <1>0, <2>1 DEF TypesOK, AnnouncementOK
  <2>2. CASE up # << >> /\ up' = Tail(up)
      BY <2>2, ReadHead
  <2> QED
      BY <2>1, <2>2
<1>5. entered /\ ~early /\ srv.pid = 0 /\ ~srv.lost => up' # << >> /\ up'[1].type \in Entries
  <2>1. CASE up' = up
      BY <1>0, <2>1 DEF AnnouncementOK
  <2>2. CASE up # << >> /\ up' = Tail(up) /\ (Head(up).type \notin Entries \/ srv.pid # 0)
      BY <1>0, <2>2, ReadHead DEF AnnouncementOK
  <2> QED
      BY <2>1, <2>2
<1>6. TypesOK'
    BY <1>0, <1>1, <1>2, <1>4 DEF TypesOK
<1>7. ThreadsOK'
    BY <1>0, <1>1, <1>2 DEF ThreadsOK, Arrived
<1>8. AnnouncementOK'
    BY <1>0, <1>1, <1>4, <1>5 DEF AnnouncementOK
<1>9. FaultsOK'
    BY <1>0, <1>1 DEF FaultsOK
<1> QED
    BY <1>6, <1>7, <1>8, <1>9 DEF CInv

LEMMA MasterTellsCInv ==
    ASSUME CInv,
           \/ \E c \in Sizes : Tell([Msg("SetCapacity") EXCEPT !.capacity = c])
           \/ \E k \in Names, v \in Values :
                 Tell([Msg("SetLobbyMeta") EXCEPT !.meta = Put(Nothing, k, v)])
    PROVE  CInv'
<1>1. ASSUME NEW c \in Sizes, Tell([Msg("SetCapacity") EXCEPT !.capacity = c])
      PROVE  CInv'
  <2>1. PICK m : m = [Msg("SetCapacity") EXCEPT !.capacity = c]
      OBVIOUS
  <2>2. m.type = "SetCapacity" /\ m.capacity = c
      BY <2>1 DEF Msg
  <2>3. c \in Capacities
      BY <1>1, <2>1, <2>2, Limits DEF Tell, parses, validate_capacity, Capacities
  <2>4. m \in Unwelcoming
      BY <2>1, <2>2, <2>3, MsgCapacity DEF Unwelcoming, Types, Requests
  <2> QED
      BY <1>1, <2>1, <2>4, TellCInv DEF Tell, Aside, app
<1>2. ASSUME NEW k \in Names, NEW v \in Values,
             Tell([Msg("SetLobbyMeta") EXCEPT !.meta = Put(Nothing, k, v)])
      PROVE  CInv'
  <2>1. PICK m : m = [Msg("SetLobbyMeta") EXCEPT !.meta = Put(Nothing, k, v)]
      OBVIOUS
  <2>2. m.type = "SetLobbyMeta" /\ m.meta = Put(Nothing, k, v)
      BY <2>1 DEF Msg
  <2>3. k \in DOMAIN m.meta /\ m.meta[k] = v
      BY <2>2 DEF Put
  <2>4. deserialize_field_name(k) /\ deserialize_field_value(v)
      BY <1>2, <2>1, <2>3 DEF Tell, parses, deserialize_metadata
  <2>5. check_field(k, v)
      BY <2>4, Limits DEF check_field, deserialize_field_name, deserialize_field_value, Text
  <2>6. m \in Unwelcoming
      BY <2>1, <2>2, <2>5, SingleField, MsgMeta DEF Unwelcoming, Types, Requests
  <2> QED
      BY <1>2, <2>1, <2>6, TellCInv DEF Tell, Aside, app
<1> QED
    BY <1>1, <1>2

\* The answer to Host or Join, or its loss in a restart of the event loop.
LEMMA AdmitCInv ==
    ASSUME CInv, srv.state = "serving", srv.pid = 0, Aside,
           up # << >>, up' = Tail(up), Head(up).type \in Entries,
           \/ /\ srv' = [srv EXCEPT !.pid = conn]
              /\ down' = Append(down, [Msg("Connected") EXCEPT !.pid = conn])
           \/ srv' = [srv EXCEPT !.lost = TRUE] /\ UNCHANGED down
    PROVE  CInv'
<1>0. TypesOK /\ ThreadsOK /\ AnnouncementOK /\ FaultsOK
    BY DEF CInv
<1>1. UNCHANGED <<pc, lib, inbox, early, websocket, entered, conn, ws_in, ws_out>>
    BY DEF Aside
<1>2. /\ up' \in Seq(Outgoing) /\ Head(up) = up[1]
      /\ \A i \in DOMAIN up' : up'[i].type \notin Entries
    BY ReadHead
<1>3. websocket = "open" /\ conn \in Nat /\ conn > 0 /\ ~Arrived /\ ~lib.permission_to_cook
    BY <1>0 DEF TypesOK, ThreadsOK, Arrived
<1>4. entered /\ srv.fault # "bad_payload"
  <2>1. 1 \in DOMAIN up
      BY <1>0, QueueTail DEF TypesOK
  <2> QED
      BY <1>0, <1>2, <2>1 DEF AnnouncementOK, FaultsOK
<1>5. srv' \in Srv /\ srv'.fault = srv.fault /\ srv'.bad = srv.bad /\ srv'.state = "serving"
    BY <1>0, <1>3 DEF TypesOK, Srv
<1>6. \/ srv'.pid = conn /\ down' = Append(down, [Msg("Connected") EXCEPT !.pid = conn])
      \/ srv'.pid = 0 /\ srv'.lost /\ down' = down
    BY <1>0, <1>3 DEF TypesOK, Srv
<1>7. down' \in Seq(Inbound(conn))
  <2>1. down \in Seq(Inbound(conn))
      BY <1>0 DEF TypesOK
  <2>2. PICK w : w = [Msg("Connected") EXCEPT !.pid = conn]
      OBVIOUS
  <2>3. w \in Inbound(conn)
      BY <1>3, <2>2, WelcomeInbound
  <2>4. Append(down, w) \in Seq(Inbound(conn))
      BY <2>1, <2>3, AppendProperties
  <2> QED
      BY <1>6, <2>1, <2>2, <2>4
<1>8. TypesOK'
    BY <1>0, <1>1, <1>2, <1>5, <1>7 DEF TypesOK
<1>9. ThreadsOK'
    BY <1>0, <1>1, <1>3, <1>5, <1>6 DEF ThreadsOK, Arrived
<1>10. AnnouncementOK'
    BY <1>1, <1>2, <1>3, <1>4, <1>6 DEF AnnouncementOK
<1>11. FaultsOK'
    BY <1>0, <1>4, <1>5 DEF FaultsOK
<1> QED
    BY <1>8, <1>9, <1>10, <1>11 DEF CInv

LEMMA ServeCInv ==
    ASSUME CInv, Serve
    PROVE  CInv'
<1>0. AnnouncementOK /\ ThreadsOK
    BY DEF CInv
<1>1. /\ srv.state = "serving" /\ up # << >> /\ up' = Tail(up) /\ Aside
    BY DEF Serve, Aside, app
<1>2. PICK m \in Outgoing : m = Head(up) /\ m = up[1]
    BY <1>1, ReadHead
<1>3. 1 \in DOMAIN up
    BY <1>1, QueueTail DEF CInv, TypesOK
<1>4. m.type \in Entries => srv.pid = 0
    BY <1>0, <1>2, <1>3 DEF AnnouncementOK
<1>5. m.type \notin Entries /\ srv.pid = 0 => early \/ srv.lost
    BY <1>0, <1>1, <1>2, <1>3 DEF AnnouncementOK, ThreadsOK
<1>6. m \in Message /\ (~parses(m) => Excused(m))
    BY DEF Outgoing
<1>7. \A fault \in {"refused", "listed", "left"} :
          fault \in Faults /\ fault # "bad_payload" /\ fault # "bad_json"
    BY DEF Faults
<1>8. CASE ~parses(m) /\ End("bad_json", m, Goodbye)
    BY <1>1, <1>6, <1>8, LastWords, EndCInv DEF Faults
<1>9. CASE m.type \in {"Host", "Join"} /\ srv.pid = 0 /\ Admit
  <2>1. m.type \in Entries
      BY <1>9 DEF Entries
  <2>2. CASE End("refused", Msg("none"), Goodbye)
      BY <1>1, <1>7, <2>2, LastWords, EndCInv
  <2>3. CASE ~End("refused", Msg("none"), Goodbye)
      BY <1>1, <1>2, <1>9, <2>1, <2>3, AdmitCInv DEF Admit
  <2> QED
      BY <2>2, <2>3
<1>10. CASE \E last \in {<<Msg("List")>>, Goodbye, << >>} : End("listed", Msg("none"), last)
    BY <1>1, <1>7, <1>10, LastWords, EndCInv
<1>11. CASE m.type = "Leave" /\ UNCHANGED <<srv, down>>
  <2>1. m.type \notin Entries
      BY <1>11 DEF Entries
  <2> QED
      BY <1>1, <1>2, <1>11, <2>1, TellCInv
<1>12. CASE End("left", Msg("none"), Goodbye)
    BY <1>1, <1>7, <1>12, LastWords, EndCInv
<1>13. CASE srv.pid # 0 /\ down' \in {Append(down, Msg("Pong")), down} /\ UNCHANGED srv
    BY <1>1, <1>13, LastWords, TellCInv
<1>14. CASE srv.pid # 0 /\ UNCHANGED <<srv, down>>
    BY <1>1, <1>14, TellCInv
<1>15. CASE /\ m.type \in (IF srv.pid = 0 THEN Requests \cup {"Ping"} ELSE Entries)
            /\ End("bad_payload", Msg("none"), Goodbye)
  <2>1. srv.pid = 0 /\ (early \/ srv.lost)
      BY <1>4, <1>5, <1>15 DEF Requests, Entries
  <2>2. "bad_payload" \in Faults /\ "bad_payload" # "bad_json"
      BY DEF Faults
  <2> QED
      BY <1>1, <1>15, <2>1, <2>2, LastWords, EndCInv
<1> QED
    BY <1>2, <1>8, <1>9, <1>10, <1>11, <1>12, <1>13, <1>14, <1>15 DEF Serve

-----------------------------------------------------------------------------
(* The theorems *)

LEMMA InitCInv == ClientInit => CInv
<1> SUFFICES ASSUME ClientInit PROVE CInv
    OBVIOUS
<1>1. lib \in Lib /\ ~lib.permission_to_cook
  <2>1. "Join" \in Entries /\ 0 \in Capacities /\ Nothing \in Meta /\ Gids \subseteq Text
      BY Limits, NothingMeta DEF Entries, Capacities
  <2>2. PICK gid \in Gids :
            lib = [mode |-> "Join", max_players |-> 0, our_pid |-> 0, our_gid |-> gid,
                   lobby_meta |-> Nothing, permission_to_cook |-> FALSE, time_to_die |-> FALSE]
    <3>1. lib.our_gid \in Gids
        BY DEF ClientInit
    <3> QED
        BY <3>1 DEF ClientInit
  <2> QED
      BY <2>1, <2>2 DEF Lib
<1>2. TypesOK
    BY <1>1, NoSessionType, EmptyQueues DEF ClientInit, TypesOK, Places
<1>3. ThreadsOK
    BY <1>1, NoSessionType, EmptyQueues DEF ClientInit, ThreadsOK
<1>4. AnnouncementOK
    BY NoSessionType, EmptyQueues DEF ClientInit, AnnouncementOK
<1>5. FaultsOK
    BY NoSessionType DEF ClientInit, FaultsOK
<1> QED
    BY <1>2, <1>3, <1>4, <1>5 DEF CInv

LEMMA NextCInv == CInv /\ [ClientNext]_clientvars => CInv'
<1> SUFFICES ASSUME CInv, [ClientNext]_clientvars PROVE CInv'
    OBVIOUS
<1>1. CASE Game
    BY <1>1, ConnectCInv, SettersCInv, GlobalsCInv DEF Game
<1>2. CASE Session
    BY <1>2, ServeCInv, KickCInv, MasterTellsCInv DEF Session
<1>3. CASE UpdateBegins \/ HandleMessage \/ UpdateDies \/ UpdateLeaves \/ UpdateFlushes
    BY <1>3, UpdateBeginsCInv, HandleMessageCInv, GlobalsCInv, UpdateSendsCInv
<1>4. CASE Silence \/ ClearPlayers \/ Forget \/ Opens \/ onOpen \/ onMessage \/ Closes \/ onClosed
    BY <1>4, SilenceCInv, GlobalsCInv, OpensCInv, OpenCInv, MessageCInv, ClosesCInv, ClosedCInv
<1>5. CASE \E sdp \in Sdps : onLocal(sdp)
    BY <1>5, LocalCInv
<1>6. CASE UNCHANGED clientvars
  <2>1. Calm /\ UNCHANGED <<early, net, queues>>
      BY <1>6 DEF clientvars, app, queues, Calm, CInv, TypesOK, ThreadsOK
  <2> QED
      BY <2>1, QuietCInv
<1> QED
    BY <1>1, <1>2, <1>3, <1>4, <1>5, <1>6 DEF ClientNext

-----------------------------------------------------------------------------
(* Theorems *)

\* Whatever the game calls, whichever thread runs, and however connections fail:
\* a welcome is on its way or handled only on the connection it was given to, and
\* what is queued for the server was announced once and passes its checks or is
\* excused.
THEOREM ClientInvariant == ClientSpec => []CInv
BY InitCInv, NextCInv, PTL DEF ClientSpec

\* NutBlast_GetPlayerID never returns the id of an earlier connection: a welcome
\* that is handled, queued or on its way belongs to the connection there is, and
\* NutBlast_Disconnect takes the permission to cook away before the websocket.
THEOREM IdentityHolds == ClientSpec => []Identity
<1>1. CInv => Identity
    BY DEF CInv, ThreadsOK, Identity, Arrived
<1> QED
    BY <1>1, ClientInvariant, PTL

\* The server ends a session with bad_payload only if something was sent before
\* onOpen announced the client, or if the answer was lost in a restart: otherwise
\* the announcement is what the waiting session reads first, and it comes once.
THEOREM RefusedOnlyIfEarlyHolds == ClientSpec => []RefusedOnlyIfEarly
<1>1. CInv => RefusedOnlyIfEarly
    BY DEF CInv, ThreadsOK, TypesOK, FaultsOK, RefusedOnlyIfEarly, Arrived
<1> QED
    BY <1>1, ClientInvariant, PTL

\* For whatever limits both sides share, the library's own checks let nothing
\* through that the server's deserialisers reject, but for what Excused names.
THEOREM MalformedOnlyIfHolds == ClientSpec => []MalformedOnlyIf
<1>1. CInv => MalformedOnlyIf
    BY DEF CInv, FaultsOK, MalformedOnlyIf
<1> QED
    BY <1>1, ClientInvariant, PTL
=============================================================================
