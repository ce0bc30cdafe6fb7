------------------------------ MODULE Protocol ------------------------------
(***************************************************************************)
(* What the two sides accept: the server's deserialisers                   *)
(* (server/src/protocol) and the client library's own checks               *)
(* (src/NutBlast.cpp), which are kept in step by hand.  A string is what   *)
(* the checks look at: its length in bytes and the worst character in it.  *)
(***************************************************************************)
EXTENDS Integers, FiniteSets

CONSTANTS
    MAX_PLAYERS, MAX_FIELDS, FIELD_NAME_MAX, FIELD_VALUE_MAX,   \* on both sides
    GID_MAX, SDP_MAX, CANDIDATE_MAX                             \* on the server's

ASSUME LimitsAssumption ==
    {MAX_PLAYERS, MAX_FIELDS, FIELD_NAME_MAX, FIELD_VALUE_MAX,
     GID_MAX, SDP_MAX, CANDIDATE_MAX} \subseteq Nat \ {0}

\* ASCII letters, digits and "-_. "; control characters; anything else.
Chars == {"plain", "control", "other"}
Text == [len : Nat, chars : Chars]

-----------------------------------------------------------------------------
(* The server *)

validate_gid(gid) == gid.len \in 1 .. GID_MAX /\ gid.chars = "plain"

\* Mutant of deserialize_field_name: the limit is the length of the buffer.
deserialize_field_name_short(s) ==
    /\ s.len # 0
    /\ s.len < FIELD_NAME_MAX
    /\ s.chars # "control"

deserialize_field_name(s) ==
    /\ s.len # 0
    /\ s.len =< FIELD_NAME_MAX
    /\ s.chars # "control"

deserialize_field_value(s) == s.len =< FIELD_VALUE_MAX

\* A HashMap of strings, here a function from names to values.
deserialize_metadata(meta) ==
    /\ \A k \in DOMAIN meta : deserialize_field_name(k) /\ deserialize_field_value(meta[k])
    /\ Cardinality(DOMAIN meta) =< MAX_FIELDS

validate_candidate(s) == s.len =< CANDIDATE_MAX
validate_sdp(s) == s.len =< SDP_MAX
validate_capacity(capacity) == capacity >= 2 /\ capacity < MAX_PLAYERS

-----------------------------------------------------------------------------
(* The client *)

\* An absent value erases the field and has no length.
check_field(key, value) ==
    /\ key.len \in 1 .. FIELD_NAME_MAX
    /\ value.len =< FIELD_VALUE_MAX

\* set_metadata: a new field must fit, an old one may be replaced.
may_set(meta, key) == Cardinality(DOMAIN meta) < MAX_FIELDS \/ key \in DOMAIN meta

\* NutBlast_SetMaxPlayers; NutBlast_Host, where 0 asks for the default.
may_resize(max) == max >= 2 /\ max =< MAX_PLAYERS
may_host(max) == max = 0 \/ may_resize(max)
host_capacity(max) == IF max = 0 THEN MAX_PLAYERS ELSE max
=============================================================================
