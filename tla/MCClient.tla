------------------------------ MODULE MCClient ------------------------------
(* Field names and values at the limits, for model checking Client. *)
EXTENDS Client

Boundary(limit, chars) == [len : {0, limit, limit + 1}, chars : chars]
SomeNames == Boundary(FIELD_NAME_MAX, {"plain"}) \cup [len : {1}, chars : {"control"}]
SomeGids == [len : {1, GID_MAX + 1}, chars : {"plain"}]
SomeSdps == [len : {CANDIDATE_MAX + 1, SDP_MAX + 1}, chars : {"plain"}]
SomeValues == [len : {FIELD_VALUE_MAX, FIELD_VALUE_MAX + 1}, chars : {"other"}]
=============================================================================
