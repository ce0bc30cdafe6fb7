------------------------------ MODULE MCServer ------------------------------
(* Small instances of Server for TLC. *)
EXTENDS Server, TLC

\* Ids, addresses and connection slots are interchangeable.
Symmetry == Permutations(Pid) \cup Permutations(Ip) \cup Permutations(Session)
=============================================================================
