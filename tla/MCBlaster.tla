----------------------------- MODULE MCBlaster -----------------------------
(* Small instances of Blaster for TLC. *)
EXTENDS Blaster, TLC

\* Ids, games, addresses are interchangeable: no action orders them.
Symmetry == Permutations(Pid) \cup Permutations(Lid) \cup Permutations(Gid)
            \cup Permutations(Ip)
=============================================================================
