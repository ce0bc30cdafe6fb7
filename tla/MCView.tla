------------------------------- MODULE MCView -------------------------------
(* Small instances of View for TLC. *)
EXTENDS View, TLC

\* The other players are interchangeable.
Symmetry == Permutations(Pid \ {Me})
=============================================================================
