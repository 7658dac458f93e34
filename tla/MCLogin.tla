------------------------------- MODULE MCLogin -------------------------------
(* Login for TLC. *)
EXTENDS Login, TLC

Ladder1 == <<1>>

Symmetry == Permutations(Requests)

=============================================================================
