----------------------------- MODULE MCRateLimit -----------------------------
(* RateLimit for TLC. *)
EXTENDS RateLimit, TLC

Limits  == [ip |-> 2, identity |-> 1]
Windows == [ip |-> 5, identity |-> 3]

Symmetry == Permutations(Callers) \cup Permutations(Identities)

=============================================================================
