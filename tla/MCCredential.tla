----------------------------- MODULE MCCredential -----------------------------
(* Small instances of the credential for model checking. *)
EXTENDS CredentialObserver, TLC

\* Two temporary locks of different length, then permanent, as in the
\* default policy.
Ladder2 == <<1, 2>>

Symmetry == Permutations(Passwords)

=============================================================================
