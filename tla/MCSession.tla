------------------------------ MODULE MCSession ------------------------------
(* AuthenticationSession for TLC. *)
EXTENDS AuthenticationSession

=============================================================================
