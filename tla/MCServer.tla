------------------------------ MODULE MCServer ------------------------------
(* Server for TLC. *)
EXTENDS Server

\* No factor, and one of each kind: with and without a name on the wire.
Factors == {{}, {"TOTP", "PASSKEY"}}

=============================================================================
