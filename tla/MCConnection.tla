---------------------------- MODULE MCConnection ----------------------------
(* Model values of Connection's clients for TLC. *)
EXTENDS Connection
CONSTANTS alpha, beta
=============================================================================
