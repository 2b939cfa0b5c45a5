------------------------------ MODULE MCClient ------------------------------
(* An instance of Client for TLC. *)
EXTENDS Client
=============================================================================
