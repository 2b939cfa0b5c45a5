------------------------------- MODULE MCTunD -------------------------------
(* TunD for TLC. *)
EXTENDS TunD
=============================================================================
