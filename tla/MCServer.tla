------------------------------ MODULE MCServer ------------------------------
(* Instances of Server for TLC: endpoints are interchangeable. *)
EXTENDS Server, TLC

MCSymmetry == Permutations(Endpoints)
=============================================================================
