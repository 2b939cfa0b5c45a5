---------------------------- MODULE MCSequence ----------------------------
(* Instance of Sequence for TLC: the threads are interchangeable. *)
EXTENDS Sequence, TLC

MCSymmetry == Permutations(Threads)
=============================================================================
