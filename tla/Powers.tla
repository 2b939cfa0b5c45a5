------------------------------- MODULE Powers -------------------------------
(* Powers of two, as shifts of one: the weights of the bits of a word. *)
EXTENDS Naturals

\* `1 << n'
Pow2[n \in Nat] == IF n = 0 THEN 1 ELSE 2 * Pow2[n - 1]
=============================================================================
