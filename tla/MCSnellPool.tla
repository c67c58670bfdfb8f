---------------------------- MODULE MCSnellPool ----------------------------
(* TLC instances of SnellPool. *)
EXTENDS SnellPool, TLC

Symmetry == Permutations(Tasks) \cup Permutations(Conns)

=============================================================================
