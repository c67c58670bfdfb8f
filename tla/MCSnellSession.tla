--------------------------- MODULE MCSnellSession ---------------------------
(* TLC instances of SnellSession. *)
EXTENDS SnellSession, TLC

=============================================================================
