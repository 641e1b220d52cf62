------------------------------- MODULE MCTty -------------------------------
(* A page of three columns and three rows. *)
EXTENDS Tty
=============================================================================
