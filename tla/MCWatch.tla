------------------------------ MODULE MCWatch ------------------------------
(* Finite values for the constants of the book and the hot set. *)
EXTENDS Watch

Two == 1..2
Last == {2}
=============================================================================
