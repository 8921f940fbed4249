-------------------------------- MODULE MCReads -------------------------------
(* Six blocks in windows of five, so that a single block is left at the end. *)
EXTENDS Reads
=============================================================================
