------------------------------ MODULE MCSender ------------------------------
(* Finite values for the constants of the write path. *)
EXTENDS Sender

CONSTANTS u1, u2
TwoUrls == {u1, u2}
OneUrl == {u1}
=============================================================================
