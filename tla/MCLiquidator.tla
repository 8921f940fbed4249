---------------------------- MODULE MCLiquidator ----------------------------
(* Finite values for the contract's constants. *)
EXTENDS Liquidator

MinProfitsMC == {0, 1}
=============================================================================
