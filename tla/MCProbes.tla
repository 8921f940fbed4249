------------------------------ MODULE MCProbes ------------------------------
EXTENDS Probes, TLC
CONSTANTS a, b
NetMC == (a :> 2) @@ (b :> 1)
=============================================================================
