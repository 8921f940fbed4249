---------------------------- MODULE MCExecutor ----------------------------
(* Finite values for the executor's constants. *)
EXTENDS ExecutorProperties, TLC

CONSTANTS b1, b2
Pair == {b1, b2}
Single == {b1}
Swap == Permutations(Pair)

OneEst == {2}
CheapOrDear == {1, 3}
Dear == {3}
=============================================================================
