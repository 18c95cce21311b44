---------------------------- MODULE MCTxOrdering ----------------------------
(* TxOrdering for TLC: PHY worker threads are interchangeable, so states   *)
(* that differ by a permutation of the workers are explored once.          *)
EXTENDS TxOrdering, TLC

CONSTANTS w1, w2

MCWorkers == {w1, w2}

MCSymmetry == Permutations(MCWorkers)
=============================================================================
