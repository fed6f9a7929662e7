--------------------------- MODULE MCObservedQueue ---------------------------
(* Producers are alike: a symmetry for the safety run.                       *)
EXTENDS ObservedQueue, TLC

ProducerSymmetry == Permutations(Producers)
=============================================================================
