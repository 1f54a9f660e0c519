------------------------------ MODULE MCMinkube ------------------------------
(* Minkube on small instances.  The workers are interchangeable; where a run *)
(* checks liveness no symmetry is used.                                      *)
EXTENDS Minkube, TLC

Symmetry == Permutations(Worker)
=============================================================================
