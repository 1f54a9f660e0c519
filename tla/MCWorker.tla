------------------------------- MODULE MCWorker -------------------------------
(* Worker on small instances.  Ids are interchangeable; where a run checks   *)
(* liveness no symmetry is used.                                             *)
EXTENDS Worker, TLC

Symmetry == Permutations(Id)
=============================================================================
