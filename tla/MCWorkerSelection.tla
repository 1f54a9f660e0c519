-------------------------- MODULE MCWorkerSelection --------------------------
(* WorkerSelection on small instances.  Workers are numbers in list order,   *)
(* so there is no symmetry.                                                  *)
EXTENDS WorkerSelection
=============================================================================
