------------------------------ MODULE MCManager ------------------------------
(* Manager on small instances: the symmetry of its model values.  Symmetry  *)
(* is used by the runs without a liveness property only.                    *)
EXTENDS Manager

Symmetry == Permutations(Worker) \cup Permutations(Id) \cup Permutations(Handler)
=============================================================================
