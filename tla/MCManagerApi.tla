----------------------------- MODULE MCManagerApi -----------------------------
(* ManagerApi with integers of a few bits.                                   *)
EXTENDS ManagerApi
=============================================================================
