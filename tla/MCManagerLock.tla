---------------------------- MODULE MCManagerLock ----------------------------
(* ManagerLock on small instances.                                           *)
EXTENDS ManagerLock
=============================================================================
