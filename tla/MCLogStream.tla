------------------------------ MODULE MCLogStream ------------------------------
(* LogStream with headers of two bytes.                                      *)
EXTENDS LogStream
=============================================================================
