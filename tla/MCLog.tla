-------------------------------- MODULE MCLog -------------------------------
(* An instance of Log for TLC. *)
EXTENDS Log
=============================================================================
