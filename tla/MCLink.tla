------------------------------- MODULE MCLink -------------------------------
(* Instances of Link for TLC. *)
EXTENDS Link

\* A server that authorizes twice, and a client that authorizes at all, are
\* both out of turn.
OutOfTurn == [client |-> 1, server |-> 2]
=============================================================================
