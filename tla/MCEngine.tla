----------------------------- MODULE MCEngine -------------------------------
(* Small instances of Engine for TLC. *)
EXTENDS Engine, TLC

CONSTANTS c1, c2, p1, p2

TwoConns == {c1, c2}
OnePeer  == {p1}
TwoPeers == {p1, p2}

ConnSymmetry == Permutations(TwoConns)
PairSymmetry == Permutations(TwoConns) \cup Permutations(TwoPeers)
=============================================================================
