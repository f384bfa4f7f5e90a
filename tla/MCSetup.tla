------------------------------ MODULE MCSetup -------------------------------
(* Instances of Setup for TLC. *)
EXTENDS Setup, TLC

CONSTANTS p1, p2, i1, i2, i3, n1, n2, a1, a2

TwoProcs   == {p1, p2}
OneName    == {n1}
TwoNames   == {n1, n2}
TwoIds     == {i1, i2}
ThreeIds   == {i1, i2, i3}
TwoPorts   == {a1, a2}

SetupSymmetry ==
    Permutations(TwoProcs) \cup Permutations(TwoIds)
        \cup Permutations(TwoPorts) \cup Permutations(TwoNames)
=============================================================================
