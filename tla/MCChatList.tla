----------------------------- MODULE MCChatList -----------------------------
(* Small instances of ChatList for TLC. *)
EXTENDS ChatList, TLC

CONSTANTS a, b, c

ThreeIds == {a, b, c}

IdSymmetry == Permutations(ThreeIds)
=============================================================================
