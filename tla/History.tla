------------------------------- MODULE History ------------------------------
(***************************************************************************)
(* What a chat history or a log promises its reader: the newest entries,   *)
(* oldest first, as many as it was made for.                               *)
(***************************************************************************)
EXTENDS Integers, Sequences

CONSTANTS
    Capacity,  \* entries that are kept
    Entries

VARIABLE kept

Newest(entries) ==
    IF Len(entries) <= Capacity THEN entries
    ELSE SubSeq(entries, Len(entries) - Capacity + 1, Len(entries))

Init == kept = << >>

Add(entry) == kept' = Newest(Append(kept, entry))

Next == \E entry \in Entries : Add(entry)

Spec == Init /\ [][Next]_kept
=============================================================================
