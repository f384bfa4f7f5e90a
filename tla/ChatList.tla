------------------------------ MODULE ChatList ------------------------------
(***************************************************************************)
(* ChatList (src/src/chat.rs): the chats an application shows and which of *)
(* them is the current one.  It is added to when a connection opens,       *)
(* removed from when one closes, and paged through in both directions.     *)
(* Nothing stops a peer from being in the list twice.                      *)
(*                                                                         *)
(* Positions count from 0, as in the code; list is a sequence, so position *)
(* i is list[i + 1].                                                       *)
(***************************************************************************)
EXTENDS Integers, Sequences, FiniteSets

CONSTANTS
    Ids,      \* service ids
    None,     \* no current chat
    MaxLen    \* bound: chats in the list

ASSUME ChatListAssumption == None \notin Nat \cup Ids /\ MaxLen \in Nat

VARIABLES
    list,      \* ChatList.list
    current,   \* ChatList.current_index
    panicked   \* remove() met its panic!

vars == <<list, current, panicked>>

Positions == 0 .. Len(list) - 1

TypeOK ==
    /\ list \in Seq(Ids)
    /\ current \in Nat \cup {None}
    /\ panicked \in BOOLEAN

Init ==
    /\ list = << >>
    /\ current = None
    /\ panicked = FALSE

-----------------------------------------------------------------------------
Add(id) ==
    /\ ~panicked
    /\ Len(list) < MaxLen
    /\ list' = Append(list, id)
    /\ current' = Len(list)
    /\ UNCHANGED panicked

\* Mutant: the last chat goes instead of taking the removed one's place.
TruncateAt(s, i) == SubSeq(s, 1, Len(s) - 1)

\* Vec::swap_remove: the last chat takes the place of the removed one.
SwapRemove(s, i) ==
    SubSeq([s EXCEPT ![i + 1] = s[Len(s)]], 1, Len(s) - 1)

\* Mutant: the position is compared with > instead of >=.
IndexAfterRemovalStrict(i) ==
    IF current <= i THEN current
    ELSE IF current = 0 THEN None
    ELSE current - 1

\* Mutant: the position goes down whichever chat was removed.
IndexAfterRemovalAlways(i) ==
    IF current = 0 THEN None ELSE current - 1

\* Mutant: the position is not compared with 0, as if it could be negative.
IndexAfterRemovalUnderflow(i) == IF current < i THEN current ELSE current - 1

\* What becomes of the current position when the chat at i goes.
IndexAfterRemoval(i) ==
    IF current < i THEN current
    ELSE IF current = 0 THEN None
    ELSE current - 1

\* The first chat with that id; remove() does nothing for any other id.
IsFirst(id, i) ==
    /\ i \in Positions
    /\ list[i + 1] = id
    /\ \A j \in 0 .. i - 1 : list[j + 1] # id

Remove(id) ==
    /\ ~panicked
    /\ \E i \in Positions :
        /\ IsFirst(id, i)
        /\ list' = SwapRemove(list, i)
        /\ \/ /\ list' = << >>
              /\ current' = None
              /\ UNCHANGED panicked
           \/ /\ list' # << >>
              /\ current # None
              /\ current' = IndexAfterRemoval(i)
              /\ UNCHANGED panicked
           \/ /\ list' # << >>
              /\ current = None
              /\ panicked' = TRUE
              /\ UNCHANGED current

NextIndex(i) == IF i = Len(list) - 1 THEN 0 ELSE i + 1

\* Mutant: wraps around to one past the end.
PrevIndexPastEnd(i) == IF i = 0 THEN Len(list) ELSE i - 1

PrevIndex(i) == IF i = 0 THEN Len(list) - 1 ELSE i - 1

NextChat ==
    /\ ~panicked
    /\ current # None
    /\ current' = NextIndex(current)
    /\ UNCHANGED <<list, panicked>>

PrevChat ==
    /\ ~panicked
    /\ current # None
    /\ current' = PrevIndex(current)
    /\ UNCHANGED <<list, panicked>>

Next ==
    \/ \E id \in Ids : Add(id) \/ Remove(id)
    \/ NextChat
    \/ PrevChat

Spec == Init /\ [][Next]_vars

-----------------------------------------------------------------------------
(* Properties *)

\* The current position, when there is one, is that of a chat: current() finds
\* it and `list.len() - 1` in next_chat() and prev_chat() cannot underflow.
CurrentInRange == current # None => current \in Positions

\* Paging forward and then back, or back and then forward, returns to the same
\* chat, at the ends of the list too.
PagingReverses ==
    current # None =>
        /\ PrevIndex(NextIndex(current)) = current
        /\ NextIndex(PrevIndex(current)) = current

Count(s, id) == Cardinality({i \in DOMAIN s : s[i] = id})

\* remove() takes one occurrence of that chat and leaves every other one,
\* although it reorders them.
RemoveKeepsOthers ==
    [][\A id \in Ids : Remove(id) =>
            \A other \in Ids :
                Count(list', other) =
                    Count(list, other) - IF other = id THEN 1 ELSE 0]_vars

\* Closing a chat that comes after the current one does not change the current
\* chat, although another chat moves into the gap.
RemovalAheadKeepsCurrent ==
    [][\A id \in Ids, i \in Positions :
            Remove(id) /\ IsFirst(id, i) /\ current # None /\ current < i =>
                /\ current' = current
                /\ list'[current' + 1] = list[current + 1]]_vars

\* "Current subscription index is None when it shouldn't be": chat.rs asserts
\* that a list with chats has a current one.  Removing the first chat while it
\* is the current one leaves it without: see the run that violates this.
NeverPanics == ~panicked
=============================================================================
