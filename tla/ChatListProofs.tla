--------------------------- MODULE ChatListProofs ---------------------------
(***************************************************************************)
(* Proofs about ChatList, for any ids and lists of any length.             *)
(***************************************************************************)
EXTENDS ChatList, FiniteSetTheorems, TLAPS

ListInv == TypeOK /\ CurrentInRange

LEMMA SwapRemoveList ==
    ASSUME NEW s \in Seq(Ids), NEW i \in 0 .. Len(s) - 1
    PROVE  /\ SwapRemove(s, i) \in Seq(Ids)
           /\ Len(SwapRemove(s, i)) = Len(s) - 1
<1>1. Len(s) \in Nat \ {0} /\ i + 1 \in 1 .. Len(s)
  OBVIOUS
<1> DEFINE t == [s EXCEPT ![i + 1] = s[Len(s)]]
<1>2. t \in Seq(Ids) /\ Len(t) = Len(s)
  BY <1>1
<1>3. Len(s) - 1 \in 0 .. Len(t)
  BY <1>1, <1>2
<1> HIDE DEF t
<1>4. /\ SubSeq(t, 1, Len(s) - 1) \in Seq(Ids)
      /\ Len(SubSeq(t, 1, Len(s) - 1)) = Len(s) - 1
  BY <1>1, <1>2, <1>3
<1> QED
  BY <1>4 DEF SwapRemove, t

LEMMA ListInvStep ==
    ASSUME ListInv, [Next]_vars
    PROVE  ListInv'
<1>1. /\ list \in Seq(Ids) /\ Len(list) \in Nat
      /\ current \in Nat \cup {None} /\ None \notin Nat
      /\ current # None => current \in Positions
  BY ChatListAssumption DEF ListInv, TypeOK, CurrentInRange
<1>2. ASSUME NEW id \in Ids, Add(id)
      PROVE  ListInv'
  <2>1. list' \in Seq(Ids) /\ Len(list') = Len(list) + 1
    BY <1>1, <1>2 DEF Add
  <2>2. current' = Len(list)
    BY <1>2 DEF Add
  <2> QED
    BY <1>1, <1>2, <2>1, <2>2
       DEF Add, ListInv, TypeOK, CurrentInRange, Positions
<1>3. ASSUME NEW id \in Ids, Remove(id)
      PROVE  ListInv'
  <2>1. PICK i \in Positions : /\ IsFirst(id, i)
                               /\ list' = SwapRemove(list, i)
    BY <1>3 DEF Remove
  <2>2. list' \in Seq(Ids) /\ Len(list') = Len(list) - 1
    BY <1>1, <2>1, SwapRemoveList DEF Positions
  <2>3. CASE list' = << >> /\ current' = None /\ UNCHANGED panicked
    BY <1>1, <2>2, <2>3 DEF ListInv, TypeOK, CurrentInRange
  <2>4. CASE /\ list' # << >> /\ current # None
             /\ \E j \in Positions : current' = IndexAfterRemoval(j)
             /\ UNCHANGED panicked
    <3>1. PICK j \in Positions : current' = IndexAfterRemoval(j)
      BY <2>4
    <3>2. current \in Nat /\ current < Len(list) /\ j \in Nat /\ j < Len(list)
      BY <1>1, <2>4 DEF Positions
    <3>3. \/ current' = None
          \/ current' \in Nat /\ current' < Len(list) - 1
      BY <1>1, <3>1, <3>2 DEF IndexAfterRemoval
    <3> QED
      BY <1>1, <2>2, <2>4, <3>3
         DEF ListInv, TypeOK, CurrentInRange, Positions
  <2>5. CASE list' # << >> /\ current = None /\ panicked' = TRUE
             /\ UNCHANGED current
    BY <1>1, <2>2, <2>5 DEF ListInv, TypeOK, CurrentInRange
  <2> QED
    BY <1>3, <2>3, <2>4, <2>5 DEF Remove
<1>4. CASE NextChat
  <2>1. current \in Nat /\ current < Len(list)
    BY <1>1, <1>4 DEF NextChat, Positions
  <2>2. current' \in Nat /\ current' < Len(list)
    BY <1>1, <1>4, <2>1 DEF NextChat, NextIndex
  <2> QED
    BY <1>1, <1>4, <2>2
       DEF NextChat, ListInv, TypeOK, CurrentInRange, Positions
<1>5. CASE PrevChat
  <2>1. current \in Nat /\ current < Len(list)
    BY <1>1, <1>5 DEF PrevChat, Positions
  <2>2. current' \in Nat /\ current' < Len(list)
    BY <1>1, <1>5, <2>1 DEF PrevChat, PrevIndex
  <2> QED
    BY <1>1, <1>5, <2>2
       DEF PrevChat, ListInv, TypeOK, CurrentInRange, Positions
<1>6. CASE UNCHANGED vars
  BY <1>6 DEF vars, ListInv, TypeOK, CurrentInRange, Positions
<1> QED
  BY <1>2, <1>3, <1>4, <1>5, <1>6 DEF Next

LEMMA ListInvariant == Spec => []ListInv
<1>1. Init => ListInv
  <2>1. << >> \in Seq(Ids)
    OBVIOUS
  <2> QED
    BY <2>1 DEF Init, ListInv, TypeOK, CurrentInRange
<1>2. ListInv /\ [Next]_vars => ListInv'
  BY ListInvStep
<1> QED
  BY <1>1, <1>2, PTL DEF Spec

\* Every variable of ChatList keeps its type: the current index is never
\* negative.
THEOREM TypeCorrect == Spec => []TypeOK
<1>1. ListInv => TypeOK
  BY DEF ListInv
<1> QED
  BY <1>1, ListInvariant, PTL

\* Whatever chats are added and removed and however the list is paged through,
\* the current position is that of a chat: no index of chat.rs is out of range.
THEOREM CurrentAlwaysInRange == Spec => []CurrentInRange
<1>1. ListInv => CurrentInRange
  BY DEF ListInv
<1> QED
  BY <1>1, ListInvariant, PTL

\* next_chat() and prev_chat() undo each other wherever the current chat is,
\* the wrap-around at both ends included.
THEOREM PagingAlwaysReverses == Spec => []PagingReverses
<1>1. ListInv => PagingReverses
  <2> SUFFICES ASSUME ListInv, current # None
               PROVE  /\ PrevIndex(NextIndex(current)) = current
                      /\ NextIndex(PrevIndex(current)) = current
    BY DEF PagingReverses
  <2>1. Len(list) \in Nat /\ current \in 0 .. Len(list) - 1
    BY DEF ListInv, TypeOK, CurrentInRange, Positions
  <2> QED
    BY <2>1 DEF PrevIndex, NextIndex
<1> QED
  BY <1>1, ListInvariant, PTL

-----------------------------------------------------------------------------
(* What Vec::swap_remove leaves of a list. *)

LEMMA SwapRemoveElements ==
    ASSUME NEW s \in Seq(Ids), NEW i \in 0 .. Len(s) - 1,
           NEW j \in 1 .. Len(s) - 1
    PROVE  SwapRemove(s, i)[j] = IF j = i + 1 THEN s[Len(s)] ELSE s[j]
<1>1. Len(s) \in Nat \ {0} /\ i + 1 \in 1 .. Len(s)
  OBVIOUS
<1> DEFINE t == [s EXCEPT ![i + 1] = s[Len(s)]]
<1>2. t \in Seq(Ids) /\ Len(t) = Len(s)
  BY <1>1
<1>3. t[j] = IF j = i + 1 THEN s[Len(s)] ELSE s[j]
  BY <1>1
<1>4. Len(s) - 1 \in 0 .. Len(t)
  BY <1>1, <1>2
<1> HIDE DEF t
<1>5. SubSeq(t, 1, Len(s) - 1)[j] = t[j]
  BY <1>1, <1>2, <1>4
<1> QED
  BY <1>3, <1>5 DEF SwapRemove, t

\* The places of a chat after the removal are its places before without the
\* removed one, the last place having become the removed one's.
LEMMA SwapRemoveCount ==
    ASSUME NEW s \in Seq(Ids), NEW i \in 0 .. Len(s) - 1, NEW id \in Ids
    PROVE  Count(SwapRemove(s, i), id) =
               Count(s, id) - IF id = s[i + 1] THEN 1 ELSE 0
<1> DEFINE n      == Len(s)
           t      == SwapRemove(s, i)
           before == {j \in DOMAIN s : s[j] = id}
           after  == {j \in DOMAIN t : t[j] = id}
           f      == [j \in after |-> IF j = i + 1 THEN n ELSE j]
<1>1. n \in Nat \ {0} /\ i + 1 \in 1 .. n /\ DOMAIN s = 1 .. n
  OBVIOUS
<1>2. DOMAIN t = 1 .. n - 1
  BY SwapRemoveList
<1>3. \A j \in 1 .. n - 1 : t[j] = IF j = i + 1 THEN s[n] ELSE s[j]
  BY SwapRemoveElements
<1> HIDE DEF t
<1>4. f \in Bijection(after, before \ {i + 1})
  <2>1. f \in [after -> before \ {i + 1}]
    BY <1>1, <1>2, <1>3
  <2>2. \A j, k \in after : f[j] = f[k] => j = k
    BY <1>1, <1>2
  <2>3. ASSUME NEW k \in before \ {i + 1}
        PROVE  \E j \in after : f[j] = k
    <3>1. CASE k = n
      <4>1. n # i + 1 /\ s[n] = id
        BY <2>3, <3>1
      <4>2. i + 1 \in 1 .. n - 1
        <5>1. n \in Nat /\ i \in Nat /\ i <= n - 1
          BY <1>1
        <5> HIDE DEF n
        <5> QED
          BY <4>1, <5>1
      <4>3. t[i + 1] = s[n]
        BY <1>3, <4>2
      <4>4. i + 1 \in after
        BY <1>2, <4>1, <4>2, <4>3
      <4> QED
        BY <3>1, <4>4
    <3>2. CASE k # n
      <4>1. k \in after /\ k # i + 1
        BY <1>1, <1>2, <1>3, <2>3, <3>2
      <4> QED
        BY <4>1
    <3> QED
      BY <3>1, <3>2
  <2> QED
    BY <2>1, <2>2, <2>3 DEF Bijection, Injection, IsInjective, Surjection
<1>5. IsFiniteSet(before) /\ IsFiniteSet(after)
  <2>1. IsFiniteSet(1 .. n) /\ IsFiniteSet(1 .. n - 1)
    BY <1>1, FS_Interval
  <2>2. before \in SUBSET (1 .. n) /\ after \in SUBSET (1 .. n - 1)
    BY <1>1, <1>2
  <2> QED
    BY <2>1, <2>2, FS_Subset
<1>6. Cardinality(after) = Cardinality(before \ {i + 1})
  BY <1>4, <1>5, FS_Bijection DEF ExistsBijection
<1>7. Cardinality(before \ {i + 1}) =
          IF i + 1 \in before THEN Cardinality(before) - 1 ELSE Cardinality(before)
  BY <1>5, FS_RemoveElement
<1>8. i + 1 \in before <=> id = s[i + 1]
  BY <1>1
<1>9. Cardinality(before) \in Nat
  BY <1>5, FS_CardinalityType
<1> QED
  BY <1>6, <1>7, <1>8, <1>9 DEF Count, t

\* Closing a chat takes exactly one occurrence of its peer out of the list and
\* loses or doubles no other chat, whatever the last element's move.
THEOREM RemovalKeepsOthers == Spec => RemoveKeepsOthers
<1>1. ASSUME ListInv, NEW id \in Ids, Remove(id), NEW other \in Ids
      PROVE  Count(list', other) =
                 Count(list, other) - IF other = id THEN 1 ELSE 0
  <2>1. PICK i \in Positions : IsFirst(id, i) /\ list' = SwapRemove(list, i)
    BY <1>1 DEF Remove
  <2>2. list \in Seq(Ids) /\ i \in 0 .. Len(list) - 1 /\ list[i + 1] = id
    BY <1>1, <2>1 DEF ListInv, TypeOK, Positions, IsFirst
  <2> QED
    BY <2>1, <2>2, SwapRemoveCount
<1>2. ListInv =>
        [\A id \in Ids : Remove(id) =>
            \A other \in Ids :
                Count(list', other) =
                    Count(list, other) - IF other = id THEN 1 ELSE 0]_vars
  BY <1>1
<1> QED
  BY <1>2, ListInvariant, PTL DEF RemoveKeepsOthers

\* The chat on the screen stays on the screen when one further down is closed:
\* neither its index nor the chat at that index changes.
THEOREM RemovalAheadSafe == Spec => RemovalAheadKeepsCurrent
<1>1. ASSUME ListInv, NEW id \in Ids, NEW i \in Positions,
             Remove(id), IsFirst(id, i), current # None, current < i
      PROVE  /\ current' = current
             /\ list'[current' + 1] = list[current + 1]
  <2>1. list \in Seq(Ids) /\ Len(list) \in Nat /\ current \in 0 .. Len(list) - 1
        /\ i \in 0 .. Len(list) - 1
    BY <1>1 DEF ListInv, TypeOK, CurrentInRange, Positions
  <2>2. ASSUME NEW j \in Positions, IsFirst(id, j)
        PROVE  j = i
    BY <1>1, <2>1, <2>2 DEF IsFirst, Positions
  <2>3. list' = SwapRemove(list, i)
    BY <1>1, <2>2 DEF Remove
  <2>4. Len(list') = Len(list) - 1 /\ Len(list) - 1 # 0
    BY <1>1, <2>1, <2>3, SwapRemoveList
  <2>5. list' # << >>
    BY <2>1, <2>4
  <2>6. current' = current
    BY <1>1, <2>2, <2>5 DEF Remove, IndexAfterRemoval
  <2>7. current + 1 \in 1 .. Len(list) - 1 /\ current + 1 # i + 1
    BY <1>1, <2>1
  <2>8. list'[current + 1] = list[current + 1]
    BY <2>1, <2>3, <2>7, SwapRemoveElements
  <2> QED
    BY <2>6, <2>8
<1>2. ListInv =>
        [\A id \in Ids, i \in Positions :
            Remove(id) /\ IsFirst(id, i) /\ current # None /\ current < i =>
                /\ current' = current
                /\ list'[current' + 1] = list[current + 1]]_vars
  BY <1>1
<1> QED
  BY <1>2, ListInvariant, PTL DEF RemovalAheadKeepsCurrent
=============================================================================
