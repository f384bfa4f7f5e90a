------------------------------ MODULE LogProofs -----------------------------
(***************************************************************************)
(* Proofs about Log, for any capacity of the circular queue, any tasks and *)
(* levels and any number of messages.                                      *)
(***************************************************************************)
EXTENDS Log, TLAPS

\* What the vector holds.  While it fills up it is what was taken; afterwards
\* the slots before the place to insert at have the newest messages, and the
\* ones from there on those that came before.
Ring ==
    LET n == Len(accepted) IN
    /\ Len(slots) = IF n < Capacity THEN n ELSE Capacity
    /\ n < Capacity => insertion = n /\ \A i \in 1 .. n : slots[i] = accepted[i]
    /\ n >= Capacity =>
        \A i \in 1 .. Capacity :
            slots[i] = IF i <= insertion THEN accepted[n - insertion + i]
                       ELSE accepted[n - insertion - Capacity + i]

RingInv == TypeOK /\ Ring

-----------------------------------------------------------------------------
(* Sequences and the index. *)

LEMMA AppendElements ==
    ASSUME NEW S, NEW s \in Seq(S), NEW e \in S
    PROVE  /\ Append(s, e) \in Seq(S)
           /\ Len(Append(s, e)) = Len(s) + 1
           /\ \A i \in 1 .. Len(s) : Append(s, e)[i] = s[i]
           /\ Append(s, e)[Len(s) + 1] = e
  OBVIOUS

LEMMA Elements ==
    ASSUME NEW S, NEW s \in Seq(S)
    PROVE  Len(s) \in Nat /\ \A i \in 1 .. Len(s) : s[i] \in S
  OBVIOUS

LEMMA ReplaceElements ==
    ASSUME NEW S, NEW s \in Seq(S), NEW e \in S, NEW k \in 1 .. Len(s)
    PROVE  /\ [s EXCEPT ![k] = e] \in Seq(S)
           /\ Len([s EXCEPT ![k] = e]) = Len(s)
           /\ \A i \in 1 .. Len(s) :
                [s EXCEPT ![k] = e][i] = IF i = k THEN e ELSE s[i]
  OBVIOUS

\* The place to insert at goes round.
LEMMA NextIndex ==
    ASSUME NEW a \in 0 .. Capacity - 1
    PROVE  (a + 1) % Capacity = IF a + 1 = Capacity THEN 0 ELSE a + 1
<1>1. Capacity \in Int /\ Capacity > 0 /\ a \in Int
  BY LogAssumption
<1>2. CASE a + 1 = Capacity
  BY <1>1, <1>2
<1>3. CASE a + 1 < Capacity
  BY <1>1, <1>3
<1> QED
  BY <1>1, <1>2, <1>3

-----------------------------------------------------------------------------
(* Types. *)

LEMMA MessageType ==
    ASSUME TypeOK, NEW s \in Sources, Count(s), NEW level \in Levels
    PROVE  /\ Message(s, level) \in Messages
           /\ Message(s, level).from = s
           /\ Message(s, level).number = sent[s] + 1
           /\ sent' \in [Sources -> 0 .. MaxLogged]
           /\ sent' = [sent EXCEPT ![s] = sent[s] + 1]
  BY LogAssumption DEF TypeOK, Count, Message, Messages

LEMMA PushType ==
    ASSUME TypeOK, NEW m \in Messages, Push(m)
    PROVE  /\ slots' \in Seq(Messages)
           /\ Len(slots') <= Capacity
           /\ insertion' \in 0 .. Capacity - 1
<1>1. Capacity \in Nat \ {0}
  BY LogAssumption
<1>2. insertion \in 0 .. Capacity - 1 /\ slots \in Seq(Messages)
      /\ Len(slots) <= Capacity /\ Len(slots) \in Nat
  BY Elements DEF TypeOK
<1>3. insertion' \in 0 .. Capacity - 1
  BY <1>1, <1>2, NextIndex DEF Push
<1>4. CASE Len(slots) < Capacity
  <2>1. slots' = Append(slots, m)
    BY <1>4 DEF Push
  <2> QED
    BY <1>1, <1>2, <1>3, <1>4, <2>1, AppendElements
<1>5. CASE Len(slots) = Capacity
  <2>1. slots' = [slots EXCEPT ![insertion + 1] = m]
    BY <1>1, <1>5 DEF Push
  <2>2. insertion + 1 \in 1 .. Len(slots)
    BY <1>1, <1>2, <1>5
  <2> QED
    BY <1>1, <1>2, <1>3, <2>1, <2>2, ReplaceElements
<1> QED
  BY <1>1, <1>2, <1>4, <1>5

LEMMA TakeType ==
    ASSUME TypeOK, NEW m \in Messages, Take(m)
    PROVE  /\ slots' \in Seq(Messages)
           /\ Len(slots') <= Capacity
           /\ insertion' \in 0 .. Capacity - 1
           /\ accepted' \in Seq(Messages)
<1>1. CASE m.level >= log_level
  <2>1. Push(m) /\ accepted' = Append(accepted, m)
    BY <1>1 DEF Take
  <2> QED
    BY <2>1, PushType, AppendElements DEF TypeOK
<1>2. CASE ~(m.level >= log_level)
  BY <1>2 DEF Take, TypeOK
<1> QED
  BY <1>1, <1>2

LEMMA QueueHead ==
    ASSUME TypeOK, queue # << >>
    PROVE  /\ Head(queue) \in Messages
           /\ Head(queue) = queue[1]
           /\ 1 \in 1 .. Len(queue)
           /\ Tail(queue) \in Seq(Messages)
           /\ Len(Tail(queue)) = Len(queue) - 1
           /\ \A i \in 1 .. Len(queue) - 1 : Tail(queue)[i] = queue[i + 1]
<1>1. queue \in Seq(Messages)
  BY DEF TypeOK
<1>2. Len(queue) \in Nat /\ Len(queue) # 0
  BY <1>1
<1> QED
  BY <1>1, <1>2

LEMMA TypeStep == TypeOK /\ [Next]_vars => TypeOK'
<1> SUFFICES ASSUME TypeOK, [Next]_vars
             PROVE  TypeOK'
  OBVIOUS
<1>1. CASE HandleLog
  <2>1. Take(Head(queue)) /\ Head(queue) \in Messages
        /\ queue' \in Seq(Messages) /\ UNCHANGED <<log_level, sent>>
    BY <1>1, QueueHead DEF HandleLog
  <2> QED
    BY <2>1, TakeType DEF TypeOK
<1>2. ASSUME NEW level \in Levels, NEW task \in Tasks, TaskLogs(task, level)
      PROVE  TypeOK'
  <2>1. task \in Sources /\ Count(task)
        /\ queue' = Append(queue, Message(task, level))
        /\ UNCHANGED <<log_level, slots, insertion, accepted>>
    BY <1>2 DEF TaskLogs, Sources
  <2>2. Message(task, level) \in Messages
        /\ sent' \in [Sources -> 0 .. MaxLogged]
    BY <2>1, MessageType
  <2>3. queue' \in Seq(Messages)
    BY <2>1, <2>2, AppendElements DEF TypeOK
  <2> QED
    BY <2>1, <2>2, <2>3 DEF TypeOK
<1>3. ASSUME NEW level \in Levels, AppLogs(level)
      PROVE  TypeOK'
  <2>1. App \in Sources /\ Count(App) /\ Take(Message(App, level))
        /\ UNCHANGED <<queue, log_level>>
    BY <1>3 DEF AppLogs, Sources
  <2>2. Message(App, level) \in Messages
        /\ sent' \in [Sources -> 0 .. MaxLogged]
    BY <2>1, MessageType
  <2> QED
    BY <2>1, <2>2, TakeType DEF TypeOK
<1>4. ASSUME NEW level \in Levels, SetLogLevel(level)
      PROVE  TypeOK'
  BY <1>4 DEF SetLogLevel, TypeOK
<1>5. CASE UNCHANGED vars
  BY <1>5 DEF vars, TypeOK
<1> QED
  BY <1>1, <1>2, <1>3, <1>4, <1>5 DEF Next

LEMMA TypeInit == Init => TypeOK
  BY LogAssumption DEF Init, TypeOK, InfoLevel, Messages

-----------------------------------------------------------------------------
(* The ring. *)

LEMMA RingPush ==
    ASSUME RingInv, NEW m \in Messages, Push(m),
           accepted' = Append(accepted, m)
    PROVE  Ring'
<1> DEFINE n == Len(accepted)
<1>1. /\ Capacity \in Nat \ {0}
      /\ insertion \in 0 .. Capacity - 1
      /\ slots \in Seq(Messages)
      /\ accepted \in Seq(Messages)
      /\ n \in Nat
  BY LogAssumption, Elements DEF RingInv, TypeOK
<1>2. /\ Len(accepted') = n + 1
      /\ \A i \in 1 .. n : accepted'[i] = accepted[i]
      /\ accepted'[n + 1] = m
  BY <1>1, AppendElements
<1>3. insertion' = IF insertion + 1 = Capacity THEN 0 ELSE insertion + 1
  BY <1>1, NextIndex DEF Push
<1>4. CASE n < Capacity
  <2>1. Len(slots) = n /\ insertion = n /\ slots' = Append(slots, m)
    BY <1>1, <1>4 DEF RingInv, Ring, Push
  <2>2. /\ Len(slots') = n + 1
        /\ \A i \in 1 .. n : slots'[i] = slots[i]
        /\ slots'[n + 1] = m
    BY <1>1, <2>1, AppendElements
  <2>3. \A i \in 1 .. n : slots[i] = accepted[i]
    BY <1>1, <1>4 DEF RingInv, Ring
  <2>4. \A i \in 1 .. n + 1 : slots'[i] = accepted'[i]
    BY <1>1, <1>2, <2>2, <2>3
  <2>5. CASE n + 1 < Capacity
    <3>1. insertion' = n + 1 /\ ~(n + 1 >= Capacity)
      BY <1>1, <1>3, <2>1, <2>5
    <3> QED
      BY <1>2, <2>2, <2>4, <2>5, <3>1 DEF Ring
  <2>6. CASE n + 1 = Capacity
    <3>1. insertion' = 0 /\ ~(n + 1 < Capacity)
      BY <1>1, <1>3, <2>1, <2>6
    <3>2. \A i \in 1 .. Capacity :
              ~(i <= insertion') /\ n + 1 - insertion' - Capacity + i = i
      BY <1>1, <2>6, <3>1
    <3> QED
      BY <1>2, <2>2, <2>4, <2>6, <3>1, <3>2 DEF Ring
  <2> QED
    BY <1>1, <1>4, <2>5, <2>6
<1>5. CASE n >= Capacity
  <2>1. Len(slots) = Capacity /\ slots' = [slots EXCEPT ![insertion + 1] = m]
    BY <1>1, <1>5 DEF RingInv, Ring, Push
  <2>2. insertion + 1 \in 1 .. Len(slots)
    BY <1>1, <2>1
  <2>3. /\ Len(slots') = Capacity
        /\ \A i \in 1 .. Capacity :
              slots'[i] = IF i = insertion + 1 THEN m ELSE slots[i]
    BY <1>1, <2>1, <2>2, ReplaceElements
  <2>4. \A i \in 1 .. Capacity :
            slots[i] = IF i <= insertion THEN accepted[n - insertion + i]
                       ELSE accepted[n - insertion - Capacity + i]
    BY <1>1, <1>5 DEF RingInv, Ring
  <2>5. Len(accepted') = n + 1
    BY <1>2
  <2>6. ASSUME NEW i \in 1 .. Capacity
        PROVE  slots'[i] = IF i <= insertion'
                           THEN accepted'[Len(accepted') - insertion' + i]
                           ELSE accepted'[Len(accepted') - insertion' - Capacity + i]
    <3>1. CASE i <= insertion
      <4>1. slots'[i] = accepted[n - insertion + i]
        <5>1. i # insertion + 1
          BY <1>1, <3>1
        <5> QED
          BY <2>3, <2>4, <3>1, <5>1
      <4>2. n - insertion + i \in 1 .. n
        BY <1>1, <1>5, <3>1
      <4>3. accepted'[n - insertion + i] = accepted[n - insertion + i]
        BY <1>2, <4>2
      <4>4. CASE insertion + 1 = Capacity
        <5>1. insertion' = 0 /\ ~(i <= insertion')
              /\ Len(accepted') - insertion' - Capacity + i = n - insertion + i
          BY <1>1, <1>3, <2>5, <4>4
        <5> QED
          BY <4>1, <4>3, <5>1
      <4>5. CASE insertion + 1 # Capacity
        <5>1. i <= insertion' /\ Len(accepted') - insertion' + i = n - insertion + i
          BY <1>1, <1>3, <2>5, <3>1, <4>5
        <5> QED
          BY <4>1, <4>3, <5>1
      <4> QED
        BY <4>4, <4>5
    <3>2. CASE i = insertion + 1
      <4>1. slots'[i] = accepted'[n + 1]
        BY <1>2, <2>3, <3>2
      <4>2. CASE insertion + 1 = Capacity
        <5>1. insertion' = 0 /\ ~(i <= insertion')
              /\ Len(accepted') - insertion' - Capacity + i = n + 1
          BY <1>1, <1>3, <2>5, <3>2, <4>2
        <5> QED
          BY <4>1, <5>1
      <4>3. CASE insertion + 1 # Capacity
        <5>1. i <= insertion' /\ Len(accepted') - insertion' + i = n + 1
          BY <1>1, <1>3, <2>5, <3>2, <4>3
        <5> QED
          BY <4>1, <5>1
      <4> QED
        BY <4>2, <4>3
    <3>3. CASE i > insertion + 1
      <4>1. slots'[i] = accepted[n - insertion - Capacity + i]
        <5>1. i # insertion + 1 /\ ~(i <= insertion)
          BY <1>1, <3>3
        <5> QED
          BY <2>3, <2>4, <5>1
      <4>2. n - insertion - Capacity + i \in 1 .. n
        BY <1>1, <1>5, <3>3
      <4>3. accepted'[n - insertion - Capacity + i]
                = accepted[n - insertion - Capacity + i]
        BY <1>2, <4>2
      <4>4. /\ insertion' = insertion + 1
            /\ ~(i <= insertion')
            /\ Len(accepted') - insertion' - Capacity + i = n - insertion - Capacity + i
        BY <1>1, <1>3, <2>5, <3>3
      <4> QED
        BY <4>1, <4>3, <4>4
    <3>4. i <= insertion \/ i = insertion + 1 \/ i > insertion + 1
      BY <1>1
    <3> QED
      BY <3>1, <3>2, <3>3, <3>4
  <2>7. ~(n + 1 < Capacity)
    BY <1>1, <1>5
  <2>8. ~(Len(accepted') < Capacity) /\ Len(slots') = Capacity
    BY <1>2, <2>3, <2>7
  <2> QED
    BY <2>6, <2>8 DEF Ring
<1> QED
  BY <1>1, <1>4, <1>5

LEMMA RingTake ==
    ASSUME RingInv, NEW m \in Messages, Take(m)
    PROVE  Ring'
<1>1. CASE m.level >= log_level
  BY <1>1, RingPush DEF Take
<1>2. CASE ~(m.level >= log_level)
  BY <1>2 DEF Take, RingInv, Ring
<1> QED
  BY <1>1, <1>2

\* What the vector and the history hold changes only where a message is taken.
LEMMA RingStep == RingInv /\ [Next]_vars => RingInv'
<1> SUFFICES ASSUME RingInv, [Next]_vars
             PROVE  Ring'
  BY TypeStep DEF RingInv
<1>1. CASE HandleLog
  <2>1. Take(Head(queue)) /\ Head(queue) \in Messages
    BY <1>1, QueueHead DEF HandleLog, RingInv
  <2> QED
    BY <2>1, RingTake
<1>2. ASSUME NEW level \in Levels, AppLogs(level)
      PROVE  Ring'
  <2>1. App \in Sources /\ Count(App) /\ Take(Message(App, level))
    BY <1>2 DEF AppLogs, Sources
  <2>2. Message(App, level) \in Messages
    BY <2>1, MessageType DEF RingInv
  <2> QED
    BY <2>1, <2>2, RingTake
<1>3. CASE UNCHANGED <<slots, insertion, accepted>>
  BY <1>3 DEF RingInv, Ring
<1> QED
  BY <1>1, <1>2, <1>3 DEF Next, TaskLogs, SetLogLevel, vars

LEMMA RingHolds == Spec => []RingInv
<1>1. Init => Ring
  BY LogAssumption DEF Init, Ring
<1> QED
  BY <1>1, TypeInit, RingStep, PTL DEF Spec, RingInv

\* asc_iter undoes the wrapping.
LEMMA IterIsNewest == RingInv => NewestKept
<1> SUFFICES ASSUME RingInv PROVE NewestKept
  OBVIOUS
<1> DEFINE n == Len(accepted)
           older == Len(slots) - insertion
<1>1. /\ Capacity \in Nat \ {0}
      /\ insertion \in 0 .. Capacity - 1
      /\ n \in Nat
      /\ Len(slots) = IF n < Capacity THEN n ELSE Capacity
  BY LogAssumption, Elements DEF RingInv, TypeOK, Ring
<1>2. ASSUME NEW i \in 1 .. Len(slots)
      PROVE  Iter[i] = accepted[n - Len(slots) + i]
  <2>1. Iter[i] = IF i <= older THEN slots[insertion + i] ELSE slots[i - older]
    BY DEF Iter
  <2>2. CASE n < Capacity
    <3>1. Len(slots) = n /\ insertion = n /\ \A k \in 1 .. n : slots[k] = accepted[k]
      BY <1>1, <2>2 DEF RingInv, Ring
    <3>2. ~(i <= older) /\ i - older = i /\ n - Len(slots) + i = i /\ i \in 1 .. n
      BY <1>1, <3>1
    <3> QED
      BY <2>1, <3>1, <3>2
  <2>3. CASE n >= Capacity
    <3>1. Len(slots) = Capacity /\ i \in 1 .. Capacity
      BY <1>1, <2>3
    <3>2. \A k \in 1 .. Capacity :
              slots[k] = IF k <= insertion THEN accepted[n - insertion + k]
                         ELSE accepted[n - insertion - Capacity + k]
      BY <2>3 DEF RingInv, Ring
    <3>3. CASE i <= older
      <4>1. insertion + i \in 1 .. Capacity /\ ~(insertion + i <= insertion)
        BY <1>1, <3>1, <3>3
      <4>2. n - insertion - Capacity + (insertion + i) = n - Len(slots) + i
        <5>1. n \in Int /\ insertion \in Int /\ Capacity \in Int /\ i \in Int
          BY <1>1
        <5>2. n - insertion - Capacity + (insertion + i) = n - Capacity + i
          BY <5>1
        <5> QED
          BY <3>1, <5>2
      <4> QED
        BY <2>1, <3>2, <3>3, <4>1, <4>2
    <3>4. CASE ~(i <= older)
      <4>1. /\ i - older \in 1 .. Capacity
            /\ i - older <= insertion
            /\ n - insertion + (i - older) = n - Len(slots) + i
        BY <1>1, <3>1, <3>4
      <4> QED
        BY <2>1, <3>2, <3>4, <4>1
    <3> QED
      BY <3>3, <3>4
  <2>4. n < Capacity \/ n >= Capacity
    BY <1>1
  <2> QED
    BY <2>2, <2>3, <2>4
<1> QED
  BY <1>1, <1>2 DEF NewestKept

\* The messages of the log are well typed, and the index of the circular queue
\* never leaves it (logger.rs, TxLogger, the circular queue).
THEOREM LogTypeCorrect == Spec => []TypeOK
<1> QED
  BY RingHolds, PTL DEF RingInv

\* What can be read from StandardLogger, or from a Chat, are the newest entries
\* in the order in which they were taken, for every capacity.
THEOREM NewestAlwaysKept == Spec => []NewestKept
<1> QED
  BY RingHolds, IterIsNewest, PTL

-----------------------------------------------------------------------------
(* Log implements History. *)

\* What the reader sees, as a part of what was taken.
IterShape ==
    /\ Iter \in Seq(Messages)
    /\ Len(Iter) = IF Len(accepted) < Capacity THEN Len(accepted) ELSE Capacity
    /\ \A i \in 1 .. Len(Iter) :
            Iter[i] = accepted[Len(accepted) - Len(Iter) + i]

LEMMA IterHasShape == RingInv => IterShape
<1> SUFFICES ASSUME RingInv PROVE IterShape
  OBVIOUS
<1>1. /\ Len(slots) = IF Len(accepted) < Capacity THEN Len(accepted) ELSE Capacity
      /\ \A i \in 1 .. Len(slots) :
            Iter[i] = accepted[Len(accepted) - Len(slots) + i]
  BY IterIsNewest DEF NewestKept
<1>2. /\ accepted \in Seq(Messages)
      /\ Len(accepted) \in Nat
      /\ \A i \in 1 .. Len(accepted) : accepted[i] \in Messages
      /\ Capacity \in Nat
  BY LogAssumption, Elements DEF RingInv, TypeOK
<1>3. Len(slots) \in Nat /\ Len(slots) <= Len(accepted)
  BY <1>1, <1>2
<1>4. \A i \in 1 .. Len(slots) : Iter[i] \in Messages
  <2>1. \A i \in 1 .. Len(slots) :
            Len(accepted) - Len(slots) + i \in 1 .. Len(accepted)
    BY <1>2, <1>3
  <2> QED
    BY <1>1, <1>2, <2>1
<1>5. Iter = [i \in 1 .. Len(slots) |-> Iter[i]]
  BY DEF Iter
<1>6. Iter \in Seq(Messages) /\ Len(Iter) = Len(slots)
  <2>1. [i \in 1 .. Len(slots) |-> Iter[i]] \in [1 .. Len(slots) -> Messages]
    BY <1>4
  <2>2. Iter \in [1 .. Len(slots) -> Messages]
    BY <1>5, <2>1
  <2> QED
    BY <1>3, <2>2
<1> QED
  BY <1>1, <1>6 DEF IterShape

LEMMA NewestElements ==
    ASSUME NEW s \in Seq(Messages)
    PROVE  /\ history!Newest(s) \in Seq(Messages)
           /\ Len(history!Newest(s)) =
                IF Len(s) < Capacity THEN Len(s) ELSE Capacity
           /\ \A i \in 1 .. Len(history!Newest(s)) :
                history!Newest(s)[i] = s[Len(s) - Len(history!Newest(s)) + i]
<1>1. Capacity \in Nat \ {0} /\ Len(s) \in Nat
  BY LogAssumption, Elements
<1>2. CASE Len(s) <= Capacity
  BY <1>1, <1>2 DEF history!Newest
<1>3. CASE ~(Len(s) <= Capacity)
  <2>1. history!Newest(s) = SubSeq(s, Len(s) - Capacity + 1, Len(s))
    BY <1>3 DEF history!Newest
  <2>2. Len(s) - Capacity + 1 \in 1 .. Len(s) + 1
    BY <1>1, <1>3
  <2> QED
    BY <1>1, <1>3, <2>1, <2>2
<1> QED
  BY <1>2, <1>3

LEMMA SameElements ==
    ASSUME NEW s \in Seq(Messages), NEW t \in Seq(Messages),
           Len(s) = Len(t), \A i \in 1 .. Len(s) : s[i] = t[i]
    PROVE  s = t
  OBVIOUS

\* Taking a message adds it to what the reader sees.
LEMMA TakeAdds ==
    ASSUME RingInv, RingInv', NEW m \in Messages, Take(m)
    PROVE  history!Next \/ UNCHANGED Iter
<1>1. CASE m.level >= log_level
  <2> DEFINE n == Len(accepted)
             added == Append(Iter, m)
             k == Len(Iter)
  <2>1. accepted' = Append(accepted, m)
    BY <1>1 DEF Take
  <2>2. /\ Iter \in Seq(Messages)
        /\ k = IF n < Capacity THEN n ELSE Capacity
        /\ \A i \in 1 .. k : Iter[i] = accepted[n - k + i]
    BY IterHasShape DEF IterShape
  <2>3. IterShape'
    BY IterHasShape, PTL
  <2>4. /\ accepted \in Seq(Messages)
        /\ n \in Nat
        /\ Capacity \in Nat \ {0}
    BY LogAssumption, Elements DEF RingInv, TypeOK
  <2>5. /\ Len(accepted') = n + 1
        /\ \A i \in 1 .. n : accepted'[i] = accepted[i]
        /\ accepted'[n + 1] = m
    BY <2>1, <2>4, AppendElements
  <2>6. /\ added \in Seq(Messages)
        /\ Len(added) = k + 1
        /\ \A i \in 1 .. k : added[i] = Iter[i]
        /\ added[k + 1] = m
    BY <2>2, AppendElements
  <2>7. k \in Nat /\ k <= n
    BY <2>2, <2>4
  <2> DEFINE kept == history!Newest(added)
             l == Len(kept)
  <2>8. /\ kept \in Seq(Messages)
        /\ l = IF Len(added) < Capacity THEN Len(added) ELSE Capacity
        /\ \A i \in 1 .. l : kept[i] = added[Len(added) - l + i]
    BY <2>6, NewestElements
  <2>9. Len(Iter') = l
    BY <2>2, <2>3, <2>4, <2>5, <2>6, <2>8 DEF IterShape
  <2>10. ASSUME NEW i \in 1 .. l
         PROVE  kept[i] = Iter'[i]
    <3>1. l \in Nat /\ l <= k + 1
      BY <2>2, <2>4, <2>6, <2>7, <2>8
    <3>2. Iter'[i] = accepted'[Len(accepted') - l + i]
      BY <2>3, <2>9 DEF IterShape
    <3>3. kept[i] = added[Len(added) - l + i]
      BY <2>8
    <3>4. CASE i = l
      <4>1. Len(added) - l + i = k + 1
        BY <2>6, <2>7, <3>1, <3>4
      <4>2. Len(accepted') - l + i = n + 1
        BY <2>4, <2>5, <3>1, <3>4
      <4> QED
        BY <2>5, <2>6, <3>2, <3>3, <4>1, <4>2
    <3>5. CASE i < l
      <4> DEFINE j == Len(added) - l + i
      <4>1. j \in 1 .. k
        BY <2>6, <2>7, <3>1, <3>5
      <4>2. kept[i] = accepted[n - k + j]
        BY <2>2, <2>6, <3>3, <4>1
      <4>3. n - k + j \in 1 .. n /\ Len(accepted') - l + i = n - k + j
        BY <2>4, <2>5, <2>6, <2>7, <3>1, <4>1
      <4>4. Iter'[i] = accepted[n - k + j]
        BY <2>5, <3>2, <4>3
      <4> QED
        BY <4>2, <4>4
    <3>6. i = l \/ i < l
      BY <3>1
    <3> QED
      BY <3>4, <3>5, <3>6
  <2>11. Iter' = kept
    BY <2>3, <2>8, <2>9, <2>10, SameElements DEF IterShape
  <2> QED
    BY <2>11 DEF history!Next, history!Add
<1>2. CASE ~(m.level >= log_level)
  <2>1. UNCHANGED <<slots, insertion>>
    BY <1>2 DEF Take
  <2> QED
    BY <2>1 DEF Iter
<1> QED
  BY <1>1, <1>2

LEMMA HistoryStep == RingInv /\ RingInv' /\ [Next]_vars => [history!Next]_Iter
<1> SUFFICES ASSUME RingInv, RingInv', [Next]_vars
             PROVE  history!Next \/ UNCHANGED Iter
  OBVIOUS
<1>1. CASE HandleLog
  <2>1. Take(Head(queue)) /\ Head(queue) \in Messages
    BY <1>1, QueueHead DEF HandleLog, RingInv
  <2> QED
    BY <2>1, TakeAdds
<1>2. ASSUME NEW level \in Levels, AppLogs(level)
      PROVE  history!Next \/ UNCHANGED Iter
  <2>1. App \in Sources /\ Count(App) /\ Take(Message(App, level))
    BY <1>2 DEF AppLogs, Sources
  <2>2. Message(App, level) \in Messages
    BY <2>1, MessageType DEF RingInv
  <2> QED
    BY <2>1, <2>2, TakeAdds
<1>3. CASE UNCHANGED <<slots, insertion>>
  BY <1>3 DEF Iter
<1> QED
  BY <1>1, <1>2, <1>3 DEF Next, TaskLogs, SetLogLevel, vars

\* Every behaviour of the loggers is one of the abstract History, whatever the
\* capacity: a log or a chat history never shows anything but its newest entries.
THEOREM ImplementsHistory == Spec => HistorySpec
<1>1. Init => history!Init
  BY DEF Init, history!Init, Iter
<1>2. RingInv /\ RingInv' /\ [Next]_vars => [history!Next]_Iter
  BY HistoryStep
<1> QED
  BY <1>1, <1>2, RingHolds, PTL DEF Spec, HistorySpec, history!Spec

-----------------------------------------------------------------------------
(* Order. *)

\* The messages of one source are numbered upwards in a sequence.
Upwards(s) ==
    \A i, j \in 1 .. Len(s) :
        i < j /\ s[i].from = s[j].from => s[i].number < s[j].number

\* No number in a sequence was not yet given out.
Given(s) == \A i \in 1 .. Len(s) : s[i].number <= sent[s[i].from]

\* Of one source, what the logger took comes before what is still waiting; the
\* application's own messages never wait.
Ordered ==
    /\ Upwards(accepted)
    /\ Upwards(queue)
    /\ Given(accepted)
    /\ Given(queue)
    /\ \A i \in 1 .. Len(queue) : queue[i].from \in Tasks
    /\ \A i \in 1 .. Len(accepted), j \in 1 .. Len(queue) :
        accepted[i].from = queue[j].from => accepted[i].number < queue[j].number

OrderInv == TypeOK /\ Ordered

LEMMA UpwardsAppend ==
    ASSUME NEW s \in Seq(Messages), NEW m \in Messages, Upwards(s),
           \A i \in 1 .. Len(s) : s[i].from = m.from => s[i].number < m.number
    PROVE  Upwards(Append(s, m))
<1> DEFINE t == Append(s, m)
<1>1. /\ Len(s) \in Nat
      /\ Len(t) = Len(s) + 1
      /\ \A i \in 1 .. Len(s) : t[i] = s[i]
      /\ t[Len(s) + 1] = m
  BY AppendElements, Elements
<1>2. SUFFICES ASSUME NEW i \in 1 .. Len(t), NEW j \in 1 .. Len(t),
                      i < j, t[i].from = t[j].from
               PROVE  t[i].number < t[j].number
  BY DEF Upwards
<1>3. i \in 1 .. Len(s) /\ (j \in 1 .. Len(s) \/ j = Len(s) + 1)
  BY <1>1, <1>2
<1>4. CASE j \in 1 .. Len(s)
  BY <1>1, <1>2, <1>3, <1>4 DEF Upwards
<1>5. CASE j = Len(s) + 1
  BY <1>1, <1>2, <1>3, <1>5
<1> QED
  BY <1>3, <1>4, <1>5

LEMMA OrderInit == Init => Ordered
  BY DEF Init, Ordered, Upwards, Given

\* A message that is the next of its source, or the first that waits, may be
\* taken.
LEMMA AcceptedOrder ==
    ASSUME OrderInv, NEW m \in Messages, Take(m),
           \A i \in 1 .. Len(accepted) :
                accepted[i].from = m.from => accepted[i].number < m.number
    PROVE  /\ Upwards(accepted')
           /\ \A i \in 1 .. Len(accepted') :
                \/ accepted'[i] = m
                \/ i \in 1 .. Len(accepted) /\ accepted'[i] = accepted[i]
<1>1. accepted \in Seq(Messages) /\ Len(accepted) \in Nat /\ Upwards(accepted)
  BY Elements DEF OrderInv, TypeOK, Ordered
<1>2. CASE m.level >= log_level
  <2>1. accepted' = Append(accepted, m)
    BY <1>2 DEF Take
  <2>2. /\ Len(accepted') = Len(accepted) + 1
        /\ \A i \in 1 .. Len(accepted) : accepted'[i] = accepted[i]
        /\ accepted'[Len(accepted) + 1] = m
    BY <1>1, <2>1, AppendElements
  <2>3. Upwards(accepted')
    BY <1>1, <2>1, UpwardsAppend
  <2>4. ASSUME NEW i \in 1 .. Len(accepted')
        PROVE  i \in 1 .. Len(accepted) \/ i = Len(accepted) + 1
    BY <1>1, <2>2, <2>4
  <2> QED
    BY <2>2, <2>3, <2>4
<1>3. CASE ~(m.level >= log_level)
  BY <1>1, <1>3 DEF Take
<1> QED
  BY <1>2, <1>3

\* The head of the queue goes to the logger, or is dropped.
LEMMA HandleOrder == OrderInv /\ HandleLog => Ordered'
<1> SUFFICES ASSUME OrderInv, HandleLog PROVE Ordered'
  OBVIOUS
<1> DEFINE m == Head(queue)
<1>1. /\ m \in Messages
      /\ m = queue[1]
      /\ 1 \in 1 .. Len(queue)
      /\ Len(queue) \in Nat
      /\ Take(m)
      /\ UNCHANGED sent
      /\ Len(queue') = Len(queue) - 1
      /\ \A i \in 1 .. Len(queue) - 1 : queue'[i] = queue[i + 1]
  BY QueueHead, Elements DEF HandleLog, OrderInv, TypeOK
<1>2. /\ Upwards(accepted')
      /\ \A i \in 1 .. Len(accepted') :
            \/ accepted'[i] = m
            \/ i \in 1 .. Len(accepted) /\ accepted'[i] = accepted[i]
  <2>1. \A i \in 1 .. Len(accepted) :
            accepted[i].from = m.from => accepted[i].number < m.number
    BY <1>1 DEF OrderInv, Ordered
  <2> QED
    BY <1>1, <2>1, AcceptedOrder
<1>3. \A i \in 1 .. Len(queue') :
            i + 1 \in 1 .. Len(queue) /\ 1 < i + 1 /\ queue'[i] = queue[i + 1]
  BY <1>1
<1>4. Upwards(queue')
  <2>1. SUFFICES ASSUME NEW i \in 1 .. Len(queue'), NEW j \in 1 .. Len(queue'),
                        i < j, queue'[i].from = queue'[j].from
                 PROVE  queue'[i].number < queue'[j].number
    BY DEF Upwards
  <2>2. i + 1 < j + 1
    BY <2>1
  <2> QED
    BY <1>3, <2>1, <2>2 DEF OrderInv, Ordered, Upwards
<1>5. Given(accepted)'
  BY <1>1, <1>2 DEF OrderInv, Ordered, Given
<1>6. Given(queue)'
  BY <1>1, <1>3 DEF OrderInv, Ordered, Given
<1>7. \A i \in 1 .. Len(queue') : queue'[i].from \in Tasks
  BY <1>3 DEF OrderInv, Ordered
<1>8. ASSUME NEW i \in 1 .. Len(accepted'), NEW j \in 1 .. Len(queue'),
             accepted'[i].from = queue'[j].from
      PROVE  accepted'[i].number < queue'[j].number
  <2>1. CASE accepted'[i] = m
    BY <1>1, <1>3, <1>8, <2>1 DEF OrderInv, Ordered, Upwards
  <2>2. CASE i \in 1 .. Len(accepted) /\ accepted'[i] = accepted[i]
    BY <1>3, <1>8, <2>2 DEF OrderInv, Ordered
  <2> QED
    BY <1>2, <2>1, <2>2
<1> QED
  BY <1>2, <1>4, <1>5, <1>6, <1>7, <1>8 DEF Ordered, Upwards, Given

\* A new message has a number above all of its source.
LEMMA NewNumber ==
    ASSUME OrderInv, NEW s \in Sources, Count(s), NEW level \in Levels,
           NEW q \in Seq(Messages), Given(q)
    PROVE  /\ \A i \in 1 .. Len(q) :
                /\ q[i].from = s => q[i].number < sent[s] + 1
                /\ q[i].number <= sent'[q[i].from]
<1>1. /\ sent \in [Sources -> 0 .. MaxLogged]
      /\ sent' = [sent EXCEPT ![s] = sent[s] + 1]
      /\ sent[s] \in Nat
      /\ \A r \in Sources : sent[r] \in Nat
  BY LogAssumption DEF OrderInv, TypeOK, Count
<1> SUFFICES ASSUME NEW i \in 1 .. Len(q)
             PROVE  /\ q[i].from = s => q[i].number < sent[s] + 1
                    /\ q[i].number <= sent'[q[i].from]
  OBVIOUS
<1>2. q[i].from \in Sources /\ q[i].number \in Nat
  <2>1. q[i] \in Messages
    BY Elements
  <2> QED
    BY <2>1, LogAssumption DEF Messages
<1>3. q[i].number <= sent[q[i].from]
  BY DEF Given
<1>4. sent'[q[i].from] = IF q[i].from = s THEN sent[s] + 1 ELSE sent[q[i].from]
  BY <1>1, <1>2
<1> QED
  BY <1>1, <1>2, <1>3, <1>4

LEMMA TaskOrder ==
    ASSUME OrderInv, NEW task \in Tasks, NEW level \in Levels,
           TaskLogs(task, level)
    PROVE  Ordered'
<1> DEFINE m == Message(task, level)
<1>1. /\ Count(task)
      /\ task \in Sources
      /\ queue' = Append(queue, m)
      /\ UNCHANGED accepted
      /\ accepted \in Seq(Messages)
      /\ queue \in Seq(Messages)
  BY DEF TaskLogs, Sources, OrderInv, TypeOK
<1>2. /\ m \in Messages
      /\ m.from = task
      /\ m.number = sent[task] + 1
      /\ sent'[task] = sent[task] + 1
      /\ sent[task] \in Nat
  BY <1>1, MessageType, LogAssumption DEF OrderInv, TypeOK
<1>3. /\ \A i \in 1 .. Len(accepted) :
            /\ accepted[i].from = task => accepted[i].number < m.number
            /\ accepted[i].number <= sent'[accepted[i].from]
      /\ \A i \in 1 .. Len(queue) :
            /\ queue[i].from = task => queue[i].number < m.number
            /\ queue[i].number <= sent'[queue[i].from]
  BY <1>1, <1>2, NewNumber DEF OrderInv, Ordered
<1>4. /\ Len(queue) \in Nat
      /\ Len(queue') = Len(queue) + 1
      /\ \A i \in 1 .. Len(queue) : queue'[i] = queue[i]
      /\ queue'[Len(queue) + 1] = m
  BY <1>1, <1>2, AppendElements, Elements
<1>5. \A i \in 1 .. Len(queue') :
            \/ i \in 1 .. Len(queue) /\ queue'[i] = queue[i]
            \/ queue'[i] = m
  <2>1. \A i \in 1 .. Len(queue') :
            i \in 1 .. Len(queue) \/ i = Len(queue) + 1
    BY <1>4
  <2> QED
    BY <1>4, <2>1
<1>6. Upwards(queue')
  BY <1>1, <1>2, <1>3, UpwardsAppend DEF OrderInv, Ordered
<1>7. Given(accepted)' /\ Upwards(accepted')
  BY <1>1, <1>3 DEF OrderInv, Ordered, Given
<1>8. m.number <= sent'[m.from]
  BY <1>2
<1>9. Given(queue)'
  BY <1>3, <1>5, <1>8 DEF Given
<1>10. \A i \in 1 .. Len(queue') : queue'[i].from \in Tasks
  BY <1>2, <1>5 DEF OrderInv, Ordered
<1>11. \A i \in 1 .. Len(accepted'), j \in 1 .. Len(queue') :
            accepted'[i].from = queue'[j].from
                => accepted'[i].number < queue'[j].number
  BY <1>1, <1>2, <1>3, <1>5 DEF OrderInv, Ordered
<1> QED
  BY <1>6, <1>7, <1>9, <1>10, <1>11 DEF Ordered, Upwards, Given

LEMMA AppOrder ==
    ASSUME OrderInv, NEW level \in Levels, AppLogs(level)
    PROVE  Ordered'
<1> DEFINE m == Message(App, level)
<1>1. /\ Count(App)
      /\ App \in Sources
      /\ Take(m)
      /\ UNCHANGED queue
      /\ accepted \in Seq(Messages)
      /\ queue \in Seq(Messages)
  BY DEF AppLogs, Sources, OrderInv, TypeOK
<1>2. /\ m \in Messages
      /\ m.from = App
      /\ m.number = sent[App] + 1
      /\ sent'[App] = sent[App] + 1
      /\ sent[App] \in Nat
  BY <1>1, MessageType, LogAssumption DEF OrderInv, TypeOK
<1>3. /\ \A i \in 1 .. Len(accepted) :
            /\ accepted[i].from = App => accepted[i].number < m.number
            /\ accepted[i].number <= sent'[accepted[i].from]
      /\ \A i \in 1 .. Len(queue) : queue[i].number <= sent'[queue[i].from]
  BY <1>1, <1>2, NewNumber DEF OrderInv, Ordered
<1>4. /\ Upwards(accepted')
      /\ \A i \in 1 .. Len(accepted') :
            \/ accepted'[i] = m
            \/ i \in 1 .. Len(accepted) /\ accepted'[i] = accepted[i]
  BY <1>1, <1>2, <1>3, AcceptedOrder
<1>5. m.number <= sent'[m.from]
  BY <1>2
<1>6. Given(accepted)' /\ Given(queue)'
  BY <1>1, <1>3, <1>4, <1>5 DEF Given
<1>7. \A i \in 1 .. Len(queue) : queue[i].from \in Tasks /\ m.from # queue[i].from
  BY <1>2, LogAssumption DEF OrderInv, Ordered
<1>8. \A i \in 1 .. Len(accepted'), j \in 1 .. Len(queue') :
            accepted'[i].from = queue'[j].from
                => accepted'[i].number < queue'[j].number
  BY <1>1, <1>4, <1>7 DEF OrderInv, Ordered
<1> QED
  BY <1>1, <1>4, <1>6, <1>7, <1>8 DEF OrderInv, Ordered, Upwards, Given

LEMMA OrderStep == OrderInv /\ [Next]_vars => OrderInv'
<1> SUFFICES ASSUME OrderInv, [Next]_vars
             PROVE  Ordered'
  BY TypeStep DEF OrderInv
<1>1. CASE HandleLog
  BY <1>1, HandleOrder
<1>2. ASSUME NEW task \in Tasks, NEW level \in Levels, TaskLogs(task, level)
      PROVE  Ordered'
  BY <1>2, TaskOrder
<1>3. ASSUME NEW level \in Levels, AppLogs(level)
      PROVE  Ordered'
  BY <1>3, AppOrder
<1>4. CASE UNCHANGED <<queue, accepted, sent>>
  BY <1>4 DEF OrderInv, Ordered, Upwards, Given
<1> QED
  BY <1>1, <1>2, <1>3, <1>4 DEF Next, SetLogLevel, vars

LEMMA OrderHolds == Spec => []OrderInv
<1> QED
  BY OrderInit, TypeInit, OrderStep, PTL DEF Spec, OrderInv

\* The messages of a source are read in the order in which it logged them, for
\* any number of tasks, whatever the levels let through and the ring drops.
THEOREM SourceOrderKept == Spec => []SourceOrder
<1>1. RingInv /\ OrderInv => SourceOrder
  <2> SUFFICES ASSUME RingInv, OrderInv,
                      NEW i \in 1 .. Len(slots), NEW j \in 1 .. Len(slots),
                      i < j, Iter[i].from = Iter[j].from
               PROVE  Iter[i].number < Iter[j].number
    BY DEF SourceOrder
  <2> DEFINE d == Len(accepted) - Len(slots)
  <2>1. /\ Iter[i] = accepted[d + i]
        /\ Iter[j] = accepted[d + j]
    BY IterIsNewest DEF NewestKept
  <2>2. /\ Len(accepted) \in Nat
        /\ Capacity \in Nat
        /\ Len(slots) = IF Len(accepted) < Capacity THEN Len(accepted)
                        ELSE Capacity
    BY LogAssumption, Elements DEF RingInv, TypeOK, Ring
  <2>3. d + i \in 1 .. Len(accepted) /\ d + j \in 1 .. Len(accepted)
        /\ d + i < d + j
    <3>1. Len(slots) \in Nat /\ Len(slots) <= Len(accepted)
      BY <2>2
    <3>2. d \in Nat /\ d + Len(slots) = Len(accepted)
      BY <2>2, <3>1
    <3> HIDE DEF d
    <3> QED
      BY <2>2, <3>1, <3>2
  <2> QED
    BY <2>1, <2>3 DEF OrderInv, Ordered, Upwards
<1> QED
  BY <1>1, RingHolds, OrderHolds, PTL
=============================================================================
