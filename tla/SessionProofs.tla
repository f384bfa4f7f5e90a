---------------------------- MODULE SessionProofs ----------------------------
(***************************************************************************)
(* Proofs that Link implements Session, and that every frame finds a       *)
(* reader that expects it.  They are about the frames on their way, where  *)
(* LinkProofs is about how far the two ends can be apart.                  *)
(***************************************************************************)
EXTENDS LinkProofs

-----------------------------------------------------------------------------
(* Chat messages in a sequence of frames or commands. *)

Carries(s, n) == \E i \in 1 .. Len(s) : s[i].kind = "chat" /\ s[i].number = n

Increasing(s) ==
    \A i, j \in 1 .. Len(s) :
        i < j /\ s[i].kind = "chat" /\ s[j].kind = "chat"
            => s[i].number < s[j].number

LEMMA NothingCarried ==
    Increasing(<< >>) /\ \A n \in Nat : ~Carries(<< >>, n)
  BY DEF Increasing, Carries

LEMMA AppendCarries ==
    ASSUME NEW S, NEW s \in Seq(S), NEW x \in S
    PROVE  \A n \in Nat : Carries(Append(s, x), n)
                            <=> Carries(s, n) \/ (x.kind = "chat" /\ x.number = n)
<1> DEFINE k == Len(s)
           t == Append(s, x)
<1>1. /\ k \in Nat /\ Len(t) = k + 1
      /\ \A i \in 1 .. k : t[i] = s[i]
      /\ t[k + 1] = x
  BY AppendType
<1> HIDE DEF k, t
<1>2. /\ \A i \in 1 .. k : i \in 1 .. k + 1
      /\ \A i \in 1 .. k + 1 : i \in 1 .. k \/ i = k + 1
      /\ k + 1 \in 1 .. k + 1
  BY <1>1
<1>3. ASSUME NEW n \in Nat
      PROVE  Carries(t, n) <=> \/ \E i \in 1 .. k : s[i].kind = "chat" /\ s[i].number = n
                               \/ x.kind = "chat" /\ x.number = n
  <2>1. Carries(t, n) <=> \E i \in 1 .. k + 1 : t[i].kind = "chat" /\ t[i].number = n
    BY <1>1 DEF Carries
  <2> QED
    BY <1>1, <1>2, <2>1
<1> QED
  BY <1>3 DEF Carries, k, t

LEMMA AppendIncreasing ==
    ASSUME NEW S, NEW s \in Seq(S), NEW x \in S, Increasing(s),
           x.kind = "chat" =>
               \A i \in 1 .. Len(s) : s[i].kind = "chat" => s[i].number < x.number
    PROVE  Increasing(Append(s, x))
<1> DEFINE k == Len(s)
           t == Append(s, x)
<1>1. /\ k \in Nat /\ Len(t) = k + 1
      /\ \A i \in 1 .. k : t[i] = s[i]
      /\ t[k + 1] = x
  BY AppendType
<1>2. /\ \A i, j \in 1 .. k : i < j /\ s[i].kind = "chat" /\ s[j].kind = "chat"
                                => s[i].number < s[j].number
      /\ \A i \in 1 .. k : x.kind = "chat" /\ s[i].kind = "chat"
                                => s[i].number < x.number
  BY DEF Increasing
<1> HIDE DEF k, t
<1>3. ASSUME NEW i \in 1 .. k + 1, NEW j \in 1 .. k + 1, i < j,
             t[i].kind = "chat", t[j].kind = "chat"
      PROVE  t[i].number < t[j].number
  <2>1. i \in 1 .. k
    BY <1>1, <1>3
  <2>2. CASE j \in 1 .. k
    BY <1>1, <1>2, <1>3, <2>1, <2>2
  <2>3. CASE j = k + 1
    BY <1>1, <1>2, <1>3, <2>1, <2>3
  <2> QED
    BY <1>1, <2>2, <2>3
<1>4. Increasing(t)
  BY <1>1, <1>3 DEF Increasing
<1> QED
  BY <1>4 DEF t

\* Behind the head of an increasing sequence come the larger numbers.
LEMMA TailCarries ==
    ASSUME NEW S, NEW s \in Seq(S), s # << >>, Increasing(s)
    PROVE  /\ Increasing(Tail(s))
           /\ \A n \in Nat : Carries(s, n)
                <=> \/ Carries(Tail(s), n)
                    \/ Head(s).kind = "chat" /\ Head(s).number = n
           /\ Head(s).kind = "chat" =>
                \A n \in Nat : Carries(Tail(s), n) => Head(s).number < n
<1> DEFINE k == Len(s)
           t == Tail(s)
           h == Head(s)
<1>1. /\ k \in Nat \ {0} /\ Len(t) = k - 1 /\ h = s[1]
      /\ \A i \in 1 .. k - 1 : t[i] = s[i + 1]
  BY TailType
<1>2. \A i, j \in 1 .. k : i < j /\ s[i].kind = "chat" /\ s[j].kind = "chat"
                            => s[i].number < s[j].number
  BY DEF Increasing
<1>3. /\ \A n : Carries(s, n) <=> \E i \in 1 .. k : s[i].kind = "chat" /\ s[i].number = n
      /\ \A n : Carries(t, n) <=> \E i \in 1 .. k - 1 : t[i].kind = "chat" /\ t[i].number = n
  BY <1>1 DEF Carries
<1> HIDE DEF k, t, h
<1>4. /\ 1 \in 1 .. k
      /\ \A i \in 1 .. k - 1 : i + 1 \in 1 .. k /\ 1 < i + 1
      /\ \A i \in 1 .. k : i = 1 \/ (i - 1 \in 1 .. k - 1 /\ (i - 1) + 1 = i)
  BY <1>1
<1>5. Increasing(t)
  <2>1. \A i, j \in 1 .. k - 1 : i < j => i + 1 < j + 1
    BY <1>1
  <2>2. ASSUME NEW i \in 1 .. k - 1, NEW j \in 1 .. k - 1, i < j,
               t[i].kind = "chat", t[j].kind = "chat"
        PROVE  t[i].number < t[j].number
    <3>1. /\ i + 1 \in 1 .. k /\ j + 1 \in 1 .. k /\ i + 1 < j + 1
          /\ t[i] = s[i + 1] /\ t[j] = s[j + 1]
      BY <1>1, <1>4, <2>1, <2>2
    <3> QED
      BY <1>2, <2>2, <3>1
  <2> QED
    BY <1>1, <2>2 DEF Increasing
<1>6. ASSUME NEW n \in Nat
      PROVE  Carries(s, n) <=> Carries(t, n) \/ (h.kind = "chat" /\ h.number = n)
  <2>1. ASSUME Carries(s, n) PROVE  Carries(t, n) \/ (h.kind = "chat" /\ h.number = n)
    <3>1. PICK i \in 1 .. k : s[i].kind = "chat" /\ s[i].number = n
      BY <1>3, <2>1
    <3>2. CASE i = 1
      BY <1>1, <3>1, <3>2
    <3>3. CASE i - 1 \in 1 .. k - 1 /\ (i - 1) + 1 = i
      <4>1. t[i - 1] = s[i]
        BY <1>1, <3>3
      <4> QED
        BY <1>3, <3>1, <3>3, <4>1
    <3> QED
      BY <1>4, <3>2, <3>3
  <2>2. ASSUME Carries(t, n) PROVE Carries(s, n)
    BY <1>1, <1>3, <1>4, <2>2
  <2>3. ASSUME h.kind = "chat", h.number = n PROVE Carries(s, n)
    BY <1>1, <1>3, <1>4, <2>3
  <2> QED
    BY <2>1, <2>2, <2>3
<1>7. ASSUME h.kind = "chat", NEW n \in Nat, Carries(t, n)
      PROVE  h.number < n
  <2>1. PICK i \in 1 .. k - 1 : t[i].kind = "chat" /\ t[i].number = n
    BY <1>3, <1>7
  <2> QED
    BY <1>1, <1>2, <1>4, <1>7, <2>1
<1> QED
  BY <1>5, <1>6, <1>7 DEF t, h

\* What is left when the tail is lost.
LEMMA PrefixCarries ==
    ASSUME NEW s, NEW t, Len(s) \in Nat, Len(t) \in Nat, Len(t) <= Len(s),
           \A i \in 1 .. Len(t) : t[i] = s[i], Increasing(s)
    PROVE  /\ Increasing(t)
           /\ \A n \in Nat : Carries(t, n) => Carries(s, n)
           /\ \A m, n \in Nat : Carries(s, m) /\ Carries(t, n) /\ m < n
                                    => Carries(t, m)
<1> DEFINE k == Len(s)
           l == Len(t)
<1>1. /\ \A i, j \in 1 .. k : i < j /\ s[i].kind = "chat" /\ s[j].kind = "chat"
                            => s[i].number < s[j].number
      /\ k \in Nat /\ l \in Nat /\ l <= k
      /\ \A i \in 1 .. l : t[i] = s[i]
  BY DEF Increasing
<1>2. /\ \A n : Carries(s, n) <=> \E i \in 1 .. k : s[i].kind = "chat" /\ s[i].number = n
      /\ \A n : Carries(t, n) <=> \E i \in 1 .. l : t[i].kind = "chat" /\ t[i].number = n
      /\ Increasing(t) <=> \A i, j \in 1 .. l :
            i < j /\ t[i].kind = "chat" /\ t[j].kind = "chat"
                => t[i].number < t[j].number
  BY DEF Carries, Increasing
<1> HIDE DEF k, l
<1>3. \A i \in 1 .. l : i \in 1 .. k
  BY <1>1
<1>4. Increasing(t)
  BY <1>1, <1>2, <1>3
<1>5. ASSUME NEW n \in Nat, Carries(t, n) PROVE Carries(s, n)
  BY <1>1, <1>2, <1>3, <1>5
<1>6. ASSUME NEW m \in Nat, NEW n \in Nat, Carries(s, m), Carries(t, n), m < n
      PROVE  Carries(t, m)
  <2>1. PICK i \in 1 .. k : s[i].kind = "chat" /\ s[i].number = m
    BY <1>2, <1>6
  <2>2. PICK j \in 1 .. l : t[j].kind = "chat" /\ t[j].number = n
    BY <1>2, <1>6
  <2>3. s[j].kind = "chat" /\ s[j].number = n /\ j \in 1 .. k
    BY <1>1, <1>3, <2>2
  <2>4. ~(j < i)
    <3> SUFFICES ASSUME j < i PROVE FALSE
      OBVIOUS
    <3>1. s[j].number < s[i].number
      BY <1>1, <2>1, <2>3
    <3> QED
      BY <1>6, <2>1, <2>3, <3>1
  <2>5. i \in 1 .. l
    BY <1>1, <2>2, <2>4
  <2> QED
    BY <1>1, <1>2, <2>1, <2>5
<1> QED
  BY <1>4, <1>5, <1>6

-----------------------------------------------------------------------------
(* The messages under way from e to the other end, by their numbers.        *)

Last(e) ==
    IF delivered[e] = << >> THEN 0 ELSE delivered[e][Len(delivered[e])]

OnWire(e, n)       == Carries(wire[e], n)
BeingWritten(e, n) == pending[e].kind = "chat" /\ pending[e].number = n
InMailbox(e, n)    == Carries(mailbox[e], n)

Fits(e, n) == submitted[e][n] = "fits"

Connected == ~cut /\ \A e \in Ends : phase[e] # "closed"

\* Whatever is under way was submitted, and after what has been delivered.
Current(e) ==
    /\ Last(Other(e)) <= Len(submitted[e])
    /\ \A n \in Nat :
        OnWire(e, n) \/ BeingWritten(e, n) \/ InMailbox(e, n)
            => Last(Other(e)) < n /\ n <= Len(submitted[e])

\* First what is on the wire, then what is being written, then the mailbox.
InOrder(e) ==
    /\ Increasing(wire[e])
    /\ Increasing(mailbox[e])
    /\ \A m, n \in Nat : OnWire(e, m) /\ BeingWritten(e, n) => m < n
    /\ \A m, n \in Nat : OnWire(e, m) /\ InMailbox(e, n) => m < n
    /\ \A m, n \in Nat : BeingWritten(e, m) /\ InMailbox(e, n) => m < n

\* What is on the wire can be sent, and nothing is missing in front of it.
NoGap(e) ==
    \A n \in Nat :
        OnWire(e, n) =>
            /\ Fits(e, n)
            /\ \A m \in Nat :
                Last(Other(e)) < m /\ m < n /\ Fits(e, m) => OnWire(e, m)

\* Nothing that can be sent is lost while the two ends are connected.
NoneLost(e) ==
    Connected =>
        \A m \in Nat :
            Last(Other(e)) < m /\ m <= Len(submitted[e]) /\ Fits(e, m)
                => OnWire(e, m) \/ BeingWritten(e, m) \/ InMailbox(e, m)

Flow(e) == Current(e) /\ InOrder(e) /\ NoGap(e) /\ NoneLost(e)

Kept(e) ==
    /\ submitted'[e] = submitted[e]
    /\ delivered'[Other(e)] = delivered[Other(e)]

LEMMA LastElement ==
    ASSUME NEW S, NEW s \in Seq(S), s # << >>
    PROVE  s[Len(s)] \in S
<1> DEFINE k == Len(s)
<1>1. k \in Nat \ {0}
  BY TailType
<1>2. k \in 1 .. k
  BY <1>1
<1> QED
  BY <1>2

LEMMA LastType ==
    ASSUME Typed, NEW e \in Ends
    PROVE  Last(e) \in Nat /\ Len(submitted[e]) \in Nat
<1>1. delivered[e] \in Seq(1 .. MaxSubmitted) /\ submitted[e] \in Seq(Sizes)
  BY DEF Typed, HistoryType
<1>2. CASE delivered[e] = << >>
  BY <1>1, <1>2 DEF Last
<1>3. CASE delivered[e] # << >>
  <2>1. delivered[e][Len(delivered[e])] \in 1 .. MaxSubmitted
    BY <1>1, <1>3, LastElement
  <2> QED
    BY <1>1, <1>3, <2>1, LinkAssumption DEF Last
<1> QED
  BY <1>2, <1>3

\* Messages disappear: from the end of the wire, or any of them once the two
\* ends are no longer connected, or such as cannot be sent.
LEMMA ThinnerFlow ==
    ASSUME Typed, NEW e \in Ends, Flow(e), Kept(e),
           Increasing(wire'[e]), Increasing(mailbox'[e]),
           \A n \in Nat : OnWire(e, n)' => OnWire(e, n),
           \A m, n \in Nat : OnWire(e, m) /\ OnWire(e, n)' /\ m < n => OnWire(e, m)',
           \A n \in Nat : BeingWritten(e, n)' => BeingWritten(e, n),
           \A n \in Nat : InMailbox(e, n)' => InMailbox(e, n),
           Connected' => Connected,
           Connected' => \A n \in Nat : OnWire(e, n) => OnWire(e, n)',
           Connected' => \A n \in Nat :
                            BeingWritten(e, n) /\ Fits(e, n) => BeingWritten(e, n)',
           Connected' => \A n \in Nat : InMailbox(e, n) => InMailbox(e, n)'
    PROVE  Flow(e)'
<1>1. /\ Last(Other(e))' = Last(Other(e))
      /\ Len(submitted[e])' = Len(submitted[e])
      /\ \A n : Fits(e, n)' <=> Fits(e, n)
  BY DEF Kept, Last, Fits
<1>2. Current(e)'
  BY <1>1 DEF Flow, Current
<1>3. InOrder(e)'
  BY DEF Flow, InOrder
<1>4. NoGap(e)'
  BY <1>1 DEF Flow, NoGap
<1>5. NoneLost(e)'
  BY <1>1 DEF Flow, NoneLost
<1> QED
  BY <1>2, <1>3, <1>4, <1>5 DEF Flow

\* The message that is read is the next of those that can be sent.
LEMMA NextMessage ==
    ASSUME Typed, NEW e \in Ends, Flow(e), NEW h \in Nat, OnWire(e, h),
           \A n \in Nat : OnWire(e, n) => h <= n
    PROVE  /\ Last(Other(e)) < h
           /\ h <= Len(submitted[e])
           /\ Fits(e, h)
           /\ \A m \in Nat : Last(Other(e)) < m /\ m < h => ~Fits(e, m)
<1>1. Last(Other(e)) \in Nat /\ Len(submitted[e]) \in Nat
  BY LastType, OtherEnd
<1>2. Last(Other(e)) < h /\ h <= Len(submitted[e])
  BY DEF Flow, Current
<1>3. Fits(e, h)
  BY DEF Flow, NoGap
<1>4. ASSUME NEW m \in Nat, Last(Other(e)) < m, m < h, Fits(e, m) PROVE FALSE
  <2>1. OnWire(e, m)
    BY <1>4 DEF Flow, NoGap
  <2> QED
    BY <1>4, <2>1
<1> QED
  BY <1>2, <1>3, <1>4

LEMMA ReadFlow ==
    ASSUME Typed, NEW e \in Ends, Flow(e), NEW h \in Nat,
           Last(Other(e))' = h, submitted'[e] = submitted[e],
           pending'[e] = pending[e], mailbox'[e] = mailbox[e],
           Increasing(wire'[e]), Connected' => Connected,
           \A n \in Nat : OnWire(e, n) <=> (OnWire(e, n)' \/ n = h),
           \A n \in Nat : OnWire(e, n)' => h < n
    PROVE  Flow(e)'
<1>0. Last(Other(e)) \in Nat /\ Len(submitted[e]) \in Nat
  BY LastType, OtherEnd
<1>1. /\ \A n : Fits(e, n)' <=> Fits(e, n)
      /\ \A n : BeingWritten(e, n)' <=> BeingWritten(e, n)
      /\ \A n : InMailbox(e, n)' <=> InMailbox(e, n)
      /\ Len(submitted[e])' = Len(submitted[e])
  BY DEF Fits, BeingWritten, InMailbox
<1>2. /\ OnWire(e, h)
      /\ Last(Other(e)) < h /\ h <= Len(submitted[e])
      /\ \A n \in Nat : BeingWritten(e, n) \/ InMailbox(e, n) => h < n
  BY DEF Flow, Current, InOrder
<1>3. Current(e)'
  BY <1>0, <1>1, <1>2 DEF Flow, Current
<1>4. InOrder(e)'
  <2>1. Increasing(mailbox'[e])
    BY DEF Flow, InOrder
  <2> QED
    BY <1>1, <2>1 DEF Flow, InOrder
<1>5. NoGap(e)'
  <2>1. ASSUME NEW n \in Nat, OnWire(e, n)'
        PROVE  /\ Fits(e, n)
               /\ \A m \in Nat : h < m /\ m < n /\ Fits(e, m) => OnWire(e, m)'
    <3>1. OnWire(e, n) /\ h < n
      BY <2>1
    <3>2. \A m \in Nat : h < m => Last(Other(e)) < m /\ m # h
      BY <1>0, <1>2
    <3>3. /\ Fits(e, n)
          /\ \A m \in Nat : Last(Other(e)) < m /\ m < n /\ Fits(e, m) => OnWire(e, m)
      BY <3>1 DEF Flow, NoGap
    <3> QED
      BY <3>2, <3>3
  <2> QED
    BY <1>1, <2>1 DEF NoGap
<1>6. NoneLost(e)'
  <2>1. ASSUME Connected', NEW m \in Nat, h < m, m <= Len(submitted[e]), Fits(e, m)
        PROVE  OnWire(e, m)' \/ BeingWritten(e, m) \/ InMailbox(e, m)
    <3>1. Last(Other(e)) < m /\ m # h
      BY <1>0, <1>2, <2>1
    <3>2. OnWire(e, m) \/ BeingWritten(e, m) \/ InMailbox(e, m)
      BY <2>1, <3>1 DEF Flow, NoneLost
    <3> QED
      BY <3>1, <3>2
  <2> QED
    BY <1>1, <2>1 DEF NoneLost
<1> QED
  BY <1>3, <1>4, <1>5, <1>6 DEF Flow

\* The head of the mailbox is taken to be written.
LEMMA BeginFlow ==
    ASSUME Typed, NEW e \in Ends, Flow(e), Kept(e), wire'[e] = wire[e],
           Connected' => Connected,
           \A n \in Nat : ~BeingWritten(e, n),
           Increasing(mailbox'[e]),
           \A n \in Nat : InMailbox(e, n) <=> (InMailbox(e, n)' \/ BeingWritten(e, n)'),
           \A m, n \in Nat : BeingWritten(e, m)' /\ InMailbox(e, n)' => m < n
    PROVE  Flow(e)'
<1>1. /\ Last(Other(e))' = Last(Other(e))
      /\ Len(submitted[e])' = Len(submitted[e])
      /\ \A n : Fits(e, n)' <=> Fits(e, n)
      /\ \A n : OnWire(e, n)' <=> OnWire(e, n)
  BY DEF Kept, Last, Fits, OnWire
<1>2. Current(e)'
  BY <1>1 DEF Flow, Current
<1>3. InOrder(e)'
  <2>1. Increasing(wire'[e])
    BY DEF Flow, InOrder
  <2> QED
    BY <1>1, <2>1 DEF Flow, InOrder
<1>4. NoGap(e)'
  BY <1>1 DEF Flow, NoGap
<1>5. NoneLost(e)'
  BY <1>1 DEF Flow, NoneLost
<1> QED
  BY <1>2, <1>3, <1>4, <1>5 DEF Flow

\* A message that can be sent goes from the writer to the wire.
LEMMA WriteFlow ==
    ASSUME Typed, NEW e \in Ends, Flow(e), Kept(e), mailbox'[e] = mailbox[e],
           Connected' => Connected, Connected,
           NEW p \in Nat, BeingWritten(e, p), Fits(e, p),
           \A n \in Nat : BeingWritten(e, n) => n = p,
           \A n \in Nat : ~BeingWritten(e, n)',
           Increasing(wire'[e]),
           \A n \in Nat : OnWire(e, n)' <=> (OnWire(e, n) \/ n = p)
    PROVE  Flow(e)'
<1>0. Last(Other(e)) \in Nat /\ Len(submitted[e]) \in Nat
  BY LastType, OtherEnd
<1>1. /\ Last(Other(e))' = Last(Other(e))
      /\ Len(submitted[e])' = Len(submitted[e])
      /\ \A n : Fits(e, n)' <=> Fits(e, n)
      /\ \A n : InMailbox(e, n)' <=> InMailbox(e, n)
  BY DEF Kept, Last, Fits, InMailbox
<1>2. Current(e)'
  BY <1>1 DEF Flow, Current
<1>3. InOrder(e)'
  <2>1. Increasing(mailbox'[e])
    BY DEF Flow, InOrder
  <2> QED
    BY <1>1, <2>1 DEF Flow, InOrder
<1>4. NoGap(e)'
  <2>1. ASSUME NEW m \in Nat, Last(Other(e)) < m, m < p, Fits(e, m)
        PROVE  OnWire(e, m)
    <3>1. p <= Len(submitted[e]) /\ m <= Len(submitted[e])
      BY <1>0, <2>1 DEF Flow, Current
    <3>2. OnWire(e, m) \/ BeingWritten(e, m) \/ InMailbox(e, m)
      BY <2>1, <3>1 DEF Flow, NoneLost
    <3>3. ~BeingWritten(e, m)
      BY <2>1
    <3>4. InMailbox(e, m) => p < m
      BY DEF Flow, InOrder
    <3> QED
      BY <2>1, <3>2, <3>3, <3>4
  <2>2. ASSUME NEW n \in Nat, OnWire(e, n)'
        PROVE  /\ Fits(e, n)
               /\ \A m \in Nat : Last(Other(e)) < m /\ m < n /\ Fits(e, m)
                                    => OnWire(e, m)
    <3>1. CASE n = p
      BY <2>1, <3>1
    <3>2. CASE OnWire(e, n)
      BY <3>2 DEF Flow, NoGap
    <3> QED
      BY <2>2, <3>1, <3>2
  <2> QED
    BY <1>1, <2>2 DEF NoGap
<1>5. NoneLost(e)'
  BY <1>1 DEF Flow, NoneLost
<1> QED
  BY <1>2, <1>3, <1>4, <1>5 DEF Flow

\* A message is submitted.
LEMMA SubmitFlow ==
    ASSUME Typed, NEW e \in Ends, Flow(e),
           wire'[e] = wire[e], pending'[e] = pending[e],
           delivered'[Other(e)] = delivered[Other(e)],
           Connected' => Connected,
           Len(submitted'[e]) = Len(submitted[e]) + 1,
           \A n \in Nat : 0 < n /\ n <= Len(submitted[e])
                            => submitted'[e][n] = submitted[e][n],
           Increasing(mailbox'[e]),
           \A n \in Nat : InMailbox(e, n)'
                            <=> (InMailbox(e, n) \/ n = Len(submitted[e]) + 1)
    PROVE  Flow(e)'
<1> DEFINE l == Last(Other(e))
           k == Len(submitted[e])
<1>0. l \in Nat /\ k \in Nat
  BY LastType, OtherEnd
<1>1. /\ l' = l
      /\ k' = k + 1
      /\ \A n \in Nat : 0 < n /\ n <= k => (Fits(e, n)' <=> Fits(e, n))
      /\ \A n : OnWire(e, n)' <=> OnWire(e, n)
      /\ \A n : BeingWritten(e, n)' <=> BeingWritten(e, n)
      /\ \A n \in Nat : InMailbox(e, n)' <=> (InMailbox(e, n) \/ n = k + 1)
  BY DEF Last, Fits, OnWire, BeingWritten
<1>2. /\ l <= k
      /\ \A n \in Nat : OnWire(e, n) \/ BeingWritten(e, n) \/ InMailbox(e, n)
                            => l < n /\ n <= k
  BY DEF Flow, Current
<1>3. InOrder(e)'
  <2>1. Increasing(wire'[e])
    BY DEF Flow, InOrder
  <2>2. \A m, n \in Nat : m <= k /\ n = k + 1 => m < n
    BY <1>0
  <2> HIDE DEF l, k
  <2> QED
    BY <1>1, <1>2, <2>1, <2>2 DEF Flow, InOrder
<1>4. Current(e)'
  <2>1. /\ l <= k + 1
        /\ \A n \in Nat : n <= k => n <= k + 1
        /\ l < k + 1 /\ k + 1 <= k + 1
    BY <1>0, <1>2
  <2>2. /\ l' <= k'
        /\ \A n \in Nat : OnWire(e, n)' \/ BeingWritten(e, n)' \/ InMailbox(e, n)'
                            => l' < n /\ n <= k'
    <3> HIDE DEF l, k
    <3> QED
      BY <1>1, <1>2, <2>1
  <2> QED
    BY <2>2 DEF Current
<1>5. NoGap(e)'
  <2>1. ASSUME NEW n \in Nat, OnWire(e, n)
        PROVE  /\ Fits(e, n)'
               /\ \A m \in Nat : l < m /\ m < n /\ Fits(e, m)' => OnWire(e, m)
    <3>1. /\ 0 < n /\ n <= k
          /\ \A m \in Nat : l < m /\ m < n => 0 < m /\ m <= k
      BY <1>0, <1>2, <2>1
    <3>2. /\ Fits(e, n)
          /\ \A m \in Nat : l < m /\ m < n /\ Fits(e, m) => OnWire(e, m)
      BY <2>1 DEF Flow, NoGap
    <3> HIDE DEF l, k
    <3> QED
      BY <1>1, <3>1, <3>2
  <2> QED
    BY <1>1, <2>1 DEF NoGap
<1>6. NoneLost(e)'
  <2>1. ASSUME Connected', NEW m \in Nat, l < m, m <= k + 1, Fits(e, m)'
        PROVE  OnWire(e, m)' \/ BeingWritten(e, m)' \/ InMailbox(e, m)'
    <3>1. CASE m = k + 1
      BY <1>1, <3>1
    <3>2. CASE 0 < m /\ m <= k
      <4>1. Fits(e, m)
        BY <1>1, <2>1, <3>2
      <4>2. OnWire(e, m) \/ BeingWritten(e, m) \/ InMailbox(e, m)
        BY <2>1, <3>2, <4>1 DEF Flow, NoneLost
      <4> QED
        BY <1>1, <4>2
    <3> QED
      BY <1>0, <2>1, <3>1, <3>2
  <2> QED
    BY <1>1, <2>1 DEF NoneLost
<1> QED
  BY <1>3, <1>4, <1>5, <1>6 DEF Flow

-----------------------------------------------------------------------------
(* What the steps do to the two directions. *)

Num == \A e \in Ends : Flow(e)

\* Once an end is closed or the stream is cut, it stays so.
LEMMA ConnectedFalls ==
    ASSUME Typed, [Next]_vars
    PROVE  Connected' => Connected
<1>0. phase \in [Ends -> Phases]
  BY DEF Typed, TaskType
<1>1. CASE UNCHANGED phase /\ (UNCHANGED cut \/ ~cut)
  BY <1>1 DEF Connected
<1>2. ASSUME NEW e \in Ends, NEW p, Goto(e, p), phase[e] # "closed", UNCHANGED cut
      PROVE  Connected' => Connected
  <2>1. \A f \in Ends \ {e} : phase'[f] = phase[f]
    BY <1>0, <1>2 DEF Goto
  <2> QED
    BY <1>2, <2>1 DEF Connected
<1>3. ASSUME NEW e \in Ends, Finish(e) PROVE Connected' => Connected
  <2>1. phase'[e] = "closed"
    BY <1>0, <1>3 DEF Finish, Goto
  <2> QED
    BY <2>1 DEF Connected
<1>4. ASSUME NEW e \in Ends, Step(e) \/ Environment(e)
      PROVE  Connected' => Connected
  <2>1. CASE \/ e = "client" /\ ReadTooEarly
             \/ ReadAuth(e) /\ ~Verified(Head(wire[Other(e)]))
             \/ HandshakeBreaks(e) \/ Timeout(e) \/ ReadOutOfTurn(e)
             \/ ReadEnd(e) \/ TakeClose(e) \/ ReadPartOfKey(e) \/ EngineLeaves(e)
    BY <1>3, <2>1 DEF ReadTooEarly, ReadAuth, HandshakeBreaks, Timeout,
       ReadOutOfTurn, ReadEnd, TakeClose, ReadPartOfKey, EngineLeaves
  <2>2. CASE \/ e = "client" /\ (SendKey \/ ReadAuthorized \/ ReadNoAuthorization)
             \/ ReadKey(e) \/ SendAuth(e)
             \/ ReadAuth(e) /\ Verified(Head(wire[Other(e)]))
             \/ Announce(e) \/ BeginWrite(e) \/ WriteSucceeds(e) \/ WriteFails(e)
    <3>1. (\E p : Goto(e, p)) /\ phase[e] # "closed" /\ UNCHANGED cut
      BY <2>2 DEF SendKey, ReadAuthorized, ReadNoAuthorization, ReadKey, SendAuth,
         ReadAuth, Announce, BeginWrite, Take, WriteSucceeds, WriteFails, EndWrite
    <3> QED
      BY <1>2, <3>1
  <2>3. CASE \/ ReadChat(e) \/ \E size \in Sizes : Submit(e, size)
             \/ Authorize(e) \/ Disconnect(e)
    BY <1>1, <2>3 DEF ReadChat, Submit, Authorize, Disconnect, Put
  <2> QED
    BY <1>4, <2>1, <2>2, <2>3 DEF Step, Environment
<1> QED
  BY <1>1, <1>4 DEF Next, Cut, vars

\* The messages of a direction stay where they are.
LEMMA SameFlow ==
    ASSUME Typed, NEW e \in Ends, Flow(e), Kept(e), Connected' => Connected,
           Increasing(wire'[e]), Increasing(mailbox'[e]),
           \A n \in Nat : OnWire(e, n)' <=> OnWire(e, n),
           \A n \in Nat : BeingWritten(e, n)' <=> BeingWritten(e, n),
           \A n \in Nat : InMailbox(e, n)' <=> InMailbox(e, n)
    PROVE  Flow(e)'
  BY ThinnerFlow

LEMMA QuietFlow ==
    ASSUME Typed, NEW e \in Ends, Flow(e), Kept(e), Connected' => Connected,
           wire'[e] = wire[e], pending'[e] = pending[e], mailbox'[e] = mailbox[e]
    PROVE  Flow(e)'
<1>1. Increasing(wire'[e]) /\ Increasing(mailbox'[e])
  BY DEF Flow, InOrder
<1>2. \A n \in Nat : /\ OnWire(e, n)' <=> OnWire(e, n)
                     /\ BeingWritten(e, n)' <=> BeingWritten(e, n)
                     /\ InMailbox(e, n)' <=> InMailbox(e, n)
  BY DEF OnWire, BeingWritten, InMailbox
<1> QED
  BY <1>1, <1>2, SameFlow

\* A frame of the handshake is read, or written.
LEMMA HeadGone ==
    ASSUME Typed, NEW e \in Ends, Flow(e), wire[e] # << >>,
           Head(wire[e]).kind # "chat", wire'[e] = Tail(wire[e])
    PROVE  /\ Increasing(wire'[e])
           /\ \A n \in Nat : OnWire(e, n)' <=> OnWire(e, n)
<1>1. wire[e] \in Seq(Frames) /\ Increasing(wire[e])
  BY DEF Typed, TaskType, Flow, InOrder
<1> QED
  BY <1>1, TailCarries DEF OnWire

LEMMA FrameAdded ==
    ASSUME Typed, NEW e \in Ends, Flow(e), NEW f \in Frames, f.kind # "chat",
           wire'[e] \in {wire[e], Append(wire[e], f)}
    PROVE  /\ Increasing(wire'[e])
           /\ \A n \in Nat : OnWire(e, n)' <=> OnWire(e, n)
<1>1. wire[e] \in Seq(Frames) /\ Increasing(wire[e])
  BY DEF Typed, TaskType, Flow, InOrder
<1>2. /\ Increasing(Append(wire[e], f))
      /\ \A n \in Nat : Carries(Append(wire[e], f), n) <=> Carries(wire[e], n)
  BY <1>1, AppendIncreasing, AppendCarries
<1> QED
  BY <1>1, <1>2 DEF OnWire

\* Before the loop is entered, and while an end reads, it writes no message.
LEMMA WritesNothing ==
    ASSUME Typed, NEW e \in Ends, phase[e] # "writing"
    PROVE  \A n \in Nat : ~BeingWritten(e, n)
  BY DEF Typed, TaskType, Writing, BeingWritten, Key

LEMMA FinishFlow ==
    ASSUME Typed, Num, NEW e \in Ends, Finish(e), UNCHANGED <<submitted, delivered>>
    PROVE  Num'
<1>0. TaskType /\ Other(e) \in Ends /\ Flow(e) /\ Flow(Other(e))
  BY OtherEnd DEF Typed, Num
<1>1. /\ phase'[e] = "closed"
      /\ wire'[e] = wire[e] /\ wire'[Other(e)] = << >>
  BY <1>0, FinishType
<1>2. /\ mailbox'[e] = << >> /\ mailbox'[Other(e)] = mailbox[Other(e)]
      /\ pending'[e] = Key /\ pending'[Other(e)] = pending[Other(e)]
  BY <1>0, OtherEnd DEF TaskType, Finish
<1>3. ~Connected'
  BY <1>1 DEF Connected
<1>4. Kept(e) /\ Kept(Other(e))
  BY DEF Kept
<1>5. Flow(e)'
  <2>1. Increasing(wire'[e]) /\ Increasing(mailbox'[e])
    BY <1>0, <1>1, <1>2, NothingCarried DEF Flow, InOrder
  <2>2. \A n \in Nat : /\ OnWire(e, n)' <=> OnWire(e, n)
                       /\ ~BeingWritten(e, n)'
                       /\ ~InMailbox(e, n)'
    BY <1>1, <1>2, NothingCarried DEF OnWire, BeingWritten, InMailbox, Key
  <2> QED
    BY <1>0, <1>3, <1>4, <2>1, <2>2, ThinnerFlow
<1>6. Flow(Other(e))'
  <2>1. Increasing(wire'[Other(e)]) /\ Increasing(mailbox'[Other(e)])
    BY <1>0, <1>1, <1>2, NothingCarried DEF Flow, InOrder
  <2>2. \A n \in Nat : /\ ~OnWire(Other(e), n)'
                       /\ BeingWritten(Other(e), n)' <=> BeingWritten(Other(e), n)
                       /\ InMailbox(Other(e), n)' <=> InMailbox(Other(e), n)
    BY <1>1, <1>2, NothingCarried DEF OnWire, BeingWritten, InMailbox
  <2> QED
    BY <1>0, <1>3, <1>4, <2>1, <2>2, ThinnerFlow
<1> QED
  BY <1>5, <1>6, TwoEnds DEF Num

LEMMA CutFlow ==
    ASSUME Typed, Num, Cut
    PROVE  Num'
<1> SUFFICES ASSUME NEW e \in Ends PROVE Flow(e)'
  BY DEF Num
<1>0. wire \in [Ends -> Seq(Frames)] /\ Flow(e)
  BY DEF Typed, TaskType, Num
<1>1. /\ wire' \in [Ends -> Seq(Frames)]
      /\ Len(wire'[e]) <= Len(wire[e])
      /\ \A i \in 1 .. Len(wire'[e]) : wire'[e][i] = wire[e][i]
  BY <1>0, CutWire
<1>2. Len(wire[e]) \in Nat /\ Len(wire'[e]) \in Nat
  BY <1>0, <1>1
<1>3. /\ Increasing(wire'[e])
      /\ \A n \in Nat : OnWire(e, n)' => OnWire(e, n)
      /\ \A m, n \in Nat : OnWire(e, m) /\ OnWire(e, n)' /\ m < n => OnWire(e, m)'
  BY <1>0, <1>1, <1>2, PrefixCarries DEF Flow, InOrder, OnWire
<1>4. /\ Increasing(mailbox'[e])
      /\ \A n \in Nat : BeingWritten(e, n)' <=> BeingWritten(e, n)
      /\ \A n \in Nat : InMailbox(e, n)' <=> InMailbox(e, n)
      /\ Kept(e) /\ ~Connected'
  BY <1>0 DEF Cut, Flow, InOrder, BeingWritten, InMailbox, Kept, Connected, history
<1> QED
  BY <1>0, <1>3, <1>4, ThinnerFlow

LEMMA HandshakeFlow ==
    ASSUME Typed, Num, Connected' => Connected, NEW e \in Ends,
           \/ e = "client" /\ (SendKey \/ ReadAuthorized \/ ReadNoAuthorization)
           \/ ReadKey(e) \/ SendAuth(e) \/ Announce(e)
           \/ ReadAuth(e) /\ Verified(Head(wire[Other(e)]))
    PROVE  Num'
<1> DEFINE o == Other(e)
<1>0. /\ o \in Ends /\ o # e /\ Other(o) = e
      /\ Flow(e) /\ Flow(o)
      /\ wire \in [Ends -> Seq(Frames)]
  BY OtherEnd DEF Num, Typed, TaskType
<1>1. UNCHANGED <<submitted, delivered, pending, mailbox>>
  BY DEF SendKey, ReadAuthorized, ReadNoAuthorization, ReadKey, SendAuth, Announce,
     ReadAuth, history
<1>2. /\ Kept(e) /\ Kept(o)
      /\ Increasing(mailbox'[e]) /\ Increasing(mailbox'[o])
      /\ \A f \in Ends : \A n \in Nat : BeingWritten(f, n)' <=> BeingWritten(f, n)
      /\ \A f \in Ends : \A n \in Nat : InMailbox(f, n)' <=> InMailbox(f, n)
  BY <1>0, <1>1 DEF Kept, Flow, InOrder, BeingWritten, InMailbox
<1>3. ASSUME NEW d \in Ends, wire'[d] = wire[d] PROVE Flow(d)'
  <2>1. Flow(d) /\ Kept(d) /\ pending'[d] = pending[d] /\ mailbox'[d] = mailbox[d]
    BY <1>1, <1>3 DEF Num, Kept
  <2> QED
    BY <1>3, <2>1, QuietFlow
<1>4. ASSUME wire[o] # << >>, Head(wire[o]).kind # "chat", wire'[o] = Tail(wire[o])
      PROVE  Flow(o)'
  <2>1. Increasing(wire'[o]) /\ \A n \in Nat : OnWire(o, n)' <=> OnWire(o, n)
    BY <1>0, <1>4, HeadGone
  <2> HIDE DEF o
  <2> QED
    BY <1>0, <1>2, <2>1, SameFlow
<1>5. ASSUME NEW f \in Frames, f.kind # "chat",
             wire'[e] \in {wire[e], Append(wire[e], f)}
      PROVE  Flow(e)'
  <2>1. Increasing(wire'[e]) /\ \A n \in Nat : OnWire(e, n)' <=> OnWire(e, n)
    BY <1>0, <1>5, FrameAdded
  <2> QED
    BY <1>0, <1>2, <2>1, SameFlow
<1>6. CASE e = "client" /\ SendKey
  <2>1. Key \in Frames /\ Key.kind # "chat"
    BY KeyFrames DEF Key
  <2>2. wire'[o] = wire[o] /\ wire'[e] \in {wire[e], Append(wire[e], Key)}
    BY <1>0, <1>6, <2>1, WriteType DEF SendKey
  <2> QED
    BY <1>0, <1>3, <1>5, <2>1, <2>2, TwoEnds DEF Num
<1>7. CASE SendAuth(e)
  <2>1. Auth(ownKey[e]) \in Frames /\ Auth(ownKey[e]).kind # "chat"
    BY KeyFrames DEF Auth, Typed, HistoryType
  <2>2. wire'[o] = wire[o] /\ wire'[e] \in {wire[e], Append(wire[e], Auth(ownKey[e]))}
    BY <1>0, <1>7, <2>1, WriteType DEF SendAuth
  <2> QED
    BY <1>0, <1>3, <1>5, <2>1, <2>2, TwoEnds DEF Num
<1>8. CASE ReadKey(e)
  <2>1. Key \in Frames /\ Key.kind # "chat"
    BY KeyFrames DEF Key
  <2>2. wire[o] # << >> /\ Head(wire[o]).kind # "chat" /\ wire'[o] = Tail(wire[o])
    BY <1>0, <1>8, ReadKeyWire DEF ReadKey, Readable
  <2>3. wire'[e] \in {wire[e], Append(wire[e], Key)}
    BY <1>0, <1>8, ReadKeyWire
  <2> QED
    BY <1>0, <1>4, <1>5, <2>1, <2>2, <2>3, TwoEnds DEF Num
<1>9. CASE \/ e = "client" /\ ReadAuthorized
           \/ ReadAuth(e) /\ Verified(Head(wire[Other(e)]))
  <2>1. PICK K \in {{"authorized"}, {"auth"}} : Readable(e, K) /\ Consume(e)
    BY <1>9 DEF ReadAuthorized, ReadAuth
  <2>2. wire[o] # << >> /\ Head(wire[o]).kind # "chat"
    BY <2>1 DEF Readable
  <2>3. wire'[e] = wire[e] /\ wire'[o] = Tail(wire[o])
    BY <1>0, <2>1, ConsumeType
  <2> QED
    BY <1>0, <1>3, <1>4, <2>2, <2>3, TwoEnds DEF Num
<1>10. CASE (e = "client" /\ ReadNoAuthorization) \/ Announce(e)
  <2>1. UNCHANGED wire
    BY <1>10 DEF ReadNoAuthorization, Announce
  <2> QED
    BY <1>0, <1>3, <2>1 DEF Num
<1> QED
  BY <1>6, <1>7, <1>8, <1>9, <1>10

\* What is known of a message that is read.
LEMMA ChatRead ==
    ASSUME Typed, Num, NEW e \in Ends, ReadChat(e)
    PROVE  LET o == Other(e)
               h == Head(wire[o]).number
           IN  /\ h \in Nat /\ h \in 1 .. MaxSubmitted
               /\ OnWire(o, h)
               /\ \A n \in Nat : OnWire(o, n) => h <= n
               /\ Increasing(wire'[o])
               /\ \A n \in Nat : OnWire(o, n) <=> (OnWire(o, n)' \/ n = h)
               /\ \A n \in Nat : OnWire(o, n)' => h < n
               /\ wire'[e] = wire[e]
               /\ delivered'[e] = Append(delivered[e], h)
               /\ delivered'[o] = delivered[o]
               /\ Last(e)' = h
<1> DEFINE o == Other(e)
           s == wire[o]
           h == Head(s).number
<1>0. /\ o \in Ends /\ o # e
      /\ wire \in [Ends -> Seq(Frames)]
      /\ s \in Seq(Frames) /\ Increasing(s)
      /\ delivered \in [Ends -> Seq(1 .. MaxSubmitted)]
  BY OtherEnd DEF Num, Flow, InOrder, Typed, TaskType, HistoryType
<1>1. /\ s # << >> /\ Head(s).kind = "chat" /\ Consume(e) /\ Readable(e, {"chat"})
      /\ delivered' = [delivered EXCEPT ![e] = Append(@, h)]
  BY DEF ReadChat, Readable
<1>2. wire'[e] = wire[e] /\ wire'[o] = Tail(s) /\ Head(s) \in Frames
  BY <1>0, <1>1, ConsumeType
<1>3. h \in 1 .. MaxSubmitted
  BY <1>1, <1>2, ChatFrame
<1>4. h \in Nat
  BY <1>3, LinkAssumption
<1>5. /\ Increasing(Tail(s))
      /\ \A n \in Nat : Carries(s, n) <=> (Carries(Tail(s), n) \/ h = n)
      /\ \A n \in Nat : Carries(Tail(s), n) => h < n
  BY <1>0, <1>1, TailCarries
<1>6. /\ OnWire(o, h)
      /\ \A n \in Nat : OnWire(o, n) <=> (OnWire(o, n)' \/ n = h)
      /\ \A n \in Nat : OnWire(o, n)' => h < n
  BY <1>2, <1>4, <1>5 DEF OnWire
<1>7. \A n \in Nat : OnWire(o, n) => h <= n
  <2> HIDE DEF h, o
  <2> QED
    BY <1>4, <1>6
<1>8. delivered'[e] = Append(delivered[e], h) /\ delivered'[o] = delivered[o]
  BY <1>0, <1>1
<1>9. Last(e)' = h
  <2>1. delivered[e] \in Seq(1 .. MaxSubmitted)
    BY <1>0
  <2>2. /\ Append(delivered[e], h)[Len(delivered[e]) + 1] = h
        /\ Len(Append(delivered[e], h)) = Len(delivered[e]) + 1
    <3> HIDE DEF h
    <3> QED
      BY <1>3, <2>1, AppendType
  <2>3. Append(delivered[e], h) # << >>
    <3>1. Len(delivered[e]) \in Nat /\ Len(<< >>) = 0
      BY <2>1, NoFrames
    <3> HIDE DEF h
    <3> QED
      BY <2>2, <3>1
  <2> QED
    BY <1>8, <2>2, <2>3 DEF Last
<1> QED
  BY <1>2, <1>3, <1>4, <1>5, <1>6, <1>7, <1>8, <1>9

LEMMA ChatReadFlow ==
    ASSUME Typed, Num, Connected' => Connected, NEW e \in Ends, ReadChat(e)
    PROVE  Num'
<1> DEFINE o == Other(e)
           h == Head(wire[o]).number
<1>0. /\ o \in Ends /\ o # e /\ Other(o) = e
      /\ Flow(e) /\ Flow(o)
  BY OtherEnd DEF Num
<1>1. UNCHANGED <<pending, mailbox, submitted>>
  BY DEF ReadChat
<1>2. /\ h \in Nat
      /\ Increasing(wire'[o])
      /\ \A n \in Nat : OnWire(o, n) <=> (OnWire(o, n)' \/ n = h)
      /\ \A n \in Nat : OnWire(o, n)' => h < n
      /\ wire'[e] = wire[e]
      /\ delivered'[o] = delivered[o]
      /\ Last(e)' = h
  BY ChatRead
<1> HIDE DEF h, o
<1>3. Flow(o)'
  BY <1>0, <1>1, <1>2, ReadFlow
<1>4. Flow(e)'
  <2>1. Kept(e)
    BY <1>1, <1>2 DEF Kept, o
  <2> QED
    BY <1>0, <1>1, <1>2, <2>1, QuietFlow
<1> QED
  BY <1>3, <1>4, TwoEnds DEF Num, o

\* A step of e that moves nothing in the other direction.
LEMMA OtherDirection ==
    ASSUME Typed, Num, Connected' => Connected, NEW e \in Ends, Flow(e)',
           wire'[Other(e)] = wire[Other(e)],
           pending'[Other(e)] = pending[Other(e)],
           mailbox'[Other(e)] = mailbox[Other(e)], Kept(Other(e))
    PROVE  Num'
<1>1. Flow(Other(e))'
  BY QuietFlow, OtherEnd DEF Num
<1> QED
  BY <1>1, TwoEnds DEF Num

LEMMA CommandNumber ==
    ASSUME NEW m \in Commands, m.kind = "chat"
    PROVE  m.number \in Nat
<1>1. m # Authorized /\ m # CloseCommand
  BY DEF Authorized, CloseCommand
<1>2. PICK n \in 1 .. MaxSubmitted : m = Chat(n)
  BY <1>1 DEF Commands, Chats
<1> QED
  BY <1>2, LinkAssumption DEF Chat

LEMMA BeginWriteFlow ==
    ASSUME Typed, Num, Connected' => Connected, NEW e \in Ends, BeginWrite(e)
    PROVE  Num'
<1> DEFINE s == mailbox[e]
<1>0. /\ Flow(e) /\ Other(e) \in Ends /\ Other(e) # e
      /\ s \in Seq(Commands) /\ s # << >> /\ Increasing(s)
      /\ mailbox \in [Ends -> Seq(Commands)]
      /\ pending \in [Ends -> {Key, Authorized} \cup Chats]
      /\ phase[e] = "running"
  BY OtherEnd DEF Num, Flow, InOrder, Typed, TaskType, BeginWrite, Take
<1>1. /\ UNCHANGED <<wire, submitted, delivered>>
      /\ pending' = [pending EXCEPT ![e] = Head(s)]
      /\ mailbox' = [mailbox EXCEPT ![e] = Tail(s)]
  BY DEF BeginWrite, history
<1>2. /\ pending'[e] = Head(s) /\ pending'[Other(e)] = pending[Other(e)]
      /\ mailbox'[e] = Tail(s) /\ mailbox'[Other(e)] = mailbox[Other(e)]
      /\ Kept(e) /\ Kept(Other(e))
  BY <1>0, <1>1 DEF Kept
<1>3. \A n \in Nat : ~BeingWritten(e, n)
  BY <1>0, WritesNothing
<1>4. /\ Increasing(Tail(s))
      /\ \A n \in Nat : Carries(s, n)
            <=> \/ Carries(Tail(s), n)
                \/ Head(s).kind = "chat" /\ Head(s).number = n
      /\ Head(s).kind = "chat" =>
            \A n \in Nat : Carries(Tail(s), n) => Head(s).number < n
  BY <1>0, TailCarries
<1>5. /\ \A n \in Nat : InMailbox(e, n) <=> (InMailbox(e, n)' \/ BeingWritten(e, n)')
      /\ \A m, n \in Nat : BeingWritten(e, m)' /\ InMailbox(e, n)' => m < n
  BY <1>2, <1>4 DEF InMailbox, BeingWritten
<1>6. Flow(e)'
  BY <1>0, <1>1, <1>2, <1>3, <1>4, <1>5, BeginFlow
<1> QED
  BY <1>1, <1>2, <1>6, OtherDirection

\* The frame that was written is gone without a trace.
LEMMA WrittenInVain ==
    ASSUME Typed, Num, Connected' => Connected, NEW e \in Ends, EndWrite(e),
           UNCHANGED wire, TooLong(e) \/ ~Connected'
    PROVE  Num'
<1>0. /\ Flow(e) /\ Other(e) \in Ends /\ Other(e) # e
      /\ pending \in [Ends -> {Key, Authorized} \cup Chats]
      /\ UNCHANGED <<mailbox, submitted, delivered>>
      /\ pending' = [pending EXCEPT ![e] = Key]
  BY OtherEnd DEF Num, Typed, TaskType, EndWrite, history
<1>1. /\ pending'[e] = Key /\ pending'[Other(e)] = pending[Other(e)]
      /\ Kept(e) /\ Kept(Other(e))
      /\ Increasing(wire'[e]) /\ Increasing(mailbox'[e])
  BY <1>0 DEF Kept, Flow, InOrder
<1>2. /\ \A n \in Nat : ~BeingWritten(e, n)'
      /\ \A n \in Nat : OnWire(e, n)' <=> OnWire(e, n)
      /\ \A n \in Nat : InMailbox(e, n)' <=> InMailbox(e, n)
  BY <1>0, <1>1 DEF BeingWritten, OnWire, InMailbox, Key
<1>3. TooLong(e) => \A n \in Nat : BeingWritten(e, n) => ~Fits(e, n)
  BY DEF TooLong, BeingWritten, Fits
<1>4. Flow(e)'
  BY <1>0, <1>1, <1>2, <1>3, ThinnerFlow
<1> QED
  BY <1>0, <1>1, <1>4, OtherDirection

LEMMA WriteSucceedsFlow ==
    ASSUME Typed, Num, Connected' => Connected, NEW e \in Ends, WriteSucceeds(e)
    PROVE  Num'
<1> DEFINE p == pending[e]
           s == wire[e]
<1>0. /\ Flow(e) /\ Other(e) \in Ends /\ Other(e) # e
      /\ wire \in [Ends -> Seq(Frames)] /\ s \in Seq(Frames) /\ Increasing(s)
      /\ phase \in [Ends -> Phases] /\ phase[e] = "writing"
      /\ pending \in [Ends -> {Key, Authorized} \cup Chats]
      /\ UNCHANGED <<mailbox, submitted, delivered, cut>>
      /\ pending' = [pending EXCEPT ![e] = Key]
      /\ EndWrite(e) /\ ~TooLong(e) /\ Write(e, p)
  BY OtherEnd DEF Num, Flow, InOrder, Typed, TaskType, WriteSucceeds, EndWrite,
     history
<1>1. p \in Frames /\ p \in {Key, Authorized} \cup Chats
  BY <1>0, PendingFrame
<1>2. /\ wire'[Other(e)] = wire[Other(e)]
      /\ wire'[e] = IF Unread(e) THEN s ELSE Append(s, p)
  BY <1>0, <1>1, WriteType
<1>3. /\ pending'[e] = Key /\ pending'[Other(e)] = pending[Other(e)]
      /\ Kept(e) /\ Kept(Other(e))
      /\ Increasing(mailbox'[e])
      /\ \A n \in Nat : ~BeingWritten(e, n)'
      /\ \A n \in Nat : InMailbox(e, n)' <=> InMailbox(e, n)
  BY <1>0 DEF Kept, Flow, InOrder, BeingWritten, InMailbox, Key
<1>4. CASE Unread(e)
  <2>1. ~Connected /\ wire' = wire
    BY <1>0, <1>4 DEF Connected, Unread, Write
  <2> QED
    BY <1>0, <2>1, WrittenInVain
<1>5. CASE ~Unread(e) /\ p.kind # "chat"
  <2>1. /\ Increasing(wire'[e])
        /\ \A n \in Nat : OnWire(e, n)' <=> OnWire(e, n)
    BY <1>0, <1>1, <1>2, <1>5, FrameAdded
  <2>2. \A n \in Nat : BeingWritten(e, n)' <=> BeingWritten(e, n)
    BY <1>3, <1>5 DEF BeingWritten
  <2>3. Flow(e)'
    BY <1>0, <1>3, <2>1, <2>2, SameFlow
  <2> QED
    BY <1>0, <1>2, <1>3, <2>3, OtherDirection
<1>6. CASE ~Unread(e) /\ p.kind = "chat"
  <2>1. p.number \in 1 .. MaxSubmitted /\ p.number \in Nat
    BY <1>1, <1>6, ChatFrame, LinkAssumption
  <2>2. Connected
    BY <1>0, <1>6, TwoEnds DEF Connected, Unread
  <2>3. /\ BeingWritten(e, p.number)
        /\ \A n \in Nat : BeingWritten(e, n) => n = p.number
    BY <1>6 DEF BeingWritten
  <2>4. Fits(e, p.number)
    <3>1. p.number <= Len(submitted[e])
      BY <1>0, <2>1, <2>3 DEF Flow, Current
    <3>2. submitted[e] \in Seq(Sizes) /\ p.number \in 1 .. Len(submitted[e])
      BY <2>1, <3>1, LastType DEF Typed, HistoryType
    <3>3. submitted[e][p.number] \in Sizes
      BY <3>2
    <3> QED
      BY <1>0, <1>6, <3>3 DEF TooLong, Fits, Sizes
  <2>5. \A n \in Nat : OnWire(e, n)' <=> (OnWire(e, n) \/ n = p.number)
    BY <1>0, <1>1, <1>2, <1>6, AppendCarries DEF OnWire
  <2>6. Increasing(wire'[e])
    <3>1. \A n \in Nat : OnWire(e, n) => n < p.number
      BY <1>0, <2>1, <2>3 DEF Flow, InOrder
    <3>2. ASSUME NEW i \in 1 .. Len(s), s[i].kind = "chat"
          PROVE  s[i].number < p.number
      <4>1. s[i].number \in Nat
        BY <1>0, <3>2, ChatFrame, LinkAssumption
      <4> QED
        BY <3>1, <3>2, <4>1 DEF OnWire, Carries
    <3> QED
      BY <1>0, <1>1, <1>2, <1>6, <3>2, AppendIncreasing
  <2>7. Flow(e)'
    BY <1>0, <1>3, <2>1, <2>2, <2>3, <2>4, <2>5, <2>6, WriteFlow
  <2> QED
    BY <1>0, <1>2, <1>3, <2>7, OtherDirection
<1> QED
  BY <1>4, <1>5, <1>6

LEMMA CommandsFlow ==
    ASSUME Typed, Num, Connected' => Connected, NEW e \in Ends,
           Authorize(e) \/ Disconnect(e)
    PROVE  Num'
<1>0. /\ Flow(e) /\ Other(e) \in Ends /\ Other(e) # e
      /\ mailbox \in [Ends -> Seq(Commands)]
      /\ mailbox[e] \in Seq(Commands) /\ Increasing(mailbox[e])
      /\ UNCHANGED <<wire, pending, submitted, delivered>>
  BY OtherEnd DEF Num, Flow, InOrder, Typed, TaskType, Authorize, Disconnect, Put
<1>1. PICK m \in {Authorized, CloseCommand} : Put(e, m)
  BY DEF Authorize, Disconnect
<1>2. m \in Commands /\ m.kind # "chat"
  BY DEF Commands, Authorized, CloseCommand
<1>3. /\ mailbox'[e] = Append(mailbox[e], m)
      /\ mailbox'[Other(e)] = mailbox[Other(e)]
  BY <1>0, <1>1 DEF Put
<1>4. /\ Increasing(mailbox'[e])
      /\ \A n \in Nat : InMailbox(e, n)' <=> InMailbox(e, n)
  BY <1>0, <1>2, <1>3, AppendIncreasing, AppendCarries DEF InMailbox
<1>5. /\ Kept(e) /\ Kept(Other(e))
      /\ Increasing(wire'[e])
      /\ \A n \in Nat : OnWire(e, n)' <=> OnWire(e, n)
      /\ \A n \in Nat : BeingWritten(e, n)' <=> BeingWritten(e, n)
  BY <1>0 DEF Kept, Flow, InOrder, OnWire, BeingWritten
<1>6. Flow(e)'
  BY <1>0, <1>4, <1>5, SameFlow
<1> QED
  BY <1>0, <1>3, <1>5, <1>6, OtherDirection

LEMMA SubmitEndFlow ==
    ASSUME Typed, Num, Connected' => Connected, NEW e \in Ends, NEW size \in Sizes,
           Submit(e, size)
    PROVE  Num'
<1> DEFINE s == mailbox[e]
           k == Len(submitted[e])
           m == Chat(k + 1)
<1>0. /\ Flow(e) /\ Other(e) \in Ends /\ Other(e) # e
      /\ mailbox \in [Ends -> Seq(Commands)]
      /\ submitted \in [Ends -> Seq(Sizes)] /\ submitted[e] \in Seq(Sizes)
      /\ s \in Seq(Commands) /\ Increasing(s)
      /\ UNCHANGED <<wire, pending, delivered>>
      /\ k < MaxSubmitted
  BY OtherEnd DEF Num, Flow, InOrder, Typed, TaskType, HistoryType, Submit, Put
<1>1. k \in Nat /\ Other(e) \in Ends /\ Last(Other(e)) \in Nat
  BY LastType, OtherEnd
<1>2. m \in Commands /\ m.kind = "chat" /\ m.number = k + 1
  <2>1. k + 1 \in 1 .. MaxSubmitted
    <3> HIDE DEF k
    <3> QED
      BY <1>0, <1>1, LinkAssumption
  <2> HIDE DEF k
  <2> QED
    BY <2>1 DEF Commands, Chats, Chat
<1>3. /\ mailbox'[e] = Append(s, m) /\ mailbox'[Other(e)] = mailbox[Other(e)]
      /\ submitted'[e] = Append(submitted[e], size)
      /\ submitted'[Other(e)] = submitted[Other(e)]
  BY <1>0 DEF Submit, Put
<1>4. /\ Len(submitted'[e]) = k + 1
      /\ \A n \in 1 .. k : submitted'[e][n] = submitted[e][n]
  BY <1>0, <1>3, AppendType
<1>5. \A n \in Nat : 0 < n /\ n <= k => submitted'[e][n] = submitted[e][n]
  <2> HIDE DEF k
  <2>1. \A n \in Nat : 0 < n /\ n <= k => n \in 1 .. k
    BY <1>1
  <2> QED
    BY <1>4, <2>1
<1>6. \A n \in Nat : InMailbox(e, n)' <=> (InMailbox(e, n) \/ n = k + 1)
  <2> HIDE DEF k, m
  <2> QED
    BY <1>0, <1>2, <1>3, AppendCarries DEF InMailbox
<1>7. Increasing(mailbox'[e])
  <2>1. ASSUME NEW i \in 1 .. Len(s), s[i].kind = "chat"
        PROVE  s[i].number < k + 1
    <3>1. s[i].number \in Nat
      BY <1>0, <2>1, CommandNumber
    <3>2. InMailbox(e, s[i].number)
      BY <2>1 DEF InMailbox, Carries
    <3>3. s[i].number <= k
      BY <1>0, <3>1, <3>2 DEF Flow, Current
    <3> HIDE DEF k
    <3> QED
      BY <1>1, <3>1, <3>3
  <2> HIDE DEF k, m
  <2> QED
    BY <1>0, <1>2, <1>3, <2>1, AppendIncreasing
<1>8. Flow(e)'
  BY <1>0, <1>4, <1>5, <1>6, <1>7, SubmitFlow
<1>9. Kept(Other(e))
  BY <1>0, <1>3 DEF Kept
<1> QED
  BY <1>0, <1>3, <1>8, <1>9, OtherDirection

LEMMA NumInit == Init => Num
<1> SUFFICES ASSUME Init, NEW e \in Ends PROVE Flow(e)
  BY DEF Num
<1>1. /\ wire[e] = << >> /\ mailbox[e] = << >> /\ pending[e] = Key
      /\ submitted[e] = << >> /\ delivered[Other(e)] = << >>
  BY OtherEnd DEF Init
<1>2. /\ Increasing(wire[e]) /\ Increasing(mailbox[e])
      /\ \A n \in Nat : ~OnWire(e, n) /\ ~BeingWritten(e, n) /\ ~InMailbox(e, n)
      /\ Last(Other(e)) = 0 /\ Len(submitted[e]) = 0
  BY <1>1, NothingCarried DEF OnWire, BeingWritten, InMailbox, Key, Last
<1>3. \A m \in Nat : ~(0 < m /\ m <= 0)
  OBVIOUS
<1>4. Current(e) /\ InOrder(e) /\ NoGap(e)
  BY <1>2 DEF Current, InOrder, NoGap
<1>5. NoneLost(e)
  BY <1>2, <1>3 DEF NoneLost
<1> QED
  BY <1>4, <1>5 DEF Flow

LEMMA NumStep ==
    ASSUME Typed, Num, [Next]_vars
    PROVE  Num'
<1>0. Connected' => Connected
  BY ConnectedFalls
<1>1. CASE Cut
  BY <1>1, CutFlow
<1>2. ASSUME NEW e \in Ends, Step(e) \/ Environment(e) PROVE Num'
  <2>1. CASE \/ e = "client" /\ ReadTooEarly
             \/ ReadAuth(e) /\ ~Verified(Head(wire[Other(e)]))
             \/ HandshakeBreaks(e) \/ Timeout(e) \/ ReadOutOfTurn(e)
             \/ ReadEnd(e) \/ TakeClose(e) \/ ReadPartOfKey(e) \/ EngineLeaves(e)
    <3>1. Finish(e) /\ UNCHANGED <<submitted, delivered>>
      BY <2>1 DEF ReadTooEarly, ReadAuth, HandshakeBreaks, Timeout, ReadOutOfTurn,
         ReadEnd, TakeClose, ReadPartOfKey, EngineLeaves, history
    <3> QED
      BY <3>1, FinishFlow
  <2>2. CASE \/ e = "client" /\ (SendKey \/ ReadAuthorized \/ ReadNoAuthorization)
             \/ ReadKey(e) \/ SendAuth(e) \/ Announce(e)
             \/ ReadAuth(e) /\ Verified(Head(wire[Other(e)]))
    BY <1>0, <2>2, HandshakeFlow
  <2>3. CASE ReadChat(e)
    BY <1>0, <2>3, ChatReadFlow
  <2>4. CASE BeginWrite(e)
    BY <1>0, <2>4, BeginWriteFlow
  <2>5. CASE WriteSucceeds(e)
    BY <1>0, <2>5, WriteSucceedsFlow
  <2>6. CASE WriteFails(e)
    <3>1. EndWrite(e) /\ UNCHANGED wire /\ (TooLong(e) \/ Unread(e))
      BY <2>6 DEF WriteFails
    <3>2. Unread(e) => ~Connected
      BY OtherEnd DEF Unread, Connected
    <3> QED
      BY <1>0, <3>1, <3>2, WrittenInVain
  <2>7. CASE \E size \in Sizes : Submit(e, size)
    BY <1>0, <2>7, SubmitEndFlow
  <2>8. CASE Authorize(e) \/ Disconnect(e)
    BY <1>0, <2>8, CommandsFlow
  <2> QED
    BY <1>2, <2>1, <2>2, <2>3, <2>4, <2>5, <2>6, <2>7, <2>8 DEF Step, Environment
<1>3. CASE UNCHANGED vars
  <2>1. ASSUME NEW e \in Ends PROVE Flow(e)'
    <3>1. Flow(e) /\ Kept(e) /\ UNCHANGED <<wire, pending, mailbox>>
      BY <1>3 DEF Num, Kept, vars, history
    <3> QED
      BY <1>0, <3>1, QuietFlow
  <2> QED
    BY <2>1 DEF Num
<1> QED
  BY <1>1, <1>2, <1>3 DEF Next

-----------------------------------------------------------------------------
(* Link implements Session. *)

\* The part of its life in which an end is in a phase.
Stage(p) ==
    IF p = "closed" THEN "closed" ELSE IF p \in Live THEN "open" ELSE "new"

LEMMA StateOfEnds ==
    /\ \A e \in Ends : state[e] = Stage(phase[e])
    /\ state = [e \in Ends |-> Stage(phase[e])]
    /\ state' = [e \in Ends |-> Stage(phase'[e])]
  BY DEF state, Stage

LEMMA GotoState ==
    ASSUME Typed, NEW e \in Ends, NEW p, Goto(e, p)
    PROVE  state' = [state EXCEPT ![e] = Stage(p)]
<1>0. phase \in [Ends -> Phases]
  BY DEF Typed, TaskType
<1>1. phase'[e] = p /\ \A f \in Ends \ {e} : phase'[f] = phase[f]
  BY <1>0 DEF Goto
<1>2. [f \in Ends |-> Stage(phase'[f])]
        = [[f \in Ends |-> Stage(phase[f])] EXCEPT ![e] = Stage(p)]
  BY <1>1
<1> QED
  BY <1>2, StateOfEnds

LEMMA StaysInStage ==
    ASSUME Typed, NEW e \in Ends, NEW p, Goto(e, p), Stage(p) = Stage(phase[e])
    PROVE  state' = state
<1>0. phase \in [Ends -> Phases]
  BY DEF Typed, TaskType
<1>1. phase'[e] = p /\ \A f \in Ends \ {e} : phase'[f] = phase[f]
  BY <1>0 DEF Goto
<1>2. [f \in Ends |-> Stage(phase'[f])] = [f \in Ends |-> Stage(phase[f])]
  BY <1>1
<1> QED
  BY <1>2, StateOfEnds

LEMMA SessionNames ==
    /\ session!Ends = Ends
    /\ session!Sizes = Sizes
    /\ \A e \in Ends : session!Other(e) = Other(e)
    /\ \A e \in Ends : session!LastDelivered(e) = Last(e)
  BY DEF session!Ends, Ends, session!Sizes, Sizes, session!Other, Other,
     session!LastDelivered, Last

LEMMA InitRefines == Init => session!Init
<1> SUFFICES ASSUME Init PROVE session!Init
  OBVIOUS
<1>1. \A e \in Ends : Stage(phase[e]) = "new"
  BY DEF Init, Stage, Live, Ends
<1>2. state = [e \in Ends |-> "new"]
  BY <1>1, StateOfEnds
<1> QED
  BY <1>2, SessionNames DEF Init, session!Init

\* An end that finishes is closed; no task that has finished takes a step.
LEMMA FinishRefines ==
    ASSUME Typed, NEW e \in Ends, Finish(e), phase[e] # "closed",
           UNCHANGED <<submitted, delivered>>
    PROVE  session!Next
<1>1. state' = [state EXCEPT ![e] = "closed"]
  BY GotoState DEF Finish, Stage
<1>2. state[e] # "closed"
  BY StateOfEnds DEF Stage
<1>3. session!Close(e)
  BY <1>1, <1>2 DEF session!Close
<1> QED
  BY <1>3, SessionNames DEF session!Next

LEMMA AnnounceRefines ==
    ASSUME Typed, NEW e \in Ends, Announce(e)
    PROVE  session!Next
<1>1. state' = [state EXCEPT ![e] = "open"]
  BY GotoState DEF Announce, Stage, Live
<1>2. state[e] = "new"
  BY StateOfEnds DEF Announce, Stage, Live
<1>3. session!Open(e)
  BY <1>1, <1>2 DEF session!Open, Announce, history
<1> QED
  BY <1>3, SessionNames DEF session!Next

LEMMA SubmitRefines ==
    ASSUME Typed, NEW e \in Ends, NEW size \in Sizes, Submit(e, size)
    PROVE  session!Next
<1>1. UNCHANGED <<phase, delivered>> /\ phase[e] \in Live
  BY DEF Submit, Put
<1>2. state' = state /\ state[e] = "open"
  BY <1>1, StateOfEnds DEF Stage, Live
<1>3. session!Submit(e, size)
  BY <1>1, <1>2 DEF session!Submit, Submit
<1> QED
  BY <1>3, SessionNames DEF session!Next

LEMMA ReadChatRefines ==
    ASSUME Typed, Num, NEW e \in Ends, ReadChat(e)
    PROVE  session!Next
<1> DEFINE o == Other(e)
           h == Head(wire[o]).number
<1>0. o \in Ends /\ Flow(o) /\ Other(o) = e /\ Last(e) \in Nat
  BY OtherEnd, LastType DEF Num
<1>1. /\ h \in Nat /\ h \in 1 .. MaxSubmitted
      /\ OnWire(o, h)
      /\ \A n \in Nat : OnWire(o, n) => h <= n
  BY ChatRead
<1>2. /\ UNCHANGED <<phase, submitted>>
      /\ phase[e] = "running"
      /\ delivered' = [delivered EXCEPT ![e] = Append(@, h)]
  BY DEF ReadChat
<1>3. state' = state /\ state[e] = "open"
  BY <1>2, StateOfEnds DEF Stage, Live
<1> HIDE DEF h
<1>4. /\ Last(e) < h
      /\ h <= Len(submitted[o])
      /\ submitted[o][h] = "fits"
      /\ \A m \in Nat : Last(e) < m /\ m < h => submitted[o][m] # "fits"
  BY <1>0, <1>1, NextMessage DEF Fits
<1>5. /\ submitted[o] \in Seq(Sizes) /\ Len(submitted[o]) \in Nat
      /\ DOMAIN submitted[o] = 1 .. Len(submitted[o])
  BY <1>0 DEF Typed, HistoryType
<1> HIDE DEF o
<1>6. h \in 1 .. Len(submitted[o])
  BY <1>0, <1>1, <1>4, <1>5
<1>7. ASSUME NEW m \in Last(e) + 1 .. h - 1
      PROVE  submitted[o][m] = "too long"
  <2>1. m \in Nat /\ Last(e) < m /\ m < h /\ m \in 1 .. Len(submitted[o])
    BY <1>0, <1>1, <1>4, <1>5
  <2>2. submitted[o][m] \in Sizes
    BY <1>5, <2>1
  <2> QED
    BY <1>4, <2>1, <2>2 DEF Sizes
<1>8. session!Other(e) = o /\ session!LastDelivered(e) = Last(e)
  BY SessionNames DEF o
<1>9. session!Deliver(e, h)
  BY <1>2, <1>3, <1>4, <1>5, <1>6, <1>7, <1>8 DEF session!Deliver
<1> QED
  BY <1>5, <1>6, <1>8, <1>9, SessionNames DEF session!Next

LEMMA StepRefines ==
    ASSUME Typed, Num, [Next]_vars
    PROVE  [session!Next]_(session!vars)
<1>1. ASSUME UNCHANGED <<phase, submitted, delivered>>
      PROVE  UNCHANGED session!vars
  BY <1>1, StateOfEnds DEF session!vars
<1>2. ASSUME NEW e \in Ends, NEW p, Goto(e, p), Stage(p) = Stage(phase[e]),
             UNCHANGED <<submitted, delivered>>
      PROVE  UNCHANGED session!vars
  BY <1>2, StaysInStage DEF session!vars
<1>3. CASE Cut \/ UNCHANGED vars
  BY <1>1, <1>3 DEF Cut, vars, history
<1>4. ASSUME NEW e \in Ends, Step(e) \/ Environment(e)
      PROVE  session!Next \/ UNCHANGED session!vars
  <2>1. CASE \/ e = "client" /\ ReadTooEarly
             \/ ReadAuth(e) /\ ~Verified(Head(wire[Other(e)]))
             \/ HandshakeBreaks(e) \/ Timeout(e) \/ ReadOutOfTurn(e)
             \/ ReadEnd(e) \/ TakeClose(e) \/ ReadPartOfKey(e) \/ EngineLeaves(e)
    <3>1. Finish(e) /\ UNCHANGED <<submitted, delivered>> /\ phase[e] # "closed"
      BY <2>1 DEF ReadTooEarly, ReadAuth, HandshakeBreaks, Timeout, Timed,
         ReadOutOfTurn, ReadEnd, TakeClose, Take, ReadPartOfKey, EngineLeaves,
         history
    <3> QED
      BY <3>1, FinishRefines
  <2>2. CASE e = "client" /\ SendKey
    <3>1. Goto(e, "wantKey") /\ phase[e] = "dialed" /\ UNCHANGED history
      BY <2>2 DEF SendKey
    <3> QED
      BY <1>2, <3>1 DEF Stage, Live, history
  <2>3. CASE e = "client" /\ (ReadAuthorized \/ ReadNoAuthorization)
    <3>1. Goto(e, "announcing") /\ phase[e] = "wantAuthorized" /\ UNCHANGED history
      BY <2>3 DEF ReadAuthorized, ReadNoAuthorization
    <3> QED
      BY <1>2, <3>1 DEF Stage, Live, history
  <2>4. CASE ReadKey(e)
    <3>1. /\ Goto(e, IF e = "client" THEN "signing" ELSE "wantAuth")
          /\ phase[e] = "wantKey" /\ UNCHANGED history
      BY <2>4 DEF ReadKey
    <3> QED
      BY <1>2, <3>1 DEF Stage, Live, history
  <2>5. CASE SendAuth(e)
    <3>1. /\ Goto(e, IF e = "client" THEN "wantAuth" ELSE "announcing")
          /\ phase[e] = "signing" /\ UNCHANGED history
      BY <2>5 DEF SendAuth
    <3> QED
      BY <1>2, <3>1 DEF Stage, Live, history
  <2>6. CASE ReadAuth(e) /\ Verified(Head(wire[Other(e)]))
    <3>1. /\ Goto(e, IF e = "client" THEN "wantAuthorized" ELSE "signing")
          /\ phase[e] = "wantAuth" /\ UNCHANGED history
      BY <2>6 DEF ReadAuth
    <3> QED
      BY <1>2, <3>1 DEF Stage, Live, history
  <2>7. CASE Announce(e)
    BY <2>7, AnnounceRefines
  <2>8. CASE ReadChat(e)
    BY <2>8, ReadChatRefines
  <2>9. CASE BeginWrite(e)
    <3>1. Goto(e, "writing") /\ phase[e] = "running" /\ UNCHANGED history
      BY <2>9 DEF BeginWrite, Take
    <3> QED
      BY <1>2, <3>1 DEF Stage, Live, history
  <2>10. CASE WriteSucceeds(e) \/ WriteFails(e)
    <3>1. Goto(e, "running") /\ phase[e] = "writing" /\ UNCHANGED history
      BY <2>10 DEF WriteSucceeds, WriteFails, EndWrite
    <3> QED
      BY <1>2, <3>1 DEF Stage, Live, history
  <2>11. CASE \E size \in Sizes : Submit(e, size)
    BY <2>11, SubmitRefines
  <2>12. CASE Authorize(e) \/ Disconnect(e)
    BY <1>1, <2>12 DEF Authorize, Disconnect, Put
  <2> QED
    BY <1>4, <2>1, <2>2, <2>3, <2>4, <2>5, <2>6, <2>7, <2>8, <2>9, <2>10, <2>11,
       <2>12 DEF Step, Environment
<1> QED
  BY <1>3, <1>4 DEF Next

\* What the two tasks and the stream do is what Session promises: each end opens
\* and closes at most once, and the messages submitted at one end reach the
\* application of the other in order, none twice and none left out but those too
\* long to be sent.
THEOREM LinkImplementsSession == Spec => SessionSpec
<1>1. Init => Typed /\ Num
  BY TypedInit, NumInit
<1>2. (Typed /\ Num) /\ [Next]_vars => (Typed /\ Num)'
  BY TypedStep, NumStep
<1>3. (Typed /\ Num) /\ [Next]_vars => [session!Next]_(session!vars)
  BY StepRefines
<1> QED
  BY <1>1, <1>2, <1>3, InitRefines, PTL DEF Spec, SessionSpec, session!Spec

-----------------------------------------------------------------------------
(* Authorizations and kinds of frames in a sequence of frames or commands.  *)

OnlyOf(s, K) == \A i \in 1 .. Len(s) : s[i].kind \in K

Grants(s) == \E i \in 1 .. Len(s) : s[i].kind = "authorized"

GrantsOnce(s) ==
    \A i, j \in 1 .. Len(s) :
        s[i].kind = "authorized" /\ s[j].kind = "authorized" => i = j

\* Every message has an authorization in front of it.
Led(s) ==
    \A i \in 1 .. Len(s) :
        s[i].kind = "chat" => \E j \in 1 .. i - 1 : s[j].kind = "authorized"

\* The authentication comes first, and nothing else of the handshake.
AuthFirst(s) ==
    \A i \in 1 .. Len(s) :
        /\ s[i].kind = "auth" <=> i = 1
        /\ s[i].kind # "key"

LEMMA FrameKinds ==
    /\ \A f \in Frames : f.kind \in {"key", "auth", "authorized", "chat"}
    /\ \A f \in {Key, Authorized} \cup Chats : f.kind \in {"key", "authorized", "chat"}
    /\ \A m \in Commands : m.kind \in {"authorized", "chat", "close"}
    /\ Key.kind = "key" /\ Authorized.kind = "authorized"
    /\ CloseCommand.kind = "close"
    /\ \A g \in BOOLEAN : Auth(g).kind = "auth"
    /\ \A n : Chat(n).kind = "chat"
<1>1. /\ Key.kind = "key" /\ Authorized.kind = "authorized"
      /\ CloseCommand.kind = "close"
      /\ \A g \in BOOLEAN : Auth(g).kind = "auth"
      /\ \A n : Chat(n).kind = "chat"
  BY DEF Key, Authorized, CloseCommand, Auth, Chat
<1> QED
  BY <1>1 DEF Frames, Commands, Chats

LEMMA EmptyKinds ==
    ASSUME NEW s, Len(s) = 0
    PROVE  /\ \A K : OnlyOf(s, K)
           /\ ~Grants(s) /\ GrantsOnce(s) /\ Led(s) /\ AuthFirst(s)
  BY DEF OnlyOf, Grants, GrantsOnce, Led, AuthFirst

LEMMA AppendKinds ==
    ASSUME NEW S, NEW s \in Seq(S), NEW x \in S
    PROVE  /\ \A K : OnlyOf(s, K) /\ x.kind \in K => OnlyOf(Append(s, x), K)
           /\ Grants(Append(s, x)) <=> (Grants(s) \/ x.kind = "authorized")
           /\ GrantsOnce(s) /\ (x.kind = "authorized" => ~Grants(s))
                => GrantsOnce(Append(s, x))
           /\ Led(s) /\ (x.kind = "chat" => Grants(s)) => Led(Append(s, x))
           /\ AuthFirst(s) /\ (x.kind = "auth" <=> Len(s) = 0) /\ x.kind # "key"
                => AuthFirst(Append(s, x))
<1> DEFINE k == Len(s)
           t == Append(s, x)
<1>1. /\ k \in Nat /\ Len(t) = k + 1
      /\ \A i \in 1 .. k : t[i] = s[i]
      /\ t[k + 1] = x
  BY AppendType
<1> HIDE DEF k, t
<1>2. /\ \A i \in 1 .. k : i \in 1 .. k + 1 /\ i # k + 1
      /\ \A i \in 1 .. k + 1 : i \in 1 .. k \/ i = k + 1
      /\ k + 1 \in 1 .. k + 1
      /\ (k + 1) - 1 = k
      /\ \A i \in 1 .. k : \A j \in 1 .. i - 1 : j \in 1 .. k
  BY <1>1
<1>3. /\ \A K : OnlyOf(s, K) <=> \A i \in 1 .. k : s[i].kind \in K
      /\ \A K : OnlyOf(t, K) <=> \A i \in 1 .. k + 1 : t[i].kind \in K
      /\ Grants(s) <=> \E i \in 1 .. k : s[i].kind = "authorized"
      /\ Grants(t) <=> \E i \in 1 .. k + 1 : t[i].kind = "authorized"
  BY <1>1 DEF OnlyOf, Grants, k
<1>4. \A K : OnlyOf(s, K) /\ x.kind \in K => OnlyOf(t, K)
  BY <1>1, <1>2, <1>3
<1>5. Grants(t) <=> (Grants(s) \/ x.kind = "authorized")
  BY <1>1, <1>2, <1>3
<1>6. ASSUME GrantsOnce(s), x.kind = "authorized" => ~Grants(s)
      PROVE  GrantsOnce(t)
  <2>1. \A i, j \in 1 .. k : s[i].kind = "authorized" /\ s[j].kind = "authorized"
                                => i = j
    BY <1>6 DEF GrantsOnce, k
  <2>2. ASSUME NEW i \in 1 .. k + 1, NEW j \in 1 .. k + 1,
               t[i].kind = "authorized", t[j].kind = "authorized"
        PROVE  i = j
    BY <1>1, <1>2, <1>3, <1>6, <2>1, <2>2
  <2> QED
    BY <1>1, <2>2 DEF GrantsOnce
<1>7. ASSUME Led(s), x.kind = "chat" => Grants(s)
      PROVE  Led(t)
  <2>1. ASSUME NEW i \in 1 .. k + 1, t[i].kind = "chat"
        PROVE  \E j \in 1 .. i - 1 : t[j].kind = "authorized"
    <3>1. CASE i \in 1 .. k
      <4>1. PICK j \in 1 .. i - 1 : s[j].kind = "authorized"
        BY <1>1, <1>7, <2>1, <3>1 DEF Led, k
      <4> QED
        BY <1>1, <1>2, <3>1, <4>1
    <3>2. CASE i = k + 1
      <4>1. PICK j \in 1 .. k : s[j].kind = "authorized"
        BY <1>1, <1>3, <1>7, <2>1, <3>2
      <4> QED
        BY <1>1, <1>2, <3>2, <4>1
    <3> QED
      BY <1>2, <3>1, <3>2
  <2> QED
    BY <1>1, <2>1 DEF Led
<1>8. ASSUME AuthFirst(s), x.kind = "auth" <=> k = 0, x.kind # "key"
      PROVE  AuthFirst(t)
  <2>1. ASSUME NEW i \in 1 .. k + 1
        PROVE  (t[i].kind = "auth" <=> i = 1) /\ t[i].kind # "key"
    <3>1. CASE i \in 1 .. k
      BY <1>1, <1>8, <3>1 DEF AuthFirst, k
    <3>2. CASE i = k + 1
      BY <1>1, <1>8, <3>2
    <3> QED
      BY <1>2, <3>1, <3>2
  <2> QED
    BY <1>1, <2>1 DEF AuthFirst
<1> QED
  BY <1>4, <1>5, <1>6, <1>7, <1>8 DEF t, k

LEMMA TailKinds ==
    ASSUME NEW S, NEW s \in Seq(S), s # << >>
    PROVE  /\ \A K : OnlyOf(s, K) => OnlyOf(Tail(s), K) /\ Head(s).kind \in K
           /\ Grants(s) <=> (Grants(Tail(s)) \/ Head(s).kind = "authorized")
           /\ GrantsOnce(s) => GrantsOnce(Tail(s))
           /\ GrantsOnce(s) /\ Head(s).kind = "authorized" => ~Grants(Tail(s))
           /\ Led(s) => Head(s).kind # "chat"
           /\ Led(s) /\ Head(s).kind # "authorized" => Led(Tail(s))
           /\ AuthFirst(s) => \A i \in 1 .. Len(Tail(s)) :
                                Tail(s)[i].kind # "auth" /\ Tail(s)[i].kind # "key"
           /\ Len(s) <= 1 => Len(Tail(s)) = 0
<1> DEFINE k == Len(s)
           t == Tail(s)
           h == Head(s)
<1>1. /\ k \in Nat \ {0} /\ Len(t) = k - 1 /\ h = s[1]
      /\ \A i \in 1 .. k - 1 : t[i] = s[i + 1]
  BY TailType
<1> HIDE DEF k, t, h
<1>2. /\ 1 \in 1 .. k
      /\ \A i \in 1 .. k - 1 : i + 1 \in 1 .. k /\ i + 1 # 1
      /\ \A i \in 1 .. k : i = 1 \/ (i - 1 \in 1 .. k - 1 /\ (i - 1) + 1 = i)
      /\ \A i, j \in 1 .. k - 1 : i + 1 = j + 1 => i = j
      /\ k <= 1 => k - 1 = 0
  BY <1>1
<1>3. /\ \A K : OnlyOf(s, K) <=> \A i \in 1 .. k : s[i].kind \in K
      /\ \A K : OnlyOf(t, K) <=> \A i \in 1 .. k - 1 : t[i].kind \in K
      /\ Grants(s) <=> \E i \in 1 .. k : s[i].kind = "authorized"
      /\ Grants(t) <=> \E i \in 1 .. k - 1 : t[i].kind = "authorized"
  BY <1>1 DEF OnlyOf, Grants, k
<1>4. \A K : OnlyOf(s, K) => OnlyOf(t, K) /\ h.kind \in K
  BY <1>1, <1>2, <1>3
<1>5. Grants(s) <=> (Grants(t) \/ h.kind = "authorized")
  <2>1. ASSUME Grants(s) PROVE Grants(t) \/ h.kind = "authorized"
    <3>1. PICK i \in 1 .. k : s[i].kind = "authorized"
      BY <1>3, <2>1
    <3>2. CASE i = 1
      BY <1>1, <3>1, <3>2
    <3>3. CASE i - 1 \in 1 .. k - 1 /\ (i - 1) + 1 = i
      <4>1. t[i - 1] = s[i]
        BY <1>1, <3>3
      <4> QED
        BY <1>3, <3>1, <3>3, <4>1
    <3> QED
      BY <1>2, <3>2, <3>3
  <2>2. ASSUME Grants(t) PROVE Grants(s)
    <3>1. PICK i \in 1 .. k - 1 : t[i].kind = "authorized"
      BY <1>3, <2>2
    <3>2. i + 1 \in 1 .. k /\ s[i + 1].kind = "authorized"
      BY <1>1, <1>2, <3>1
    <3> QED
      BY <1>3, <3>2
  <2>3. ASSUME h.kind = "authorized" PROVE Grants(s)
    BY <1>1, <1>2, <1>3, <2>3
  <2> QED
    BY <2>1, <2>2, <2>3
<1>6. ASSUME GrantsOnce(s)
      PROVE  GrantsOnce(t) /\ (h.kind = "authorized" => ~Grants(t))
  <2>1. \A i, j \in 1 .. k : s[i].kind = "authorized" /\ s[j].kind = "authorized"
                                => i = j
    BY <1>6 DEF GrantsOnce, k
  <2>2. ASSUME NEW i \in 1 .. k - 1, NEW j \in 1 .. k - 1,
               t[i].kind = "authorized", t[j].kind = "authorized"
        PROVE  i = j
    <3>1. /\ i + 1 \in 1 .. k /\ j + 1 \in 1 .. k
          /\ t[i] = s[i + 1] /\ t[j] = s[j + 1]
      BY <1>1, <1>2
    <3>2. i + 1 = j + 1
      BY <2>1, <2>2, <3>1
    <3> QED
      BY <1>2, <3>2
  <2>3. ASSUME h.kind = "authorized", Grants(t) PROVE FALSE
    <3>1. PICK i \in 1 .. k - 1 : t[i].kind = "authorized"
      BY <1>3, <2>3
    <3>2. s[i + 1].kind = "authorized" /\ i + 1 \in 1 .. k /\ i + 1 # 1
      BY <1>1, <1>2, <3>1
    <3> QED
      BY <1>1, <1>2, <2>1, <2>3, <3>2
  <2> QED
    BY <1>1, <2>2, <2>3 DEF GrantsOnce
<1>7. ASSUME Led(s), h.kind = "chat" PROVE FALSE
  <2>1. \E j \in 1 .. 1 - 1 : s[j].kind = "authorized"
    BY <1>1, <1>2, <1>7 DEF Led, k
  <2> QED
    BY <2>1
<1>8. ASSUME Led(s), h.kind # "authorized"
      PROVE  Led(t)
  <2>1. ASSUME NEW i \in 1 .. k - 1, t[i].kind = "chat"
        PROVE  \E j \in 1 .. i - 1 : t[j].kind = "authorized"
    <3>1. i + 1 \in 1 .. k /\ s[i + 1].kind = "chat" /\ (i + 1) - 1 = i
      BY <1>1, <1>2, <2>1
    <3>2. PICK j \in 1 .. i : s[j].kind = "authorized"
      <4>1. \E j \in 1 .. (i + 1) - 1 : s[j].kind = "authorized"
        BY <1>8, <3>1 DEF Led, k
      <4> QED
        BY <3>1, <4>1
    <3>3. j # 1
      BY <1>1, <1>8, <3>2
    <3>4. j - 1 \in 1 .. i - 1 /\ j - 1 \in 1 .. k - 1 /\ (j - 1) + 1 = j
      BY <1>1, <3>3
    <3>5. t[j - 1] = s[j]
      BY <1>1, <3>4
    <3> QED
      BY <3>2, <3>4, <3>5
  <2> QED
    BY <1>1, <2>1 DEF Led
<1>9. ASSUME AuthFirst(s), NEW i \in 1 .. k - 1
      PROVE  t[i].kind # "auth" /\ t[i].kind # "key"
  <2>1. /\ s[i + 1].kind = "auth" <=> i + 1 = 1
        /\ s[i + 1].kind # "key"
    BY <1>1, <1>2, <1>9 DEF AuthFirst, k
  <2> QED
    BY <1>1, <1>2, <2>1
<1>10. k <= 1 => Len(t) = 0
  BY <1>1, <1>2
<1> QED
  BY <1>1, <1>4, <1>5, <1>6, <1>7, <1>8, <1>9, <1>10 DEF t, h, k

LEMMA PrefixKinds ==
    ASSUME NEW s, NEW t, Len(s) \in Nat, Len(t) \in Nat, Len(t) <= Len(s),
           \A i \in 1 .. Len(t) : t[i] = s[i]
    PROVE  /\ \A K : OnlyOf(s, K) => OnlyOf(t, K)
           /\ Grants(t) => Grants(s)
           /\ GrantsOnce(s) => GrantsOnce(t)
           /\ Led(s) => Led(t)
           /\ AuthFirst(s) => AuthFirst(t)
<1> DEFINE k == Len(s)
           l == Len(t)
<1>1. /\ \A i \in 1 .. l : i \in 1 .. k /\ t[i] = s[i]
      /\ \A i \in 1 .. l : \A j \in 1 .. i - 1 : j \in 1 .. l
  BY DEF k, l
<1>2. /\ \A K : OnlyOf(s, K) => OnlyOf(t, K)
      /\ Grants(t) => Grants(s)
      /\ GrantsOnce(s) => GrantsOnce(t)
      /\ AuthFirst(s) => AuthFirst(t)
  BY <1>1 DEF OnlyOf, Grants, GrantsOnce, AuthFirst
<1>3. ASSUME Led(s), NEW i \in 1 .. l, t[i].kind = "chat"
      PROVE  \E j \in 1 .. i - 1 : t[j].kind = "authorized"
  <2>1. PICK j \in 1 .. i - 1 : s[j].kind = "authorized"
    BY <1>1, <1>3 DEF Led
  <2> QED
    BY <1>1, <2>1
<1> QED
  BY <1>2, <1>3 DEF Led

-----------------------------------------------------------------------------
(* What an end may find on the wire. *)

Talk == {"chat", "authorized"}

Expected(e) ==
    /\ phase[e] = "wantKey" => OnlyOf(wire[Other(e)], {"key"})
    /\ phase[e] = "wantAuth" =>
            /\ AuthFirst(wire[Other(e)])
            /\ e = "server" => Len(wire[Other(e)]) <= 1
    /\ phase[e] = "signing" => Len(wire[Other(e)]) = 0
    /\ phase[e] \in Later => OnlyOf(wire[Other(e)], Talk)

\* The server's authentication is on the wire before anything behind it.
AuthSent ==
    phase["client"] = "wantAuth" /\ phase["server"] \in Later /\ ~cut
        => Len(wire["server"]) # 0

Expecting == (\A e \in Ends : Expected(e)) /\ AuthSent

LEMMA LaterPhases ==
    /\ \A p \in Later : p \notin {"dialed", "wantKey", "wantAuth", "signing", "closed"}
    /\ {"wantAuthorized", "announcing", "running", "writing"} = Later
  BY DEF Later, Live

LEMMA ExpectingInit == Init => Expecting
<1> SUFFICES ASSUME Init PROVE Expecting
  OBVIOUS
<1>1. \A e \in Ends : Len(wire[e]) = 0
  BY NoFrames DEF Init
<1>2. phase["client"] = "dialed" /\ phase["server"] = "wantKey"
  BY DEF Init
<1> QED
  BY <1>1, <1>2, TwoEnds, EmptyKinds, LaterPhases DEF Expecting, Expected, AuthSent

LEMMA FinishExpecting ==
    ASSUME Typed, Expecting, NEW e \in Ends, Finish(e)
    PROVE  Expecting'
<1>1. /\ phase'[e] = "closed" /\ phase'[Other(e)] = phase[Other(e)]
      /\ wire'[e] = wire[e]
  BY FinishType DEF Typed
<1>2. Expected(e)' /\ AuthSent'
  BY <1>1, TwoEnds, LaterPhases DEF Expected, AuthSent
<1>3. Expected(Other(e))'
  BY <1>1, OtherEnd DEF Expecting, Expected
<1> QED
  BY <1>2, <1>3, TwoEnds DEF Expecting

LEMMA CutExpecting ==
    ASSUME Typed, Expecting, Cut
    PROVE  Expecting'
<1>0. wire \in [Ends -> Seq(Frames)]
  BY DEF Typed, TaskType
<1>1. \A e \in Ends : /\ Len(wire'[e]) \in Nat /\ Len(wire[e]) \in Nat
                      /\ Len(wire'[e]) <= Len(wire[e])
                      /\ \A i \in 1 .. Len(wire'[e]) : wire'[e][i] = wire[e][i]
  BY <1>0, CutWire
<1>2. UNCHANGED phase /\ cut'
  BY DEF Cut
<1>3. ASSUME NEW e \in Ends PROVE Expected(e)'
  <2> DEFINE s == wire[Other(e)]
             t == wire'[Other(e)]
  <2>1. /\ Len(t) \in Nat /\ Len(s) \in Nat /\ Len(t) <= Len(s)
        /\ \A i \in 1 .. Len(t) : t[i] = s[i]
    BY <1>1, OtherEnd
  <2>2. /\ \A K : OnlyOf(s, K) => OnlyOf(t, K)
        /\ AuthFirst(s) => AuthFirst(t)
    BY <2>1, PrefixKinds
  <2>3. /\ Len(s) = 0 => Len(t) = 0
        /\ Len(s) <= 1 => Len(t) <= 1
    BY <2>1
  <2> QED
    BY <1>2, <2>2, <2>3 DEF Expecting, Expected
<1>4. AuthSent'
  BY <1>2 DEF AuthSent
<1> QED
  BY <1>3, <1>4 DEF Expecting

\* Past the authentication, e goes on and reads a frame or none.
LEMMA LaterExpecting ==
    ASSUME Typed, Expecting, NEW e \in Ends,
           phase[e] \in Later, phase'[e] \in Later,
           phase'[Other(e)] = phase[Other(e)], UNCHANGED cut,
           wire'[e] = wire[e],
           \/ wire'[Other(e)] = wire[Other(e)]
           \/ wire[Other(e)] # << >> /\ wire'[Other(e)] = Tail(wire[Other(e)])
    PROVE  Expecting'
<1>0. wire[Other(e)] \in Seq(Frames)
  BY OtherEnd DEF Typed, TaskType
<1>1. OnlyOf(wire'[Other(e)], Talk)
  BY <1>0, TailKinds DEF Expecting, Expected
<1>2. Expected(e)'
  BY <1>1, LaterPhases DEF Expected
<1>3. Expected(Other(e))'
  BY OtherEnd DEF Expecting, Expected
<1>4. AuthSent'
  BY TwoEnds, LaterPhases DEF Expecting, AuthSent
<1> QED
  BY <1>2, <1>3, <1>4, TwoEnds DEF Expecting

\* The two ends and what is on the wire to them after a step that finishes none.
LEMMA KeyExpecting ==
    ASSUME Typed, Shape, Expecting, NEW e \in Ends,
           (e = "client" /\ SendKey) \/ ReadKey(e)
    PROVE  Expecting'
<1>0. /\ TaskType /\ phase \in [Ends -> Phases] /\ wire \in [Ends -> Seq(Frames)]
      /\ Key \in Frames /\ Key.kind = "key"
      /\ UNCHANGED cut
  BY KeyFrames, FrameKinds DEF Typed, TaskType, SendKey, ReadKey
<1>1. \A f \in Ends : /\ wire[f] \in Seq(Frames)
                      /\ Len(wire[f]) \in Nat
                      /\ OnlyOf(wire[f], {"key"})
                            => OnlyOf(Append(wire[f], Key), {"key"})
  BY <1>0, AppendKinds
<1>2. CASE e = "client" /\ SendKey
  <2>1. /\ phase["client"] = "dialed"
        /\ phase'["client"] = "wantKey" /\ phase'["server"] = phase["server"]
    BY <1>0, <1>2, TwoEnds DEF SendKey, Goto
  <2>2. /\ wire'["server"] = wire["server"]
        /\ wire'["client"] \in {wire["client"], Append(wire["client"], Key)}
    BY <1>0, <1>2, WriteType, TwoEnds DEF SendKey
  <2>3. /\ phase["server"] \in {"wantKey", "closed"}
        /\ Len(wire["server"]) = 0
    BY <2>1 DEF Shape, ClientShape
  <2>4. Expected("client")'
    BY <2>1, <2>2, <2>3, EmptyKinds, TwoEnds, LaterPhases DEF Expected
  <2>5. Expected("server")'
    BY <1>1, <2>1, <2>2, <2>3, TwoEnds, LaterPhases DEF Expecting, Expected
  <2>6. AuthSent'
    BY <2>1 DEF AuthSent
  <2> QED
    BY <2>4, <2>5, <2>6, TwoEnds DEF Expecting
<1>3. CASE e = "client" /\ ReadKey(e)
  <2>1. /\ phase["client"] = "wantKey"
        /\ phase'["client"] = "signing" /\ phase'["server"] = phase["server"]
    BY <1>0, <1>3, TwoEnds DEF ReadKey, Goto
  <2>2. /\ wire'["client"] = wire["client"]
        /\ wire'["server"] = Tail(wire["server"])
        /\ wire["server"] # << >>
    BY <1>0, <1>3, ReadKeyWire, TwoEnds DEF ReadKey, Readable
  <2>3. Len(wire'["server"]) = 0
    BY <1>1, <2>1, <2>2, TailKinds, TwoEnds DEF Shape, ClientShape
  <2>4. Expected("client")'
    BY <2>1, <2>3, TwoEnds, LaterPhases DEF Expected
  <2>5. Expected("server")'
    BY <2>1, <2>2, TwoEnds DEF Expecting, Expected
  <2>6. AuthSent'
    BY <2>1 DEF AuthSent
  <2> QED
    BY <2>4, <2>5, <2>6, TwoEnds DEF Expecting
<1>4. CASE e = "server" /\ ReadKey(e)
  <2>1. /\ phase["server"] = "wantKey"
        /\ phase'["server"] = "wantAuth" /\ phase'["client"] = phase["client"]
    BY <1>0, <1>4, TwoEnds DEF ReadKey, Goto
  <2>2. /\ wire'["server"] \in {wire["server"], Append(wire["server"], Key)}
        /\ wire'["client"] = Tail(wire["client"])
        /\ wire["client"] # << >>
    BY <1>0, <1>4, ReadKeyWire, TwoEnds DEF ReadKey, Readable
  <2>3. /\ phase["client"] \in {"dialed", "wantKey", "closed"}
        /\ Len(wire["client"]) <= 1
    BY <2>1 DEF Shape, ServerShape
  <2>4. Len(wire'["client"]) = 0
    BY <1>1, <2>2, <2>3, TailKinds, TwoEnds
  <2>5. Expected("client")'
    BY <1>1, <2>1, <2>2, <2>3, TwoEnds, LaterPhases DEF Expecting, Expected
  <2>6. Len(wire'["client"]) <= 1
    BY <2>4
  <2>7. Expected("server")'
    BY <2>1, <2>4, <2>6, EmptyKinds, TwoEnds, LaterPhases DEF Expected
  <2>8. AuthSent'
    BY <2>1, LaterPhases DEF AuthSent
  <2> QED
    BY <2>5, <2>7, <2>8, TwoEnds DEF Expecting
<1> QED
  BY <1>2, <1>3, <1>4, TwoEnds

LEMMA SendAuthExpecting ==
    ASSUME Typed, Shape, Expecting, NEW e \in Ends, SendAuth(e)
    PROVE  Expecting'
<1> DEFINE f == Auth(ownKey[e])
<1>0. /\ phase \in [Ends -> Phases] /\ wire \in [Ends -> Seq(Frames)]
      /\ f \in Frames /\ f.kind = "auth"
      /\ UNCHANGED cut /\ Write(e, f)
      /\ Other(e) \in Ends /\ Other(e) # e
  BY KeyFrames, FrameKinds, OtherEnd DEF Typed, TaskType, HistoryType, SendAuth
<1>1. /\ phase[e] = "signing" /\ Len(wire[Other(e)]) = 0
      /\ phase'[e] = IF e = "client" THEN "wantAuth" ELSE "announcing"
      /\ phase'[Other(e)] = phase[Other(e)]
  BY <1>0 DEF SendAuth, Goto, Expecting, Expected
<1>2. /\ wire'[Other(e)] = wire[Other(e)]
      /\ wire'[e] = IF Unread(e) THEN wire[e] ELSE Append(wire[e], f)
  BY <1>0, WriteType
<1>3. wire[e] \in Seq(Frames) /\ Len(Append(wire[e], f)) = Len(wire[e]) + 1
  BY <1>0, AppendType
<1> HIDE DEF f
<1>4. Expected(e)'
  BY <1>1, <1>2, EmptyKinds, TwoEnds, LaterPhases DEF Expected
<1>5. Unread(e) \/ Len(wire[e]) = 0
  BY <1>1, TwoEnds DEF Shape, ClientShape, ServerShape, Unread
<1>6. phase[Other(e)] \in {"wantAuth", "closed"}
  BY <1>1, TwoEnds DEF Shape, ClientShape, ServerShape
<1>7. Expected(Other(e))'
  <2>1. CASE Unread(e)
    BY <1>0, <1>1, <1>2, <2>1, OtherEnd DEF Expecting, Expected
  <2>2. CASE ~Unread(e) /\ Len(wire[e]) = 0
    <3>1. AuthFirst(wire[e])
      BY <2>2, EmptyKinds
    <3>2. AuthFirst(Append(wire[e], f))
      BY <1>0, <1>3, <2>2, <3>1, AppendKinds
    <3>3. Len(Append(wire[e], f)) <= 1
      BY <1>3, <2>2
    <3>4. AuthFirst(wire'[e]) /\ Len(wire'[e]) <= 1
      BY <1>2, <2>2, <3>2, <3>3
    <3> QED
      BY <1>0, <1>1, <1>6, <3>4, OtherEnd, LaterPhases DEF Expected
  <2> QED
    BY <1>5, <2>1, <2>2
<1>8. AuthSent'
  <2>1. CASE e = "client"
    BY <1>1, <1>6, <2>1, TwoEnds, LaterPhases DEF AuthSent
  <2>2. CASE e = "server"
    <3>1. ASSUME phase["client"] = "wantAuth", ~cut PROVE Len(wire'["server"]) # 0
      <4>1. ~Unread(e)
        BY <2>2, <3>1, TwoEnds DEF Unread
      <4>2. Len(wire[e]) \in Nat
        BY <1>3
      <4> QED
        BY <1>2, <1>3, <2>2, <4>1, <4>2
    <3> QED
      BY <1>0, <1>1, <2>2, <3>1, TwoEnds DEF AuthSent
  <2> QED
    BY <2>1, <2>2, TwoEnds
<1> QED
  BY <1>4, <1>7, <1>8, TwoEnds DEF Expecting

LEMMA ReadAuthExpecting ==
    ASSUME Typed, Shape, Expecting, NEW e \in Ends, ReadAuth(e),
           Verified(Head(wire[Other(e)]))
    PROVE  Expecting'
<1>0. /\ phase \in [Ends -> Phases] /\ wire \in [Ends -> Seq(Frames)]
      /\ Other(e) \in Ends /\ Other(e) # e
      /\ wire[Other(e)] \in Seq(Frames) /\ wire[Other(e)] # << >>
  BY OtherEnd DEF Typed, TaskType, ReadAuth, Readable
<1>1. /\ phase[e] = "wantAuth"
      /\ phase'[e] = IF e = "client" THEN "wantAuthorized" ELSE "signing"
      /\ phase'[Other(e)] = phase[Other(e)]
  BY <1>0 DEF ReadAuth, Goto
<1>2. wire'[e] = wire[e] /\ wire'[Other(e)] = Tail(wire[Other(e)])
  BY <1>0, ConsumeType DEF ReadAuth
<1>3. /\ AuthFirst(wire[Other(e)])
      /\ e = "server" => Len(wire[Other(e)]) <= 1
  BY <1>1 DEF Expecting, Expected
<1>4. e = "server" => Len(wire'[Other(e)]) = 0
  BY <1>0, <1>2, <1>3, TailKinds
<1>5. OnlyOf(wire'[Other(e)], Talk)
  <2> DEFINE t == Tail(wire[Other(e)])
  <2>1. t \in Seq(Frames)
    BY <1>0, TailType
  <2>2. \A i \in 1 .. Len(t) : t[i] \in Frames
    BY <2>1
  <2>3. \A i \in 1 .. Len(t) : t[i].kind # "auth" /\ t[i].kind # "key"
    BY <1>0, <1>3, TailKinds
  <2>4. \A i \in 1 .. Len(t) : t[i].kind \in Talk
    BY <2>2, <2>3, FrameKinds DEF Talk
  <2> QED
    BY <1>2, <2>4 DEF OnlyOf
<1>6. Expected(e)'
  BY <1>1, <1>4, <1>5, TwoEnds, LaterPhases DEF Expected
<1>7. Expected(Other(e))'
  BY <1>0, <1>1, <1>2, OtherEnd DEF Expecting, Expected
<1>8. AuthSent'
  BY <1>1, TwoEnds, LaterPhases DEF AuthSent
<1> QED
  BY <1>6, <1>7, <1>8, TwoEnds DEF Expecting

\* What an end writes in the loop finds the other past the authentication, or
\* waiting for one that is already on the wire.
LEMMA WriteExpecting ==
    ASSUME Typed, Shape, Expecting, NEW e \in Ends, WriteSucceeds(e)
    PROVE  Expecting'
<1> DEFINE p == pending[e]
           o == Other(e)
<1>0. /\ phase \in [Ends -> Phases] /\ wire \in [Ends -> Seq(Frames)]
      /\ wire[e] \in Seq(Frames)
      /\ o \in Ends /\ o # e /\ Other(o) = e
      /\ phase[e] = "writing" /\ phase[e] \in Later
      /\ p \in {Key, Authorized} \cup Chats /\ p # Key
      /\ UNCHANGED cut /\ Write(e, p)
  BY OtherEnd, LaterPhases DEF Typed, TaskType, Writing, WriteSucceeds, EndWrite
<1>1. p \in Frames /\ p.kind \in Talk
  BY <1>0, PendingFrame, FrameKinds DEF Chats, Talk
<1>2. /\ phase'[e] \in Later /\ phase'[o] = phase[o]
  BY <1>0, LaterPhases DEF WriteSucceeds, EndWrite, Goto
<1>3. /\ wire'[o] = wire[o]
      /\ wire'[e] = IF Unread(e) THEN wire[e] ELSE Append(wire[e], p)
      /\ Len(Append(wire[e], p)) = Len(wire[e]) + 1
      /\ Len(wire[e]) \in Nat
  BY <1>0, <1>1, WriteType, AppendType
<1>4. CASE Unread(e)
  BY <1>0, <1>2, <1>3, <1>4, LaterExpecting
<1>5. CASE ~Unread(e)
  <2>1. phase[o] \notin {"wantKey", "signing", "closed"}
    BY <1>0, <1>5, TwoEnds, LaterPhases DEF Shape, ClientShape, ServerShape, Unread
  <2>2. phase[o] = "wantAuth" => o = "client" /\ e = "server"
    BY <1>0, TwoEnds DEF Shape, ServerShape
  <2>3. phase[o] = "wantAuth" => Len(wire[e]) # 0
    BY <1>0, <1>5, <2>2 DEF Expecting, AuthSent, Unread
  <2>4. phase[o] = "wantAuth" => AuthFirst(wire[e])
    BY <1>0 DEF Expecting, Expected
  <2>5. phase[o] = "wantAuth" => AuthFirst(wire'[e])
    BY <1>0, <1>1, <1>3, <1>5, <2>3, <2>4, AppendKinds DEF Talk
  <2>6. phase[o] \in Later => OnlyOf(wire'[e], Talk)
    BY <1>0, <1>1, <1>3, <1>5, AppendKinds DEF Expecting, Expected
  <2>7. Expected(o)'
    <3> HIDE DEF o
    <3> QED
      BY <1>0, <1>2, <2>1, <2>2, <2>5, <2>6 DEF Expected
  <2>8. Expected(e)'
    BY <1>0, <1>2, <1>3, LaterPhases DEF Expecting, Expected
  <2>9. AuthSent'
    <3>1. e = "server" => Len(wire'["server"]) # 0
      BY <1>3, <1>5
    <3> QED
      BY <1>2, <3>1, TwoEnds, LaterPhases DEF AuthSent
  <2> QED
    BY <2>7, <2>8, <2>9, TwoEnds DEF Expecting
<1> QED
  BY <1>4, <1>5

LEMMA ExpectingStep ==
    ASSUME Typed, Shape, Expecting, [Next]_vars
    PROVE  Expecting'
<1>0. phase \in [Ends -> Phases] /\ wire \in [Ends -> Seq(Frames)]
  BY DEF Typed, TaskType
<1>1. ASSUME NEW e \in Ends, Step(e) \/ Environment(e)
      PROVE  Expecting'
  <2>1. CASE \/ e = "client" /\ ReadTooEarly
             \/ ReadAuth(e) /\ ~Verified(Head(wire[Other(e)]))
             \/ HandshakeBreaks(e) \/ Timeout(e) \/ ReadOutOfTurn(e)
             \/ ReadEnd(e) \/ TakeClose(e) \/ ReadPartOfKey(e) \/ EngineLeaves(e)
    <3>1. Finish(e)
      BY <2>1 DEF ReadTooEarly, ReadAuth, HandshakeBreaks, Timeout,
         ReadOutOfTurn, ReadEnd, TakeClose, ReadPartOfKey, EngineLeaves
    <3> QED
      BY <3>1, FinishExpecting
  <2>2. CASE (e = "client" /\ SendKey) \/ ReadKey(e)
    BY <2>2, KeyExpecting
  <2>3. CASE SendAuth(e)
    BY <2>3, SendAuthExpecting
  <2>4. CASE ReadAuth(e) /\ Verified(Head(wire[Other(e)]))
    BY <2>4, ReadAuthExpecting
  <2>5. CASE \/ e = "client" /\ ReadNoAuthorization
             \/ Announce(e) \/ BeginWrite(e) \/ WriteFails(e)
    <3>1. UNCHANGED <<wire, cut>>
      BY <2>5 DEF ReadNoAuthorization, Announce, BeginWrite, WriteFails, EndWrite
    <3>2. PICK p \in Later : phase[e] \in Later /\ Goto(e, p)
      BY <2>5, LaterPhases DEF ReadNoAuthorization, Announce, BeginWrite, Take,
         WriteFails, EndWrite
    <3>3. phase'[e] \in Later /\ phase'[Other(e)] = phase[Other(e)]
      BY <1>0, <3>2, OtherEnd DEF Goto
    <3> QED
      BY <3>1, <3>2, <3>3, LaterExpecting
  <2>6. CASE (e = "client" /\ ReadAuthorized) \/ ReadChat(e)
    <3>1. PICK K \in {Talk, {"chat"}, {"authorized"}} : Readable(e, K) /\ Consume(e)
      BY <2>6 DEF ReadAuthorized, ReadChat
    <3>2. /\ wire'[e] = wire[e] /\ wire[Other(e)] # << >>
          /\ wire'[Other(e)] = Tail(wire[Other(e)])
      BY <1>0, <3>1, ConsumeType DEF Readable
    <3>3. /\ phase[e] \in Later /\ phase'[e] \in Later
          /\ phase'[Other(e)] = phase[Other(e)] /\ UNCHANGED cut
      BY <1>0, <2>6, OtherEnd, LaterPhases DEF ReadAuthorized, ReadChat, Goto
    <3> QED
      BY <3>2, <3>3, LaterExpecting
  <2>7. CASE WriteSucceeds(e)
    BY <2>7, WriteExpecting
  <2>8. CASE \/ \E size \in Sizes : Submit(e, size)
             \/ Authorize(e) \/ Disconnect(e)
    BY <2>8 DEF Submit, Authorize, Disconnect, Put, Expecting, Expected, AuthSent
  <2> QED
    BY <1>1, <2>1, <2>2, <2>3, <2>4, <2>5, <2>6, <2>7, <2>8 DEF Step, Environment
<1>2. CASE Cut
  BY <1>2, CutExpecting
<1>3. CASE UNCHANGED vars
  BY <1>3 DEF vars, Expecting, Expected, AuthSent
<1> QED
  BY <1>1, <1>2, <1>3 DEF Next

-----------------------------------------------------------------------------
(* The one authorization, from the server's mailbox to the client.          *)

Told == {"announcing"} \cup Live

\* The client's application authorizes nobody.
Silent ==
    /\ authorized["client"] = 0
    /\ ~Grants(wire["client"])
    /\ ~Grants(mailbox["client"])
    /\ pending["client"].kind # "authorized"

OneGrant ==
    /\ GrantsOnce(wire["server"])
    /\ GrantsOnce(mailbox["server"])
    /\ ~(Grants(wire["server"]) /\ pending["server"].kind = "authorized")
    /\ ~(Grants(wire["server"]) /\ Grants(mailbox["server"]))
    /\ ~(pending["server"].kind = "authorized" /\ Grants(mailbox["server"]))
    /\ authorized["server"] = 0 =>
            /\ ~Grants(wire["server"])
            /\ pending["server"].kind # "authorized"
            /\ ~Grants(mailbox["server"])

\* Once the client has been told, the authorization is behind it.
GrantTaken ==
    phase["client"] \in Told =>
        /\ ~Grants(wire["server"])
        /\ Connected =>
            /\ authorized["server"] # 0
            /\ pending["server"].kind # "authorized"
            /\ ~Grants(mailbox["server"])

\* Before that, it comes in front of every message.
GrantFirst ==
    phase["client"] \notin Told =>
        /\ Led(wire["server"])
        /\ Connected =>
            /\ pending["server"].kind = "chat" => Grants(wire["server"])
            /\ \/ Grants(wire["server"])
               \/ pending["server"].kind = "authorized"
               \/ Led(mailbox["server"])
            /\ authorized["server"] # 0 =>
                    \/ Grants(wire["server"])
                    \/ pending["server"].kind = "authorized"
                    \/ Grants(mailbox["server"])

Turn == OneGrant /\ GrantTaken /\ GrantFirst

InTurn == ~misused => ~undecodable /\ Silent /\ Turn

SameIn(s, t) ==
    /\ Grants(t) <=> Grants(s)
    /\ GrantsOnce(s) => GrantsOnce(t)
    /\ Led(s) => Led(t)

\* A step that moves no authorization, and lets none pass a message.
EndSame(e) ==
    /\ SameIn(wire[e], wire'[e])
    /\ SameIn(mailbox[e], mailbox'[e])
    /\ pending'[e].kind = "authorized" <=> pending[e].kind = "authorized"
    /\ pending'[e].kind = "chat" => pending[e].kind = "chat"

NoMore(e) ==
    /\ Grants(wire'[e]) => Grants(wire[e])
    /\ Grants(mailbox'[e]) => Grants(mailbox[e])
    /\ pending'[e].kind = "authorized" => pending[e].kind = "authorized"

LEMMA SameKinds ==
    /\ \A s : SameIn(s, s)
    /\ \A S : \A s \in Seq(S) :
        s # << >> /\ Head(s).kind # "authorized" => SameIn(s, Tail(s))
    /\ \A S : \A s \in Seq(S) : \A x \in S :
        x.kind # "authorized" /\ x.kind # "chat" => SameIn(s, Append(s, x))
<1>1. \A s : SameIn(s, s)
  BY DEF SameIn
<1>2. ASSUME NEW S, NEW s \in Seq(S), s # << >>, Head(s).kind # "authorized"
      PROVE  SameIn(s, Tail(s))
  BY <1>2, TailKinds DEF SameIn
<1>3. ASSUME NEW S, NEW s \in Seq(S), NEW x \in S,
             x.kind # "authorized", x.kind # "chat"
      PROVE  SameIn(s, Append(s, x))
  BY <1>3, AppendKinds DEF SameIn
<1> QED
  BY <1>1, <1>2, <1>3

LEMMA SameTurn ==
    ASSUME Silent, Turn, EndSame("server"), NoMore("client"),
           UNCHANGED authorized, Connected' => Connected,
           (phase'["client"] \in Told) <=> (phase["client"] \in Told)
    PROVE  Silent' /\ Turn'
<1>1. Silent'
  BY DEF Silent, NoMore
<1>2. OneGrant'
  BY DEF Turn, OneGrant, EndSame, SameIn
<1>3. GrantTaken'
  BY DEF Turn, GrantTaken, EndSame, SameIn
<1>4. GrantFirst'
  BY DEF Turn, GrantFirst, EndSame, SameIn
<1> QED
  BY <1>1, <1>2, <1>3, <1>4 DEF Turn

\* The two ends are no longer connected.
LEMMA LostTurn ==
    ASSUME Silent, Turn, NoMore("server"), NoMore("client"), ~Connected',
           UNCHANGED authorized,
           GrantsOnce(wire'["server"]), GrantsOnce(mailbox'["server"]),
           phase'["client"] \in Told => phase["client"] \in Told,
           phase'["client"] \notin Told => Led(wire'["server"])
    PROVE  Silent' /\ Turn'
<1>1. Silent'
  BY DEF Silent, NoMore
<1>2. OneGrant'
  BY DEF Turn, OneGrant, NoMore
<1>3. GrantTaken'
  BY DEF Turn, GrantTaken, NoMore
<1>4. GrantFirst'
  BY DEF GrantFirst
<1> QED
  BY <1>1, <1>2, <1>3, <1>4 DEF Turn

LEMMA FinishTurn ==
    ASSUME Typed, Silent, Turn, NEW e \in Ends, Finish(e), UNCHANGED authorized
    PROVE  Silent' /\ Turn'
<1>0. TaskType /\ Other(e) \in Ends /\ Other(e) # e
  BY OtherEnd DEF Typed
<1>1. /\ phase'[e] = "closed" /\ phase'[Other(e)] = phase[Other(e)]
      /\ wire'[e] = wire[e] /\ wire'[Other(e)] = << >>
  BY <1>0, FinishType
<1>2. /\ mailbox'[e] = << >> /\ mailbox'[Other(e)] = mailbox[Other(e)]
      /\ pending'[e] = Key /\ pending'[Other(e)] = pending[Other(e)]
  BY <1>0 DEF TaskType, Finish
<1>3. ~Grants(<< >>) /\ GrantsOnce(<< >>) /\ Led(<< >>)
  BY EmptyKinds, NoFrames
<1>4. NoMore(e) /\ NoMore(Other(e))
  BY <1>1, <1>2, <1>3, FrameKinds DEF NoMore
<1>5. ~Connected'
  BY <1>1 DEF Connected
<1>6. GrantsOnce(wire'["server"]) /\ GrantsOnce(mailbox'["server"])
  BY <1>1, <1>2, <1>3, TwoEnds DEF Turn, OneGrant
<1>7. /\ phase'["client"] \in Told => phase["client"] \in Told
      /\ phase'["client"] \notin Told => Led(wire'["server"])
  <2>1. CASE e = "client"
    BY <1>1, <1>3, <2>1, TwoEnds DEF Told, Live
  <2>2. CASE e = "server"
    BY <1>1, <2>2, TwoEnds DEF Turn, GrantFirst
  <2> QED
    BY <2>1, <2>2, TwoEnds
<1> QED
  BY <1>4, <1>5, <1>6, <1>7, LostTurn, TwoEnds

LEMMA CutTurn ==
    ASSUME Typed, Silent, Turn, Cut
    PROVE  Silent' /\ Turn'
<1>0. wire \in [Ends -> Seq(Frames)]
  BY DEF Typed, TaskType
<1>1. ASSUME NEW e \in Ends
      PROVE  /\ Grants(wire'[e]) => Grants(wire[e])
             /\ GrantsOnce(wire[e]) => GrantsOnce(wire'[e])
             /\ Led(wire[e]) => Led(wire'[e])
  <2>1. /\ Len(wire'[e]) \in Nat /\ Len(wire[e]) \in Nat
        /\ Len(wire'[e]) <= Len(wire[e])
        /\ \A i \in 1 .. Len(wire'[e]) : wire'[e][i] = wire[e][i]
    BY <1>0, CutWire
  <2> QED
    BY <2>1, PrefixKinds
<1>2. /\ UNCHANGED <<phase, mailbox, pending, authorized>>
      /\ ~Connected'
  BY DEF Cut, history, Connected
<1>3. NoMore("client") /\ NoMore("server")
  BY <1>1, <1>2, TwoEnds DEF NoMore
<1>4. /\ GrantsOnce(wire'["server"]) /\ GrantsOnce(mailbox'["server"])
      /\ phase'["client"] \notin Told => Led(wire'["server"])
  BY <1>1, <1>2, TwoEnds DEF Turn, OneGrant, GrantFirst
<1> QED
  BY <1>2, <1>3, <1>4, LostTurn

LEMMA HandshakeTurn ==
    ASSUME Typed, Silent, Turn, Connected' => Connected, NEW e \in Ends,
           \/ e = "client" /\ SendKey
           \/ ReadKey(e) \/ SendAuth(e) \/ Announce(e) \/ ReadChat(e)
           \/ ReadAuth(e) /\ Verified(Head(wire[Other(e)]))
    PROVE  Silent' /\ Turn'
<1> DEFINE o == Other(e)
<1>0. /\ phase \in [Ends -> Phases] /\ wire \in [Ends -> Seq(Frames)]
      /\ o \in Ends /\ o # e
      /\ \A f \in Ends : wire[f] \in Seq(Frames)
  BY OtherEnd DEF Typed, TaskType
<1>1. UNCHANGED <<pending, mailbox, authorized>>
  BY DEF SendKey, ReadKey, SendAuth, Announce, ReadChat, ReadAuth, history
<1>2. (phase'["client"] \in Told) <=> (phase["client"] \in Told)
  <2>1. CASE e = "server"
    <3>1. phase'["client"] = phase["client"]
      BY <1>0, <2>1, TwoEnds DEF ReadKey, SendAuth, Announce, ReadChat, ReadAuth, Goto
    <3> QED
      BY <3>1
  <2>2. CASE e = "client"
    BY <1>0, <2>2 DEF SendKey, ReadKey, SendAuth, Announce, ReadChat, ReadAuth, Goto,
       Told, Live
  <2> QED
    BY <2>1, <2>2, TwoEnds
<1>3. SameIn(wire[e], wire'[e]) /\ SameIn(wire[o], wire'[o])
  <2>1. ASSUME NEW f \in Frames, f.kind \in {"key", "auth"}, Write(e, f)
        PROVE  SameIn(wire[e], wire'[e]) /\ SameIn(wire[o], wire'[o])
    <3>1. /\ wire'[o] = wire[o]
          /\ wire'[e] \in {wire[e], Append(wire[e], f)}
      BY <1>0, <2>1, WriteType
    <3> QED
      BY <1>0, <2>1, <3>1, SameKinds
  <2>2. ASSUME NEW K \in {{"chat"}, {"auth"}}, Readable(e, K), Consume(e)
        PROVE  SameIn(wire[e], wire'[e]) /\ SameIn(wire[o], wire'[o])
    <3>1. /\ wire'[e] = wire[e] /\ wire'[o] = Tail(wire[o])
          /\ wire[o] # << >> /\ Head(wire[o]).kind # "authorized"
      BY <1>0, <2>2, ConsumeType DEF Readable
    <3> QED
      BY <1>0, <3>1, SameKinds
  <2>3. CASE e = "client" /\ SendKey
    BY <2>1, <2>3, KeyFrames, FrameKinds DEF SendKey
  <2>4. CASE ReadKey(e)
    <3>1. /\ wire'[o] = Tail(wire[o])
          /\ wire'[e] \in {wire[e], Append(wire[e], Key)}
          /\ wire[o] # << >> /\ Head(wire[o]).kind # "authorized"
      BY <1>0, <2>4, ReadKeyWire DEF ReadKey, Readable
    <3>2. SameIn(wire[o], wire'[o])
      BY <1>0, <3>1, SameKinds
    <3>3. SameIn(wire[e], wire[e]) /\ SameIn(wire[e], Append(wire[e], Key))
      BY <1>0, SameKinds, KeyFrames, FrameKinds
    <3> QED
      BY <3>1, <3>2, <3>3
  <2>5. CASE SendAuth(e)
    <3>1. ownKey[e] \in BOOLEAN
      BY DEF Typed, HistoryType
    <3>2. Auth(ownKey[e]) \in Frames /\ Auth(ownKey[e]).kind = "auth"
      BY <3>1, KeyFrames, FrameKinds
    <3> QED
      BY <2>1, <2>5, <3>2 DEF SendAuth
  <2>6. CASE Announce(e)
    BY <2>6, SameKinds DEF Announce
  <2>7. CASE ReadChat(e) \/ (ReadAuth(e) /\ Verified(Head(wire[Other(e)])))
    <3>1. PICK K \in {{"chat"}, {"auth"}} : Readable(e, K) /\ Consume(e)
      BY <2>7 DEF ReadChat, ReadAuth
    <3> QED
      BY <2>2, <3>1
  <2> QED
    BY <2>3, <2>4, <2>5, <2>6, <2>7
<1>4. EndSame(e) /\ EndSame(o)
  BY <1>1, <1>3, SameKinds DEF EndSame
<1>5. NoMore(e) /\ NoMore(o)
  BY <1>4 DEF EndSame, SameIn, NoMore
<1> QED
  BY <1>1, <1>2, <1>4, <1>5, SameTurn, TwoEnds

\* The client is told because of the authorization, or because the server's half
\* of the stream has ended.
LEMMA AuthorizedTurn ==
    ASSUME Typed, Silent, Turn, Connected' => Connected,
           ReadAuthorized \/ ReadNoAuthorization
    PROVE  Silent' /\ Turn'
<1>0. /\ phase \in [Ends -> Phases] /\ wire \in [Ends -> Seq(Frames)]
      /\ wire["server"] \in Seq(Frames)
      /\ UNCHANGED <<pending, mailbox, authorized, cut>>
      /\ phase'["client"] \in Told
      /\ phase'["server"] = phase["server"]
      /\ phase["client"] = "wantAuthorized"
  BY TwoEnds DEF Typed, TaskType, ReadAuthorized, ReadNoAuthorization, Goto, Told,
     history
<1>1. wire'["client"] = wire["client"]
  BY <1>0, ConsumeType, TwoEnds DEF ReadAuthorized, ReadNoAuthorization
<1>2. Silent'
  BY <1>0, <1>1 DEF Silent
<1>3. GrantFirst'
  BY <1>0 DEF GrantFirst
<1>4. CASE ReadAuthorized
  <2>1. /\ wire'["server"] = Tail(wire["server"])
        /\ wire["server"] # << >> /\ Head(wire["server"]).kind = "authorized"
    BY <1>0, <1>4, ConsumeType, TwoEnds DEF ReadAuthorized, Readable
  <2>2. /\ Grants(wire["server"])
        /\ ~Grants(wire'["server"]) /\ GrantsOnce(wire'["server"])
    BY <1>0, <2>1, TailKinds DEF Turn, OneGrant
  <2>3. /\ authorized["server"] # 0
        /\ pending["server"].kind # "authorized"
        /\ ~Grants(mailbox["server"])
    BY <2>2 DEF Turn, OneGrant
  <2>4. OneGrant'
    BY <1>0, <2>2, <2>3 DEF Turn, OneGrant
  <2>5. GrantTaken'
    BY <1>0, <2>2, <2>3 DEF GrantTaken
  <2> QED
    BY <1>2, <1>3, <2>4, <2>5 DEF Turn
<1>5. CASE ReadNoAuthorization
  <2>1. wire["server"] = << >> /\ Unread("client") /\ wire' = wire
    BY <1>5, TwoEnds DEF ReadNoAuthorization, AtEnd
  <2>2. ~Connected'
    BY <1>0, <2>1, TwoEnds DEF Unread, Connected
  <2>3. ~Grants(wire'["server"])
    BY <2>1, EmptyKinds, NoFrames
  <2>4. OneGrant'
    BY <1>0, <2>1 DEF Turn, OneGrant
  <2>5. GrantTaken'
    BY <2>2, <2>3 DEF GrantTaken
  <2> QED
    BY <1>2, <1>3, <2>4, <2>5 DEF Turn
<1> QED
  BY <1>4, <1>5

LEMMA BeginWriteTurn ==
    ASSUME Typed, Silent, Turn, Connected' => Connected, NEW e \in Ends, BeginWrite(e)
    PROVE  Silent' /\ Turn'
<1> DEFINE s == mailbox[e]
           h == Head(s)
<1>0. /\ Other(e) \in Ends /\ Other(e) # e
      /\ s \in Seq(Commands) /\ s # << >>
      /\ phase \in [Ends -> Phases]
      /\ mailbox \in [Ends -> Seq(Commands)]
      /\ pending \in [Ends -> {Key, Authorized} \cup Chats]
      /\ phase[e] = "running" /\ pending[e] = Key
      /\ UNCHANGED <<wire, authorized>>
  BY OtherEnd DEF Typed, TaskType, Writing, BeginWrite, Take, history
<1>1. /\ pending'[e] = h /\ pending'[Other(e)] = pending[Other(e)]
      /\ mailbox'[e] = Tail(s) /\ mailbox'[Other(e)] = mailbox[Other(e)]
  BY <1>0 DEF BeginWrite
<1>2. /\ phase'[e] = "writing" /\ phase'[Other(e)] = phase[Other(e)]
      /\ (phase'["client"] \in Told) <=> (phase["client"] \in Told)
  BY <1>0, TwoEnds DEF BeginWrite, Goto, Told, Live
<1>3. pending[e].kind = "key"
  BY <1>0, FrameKinds
<1> HIDE DEF s, h
<1>4. /\ Grants(s) <=> (Grants(Tail(s)) \/ h.kind = "authorized")
      /\ GrantsOnce(s) => GrantsOnce(Tail(s))
      /\ GrantsOnce(s) /\ h.kind = "authorized" => ~Grants(Tail(s))
      /\ Led(s) => h.kind # "chat"
      /\ Led(s) /\ h.kind # "authorized" => Led(Tail(s))
  BY <1>0, TailKinds DEF h
<1>5. CASE e = "client"
  <2>1. EndSame("server")
    BY <1>0, <1>1, <1>5, SameKinds, TwoEnds DEF EndSame
  <2>2. Silent'
    BY <1>0, <1>1, <1>4, <1>5 DEF Silent, s
  <2>3. NoMore("client")
    BY <1>0, <1>1, <1>4, <1>5, <2>2 DEF NoMore, Silent, s
  <2> QED
    BY <1>0, <1>2, <2>1, <2>3, SameTurn
<1>6. CASE e = "server"
  <2>1. Silent'
    BY <1>0, <1>1, <1>6, TwoEnds DEF Silent
  <2>2. /\ pending'["server"] = h /\ mailbox'["server"] = Tail(s)
        /\ wire' = wire /\ authorized' = authorized
        /\ mailbox["server"] = s /\ pending["server"].kind = "key"
    BY <1>0, <1>1, <1>3, <1>6 DEF s
  <2>3. OneGrant'
    BY <1>4, <2>2 DEF Turn, OneGrant
  <2>4. GrantTaken'
    BY <1>2, <1>4, <2>2 DEF Turn, GrantTaken
  <2>5. GrantFirst'
    BY <1>2, <1>4, <2>2 DEF Turn, GrantFirst
  <2> QED
    BY <2>1, <2>3, <2>4, <2>5 DEF Turn
<1> QED
  BY <1>5, <1>6, TwoEnds

LEMMA EndWriteTurn ==
    ASSUME Typed, Silent, Turn, Connected' => Connected, NEW e \in Ends, EndWrite(e),
           UNCHANGED wire, TooLong(e) \/ ~Connected'
    PROVE  Silent' /\ Turn'
<1>0. /\ Other(e) \in Ends /\ Other(e) # e
      /\ phase \in [Ends -> Phases]
      /\ pending \in [Ends -> {Key, Authorized} \cup Chats]
      /\ phase[e] = "writing"
      /\ UNCHANGED <<mailbox, authorized>>
  BY OtherEnd DEF Typed, TaskType, EndWrite, history
<1>1. /\ pending'[e] = Key /\ pending'[Other(e)] = pending[Other(e)]
      /\ phase'[e] = "running" /\ phase'[Other(e)] = phase[Other(e)]
      /\ Key.kind = "key"
  BY <1>0, FrameKinds DEF EndWrite, Goto
<1>2. (phase'["client"] \in Told) <=> (phase["client"] \in Told)
  BY <1>0, <1>1, TwoEnds DEF Told, Live
<1>3. NoMore("client") /\ NoMore("server")
  BY <1>0, <1>1, TwoEnds DEF NoMore
<1>4. CASE e = "client" \/ TooLong(e)
  <2>1. EndSame("server")
    BY <1>0, <1>1, <1>4, SameKinds, TwoEnds DEF EndSame, TooLong
  <2> QED
    BY <1>0, <1>2, <1>3, <2>1, SameTurn
<1>5. CASE ~Connected'
  <2>1. /\ GrantsOnce(wire'["server"]) /\ GrantsOnce(mailbox'["server"])
        /\ phase'["client"] \notin Told => Led(wire'["server"])
    BY <1>0, <1>2 DEF Turn, OneGrant, GrantFirst
  <2> QED
    BY <1>0, <1>2, <1>3, <1>5, <2>1, LostTurn
<1> QED
  BY <1>4, <1>5

LEMMA WriteTurn ==
    ASSUME Typed, Silent, Turn, Connected' => Connected, NEW e \in Ends,
           WriteSucceeds(e)
    PROVE  Silent' /\ Turn'
<1> DEFINE p == pending[e]
           s == wire[e]
<1>0. /\ Other(e) \in Ends /\ Other(e) # e
      /\ phase \in [Ends -> Phases] /\ wire \in [Ends -> Seq(Frames)]
      /\ s \in Seq(Frames)
      /\ pending \in [Ends -> {Key, Authorized} \cup Chats]
      /\ p \in {Key, Authorized} \cup Chats /\ p # Key
      /\ phase[e] = "writing"
      /\ UNCHANGED <<mailbox, authorized, cut>>
      /\ EndWrite(e) /\ Write(e, p)
  BY OtherEnd DEF Typed, TaskType, Writing, WriteSucceeds, EndWrite, history
<1>1. /\ pending'[e] = Key /\ pending'[Other(e)] = pending[Other(e)]
      /\ phase'[e] = "running" /\ phase'[Other(e)] = phase[Other(e)]
      /\ Key.kind = "key"
  BY <1>0, FrameKinds DEF EndWrite, Goto
<1>2. (phase'["client"] \in Told) <=> (phase["client"] \in Told)
  BY <1>0, <1>1, TwoEnds DEF Told, Live
<1>3. p \in Frames /\ p.kind \in {"chat", "authorized"}
  BY <1>0, PendingFrame, FrameKinds DEF Chats
<1>4. /\ wire'[Other(e)] = wire[Other(e)]
      /\ wire'[e] = IF Unread(e) THEN s ELSE Append(s, p)
  BY <1>0, <1>3, WriteType
<1> HIDE DEF s, p
<1>5. CASE Unread(e)
  <2>1. ~Connected /\ UNCHANGED wire
    BY <1>0, <1>5, OtherEnd DEF Unread, Connected, Write
  <2> QED
    BY <1>0, <2>1, EndWriteTurn
<1>6. /\ Grants(Append(s, p)) <=> (Grants(s) \/ p.kind = "authorized")
      /\ GrantsOnce(s) /\ (p.kind = "authorized" => ~Grants(s))
            => GrantsOnce(Append(s, p))
      /\ Led(s) /\ (p.kind = "chat" => Grants(s)) => Led(Append(s, p))
  BY <1>0, <1>3, AppendKinds
<1>7. CASE ~Unread(e) /\ e = "client"
  <2>1. EndSame("server")
    BY <1>0, <1>1, <1>4, <1>7, SameKinds, TwoEnds DEF EndSame
  <2>2. p.kind # "authorized"
    BY <1>7 DEF Silent, p
  <2>3. NoMore("client")
    BY <1>0, <1>1, <1>4, <1>6, <1>7, <2>2 DEF NoMore, s
  <2> QED
    BY <1>0, <1>2, <2>1, <2>3, SameTurn
<1>8. CASE ~Unread(e) /\ e = "server"
  <2>1. Connected
    BY <1>0, <1>8, TwoEnds DEF Unread, Connected
  <2>2. Silent'
    BY <1>0, <1>1, <1>4, <1>8, TwoEnds DEF Silent
  <2>3. /\ wire'["server"] = Append(s, p) /\ wire["server"] = s
        /\ pending["server"] = p /\ pending'["server"].kind = "key"
        /\ mailbox' = mailbox /\ authorized' = authorized
    BY <1>0, <1>1, <1>4, <1>8 DEF s, p
  <2>4. OneGrant'
    BY <1>6, <2>3 DEF Turn, OneGrant
  <2>5. GrantTaken'
    BY <1>2, <1>6, <2>1, <2>3 DEF Turn, GrantTaken
  <2>6. GrantFirst'
    BY <1>2, <1>3, <1>6, <2>1, <2>3 DEF Turn, GrantFirst
  <2> QED
    BY <2>2, <2>4, <2>5, <2>6 DEF Turn
<1> QED
  BY <1>5, <1>7, <1>8, TwoEnds

LEMMA CommandsTurn ==
    ASSUME Typed, Silent, Turn, Connected' => Connected, ~misused', NEW e \in Ends,
           \/ \E size \in Sizes : Submit(e, size)
           \/ Authorize(e) \/ Disconnect(e)
    PROVE  Silent' /\ Turn'
<1> DEFINE s == mailbox[e]
<1>0. /\ Other(e) \in Ends /\ Other(e) # e
      /\ s \in Seq(Commands)
      /\ mailbox \in [Ends -> Seq(Commands)]
      /\ authorized \in [Ends -> Nat]
      /\ UNCHANGED <<phase, wire, pending>>
  BY OtherEnd DEF Typed, TaskType, HistoryType, Submit, Authorize, Disconnect, Put
<1>1. ASSUME NEW m \in Commands, Put(e, m)
      PROVE  /\ mailbox'[e] = Append(s, m)
             /\ mailbox'[Other(e)] = mailbox[Other(e)]
             /\ Grants(mailbox'[e]) <=> (Grants(s) \/ m.kind = "authorized")
             /\ GrantsOnce(s) /\ (m.kind = "authorized" => ~Grants(s))
                    => GrantsOnce(mailbox'[e])
             /\ Led(s) /\ (m.kind = "chat" => Grants(s)) => Led(mailbox'[e])
  <2>1. mailbox'[e] = Append(s, m) /\ mailbox'[Other(e)] = mailbox[Other(e)]
    BY <1>0, <1>1 DEF Put
  <2> QED
    BY <1>0, <2>1, AppendKinds
<1>2. ASSUME e = "client", ~Grants(mailbox'[e]), UNCHANGED authorized,
             mailbox'["server"] = mailbox["server"]
      PROVE  Silent' /\ Turn'
  <2>1. EndSame("server") /\ NoMore("client")
    BY <1>0, <1>2, SameKinds DEF EndSame, NoMore
  <2> QED
    BY <1>0, <1>2, <2>1, SameTurn
<1>3. CASE \E size \in Sizes : Submit(e, size)
  <2>1. /\ Put(e, Chat(Len(submitted[e]) + 1))
        /\ UNCHANGED authorized
        /\ misused' = (misused \/ (e = "server" /\ authorized[e] = 0))
        /\ Len(submitted[e]) < MaxSubmitted
    BY <1>3 DEF Submit
  <2>2. /\ Chat(Len(submitted[e]) + 1) \in Commands
        /\ Chat(Len(submitted[e]) + 1).kind = "chat"
    <3>1. Len(submitted[e]) \in Nat
      BY LastType
    <3>2. Len(submitted[e]) + 1 \in 1 .. MaxSubmitted
      BY <2>1, <3>1, LinkAssumption
    <3> QED
      BY <3>2, FrameKinds DEF Commands, Chats
  <2>3. /\ mailbox'[Other(e)] = mailbox[Other(e)]
        /\ Grants(mailbox'[e]) <=> Grants(s)
        /\ GrantsOnce(s) => GrantsOnce(mailbox'[e])
        /\ Led(s) /\ Grants(s) => Led(mailbox'[e])
    BY <1>1, <2>1, <2>2
  <2>4. CASE e = "client"
    BY <1>2, <2>1, <2>3, <2>4, TwoEnds DEF Silent
  <2>5. CASE e = "server"
    <3>1. authorized["server"] # 0
      BY <2>1, <2>5
    <3>2. Silent'
      BY <1>0, <2>1, <2>3, <2>5, TwoEnds DEF Silent
    <3>3. OneGrant'
      BY <1>0, <2>1, <2>3, <2>5 DEF Turn, OneGrant
    <3>4. GrantTaken'
      BY <1>0, <2>1, <2>3, <2>5 DEF Turn, GrantTaken
    <3>5. GrantFirst'
      BY <1>0, <2>1, <2>3, <2>5, <3>1 DEF Turn, GrantFirst
    <3> QED
      BY <3>2, <3>3, <3>4, <3>5 DEF Turn
  <2> QED
    BY <2>4, <2>5, TwoEnds
<1>4. CASE Authorize(e)
  <2>1. /\ Put(e, Authorized) /\ e = "server" /\ authorized[e] = 0
        /\ authorized' = [authorized EXCEPT ![e] = @ + 1]
    <3>1. misused' = (misused \/ e = "client" \/ authorized[e] > 0)
      BY <1>4 DEF Authorize
    <3>2. e # "client" /\ ~(authorized[e] > 0)
      BY <3>1, Zenon
    <3>3. authorized[e] \in Nat
      BY <1>0
    <3>4. authorized[e] = 0
      BY <3>2, <3>3
    <3> QED
      BY <1>4, <3>2, <3>4, TwoEnds DEF Authorize
  <2>2. Authorized \in Commands /\ Authorized.kind = "authorized"
    BY FrameKinds DEF Commands
  <2>3. /\ ~Grants(wire["server"]) /\ ~Grants(mailbox["server"])
        /\ pending["server"].kind # "authorized"
    BY <2>1 DEF Turn, OneGrant
  <2>4. /\ mailbox'["client"] = mailbox["client"]
        /\ Grants(mailbox'["server"])
        /\ GrantsOnce(mailbox["server"]) => GrantsOnce(mailbox'["server"])
        /\ Led(mailbox["server"]) => Led(mailbox'["server"])
    BY <1>1, <2>1, <2>2, <2>3, TwoEnds
  <2>5. authorized'["server"] # 0 /\ authorized'["client"] = authorized["client"]
    BY <1>0, <2>1, TwoEnds
  <2>6. Silent'
    BY <1>0, <2>4, <2>5 DEF Silent
  <2>7. OneGrant'
    BY <1>0, <2>3, <2>4, <2>5 DEF Turn, OneGrant
  <2>8. GrantTaken'
    BY <1>0, <2>1, <2>3 DEF Turn, GrantTaken
  <2>9. GrantFirst'
    BY <1>0, <2>3, <2>4 DEF Turn, GrantFirst
  <2> QED
    BY <2>6, <2>7, <2>8, <2>9 DEF Turn
<1>5. CASE Disconnect(e)
  <2>1. Put(e, CloseCommand) /\ UNCHANGED authorized
    BY <1>5 DEF Disconnect
  <2>2. CloseCommand \in Commands /\ CloseCommand.kind = "close"
    BY FrameKinds DEF Commands
  <2>3. /\ mailbox'[e] = Append(s, CloseCommand)
        /\ mailbox'[Other(e)] = mailbox[Other(e)]
        /\ Grants(mailbox'[e]) <=> Grants(s)
        /\ GrantsOnce(s) => GrantsOnce(mailbox'[e])
        /\ Led(s) => Led(mailbox'[e])
    BY <1>1, <2>1, <2>2
  <2>4. EndSame(e) /\ EndSame(Other(e))
    BY <1>0, <2>3, SameKinds DEF EndSame, SameIn
  <2>5. NoMore(e) /\ NoMore(Other(e))
    BY <2>4 DEF EndSame, SameIn, NoMore
  <2> QED
    BY <1>0, <2>1, <2>4, <2>5, SameTurn, TwoEnds
<1> QED
  BY <1>3, <1>4, <1>5

\* The application that is out of turn once stays so.
LEMMA MisusedStays ==
    ASSUME [Next]_vars, ~misused'
    PROVE  ~misused
<1>1. CASE UNCHANGED misused
  BY <1>1
<1>2. ASSUME NEW e \in Ends, Step(e) \/ Environment(e) PROVE ~misused
  <2>1. CASE \E size \in Sizes : Submit(e, size)
    <3>1. misused' = (misused \/ (e = "server" /\ authorized[e] = 0))
      BY <2>1 DEF Submit
    <3> QED
      BY <3>1, Zenon
  <2>2. CASE Authorize(e)
    <3>1. misused' = (misused \/ e = "client" \/ authorized[e] > 0)
      BY <2>2 DEF Authorize
    <3> QED
      BY <3>1, Zenon
  <2>3. CASE Step(e) \/ ReadPartOfKey(e) \/ EngineLeaves(e) \/ Disconnect(e)
    <3>1. UNCHANGED misused
      BY <2>3 DEF Step, SendKey, ReadAuthorized, ReadNoAuthorization, ReadTooEarly,
         ReadKey, SendAuth, ReadAuth, HandshakeBreaks, Timeout, Announce, ReadChat,
         ReadOutOfTurn, ReadEnd, BeginWrite, WriteSucceeds, WriteFails, EndWrite,
         TakeClose, ReadPartOfKey, EngineLeaves, Disconnect, history
    <3> QED
      BY <1>1, <3>1
  <2> QED
    BY <1>2, <2>1, <2>2, <2>3 DEF Environment
<1> QED
  BY <1>1, <1>2 DEF Next, Cut, vars, history

\* What makes a frame undecodable cannot be on the wire.
LEMMA NothingEarly ==
    ASSUME Typed, Expecting, Silent, Turn, NEW e \in Ends
    PROVE  /\ ~(e = "client" /\ ReadTooEarly)
           /\ ~ReadOutOfTurn(e)
<1>0. \A f \in Ends : wire[f] \in Seq(Frames)
  BY DEF Typed, TaskType
<1>1. ASSUME ReadTooEarly PROVE FALSE
  <2>1. /\ phase["client"] \notin Told
        /\ wire["server"] # << >> /\ Head(wire["server"]).kind = "chat"
    BY <1>1, TwoEnds DEF ReadTooEarly, Readable, Told, Live
  <2>2. Led(wire["server"])
    BY <2>1 DEF Turn, GrantFirst
  <2> QED
    BY <1>0, <2>1, <2>2, TailKinds, TwoEnds
<1>2. ASSUME ReadOutOfTurn(e) PROVE FALSE
  <2> DEFINE s == wire[Other(e)]
  <2>1. /\ phase[e] \in Later /\ phase[e] \in Told
        /\ s \in Seq(Frames) /\ s # << >>
        /\ Head(s).kind \in {"authorized", "auth", "key"}
    BY <1>0, <1>2, OtherEnd DEF ReadOutOfTurn, Readable, Later, Told, Live
  <2>2. OnlyOf(s, Talk)
    BY <2>1 DEF Expecting, Expected
  <2>3. Head(s).kind \in Talk
    BY <2>1, <2>2, TailKinds
  <2>4. Head(s).kind = "authorized"
    BY <2>1, <2>3 DEF Talk
  <2>5. Grants(s)
    BY <2>1, <2>4, TailKinds
  <2> QED
    BY <2>1, <2>5, TwoEnds DEF Silent, Turn, GrantTaken
<1> QED
  BY <1>1, <1>2

LEMMA InTurnInit == Init => InTurn
<1> SUFFICES ASSUME Init PROVE InTurn
  OBVIOUS
<1>1. \A e \in Ends : /\ wire[e] = << >> /\ mailbox[e] = << >>
                      /\ pending[e] = Key /\ authorized[e] = 0
  BY DEF Init
<1>2. ~Grants(<< >>) /\ GrantsOnce(<< >>) /\ Led(<< >>)
  BY EmptyKinds, NoFrames
<1>3. Silent
  BY <1>1, <1>2, FrameKinds, TwoEnds DEF Silent
<1>4. phase["client"] \notin Told /\ Key.kind = "key"
  BY FrameKinds DEF Init, Told, Live
<1>5. Turn
  BY <1>1, <1>2, <1>4, TwoEnds DEF Turn, OneGrant, GrantTaken, GrantFirst
<1> QED
  BY <1>3, <1>5 DEF Init, InTurn

LEMMA InTurnStep ==
    ASSUME Typed, Expecting, InTurn, [Next]_vars
    PROVE  InTurn'
<1> SUFFICES ASSUME ~misused' PROVE ~undecodable' /\ Silent' /\ Turn'
  BY DEF InTurn
<1>0. /\ ~undecodable /\ Silent /\ Turn
      /\ Connected' => Connected
  BY MisusedStays, ConnectedFalls DEF InTurn
<1>1. ASSUME NEW e \in Ends, Step(e) \/ Environment(e)
      PROVE  ~undecodable' /\ Silent' /\ Turn'
  <2>0. ~(e = "client" /\ ReadTooEarly) /\ ~ReadOutOfTurn(e)
    BY <1>0, NothingEarly
  <2>1. CASE \/ ReadAuth(e) /\ ~Verified(Head(wire[Other(e)]))
             \/ HandshakeBreaks(e) \/ Timeout(e)
             \/ ReadEnd(e) \/ TakeClose(e) \/ ReadPartOfKey(e) \/ EngineLeaves(e)
    <3>1. Finish(e) /\ UNCHANGED <<undecodable, authorized>>
      BY <2>1 DEF ReadAuth, HandshakeBreaks, Timeout, ReadEnd, TakeClose,
         ReadPartOfKey, EngineLeaves, history
    <3> QED
      BY <1>0, <3>1, FinishTurn
  <2>2. CASE \/ e = "client" /\ SendKey
             \/ ReadKey(e) \/ SendAuth(e) \/ Announce(e) \/ ReadChat(e)
             \/ ReadAuth(e) /\ Verified(Head(wire[Other(e)]))
    <3>1. UNCHANGED undecodable
      BY <2>2 DEF SendKey, ReadKey, SendAuth, Announce, ReadChat, ReadAuth, history
    <3> QED
      BY <1>0, <2>2, <3>1, HandshakeTurn
  <2>3. CASE e = "client" /\ (ReadAuthorized \/ ReadNoAuthorization)
    <3>1. UNCHANGED undecodable
      BY <2>3 DEF ReadAuthorized, ReadNoAuthorization, history
    <3> QED
      BY <1>0, <2>3, <3>1, AuthorizedTurn
  <2>4. CASE BeginWrite(e)
    <3>1. UNCHANGED undecodable
      BY <2>4 DEF BeginWrite, history
    <3> QED
      BY <1>0, <2>4, <3>1, BeginWriteTurn
  <2>5. CASE WriteSucceeds(e)
    <3>1. UNCHANGED undecodable
      BY <2>5 DEF WriteSucceeds, EndWrite, history
    <3> QED
      BY <1>0, <2>5, <3>1, WriteTurn
  <2>6. CASE WriteFails(e)
    <3>1. EndWrite(e) /\ UNCHANGED <<wire, undecodable>> /\ (TooLong(e) \/ Unread(e))
      BY <2>6 DEF WriteFails, EndWrite, history
    <3>2. Unread(e) => ~Connected
      BY OtherEnd DEF Unread, Connected
    <3> QED
      BY <1>0, <3>1, <3>2, EndWriteTurn
  <2>7. CASE \/ \E size \in Sizes : Submit(e, size)
             \/ Authorize(e) \/ Disconnect(e)
    <3>1. UNCHANGED undecodable
      BY <2>7 DEF Submit, Authorize, Disconnect, Put
    <3> QED
      BY <1>0, <2>7, <3>1, CommandsTurn
  <2> QED
    BY <1>1, <2>0, <2>1, <2>2, <2>3, <2>4, <2>5, <2>6, <2>7 DEF Step, Environment
<1>2. CASE Cut
  <2>1. UNCHANGED undecodable
    BY <1>2 DEF Cut, history
  <2> QED
    BY <1>0, <1>2, <2>1, CutTurn
<1>3. CASE UNCHANGED vars
  <2>1. /\ UNCHANGED <<phase, wire, mailbox, pending, authorized, cut>>
        /\ UNCHANGED undecodable
    BY <1>3 DEF vars, history
  <2>2. EndSame("server") /\ NoMore("client")
    BY <2>1, SameKinds DEF EndSame, NoMore
  <2> QED
    BY <1>0, <2>1, <2>2, SameTurn
<1> QED
  BY <1>1, <1>2, <1>3 DEF Next

\* A frame of an unexpected type is read after a misuse only: while the server's
\* application authorizes once, before it writes, and the client's never does,
\* every frame that DecryptingReader::read gets is of the type that the
\* handshake or handle_connection decodes there.
THEOREM FramesAreExpected == Spec => []DecodesWhatIsSent
<1> DEFINE Inv == Typed /\ Shape /\ Expecting /\ InTurn
<1>1. Init => Inv
  BY TypedInit, ShapeInit, ExpectingInit, InTurnInit
<1>2. Inv /\ [Next]_vars => Inv'
  BY TypedStep, ShapeStep, ExpectingStep, InTurnStep
<1>3. Inv => DecodesWhatIsSent
  <2>1. Inv => (undecodable => misused)
    BY DEF InTurn
  <2> QED
    BY <2>1 DEF DecodesWhatIsSent
<1> QED
  BY <1>1, <1>2, <1>3, PTL DEF Spec

=============================================================================
