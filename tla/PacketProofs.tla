---------------------------- MODULE PacketProofs ----------------------------
(***************************************************************************)
(* Proofs about Packet, for any block size that the padding header can     *)
(* cope with, any limit on frames and messages of any length.              *)
(***************************************************************************)
EXTENDS Packet, TLAPS

\* A packet for a message of length len is as WholeBlocks wants it.
Whole(length, len) ==
    /\ \E k \in 1 .. length : length = k * BlockSize
    /\ HEADER_SIZE + len <= length
    /\ length < HEADER_SIZE + len + BlockSize

\* The packets under way are those of the messages written and not yet read.
Written ==
    /\ Len(accepted) = Len(got) + Len(wire)
    /\ \A i \in 1 .. Len(got) : got[i] = accepted[i]
    /\ \A i \in 1 .. Len(wire) : wire[i] = MakePacket(accepted[Len(got) + i])

PacketInv == TypeOK /\ Written

LEMMA Division ==
    ASSUME NEW m \in Int, NEW b \in Int, b > 0
    PROVE  /\ m \div b \in Int
           /\ (m \div b) * b <= m
           /\ m < (m \div b) * b + b
<1>1. b * (m \div b) <= m
  OBVIOUS
<1>2. m < b * (m \div b) + b
  OBVIOUS
<1>3. m \div b \in Int /\ b * (m \div b) = (m \div b) * b
  OBVIOUS
<1> QED
  BY <1>1, <1>2, <1>3

LEMMA Blocks ==
    ASSUME NEW n \in Nat \ {0}
    PROVE  \E k \in Nat \ {0} :
               /\ ((n + BlockSize - 1) \div BlockSize) * BlockSize = k * BlockSize
               /\ k <= k * BlockSize
               /\ n <= k * BlockSize
               /\ k * BlockSize < n + BlockSize
<1> DEFINE m == n + BlockSize - 1
           k == m \div BlockSize
<1>1. BlockSize \in Int /\ BlockSize > 0 /\ m \in Int
  BY PacketAssumption
<1>2. k \in Int /\ k * BlockSize <= m /\ m < k * BlockSize + BlockSize
  BY <1>1, Division
<1>3. k * BlockSize \in Int
  BY <1>1, <1>2
<1>4. n <= k * BlockSize /\ k * BlockSize < n + BlockSize
  BY <1>1, <1>2, <1>3
<1>5. k >= 1
  <2>1. SUFFICES ASSUME k <= 0 PROVE FALSE
    BY <1>2
  <2>2. k * BlockSize <= 0
    BY <1>1, <1>2, <2>1
  <2> QED
    BY <1>3, <1>4, <2>2
<1>6. k <= k * BlockSize
  BY <1>1, <1>2, <1>5
<1> QED
  BY <1>2, <1>4, <1>5, <1>6

LEMMA AppendElements ==
    ASSUME NEW S, NEW s \in Seq(S), NEW e \in S
    PROVE  /\ Append(s, e) \in Seq(S)
           /\ Len(Append(s, e)) = Len(s) + 1
           /\ \A i \in 1 .. Len(s) : Append(s, e)[i] = s[i]
           /\ Append(s, e)[Len(s) + 1] = e
  OBVIOUS

LEMMA TailElements ==
    ASSUME NEW S, NEW s \in Seq(S), s # << >>
    PROVE  /\ Len(s) # 0
           /\ Head(s) = s[1]
           /\ Tail(s) \in Seq(S)
           /\ Len(Tail(s)) = Len(s) - 1
           /\ \A i \in 1 .. Len(s) - 1 : Tail(s)[i] = s[i + 1]
  OBVIOUS

LEMMA Elements ==
    ASSUME NEW S, NEW s \in Seq(S)
    PROVE  Len(s) \in Nat /\ \A i \in 1 .. Len(s) : s[i] \in S
  OBVIOUS

LEMMA PacketShape ==
    ASSUME NEW len \in Nat
    PROVE  /\ MakePacket(len) \in Packets
           /\ MessageLength(MakePacket(len)) = len
           /\ Whole(MakePacket(len).length, len)
<1>1. PICK k \in Nat \ {0} :
          /\ PacketLength(len) = k * BlockSize
          /\ k <= k * BlockSize
          /\ len + HEADER_SIZE <= k * BlockSize
          /\ k * BlockSize < len + HEADER_SIZE + BlockSize
  <2>1. len + HEADER_SIZE \in Nat \ {0}
    BY DEF HEADER_SIZE
  <2> QED
    BY <2>1, Blocks DEF PacketLength
<1>2. k * BlockSize \in Nat /\ BlockSize \in Nat /\ HeaderValues \in Nat
      /\ BlockSize <= HeaderValues
  BY <1>1, PacketAssumption
<1>3. /\ PacketLength(len) - len - HEADER_SIZE \in 0 .. BlockSize - 1
      /\ PacketLength(len) \in Nat
  BY <1>1, <1>2 DEF HEADER_SIZE
<1>4. PaddingLength(len) = PacketLength(len) - len - HEADER_SIZE
  BY <1>2, <1>3 DEF PaddingLength
<1>5. MakePacket(len).length = PacketLength(len)
  BY <1>3, <1>4 DEF MakePacket, HEADER_SIZE
<1>6. MakePacket(len) \in Packets
  BY <1>2, <1>3, <1>4, <1>5 DEF MakePacket, Packets
<1>7. MessageLength(MakePacket(len)) = len
  BY <1>3, <1>4 DEF MakePacket, MessageLength, HEADER_SIZE
<1>8. Whole(MakePacket(len).length, len)
  BY <1>1, <1>2, <1>5 DEF Whole, HEADER_SIZE
<1> QED
  BY <1>6, <1>7, <1>8

LEMMA Typed ==
    ASSUME PacketInv
    PROVE  /\ Len(accepted) \in Nat /\ Len(wire) \in Nat /\ Len(got) \in Nat
           /\ \A i \in 1 .. Len(accepted) : accepted[i] \in Nat
           /\ \A i \in 1 .. Len(wire) : Len(got) + i \in 1 .. Len(accepted)
<1>1. Len(accepted) \in Nat /\ Len(wire) \in Nat /\ Len(got) \in Nat
  BY Elements DEF PacketInv, TypeOK
<1>2. \A i \in 1 .. Len(accepted) : accepted[i] \in Lengths
  BY Elements DEF PacketInv, TypeOK
<1>3. \A i \in 1 .. Len(accepted) : accepted[i] \in Nat
  BY <1>2, PacketAssumption
<1>4. Len(accepted) = Len(got) + Len(wire)
  BY DEF PacketInv, Written
<1> QED
  BY <1>1, <1>3, <1>4

LEMMA PacketInvStep ==
    ASSUME PacketInv, [Next]_vars
    PROVE  PacketInv'
<1>1. /\ accepted \in Seq(Lengths) /\ wire \in Seq(Packets) /\ got \in Seq(Nat)
      /\ Len(accepted) \in Nat /\ Len(wire) \in Nat /\ Len(got) \in Nat
      /\ Len(accepted) = Len(got) + Len(wire)
      /\ \A i \in 1 .. Len(got) : got[i] = accepted[i]
      /\ \A i \in 1 .. Len(wire) : wire[i] = MakePacket(accepted[Len(got) + i])
      /\ \A i \in 1 .. Len(accepted) : accepted[i] \in Nat
  BY Typed DEF PacketInv, TypeOK, Written
<1>2. ASSUME NEW len \in Lengths, Send(len)
      PROVE  PacketInv'
  <2>1. len \in Nat /\ MakePacket(len) \in Packets
    BY PacketAssumption, PacketShape
  <2>2. /\ accepted' \in Seq(Lengths) /\ Len(accepted') = Len(accepted) + 1
        /\ \A i \in 1 .. Len(accepted) : accepted'[i] = accepted[i]
        /\ accepted'[Len(accepted) + 1] = len
    <3>1. accepted' = Append(accepted, len)
      BY <1>2 DEF Send
    <3>2. accepted \in Seq(Lengths) /\ len \in Lengths
      BY <1>1, <1>2
    <3> QED
      BY <3>1, <3>2, AppendElements
  <2>3. /\ wire' \in Seq(Packets) /\ Len(wire') = Len(wire) + 1
        /\ \A i \in 1 .. Len(wire) : wire'[i] = wire[i]
        /\ wire'[Len(wire) + 1] = MakePacket(len)
    BY <1>1, <1>2, <2>1, AppendElements DEF Send
  <2>4. got' = got
    BY <1>2 DEF Send
  <2>5. \A i \in 1 .. Len(wire') : wire'[i] = MakePacket(accepted'[Len(got) + i])
    <3> SUFFICES ASSUME NEW i \in 1 .. Len(wire')
                 PROVE  wire'[i] = MakePacket(accepted'[Len(got) + i])
      OBVIOUS
    <3>1. CASE i \in 1 .. Len(wire)
      <4>1. Len(got) + i \in 1 .. Len(accepted)
        BY <1>1, <3>1
      <4> QED
        BY <1>1, <2>2, <2>3, <3>1, <4>1
    <3>2. CASE i = Len(wire) + 1
      <4>1. Len(got) + i = Len(accepted) + 1
        BY <1>1, <3>2
      <4> QED
        BY <2>2, <2>3, <3>2, <4>1
    <3> QED
      BY <1>1, <2>3, <3>1, <3>2
  <2>6. /\ Len(accepted') = Len(got') + Len(wire')
        /\ \A i \in 1 .. Len(got') : got'[i] = accepted'[i]
    BY <1>1, <2>2, <2>3, <2>4
  <2> QED
    BY <1>1, <2>2, <2>3, <2>4, <2>5, <2>6 DEF PacketInv, TypeOK, Written
<1>3. CASE Read
  <2>1. /\ Len(wire) # 0 /\ wire' \in Seq(Packets) /\ Len(wire') = Len(wire) - 1
        /\ \A i \in 1 .. Len(wire) - 1 : wire'[i] = wire[i + 1]
        /\ Head(wire) = wire[1]
    BY <1>1, <1>3, TailElements DEF Read
  <2>2. accepted' = accepted
    BY <1>3 DEF Read
  <2>3. /\ Len(got) + 1 \in 1 .. Len(accepted)
        /\ Head(wire) = MakePacket(accepted[Len(got) + 1])
    BY <1>1, <2>1
  <2>4. MessageLength(Head(wire)) = accepted[Len(got) + 1]
        /\ accepted[Len(got) + 1] \in Nat
    BY <1>1, <2>3, PacketShape
  <2>5. /\ got' \in Seq(Nat) /\ Len(got') = Len(got) + 1
        /\ \A i \in 1 .. Len(got) : got'[i] = got[i]
        /\ got'[Len(got) + 1] = accepted[Len(got) + 1]
    BY <1>1, <1>3, <2>4, AppendElements DEF Read
  <2>6. \A i \in 1 .. Len(got') : got'[i] = accepted'[i]
    BY <1>1, <2>2, <2>5
  <2>7. \A i \in 1 .. Len(wire') : wire'[i] = MakePacket(accepted'[Len(got') + i])
    <3> SUFFICES ASSUME NEW i \in 1 .. Len(wire')
                 PROVE  wire'[i] = MakePacket(accepted'[Len(got') + i])
      OBVIOUS
    <3>1. i + 1 \in 1 .. Len(wire) /\ wire'[i] = wire[i + 1]
      BY <1>1, <2>1
    <3>2. Len(got') + i = Len(got) + (i + 1)
      BY <1>1, <2>1, <2>5
    <3> QED
      BY <1>1, <2>2, <3>1, <3>2
  <2>8. Len(accepted') = Len(got') + Len(wire')
    <3>1. Len(got') = Len(got) + 1 /\ Len(wire') = Len(wire) - 1
      BY <2>1, <2>5
    <3>2. /\ Len(accepted') = Len(got) + Len(wire)
          /\ Len(got) \in Nat /\ Len(wire) \in Nat
      BY <1>1, <2>2
    <3> QED
      BY <3>1, <3>2
  <2> QED
    BY <1>1, <2>1, <2>2, <2>5, <2>6, <2>7, <2>8 DEF PacketInv, TypeOK, Written
<1>4. CASE UNCHANGED vars
  BY <1>4 DEF vars, PacketInv, TypeOK, Written
<1> QED
  BY <1>2, <1>3, <1>4 DEF Next

LEMMA PacketInvariant == Spec => []PacketInv
<1>1. Init => PacketInv
  <2> SUFFICES ASSUME Init PROVE PacketInv
    OBVIOUS
  <2>1. /\ accepted \in Seq(Lengths) /\ wire \in Seq(Packets) /\ got \in Seq(Nat)
        /\ Len(accepted) = 0 /\ Len(wire) = 0 /\ Len(got) = 0
    BY DEF Init
  <2>2. \A i \in 1 .. 0 : FALSE
    OBVIOUS
  <2> QED
    BY <2>1, <2>2 DEF PacketInv, TypeOK, Written
<1>2. PacketInv /\ [Next]_vars => PacketInv'
  BY PacketInvStep
<1> QED
  BY <1>1, <1>2, PTL DEF Spec

\* Every variable of Packet keeps its type: a padding length fits in its header
\* and no message has a negative length.
THEOREM TypeCorrect == Spec => []TypeOK
<1>1. PacketInv => TypeOK
  BY DEF PacketInv
<1> QED
  BY <1>1, PacketInvariant, PTL

\* The messages come out as they were put in: none lost, none out of order, each
\* at its own length whatever its padding.
THEOREM MessagesComeThrough == Spec => []ReadsWhatWasWritten
<1>1. PacketInv => ReadsWhatWasWritten
  <2> SUFFICES ASSUME PacketInv PROVE ReadsWhatWasWritten
    OBVIOUS
  <2>1. ASSUME NEW i \in 1 .. Len(wire)
        PROVE  MessageLength(wire[i]) = accepted[Len(got) + i]
    <3>1. accepted[Len(got) + i] \in Nat
      BY <2>1, Typed
    <3> QED
      BY <2>1, <3>1, PacketShape DEF PacketInv, Written
  <2> QED
    BY <2>1 DEF PacketInv, Written, ReadsWhatWasWritten
<1> QED
  BY <1>1, PacketInvariant, PTL

\* The u8 that holds the padding length never truncates it: every packet is the
\* smallest whole number of blocks for its message.
THEOREM PacketsAreWholeBlocks == Spec => []WholeBlocks
<1>1. PacketInv => WholeBlocks
  <2> SUFFICES ASSUME PacketInv, NEW i \in 1 .. Len(wire)
               PROVE  Whole(wire[i].length, accepted[Len(got) + i])
    BY DEF WholeBlocks, Whole
  <2>1. accepted[Len(got) + i] \in Nat
    BY Typed
  <2> QED
    BY <2>1, PacketShape DEF PacketInv, Written
<1> QED
  BY <1>1, PacketInvariant, PTL
=============================================================================
