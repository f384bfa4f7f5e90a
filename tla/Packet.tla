------------------------------- MODULE Packet -------------------------------
(***************************************************************************)
(* The packets of the encrypted channel (EncryptingWriter.send and         *)
(* DecryptingReader.read in src/src/crypto.rs): one byte of padding        *)
(* length, the serialized message, and random bytes up to a whole number   *)
(* of blocks; encrypted, and framed by a length that must not pass a       *)
(* limit.  Of a message only its serialized length is kept, of a packet    *)
(* its header and its length.                                              *)
(***************************************************************************)
EXTENDS Integers, Sequences

CONSTANTS
    BlockSize,     \* BLOCKSIZE, 64
    HeaderValues,  \* values of the header, a PaddingLength = u8: 256
    Overhead,      \* nonce and authentication tag: 28 bytes
    MaxFrame,      \* the codec's limit on a frame
    Lengths,       \* serialized lengths of the messages that are sent
    MaxSent        \* bound: messages sent

HEADER_SIZE == 1

\* A padding length, at most BLOCKSIZE - 1, fits in the header.
ASSUME PacketAssumption ==
    /\ BlockSize \in Nat \ {0}
    /\ HeaderValues \in Nat
    /\ BlockSize <= HeaderValues
    /\ Overhead \in Nat
    /\ MaxFrame \in Nat
    /\ Lengths \subseteq Nat
    /\ MaxSent \in Nat

VARIABLES
    accepted,  \* history: lengths of the messages send() wrote, in order
    wire,      \* packets on their way
    got        \* history: lengths of the messages read() returned, in order

vars == <<accepted, wire, got>>

-----------------------------------------------------------------------------
\* The smallest whole number of blocks that holds header and message.
PacketLength(len) ==
    ((len + HEADER_SIZE + BlockSize - 1) \div BlockSize) * BlockSize

\* Mutant: a type too narrow for the padding of an almost empty last block.
PaddingLengthNarrow(len) ==
    (PacketLength(len) - len - HEADER_SIZE) % (BlockSize - 1)

\* `as PaddingLength` keeps the low byte.
PaddingLength(len) == (PacketLength(len) - len - HEADER_SIZE) % HeaderValues

\* What the writer makes of a message of that length.
MakePacket(len) ==
    [padding |-> PaddingLength(len),
     length  |-> HEADER_SIZE + len + PaddingLength(len)]

\* Mutant: the header is counted with the message.
MessageLengthWithHeader(packet) == packet.length - packet.padding

\* Mutant: the padding taken for a whole block, whatever the header says.
MessageLengthLessABlock(packet) == packet.length - HEADER_SIZE - BlockSize

\* The length of the message the reader takes out of a packet.
MessageLength(packet) == packet.length - HEADER_SIZE - packet.padding

Fits(packet) == Overhead + packet.length <= MaxFrame

Packets == [padding : 0 .. HeaderValues - 1, length : Nat]

TypeOK ==
    /\ accepted \in Seq(Lengths)
    /\ wire \in Seq(Packets)
    /\ got \in Seq(Nat)

Init ==
    /\ accepted = << >>
    /\ wire = << >>
    /\ got = << >>

\* A packet too long for a frame is an error and nothing of it is written.
Send(len) ==
    /\ Len(accepted) < MaxSent
    /\ Fits(MakePacket(len))
    /\ accepted' = Append(accepted, len)
    /\ wire' = Append(wire, MakePacket(len))
    /\ UNCHANGED got

Read ==
    /\ wire # << >>
    /\ got' = Append(got, MessageLength(Head(wire)))
    /\ wire' = Tail(wire)
    /\ UNCHANGED accepted

Next == Read \/ \E len \in Lengths : Send(len)

Spec == Init /\ [][Next]_vars

-----------------------------------------------------------------------------
(* Properties *)

\* What is read and what is still on its way are the messages that were
\* written, in order, at their own lengths.
ReadsWhatWasWritten ==
    /\ Len(accepted) = Len(got) + Len(wire)
    /\ \A i \in 1 .. Len(got) : got[i] = accepted[i]
    /\ \A i \in 1 .. Len(wire) :
        MessageLength(wire[i]) = accepted[Len(got) + i]

\* A packet is the smallest whole number of blocks with room for the header and
\* the message: its length says no more of the message than that.
WholeBlocks ==
    \A i \in 1 .. Len(wire) :
        LET needed == HEADER_SIZE + accepted[Len(got) + i] IN
        /\ \E k \in 1 .. wire[i].length : wire[i].length = k * BlockSize
        /\ needed <= wire[i].length
        /\ wire[i].length < needed + BlockSize
=============================================================================
