---------------------------- MODULE EngineProofs ----------------------------
(***************************************************************************)
(* Proofs about Engine, for any number of peers and connections and any    *)
(* bounds.                                                                 *)
(***************************************************************************)
EXTENDS Engine, TLAPS

-----------------------------------------------------------------------------
(* What sending to and taking from the queue does to its entries. *)

LEMMA EmptyEntries ==
    ASSUME NEW q, q = << >>
    PROVE  q \in Seq(Events) /\ Len(q) = 0 /\ \A i \in 1 .. Len(q) : FALSE
  OBVIOUS

LEMMA AppendEntries ==
    ASSUME NEW q \in Seq(Events), NEW e \in Events
    PROVE  /\ Append(q, e) \in Seq(Events)
           /\ Len(Append(q, e)) = Len(q) + 1
           /\ \A i \in 1 .. Len(q) : Append(q, e)[i] = q[i]
           /\ Append(q, e)[Len(q) + 1] = e
  OBVIOUS

LEMMA TailEntries ==
    ASSUME NEW q \in Seq(Events), q # << >>
    PROVE  /\ Tail(q) \in Seq(Events)
           /\ Head(q) \in Events
           /\ Head(q) = q[1]
           /\ Len(q) \in Nat \ {0}
           /\ Len(Tail(q)) = Len(q) - 1
           /\ \A i \in 1 .. Len(q) - 1 : Tail(q)[i] = q[i + 1]
  OBVIOUS

LEMMA EventType ==
    ASSUME NEW k \in EventKinds, NEW c \in Conns, NEW n \in Nat
    PROVE  /\ Event(k, c, n) \in Events
           /\ Event(k, c, n).kind = k
           /\ Event(k, c, n).conn = c
           /\ Event(k, c, n).seq = n
  BY DEF Event, Events

LEMMA PostType ==
    ASSUME queue \in Seq(Events),
           NEW k \in EventKinds, NEW c \in Conns, NEW n \in Nat, Post(k, c, n)
    PROVE  queue' \in Seq(Events)
  BY EventType, AppendEntries DEF Post

LEMMA GotoType ==
    ASSUME phase \in [Conns -> Phases],
           NEW c \in Conns, NEW to \in Phases, Goto(c, to)
    PROVE  /\ phase' \in [Conns -> Phases]
           /\ phase'[c] = to
           /\ \A d \in Conns \ {c} : phase'[d] = phase[d]
  BY DEF Goto

LEMMA TakeType ==
    ASSUME queue \in Seq(Events), NEW k, Take(k)
    PROVE  /\ Tail(queue) \in Seq(Events)
           /\ Head(queue).conn \in Conns
           /\ Head(queue).seq \in Nat
  BY TailEntries DEF Take, Events

LEMMA SendOrPanicType ==
    ASSUME TypeOK, NEW p \in Peers, NEW command \in Commands,
           SendOrPanic(p, command)
    PROVE  TypeOK'
<1>1. PeerKnown'
  BY DEF SendOrPanic, TypeOK, PeerKnown
<1>2. channels[p] \in Conns
  BY DEF SendOrPanic, CanSend, TypeOK
<1>3. CASE phase[channels[p]] \in Receiving
  <2>1. Append(mailbox[channels[p]], command) \in Seq(Commands)
    <3>1. mailbox[channels[p]] \in Seq(Commands)
      BY <1>2 DEF TypeOK
    <3> QED
      BY <3>1
  <2>2. mailbox' \in [Conns -> Seq(Commands)]
    BY <1>2, <1>3, <2>1 DEF SendOrPanic, TypeOK
  <2>3. UNCHANGED <<engine, queue, channels, phase, peer, signature, received,
                    view, seen, rivals>>
    BY <1>3 DEF SendOrPanic
  <2> QED
    BY <1>1, <2>2, <2>3 DEF TypeOK
<1>4. CASE phase[channels[p]] \notin Receiving
  <2>1. channels' \in [Peers -> Conns \cup {None}]
    BY <1>4 DEF SendOrPanic, EngineGone
  <2>2. queue' = << >> /\ engine' = "send panic"
    BY <1>4 DEF SendOrPanic, EngineGone
  <2>3. UNCHANGED <<phase, peer, mailbox, signature, received, view, seen,
                    rivals>>
    BY <1>4 DEF SendOrPanic
  <2>4. queue' \in Seq(Events)
    BY <2>2, EmptyEntries
  <2> QED
    BY <1>1, <2>1, <2>2, <2>3, <2>4 DEF TypeOK
<1> QED
  BY <1>3, <1>4

LEMMA TakeCommandType ==
    ASSUME mailbox \in [Conns -> Seq(Commands)],
           NEW c \in Conns, NEW commands, TakeCommand(c, commands)
    PROVE  mailbox' \in [Conns -> Seq(Commands)]
<1>1. Tail(mailbox[c]) \in Seq(Commands)
  BY DEF TakeCommand
<1> QED
  BY <1>1 DEF TakeCommand

LEMMA TypeOKStep ==
    ASSUME TypeOK, [Next]_vars
    PROVE  TypeOK'
<1>1. CASE Drop
  <2>1. PeerKnown'
    BY <1>1
       DEF Drop, EngineGone, TypeOK, PeerKnown
  <2> QED
    BY <1>1, <2>1
       DEF Drop, EngineGone, TypeOK
<1>2. ASSUME NEW c \in Conns, HandleIncoming(c)
       PROVE  TypeOK'
  <2>1. phase' \in [Conns -> Phases]
    BY <1>2
       DEF HandleIncoming, Goto, TypeOK, Phases, Signing, Handshake, Receiving, Live
  <2>2. PeerKnown'
    BY <1>2
       DEF HandleIncoming, Goto, TypeOK, PeerKnown, Signing, Handshake, Receiving, Live
  <2> QED
    BY <1>2, <2>1, <2>2
       DEF HandleIncoming, TypeOK
<1>3. ASSUME NEW c \in Conns, NEW p \in Peers, Connect(c, p)
       PROVE  TypeOK'
  <2>1. phase' \in [Conns -> Phases]
    BY <1>3
       DEF Connect, Goto, TypeOK, Phases, Signing, Handshake, Receiving, Live
  <2>2. PeerKnown'
    BY <1>3
       DEF Connect, Goto, TypeOK, PeerKnown, Signing, Handshake, Receiving, Live
  <2> QED
    BY <1>3, <2>1, <2>2
       DEF Connect, TypeOK
<1>4. ASSUME NEW p \in Peers, SendMessage(p)
       PROVE  TypeOK'
  <2>1. PeerKnown'
    BY <1>4
       DEF SendMessage, CanSend, TypeOK, PeerKnown
  <2>2. mailbox' \in [Conns -> Seq(Commands)]
    BY <1>4, ConstantsAssumption
       DEF SendMessage, CanSend, TypeOK, Commands
  <2> QED
    BY <1>4, <2>1, <2>2
       DEF SendMessage, CanSend, TypeOK
<1>5. ASSUME NEW p \in Peers, SendConnectionAuthorized(p)
       PROVE  TypeOK'
  BY <1>5, SendOrPanicType DEF SendConnectionAuthorized, Commands
<1>6. ASSUME NEW p \in Peers, Disconnect(p)
       PROVE  TypeOK'
  BY <1>6, SendOrPanicType DEF Disconnect, Commands
<1>7. CASE HandleNewConnection
  <2>1. PeerKnown'
    BY <1>7
       DEF HandleNewConnection, Take, TypeOK, PeerKnown
  <2>2. /\ Tail(queue) \in Seq(Events)
         /\ Head(queue).conn \in Conns
         /\ Head(queue).seq \in Nat
    BY <1>7, TakeType
       DEF HandleNewConnection, TypeOK
  <2> QED
    BY <1>7, <2>1, <2>2
       DEF HandleNewConnection, Take, TypeOK
<1>8. CASE HandleSignatureRequest
  <2>1. PeerKnown'
    BY <1>8
       DEF HandleSignatureRequest, Take, EngineGone, TypeOK, PeerKnown
  <2>2. /\ Tail(queue) \in Seq(Events)
         /\ Head(queue).conn \in Conns
         /\ Head(queue).seq \in Nat
    BY <1>8, TakeType
       DEF HandleSignatureRequest, TypeOK
  <2>3. signature' \in [Conns -> BOOLEAN]
    BY <1>8, TakeType
       DEF HandleSignatureRequest, TypeOK
  <2>4. CASE phase[Head(queue).conn] \in Signing
    <3>1. UNCHANGED <<engine, channels>> /\ queue' = Tail(queue)
      BY <1>8, <2>4 DEF HandleSignatureRequest
    <3> QED
      BY <1>8, <2>1, <2>2, <2>3, <3>1 DEF HandleSignatureRequest, TypeOK
  <2>5. CASE phase[Head(queue).conn] \notin Signing
    <3>1. queue' = << >> /\ engine' = "signature panic"
      BY <1>8, <2>5 DEF HandleSignatureRequest, EngineGone
    <3>2. queue' \in Seq(Events)
      BY <3>1, EmptyEntries
    <3>3. channels' \in [Peers -> Conns \cup {None}]
      BY <1>8, <2>5 DEF HandleSignatureRequest, EngineGone
    <3> QED
      BY <1>8, <2>1, <2>3, <3>1, <3>2, <3>3
         DEF HandleSignatureRequest, TypeOK
  <2> QED
    BY <2>4, <2>5
<1>9. CASE HandleMessage
  <2>1. PeerKnown'
    BY <1>9
       DEF HandleMessage, Take, TypeOK, PeerKnown
  <2>2. /\ Tail(queue) \in Seq(Events)
         /\ Head(queue).conn \in Conns
         /\ Head(queue).seq \in Nat
    BY <1>9, TakeType
       DEF HandleMessage, TypeOK
  <2> QED
    BY <1>9, <2>1, <2>2
       DEF HandleMessage, Take, TypeOK
<1>10. CASE HandleLog
  <2>1. PeerKnown'
    BY <1>10
       DEF HandleLog, Take, TypeOK, PeerKnown
  <2>2. /\ Tail(queue) \in Seq(Events)
         /\ Head(queue).conn \in Conns
         /\ Head(queue).seq \in Nat
    BY <1>10, TakeType
       DEF HandleLog, TypeOK
  <2> QED
    BY <1>10, <2>1, <2>2
       DEF HandleLog, Take, TypeOK
<1>11. CASE HandleConnectionClosed
  <2>1. PeerKnown'
    BY <1>11
       DEF HandleConnectionClosed, Take, TypeOK, PeerKnown
  <2>2. /\ Tail(queue) \in Seq(Events)
         /\ Head(queue).conn \in Conns
         /\ Head(queue).seq \in Nat
    BY <1>11, TakeType
       DEF HandleConnectionClosed, TypeOK
  <2> QED
    BY <1>11, <2>1, <2>2
       DEF HandleConnectionClosed, Take, TypeOK
<1>12. ASSUME NEW c \in Conns, ReceiveSignature(c)
       PROVE  TypeOK'
  <2>1. phase' \in [Conns -> Phases]
    BY <1>12
       DEF ReceiveSignature, Goto, TypeOK, Phases, Signing, Handshake, Receiving, Live
  <2>2. PeerKnown'
    BY <1>12
       DEF ReceiveSignature, Goto, TypeOK, PeerKnown, Signing, Handshake, Receiving, Live
  <2> QED
    BY <1>12, <2>1, <2>2
       DEF ReceiveSignature, TypeOK
<1>13. ASSUME NEW c \in Conns, AbandonSignature(c)
       PROVE  TypeOK'
  <2>1. phase' \in [Conns -> Phases]
    BY <1>13
       DEF AbandonSignature, Goto, TypeOK, Phases, Signing, Handshake, Receiving, Live
  <2>2. PeerKnown'
    BY <1>13
       DEF AbandonSignature, Goto, TypeOK, PeerKnown, Signing, Handshake, Receiving, Live
  <2> QED
    BY <1>13, <2>1, <2>2
       DEF AbandonSignature, TypeOK
<1>14. ASSUME NEW c \in Conns, CloseAfterError(c)
       PROVE  TypeOK'
  <2>1. phase' \in [Conns -> Phases]
    BY <1>14
       DEF CloseAfterError, Goto, TypeOK, Phases, Signing, Handshake, Receiving, Live
  <2>2. PeerKnown'
    BY <1>14
       DEF CloseAfterError, Goto, TypeOK, PeerKnown, Signing, Handshake, Receiving, Live
  <2>3. queue' \in Seq(Events)
    BY <1>14, PostType
       DEF CloseAfterError, TypeOK, EventKinds
  <2> QED
    BY <1>14, <2>1, <2>2, <2>3
       DEF CloseAfterError, TypeOK
<1>15. ASSUME NEW c \in Conns, BeginWrite(c)
       PROVE  TypeOK'
  <2>1. phase' \in [Conns -> Phases]
    BY <1>15
       DEF BeginWrite, TakeCommand, Goto, TypeOK, Phases, Signing, Handshake, Receiving, Live
  <2>2. PeerKnown'
    BY <1>15
       DEF BeginWrite, TakeCommand, Goto, TypeOK, PeerKnown, Signing, Handshake, Receiving, Live
  <2>3. mailbox' \in [Conns -> Seq(Commands)]
    BY <1>15, TakeCommandType
       DEF BeginWrite, TypeOK
  <2> QED
    BY <1>15, <2>1, <2>2, <2>3
       DEF BeginWrite, TakeCommand, TypeOK
<1>16. ASSUME NEW c \in Conns, Close(c)
       PROVE  TypeOK'
  <2>1. phase' \in [Conns -> Phases]
    BY <1>16
       DEF Close, TakeCommand, Goto, TypeOK, Phases, Signing, Handshake, Receiving, Live
  <2>2. PeerKnown'
    BY <1>16
       DEF Close, TakeCommand, Goto, TypeOK, PeerKnown, Signing, Handshake, Receiving, Live
  <2>3. mailbox' \in [Conns -> Seq(Commands)]
    BY <1>16, TakeCommandType
       DEF Close, TypeOK
  <2>4. queue' \in Seq(Events)
    BY <1>16, PostType
       DEF Close, TypeOK, EventKinds
  <2> QED
    BY <1>16, <2>1, <2>2, <2>3, <2>4
       DEF Close, TakeCommand, TypeOK
<1>17. ASSUME NEW c \in Conns, DropConnection(c)
       PROVE  TypeOK'
  <2>1. phase' \in [Conns -> Phases]
    BY <1>17
       DEF DropConnection, Goto, TypeOK, Phases, Signing, Handshake, Receiving, Live
  <2>2. PeerKnown'
    BY <1>17
       DEF DropConnection, Goto, TypeOK, PeerKnown, Signing, Handshake, Receiving, Live
  <2>3. mailbox' \in [Conns -> Seq(Commands)]
    <3>1. << >> \in Seq(Commands)
      OBVIOUS
    <3> QED
      BY <1>17, <3>1 DEF DropConnection, TypeOK
  <2> QED
    BY <1>17, <2>1, <2>2, <2>3
       DEF DropConnection, TypeOK
<1>18. ASSUME NEW c \in Conns, WriteSucceeds(c)
       PROVE  TypeOK'
  <2>1. phase' \in [Conns -> Phases]
    BY <1>18
       DEF WriteSucceeds, Goto, TypeOK, Phases, Signing, Handshake, Receiving, Live
  <2>2. PeerKnown'
    BY <1>18
       DEF WriteSucceeds, Goto, TypeOK, PeerKnown, Signing, Handshake, Receiving, Live
  <2> QED
    BY <1>18, <2>1, <2>2
       DEF WriteSucceeds, TypeOK
<1>19. ASSUME NEW c \in Conns, WriteFails(c)
       PROVE  TypeOK'
  <2>1. phase' \in [Conns -> Phases]
    BY <1>19
       DEF WriteFails, Goto, TypeOK, Phases, Signing, Handshake, Receiving, Live
  <2>2. PeerKnown'
    BY <1>19
       DEF WriteFails, Goto, TypeOK, PeerKnown, Signing, Handshake, Receiving, Live
  <2>3. queue' \in Seq(Events)
    BY <1>19, PostType
       DEF WriteFails, TypeOK, EventKinds
  <2> QED
    BY <1>19, <2>1, <2>2, <2>3
       DEF WriteFails, TypeOK
<1>20. ASSUME NEW c \in Conns, NEW p \in Peers, RequestSignature(c, p)
       PROVE  TypeOK'
  <2>1. phase' \in [Conns -> Phases]
    BY <1>20
       DEF RequestSignature, Goto, TypeOK, Phases, Signing, Handshake, Receiving, Live
  <2>2. PeerKnown'
    BY <1>20
       DEF RequestSignature, Goto, TypeOK, PeerKnown, Signing, Handshake, Receiving, Live
  <2>3. queue' \in Seq(Events)
    BY <1>20, PostType
       DEF RequestSignature, TypeOK, EventKinds
  <2> QED
    BY <1>20, <2>1, <2>2, <2>3
       DEF RequestSignature, TypeOK
<1>21. ASSUME NEW c \in Conns, VerifyPeer(c)
       PROVE  TypeOK'
  <2>1. phase' \in [Conns -> Phases]
    BY <1>21
       DEF VerifyPeer, Goto, TypeOK, Phases, Signing, Handshake, Receiving, Live
  <2>2. PeerKnown'
    BY <1>21
       DEF VerifyPeer, Goto, TypeOK, PeerKnown, Signing, Handshake, Receiving, Live
  <2> QED
    BY <1>21, <2>1, <2>2
       DEF VerifyPeer, TypeOK
<1>22. ASSUME NEW c \in Conns, HandshakeFails(c)
       PROVE  TypeOK'
  <2>1. phase' \in [Conns -> Phases]
    BY <1>22
       DEF HandshakeFails, Goto, TypeOK, Phases, Signing, Handshake, Receiving, Live
  <2>2. PeerKnown'
    BY <1>22
       DEF HandshakeFails, Goto, TypeOK, PeerKnown, Signing, Handshake, Receiving, Live
  <2>3. queue' \in Seq(Events)
    BY <1>22, PostType
       DEF HandshakeFails, TypeOK, EventKinds
  <2> QED
    BY <1>22, <2>1, <2>2, <2>3
       DEF HandshakeFails, TypeOK
<1>23. ASSUME NEW c \in Conns, Announce(c)
       PROVE  TypeOK'
  <2>1. phase' \in [Conns -> Phases]
    BY <1>23
       DEF Announce, Goto, TypeOK, Phases, Signing, Handshake, Receiving, Live
  <2>2. PeerKnown'
    BY <1>23
       DEF Announce, Goto, TypeOK, PeerKnown, Signing, Handshake, Receiving, Live
  <2>3. queue' \in Seq(Events)
    BY <1>23, PostType
       DEF Announce, TypeOK, EventKinds
  <2>4. rivals' \in SUBSET Conns
    BY <1>23
       DEF Announce, TypeOK, Siblings
  <2> QED
    BY <1>23, <2>1, <2>2, <2>3, <2>4
       DEF Announce, TypeOK
<1>24. ASSUME NEW c \in Conns, ReadMessage(c)
       PROVE  TypeOK'
  <2>1. PeerKnown'
    BY <1>24
       DEF ReadMessage, TypeOK, PeerKnown
  <2>2. received[c] \in Nat /\ received[c] + 1 \in Nat
    <3>1. received[c] \in Nat
      BY <1>24 DEF TypeOK
    <3> QED
      BY <3>1
  <2>3. queue' \in Seq(Events)
    <3>1. Post("Message", c, received[c] + 1) /\ c \in Conns
      BY <1>24 DEF ReadMessage
    <3>2. queue \in Seq(Events) /\ "Message" \in EventKinds
      BY DEF TypeOK, EventKinds
    <3> QED
      BY <2>2, <3>1, <3>2, PostType
  <2>4. received' \in [Conns -> Nat]
    BY <1>24, <2>2
       DEF ReadMessage, TypeOK
  <2> QED
    BY <1>24, <2>1, <2>2, <2>3, <2>4
       DEF ReadMessage, TypeOK
<1>25. ASSUME NEW c \in Conns, ReadEndOfFile(c)
       PROVE  TypeOK'
  <2>1. phase' \in [Conns -> Phases]
    BY <1>25
       DEF ReadEndOfFile, Goto, TypeOK, Phases, Signing, Handshake, Receiving, Live
  <2>2. PeerKnown'
    BY <1>25
       DEF ReadEndOfFile, Goto, TypeOK, PeerKnown, Signing, Handshake, Receiving, Live
  <2>3. queue' \in Seq(Events)
    BY <1>25, PostType
       DEF ReadEndOfFile, TypeOK, EventKinds
  <2> QED
    BY <1>25, <2>1, <2>2, <2>3
       DEF ReadEndOfFile, TypeOK
<1>26. ASSUME NEW c \in Conns, ReadError(c)
       PROVE  TypeOK'
  <2>1. phase' \in [Conns -> Phases]
    BY <1>26
       DEF ReadError, Goto, TypeOK, Phases, Signing, Handshake, Receiving, Live
  <2>2. PeerKnown'
    BY <1>26
       DEF ReadError, Goto, TypeOK, PeerKnown, Signing, Handshake, Receiving, Live
  <2>3. queue' \in Seq(Events)
    BY <1>26, PostType
       DEF ReadError, TypeOK, EventKinds
  <2> QED
    BY <1>26, <2>1, <2>2, <2>3
       DEF ReadError, TypeOK
<1>27. CASE UNCHANGED vars
  BY <1>27 DEF vars, TypeOK, PeerKnown
<1> QED
  BY <1>1, <1>2, <1>3, <1>4, <1>5, <1>6, <1>7, <1>8, <1>9, <1>10,
     <1>11, <1>12, <1>13, <1>14, <1>15, <1>16, <1>17, <1>18, <1>19,
     <1>20, <1>21, <1>22, <1>23, <1>24, <1>25, <1>26, <1>27
  DEF Next, GetEvent, Application, TaskStep, WriteDone, NetworkStep

LEMMA TypeOKInit == Init => TypeOK
<1> SUFFICES ASSUME Init PROVE TypeOK
  OBVIOUS
<1>1. PeerKnown
  BY DEF Init, PeerKnown, Signing, Receiving, Live
<1>2. phase \in [Conns -> Phases]
  BY DEF Init, Phases
<1>3. queue \in Seq(Events) /\ mailbox \in [Conns -> Seq(Commands)]
  BY DEF Init
<1> QED
  BY <1>1, <1>2, <1>3 DEF Init, TypeOK

\* Every variable of Engine keeps its type, and a task that is past learning
\* whom it talks to knows it.
THEOREM TypeCorrect == Spec => []TypeOK
<1>1. TypeOK /\ [Next]_vars => TypeOK'
  BY TypeOKStep
<1> QED
  BY <1>1, TypeOKInit, PTL DEF Spec

-----------------------------------------------------------------------------
(* The engine unwraps its answer to a signature request.  That no task has  *)
(* stopped waiting by then is not inductive alone: a request is answered    *)
(* once, so a task must not have two, and what is queued when the engine    *)
(* goes must go with it.                                                    *)

Waiting(c) == phase[c] \in Signing /\ ~signature[c]

IsRequest(e) == e.kind = "SignatureRequest"

\* Nothing is queued for an engine that is gone.
QueueGone == engine # "up" => queue = << >>

\* A task is given a signature only after it asked for one.
NoEarlySignature ==
    \A c \in Conns : phase[c] \in {"idle", "dialing", "accepting"} => ~signature[c]

\* A queued request belongs to a task that waits for it.
RequestsWaiting ==
    \A i \in 1 .. Len(queue) : IsRequest(queue[i]) => Waiting(queue[i].conn)

\* A task has at most one request in the queue.
RequestsUnique ==
    \A i, j \in 1 .. Len(queue) :
        IsRequest(queue[i]) /\ IsRequest(queue[j]) /\ queue[i].conn = queue[j].conn
            => i = j

Requests == NoEarlySignature /\ RequestsWaiting /\ RequestsUnique

SignatureInv ==
    /\ TypeOK
    /\ QueueGone
    /\ Requests
    /\ SignatureNeverPanics

\* A step adds no request: those in the queue after it were there before,
\* further back by shift.
Kept(shift) ==
    \A i \in 1 .. Len(queue') : IsRequest(queue'[i]) =>
        /\ i + shift \in 1 .. Len(queue)
        /\ queue'[i] = queue[i + shift]

\* A step leaves the waiting tasks waiting and signs nothing.
Steady ==
    \A c \in Conns :
        /\ Waiting(c) => Waiting(c)'
        /\ phase'[c] \in {"idle", "dialing", "accepting"}
            => phase[c] \in {"idle", "dialing", "accepting"}
               /\ signature'[c] = signature[c]

LEMMA EntryType ==
    ASSUME NEW q \in Seq(Events)
    PROVE  /\ Len(q) \in Nat
           /\ \A i \in 1 .. Len(q) : q[i] \in Events /\ q[i].conn \in Conns
<1>1. \A i \in 1 .. Len(q) : q[i] \in Events
  OBVIOUS
<1>2. \A e \in Events : e.conn \in Conns
  BY DEF Events
<1> QED
  BY <1>1, <1>2

LEMMA PostEntries ==
    ASSUME queue \in Seq(Events),
           NEW k \in EventKinds, NEW c \in Conns, NEW n \in Nat, Post(k, c, n)
    PROVE  /\ Len(queue) \in Nat
           /\ engine # "up" => queue' = queue
           /\ engine = "up" => /\ Len(queue') = Len(queue) + 1
                               /\ queue'[Len(queue) + 1] = Event(k, c, n)
           /\ \A i \in 1 .. Len(queue) : queue'[i] = queue[i]
<1>1. Event(k, c, n) \in Events /\ Len(queue) \in Nat
  BY EventType
<1> QED
  BY <1>1, AppendEntries DEF Post

LEMMA KeptUnchanged ==
    ASSUME SignatureInv, UNCHANGED <<engine, queue>>
    PROVE  Kept(0) /\ QueueGone'
<1>1. Len(queue) \in Nat
  BY EntryType DEF SignatureInv, TypeOK
<1> QED
  BY <1>1 DEF SignatureInv, Kept, QueueGone

LEMMA KeptPost ==
    ASSUME SignatureInv, UNCHANGED engine,
           NEW k \in EventKinds \ {"SignatureRequest"},
           NEW c \in Conns, NEW n \in Nat, Post(k, c, n)
    PROVE  Kept(0) /\ QueueGone'
<1>1. queue \in Seq(Events)
  BY DEF SignatureInv, TypeOK
<1>2. CASE engine = "up"
  <2>1. ~IsRequest(Event(k, c, n))
    BY DEF IsRequest, Event
  <2>2. /\ Len(queue) \in Nat
        /\ Len(queue') = Len(queue) + 1
        /\ ~IsRequest(queue'[Len(queue) + 1])
        /\ \A i \in 1 .. Len(queue) : queue'[i] = queue[i]
    BY <1>1, <1>2, <2>1, PostEntries
  <2>3. Kept(0)
    BY <2>2 DEF Kept
  <2> QED
    BY <1>2, <2>3 DEF QueueGone
<1>3. CASE engine # "up"
  <2>1. queue' = queue
    BY <1>3 DEF Post
  <2> QED
    BY <2>1, KeptUnchanged
<1> QED
  BY <1>2, <1>3

LEMMA KeptTake ==
    ASSUME SignatureInv, UNCHANGED engine, NEW k, Take(k), queue' = Tail(queue)
    PROVE  Kept(1) /\ QueueGone'
<1>1. queue \in Seq(Events) /\ queue # << >> /\ engine = "up"
  BY DEF SignatureInv, TypeOK, Take
<1>2. /\ Len(queue) \in Nat \ {0}
      /\ Len(queue') = Len(queue) - 1
      /\ \A i \in 1 .. Len(queue) - 1 : queue'[i] = queue[i + 1]
  BY <1>1, TailEntries
<1>3. Kept(1)
  BY <1>2 DEF Kept
<1> QED
  BY <1>1, <1>3 DEF QueueGone

\* The lemma every step but asking for and giving a signature rests on.
LEMMA SteadyStep ==
    ASSUME SignatureInv, TypeOK', UNCHANGED engine,
           NEW shift \in {0, 1}, Kept(shift), QueueGone', Steady
    PROVE  SignatureInv'
<1>1. /\ queue \in Seq(Events) /\ queue' \in Seq(Events)
      /\ Len(queue) \in Nat /\ Len(queue') \in Nat
  BY EntryType DEF SignatureInv, TypeOK
<1>2. NoEarlySignature'
  BY DEF SignatureInv, Requests, NoEarlySignature, Steady
<1>3. RequestsWaiting'
  <2> SUFFICES ASSUME NEW i \in 1 .. Len(queue'), IsRequest(queue'[i])
               PROVE  /\ phase'[queue'[i].conn] \in Signing
                      /\ ~signature'[queue'[i].conn]
    BY DEF RequestsWaiting, IsRequest, Waiting
  <2>1. i + shift \in 1 .. Len(queue) /\ queue'[i] = queue[i + shift]
    BY DEF Kept
  <2>2. Waiting(queue[i + shift].conn)
    BY <2>1 DEF SignatureInv, Requests, RequestsWaiting
  <2>3. queue[i + shift].conn \in Conns
    BY <1>1, <2>1, EntryType
  <2> QED
    BY <2>1, <2>2, <2>3 DEF Steady, Waiting
<1>4. RequestsUnique'
  <2> SUFFICES ASSUME NEW i \in 1 .. Len(queue'), NEW j \in 1 .. Len(queue'),
                      IsRequest(queue'[i]), IsRequest(queue'[j]),
                      queue'[i].conn = queue'[j].conn
               PROVE  i = j
    BY DEF RequestsUnique, IsRequest
  <2>1. /\ i + shift \in 1 .. Len(queue) /\ queue'[i] = queue[i + shift]
        /\ j + shift \in 1 .. Len(queue) /\ queue'[j] = queue[j + shift]
    BY DEF Kept
  <2>2. i + shift = j + shift
    BY <2>1 DEF SignatureInv, Requests, RequestsUnique
  <2> QED
    BY <1>1, <2>2
<1> QED
  BY <1>2, <1>3, <1>4 DEF SignatureInv, Requests, SignatureNeverPanics

\* The engine goes for another reason than a signature, or is gone.
LEMMA GoneStep ==
    ASSUME SignatureInv, TypeOK', UNCHANGED <<signature>>,
           queue' = << >>, engine' # "signature panic",
           \A c \in Conns : phase'[c] \in {"idle", "dialing", "accepting"}
                                => phase'[c] = phase[c]
    PROVE  SignatureInv'
<1>1. NoEarlySignature'
  BY DEF SignatureInv, Requests, NoEarlySignature
<1>2. \A i \in 1 .. Len(queue') : FALSE
  BY EmptyEntries
<1>3. RequestsWaiting' /\ RequestsUnique'
  BY <1>2 DEF RequestsWaiting, RequestsUnique
<1> QED
  BY <1>1, <1>3 DEF SignatureInv, Requests, QueueGone, SignatureNeverPanics

LEMMA SendOrPanicKeepsSignatureInv ==
    ASSUME SignatureInv, TypeOK', NEW p \in Peers, NEW command \in Commands,
           SendOrPanic(p, command)
    PROVE  SignatureInv'
<1>1. CASE phase[channels[p]] \in Receiving
  <2>1. UNCHANGED <<engine, queue, phase, signature>>
    BY <1>1 DEF SendOrPanic
  <2>2. Steady
    BY <2>1 DEF Steady, Waiting
  <2> QED
    BY <2>1, <2>2, KeptUnchanged, SteadyStep
<1>2. CASE phase[channels[p]] \notin Receiving
  <2>1. UNCHANGED <<phase, signature>> /\ queue' = << >> /\ engine' = "send panic"
    BY <1>2 DEF SendOrPanic, EngineGone
  <2> QED
    BY <2>1, GoneStep
<1> QED
  BY <1>1, <1>2

LEMMA HandleSignatureRequestKeepsSignatureInv ==
    ASSUME SignatureInv, TypeOK', HandleSignatureRequest
    PROVE  SignatureInv'
<1> DEFINE c == Head(queue).conn
<1>1. queue \in Seq(Events) /\ queue # << >> /\ engine = "up"
      /\ IsRequest(Head(queue))
  BY DEF SignatureInv, TypeOK, HandleSignatureRequest, Take, IsRequest
<1>2. /\ Len(queue) \in Nat \ {0}
      /\ Len(Tail(queue)) = Len(queue) - 1
      /\ Head(queue) = queue[1]
      /\ \A i \in 1 .. Len(queue) - 1 : Tail(queue)[i] = queue[i + 1]
  BY <1>1, TailEntries
<1>3. c \in Conns /\ 1 \in 1 .. Len(queue)
  BY <1>1, <1>2, EntryType
<1>4. Waiting(c)
  BY <1>1, <1>2, <1>3 DEF SignatureInv, Requests, RequestsWaiting
<1>5. /\ queue' = Tail(queue)
      /\ signature' = [signature EXCEPT ![c] = TRUE]
      /\ UNCHANGED <<engine, phase>>
  BY <1>4 DEF HandleSignatureRequest, Waiting
<1>6. Kept(1)
  BY <1>2, <1>5 DEF Kept
<1>7. NoEarlySignature'
  BY <1>4, <1>5 DEF SignatureInv, TypeOK, Requests, NoEarlySignature, Waiting,
                    Signing
<1>8. RequestsWaiting'
  <2> SUFFICES ASSUME NEW i \in 1 .. Len(queue'), IsRequest(queue'[i])
               PROVE  /\ phase'[queue'[i].conn] \in Signing
                      /\ ~signature'[queue'[i].conn]
    BY DEF RequestsWaiting, IsRequest, Waiting
  <2>1. i + 1 \in 1 .. Len(queue) /\ queue'[i] = queue[i + 1]
    BY <1>6 DEF Kept
  <2>2. i \in Nat /\ i # 0
    BY <1>2, <1>5
  <2>3. queue[i + 1].conn # queue[1].conn
    BY <1>1, <1>2, <1>3, <2>1, <2>2 DEF SignatureInv, Requests, RequestsUnique
  <2>4. Waiting(queue[i + 1].conn)
    BY <2>1 DEF SignatureInv, Requests, RequestsWaiting
  <2>5. queue[i + 1].conn \in Conns
    BY <1>1, <2>1, EntryType
  <2> QED
    BY <1>2, <1>5, <2>1, <2>3, <2>4, <2>5 DEF SignatureInv, TypeOK, Waiting
<1>9. RequestsUnique'
  <2> SUFFICES ASSUME NEW i \in 1 .. Len(queue'), NEW j \in 1 .. Len(queue'),
                      IsRequest(queue'[i]), IsRequest(queue'[j]),
                      queue'[i].conn = queue'[j].conn
               PROVE  i = j
    BY DEF RequestsUnique, IsRequest
  <2>1. /\ i + 1 \in 1 .. Len(queue) /\ queue'[i] = queue[i + 1]
        /\ j + 1 \in 1 .. Len(queue) /\ queue'[j] = queue[j + 1]
    BY <1>6 DEF Kept
  <2>2. i + 1 = j + 1
    BY <2>1 DEF SignatureInv, Requests, RequestsUnique
  <2> QED
    BY <1>2, <1>5, <2>2
<1> QED
  BY <1>1, <1>5, <1>7, <1>8, <1>9
     DEF SignatureInv, Requests, QueueGone, SignatureNeverPanics

LEMMA RequestSignatureKeepsSignatureInv ==
    ASSUME SignatureInv, TypeOK',
           NEW c \in Conns, NEW p \in Peers, RequestSignature(c, p)
    PROVE  SignatureInv'
<1>1. /\ queue \in Seq(Events)
      /\ phase \in [Conns -> Phases]
      /\ Post("SignatureRequest", c, 0)
      /\ UNCHANGED <<engine, signature>>
      /\ phase[c] \in {"dialing", "accepting"}
      /\ ~signature[c]
  BY DEF SignatureInv, TypeOK, Requests, NoEarlySignature, RequestSignature
<1>2. CASE engine = "up"
  <2>1. phase'[c] \in Signing /\ \A d \in Conns \ {c} : phase'[d] = phase[d]
    BY <1>1, <1>2 DEF RequestSignature, Goto, Signing
  <2>2. /\ Len(queue) \in Nat
        /\ Len(queue') = Len(queue) + 1
        /\ queue'[Len(queue) + 1].conn = c
        /\ \A i \in 1 .. Len(queue) : queue'[i] = queue[i]
    <3>1. "SignatureRequest" \in EventKinds /\ 0 \in Nat
      BY DEF EventKinds
    <3>2. Event("SignatureRequest", c, 0).conn = c
      BY DEF Event
    <3> QED
      BY <1>1, <1>2, <3>1, <3>2, PostEntries
  <2>3. \A i \in 1 .. Len(queue) :
            IsRequest(queue[i]) => /\ queue[i].conn \in Conns \ {c}
                                   /\ Waiting(queue[i].conn)
    <3>1. ~Waiting(c)
      BY <1>1 DEF Waiting, Signing
    <3> QED
      BY <1>1, <3>1, EntryType DEF SignatureInv, Requests, RequestsWaiting
  <2>4. NoEarlySignature'
    BY <1>1, <2>1 DEF SignatureInv, Requests, NoEarlySignature, Signing
  <2>5. RequestsWaiting'
    BY <1>1, <2>1, <2>2, <2>3 DEF RequestsWaiting, IsRequest, Waiting
  <2>6. RequestsUnique'
    BY <2>2, <2>3 DEF SignatureInv, Requests, RequestsUnique, IsRequest
  <2> QED
    BY <1>1, <1>2, <2>4, <2>5, <2>6
       DEF SignatureInv, Requests, QueueGone, SignatureNeverPanics
<1>3. CASE engine # "up"
  <2>1. queue' = << >>
    BY <1>1, <1>3 DEF SignatureInv, QueueGone, Post
  <2>2. phase' = [phase EXCEPT ![c] = "ended"]
    BY <1>3 DEF RequestSignature, Goto
  <2>3. \A d \in Conns : phase'[d] \in {"idle", "dialing", "accepting"}
                              => phase'[d] = phase[d]
    BY <1>1, <2>2
  <2> QED
    BY <1>1, <1>3, <2>1, <2>3, GoneStep DEF SignatureInv, SignatureNeverPanics
<1> QED
  BY <1>2, <1>3

LEMMA SignatureInvStep ==
    ASSUME SignatureInv, [Next]_vars
    PROVE  SignatureInv'
<1>0. TypeOK /\ TypeOK'
  BY TypeOKStep DEF SignatureInv
<1>1. CASE Drop
  <2>1. UNCHANGED <<phase, signature>> /\ queue' = << >> /\ engine' = "dropped"
    BY <1>1 DEF Drop, EngineGone
  <2> QED
    BY <1>0, <2>1, GoneStep
<1>2. ASSUME NEW c \in Conns, HandleIncoming(c)
      PROVE  SignatureInv'
  <2>1. Steady
    BY <1>0, <1>2
       DEF Steady, Waiting, Signing, Handshake, HandleIncoming, Goto, TypeOK
  <2>2. UNCHANGED <<engine, queue>>
    BY <1>2 DEF HandleIncoming
  <2> QED
    BY <1>0, <2>1, <2>2, KeptUnchanged, SteadyStep
<1>3. ASSUME NEW c \in Conns, NEW p \in Peers, Connect(c, p)
      PROVE  SignatureInv'
  <2>1. Steady
    BY <1>0, <1>3
       DEF Steady, Waiting, Signing, Handshake, Connect, Goto, TypeOK
  <2>2. UNCHANGED <<engine, queue>>
    BY <1>3 DEF Connect
  <2> QED
    BY <1>0, <2>1, <2>2, KeptUnchanged, SteadyStep
<1>4. ASSUME NEW p \in Peers, SendMessage(p)
      PROVE  SignatureInv'
  <2>1. Steady
    BY <1>0, <1>4
       DEF Steady, Waiting, Signing, Handshake, SendMessage
  <2>2. UNCHANGED <<engine, queue>>
    BY <1>4 DEF SendMessage
  <2> QED
    BY <1>0, <2>1, <2>2, KeptUnchanged, SteadyStep
<1>5. ASSUME NEW p \in Peers, SendConnectionAuthorized(p)
      PROVE  SignatureInv'
  BY <1>0, <1>5, SendOrPanicKeepsSignatureInv
     DEF SendConnectionAuthorized, Commands
<1>6. ASSUME NEW p \in Peers, Disconnect(p)
      PROVE  SignatureInv'
  BY <1>0, <1>6, SendOrPanicKeepsSignatureInv DEF Disconnect, Commands
<1>7. CASE HandleNewConnection
  <2>1. Steady
    BY <1>0, <1>7
       DEF Steady, Waiting, Signing, Handshake, HandleNewConnection
  <2>2. UNCHANGED engine /\ Kept(1) /\ QueueGone'
    BY <1>7, KeptTake DEF HandleNewConnection
  <2> QED
    BY <1>0, <2>1, <2>2, SteadyStep
<1>8. CASE HandleSignatureRequest
  BY <1>0, <1>8, HandleSignatureRequestKeepsSignatureInv
<1>9. CASE HandleMessage
  <2>1. Steady
    BY <1>0, <1>9
       DEF Steady, Waiting, Signing, Handshake, HandleMessage
  <2>2. UNCHANGED engine /\ Kept(1) /\ QueueGone'
    BY <1>9, KeptTake DEF HandleMessage
  <2> QED
    BY <1>0, <2>1, <2>2, SteadyStep
<1>10. CASE HandleLog
  <2>1. Steady
    BY <1>0, <1>10
       DEF Steady, Waiting, Signing, Handshake, HandleLog
  <2>2. UNCHANGED engine /\ Kept(1) /\ QueueGone'
    BY <1>10, KeptTake DEF HandleLog
  <2> QED
    BY <1>0, <2>1, <2>2, SteadyStep
<1>11. CASE HandleConnectionClosed
  <2>1. Steady
    BY <1>0, <1>11
       DEF Steady, Waiting, Signing, Handshake, HandleConnectionClosed
  <2>2. UNCHANGED engine /\ Kept(1) /\ QueueGone'
    BY <1>11, KeptTake DEF HandleConnectionClosed
  <2> QED
    BY <1>0, <2>1, <2>2, SteadyStep
<1>12. ASSUME NEW c \in Conns, ReceiveSignature(c)
      PROVE  SignatureInv'
  <2>1. Steady
    BY <1>0, <1>12
       DEF Steady, Waiting, Signing, Handshake, ReceiveSignature, Goto, TypeOK
  <2>2. UNCHANGED <<engine, queue>>
    BY <1>12 DEF ReceiveSignature
  <2> QED
    BY <1>0, <2>1, <2>2, KeptUnchanged, SteadyStep
<1>13. ASSUME NEW c \in Conns, AbandonSignature(c)
      PROVE  SignatureInv'
  <2>1. queue' = << >> /\ engine' # "signature panic" /\ UNCHANGED signature
    BY <1>13 DEF AbandonSignature, SignatureInv, QueueGone, SignatureNeverPanics
  <2>2. phase' = [phase EXCEPT ![c] = "ended"]
    BY <1>13 DEF AbandonSignature, Goto
  <2>3. \A d \in Conns : phase'[d] \in {"idle", "dialing", "accepting"}
                              => phase'[d] = phase[d]
    BY <1>0, <2>2 DEF TypeOK
  <2> QED
    BY <1>0, <2>1, <2>3, GoneStep
<1>14. ASSUME NEW c \in Conns, CloseAfterError(c)
      PROVE  SignatureInv'
  <2>1. Steady
    BY <1>0, <1>14
       DEF Steady, Waiting, Signing, Handshake, CloseAfterError, Goto, TypeOK
  <2>2. UNCHANGED engine /\ Kept(0) /\ QueueGone'
    BY <1>14, KeptPost DEF CloseAfterError, EventKinds
  <2> QED
    BY <1>0, <2>1, <2>2, SteadyStep
<1>15. ASSUME NEW c \in Conns, BeginWrite(c)
      PROVE  SignatureInv'
  <2>1. Steady
    BY <1>0, <1>15
       DEF Steady, Waiting, Signing, Handshake, BeginWrite, TakeCommand, Goto, TypeOK
  <2>2. UNCHANGED <<engine, queue>>
    BY <1>15 DEF BeginWrite, TakeCommand
  <2> QED
    BY <1>0, <2>1, <2>2, KeptUnchanged, SteadyStep
<1>16. ASSUME NEW c \in Conns, Close(c)
      PROVE  SignatureInv'
  <2>1. Steady
    BY <1>0, <1>16
       DEF Steady, Waiting, Signing, Handshake, Close, TakeCommand, Goto, TypeOK
  <2>2. UNCHANGED engine /\ Kept(0) /\ QueueGone'
    BY <1>16, KeptPost DEF Close, TakeCommand, EventKinds
  <2> QED
    BY <1>0, <2>1, <2>2, SteadyStep
<1>17. ASSUME NEW c \in Conns, DropConnection(c)
      PROVE  SignatureInv'
  <2>1. Steady
    BY <1>0, <1>17
       DEF Steady, Waiting, Signing, Handshake, DropConnection, Goto, TypeOK
  <2>2. UNCHANGED <<engine, queue>>
    BY <1>17 DEF DropConnection
  <2> QED
    BY <1>0, <2>1, <2>2, KeptUnchanged, SteadyStep
<1>18. ASSUME NEW c \in Conns, WriteSucceeds(c)
      PROVE  SignatureInv'
  <2>1. Steady
    BY <1>0, <1>18
       DEF Steady, Waiting, Signing, Handshake, WriteSucceeds, Goto, TypeOK
  <2>2. UNCHANGED <<engine, queue>>
    BY <1>18 DEF WriteSucceeds
  <2> QED
    BY <1>0, <2>1, <2>2, KeptUnchanged, SteadyStep
<1>19. ASSUME NEW c \in Conns, WriteFails(c)
      PROVE  SignatureInv'
  <2>1. Steady
    BY <1>0, <1>19
       DEF Steady, Waiting, Signing, Handshake, WriteFails, Goto, TypeOK
  <2>2. UNCHANGED engine /\ Kept(0) /\ QueueGone'
    BY <1>19, KeptPost DEF WriteFails, EventKinds
  <2> QED
    BY <1>0, <2>1, <2>2, SteadyStep
<1>20. ASSUME NEW c \in Conns, NEW p \in Peers, RequestSignature(c, p)
      PROVE  SignatureInv'
  BY <1>0, <1>20, RequestSignatureKeepsSignatureInv
<1>21. ASSUME NEW c \in Conns, VerifyPeer(c)
      PROVE  SignatureInv'
  <2>1. Steady
    BY <1>0, <1>21
       DEF Steady, Waiting, Signing, Handshake, VerifyPeer, Goto, TypeOK
  <2>2. UNCHANGED <<engine, queue>>
    BY <1>21 DEF VerifyPeer
  <2> QED
    BY <1>0, <2>1, <2>2, KeptUnchanged, SteadyStep
<1>22. ASSUME NEW c \in Conns, HandshakeFails(c)
      PROVE  SignatureInv'
  <2>1. Steady
    BY <1>0, <1>22
       DEF Steady, Waiting, Signing, Handshake, HandshakeFails, Goto, TypeOK
  <2>2. UNCHANGED engine /\ Kept(0) /\ QueueGone'
    BY <1>22, KeptPost DEF HandshakeFails, EventKinds
  <2> QED
    BY <1>0, <2>1, <2>2, SteadyStep
<1>23. ASSUME NEW c \in Conns, Announce(c)
      PROVE  SignatureInv'
  <2>1. Steady
    BY <1>0, <1>23
       DEF Steady, Waiting, Signing, Handshake, Announce, Goto, TypeOK
  <2>2. UNCHANGED engine /\ Kept(0) /\ QueueGone'
    BY <1>23, KeptPost DEF Announce, EventKinds
  <2> QED
    BY <1>0, <2>1, <2>2, SteadyStep
<1>24. ASSUME NEW c \in Conns, ReadMessage(c)
      PROVE  SignatureInv'
  <2>1. Steady
    BY <1>0, <1>24
       DEF Steady, Waiting, Signing, Handshake, ReadMessage
  <2>2. received[c] \in Nat
    BY <1>0, <1>24 DEF TypeOK
  <2>3. received[c] + 1 \in Nat
    BY <2>2
  <2>4. UNCHANGED engine /\ Kept(0) /\ QueueGone'
    BY <1>24, <2>3, KeptPost DEF ReadMessage, EventKinds
  <2> QED
    BY <1>0, <2>1, <2>4, SteadyStep
<1>25. ASSUME NEW c \in Conns, ReadEndOfFile(c)
      PROVE  SignatureInv'
  <2>1. Steady
    BY <1>0, <1>25
       DEF Steady, Waiting, Signing, Handshake, ReadEndOfFile, Goto, TypeOK
  <2>2. UNCHANGED engine /\ Kept(0) /\ QueueGone'
    BY <1>25, KeptPost DEF ReadEndOfFile, EventKinds
  <2> QED
    BY <1>0, <2>1, <2>2, SteadyStep
<1>26. ASSUME NEW c \in Conns, ReadError(c)
      PROVE  SignatureInv'
  <2>1. Steady
    BY <1>0, <1>26
       DEF Steady, Waiting, Signing, Handshake, ReadError, Goto, TypeOK
  <2>2. UNCHANGED engine /\ Kept(0) /\ QueueGone'
    BY <1>26, KeptPost DEF ReadError, EventKinds
  <2> QED
    BY <1>0, <2>1, <2>2, SteadyStep
<1>27. CASE UNCHANGED vars
  <2>1. Steady /\ UNCHANGED <<engine, queue>>
    BY <1>27 DEF vars, Steady, Waiting
  <2> QED
    BY <1>0, <2>1, KeptUnchanged, SteadyStep
<1> QED
  BY <1>1, <1>2, <1>3, <1>4, <1>5, <1>6, <1>7, <1>8, <1>9, <1>10, <1>11,
     <1>12, <1>13, <1>14, <1>15, <1>16, <1>17, <1>18, <1>19, <1>20, <1>21,
     <1>22, <1>23, <1>24, <1>25, <1>26, <1>27
  DEF Next, GetEvent, Application, TaskStep, WriteDone, NetworkStep

\* handle_engine_event never unwraps an answer that nobody waits for: whatever
\* the order in which tasks, application and engine run, a task waits from the
\* moment its request is queued until it is answered or the engine is gone.
THEOREM SignatureSafe == Spec => []SignatureNeverPanics
<1>1. Init => SignatureInv
  <2> SUFFICES ASSUME Init PROVE SignatureInv
    OBVIOUS
  <2>1. TypeOK
    BY TypeOKInit
  <2>2. \A i \in 1 .. Len(queue) : FALSE
    BY EmptyEntries DEF Init
  <2>3. RequestsWaiting /\ RequestsUnique
    BY <2>2 DEF RequestsWaiting, RequestsUnique
  <2>4. NoEarlySignature /\ QueueGone /\ SignatureNeverPanics
    BY DEF Init, NoEarlySignature, QueueGone, SignatureNeverPanics
  <2> QED
    BY <2>1, <2>3, <2>4 DEF SignatureInv, Requests
<1>2. SignatureInv /\ [Next]_vars => SignatureInv'
  BY SignatureInvStep
<1>3. SignatureInv => SignatureNeverPanics
  BY DEF SignatureInv
<1> QED
  BY <1>1, <1>2, <1>3, PTL DEF Spec

=============================================================================
