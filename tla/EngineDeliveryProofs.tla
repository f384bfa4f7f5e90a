------------------------ MODULE EngineDeliveryProofs ------------------------
(***************************************************************************)
(* Proofs about what the application of an Engine is told of its           *)
(* connections and which of them it can address, for any number of peers   *)
(* and connections and any bounds.                                         *)
(*                                                                         *)
(* The events that matter are the reports: NewConnection, Message and      *)
(* ConnectionClosed.  Every step of Engine is first brought to one of a    *)
(* few kinds by what it does to the queued reports (StepKinds); the parts  *)
(* of the invariant are then shown to survive each kind.                   *)
(***************************************************************************)
EXTENDS EngineProofs

-----------------------------------------------------------------------------
(* What a step does to the reports. *)

Reports == {"NewConnection", "Message", "ConnectionClosed"}

IsReport(e) == e.kind \in Reports

\* Where a connection has not been announced yet, and where it is over.
Before == {"idle"} \cup Signing \cup Handshake
Over   == {"closing", "ended"}

\* The reports in the queue stay as they are, each shift places further on.
Shifted(shift) ==
    /\ \A i \in 1 .. Len(queue') : IsReport(queue'[i]) =>
        /\ i + shift \in 1 .. Len(queue)
        /\ queue'[i] = queue[i + shift]
    /\ \A i \in 1 .. Len(queue) : IsReport(queue[i]) =>
        /\ i - shift \in 1 .. Len(queue')
        /\ queue'[i - shift] = queue[i]

\* Tasks go forward, none is announced and none that was changes its peer.
Forward ==
    \A c \in Conns :
        /\ phase[c] \in Before => phase'[c] \in Before \cup Over
        /\ phase[c] \notin Before => phase'[c] \notin Before /\ peer'[c] = peer[c]
        /\ phase[c] \in Over => phase'[c] \in Over

\* A step that neither sends nor takes a report.
Quiet(shift) ==
    /\ Shifted(shift)
    /\ Forward
    /\ UNCHANGED <<engine, channels, view, seen, rivals>>
    /\ \A c \in Conns : /\ received'[c] >= received[c]
                        /\ engine = "up" => received'[c] = received[c]

\* The engine goes, and the queue and its map with it.
Vanish ==
    /\ engine' # "up"
    /\ queue' = << >>
    /\ channels' = [p \in Peers |-> None]
    /\ UNCHANGED <<phase, peer, received, view, seen, rivals>>

\* An event is sent to an engine that is there to take it.
Sent(k, c, n) ==
    /\ Len(queue') = Len(queue) + 1
    /\ \A i \in 1 .. Len(queue) : queue'[i] = queue[i]
    /\ queue'[Len(queue) + 1].kind = k
    /\ queue'[Len(queue) + 1].conn = c
    /\ queue'[Len(queue) + 1].seq = n

\* The first event is taken.
Taken ==
    /\ 1 \in 1 .. Len(queue)
    /\ Head(queue) = queue[1]
    /\ Len(queue') = Len(queue) - 1
    /\ \A i \in 1 .. Len(queue) - 1 : queue'[i] = queue[i + 1]

LEMMA QueueType ==
    ASSUME SignatureInv
    PROVE  /\ queue \in Seq(Events)
           /\ Len(queue) \in Nat
           /\ \A i \in 1 .. Len(queue) : queue[i].conn \in Conns
  BY EntryType DEF SignatureInv, TypeOK

LEMMA EmptyGone ==
    ASSUME SignatureInv, engine # "up"
    PROVE  queue = << >> /\ Len(queue) = 0 /\ \A i \in 1 .. Len(queue) : FALSE
<1>1. queue = << >>
  BY DEF SignatureInv, QueueGone
<1> QED
  BY <1>1, EmptyEntries

LEMMA SentPost ==
    ASSUME SignatureInv, engine = "up",
           NEW k \in EventKinds, NEW c \in Conns, NEW n \in Nat, Post(k, c, n)
    PROVE  Sent(k, c, n)
<1>1. Event(k, c, n).kind = k /\ Event(k, c, n).conn = c /\ Event(k, c, n).seq = n
  BY EventType
<1>2. /\ Len(queue') = Len(queue) + 1
      /\ queue'[Len(queue) + 1] = Event(k, c, n)
      /\ \A i \in 1 .. Len(queue) : queue'[i] = queue[i]
  BY QueueType, PostEntries
<1> QED
  BY <1>1, <1>2 DEF Sent

LEMMA TakenTake ==
    ASSUME SignatureInv, NEW k, Take(k), queue' = Tail(queue)
    PROVE  Taken /\ engine = "up" /\ queue[1].kind = k
<1>1. queue \in Seq(Events) /\ queue # << >>
  BY QueueType DEF Take
<1>2. /\ Len(queue) \in Nat \ {0}
      /\ Head(queue) = queue[1]
      /\ Len(Tail(queue)) = Len(queue) - 1
      /\ \A i \in 1 .. Len(queue) - 1 : Tail(queue)[i] = queue[i + 1]
  BY <1>1, TailEntries
<1> QED
  BY <1>2 DEF Taken, Take

LEMMA ShiftedUnchanged ==
    ASSUME SignatureInv, UNCHANGED queue
    PROVE  Shifted(0)
  BY QueueType DEF Shifted

LEMMA ShiftedPost ==
    ASSUME SignatureInv, NEW k \in EventKinds \ Reports,
           NEW c \in Conns, NEW n \in Nat, Post(k, c, n)
    PROVE  Shifted(0)
<1>1. CASE engine = "up"
  <2>1. Sent(k, c, n)
    BY <1>1, SentPost
  <2>2. ~IsReport(queue'[Len(queue) + 1])
    BY <2>1 DEF Sent, IsReport
  <2> QED
    BY <2>1, <2>2, QueueType DEF Sent, Shifted
<1>2. CASE engine # "up"
  BY <1>2, ShiftedUnchanged DEF Post
<1> QED
  BY <1>1, <1>2

LEMMA ShiftedTake ==
    ASSUME SignatureInv, NEW k, k \notin Reports, Take(k), queue' = Tail(queue)
    PROVE  Shifted(1)
<1>1. Taken /\ queue[1].kind = k
  BY TakenTake
<1>2. ~IsReport(queue[1])
  BY <1>1 DEF IsReport
<1> QED
  BY <1>1, <1>2, QueueType DEF Taken, Shifted

\* A report that is sent to an engine that is gone is lost.
LEMMA UnheardPost ==
    ASSUME SignatureInv, engine # "up", NEW k, NEW c, NEW n, Post(k, c, n)
    PROVE  Shifted(0)
  BY ShiftedUnchanged DEF Post

LEMMA SendOrPanicKind ==
    ASSUME SignatureInv, NEW p \in Peers, NEW command \in Commands,
           SendOrPanic(p, command)
    PROVE  Quiet(0) \/ Vanish
<1>1. CASE phase[channels[p]] \in Receiving
  <2>1. UNCHANGED <<engine, queue, channels, phase, peer, received, view, seen,
                    rivals>>
    BY <1>1 DEF SendOrPanic
  <2>2. Forward
    BY <2>1 DEF Forward
  <2>3. \A c \in Conns : received[c] \in Nat
    BY DEF SignatureInv, TypeOK
  <2> QED
    BY <2>1, <2>2, <2>3, ShiftedUnchanged DEF Quiet
<1>2. CASE phase[channels[p]] \notin Receiving
  BY <1>2 DEF SendOrPanic, EngineGone, Vanish
<1> QED
  BY <1>1, <1>2

\* The kinds of steps: every step either leaves the reports alone, or ends the
\* engine, or sends one report to a running engine, or handles one.
StepKind ==
    \/ Quiet(0)
    \/ Quiet(1)
    \/ Vanish
    \/ \E c \in Conns : engine = "up" /\ Announce(c)
    \/ \E c \in Conns : engine = "up" /\ ReadMessage(c)
    \/ \E c \in Conns : engine = "up" /\ (ReadEndOfFile(c) \/
       CloseAfterError(c))
    \/ HandleNewConnection
    \/ HandleMessage
    \/ HandleConnectionClosed

LEMMA StepKinds ==
    ASSUME SignatureInv, [Next]_vars
    PROVE  StepKind
<1>0. /\ phase \in [Conns -> Phases]
      /\ peer \in [Conns -> Peers \cup {None}]
      /\ received \in [Conns -> Nat]
      /\ \A c \in Conns : received[c] \in Nat
  BY DEF SignatureInv, TypeOK
<1>1. CASE Drop
  BY <1>1 DEF Drop, EngineGone, Vanish, StepKind
<1>2. ASSUME NEW c \in Conns, HandleIncoming(c)
      PROVE  StepKind
  <2>1. Forward
    BY <1>0, <1>2 DEF Forward, Before, Over, Live, Signing, Handshake,
       HandleIncoming, Goto
  <2>2. Shifted(0)
    BY <1>2, ShiftedUnchanged DEF HandleIncoming
  <2> QED
    BY <1>0, <1>2, <2>1, <2>2 DEF Quiet, StepKind, HandleIncoming
<1>3. ASSUME NEW c \in Conns, NEW p \in Peers, Connect(c, p)
      PROVE  StepKind
  <2>1. Forward
    BY <1>0, <1>3 DEF Forward, Before, Over, Live, Signing, Handshake,
       Connect, Goto
  <2>2. Shifted(0)
    BY <1>3, ShiftedUnchanged DEF Connect
  <2> QED
    BY <1>0, <1>3, <2>1, <2>2 DEF Quiet, StepKind, Connect
<1>4. ASSUME NEW p \in Peers, SendMessage(p)
      PROVE  StepKind
  <2>1. Forward /\ Shifted(0)
    BY <1>4, ShiftedUnchanged DEF Forward, SendMessage
  <2> QED
    BY <1>0, <1>4, <2>1 DEF Quiet, StepKind, SendMessage
<1>5. ASSUME NEW p \in Peers, SendConnectionAuthorized(p)
      PROVE  StepKind
  BY <1>5, SendOrPanicKind DEF SendConnectionAuthorized, Commands, StepKind
<1>6. ASSUME NEW p \in Peers, Disconnect(p)
      PROVE  StepKind
  BY <1>6, SendOrPanicKind DEF Disconnect, Commands, StepKind
<1>7. CASE HandleNewConnection
  BY <1>7 DEF StepKind
<1>8. CASE HandleSignatureRequest
  <2>1. CASE phase[Head(queue).conn] \in Signing
    <3>1. Forward
      BY <1>8 DEF Forward, HandleSignatureRequest
    <3>2. Shifted(1)
      BY <1>8, <2>1, ShiftedTake DEF HandleSignatureRequest, Reports
    <3> QED
      BY <1>0, <1>8, <2>1, <3>1, <3>2 DEF Quiet, StepKind,
         HandleSignatureRequest
  <2>2. CASE phase[Head(queue).conn] \notin Signing
    BY <1>8, <2>2 DEF HandleSignatureRequest, EngineGone, Vanish, StepKind
  <2> QED
    BY <2>1, <2>2
<1>9. CASE HandleMessage
  BY <1>9 DEF StepKind
<1>10. CASE HandleLog
  <2>1. Forward
    BY <1>10 DEF Forward, HandleLog
  <2>2. Shifted(1)
    BY <1>10, ShiftedTake DEF HandleLog, Reports
  <2> QED
    BY <1>0, <1>10, <2>1, <2>2 DEF Quiet, StepKind, HandleLog
<1>11. CASE HandleConnectionClosed
  BY <1>11 DEF StepKind
<1>12. ASSUME NEW c \in Conns, ReceiveSignature(c)
      PROVE  StepKind
  <2>1. Forward
    BY <1>0, <1>12 DEF Forward, Before, Over, Live, Signing, Handshake,
       ReceiveSignature, Goto
  <2>2. Shifted(0)
    BY <1>12, ShiftedUnchanged DEF ReceiveSignature
  <2> QED
    BY <1>0, <1>12, <2>1, <2>2 DEF Quiet, StepKind, ReceiveSignature
<1>13. ASSUME NEW c \in Conns, AbandonSignature(c)
      PROVE  StepKind
  <2>1. Forward
    BY <1>0, <1>13 DEF Forward, Before, Over, Live, Signing, Handshake,
       AbandonSignature, Goto
  <2>2. Shifted(0)
    BY <1>13, ShiftedUnchanged DEF AbandonSignature
  <2> QED
    BY <1>0, <1>13, <2>1, <2>2 DEF Quiet, StepKind, AbandonSignature
<1>14. ASSUME NEW c \in Conns, CloseAfterError(c)
      PROVE  StepKind
  <2>1. CASE engine # "up"
    <3>1. Forward
      BY <1>0, <1>14, <2>1 DEF Forward, Before, Over, Live, Signing,
         Handshake, CloseAfterError, Goto
    <3>2. Shifted(0)
      BY <1>14, <2>1, UnheardPost DEF CloseAfterError, EventKinds, Reports
    <3> QED
      BY <1>0, <1>14, <2>1, <3>1, <3>2 DEF Quiet, StepKind, CloseAfterError
  <2> QED
    BY <1>14, <2>1 DEF StepKind
<1>15. ASSUME NEW c \in Conns, BeginWrite(c)
      PROVE  StepKind
  <2>1. Forward
    BY <1>0, <1>15 DEF Forward, Before, Over, Live, Signing, Handshake,
       BeginWrite, Goto, TakeCommand
  <2>2. Shifted(0)
    BY <1>15, ShiftedUnchanged DEF BeginWrite, TakeCommand
  <2> QED
    BY <1>0, <1>15, <2>1, <2>2 DEF Quiet, StepKind, BeginWrite, TakeCommand
<1>16. ASSUME NEW c \in Conns, Close(c)
      PROVE  StepKind
  <2>1. Forward
    BY <1>0, <1>16 DEF Forward, Before, Over, Live, Signing, Handshake, Close,
       Goto, TakeCommand
  <2>2. Shifted(0)
    BY <1>16, ShiftedPost DEF Close, TakeCommand, EventKinds, Reports
  <2> QED
    BY <1>0, <1>16, <2>1, <2>2 DEF Quiet, StepKind, Close, TakeCommand
<1>17. ASSUME NEW c \in Conns, DropConnection(c)
      PROVE  StepKind
  <2>1. Forward
    BY <1>0, <1>17 DEF Forward, Before, Over, Live, Signing, Handshake,
       DropConnection, Goto
  <2>2. Shifted(0)
    BY <1>17, ShiftedUnchanged DEF DropConnection
  <2> QED
    BY <1>0, <1>17, <2>1, <2>2 DEF Quiet, StepKind, DropConnection
<1>18. ASSUME NEW c \in Conns, WriteSucceeds(c)
      PROVE  StepKind
  <2>1. Forward
    BY <1>0, <1>18 DEF Forward, Before, Over, Live, Signing, Handshake,
       WriteSucceeds, Goto
  <2>2. Shifted(0)
    BY <1>18, ShiftedUnchanged DEF WriteSucceeds
  <2> QED
    BY <1>0, <1>18, <2>1, <2>2 DEF Quiet, StepKind, WriteSucceeds
<1>19. ASSUME NEW c \in Conns, WriteFails(c)
      PROVE  StepKind
  <2>1. Forward
    BY <1>0, <1>19 DEF Forward, Before, Over, Live, Signing, Handshake,
       WriteFails, Goto
  <2>2. Shifted(0)
    BY <1>19, ShiftedPost DEF WriteFails, EventKinds, Reports
  <2> QED
    BY <1>0, <1>19, <2>1, <2>2 DEF Quiet, StepKind, WriteFails
<1>20. ASSUME NEW c \in Conns, NEW p \in Peers, RequestSignature(c, p)
      PROVE  StepKind
  <2>1. Forward
    BY <1>0, <1>20 DEF Forward, Before, Over, Live, Signing, Handshake,
       RequestSignature, Goto
  <2>2. Shifted(0)
    BY <1>20, ShiftedPost DEF RequestSignature, EventKinds, Reports
  <2> QED
    BY <1>0, <1>20, <2>1, <2>2 DEF Quiet, StepKind, RequestSignature
<1>21. ASSUME NEW c \in Conns, VerifyPeer(c)
      PROVE  StepKind
  <2>1. Forward
    BY <1>0, <1>21 DEF Forward, Before, Over, Live, Signing, Handshake,
       VerifyPeer, Goto
  <2>2. Shifted(0)
    BY <1>21, ShiftedUnchanged DEF VerifyPeer
  <2> QED
    BY <1>0, <1>21, <2>1, <2>2 DEF Quiet, StepKind, VerifyPeer
<1>22. ASSUME NEW c \in Conns, HandshakeFails(c)
      PROVE  StepKind
  <2>1. Forward
    BY <1>0, <1>22 DEF Forward, Before, Over, Live, Signing, Handshake,
       HandshakeFails, Goto
  <2>2. Shifted(0)
    BY <1>22, ShiftedPost DEF HandshakeFails, EventKinds, Reports
  <2> QED
    BY <1>0, <1>22, <2>1, <2>2 DEF Quiet, StepKind, HandshakeFails
<1>23. ASSUME NEW c \in Conns, Announce(c)
      PROVE  StepKind
  <2>1. CASE engine # "up"
    <3>1. Forward
      BY <1>0, <1>23, <2>1 DEF Forward, Before, Over, Live, Signing,
         Handshake, Announce, Goto
    <3>2. Shifted(0)
      BY <1>23, <2>1, UnheardPost DEF Announce, EventKinds, Reports
    <3> QED
      BY <1>0, <1>23, <2>1, <3>1, <3>2 DEF Quiet, StepKind, Announce
  <2> QED
    BY <1>23, <2>1 DEF StepKind
<1>24. ASSUME NEW c \in Conns, ReadMessage(c)
      PROVE  StepKind
  <2>1. CASE engine # "up"
    <3>1. Forward
      BY <1>0, <1>24, <2>1 DEF Forward, Before, Over, Live, Signing,
         Handshake, ReadMessage, Goto
    <3>2. Shifted(0)
      BY <1>24, <2>1, UnheardPost DEF ReadMessage, EventKinds, Reports
    <3> QED
      BY <1>0, <1>24, <2>1, <3>1, <3>2 DEF Quiet, StepKind, ReadMessage
  <2> QED
    BY <1>24, <2>1 DEF StepKind
<1>25. ASSUME NEW c \in Conns, ReadEndOfFile(c)
      PROVE  StepKind
  <2>1. CASE engine # "up"
    <3>1. Forward
      BY <1>0, <1>25, <2>1 DEF Forward, Before, Over, Live, Signing,
         Handshake, ReadEndOfFile, Goto
    <3>2. Shifted(0)
      BY <1>25, <2>1, UnheardPost DEF ReadEndOfFile, EventKinds, Reports
    <3> QED
      BY <1>0, <1>25, <2>1, <3>1, <3>2 DEF Quiet, StepKind, ReadEndOfFile
  <2> QED
    BY <1>25, <2>1 DEF StepKind
<1>26. ASSUME NEW c \in Conns, ReadError(c)
      PROVE  StepKind
  <2>1. Forward
    BY <1>0, <1>26 DEF Forward, Before, Over, Live, Signing, Handshake,
       ReadError, Goto
  <2>2. Shifted(0)
    BY <1>26, ShiftedPost DEF ReadError, EventKinds, Reports
  <2> QED
    BY <1>0, <1>26, <2>1, <2>2 DEF Quiet, StepKind, ReadError
<1>27. CASE UNCHANGED vars
  <2>1. Forward /\ Shifted(0)
    BY <1>27, ShiftedUnchanged DEF vars, Forward
  <2> QED
    BY <1>0, <1>27, <2>1 DEF vars, Quiet, StepKind
<1> QED
  BY <1>1, <1>2, <1>3, <1>4, <1>5, <1>6, <1>7, <1>8, <1>9, <1>10, <1>11,
     <1>12, <1>13, <1>14, <1>15, <1>16, <1>17, <1>18, <1>19, <1>20, <1>21,
        <1>22, <1>23, <1>24, <1>25, <1>26, <1>27
  DEF Next, GetEvent, Application, TaskStep, WriteDone, NetworkStep

-----------------------------------------------------------------------------
(* What the application has been told, and what is queued to be told.       *)

\* Nothing is said of a connection before it is announced.
Unannounced == \A c \in Conns : phase[c] \in Before => view[c] = "unseen"

\* What was said of a connection was said when its peer was known.
Acquainted == \A c \in Conns : view[c] # "unseen" => peer[c] \in Peers

\* A connection is only reported closed when it is over.
ClosedOver == \A c \in Conns : view[c] = "closed" => phase[c] \in Over

\* A queued report fits the phase of its task and what was reported before.
ReportsFit ==
    \A i \in 1 .. Len(queue) : IsReport(queue[i]) =>
        /\ phase[queue[i].conn] \notin Before
        /\ peer[queue[i].conn] \in Peers
        /\ view[queue[i].conn] # "closed"
        /\ queue[i].kind = "NewConnection" => view[queue[i].conn] = "unseen"
        /\ queue[i].kind = "ConnectionClosed" => phase[queue[i].conn] \in Over

\* Before a message or the closing of a connection comes its NewConnection.
Introduced ==
    \A i \in 1 .. Len(queue) :
        queue[i].kind \in {"Message", "ConnectionClosed"} =>
            \/ view[queue[i].conn] = "open"
            \/ \E j \in 1 .. i - 1 : /\ queue[j].kind = "NewConnection"
                                     /\ queue[j].conn = queue[i].conn

\* A live connection was announced, or its announcement is queued.
LiveAnnounced ==
    engine = "up" =>
        \A c \in Conns : phase[c] \in Live =>
            \/ view[c] = "open"
            \/ \E j \in 1 .. Len(queue) : /\ queue[j].kind = "NewConnection"
                                          /\ queue[j].conn = c

\* Of one connection NewConnection comes first and ConnectionClosed last.
ReportsOrdered ==
    \A i, j \in 1 .. Len(queue) :
        /\ i < j
        /\ IsReport(queue[i]) /\ IsReport(queue[j])
        /\ queue[i].conn = queue[j].conn
        => queue[i].kind # "ConnectionClosed" /\ queue[j].kind # "NewConnection"

Telling ==
    /\ Unannounced
    /\ Acquainted
    /\ ClosedOver
    /\ ReportsFit
    /\ Introduced
    /\ LiveAnnounced
    /\ ReportsOrdered

LEMMA LiveNeither ==
    ASSUME NEW p
    PROVE  /\ p \in Live => p \notin Before /\ p \notin Over
           /\ p \in Before => p \notin Over
  BY DEF Live, Before, Over, Signing, Handshake

\* The parts of Telling that the queue has no say in.
LEMMA ForwardTelling ==
    ASSUME SignatureInv, Telling, Forward, UNCHANGED view
    PROVE  Unannounced' /\ Acquainted' /\ ClosedOver'
<1>1. Unannounced'
  BY DEF Telling, Unannounced, Forward
<1>2. Acquainted'
  BY DEF Telling, Unannounced, Acquainted, Forward
<1>3. ClosedOver'
  BY LiveNeither DEF Telling, ClosedOver, Forward
<1> QED
  BY <1>1, <1>2, <1>3

LEMMA QuietTelling ==
    ASSUME SignatureInv, SignatureInv', Telling,
           NEW shift \in {0, 1}, Quiet(shift)
    PROVE  Telling'
<1>1. Unannounced' /\ Acquainted' /\ ClosedOver'
  BY ForwardTelling DEF Quiet
<1>2. Len(queue) \in Nat /\ Len(queue') \in Nat
  BY QueueType
<1>3. \A i \in 1 .. Len(queue') : IsReport(queue'[i]) =>
          /\ i + shift \in 1 .. Len(queue)
          /\ queue'[i] = queue[i + shift]
          /\ queue'[i].conn \in Conns
  BY QueueType DEF Quiet, Shifted
<1>4. \A i \in 1 .. Len(queue) : IsReport(queue[i]) =>
          i - shift \in 1 .. Len(queue') /\ queue'[i - shift] = queue[i]
  BY DEF Quiet, Shifted
<1>5. ReportsFit'
  <2> SUFFICES ASSUME NEW i \in 1 .. Len(queue'), IsReport(queue'[i])
               PROVE  /\ phase'[queue'[i].conn] \notin Before
                      /\ peer'[queue'[i].conn] \in Peers
                      /\ view'[queue'[i].conn] # "closed"
                      /\ queue'[i].kind = "NewConnection"
                            => view'[queue'[i].conn] = "unseen"
                      /\ queue'[i].kind = "ConnectionClosed"
                            => phase'[queue'[i].conn] \in Over
    BY DEF ReportsFit, IsReport
  <2>1. PICK j \in 1 .. Len(queue) : queue'[i] = queue[j]
    BY <1>3
  <2> QED
    BY <1>3, <2>1 DEF Telling, ReportsFit, Quiet, Forward
<1>6. Introduced'
  <2> SUFFICES ASSUME NEW i \in 1 .. Len(queue'),
                      queue'[i].kind \in {"Message", "ConnectionClosed"}
               PROVE  \/ view'[queue'[i].conn] = "open"
                      \/ \E j \in 1 .. i - 1 :
                            /\ queue'[j].kind = "NewConnection"
                            /\ queue'[j].conn = queue'[i].conn
    BY DEF Introduced
  <2>1. i + shift \in 1 .. Len(queue) /\ queue'[i] = queue[i + shift]
    BY <1>3 DEF IsReport, Reports
  <2>2. CASE view[queue'[i].conn] = "open"
    BY <2>2 DEF Quiet
  <2>3. ASSUME NEW j \in 1 .. i + shift - 1,
               queue[j].kind = "NewConnection", queue[j].conn = queue'[i].conn
        PROVE  \E k \in 1 .. i - 1 : /\ queue'[k].kind = "NewConnection"
                                     /\ queue'[k].conn = queue'[i].conn
    <3>1. j - shift \in 1 .. Len(queue') /\ queue'[j - shift] = queue[j]
      BY <1>2, <1>4, <2>1, <2>3 DEF IsReport, Reports
    <3>2. j - shift \in 1 .. i - 1
      BY <2>3, <3>1
    <3> QED
      BY <2>3, <3>1, <3>2
  <2> QED
    BY <2>1, <2>2, <2>3 DEF Telling, Introduced
<1>7. LiveAnnounced'
  <2> SUFFICES ASSUME engine = "up", NEW c \in Conns, phase'[c] \in Live
               PROVE  \/ view'[c] = "open"
                      \/ \E j \in 1 .. Len(queue') :
                            /\ queue'[j].kind = "NewConnection"
                            /\ queue'[j].conn = c
    BY DEF LiveAnnounced, Quiet
  <2>1. phase[c] \in Live
    <3>1. phase[c] \in Phases
      BY DEF SignatureInv, TypeOK
    <3>2. phase[c] \notin Before /\ phase[c] \notin Over
      BY LiveNeither DEF Quiet, Forward
    <3> QED
      BY <3>1, <3>2 DEF Phases, Before, Over, Receiving
  <2>2. CASE view[c] = "open"
    BY <2>2 DEF Quiet
  <2>3. ASSUME NEW j \in 1 .. Len(queue),
               queue[j].kind = "NewConnection", queue[j].conn = c
        PROVE  \E k \in 1 .. Len(queue') : /\ queue'[k].kind = "NewConnection"
                                           /\ queue'[k].conn = c
    BY <1>4, <2>3 DEF IsReport, Reports
  <2> QED
    BY <2>1, <2>2, <2>3 DEF Telling, LiveAnnounced
<1>8. ReportsOrdered'
  <2> SUFFICES ASSUME NEW i \in 1 .. Len(queue'), NEW j \in 1 .. Len(queue'),
                      i < j, IsReport(queue'[i]), IsReport(queue'[j]),
                      queue'[i].conn = queue'[j].conn
               PROVE  /\ queue'[i].kind # "ConnectionClosed"
                      /\ queue'[j].kind # "NewConnection"
    BY DEF ReportsOrdered, IsReport
  <2>1. /\ i + shift \in 1 .. Len(queue) /\ queue'[i] = queue[i + shift]
        /\ j + shift \in 1 .. Len(queue) /\ queue'[j] = queue[j + shift]
    BY <1>3
  <2>2. i + shift < j + shift
    BY <1>2
  <2> QED
    BY <2>1, <2>2 DEF Telling, ReportsOrdered
<1> QED
  BY <1>1, <1>5, <1>6, <1>7, <1>8 DEF Telling

LEMMA VanishTelling ==
    ASSUME SignatureInv, Telling, Vanish
    PROVE  Telling'
<1>1. Forward
  BY DEF Vanish, Forward
<1>2. Unannounced' /\ Acquainted' /\ ClosedOver'
  BY <1>1, ForwardTelling DEF Vanish
<1>3. \A i \in 1 .. Len(queue') : FALSE
  BY EmptyEntries DEF Vanish
<1>4. ReportsFit' /\ Introduced' /\ ReportsOrdered'
  BY <1>3 DEF ReportsFit, Introduced, ReportsOrdered
<1>5. LiveAnnounced'
  BY DEF Vanish, LiveAnnounced
<1> QED
  BY <1>2, <1>4, <1>5 DEF Telling

\* A task sends a report to the engine.
Speaks(k, c, n) ==
    /\ engine = "up"
    /\ Sent(k, c, n)
    /\ UNCHANGED <<engine, channels, peer, view, seen>>
    /\ \A d \in Conns \ {c} : phase'[d] = phase[d]
    /\ \/ /\ k = "NewConnection"
          /\ phase[c] \in {"awaiting", "replying"}
          /\ phase'[c] = "running"
       \/ k = "Message" /\ phase[c] \in Live /\ phase'[c] = phase[c]
       \/ k = "ConnectionClosed" /\ phase[c] \in Live /\ phase'[c] = "closing"

LEMMA SpeaksTelling ==
    ASSUME SignatureInv, Telling,
           NEW k, NEW c \in Conns, NEW n, Speaks(k, c, n)
    PROVE  Telling'
<1> DEFINE m == Len(queue)
<1>1. /\ m \in Nat /\ Len(queue') = m + 1
      /\ \A i \in 1 .. m : queue'[i] = queue[i]
      /\ queue'[m + 1].kind = k /\ queue'[m + 1].conn = c
      /\ \A i \in 1 .. m : queue[i].conn \in Conns
  BY QueueType DEF Speaks, Sent
<1> HIDE DEF m
<1>2. /\ engine = "up" /\ engine' = engine /\ view' = view /\ peer' = peer
      /\ \A d \in Conns \ {c} : phase'[d] = phase[d]
  BY DEF Speaks
<1>3. /\ phase[c] \in Before \cup Live
      /\ phase'[c] \notin Before
      /\ phase'[c] \in Live \cup Over
      /\ phase'[c] \in Live => phase[c] \in Live \/ k = "NewConnection"
      /\ phase[c] \in Before => k = "NewConnection"
      /\ k = "NewConnection" => phase[c] \in Before
      /\ k = "ConnectionClosed" => phase'[c] \in Over
  BY DEF Speaks, Before, Live, Over, Signing, Handshake
<1>4. peer[c] \in Peers
  BY DEF Speaks, SignatureInv, TypeOK, PeerKnown, Receiving
<1>5. view[c] # "closed"
  BY <1>3, LiveNeither DEF Telling, ClosedOver
<1>6. \A i \in 1 .. m : IsReport(queue[i]) /\ queue[i].conn = c =>
          k # "NewConnection" /\ queue[i].kind # "ConnectionClosed"
  BY <1>3, LiveNeither DEF m, Telling, ReportsFit
<1>7. Unannounced' /\ Acquainted' /\ ClosedOver'
  BY <1>2, <1>3, <1>4, <1>5
     DEF Telling, Unannounced, Acquainted, ClosedOver
<1>8. ReportsFit'
  <2> SUFFICES ASSUME NEW i \in 1 .. m + 1, IsReport(queue'[i])
               PROVE  /\ phase'[queue'[i].conn] \notin Before
                      /\ peer'[queue'[i].conn] \in Peers
                      /\ view'[queue'[i].conn] # "closed"
                      /\ queue'[i].kind = "NewConnection"
                            => view'[queue'[i].conn] = "unseen"
                      /\ queue'[i].kind = "ConnectionClosed"
                            => phase'[queue'[i].conn] \in Over
    BY <1>1 DEF ReportsFit, IsReport
  <2>1. CASE i \in 1 .. m
    <3>1. /\ queue'[i] = queue[i] /\ queue[i].conn \in Conns
          /\ IsReport(queue[i])
      BY <1>1, <2>1
    <3>2. /\ phase[queue[i].conn] \notin Before
          /\ peer[queue[i].conn] \in Peers
          /\ view[queue[i].conn] # "closed"
          /\ queue[i].kind = "NewConnection" => view[queue[i].conn] = "unseen"
          /\ queue[i].kind = "ConnectionClosed" => phase[queue[i].conn] \in Over
      BY <2>1, <3>1 DEF m, Telling, ReportsFit
    <3>3. queue[i].conn = c => queue[i].kind # "ConnectionClosed"
      BY <1>6, <2>1, <3>1
    <3> QED
      BY <1>2, <1>3, <3>1, <3>2, <3>3
  <2>2. CASE i = m + 1
    <3>1. k = "NewConnection" => view[c] = "unseen"
      BY <1>3 DEF Telling, Unannounced
    <3> QED
      BY <1>1, <1>2, <1>3, <1>4, <1>5, <2>2, <3>1
  <2> QED
    BY <1>1, <2>1, <2>2
<1>9. phase[c] \in Live =>
          \/ view[c] = "open"
          \/ \E j \in 1 .. m : queue[j].kind = "NewConnection" /\ queue[j].conn = c
  BY <1>2 DEF m, Telling, LiveAnnounced
<1>10. Introduced'
  <2> SUFFICES ASSUME NEW i \in 1 .. m + 1,
                      queue'[i].kind \in {"Message", "ConnectionClosed"}
               PROVE  \/ view[queue'[i].conn] = "open"
                      \/ \E j \in 1 .. i - 1 :
                            /\ queue'[j].kind = "NewConnection"
                            /\ queue'[j].conn = queue'[i].conn
    BY <1>1, <1>2 DEF Introduced
  <2>1. CASE i \in 1 .. m
    <3>1. queue'[i] = queue[i] /\ \A j \in 1 .. i - 1 : queue'[j] = queue[j]
      BY <1>1, <2>1
    <3> QED
      BY <2>1, <3>1 DEF m, Telling, Introduced
  <2>2. CASE i = m + 1
    <3>1. queue'[i].conn = c /\ phase[c] \in Live
      BY <1>1, <1>3, <2>2
    <3> QED
      BY <1>1, <1>9, <2>2, <3>1
  <2> QED
    BY <1>1, <2>1, <2>2
<1>11. LiveAnnounced'
  <2> SUFFICES ASSUME NEW d \in Conns, phase'[d] \in Live
               PROVE  \/ view[d] = "open"
                      \/ \E j \in 1 .. m + 1 : /\ queue'[j].kind = "NewConnection"
                                               /\ queue'[j].conn = d
    BY <1>1, <1>2 DEF LiveAnnounced
  <2>1. CASE d = c
    <3>1. CASE k = "NewConnection"
      <4>1. m + 1 \in 1 .. m + 1
        BY <1>1
      <4> QED
        BY <1>1, <2>1, <3>1, <4>1
    <3>2. CASE phase[c] \in Live
      BY <1>1, <1>9, <2>1, <3>2
    <3> QED
      BY <1>3, <2>1, <3>1, <3>2
  <2>2. CASE d # c
    <3>1. \/ view[d] = "open"
          \/ \E j \in 1 .. m : queue[j].kind = "NewConnection" /\ queue[j].conn = d
      BY <1>2, <2>2 DEF m, Telling, LiveAnnounced
    <3> QED
      BY <1>1, <3>1
  <2> QED
    BY <2>1, <2>2
<1>12. ReportsOrdered'
  <2> SUFFICES ASSUME NEW i \in 1 .. m + 1, NEW j \in 1 .. m + 1,
                      i < j, IsReport(queue'[i]), IsReport(queue'[j]),
                      queue'[i].conn = queue'[j].conn
               PROVE  /\ queue'[i].kind # "ConnectionClosed"
                      /\ queue'[j].kind # "NewConnection"
    BY <1>1 DEF ReportsOrdered, IsReport
  <2>1. i \in 1 .. m /\ queue'[i] = queue[i]
    BY <1>1
  <2>2. CASE j \in 1 .. m
    <3>1. queue'[j] = queue[j]
      BY <1>1, <2>2
    <3> QED
      BY <2>1, <2>2, <3>1 DEF m, Telling, ReportsOrdered
  <2>3. CASE j = m + 1
    BY <1>1, <1>6, <2>1, <2>3
  <2> QED
    BY <1>1, <2>2, <2>3
<1> QED
  BY <1>7, <1>8, <1>10, <1>11, <1>12 DEF Telling

\* The engine takes a report and the application is told.
Hears(c) ==
    /\ Taken
    /\ engine = "up"
    /\ IsReport(queue[1])
    /\ c = queue[1].conn
    /\ UNCHANGED <<engine, phase, peer, received, rivals>>
    /\ \A d \in Conns \ {c} : view'[d] = view[d]
    /\ queue[1].kind = "NewConnection" => view'[c] = "open"
    /\ queue[1].kind = "Message" => view'[c] = view[c]
    /\ queue[1].kind = "ConnectionClosed" => view'[c] = "closed"

LEMMA HearsTelling ==
    ASSUME SignatureInv, Telling, NEW c \in Conns, Hears(c)
    PROVE  Telling'
<1> DEFINE m == Len(queue)
<1>1. /\ m \in Nat \ {0} /\ 1 \in 1 .. m /\ Len(queue') = m - 1
      /\ \A i \in 1 .. m - 1 : queue'[i] = queue[i + 1]
      /\ \A i \in 1 .. m : queue[i].conn \in Conns
  BY QueueType DEF Hears, Taken
<1> HIDE DEF m
<1>2. /\ engine = "up" /\ engine' = engine /\ phase' = phase /\ peer' = peer
      /\ \A d \in Conns \ {c} : view'[d] = view[d]
      /\ IsReport(queue[1]) /\ queue[1].conn = c
  BY DEF Hears
<1>3. /\ phase[c] \notin Before
      /\ peer[c] \in Peers
      /\ view[c] # "closed"
      /\ queue[1].kind = "ConnectionClosed" => phase[c] \in Over
  BY <1>1, <1>2 DEF m, Telling, ReportsFit
<1>4. \/ queue[1].kind = "NewConnection" /\ view'[c] = "open"
      \/ queue[1].kind = "Message" /\ view'[c] = view[c]
      \/ queue[1].kind = "ConnectionClosed" /\ view'[c] = "closed"
  BY DEF Hears, IsReport, Reports
<1>5. \A i \in 1 .. m - 1 : IsReport(queue'[i]) /\ queue'[i].conn = c =>
          /\ queue[1].kind # "ConnectionClosed"
          /\ queue'[i].kind # "NewConnection"
  <2> SUFFICES ASSUME NEW i \in 1 .. m - 1, IsReport(queue'[i]),
                      queue'[i].conn = c
               PROVE  /\ queue[1].kind # "ConnectionClosed"
                      /\ queue'[i].kind # "NewConnection"
    OBVIOUS
  <2>1. i + 1 \in 1 .. m /\ 1 < i + 1 /\ queue'[i] = queue[i + 1]
    BY <1>1
  <2> QED
    BY <1>1, <1>2, <2>1 DEF m, Telling, ReportsOrdered
<1>6. Unannounced' /\ Acquainted' /\ ClosedOver'
  BY <1>2, <1>3, <1>4 DEF Telling, Unannounced, Acquainted, ClosedOver
<1>7. ReportsFit'
  <2> SUFFICES ASSUME NEW i \in 1 .. m - 1, IsReport(queue'[i])
               PROVE  /\ phase[queue'[i].conn] \notin Before
                      /\ peer[queue'[i].conn] \in Peers
                      /\ view'[queue'[i].conn] # "closed"
                      /\ queue'[i].kind = "NewConnection"
                            => view'[queue'[i].conn] = "unseen"
                      /\ queue'[i].kind = "ConnectionClosed"
                            => phase[queue'[i].conn] \in Over
    BY <1>1, <1>2 DEF ReportsFit, IsReport
  <2>1. i + 1 \in 1 .. m /\ queue'[i] = queue[i + 1] /\ queue'[i].conn \in Conns
    BY <1>1
  <2>2. /\ phase[queue'[i].conn] \notin Before
        /\ peer[queue'[i].conn] \in Peers
        /\ view[queue'[i].conn] # "closed"
        /\ queue'[i].kind = "NewConnection" => view[queue'[i].conn] = "unseen"
        /\ queue'[i].kind = "ConnectionClosed" => phase[queue'[i].conn] \in Over
    BY <2>1 DEF m, Telling, ReportsFit
  <2>3. CASE queue'[i].conn = c
    BY <1>3, <1>4, <1>5, <2>2, <2>3
  <2>4. CASE queue'[i].conn # c
    BY <1>2, <2>1, <2>2, <2>4
  <2> QED
    BY <2>3, <2>4
<1>8. Introduced'
  <2> SUFFICES ASSUME NEW i \in 1 .. m - 1,
                      queue'[i].kind \in {"Message", "ConnectionClosed"}
               PROVE  \/ view'[queue'[i].conn] = "open"
                      \/ \E j \in 1 .. i - 1 :
                            /\ queue'[j].kind = "NewConnection"
                            /\ queue'[j].conn = queue'[i].conn
    BY <1>1 DEF Introduced
  <2>1. i + 1 \in 1 .. m /\ queue'[i] = queue[i + 1] /\ queue'[i].conn \in Conns
        /\ IsReport(queue'[i])
    BY <1>1 DEF IsReport, Reports
  <2>2. \/ view[queue'[i].conn] = "open"
        \/ \E j \in 1 .. i : /\ queue[j].kind = "NewConnection"
                             /\ queue[j].conn = queue'[i].conn
    BY <2>1 DEF m, Telling, Introduced
  <2>3. CASE view[queue'[i].conn] = "open"
    BY <1>2, <1>4, <1>5, <2>1, <2>3
  <2>4. ASSUME NEW j \in 1 .. i, queue[j].kind = "NewConnection",
               queue[j].conn = queue'[i].conn
        PROVE  \/ view'[queue'[i].conn] = "open"
               \/ \E k \in 1 .. i - 1 : /\ queue'[k].kind = "NewConnection"
                                        /\ queue'[k].conn = queue'[i].conn
    <3>1. CASE j = 1
      BY <1>2, <1>4, <2>4, <3>1
    <3>2. CASE j # 1
      <4>1. j - 1 \in 1 .. i - 1 /\ queue'[j - 1] = queue[j]
        BY <1>1, <3>2
      <4> QED
        BY <2>4, <4>1
    <3> QED
      BY <3>1, <3>2
  <2> QED
    BY <2>2, <2>3, <2>4
<1>9. LiveAnnounced'
  <2> SUFFICES ASSUME NEW d \in Conns, phase[d] \in Live
               PROVE  \/ view'[d] = "open"
                      \/ \E j \in 1 .. m - 1 : /\ queue'[j].kind = "NewConnection"
                                               /\ queue'[j].conn = d
    BY <1>1, <1>2 DEF LiveAnnounced
  <2>1. \/ view[d] = "open"
        \/ \E j \in 1 .. m : queue[j].kind = "NewConnection" /\ queue[j].conn = d
    BY <1>2 DEF m, Telling, LiveAnnounced
  <2>2. CASE view[d] = "open"
    BY <1>2, <1>3, <1>4, <2>2, LiveNeither
  <2>3. ASSUME NEW j \in 1 .. m, queue[j].kind = "NewConnection",
               queue[j].conn = d
        PROVE  \/ view'[d] = "open"
               \/ \E k \in 1 .. m - 1 : /\ queue'[k].kind = "NewConnection"
                                        /\ queue'[k].conn = d
    <3>1. CASE j = 1
      BY <1>2, <1>4, <2>3, <3>1
    <3>2. CASE j # 1
      <4>1. j - 1 \in 1 .. m - 1 /\ queue'[j - 1] = queue[j]
        BY <1>1, <3>2
      <4> QED
        BY <2>3, <4>1
    <3> QED
      BY <3>1, <3>2
  <2> QED
    BY <2>1, <2>2, <2>3
<1>10. ReportsOrdered'
  <2> SUFFICES ASSUME NEW i \in 1 .. m - 1, NEW j \in 1 .. m - 1,
                      i < j, IsReport(queue'[i]), IsReport(queue'[j]),
                      queue'[i].conn = queue'[j].conn
               PROVE  /\ queue'[i].kind # "ConnectionClosed"
                      /\ queue'[j].kind # "NewConnection"
    BY <1>1 DEF ReportsOrdered, IsReport
  <2>1. /\ i + 1 \in 1 .. m /\ queue'[i] = queue[i + 1]
        /\ j + 1 \in 1 .. m /\ queue'[j] = queue[j + 1]
        /\ i + 1 < j + 1
    BY <1>1
  <2> QED
    BY <2>1 DEF m, Telling, ReportsOrdered
<1> QED
  BY <1>6, <1>7, <1>8, <1>9, <1>10 DEF Telling

-----------------------------------------------------------------------------
(* The chat messages of a connection that are queued are those it has read  *)
(* and the application was not given yet, each once and in order.           *)

SeenRead == \A c \in Conns : seen[c] <= received[c]

MessagesPending ==
    \A i \in 1 .. Len(queue) : queue[i].kind = "Message" =>
        /\ seen[queue[i].conn] < queue[i].seq
        /\ queue[i].seq <= received[queue[i].conn]

MessagesOrdered ==
    \A i, j \in 1 .. Len(queue) :
        /\ i < j
        /\ queue[i].kind = "Message" /\ queue[j].kind = "Message"
        /\ queue[i].conn = queue[j].conn
        => queue[i].seq < queue[j].seq

NoneMissing ==
    engine = "up" =>
        \A c \in Conns : \A n \in Nat : seen[c] < n /\ n <= received[c] =>
            \E i \in 1 .. Len(queue) :
                queue[i].kind = "Message" /\ queue[i].conn = c /\ queue[i].seq = n

Numbering == SeenRead /\ MessagesPending /\ MessagesOrdered /\ NoneMissing

LEMMA CountsType ==
    ASSUME SignatureInv
    PROVE  /\ \A c \in Conns : seen[c] \in Nat /\ received[c] \in Nat
           /\ \A i \in 1 .. Len(queue) : queue[i].seq \in Nat
<1>1. \A i \in 1 .. Len(queue) : queue[i] \in Events
  BY QueueType, EntryType
<1>2. \A e \in Events : e.seq \in Nat
  BY DEF Events
<1> QED
  BY <1>1, <1>2 DEF SignatureInv, TypeOK

LEMMA QuietNumbering ==
    ASSUME SignatureInv, SignatureInv', Numbering,
           NEW shift \in {0, 1}, Quiet(shift)
    PROVE  Numbering'
<1>1. /\ Len(queue) \in Nat /\ Len(queue') \in Nat
      /\ \A c \in Conns : /\ seen[c] \in Nat /\ received[c] \in Nat
                          /\ received'[c] \in Nat
      /\ \A i \in 1 .. Len(queue) : queue[i].seq \in Nat /\ queue[i].conn \in Conns
  <2>1. queue' \in Seq(Events) /\ received' \in [Conns -> Nat]
    BY DEF SignatureInv, TypeOK
  <2> QED
    BY <2>1, QueueType, CountsType
<1>2. /\ seen' = seen /\ engine' = engine
      /\ \A c \in Conns : /\ received'[c] >= received[c]
                          /\ engine = "up" => received'[c] = received[c]
  BY DEF Quiet
<1>3. \A i \in 1 .. Len(queue') : queue'[i].kind = "Message" =>
          i + shift \in 1 .. Len(queue) /\ queue'[i] = queue[i + shift]
  BY DEF Quiet, Shifted, IsReport, Reports
<1>4. \A i \in 1 .. Len(queue) : queue[i].kind = "Message" =>
          i - shift \in 1 .. Len(queue') /\ queue'[i - shift] = queue[i]
  BY DEF Quiet, Shifted, IsReport, Reports
<1>5. SeenRead'
  BY <1>1, <1>2 DEF Numbering, SeenRead
<1>6. MessagesPending'
  <2> SUFFICES ASSUME NEW i \in 1 .. Len(queue'), queue'[i].kind = "Message"
               PROVE  /\ seen[queue'[i].conn] < queue'[i].seq
                      /\ queue'[i].seq <= received'[queue'[i].conn]
    BY <1>2 DEF MessagesPending
  <2>1. PICK j \in 1 .. Len(queue) : queue'[i] = queue[j]
    BY <1>3
  <2>2. /\ seen[queue[j].conn] < queue[j].seq
        /\ queue[j].seq <= received[queue[j].conn]
    BY <2>1 DEF Numbering, MessagesPending
  <2>3. received'[queue[j].conn] >= received[queue[j].conn]
    BY <1>1, <1>2
  <2> QED
    BY <1>1, <2>1, <2>2, <2>3
<1>7. MessagesOrdered'
  <2> SUFFICES ASSUME NEW i \in 1 .. Len(queue'), NEW j \in 1 .. Len(queue'),
                      i < j, queue'[i].kind = "Message",
                      queue'[j].kind = "Message",
                      queue'[i].conn = queue'[j].conn
               PROVE  queue'[i].seq < queue'[j].seq
    BY DEF MessagesOrdered
  <2>1. /\ i + shift \in 1 .. Len(queue) /\ queue'[i] = queue[i + shift]
        /\ j + shift \in 1 .. Len(queue) /\ queue'[j] = queue[j + shift]
        /\ i + shift < j + shift
    BY <1>1, <1>3
  <2> QED
    BY <2>1 DEF Numbering, MessagesOrdered
<1>8. NoneMissing'
  BY <1>2, <1>4 DEF Numbering, NoneMissing
<1> QED
  BY <1>5, <1>6, <1>7, <1>8 DEF Numbering

LEMMA VanishNumbering ==
    ASSUME SignatureInv, Numbering, Vanish
    PROVE  Numbering'
<1>1. \A i \in 1 .. Len(queue') : FALSE
  BY EmptyEntries DEF Vanish
<1>2. MessagesPending' /\ MessagesOrdered' /\ NoneMissing'
  BY <1>1 DEF MessagesPending, MessagesOrdered, NoneMissing, Vanish
<1> QED
  BY <1>2 DEF Numbering, SeenRead, Vanish

LEMMA SentNumbering ==
    ASSUME SignatureInv, Numbering, engine = "up",
           NEW k, NEW c \in Conns, NEW n \in Nat, Sent(k, c, n),
           seen' = seen, engine' = engine,
           \/ k # "Message" /\ received' = received
           \/ /\ k = "Message"
              /\ n = received[c] + 1
              /\ received' = [received EXCEPT ![c] = n]
    PROVE  Numbering'
<1> DEFINE m == Len(queue)
<1>1. /\ m \in Nat /\ Len(queue') = m + 1
      /\ \A i \in 1 .. m : queue'[i] = queue[i]
      /\ queue'[m + 1].kind = k /\ queue'[m + 1].conn = c
      /\ queue'[m + 1].seq = n
      /\ \A i \in 1 .. m : queue[i].conn \in Conns /\ queue[i].seq \in Nat
      /\ \A d \in Conns : seen[d] \in Nat /\ received[d] \in Nat
  BY QueueType, CountsType DEF Sent
<1>2. /\ \A d \in Conns : seen[d] <= received[d]
      /\ \A i \in 1 .. m : queue[i].kind = "Message" =>
            /\ seen[queue[i].conn] < queue[i].seq
            /\ queue[i].seq <= received[queue[i].conn]
      /\ \A i, j \in 1 .. m :
            i < j /\ queue[i].kind = "Message" /\ queue[j].kind = "Message"
                  /\ queue[i].conn = queue[j].conn
            => queue[i].seq < queue[j].seq
      /\ \A d \in Conns : \A l \in Nat : seen[d] < l /\ l <= received[d] =>
            \E i \in 1 .. m :
                queue[i].kind = "Message" /\ queue[i].conn = d /\ queue[i].seq = l
  BY DEF Numbering, SeenRead, MessagesPending, MessagesOrdered, NoneMissing
<1> HIDE DEF m
<1>3. /\ \A d \in Conns \ {c} : received'[d] = received[d]
      /\ \/ k # "Message" /\ received'[c] = received[c]
         \/ k = "Message" /\ received'[c] = n /\ n = received[c] + 1
  BY DEF SignatureInv, TypeOK
<1>4. SeenRead'
  BY <1>1, <1>2, <1>3 DEF SeenRead
<1>5. MessagesPending'
  <2> SUFFICES ASSUME NEW i \in 1 .. m + 1, queue'[i].kind = "Message"
               PROVE  /\ seen[queue'[i].conn] < queue'[i].seq
                      /\ queue'[i].seq <= received'[queue'[i].conn]
    BY <1>1 DEF MessagesPending
  <2>1. CASE i \in 1 .. m
    <3>1. queue'[i] = queue[i] /\ queue[i].conn \in Conns
          /\ queue[i].seq \in Nat
      BY <1>1, <2>1
    <3>2. /\ seen[queue[i].conn] < queue[i].seq
          /\ queue[i].seq <= received[queue[i].conn]
      BY <1>2, <2>1, <3>1
    <3>3. received'[queue[i].conn] >= received[queue[i].conn]
      BY <1>1, <1>3, <3>1
    <3>4. received'[queue[i].conn] \in Nat
      BY <1>1, <1>3, <3>1
    <3> QED
      BY <1>1, <3>1, <3>2, <3>3, <3>4
  <2>2. CASE i = m + 1
    <3>1. queue'[i].conn = c /\ queue'[i].seq = n /\ k = "Message"
      BY <1>1, <2>2
    <3> QED
      BY <1>1, <1>2, <1>3, <3>1
  <2> QED
    BY <1>1, <2>1, <2>2
<1>6. MessagesOrdered'
  <2> SUFFICES ASSUME NEW i \in 1 .. m + 1, NEW j \in 1 .. m + 1,
                      i < j, queue'[i].kind = "Message",
                      queue'[j].kind = "Message",
                      queue'[i].conn = queue'[j].conn
               PROVE  queue'[i].seq < queue'[j].seq
    BY <1>1 DEF MessagesOrdered
  <2>1. i \in 1 .. m /\ queue'[i] = queue[i]
    BY <1>1
  <2>2. CASE j \in 1 .. m
    BY <1>1, <1>2, <2>1, <2>2
  <2>3. CASE j = m + 1
    <3>1. queue[i].conn = c /\ queue'[j].seq = n /\ k = "Message"
      BY <1>1, <2>1, <2>3
    <3>2. queue[i].seq <= received[c] /\ queue[i].seq \in Nat
      BY <1>1, <1>2, <2>1, <3>1
    <3> QED
      BY <1>1, <1>3, <2>1, <3>1, <3>2
  <2> QED
    BY <1>1, <2>2, <2>3
<1>7. NoneMissing'
  <2> SUFFICES ASSUME NEW d \in Conns, NEW l \in Nat,
                      seen[d] < l, l <= received'[d]
               PROVE  \E i \in 1 .. m + 1 : /\ queue'[i].kind = "Message"
                                            /\ queue'[i].conn = d
                                            /\ queue'[i].seq = l
    BY <1>1 DEF NoneMissing
  <2>1. CASE l <= received[d]
    <3>1. PICK i \in 1 .. m : /\ queue[i].kind = "Message"
                              /\ queue[i].conn = d /\ queue[i].seq = l
      BY <1>2, <2>1
    <3>2. i \in 1 .. m + 1 /\ queue'[i] = queue[i]
      BY <1>1
    <3> QED
      BY <3>1, <3>2
  <2>2. CASE ~(l <= received[d])
    <3>1. d = c /\ k = "Message" /\ l = n
      BY <1>1, <1>3, <2>2
    <3>2. m + 1 \in 1 .. m + 1
      BY <1>1
    <3> QED
      BY <1>1, <3>1, <3>2
  <2> QED
    BY <2>1, <2>2
<1> QED
  BY <1>4, <1>5, <1>6, <1>7 DEF Numbering

LEMMA FirstMessage ==
    ASSUME SignatureInv, Numbering, engine = "up",
           1 \in 1 .. Len(queue), queue[1].kind = "Message"
    PROVE  queue[1].seq = seen[queue[1].conn] + 1
<1> DEFINE c == queue[1].conn
<1>1. /\ c \in Conns /\ seen[c] \in Nat /\ received[c] \in Nat
      /\ queue[1].seq \in Nat
  BY QueueType, CountsType
<1>2. seen[c] < queue[1].seq /\ queue[1].seq <= received[c]
  BY DEF Numbering, MessagesPending
<1>3. PICK i \in 1 .. Len(queue) : /\ queue[i].kind = "Message"
                                   /\ queue[i].conn = c
                                   /\ queue[i].seq = seen[c] + 1
  <2>1. seen[c] + 1 \in Nat /\ seen[c] < seen[c] + 1 /\ seen[c] + 1 <= received[c]
    BY <1>1, <1>2
  <2> QED
    BY <1>1, <2>1 DEF Numbering, NoneMissing
<1>4. i = 1 \/ queue[1].seq < queue[i].seq
  BY <1>3 DEF Numbering, MessagesOrdered
<1> QED
  BY <1>1, <1>2, <1>3, <1>4

LEMMA TakenNumbering ==
    ASSUME SignatureInv, Numbering, Taken, engine = "up",
           engine' = engine, received' = received,
           \/ queue[1].kind # "Message" /\ seen' = seen
           \/ /\ queue[1].kind = "Message"
              /\ seen' = [seen EXCEPT ![queue[1].conn] = queue[1].seq]
    PROVE  Numbering'
<1> DEFINE m == Len(queue)
           c == queue[1].conn
<1>1. /\ m \in Nat /\ 1 \in 1 .. m /\ Len(queue') = m - 1
      /\ \A i \in 1 .. m - 1 : queue'[i] = queue[i + 1]
      /\ \A i \in 1 .. m : queue[i].conn \in Conns /\ queue[i].seq \in Nat
      /\ \A d \in Conns : seen[d] \in Nat /\ received[d] \in Nat
  BY QueueType, CountsType DEF Taken
<1>2. /\ \A d \in Conns : seen[d] <= received[d]
      /\ \A i \in 1 .. m : queue[i].kind = "Message" =>
            /\ seen[queue[i].conn] < queue[i].seq
            /\ queue[i].seq <= received[queue[i].conn]
      /\ \A i, j \in 1 .. m :
            i < j /\ queue[i].kind = "Message" /\ queue[j].kind = "Message"
                  /\ queue[i].conn = queue[j].conn
            => queue[i].seq < queue[j].seq
      /\ \A d \in Conns : \A l \in Nat : seen[d] < l /\ l <= received[d] =>
            \E i \in 1 .. m :
                queue[i].kind = "Message" /\ queue[i].conn = d /\ queue[i].seq = l
  BY DEF Numbering, SeenRead, MessagesPending, MessagesOrdered, NoneMissing
<1>3. queue[1].kind = "Message" => queue[1].seq = seen[c] + 1
  BY <1>1, FirstMessage
<1>4. /\ \A d \in Conns \ {c} : seen'[d] = seen[d]
      /\ \/ queue[1].kind # "Message" /\ seen'[c] = seen[c]
         \/ queue[1].kind = "Message" /\ seen'[c] = queue[1].seq
  BY <1>1 DEF SignatureInv, TypeOK
<1> HIDE DEF m, c
<1>5. c \in Conns /\ c = queue[1].conn
  BY <1>1 DEF c
<1>6. SeenRead'
  BY <1>1, <1>2, <1>4, <1>5 DEF SeenRead
<1>7. MessagesPending'
  <2> SUFFICES ASSUME NEW i \in 1 .. m - 1, queue'[i].kind = "Message"
               PROVE  /\ seen'[queue'[i].conn] < queue'[i].seq
                      /\ queue'[i].seq <= received[queue'[i].conn]
    BY <1>1 DEF MessagesPending
  <2>1. /\ i + 1 \in 1 .. m /\ 1 < i + 1 /\ queue'[i] = queue[i + 1]
        /\ queue[i + 1].conn \in Conns
    BY <1>1
  <2>2. /\ seen[queue[i + 1].conn] < queue[i + 1].seq
        /\ queue[i + 1].seq <= received[queue[i + 1].conn]
    BY <1>2, <2>1
  <2>3. queue[1].kind = "Message" /\ queue[i + 1].conn = c =>
            queue[1].seq < queue[i + 1].seq
    BY <1>1, <1>2, <1>5, <2>1
  <2> QED
    BY <1>4, <2>1, <2>2, <2>3
<1>8. MessagesOrdered'
  <2> SUFFICES ASSUME NEW i \in 1 .. m - 1, NEW j \in 1 .. m - 1,
                      i < j, queue'[i].kind = "Message",
                      queue'[j].kind = "Message",
                      queue'[i].conn = queue'[j].conn
               PROVE  queue'[i].seq < queue'[j].seq
    BY <1>1 DEF MessagesOrdered
  <2>1. /\ i + 1 \in 1 .. m /\ queue'[i] = queue[i + 1]
        /\ j + 1 \in 1 .. m /\ queue'[j] = queue[j + 1]
        /\ i + 1 < j + 1
    BY <1>1
  <2> QED
    BY <1>2, <2>1
<1>9. NoneMissing'
  <2> SUFFICES ASSUME NEW d \in Conns, NEW l \in Nat,
                      seen'[d] < l, l <= received[d]
               PROVE  \E i \in 1 .. m - 1 : /\ queue'[i].kind = "Message"
                                            /\ queue'[i].conn = d
                                            /\ queue'[i].seq = l
    BY <1>1 DEF NoneMissing
  <2>1. /\ seen[d] < l
        /\ ~(queue[1].kind = "Message" /\ d = c /\ queue[1].seq = l)
    BY <1>1, <1>3, <1>4, <1>5
  <2>2. PICK i \in 1 .. m : /\ queue[i].kind = "Message"
                            /\ queue[i].conn = d /\ queue[i].seq = l
    BY <1>2, <2>1
  <2>3. i # 1
    BY <1>5, <2>1, <2>2
  <2>4. i - 1 \in 1 .. m - 1 /\ queue'[i - 1] = queue[i]
    BY <1>1, <2>3
  <2> QED
    BY <2>2, <2>4
<1> QED
  BY <1>6, <1>7, <1>8, <1>9 DEF Numbering

-----------------------------------------------------------------------------
(* From the steps of Engine to Speaks and Hears. *)

DeliveryInv == SignatureInv /\ Telling /\ Numbering

LEMMA AnnounceSpeaks ==
    ASSUME SignatureInv, NEW c \in Conns, engine = "up", Announce(c)
    PROVE  Speaks("NewConnection", c, 0) /\ received' = received
<1>1. Sent("NewConnection", c, 0)
  BY SentPost DEF Announce, EventKinds
<1>2. phase' = [phase EXCEPT ![c] = "running"] /\ phase \in [Conns -> Phases]
  BY DEF Announce, Goto, SignatureInv, TypeOK
<1> QED
  BY <1>1, <1>2 DEF Speaks, Announce

LEMMA ReadMessageSpeaks ==
    ASSUME SignatureInv, NEW c \in Conns, engine = "up", ReadMessage(c)
    PROVE  /\ received[c] + 1 \in Nat
           /\ Speaks("Message", c, received[c] + 1)
           /\ received' = [received EXCEPT ![c] = received[c] + 1]
<1>1. received[c] \in Nat
  BY CountsType
<1>2. received[c] + 1 \in Nat
  BY <1>1
<1>3. Sent("Message", c, received[c] + 1)
  BY <1>2, SentPost DEF ReadMessage, EventKinds
<1> QED
  BY <1>2, <1>3 DEF Speaks, ReadMessage, Live

LEMMA ClosedSpeaks ==
    ASSUME SignatureInv, NEW c \in Conns, engine = "up",
           ReadEndOfFile(c) \/ CloseAfterError(c)
    PROVE  Speaks("ConnectionClosed", c, 0) /\ received' = received
<1>1. Sent("ConnectionClosed", c, 0)
  BY SentPost DEF ReadEndOfFile, CloseAfterError, EventKinds
<1>2. phase' = [phase EXCEPT ![c] = "closing"] /\ phase \in [Conns -> Phases]
  BY DEF ReadEndOfFile, CloseAfterError, Goto, SignatureInv, TypeOK
<1> QED
  BY <1>1, <1>2 DEF Speaks, ReadEndOfFile, CloseAfterError, Live

LEMMA NewConnectionHears ==
    ASSUME SignatureInv, HandleNewConnection
    PROVE  /\ queue[1].conn \in Conns
           /\ Hears(queue[1].conn)
           /\ queue[1].kind = "NewConnection"
           /\ channels' = [channels EXCEPT ![peer[queue[1].conn]] = queue[1].conn]
           /\ seen' = seen
<1>1. Taken /\ engine = "up" /\ queue[1].kind = "NewConnection"
  BY TakenTake DEF HandleNewConnection
<1>2. queue[1].conn \in Conns
  BY <1>1, QueueType DEF Taken
<1>3. view \in [Conns -> {"unseen", "open", "closed"}]
  BY DEF SignatureInv, TypeOK
<1> QED
  BY <1>1, <1>2, <1>3 DEF HandleNewConnection, Taken, Hears, IsReport, Reports

LEMMA MessageHears ==
    ASSUME SignatureInv, HandleMessage
    PROVE  /\ queue[1].conn \in Conns
           /\ Hears(queue[1].conn)
           /\ queue[1].kind = "Message"
           /\ channels' = channels
           /\ seen' = [seen EXCEPT ![queue[1].conn] = queue[1].seq]
<1>1. Taken /\ engine = "up" /\ queue[1].kind = "Message"
  BY TakenTake DEF HandleMessage
<1>2. queue[1].conn \in Conns
  BY <1>1, QueueType DEF Taken
<1> QED
  BY <1>1, <1>2 DEF HandleMessage, Taken, Hears, IsReport, Reports

LEMMA ConnectionClosedHears ==
    ASSUME SignatureInv, HandleConnectionClosed
    PROVE  /\ queue[1].conn \in Conns
           /\ Hears(queue[1].conn)
           /\ queue[1].kind = "ConnectionClosed"
           /\ channels' = [channels EXCEPT ![peer[queue[1].conn]] = None]
           /\ seen' = seen
<1>1. Taken /\ engine = "up" /\ queue[1].kind = "ConnectionClosed"
  BY TakenTake DEF HandleConnectionClosed
<1>2. queue[1].conn \in Conns
  BY <1>1, QueueType DEF Taken
<1>3. view \in [Conns -> {"unseen", "open", "closed"}]
  BY DEF SignatureInv, TypeOK
<1> QED
  BY <1>1, <1>2, <1>3 DEF HandleConnectionClosed, Taken, Hears, IsReport, Reports

LEMMA DeliveryInvStep ==
    ASSUME DeliveryInv, [Next]_vars
    PROVE  DeliveryInv'
<1>0. SignatureInv /\ SignatureInv' /\ Telling /\ Numbering
  BY SignatureInvStep DEF DeliveryInv
<1>1. CASE Quiet(0) \/ Quiet(1)
  <2>1. 0 \in {0, 1} /\ 1 \in {0, 1}
    OBVIOUS
  <2> QED
    BY <1>0, <1>1, <2>1, QuietTelling, QuietNumbering DEF DeliveryInv
<1>2. CASE Vanish
  BY <1>0, <1>2, VanishTelling, VanishNumbering DEF DeliveryInv
<1>3. ASSUME NEW c \in Conns, engine = "up", Announce(c)
      PROVE  DeliveryInv'
  <2>1. Speaks("NewConnection", c, 0) /\ received' = received
    BY <1>0, <1>3, AnnounceSpeaks
  <2>2. Telling'
    BY <1>0, <2>1, SpeaksTelling
  <2>3. Sent("NewConnection", c, 0) /\ seen' = seen /\ engine' = engine
    BY <2>1 DEF Speaks
  <2>4. Numbering'
    <3>1. 0 \in Nat /\ "NewConnection" # "Message"
      OBVIOUS
    <3> QED
      BY <1>0, <1>3, <2>1, <2>3, <3>1, SentNumbering
  <2> QED
    BY <1>0, <2>2, <2>4 DEF DeliveryInv
<1>4. ASSUME NEW c \in Conns, engine = "up", ReadMessage(c)
      PROVE  DeliveryInv'
  <2>1. /\ received[c] + 1 \in Nat
        /\ Speaks("Message", c, received[c] + 1)
        /\ received' = [received EXCEPT ![c] = received[c] + 1]
    BY <1>0, <1>4, ReadMessageSpeaks
  <2>2. Telling'
    BY <1>0, <2>1, SpeaksTelling
  <2>3. /\ Sent("Message", c, received[c] + 1)
        /\ seen' = seen /\ engine' = engine
    BY <2>1 DEF Speaks
  <2>4. Numbering'
    BY <1>0, <1>4, <2>1, <2>3, SentNumbering
  <2> QED
    BY <1>0, <2>2, <2>4 DEF DeliveryInv
<1>5. ASSUME NEW c \in Conns, engine = "up",
             ReadEndOfFile(c) \/ CloseAfterError(c)
      PROVE  DeliveryInv'
  <2>1. Speaks("ConnectionClosed", c, 0) /\ received' = received
    BY <1>0, <1>5, ClosedSpeaks
  <2>2. Telling'
    BY <1>0, <2>1, SpeaksTelling
  <2>3. Sent("ConnectionClosed", c, 0) /\ seen' = seen /\ engine' = engine
    BY <2>1 DEF Speaks
  <2>4. Numbering'
    <3>1. 0 \in Nat /\ "ConnectionClosed" # "Message"
      OBVIOUS
    <3> QED
      BY <1>0, <1>5, <2>1, <2>3, <3>1, SentNumbering
  <2> QED
    BY <1>0, <2>2, <2>4 DEF DeliveryInv
<1>6. ASSUME NEW c \in Conns, c = queue[1].conn, Hears(c),
             \/ queue[1].kind # "Message" /\ seen' = seen
             \/ /\ queue[1].kind = "Message"
                /\ seen' = [seen EXCEPT ![queue[1].conn] = queue[1].seq]
      PROVE  DeliveryInv'
  <2>1. Telling'
    BY <1>0, <1>6, HearsTelling
  <2>2. Taken /\ engine = "up" /\ engine' = engine /\ received' = received
    BY <1>6 DEF Hears
  <2>3. Numbering'
    BY <1>0, <1>6, <2>2, TakenNumbering
  <2> QED
    BY <1>0, <2>1, <2>3 DEF DeliveryInv
<1>7. CASE HandleNewConnection
  BY <1>0, <1>6, <1>7, NewConnectionHears
<1>8. CASE HandleMessage
  BY <1>0, <1>6, <1>8, MessageHears
<1>9. CASE HandleConnectionClosed
  BY <1>0, <1>6, <1>9, ConnectionClosedHears
<1> QED
  BY <1>0, <1>1, <1>2, <1>3, <1>4, <1>5, <1>7, <1>8, <1>9, StepKinds DEF StepKind

LEMMA DeliveryInvInit == Init => DeliveryInv
<1> SUFFICES ASSUME Init PROVE DeliveryInv
  OBVIOUS
<1>1. TypeOK
  BY TypeOKInit
<1>2. \A i \in 1 .. Len(queue) : FALSE
  BY EmptyEntries DEF Init
<1>3. SignatureInv
  <2>1. RequestsWaiting /\ RequestsUnique
    BY <1>2 DEF RequestsWaiting, RequestsUnique
  <2>2. NoEarlySignature /\ QueueGone /\ SignatureNeverPanics
    BY DEF Init, NoEarlySignature, QueueGone, SignatureNeverPanics
  <2> QED
    BY <1>1, <2>1, <2>2 DEF SignatureInv, Requests
<1>4. Telling
  <2>1. ReportsFit /\ Introduced /\ ReportsOrdered
    BY <1>2 DEF ReportsFit, Introduced, ReportsOrdered
  <2>2. Unannounced /\ Acquainted /\ ClosedOver /\ LiveAnnounced
    BY DEF Init, Unannounced, Acquainted, ClosedOver, LiveAnnounced, Live
  <2> QED
    BY <2>1, <2>2 DEF Telling
<1>5. Numbering
  <2>1. MessagesPending /\ MessagesOrdered
    BY <1>2 DEF MessagesPending, MessagesOrdered
  <2>2. SeenRead
    BY DEF Init, SeenRead
  <2>3. NoneMissing
    <3>1. \A n \in Nat : ~(0 < n /\ n <= 0)
      OBVIOUS
    <3> QED
      BY <3>1 DEF Init, NoneMissing
  <2> QED
    BY <2>1, <2>2, <2>3 DEF Numbering
<1> QED
  BY <1>3, <1>4, <1>5 DEF DeliveryInv

LEMMA DeliveryInvariant == Spec => []DeliveryInv
<1>1. DeliveryInv /\ [Next]_vars => DeliveryInv'
  BY DeliveryInvStep
<1> QED
  BY <1>1, DeliveryInvInit, PTL DEF Spec

\* However the tasks, the engine and the application interleave, the application
\* hears of a connection first that it is there, then each chat message that was
\* read from it, once and in order, then that it is closed, and then no more.
THEOREM DeliveryIsOrderly == Spec => []OrderlyDelivery
<1>1. DeliveryInv => OrderlyDelivery
  <2> SUFFICES ASSUME DeliveryInv, queue # << >>
               PROVE  /\ Head(queue).kind = "NewConnection"
                            => view[Head(queue).conn] = "unseen"
                      /\ Head(queue).kind = "Message"
                            => /\ view[Head(queue).conn] = "open"
                               /\ Head(queue).seq = seen[Head(queue).conn] + 1
                      /\ Head(queue).kind = "ConnectionClosed"
                            => view[Head(queue).conn] = "open"
    BY DEF OrderlyDelivery
  <2>1. SignatureInv /\ Telling /\ Numbering
    BY DEF DeliveryInv
  <2>2. Len(queue) \in Nat \ {0} /\ Head(queue) = queue[1]
    BY <2>1, QueueType, TailEntries
  <2>3. 1 \in 1 .. Len(queue) /\ \A j \in 1 .. 1 - 1 : FALSE
    BY <2>2
  <2>4. engine = "up"
    BY <2>1 DEF SignatureInv, QueueGone
  <2>5. queue[1].kind = "NewConnection" => view[queue[1].conn] = "unseen"
    BY <2>1, <2>3 DEF Telling, ReportsFit, IsReport, Reports
  <2>6. queue[1].kind \in {"Message", "ConnectionClosed"} =>
            view[queue[1].conn] = "open"
    BY <2>1, <2>3 DEF Telling, Introduced
  <2>7. queue[1].kind = "Message" => queue[1].seq = seen[queue[1].conn] + 1
    BY <2>1, <2>3, <2>4, FirstMessage
  <2> QED
    BY <2>2, <2>5, <2>6, <2>7
<1> QED
  BY <1>1, DeliveryInvariant, PTL

-----------------------------------------------------------------------------
(* Which connections the application can address. *)

\* Two connections that are live with one peer are rivals.
LiveRivals ==
    engine = "up" =>
        \A c, d \in Conns :
            c # d /\ phase[c] \in Live /\ phase[d] \in Live /\ peer[c] = peer[d]
                => c \in rivals

\* Of the other connections with the peer of a live one that has no rival,
\* nothing is queued once that one was announced, and nothing after its
\* NewConnection.
Undisturbed ==
    \A c \in Conns \ rivals : phase[c] \in Live =>
        \A i \in 1 .. Len(queue) :
            /\ IsReport(queue[i])
            /\ queue[i].conn # c
            /\ peer[queue[i].conn] = peer[c]
            => /\ view[c] # "open"
               /\ \A j \in 1 .. Len(queue) :
                    queue[j].kind = "NewConnection" /\ queue[j].conn = c => i < j

Addressing ==
    /\ RegistrySound
    /\ LiveRivals
    /\ Undisturbed
    /\ LiveConnectionRegistered

\* Which connections are live and with whom, over a step that announces none.
LEMMA ForwardLive ==
    ASSUME SignatureInv, SignatureInv', Forward
    PROVE  \A c \in Conns : phase'[c] \in Live =>
               phase[c] \in Live /\ peer'[c] = peer[c]
<1>1. \A c \in Conns : phase[c] \in Before \cup Live \cup Over
  <2>1. \A c \in Conns : phase[c] \in Phases
    BY DEF SignatureInv, TypeOK
  <2> QED
    BY <2>1 DEF Phases, Before, Over, Receiving
<1>2. \A c \in Conns : phase'[c] \in Live =>
          phase'[c] \notin Before /\ phase'[c] \notin Over
  BY LiveNeither
<1>3. \A c \in Conns : phase[c] \in Live =>
          phase[c] \notin Before /\ phase[c] \notin Over
  BY LiveNeither
<1> QED
  BY <1>1, <1>2, <1>3 DEF Forward

LEMMA QuietAddressing ==
    ASSUME SignatureInv, SignatureInv', Telling, Addressing,
           NEW shift \in {0, 1}, Quiet(shift)
    PROVE  Addressing'
<1>1. /\ Len(queue) \in Nat
      /\ \A i \in 1 .. Len(queue) : queue[i].conn \in Conns
  BY QueueType
<1>2. /\ engine' = engine /\ channels' = channels /\ view' = view
      /\ rivals' = rivals /\ Forward /\ Shifted(shift)
  BY DEF Quiet
<1>3. \A c \in Conns : phase'[c] \in Live =>
          phase[c] \in Live /\ peer'[c] = peer[c]
  BY <1>2, ForwardLive
<1>4. \A c \in Conns : view[c] = "open" => peer'[c] = peer[c]
  BY <1>2 DEF Telling, Unannounced, Forward
<1>5. RegistrySound'
  <2>1. \A p \in Peers : channels[p] \in Conns \cup {None}
    BY DEF SignatureInv, TypeOK
  <2> QED
    BY <1>2, <1>4, <2>1 DEF Addressing, RegistrySound
<1>6. LiveRivals'
  BY <1>2, <1>3 DEF Addressing, LiveRivals
<1>7. Undisturbed'
  <2> SUFFICES ASSUME NEW c \in Conns \ rivals, phase'[c] \in Live,
                      NEW i \in 1 .. Len(queue'), IsReport(queue'[i]),
                      queue'[i].conn # c, peer'[queue'[i].conn] = peer'[c]
               PROVE  /\ view[c] # "open"
                      /\ \A j \in 1 .. Len(queue') :
                            /\ queue'[j].kind = "NewConnection"
                            /\ queue'[j].conn = c
                            => i < j
    BY <1>2 DEF Undisturbed, IsReport
  <2>1. i + shift \in 1 .. Len(queue) /\ queue'[i] = queue[i + shift]
    BY <1>2 DEF Shifted
  <2>2. queue[i + shift].conn \in Conns
    BY <1>1, <2>1
  <2>3. peer'[queue[i + shift].conn] = peer[queue[i + shift].conn]
    BY <1>2, <2>1, <2>2 DEF Telling, ReportsFit, Forward
  <2>4. /\ view[c] # "open"
        /\ \A j \in 1 .. Len(queue) :
              queue[j].kind = "NewConnection" /\ queue[j].conn = c
                => i + shift < j
    BY <1>3, <2>1, <2>3 DEF Addressing, Undisturbed
  <2>5. ASSUME NEW j \in 1 .. Len(queue'), queue'[j].kind = "NewConnection",
               queue'[j].conn = c
        PROVE  i < j
    <3>1. j + shift \in 1 .. Len(queue) /\ queue'[j] = queue[j + shift]
      BY <1>2, <2>5 DEF Shifted, IsReport, Reports
    <3>2. i + shift < j + shift
      BY <2>4, <2>5, <3>1
    <3> QED
      BY <3>2
  <2> QED
    BY <2>4, <2>5
<1>8. LiveConnectionRegistered'
  BY <1>2, <1>3 DEF Addressing, LiveConnectionRegistered
<1> QED
  BY <1>5, <1>6, <1>7, <1>8 DEF Addressing

LEMMA VanishAddressing ==
    ASSUME SignatureInv, Vanish
    PROVE  Addressing'
<1>1. \A i \in 1 .. Len(queue') : FALSE
  BY EmptyEntries DEF Vanish
<1>2. \A p \in Peers : channels'[p] = None
  BY DEF Vanish
<1> QED
  BY <1>1, <1>2
     DEF Addressing, RegistrySound, LiveRivals, Undisturbed,
         LiveConnectionRegistered, Vanish

LEMMA SpeaksAddressing ==
    ASSUME SignatureInv, SignatureInv', Telling, Addressing,
           NEW k, NEW c \in Conns, NEW n, Speaks(k, c, n),
           rivals \subseteq rivals',
           \A d \in Conns \ {c} : phase[d] \in Live /\ peer[d] = peer[c] =>
               c \in rivals' /\ d \in rivals'
    PROVE  Addressing'
<1> DEFINE m == Len(queue)
<1>1. /\ m \in Nat /\ Len(queue') = m + 1
      /\ \A i \in 1 .. m : queue'[i] = queue[i]
      /\ queue'[m + 1].kind = k /\ queue'[m + 1].conn = c
      /\ \A i \in 1 .. m : queue[i].conn \in Conns
  BY QueueType DEF Speaks, Sent
<1> HIDE DEF m
<1>2. /\ engine = "up" /\ engine' = engine /\ view' = view /\ peer' = peer
      /\ channels' = channels
      /\ \A d \in Conns \ {c} : phase'[d] = phase[d]
  BY DEF Speaks
<1>3. \/ phase[c] \in Live /\ k # "NewConnection"
      \/ phase[c] \in Before /\ k = "NewConnection"
  BY DEF Speaks, Before, Live, Signing, Handshake
<1>4. RegistrySound'
  BY <1>2 DEF Addressing, RegistrySound
<1>5. LiveRivals'
  <2> SUFFICES ASSUME NEW a \in Conns, NEW b \in Conns, a # b,
                      phase'[a] \in Live, phase'[b] \in Live, peer[a] = peer[b]
               PROVE  a \in rivals'
    BY <1>2 DEF LiveRivals
  <2>1. CASE a = c
    BY <1>2, <2>1
  <2>2. CASE b = c
    BY <1>2, <2>2
  <2>3. CASE a # c /\ b # c
    BY <1>2, <2>3 DEF Addressing, LiveRivals
  <2> QED
    BY <2>1, <2>2, <2>3
<1>6. Undisturbed'
  <2> SUFFICES ASSUME NEW e \in Conns, e \notin rivals', phase'[e] \in Live,
                      NEW i \in 1 .. m + 1, IsReport(queue'[i]),
                      queue'[i].conn # e, peer[queue'[i].conn] = peer[e]
               PROVE  /\ view[e] # "open"
                      /\ \A j \in 1 .. m + 1 :
                            /\ queue'[j].kind = "NewConnection"
                            /\ queue'[j].conn = e
                            => i < j
    BY <1>1, <1>2 DEF Undisturbed, IsReport
  <2>1. i \in 1 .. m
    <3>1. CASE i = m + 1
      <4>1. queue'[i].conn = c /\ e # c
        BY <1>1, <3>1
      <4>2. phase[e] \in Live /\ peer[e] = peer[c]
        BY <1>2, <4>1
      <4> QED
        BY <4>1, <4>2
    <3> QED
      BY <1>1, <3>1
  <2>2. queue'[i] = queue[i]
    BY <1>1, <2>1
  <2>3. CASE e = c /\ phase[c] \in Before
    <3>1. view[c] = "unseen"
      BY <2>3 DEF Telling, Unannounced
    <3>2. \A j \in 1 .. m : IsReport(queue[j]) => queue[j].conn # c
      BY <2>3 DEF m, Telling, ReportsFit
    <3>3. ASSUME NEW j \in 1 .. m + 1, queue'[j].kind = "NewConnection",
                 queue'[j].conn = c
          PROVE  j = m + 1
      <4>1. CASE j \in 1 .. m
        BY <1>1, <3>2, <3>3, <4>1 DEF IsReport, Reports
      <4> QED
        BY <1>1, <4>1
    <3> QED
      BY <1>1, <2>1, <2>3, <3>1, <3>3
  <2>4. CASE e # c \/ phase[c] \in Live
    <3>1. phase[e] \in Live /\ e \notin rivals
      BY <1>2, <2>4
    <3>2. /\ view[e] # "open"
          /\ \A j \in 1 .. m :
                queue[j].kind = "NewConnection" /\ queue[j].conn = e => i < j
      BY <2>1, <2>2, <3>1 DEF m, Addressing, Undisturbed
    <3>3. ASSUME NEW j \in 1 .. m + 1, queue'[j].kind = "NewConnection",
                 queue'[j].conn = e
          PROVE  i < j
      <4>1. CASE j \in 1 .. m
        BY <1>1, <3>2, <3>3, <4>1
      <4>2. CASE j = m + 1
        BY <1>1, <2>1, <4>2
      <4> QED
        BY <1>1, <4>1, <4>2
    <3> QED
      BY <3>2, <3>3
  <2> QED
    BY <1>3, <2>3, <2>4
<1>7. LiveConnectionRegistered'
  <2> SUFFICES ASSUME NEW e \in Conns, e \notin rivals', view[e] = "open",
                      phase'[e] \in Live
               PROVE  channels[peer[e]] = e
    BY <1>2 DEF LiveConnectionRegistered
  <2>1. phase[e] \in Live
    <3>1. phase[e] \notin Before
      BY DEF Telling, Unannounced
    <3> QED
      BY <1>2, <1>3, <3>1
  <2>2. e \in Conns \ rivals
    OBVIOUS
  <2> QED
    BY <1>2, <2>1, <2>2 DEF Addressing, LiveConnectionRegistered
<1> QED
  BY <1>4, <1>5, <1>6, <1>7 DEF Addressing

LEMMA HearsAddressing ==
    ASSUME SignatureInv, Telling, Addressing, NEW c \in Conns, Hears(c),
           \/ /\ queue[1].kind = "NewConnection"
              /\ channels' = [channels EXCEPT ![peer[c]] = c]
           \/ queue[1].kind = "Message" /\ channels' = channels
           \/ /\ queue[1].kind = "ConnectionClosed"
              /\ channels' = [channels EXCEPT ![peer[c]] = None]
    PROVE  Addressing'
<1> DEFINE m == Len(queue)
<1>1. /\ m \in Nat \ {0} /\ 1 \in 1 .. m /\ Len(queue') = m - 1
      /\ \A i \in 1 .. m - 1 : queue'[i] = queue[i + 1]
      /\ \A i \in 1 .. m : queue[i].conn \in Conns
  BY QueueType DEF Hears, Taken
<1> HIDE DEF m
<1>2. /\ engine = "up" /\ engine' = engine /\ phase' = phase /\ peer' = peer
      /\ rivals' = rivals
      /\ \A d \in Conns \ {c} : view'[d] = view[d]
      /\ IsReport(queue[1]) /\ queue[1].conn = c
  BY DEF Hears
<1>3. /\ peer[c] \in Peers
      /\ queue[1].kind = "NewConnection" => view[c] = "unseen"
  BY <1>1, <1>2 DEF m, Telling, ReportsFit
<1>4. channels \in [Peers -> Conns \cup {None}]
  BY DEF SignatureInv, TypeOK
<1>5. \A p \in Peers \ {peer[c]} : channels'[p] = channels[p]
  BY <1>3, <1>4
<1>6. \/ /\ queue[1].kind = "NewConnection" /\ view'[c] = "open"
         /\ channels'[peer[c]] = c
      \/ /\ queue[1].kind = "Message" /\ view'[c] = view[c]
         /\ channels'[peer[c]] = channels[peer[c]]
      \/ /\ queue[1].kind = "ConnectionClosed" /\ view'[c] = "closed"
         /\ channels'[peer[c]] = None
  BY <1>3, <1>4 DEF Hears
<1>7. RegistrySound'
  <2> SUFFICES ASSUME NEW p \in Peers, channels'[p] # None
               PROVE  peer[channels'[p]] = p /\ view'[channels'[p]] = "open"
    BY <1>2 DEF RegistrySound
  <2>1. channels[p] # None => peer[channels[p]] = p /\ view[channels[p]] = "open"
    BY DEF Addressing, RegistrySound
  <2>2. channels[p] \in Conns \cup {None}
    BY <1>4
  <2>3. CASE p = peer[c]
    BY <1>2, <1>6, <2>1, <2>2, <2>3
  <2>4. CASE p # peer[c]
    <3>1. channels'[p] = channels[p] /\ channels[p] # c
      BY <1>5, <2>1, <2>4
    <3> QED
      BY <1>2, <2>1, <2>2, <3>1
  <2> QED
    BY <2>3, <2>4
<1>8. LiveRivals'
  BY <1>2 DEF Addressing, LiveRivals
<1>9. Undisturbed'
  <2> SUFFICES ASSUME NEW e \in Conns, e \notin rivals, phase[e] \in Live,
                      NEW i \in 1 .. m - 1, IsReport(queue'[i]),
                      queue'[i].conn # e, peer[queue'[i].conn] = peer[e]
               PROVE  /\ view'[e] # "open"
                      /\ \A j \in 1 .. m - 1 :
                            /\ queue'[j].kind = "NewConnection"
                            /\ queue'[j].conn = e
                            => i < j
    BY <1>1, <1>2 DEF Undisturbed, IsReport
  <2>1. i + 1 \in 1 .. m /\ queue'[i] = queue[i + 1]
    BY <1>1
  <2>2. /\ view[e] # "open"
        /\ \A j \in 1 .. m :
              queue[j].kind = "NewConnection" /\ queue[j].conn = e => i + 1 < j
    BY <2>1 DEF m, Addressing, Undisturbed
  <2>3. view'[e] # "open"
    <3>1. CASE e = c /\ queue[1].kind = "NewConnection"
      <4>1. i + 1 < 1
        BY <1>1, <1>2, <2>2, <3>1
      <4> QED
        BY <4>1
    <3>2. CASE e = c /\ queue[1].kind # "NewConnection"
      BY <1>6, <2>2, <3>2
    <3>3. CASE e # c
      BY <1>2, <2>2, <3>3
    <3> QED
      BY <3>1, <3>2, <3>3
  <2>4. ASSUME NEW j \in 1 .. m - 1, queue'[j].kind = "NewConnection",
               queue'[j].conn = e
        PROVE  i < j
    <3>1. j + 1 \in 1 .. m /\ queue'[j] = queue[j + 1]
      BY <1>1
    <3>2. i + 1 < j + 1
      BY <2>2, <2>4, <3>1
    <3> QED
      BY <3>2
  <2> QED
    BY <2>3, <2>4
<1>10. LiveConnectionRegistered'
  <2> SUFFICES ASSUME NEW e \in Conns, e \notin rivals, view'[e] = "open",
                      phase[e] \in Live
               PROVE  channels'[peer[e]] = e
    BY <1>2 DEF LiveConnectionRegistered
  <2>1. view[e] = "open" => channels[peer[e]] = e
    BY <1>2 DEF Addressing, LiveConnectionRegistered
  <2>2. CASE e = c
    BY <1>6, <2>1, <2>2
  <2>3. CASE e # c
    <3>1. view[e] = "open"
      BY <1>2, <2>3
    <3>2. peer[e] # peer[c]
      BY <1>1, <1>2, <2>3, <3>1 DEF m, Addressing, Undisturbed
    <3>3. peer[e] \in Peers
      BY <3>1 DEF Telling, Acquainted
    <3> QED
      BY <1>5, <2>1, <3>1, <3>2, <3>3
  <2> QED
    BY <2>2, <2>3
<1> QED
  BY <1>7, <1>8, <1>9, <1>10 DEF Addressing

LEMMA AddressingStep ==
    ASSUME DeliveryInv, DeliveryInv', Addressing, [Next]_vars
    PROVE  Addressing'
<1>0. SignatureInv /\ SignatureInv' /\ Telling
  BY DEF DeliveryInv
<1>1. CASE Quiet(0) \/ Quiet(1)
  <2>1. 0 \in {0, 1} /\ 1 \in {0, 1}
    OBVIOUS
  <2> QED
    BY <1>0, <1>1, <2>1, QuietAddressing
<1>2. CASE Vanish
  BY <1>0, <1>2, VanishAddressing
<1>3. ASSUME NEW c \in Conns, engine = "up", Announce(c)
      PROVE  Addressing'
  <2>1. Speaks("NewConnection", c, 0)
    BY <1>0, <1>3, AnnounceSpeaks
  <2>2. rivals' = IF Siblings(c) # {} THEN rivals \cup {c} \cup Siblings(c)
                  ELSE rivals
    BY <1>3 DEF Announce
  <2>3. rivals \subseteq rivals'
    BY <2>2
  <2>4. \A d \in Conns \ {c} : phase[d] \in Live /\ peer[d] = peer[c] =>
            c \in rivals' /\ d \in rivals'
    BY <2>2 DEF Siblings
  <2> QED
    BY <1>0, <2>1, <2>3, <2>4, SpeaksAddressing
<1>4. ASSUME NEW k, NEW c \in Conns, NEW n, Speaks(k, c, n),
             phase[c] \in Live, rivals' = rivals
      PROVE  Addressing'
  <2>1. \A d \in Conns \ {c} : phase[d] \in Live /\ peer[d] = peer[c] =>
            c \in rivals' /\ d \in rivals'
    BY <1>4 DEF Addressing, LiveRivals, Speaks
  <2> QED
    BY <1>0, <1>4, <2>1, SpeaksAddressing
<1>5. ASSUME NEW c \in Conns, engine = "up", ReadMessage(c)
      PROVE  Addressing'
  <2>1. Speaks("Message", c, received[c] + 1)
    BY <1>0, <1>5, ReadMessageSpeaks
  <2>2. phase[c] \in Live /\ rivals' = rivals
    BY <1>5 DEF ReadMessage, Live
  <2> QED
    BY <1>4, <2>1, <2>2
<1>6. ASSUME NEW c \in Conns, engine = "up",
             ReadEndOfFile(c) \/ CloseAfterError(c)
      PROVE  Addressing'
  <2>1. Speaks("ConnectionClosed", c, 0)
    BY <1>0, <1>6, ClosedSpeaks
  <2>2. phase[c] \in Live /\ rivals' = rivals
    BY <1>6 DEF ReadEndOfFile, CloseAfterError, Live
  <2> QED
    BY <1>4, <2>1, <2>2
<1>7. CASE HandleNewConnection
  BY <1>0, <1>7, NewConnectionHears, HearsAddressing
<1>8. CASE HandleMessage
  BY <1>0, <1>8, MessageHears, HearsAddressing
<1>9. CASE HandleConnectionClosed
  BY <1>0, <1>9, ConnectionClosedHears, HearsAddressing
<1> QED
  BY <1>0, <1>1, <1>2, <1>3, <1>5, <1>6, <1>7, <1>8, <1>9, StepKinds
     DEF StepKind

LEMMA AddressingInvariant == Spec => []Addressing
<1>1. Init => Addressing
  <2> SUFFICES ASSUME Init PROVE Addressing
    OBVIOUS
  <2>1. \A i \in 1 .. Len(queue) : FALSE
    BY EmptyEntries DEF Init
  <2> QED
    BY <2>1
       DEF Init, Addressing, RegistrySound, LiveRivals, Undisturbed,
           LiveConnectionRegistered, Live
<1>2. DeliveryInv /\ DeliveryInv' /\ Addressing /\ [Next]_vars => Addressing'
  BY AddressingStep
<1> QED
  BY <1>1, <1>2, DeliveryInvariant, PTL DEF Spec

\* What the application sends to a peer never goes to a connection with
\* somebody else, nor to one it does not know or was told is closed, whatever
\* the order in which connections with that peer came and went.
THEOREM RoutingIsSound == Spec => []RegistrySound
<1>1. Addressing => RegistrySound
  BY DEF Addressing
<1> QED
  BY <1>1, AddressingInvariant, PTL

\* A connection the application knows to be open can be addressed for as long
\* as it lives, unless it shared its peer with another live one: no late event
\* of an earlier connection takes its entry away.
THEOREM LiveIsRegistered == Spec => []LiveConnectionRegistered
<1>1. Addressing => LiveConnectionRegistered
  BY DEF Addressing
<1> QED
  BY <1>1, AddressingInvariant, PTL
=============================================================================
