------------------------------- MODULE Engine -------------------------------
(***************************************************************************)
(* One voynich node: the Engine (src/src/engine.rs) and the tasks it       *)
(* spawns, one per connection (src/src/connection.rs).                     *)
(*                                                                         *)
(* The engine owns a single event queue (`rx`) that every task writes to,  *)
(* and the map `channels` from a peer's service id to the sending half of  *)
(* that connection's own mailbox.  The application calls the engine's      *)
(* methods and drains the queue with get_event; all of these take          *)
(* `&mut self`, so each of them is one atomic step.  A task interleaves    *)
(* with them at every channel operation and every await.                   *)
(*                                                                         *)
(* What the peer and the network do is left open here: a handshake step    *)
(* may fail at any time and a running connection may read a message, an    *)
(* end of file or an error at any time.  Module Link models both ends.     *)
(*                                                                         *)
(* Of the log messages, which tasks send through the same queue, those     *)
(* after which a task goes on to change its state are kept, and the ones   *)
(* that only report progress are left out.                                 *)
(***************************************************************************)
EXTENDS Naturals, Sequences

CONSTANTS
    Peers,        \* service ids a connection can be with
    Conns,        \* connection tasks: one per connect() or accepted stream
    None,         \* "no entry" in channels, "not known yet" in peer
    MaxMailbox,   \* bound: events waiting in one connection's mailbox
    MaxMessages,  \* bound: chat messages read from one connection
    MaxQueue      \* bound: a failed write is logged only below this length

ASSUME ConstantsAssumption ==
    /\ None \notin Peers \cup Conns
    /\ MaxMailbox \in Nat
    /\ MaxMessages \in Nat
    /\ MaxQueue \in Nat

VARIABLES
    engine,     \* "up", or how it went: "dropped" by the application, or a
                \* panic in send().unwrap() to a task or to a signature request
    queue,      \* Engine.rx: the EngineEvents not yet handled
    channels,   \* Engine.channels: peer id -> connection holding the receiver
    phase,      \* where each task is
    peer,       \* ConnectionInfo.id, None until it is known
    mailbox,    \* Connection.rx: the ConnectionEvents not yet handled
    signature,  \* TRUE when the answer to sign_data is in its channel
    received,   \* number of chat messages the task has read
    view,       \* history: what the application has been told of it
    seen,       \* history: last chat message the application was given
    rivals      \* history: connections that were live together with another
                \* connection to the same peer

vars == <<engine, queue, channels, phase, peer, mailbox, signature,
          received, view, seen, rivals>>

-----------------------------------------------------------------------------
(* Phases of a task.  connect() dials, signs, authenticates the peer and    *)
(* waits to be authorized; handle_incoming_connection() accepts, signs and  *)
(* replies; both then enter handle_connection().                            *)

Signing   == {"signing", "countersigning"}
Handshake == {"dialing", "authenticating", "awaiting", "accepting", "replying"}
Live      == {"running", "writing", "failing"}
\* The receiver of the mailbox still exists.
Receiving == Live \cup {"closing"}
Phases    == {"idle", "ended"} \cup Signing \cup Handshake \cup Receiving

Commands   == {"Message", "ConnectionAuthorized", "CloseConnection"}
EventKinds == {"NewConnection", "SignatureRequest", "Message", "Error",
               "ConnectionClosed", "LogMessage"}
Events     == [kind : EventKinds, conn : Conns, seq : Nat]

Event(k, c, n) == [kind |-> k, conn |-> c, seq |-> n]

\* tx.send(): an event sent after the engine went is lost with the queue.
Post(k, c, n) ==
    queue' = IF engine = "up" THEN Append(queue, Event(k, c, n)) ELSE queue

Goto(c, p) == phase' = [phase EXCEPT ![c] = p]

\* A task that has asked for its signature knows whom it is talking to.
PeerKnown ==
    \A c \in Conns :
        phase[c] \in Signing \cup {"authenticating", "awaiting", "replying"}
                             \cup Receiving
            => peer[c] \in Peers

TypeOK ==
    /\ engine \in {"up", "dropped", "send panic", "signature panic"}
    /\ queue \in Seq(Events)
    /\ channels \in [Peers -> Conns \cup {None}]
    /\ phase \in [Conns -> Phases]
    /\ peer \in [Conns -> Peers \cup {None}]
    /\ mailbox \in [Conns -> Seq(Commands)]
    /\ signature \in [Conns -> BOOLEAN]
    /\ received \in [Conns -> Nat]
    /\ view \in [Conns -> {"unseen", "open", "closed"}]
    /\ seen \in [Conns -> Nat]
    /\ rivals \in SUBSET Conns
    /\ PeerKnown

Init ==
    /\ engine = "up"
    /\ queue = << >>
    /\ channels = [p \in Peers |-> None]
    /\ phase = [c \in Conns |-> "idle"]
    /\ peer = [c \in Conns |-> None]
    /\ mailbox = [c \in Conns |-> << >>]
    /\ signature = [c \in Conns |-> FALSE]
    /\ received = [c \in Conns |-> 0]
    /\ view = [c \in Conns |-> "unseen"]
    /\ seen = [c \in Conns |-> 0]
    /\ rivals = {}

-----------------------------------------------------------------------------
(* The engine going away: its queue and all the senders in `channels` are   *)
(* dropped with it.                                                         *)

EngineGone(how) ==
    /\ engine' = how
    /\ queue' = << >>
    /\ channels' = [p \in Peers |-> None]

Drop ==
    /\ engine = "up"
    /\ EngineGone("dropped")
    /\ UNCHANGED <<phase, peer, mailbox, signature, received, view, seen,
                   rivals>>

(* The application's calls that start a task. *)

Connect(c, p) ==
    /\ engine = "up"
    /\ phase[c] = "idle"
    /\ Goto(c, "dialing")
    /\ peer' = [peer EXCEPT ![c] = p]
    /\ UNCHANGED <<engine, queue, channels, mailbox, signature, received,
                   view, seen, rivals>>

HandleIncoming(c) ==
    /\ engine = "up"
    /\ phase[c] = "idle"
    /\ Goto(c, "accepting")
    /\ UNCHANGED <<engine, queue, channels, peer, mailbox, signature, received,
                   view, seen, rivals>>

(* The application's calls that go to a mailbox.  With no entry for p the   *)
(* call changes nothing: send_message logs, the other two return an error.  *)
(* With an entry whose receiver is gone, send_message ignores the failed    *)
(* send and the other two unwrap it.                                        *)

CanSend(p) ==
    /\ engine = "up"
    /\ channels[p] # None
    /\ Len(mailbox[channels[p]]) < MaxMailbox

SendMessage(p) ==
    /\ CanSend(p)
    /\ phase[channels[p]] \in Receiving
    /\ mailbox' = [mailbox EXCEPT ![channels[p]] = Append(@, "Message")]
    /\ UNCHANGED <<engine, queue, channels, phase, peer, signature, received,
                   view, seen, rivals>>

SendOrPanic(p, command) ==
    /\ CanSend(p)
    /\ IF phase[channels[p]] \in Receiving
       THEN /\ mailbox' = [mailbox EXCEPT ![channels[p]] = Append(@, command)]
            /\ UNCHANGED <<engine, queue, channels>>
       ELSE /\ EngineGone("send panic")
            /\ UNCHANGED mailbox
    /\ UNCHANGED <<phase, peer, signature, received, view, seen, rivals>>

SendConnectionAuthorized(p) == SendOrPanic(p, "ConnectionAuthorized")

Disconnect(p) == SendOrPanic(p, "CloseConnection")

-----------------------------------------------------------------------------
(* get_event: one queued event is taken and handled.                        *)

Take(kind) ==
    /\ engine = "up"
    /\ queue # << >>
    /\ Head(queue).kind = kind

\* Mutant: entry().or_insert() instead of insert().
HandleNewConnectionIfAbsent ==
    /\ Take("NewConnection")
    /\ LET c == Head(queue).conn IN
        /\ channels' = IF channels[peer[c]] = None
                       THEN [channels EXCEPT ![peer[c]] = c] ELSE channels
        /\ view' = [view EXCEPT ![c] = "open"]
    /\ queue' = Tail(queue)
    /\ UNCHANGED <<engine, phase, peer, mailbox, signature, received, seen,
                   rivals>>

HandleNewConnection ==
    /\ Take("NewConnection")
    /\ LET c == Head(queue).conn IN
        /\ channels' = [channels EXCEPT ![peer[c]] = c]
        /\ view' = [view EXCEPT ![c] = "open"]
    /\ queue' = Tail(queue)
    /\ UNCHANGED <<engine, phase, peer, mailbox, signature, received, seen,
                   rivals>>

\* The answer is unwrapped: the task must still hold the receiving end.
HandleSignatureRequest ==
    /\ Take("SignatureRequest")
    /\ LET c == Head(queue).conn IN
        IF phase[c] \in Signing
        THEN /\ signature' = [signature EXCEPT ![c] = TRUE]
             /\ queue' = Tail(queue)
             /\ UNCHANGED <<engine, channels>>
        ELSE /\ EngineGone("signature panic")
             /\ UNCHANGED signature
    /\ UNCHANGED <<phase, peer, mailbox, received, view, seen, rivals>>

HandleMessage ==
    /\ Take("Message")
    /\ seen' = [seen EXCEPT ![Head(queue).conn] = Head(queue).seq]
    /\ queue' = Tail(queue)
    /\ UNCHANGED <<engine, channels, phase, peer, mailbox, signature,
                   received, view, rivals>>

\* Errors and log messages go to the application's logger only.
HandleLog ==
    /\ Take("Error") \/ Take("LogMessage")
    /\ queue' = Tail(queue)
    /\ UNCHANGED <<engine, channels, phase, peer, mailbox, signature,
                   received, view, seen, rivals>>

\* Mutant: the entry of a closed connection stays.
HandleConnectionClosedKeepingEntry ==
    /\ Take("ConnectionClosed")
    /\ view' = [view EXCEPT ![Head(queue).conn] = "closed"]
    /\ queue' = Tail(queue)
    /\ UNCHANGED <<engine, channels, phase, peer, mailbox, signature, received,
                   seen, rivals>>

\* The entry goes whether or not it is the one of the closed connection.
HandleConnectionClosed ==
    /\ Take("ConnectionClosed")
    /\ LET c == Head(queue).conn IN
        /\ channels' = [channels EXCEPT ![peer[c]] = None]
        /\ view' = [view EXCEPT ![c] = "closed"]
    /\ queue' = Tail(queue)
    /\ UNCHANGED <<engine, phase, peer, mailbox, signature, received, seen,
                   rivals>>

GetEvent ==
    \/ HandleNewConnection
    \/ HandleSignatureRequest
    \/ HandleMessage
    \/ HandleLog
    \/ HandleConnectionClosed

-----------------------------------------------------------------------------
(* The handshake of a task.  Wherever it needs the engine and the engine is *)
(* gone, an unwrap ends the task instead.                                   *)

\* Mutant: an accepted stream's task does not keep the id it has verified.
RequestSignatureForgetsPeer(c, p) ==
    /\ \/ phase[c] = "dialing" /\ peer[c] = p
       \/ phase[c] = "accepting"
    /\ Goto(c, IF engine # "up" THEN "ended"
               ELSE IF phase[c] = "dialing" THEN "signing"
               ELSE "countersigning")
    /\ Post("SignatureRequest", c, 0)
    /\ UNCHANGED <<engine, channels, peer, mailbox, signature, received, view,
                   seen, rivals>>

\* connect() has exchanged keys, or an accepted stream has also read and
\* verified the peer's auth message and so learnt who the peer is.
RequestSignature(c, p) ==
    /\ \/ phase[c] = "dialing" /\ peer[c] = p
       \/ phase[c] = "accepting"
    /\ Goto(c, IF engine # "up" THEN "ended"
               ELSE IF phase[c] = "dialing" THEN "signing"
               ELSE "countersigning")
    /\ peer' = [peer EXCEPT ![c] = p]
    /\ Post("SignatureRequest", c, 0)
    /\ UNCHANGED <<engine, channels, mailbox, signature, received, view, seen,
                   rivals>>

ReceiveSignature(c) ==
    /\ phase[c] \in Signing
    /\ signature[c]
    /\ Goto(c, IF phase[c] = "signing" THEN "authenticating" ELSE "replying")
    /\ UNCHANGED <<engine, queue, channels, peer, mailbox, signature, received,
                   view, seen, rivals>>

\* Mutant: the task keeps a sender of its own answer channel, so that it never
\* learns that the engine is gone.
AbandonSignatureNever(c) == FALSE

\* "Engine closed connection before servicing signature request"
AbandonSignature(c) ==
    /\ phase[c] \in Signing
    /\ ~signature[c]
    /\ engine # "up"
    /\ Goto(c, "ended")
    /\ UNCHANGED <<engine, queue, channels, peer, mailbox, signature, received,
                   view, seen, rivals>>

\* The peer's auth message is read in time and verifies.
VerifyPeer(c) ==
    /\ phase[c] = "authenticating"
    /\ Goto(c, "awaiting")
    /\ UNCHANGED <<engine, queue, channels, peer, mailbox, signature, received,
                   view, seen, rivals>>

\* Mutant: one timeout around the whole handshake, the signing included.
HandshakeTimesOut(c) ==
    /\ phase[c] \in Handshake \cup Signing
    /\ Goto(c, "ended")
    /\ Post("LogMessage", c, 0)
    /\ UNCHANGED <<engine, channels, peer, mailbox, signature, received,
                   view, seen, rivals>>

\* The task returns an error to its spawner, which logs it.
HandshakeFails(c) ==
    /\ phase[c] \in Handshake
    /\ Goto(c, "ended")
    /\ Post("LogMessage", c, 0)
    /\ UNCHANGED <<engine, channels, peer, mailbox, signature, received,
                   view, seen, rivals>>

Siblings(c) == {d \in Conns \ {c} : peer[d] = peer[c] /\ phase[d] \in Live}

\* NewConnection is sent and handle_connection() entered.
Announce(c) ==
    /\ phase[c] \in {"awaiting", "replying"}
    /\ Goto(c, IF engine = "up" THEN "running" ELSE "ended")
    /\ Post("NewConnection", c, 0)
    /\ rivals' = IF engine = "up" /\ Siblings(c) # {}
                 THEN rivals \cup {c} \cup Siblings(c)
                 ELSE rivals
    /\ UNCHANGED <<engine, channels, peer, mailbox, signature, received,
                   view, seen>>

-----------------------------------------------------------------------------
(* The loop of handle_connection().  Both arms of the select! may be ready  *)
(* and either is taken; while a write is under way neither is.              *)

ReadMessage(c) ==
    /\ phase[c] = "running"
    /\ received[c] < MaxMessages
    /\ received' = [received EXCEPT ![c] = @ + 1]
    /\ Post("Message", c, received[c] + 1)
    /\ UNCHANGED <<engine, channels, phase, peer, mailbox, signature, view,
                   seen, rivals>>

\* Mutant: the end of file does not leave the loop.
ReadEndOfFileAgain(c) ==
    /\ phase[c] = "running"
    /\ Len(queue) < MaxQueue
    /\ Post("ConnectionClosed", c, 0)
    /\ UNCHANGED <<engine, channels, phase, peer, mailbox, signature, received,
                   view, seen, rivals>>

ReadEndOfFile(c) ==
    /\ phase[c] = "running"
    /\ Goto(c, "closing")
    /\ Post("ConnectionClosed", c, 0)
    /\ UNCHANGED <<engine, channels, peer, mailbox, signature, received, view,
                   seen, rivals>>

\* Two sends: other tasks may come between them.
ReadError(c) ==
    /\ phase[c] = "running"
    /\ Goto(c, "failing")
    /\ Post("Error", c, 0)
    /\ UNCHANGED <<engine, channels, peer, mailbox, signature, received, view,
                   seen, rivals>>

\* Mutant: after an error the loop is left without a ConnectionClosed.
CloseAfterErrorSilently(c) ==
    /\ phase[c] = "failing"
    /\ Goto(c, "closing")
    /\ UNCHANGED <<engine, queue, channels, peer, mailbox, signature, received,
                   view, seen, rivals>>

CloseAfterError(c) ==
    /\ phase[c] = "failing"
    /\ Goto(c, "closing")
    /\ Post("ConnectionClosed", c, 0)
    /\ UNCHANGED <<engine, channels, peer, mailbox, signature, received, view,
                   seen, rivals>>

\* A mailbox whose senders are all gone yields None for ever, which the loop
\* ignores: the task then only reads.
TakeCommand(c, commands) ==
    /\ phase[c] = "running"
    /\ mailbox[c] # << >>
    /\ Head(mailbox[c]) \in commands
    /\ mailbox' = [mailbox EXCEPT ![c] = Tail(@)]
    /\ UNCHANGED <<engine, channels, peer, signature, received, view, seen,
                   rivals>>

BeginWrite(c) ==
    /\ TakeCommand(c, {"Message", "ConnectionAuthorized"})
    /\ Goto(c, "writing")
    /\ UNCHANGED queue

\* Mutant: the break after CloseConnection is missing.
CloseNot(c) ==
    /\ TakeCommand(c, {"CloseConnection"})
    /\ Post("LogMessage", c, 0)
    /\ UNCHANGED phase

\* "Disconnecting from" is logged through the engine; no ConnectionClosed is
\* sent, for it is the application that asked.
Close(c) ==
    /\ TakeCommand(c, {"CloseConnection"})
    /\ Goto(c, "closing")
    /\ Post("LogMessage", c, 0)

WriteSucceeds(c) ==
    /\ phase[c] = "writing"
    /\ Goto(c, "running")
    /\ UNCHANGED <<engine, queue, channels, peer, mailbox, signature, received,
                   view, seen, rivals>>

\* The failure is logged through the engine and the loop goes on; without the
\* engine the logger's unwrap leaves it.
WriteFails(c) ==
    /\ phase[c] = "writing"
    /\ Len(queue) < MaxQueue
    /\ Goto(c, IF engine = "up" THEN "running" ELSE "closing")
    /\ Post("LogMessage", c, 0)
    /\ UNCHANGED <<engine, channels, peer, mailbox, signature, received, view,
                   seen, rivals>>

\* The loop was left, by a break or by a panic: the connection is dropped and
\* its mailbox with it.
DropConnection(c) ==
    /\ phase[c] = "closing"
    /\ Goto(c, "ended")
    /\ mailbox' = [mailbox EXCEPT ![c] = << >>]
    /\ UNCHANGED <<engine, queue, channels, peer, signature, received, view,
                   seen, rivals>>

-----------------------------------------------------------------------------
\* What a task does without waiting for the network.
TaskStep(c) ==
    \/ ReceiveSignature(c)
    \/ AbandonSignature(c)
    \/ CloseAfterError(c)
    \/ BeginWrite(c)
    \/ Close(c)
    \/ DropConnection(c)

WriteDone(c) == WriteSucceeds(c) \/ WriteFails(c)

\* What depends on the peer and the network.
NetworkStep(c) ==
    \/ \E p \in Peers : RequestSignature(c, p)
    \/ VerifyPeer(c)
    \/ HandshakeFails(c)
    \/ Announce(c)
    \/ ReadMessage(c)
    \/ ReadEndOfFile(c)
    \/ ReadError(c)

Application ==
    \/ Drop
    \/ \E c \in Conns : HandleIncoming(c)
    \/ \E c \in Conns, p \in Peers : Connect(c, p)
    \/ \E p \in Peers :
        \/ SendMessage(p)
        \/ SendConnectionAuthorized(p)
        \/ Disconnect(p)

Next ==
    \/ GetEvent
    \/ Application
    \/ \E c \in Conns : TaskStep(c) \/ WriteDone(c) \/ NetworkStep(c)

Spec == Init /\ [][Next]_vars

(* The application keeps calling get_event, and tokio keeps polling the     *)
(* tasks.  No write is assumed to end: a task awaits it without a timeout,  *)
(* and a peer that stays connected and does not read can block it for ever. *)
Fairness ==
    /\ WF_vars(GetEvent)
    /\ \A c \in Conns : WF_vars(TaskStep(c))

FairSpec == Spec /\ Fairness

-----------------------------------------------------------------------------
(* Properties *)

\* handle_engine_event unwraps the send that answers a SignatureRequest: a
\* task never stops waiting for its signature while the request is queued.
SignatureNeverPanics == engine # "signature panic"

\* The events of one connection reach the application in protocol order:
\* NewConnection first and once, then its chat messages in the order they were
\* read and none missing, then ConnectionClosed, then nothing.
OrderlyDelivery ==
    queue # << >> =>
        LET e == Head(queue) IN
        /\ e.kind = "NewConnection" => view[e.conn] = "unseen"
        /\ e.kind = "Message" => view[e.conn] = "open"
                                 /\ e.seq = seen[e.conn] + 1
        /\ e.kind = "ConnectionClosed" => view[e.conn] = "open"

\* Calls for p are never routed to a connection with somebody else, to one the
\* application has not been told of, or to one it was told is closed.
RegistrySound ==
    \A p \in Peers : channels[p] # None =>
        peer[channels[p]] = p /\ view[channels[p]] = "open"

\* A live connection the application knows of can be addressed, across any
\* number of disconnects and reconnects, unless another connection with the
\* same peer was live at the same time.
LiveConnectionRegistered ==
    engine = "up" =>
        \A c \in Conns \ rivals :
            view[c] = "open" /\ phase[c] \in Live => channels[peer[c]] = c

\* sign_data waits without a timeout: it is always answered or told that the
\* engine is gone.
SignatureServed ==
    \A c \in Conns : phase[c] \in Signing ~> phase[c] \notin Signing

\* When the other side ends a connection the application is told.
CloseReported ==
    \A c \in Conns :
        phase[c] = "failing" \/ (\E i \in DOMAIN queue :
                    queue[i].conn = c /\ queue[i].kind = "ConnectionClosed")
            ~> view[c] = "closed" \/ engine # "up"

\* disconnect() ends the connection, whatever is in its mailbox before and
\* whatever arrives meanwhile, unless the task is stuck in one write for ever:
\* nothing else can keep the close from being taken.
DisconnectHonoured ==
    \A c \in Conns :
        []<>(phase[c] # "writing") =>
            ((\E i \in DOMAIN mailbox[c] : mailbox[c][i] = "CloseConnection")
                ~> phase[c] = "ended")

\* engine.rs asserts, by unwrapping the send, that an entry of `channels` always
\* has its receiver.  It does not: see the run that violates this.
SendNeverPanics == engine # "send panic"

\* engine.rs answers "Unknown connection id" only for peers without a live
\* connection.  It does not: see the run that violates this.
UnknownMeansNotConnected ==
    engine = "up" =>
        \A p \in Peers : channels[p] = None =>
            ~ \E c \in Conns : /\ peer[c] = p
                               /\ phase[c] \in Live
                               /\ view[c] = "open"
=============================================================================
