-------------------------------- MODULE Link --------------------------------
(***************************************************************************)
(* Both ends of one connection: the tasks of src/src/connection.rs that    *)
(* dialed it ("client") and that accepted it ("server"), and the stream    *)
(* between them, carried by Tor.  Key exchange and authentication follow   *)
(* src/src/crypto.rs.                                                      *)
(*                                                                         *)
(* The stream keeps its order and loses nothing until it is cut; when it   *)
(* is cut, any tail of what is under way may be lost, and each end then    *)
(* reads an error or an end of file.  A write waits while the stream is    *)
(* full.  The two applications are left open: once told of the connection  *)
(* they may submit messages, authorize and disconnect in any order.        *)
(*                                                                         *)
(* An end may sign with a key that does not belong to its service id:      *)
(* OnionService keeps the two in separate files.                           *)
(***************************************************************************)
EXTENDS Integers, Sequences

Ends == {"client", "server"}

Other(e) == IF e = "client" THEN "server" ELSE "client"

Sizes == {"fits", "too long"}

CONSTANTS
    Capacity,      \* frames the stream holds in each direction
    MaxMailbox,    \* bound: commands waiting in an end's mailbox
    MaxSubmitted,  \* bound: messages submitted at each end
    MaxAuthorize   \* bound: authorizations asked for at each end

ASSUME LinkAssumption ==
    /\ Capacity \in Nat \ {0}
    /\ MaxMailbox \in Nat
    /\ MaxSubmitted \in Nat
    /\ MaxAuthorize \in [Ends -> Nat]

VARIABLES
    ownKey,      \* whether each end's signing key belongs to its service id
    phase,       \* where the task of each end is
    wire,        \* wire[e]: frames sent by e and not yet read
    cut,         \* the stream is gone
    mailbox,     \* commands of e's application not yet taken
    pending,     \* the frame e is writing, Key for none
    submitted,   \* history: sizes of the messages submitted at e
    delivered,   \* history: messages e has passed on to its application
    authorized,  \* history: how often e's application authorized
    misused,     \* history: an application authorized or wrote out of turn
    undecodable  \* history: a frame was not of the type its reader expected

history == <<submitted, delivered, authorized, misused, undecodable>>

vars == <<ownKey, phase, wire, cut, mailbox, pending, history>>

-----------------------------------------------------------------------------
Timed     == {"wantKey", "wantAuth"}
Handshake == {"dialed", "signing", "wantAuthorized", "announcing"} \cup Timed
Live      == {"running", "writing"}
Phases    == Handshake \cup Live \cup {"closed"}

Key           == [kind |-> "key"]
Auth(genuine) == [kind |-> "auth", genuine |-> genuine]
Authorized    == [kind |-> "authorized"]
Chat(n)       == [kind |-> "chat", number |-> n]
CloseCommand  == [kind |-> "close"]

Chats    == {Chat(n) : n \in 1 .. MaxSubmitted}
Frames   == {Key, Authorized} \cup {Auth(g) : g \in BOOLEAN} \cup Chats
Commands == {Authorized, CloseCommand} \cup Chats

TypeOK ==
    /\ ownKey \in [Ends -> BOOLEAN]
    /\ phase \in [Ends -> Phases]
    /\ wire \in [Ends -> Seq(Frames)]
    /\ cut \in BOOLEAN
    /\ mailbox \in [Ends -> Seq(Commands)]
    /\ pending \in [Ends -> {Key, Authorized} \cup Chats]
    /\ submitted \in [Ends -> Seq(Sizes)]
    /\ delivered \in [Ends -> Seq(1 .. MaxSubmitted)]
    /\ authorized \in [Ends -> Nat]
    /\ misused \in BOOLEAN
    /\ undecodable \in BOOLEAN
    /\ \A e \in Ends :
        /\ Len(wire[e]) <= Capacity
        /\ (pending[e] # Key) <=> (phase[e] = "writing")

Init ==
    /\ ownKey \in [Ends -> BOOLEAN]
    /\ phase = [client |-> "dialed", server |-> "wantKey"]
    /\ wire = [e \in Ends |-> << >>]
    /\ cut = FALSE
    /\ mailbox = [e \in Ends |-> << >>]
    /\ pending = [e \in Ends |-> Key]
    /\ submitted = [e \in Ends |-> << >>]
    /\ delivered = [e \in Ends |-> << >>]
    /\ authorized = [e \in Ends |-> 0]
    /\ misused = FALSE
    /\ undecodable = FALSE

-----------------------------------------------------------------------------
(* Helpers of the actions. *)

Goto(e, p) == phase' = [phase EXCEPT ![e] = p]

\* The task returns or leaves its loop: its half of the stream is closed, and
\* what was waiting for it is gone.
Finish(e) ==
    /\ Goto(e, "closed")
    /\ mailbox' = [mailbox EXCEPT ![e] = << >>]
    /\ pending' = [pending EXCEPT ![e] = Key]
    /\ wire' = [wire EXCEPT ![Other(e)] = << >>]

\* Nothing that e writes now will be read.
Unread(e) == cut \/ phase[Other(e)] = "closed"

Write(e, frame) ==
    wire' = IF Unread(e) THEN wire
            ELSE [wire EXCEPT ![e] = Append(@, frame)]

\* The next frame for e, of one of these kinds, is read.
Readable(e, kinds) ==
    /\ wire[Other(e)] # << >>
    /\ Head(wire[Other(e)]).kind \in kinds

Consume(e) == wire' = [wire EXCEPT ![Other(e)] = Tail(@)]

AtEnd(e) == wire[Other(e)] = << >> /\ Unread(e)

-----------------------------------------------------------------------------
(* The handshake. *)

\* Mutant: the client does not wait for the server's key before it goes on.
SendKeyOnly ==
    /\ phase["client"] = "dialed"
    /\ Goto("client", "signing")
    /\ Write("client", Key)
    /\ UNCHANGED <<ownKey, cut, mailbox, pending, history>>

SendKey ==
    /\ phase["client"] = "dialed"
    /\ Goto("client", "wantKey")
    /\ Write("client", Key)
    /\ UNCHANGED <<ownKey, cut, mailbox, pending, history>>

\* One read of the stream brings all 34 bytes.  The server answers with its key.
ReadKey(e) ==
    /\ phase[e] = "wantKey"
    /\ Readable(e, {"key"})
    /\ Goto(e, IF e = "client" THEN "signing" ELSE "wantAuth")
    /\ wire' = [f \in Ends |->
                    IF f = Other(e) THEN Tail(wire[f])
                    ELSE IF e = "server" /\ ~Unread(e)
                         THEN Append(wire[f], Key)
                         ELSE wire[f]]
    /\ UNCHANGED <<ownKey, cut, mailbox, pending, history>>

\* "Bad public key packet length": the first read brings only a part.
ReadPartOfKey(e) ==
    /\ phase[e] = "wantKey"
    /\ Readable(e, {"key"})
    /\ Finish(e)
    /\ UNCHANGED <<ownKey, cut, history>>

\* The engine answers the signature request and the auth message is written.
SendAuth(e) ==
    /\ phase[e] = "signing"
    /\ Goto(e, IF e = "client" THEN "wantAuth" ELSE "announcing")
    /\ Write(e, Auth(ownKey[e]))
    /\ UNCHANGED <<ownKey, cut, mailbox, pending, history>>

\* Mutant: the signature is not looked at.
VerifiedById(frame) == frame.kind = "auth"

\* The signature is one by the key of the id that the frame gives; both ends
\* hash the same ids and the same shared secret.
Verified(frame) == frame.kind = "auth" /\ frame.genuine

ReadAuth(e) ==
    /\ phase[e] = "wantAuth"
    /\ Readable(e, {"auth"})
    /\ IF Verified(Head(wire[Other(e)]))
       THEN /\ Goto(e, IF e = "client" THEN "wantAuthorized" ELSE "signing")
            /\ Consume(e)
            /\ UNCHANGED <<mailbox, pending>>
       ELSE Finish(e)
    /\ UNCHANGED <<ownKey, cut, history>>

\* The type of the frame is all that is looked at.
ReadAuthorized ==
    /\ phase["client"] = "wantAuthorized"
    /\ Readable("client", {"authorized"})
    /\ Goto("client", "announcing")
    /\ Consume("client")
    /\ UNCHANGED <<ownKey, cut, mailbox, pending, history>>

\* Mutant: the client does not wait, as if the read had a timeout of 0.
ReadNoAuthorizationAtOnce ==
    /\ phase["client"] = "wantAuthorized"
    /\ Goto("client", "announcing")
    /\ UNCHANGED <<ownKey, wire, cut, mailbox, pending, history>>

\* read() returns Ok(None), which the client takes for an authorization.
ReadNoAuthorization ==
    /\ phase["client"] = "wantAuthorized"
    /\ AtEnd("client")
    /\ Goto("client", "announcing")
    /\ UNCHANGED <<ownKey, wire, cut, mailbox, pending, history>>

\* A message came before the authorization.
ReadTooEarly ==
    /\ phase["client"] = "wantAuthorized"
    /\ Readable("client", {"chat"})
    /\ Finish("client")
    /\ undecodable' = TRUE
    /\ UNCHANGED <<ownKey, cut, submitted, delivered, authorized, misused>>

\* An end of file where a frame is needed, a read error, a write error.
HandshakeBreaks(e) ==
    /\ \/ phase[e] \in Timed /\ AtEnd(e)
       \/ phase[e] = "wantAuthorized" /\ AtEnd(e) /\ cut
       \/ phase[e] \in {"dialed", "signing"} /\ Unread(e)
    /\ Finish(e)
    /\ UNCHANGED <<ownKey, cut, history>>

\* Mutant: only the read of the key has a timeout.
TimeoutOfKey(e) ==
    /\ phase[e] = "wantKey"
    /\ Finish(e)
    /\ UNCHANGED <<ownKey, cut, history>>

\* Ten seconds have passed; the frame may be there all the same.
Timeout(e) ==
    /\ phase[e] \in Timed
    /\ Finish(e)
    /\ UNCHANGED <<ownKey, cut, history>>

\* The engine is dropped while the task needs it.
EngineLeaves(e) ==
    /\ phase[e] \in {"signing", "announcing"}
    /\ Finish(e)
    /\ UNCHANGED <<ownKey, cut, history>>

Announce(e) ==
    /\ phase[e] = "announcing"
    /\ Goto(e, "running")
    /\ UNCHANGED <<ownKey, wire, cut, mailbox, pending, history>>

-----------------------------------------------------------------------------
(* The loop of handle_connection(). *)

ReadChat(e) ==
    /\ phase[e] = "running"
    /\ Readable(e, {"chat"})
    /\ delivered' = [delivered EXCEPT ![e] =
                        Append(@, Head(wire[Other(e)]).number)]
    /\ Consume(e)
    /\ UNCHANGED <<ownKey, phase, cut, mailbox, pending, submitted, authorized,
                   misused, undecodable>>

\* Only chat messages can be decoded here; for anything else the loop is left.
ReadOutOfTurn(e) ==
    /\ phase[e] = "running"
    /\ Readable(e, {"authorized", "auth", "key"})
    /\ Finish(e)
    /\ undecodable' = TRUE
    /\ UNCHANGED <<ownKey, cut, submitted, delivered, authorized, misused>>

\* Mutant: the loop goes on after an end of file.
ReadEndAgain(e) ==
    /\ phase[e] = "running"
    /\ AtEnd(e)
    /\ UNCHANGED vars

ReadEnd(e) ==
    /\ phase[e] = "running"
    /\ AtEnd(e)
    /\ Finish(e)
    /\ UNCHANGED <<ownKey, cut, history>>

Take(e, kinds) ==
    /\ phase[e] = "running"
    /\ mailbox[e] # << >>
    /\ Head(mailbox[e]).kind \in kinds

BeginWrite(e) ==
    /\ Take(e, {"chat", "authorized"})
    /\ Goto(e, "writing")
    /\ pending' = [pending EXCEPT ![e] = Head(mailbox[e])]
    /\ mailbox' = [mailbox EXCEPT ![e] = Tail(@)]
    /\ UNCHANGED <<ownKey, wire, cut, history>>

\* A chat message too long for a frame, which the codec refuses.
TooLong(e) ==
    /\ pending[e].kind = "chat"
    /\ submitted[e][pending[e].number] = "too long"

EndWrite(e) ==
    /\ phase[e] = "writing"
    /\ Goto(e, "running")
    /\ pending' = [pending EXCEPT ![e] = Key]
    /\ UNCHANGED <<ownKey, cut, mailbox, history>>

\* Mutant: a write does not wait for room in the stream.
WriteSucceedsAtOnce(e) ==
    /\ EndWrite(e)
    /\ ~TooLong(e)
    /\ Write(e, pending[e])

\* The frame is accepted: it waits for room, unless nobody reads any more.
WriteSucceeds(e) ==
    /\ EndWrite(e)
    /\ ~TooLong(e)
    /\ Unread(e) \/ Len(wire[e]) < Capacity
    /\ Write(e, pending[e])

\* Mutant: a full stream counts as an error.
WriteFailsWhenFull(e) ==
    /\ EndWrite(e)
    /\ TooLong(e) \/ Unread(e) \/ Len(wire[e]) = Capacity
    /\ UNCHANGED wire

\* Mutant: the write of a frame that is too long does not return.
WriteFailsOnlyUnread(e) ==
    /\ EndWrite(e)
    /\ Unread(e)
    /\ UNCHANGED wire

\* The error is logged and the loop goes on without the frame.
WriteFails(e) ==
    /\ EndWrite(e)
    /\ TooLong(e) \/ Unread(e)
    /\ UNCHANGED wire

TakeClose(e) ==
    /\ Take(e, {"close"})
    /\ Finish(e)
    /\ UNCHANGED <<ownKey, cut, history>>

-----------------------------------------------------------------------------
(* The applications and the network. *)

Put(e, command) ==
    /\ phase[e] \in Live
    /\ Len(mailbox[e]) < MaxMailbox
    /\ mailbox' = [mailbox EXCEPT ![e] = Append(@, command)]
    /\ UNCHANGED <<ownKey, phase, wire, cut, pending, delivered, undecodable>>

Submit(e, size) ==
    /\ Len(submitted[e]) < MaxSubmitted
    /\ submitted' = [submitted EXCEPT ![e] = Append(@, size)]
    /\ Put(e, Chat(Len(submitted[e]) + 1))
    /\ misused' = (misused \/ (e = "server" /\ authorized[e] = 0))
    /\ UNCHANGED authorized

\* The server is to authorize, and once.
Authorize(e) ==
    /\ authorized[e] < MaxAuthorize[e]
    /\ authorized' = [authorized EXCEPT ![e] = @ + 1]
    /\ Put(e, Authorized)
    /\ misused' = (misused \/ e = "client" \/ authorized[e] > 0)
    /\ UNCHANGED submitted

Disconnect(e) ==
    /\ Put(e, CloseCommand)
    /\ UNCHANGED <<submitted, authorized, misused>>

Cut ==
    /\ ~cut
    /\ cut' = TRUE
    /\ \E kept \in [Ends -> 0 .. Capacity] :
        /\ \A e \in Ends : kept[e] <= Len(wire[e])
        /\ wire' = [e \in Ends |-> SubSeq(wire[e], 1, kept[e])]
    /\ UNCHANGED <<ownKey, phase, mailbox, pending, history>>

-----------------------------------------------------------------------------
\* What the task of an end does when it can.
Step(e) ==
    \/ e = "client" /\ (SendKey \/ ReadAuthorized \/ ReadNoAuthorization
                        \/ ReadTooEarly)
    \/ ReadKey(e)
    \/ SendAuth(e)
    \/ ReadAuth(e)
    \/ HandshakeBreaks(e)
    \/ Timeout(e)
    \/ Announce(e)
    \/ ReadChat(e)
    \/ ReadOutOfTurn(e)
    \/ ReadEnd(e)
    \/ BeginWrite(e)
    \/ WriteSucceeds(e)
    \/ WriteFails(e)
    \/ TakeClose(e)

Environment(e) ==
    \/ ReadPartOfKey(e)
    \/ EngineLeaves(e)
    \/ \E size \in Sizes : Submit(e, size)
    \/ Authorize(e)
    \/ Disconnect(e)

Next == Cut \/ \E e \in Ends : Step(e) \/ Environment(e)

Spec == Init /\ [][Next]_vars

(* Tokio polls every task that can go on, an engine answers its requests,   *)
(* and time passes.                                                         *)
Scheduled(e) == WF_vars(Step(e))

Fair == \A e \in Ends : Scheduled(e)

-----------------------------------------------------------------------------
(* Properties *)

\* The one unframed read of the key exchange, which may return whatever bytes
\* are there, never finds the first encrypted frame behind the key.
KeyArrivesAlone ==
    \A e \in Ends : phase[e] = "wantKey" => Len(wire[Other(e)]) <= 1

\* An end tells its application of a connection only with a peer that holds the
\* key of the service id it was announced with; for the client, only if the
\* server could verify it too.
Authenticated ==
    /\ \A e \in Ends : phase[e] \in Live => ownKey[Other(e)]
    /\ phase["client"] \in Live => ownKey["client"]

\* As long as the server's application authorizes once, before it writes, and
\* the client's never does, every frame is of the type its reader expects.
DecodesWhatIsSent == undecodable => misused

\* The streams of both directions are full and both tasks are inside a write:
\* neither reads nor looks at its mailbox.
Gridlock ==
    \A e \in Ends : /\ phase[e] = "writing"
                    /\ ~TooLong(e)
                    /\ Len(wire[e]) = Capacity

\* Every command is taken from its mailbox, a disconnect above all, unless the
\* two ends get into gridlock, which only the network can end.
CommandsTaken ==
    Fair => \A e \in Ends :
                mailbox[e] # << >> ~> (mailbox[e] = << >> \/ Gridlock)

\* No handshake hangs even if the other end stops for good: every step has a
\* timeout or needs this end only.  The one exception is that the client waits
\* for the authorization as long as the stream is there.  Only the end itself is
\* assumed to be scheduled.
HandshakeEnds ==
    \A e \in Ends :
        Scheduled(e) =>
            (phase[e] \in Handshake
                ~> \/ phase[e] \in Live \cup {"closed"}
                   \/ phase[e] = "wantAuthorized" /\ ~AtEnd(e))

\* When one end is closed, or the stream cut, so will the other be.
CloseReachesOther ==
    Fair => \A e \in Ends : Unread(e) ~> phase[e] = "closed"

\* connection.rs:165, "Got connection authorized message": the client is told of
\* a connection only if the server's application authorized it.  An end of file
\* will do instead: see the run that violates this.
ClientWasAuthorized ==
    phase["client"] \in Live => authorized["server"] > 0

-----------------------------------------------------------------------------
(* Link implements Session. *)

state == [e \in Ends |-> IF phase[e] = "closed" THEN "closed"
                         ELSE IF phase[e] \in Live THEN "open"
                         ELSE "new"]

session == INSTANCE Session WITH
    state <- state, submitted <- submitted, delivered <- delivered

\* The promise to the applications: see Session.
SessionSpec == session!Spec
=============================================================================
