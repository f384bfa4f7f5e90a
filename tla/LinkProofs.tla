----------------------------- MODULE LinkProofs -----------------------------
(***************************************************************************)
(* Proofs about Link, for any capacity of the stream and any bounds.       *)
(***************************************************************************)
EXTENDS Link, TLAPS

-----------------------------------------------------------------------------
(* The type invariant without the capacity of the stream, in two parts.     *)

Writing == \A e \in Ends : (pending[e] # Key) <=> (phase[e] = "writing")

TaskType ==
    /\ phase \in [Ends -> Phases]
    /\ wire \in [Ends -> Seq(Frames)]
    /\ mailbox \in [Ends -> Seq(Commands)]
    /\ pending \in [Ends -> {Key, Authorized} \cup Chats]
    /\ Writing

HistoryType ==
    /\ ownKey \in [Ends -> BOOLEAN]
    /\ cut \in BOOLEAN
    /\ submitted \in [Ends -> Seq(Sizes)]
    /\ delivered \in [Ends -> Seq(1 .. MaxSubmitted)]
    /\ authorized \in [Ends -> Nat]
    /\ misused \in BOOLEAN
    /\ undecodable \in BOOLEAN

Typed == TaskType /\ HistoryType

-----------------------------------------------------------------------------
(* Facts about ends, frames and sequences. *)

LEMMA OtherEnd ==
    ASSUME NEW e \in Ends
    PROVE  Other(e) \in Ends /\ Other(e) # e /\ Other(Other(e)) = e
  BY DEF Ends, Other

LEMMA NoFrames ==
    ASSUME NEW S
    PROVE  << >> \in Seq(S) /\ Len(<< >>) = 0
  OBVIOUS

LEMMA AppendType ==
    ASSUME NEW S, NEW s \in Seq(S), NEW x \in S
    PROVE  /\ Append(s, x) \in Seq(S)
           /\ Len(Append(s, x)) = Len(s) + 1
           /\ \A i \in 1 .. Len(s) : Append(s, x)[i] = s[i]
           /\ Append(s, x)[Len(s) + 1] = x
  OBVIOUS

LEMMA TailType ==
    ASSUME NEW S, NEW s \in Seq(S), s # << >>
    PROVE  /\ Tail(s) \in Seq(S)
           /\ Head(s) \in S
           /\ Head(s) = s[1]
           /\ Len(s) \in Nat \ {0}
           /\ Len(Tail(s)) = Len(s) - 1
           /\ \A i \in 1 .. Len(s) - 1 : Tail(s)[i] = s[i + 1]
  OBVIOUS

LEMMA PrefixType ==
    ASSUME NEW S, NEW s \in Seq(S), NEW n \in Nat, n <= Len(s)
    PROVE  /\ SubSeq(s, 1, n) \in Seq(S)
           /\ Len(SubSeq(s, 1, n)) = n
           /\ \A i \in 1 .. n : SubSeq(s, 1, n)[i] = s[i]
  OBVIOUS

\* A command that is written is a frame, and not the one that means none.
LEMMA WrittenCommand ==
    ASSUME NEW m \in Commands, m.kind \in {"chat", "authorized"}
    PROVE  m \in {Authorized} \cup Chats /\ m # Key
<1>1. m # CloseCommand
  BY DEF CloseCommand
<1>2. m.kind # "key"
  OBVIOUS
<1>3. m # Key
  BY <1>2 DEF Key
<1> QED
  BY <1>1, <1>3 DEF Commands

LEMMA PendingFrame ==
    ASSUME NEW f \in {Key, Authorized} \cup Chats
    PROVE  f \in Frames /\ f.kind # "auth"
<1>1. f \in Frames
  BY DEF Frames
<1>2. Key.kind # "auth" /\ Authorized.kind # "auth"
  BY DEF Key, Authorized
<1>3. ASSUME f \in Chats PROVE f.kind # "auth"
  <2>1. PICK n \in 1 .. MaxSubmitted : f = Chat(n)
    BY <1>3 DEF Chats
  <2> QED
    BY <2>1 DEF Chat
<1> QED
  BY <1>1, <1>2, <1>3

LEMMA ChatFrame ==
    ASSUME NEW f \in Frames, f.kind = "chat"
    PROVE  f.number \in 1 .. MaxSubmitted
<1>1. f # Key /\ f # Authorized
  BY DEF Key, Authorized
<1>2. \A g \in BOOLEAN : f # Auth(g)
  BY DEF Auth
<1>3. f \in Chats
  BY <1>1, <1>2 DEF Frames
<1>4. PICK n \in 1 .. MaxSubmitted : f = Chat(n)
  BY <1>3 DEF Chats
<1> QED
  BY <1>4 DEF Chat

-----------------------------------------------------------------------------
(* The helpers of the actions keep the types. *)

LEMMA GotoType ==
    ASSUME phase \in [Ends -> Phases],
           NEW e \in Ends, NEW p \in Phases, Goto(e, p)
    PROVE  /\ phase' \in [Ends -> Phases]
           /\ phase'[e] = p
           /\ \A f \in Ends \ {e} : phase'[f] = phase[f]
  BY DEF Goto

LEMMA WriteType ==
    ASSUME wire \in [Ends -> Seq(Frames)],
           NEW e \in Ends, NEW f \in Frames, Write(e, f)
    PROVE  /\ wire' \in [Ends -> Seq(Frames)]
           /\ wire'[Other(e)] = wire[Other(e)]
           /\ wire'[e] = IF Unread(e) THEN wire[e] ELSE Append(wire[e], f)
  BY AppendType, OtherEnd DEF Write

LEMMA ConsumeType ==
    ASSUME wire \in [Ends -> Seq(Frames)],
           NEW e \in Ends, NEW K, Readable(e, K), Consume(e)
    PROVE  /\ wire' \in [Ends -> Seq(Frames)]
           /\ wire'[e] = wire[e]
           /\ wire'[Other(e)] = Tail(wire[Other(e)])
           /\ Head(wire[Other(e)]) \in Frames
<1>1. Tail(wire[Other(e)]) \in Seq(Frames) /\ Head(wire[Other(e)]) \in Frames
  BY TailType, OtherEnd DEF Readable
<1> QED
  BY <1>1, OtherEnd DEF Consume

LEMMA FinishType ==
    ASSUME TaskType, NEW e \in Ends, Finish(e)
    PROVE  /\ TaskType'
           /\ phase'[e] = "closed"
           /\ phase'[Other(e)] = phase[Other(e)]
           /\ wire'[e] = wire[e]
           /\ wire'[Other(e)] = << >>
<1> USE DEF TaskType
<1>1. "closed" \in Phases /\ "closed" # "writing"
  BY DEF Phases
<1>2. /\ phase' \in [Ends -> Phases]
      /\ phase'[e] = "closed"
      /\ \A f \in Ends \ {e} : phase'[f] = phase[f]
  BY <1>1, GotoType DEF Finish
<1>3. mailbox' \in [Ends -> Seq(Commands)]
  BY NoFrames DEF Finish
<1>4. /\ wire' \in [Ends -> Seq(Frames)]
      /\ wire'[e] = wire[e]
      /\ wire'[Other(e)] = << >>
  BY NoFrames, OtherEnd DEF Finish
<1>5. /\ pending' \in [Ends -> {Key, Authorized} \cup Chats]
      /\ pending'[e] = Key
      /\ \A f \in Ends \ {e} : pending'[f] = pending[f]
  BY DEF Finish
<1>6. Writing'
  BY <1>1, <1>2, <1>5 DEF Writing
<1> QED
  BY <1>2, <1>3, <1>4, <1>5, <1>6, OtherEnd

\* A step of the task of e alone that keeps what it is writing, if anything.
LEMMA MoveType ==
    ASSUME TaskType, NEW e \in Ends, NEW p \in Phases, Goto(e, p),
           wire' \in [Ends -> Seq(Frames)], UNCHANGED <<mailbox, pending>>,
           (p = "writing") <=> (phase[e] = "writing")
    PROVE  TaskType'
<1>1. /\ phase' \in [Ends -> Phases]
      /\ phase'[e] = p
      /\ \A f \in Ends \ {e} : phase'[f] = phase[f]
  BY GotoType DEF TaskType
<1>2. Writing'
  BY <1>1 DEF TaskType, Writing
<1> QED
  BY <1>1, <1>2 DEF TaskType

\* A step that moves no task.
LEMMA StayType ==
    ASSUME TaskType, UNCHANGED <<phase, pending>>,
           wire' \in [Ends -> Seq(Frames)], mailbox' \in [Ends -> Seq(Commands)]
    PROVE  TaskType'
  BY DEF TaskType, Writing

LEMMA HistoryKept ==
    ASSUME HistoryType, UNCHANGED <<ownKey, cut, history>>
    PROVE  HistoryType'
  BY DEF HistoryType, history

LEMMA KeyFrames ==
    /\ Key \in Frames
    /\ \A g \in BOOLEAN : Auth(g) \in Frames
  BY DEF Frames

-----------------------------------------------------------------------------
(* The type of the state in every step. *)

LEMMA ReadKeyWire ==
    ASSUME wire \in [Ends -> Seq(Frames)], NEW e \in Ends, ReadKey(e)
    PROVE  /\ wire' \in [Ends -> Seq(Frames)]
           /\ wire'[Other(e)] = Tail(wire[Other(e)])
           /\ e = "client" => wire'[e] = wire[e]
           /\ wire'[e] \in {wire[e], Append(wire[e], Key)}
           /\ Unread(e) => wire'[e] = wire[e]
<1>1. Tail(wire[Other(e)]) \in Seq(Frames)
  BY TailType, OtherEnd DEF ReadKey, Readable
<1>2. \A f \in Ends : Append(wire[f], Key) \in Seq(Frames)
  BY AppendType, KeyFrames
<1>3. \A f \in Ends :
        (IF f = Other(e) THEN Tail(wire[f])
         ELSE IF e = "server" /\ ~Unread(e) THEN Append(wire[f], Key)
         ELSE wire[f]) \in Seq(Frames)
  BY <1>1, <1>2
<1>4. wire' \in [Ends -> Seq(Frames)]
  BY <1>3 DEF ReadKey
<1> QED
  BY <1>4, OtherEnd DEF ReadKey

LEMMA TypedInit == Init => Typed
<1> SUFFICES ASSUME Init PROVE Typed
  OBVIOUS
<1>1. "dialed" \in Phases /\ "wantKey" \in Phases
  BY DEF Phases, Handshake, Timed
<1>2. \A S : << >> \in Seq(S)
  BY NoFrames
<1>3. TaskType
  BY <1>1, <1>2 DEF Init, TaskType, Writing, Ends
<1>4. 0 \in Nat
  BY LinkAssumption
<1>5. HistoryType
  BY <1>2, <1>4 DEF Init, HistoryType
<1> QED
  BY <1>3, <1>5 DEF Typed

LEMMA HandshakeTyped ==
    ASSUME Typed, NEW e \in Ends,
           \/ e = "client" /\ (SendKey \/ ReadAuthorized \/ ReadNoAuthorization
                               \/ ReadTooEarly)
           \/ ReadKey(e) \/ ReadPartOfKey(e) \/ SendAuth(e) \/ ReadAuth(e)
           \/ HandshakeBreaks(e) \/ Timeout(e) \/ EngineLeaves(e) \/ Announce(e)
    PROVE  Typed'
<1>0. TaskType /\ HistoryType /\ wire \in [Ends -> Seq(Frames)]
  BY DEF Typed, TaskType
<1> USE DEF Phases, Handshake, Timed, Live
<1>1. CASE e = "client" /\ SendKey
  <2>1. HistoryType'
    BY <1>0, <1>1, HistoryKept DEF SendKey
  <2>2. wire' \in [Ends -> Seq(Frames)]
    BY <1>0, <1>1, WriteType, KeyFrames DEF SendKey
  <2>3. TaskType'
    BY <1>0, <1>1, <2>2, MoveType DEF SendKey
  <2> QED
    BY <2>1, <2>3 DEF Typed
<1>2. CASE e = "client" /\ ReadAuthorized
  <2>1. HistoryType'
    BY <1>0, <1>2, HistoryKept DEF ReadAuthorized
  <2>2. wire' \in [Ends -> Seq(Frames)]
    BY <1>0, <1>2, ConsumeType DEF ReadAuthorized
  <2>3. TaskType'
    BY <1>0, <1>2, <2>2, MoveType DEF ReadAuthorized
  <2> QED
    BY <2>1, <2>3 DEF Typed
<1>3. CASE e = "client" /\ ReadNoAuthorization
  <2>1. HistoryType'
    BY <1>0, <1>3, HistoryKept DEF ReadNoAuthorization
  <2>2. TaskType'
    BY <1>0, <1>3, MoveType DEF ReadNoAuthorization
  <2> QED
    BY <2>1, <2>2 DEF Typed
<1>4. CASE e = "client" /\ ReadTooEarly
  <2>1. HistoryType'
    BY <1>0, <1>4 DEF HistoryType, ReadTooEarly
  <2>2. TaskType'
    BY <1>0, <1>4, FinishType DEF ReadTooEarly
  <2> QED
    BY <2>1, <2>2 DEF Typed
<1>5. CASE ReadKey(e)
  <2>1. HistoryType'
    BY <1>0, <1>5, HistoryKept DEF ReadKey
  <2>2. wire' \in [Ends -> Seq(Frames)]
    BY <1>0, <1>5, ReadKeyWire
  <2>3. TaskType'
    BY <1>0, <1>5, <2>2, MoveType DEF ReadKey
  <2> QED
    BY <2>1, <2>3 DEF Typed
<1>6. CASE ReadPartOfKey(e)
  BY <1>0, <1>6, HistoryKept, FinishType DEF ReadPartOfKey, Typed
<1>7. CASE SendAuth(e)
  <2>1. HistoryType'
    BY <1>0, <1>7, HistoryKept DEF SendAuth
  <2>2. Auth(ownKey[e]) \in Frames
    BY <1>0, KeyFrames DEF HistoryType
  <2>3. wire' \in [Ends -> Seq(Frames)]
    BY <1>0, <1>7, <2>2, WriteType DEF SendAuth
  <2>4. TaskType'
    BY <1>0, <1>7, <2>3, MoveType DEF SendAuth
  <2> QED
    BY <2>1, <2>4 DEF Typed
<1>8. CASE ReadAuth(e)
  <2>1. HistoryType'
    BY <1>0, <1>8, HistoryKept DEF ReadAuth
  <2>2. CASE Verified(Head(wire[Other(e)]))
    <3>1. wire' \in [Ends -> Seq(Frames)]
      BY <1>0, <1>8, <2>2, ConsumeType DEF ReadAuth
    <3>2. TaskType'
      BY <1>0, <1>8, <2>2, <3>1, MoveType DEF ReadAuth
    <3> QED
      BY <2>1, <3>2 DEF Typed
  <2>3. CASE ~Verified(Head(wire[Other(e)]))
    BY <1>0, <1>8, <2>1, <2>3, FinishType DEF ReadAuth, Typed
  <2> QED
    BY <2>2, <2>3
<1>9. CASE HandshakeBreaks(e)
  BY <1>0, <1>9, HistoryKept, FinishType DEF HandshakeBreaks, Typed
<1>10. CASE Timeout(e)
  BY <1>0, <1>10, HistoryKept, FinishType DEF Timeout, Typed
<1>11. CASE EngineLeaves(e)
  BY <1>0, <1>11, HistoryKept, FinishType DEF EngineLeaves, Typed
<1>12. CASE Announce(e)
  <2>1. HistoryType'
    BY <1>0, <1>12, HistoryKept DEF Announce
  <2>2. TaskType'
    BY <1>0, <1>12, MoveType DEF Announce
  <2> QED
    BY <2>1, <2>2 DEF Typed
<1> QED
  BY <1>1, <1>2, <1>3, <1>4, <1>5, <1>6, <1>7, <1>8, <1>9, <1>10, <1>11, <1>12

LEMMA LoopTyped ==
    ASSUME Typed, NEW e \in Ends,
           \/ ReadChat(e) \/ ReadOutOfTurn(e) \/ ReadEnd(e) \/ BeginWrite(e)
           \/ WriteSucceeds(e) \/ WriteFails(e) \/ TakeClose(e)
    PROVE  Typed'
<1>0. TaskType /\ HistoryType /\ wire \in [Ends -> Seq(Frames)]
  BY DEF Typed, TaskType
<1>1. CASE ReadChat(e)
  <2>1. wire' \in [Ends -> Seq(Frames)] /\ Head(wire[Other(e)]) \in Frames
    BY <1>0, <1>1, ConsumeType DEF ReadChat
  <2>2. Head(wire[Other(e)]).number \in 1 .. MaxSubmitted
    BY <1>1, <2>1, ChatFrame DEF ReadChat, Readable
  <2>3. Append(delivered[e], Head(wire[Other(e)]).number)
          \in Seq(1 .. MaxSubmitted)
    BY <1>0, <2>2, AppendType DEF HistoryType
  <2>4. HistoryType'
    BY <1>0, <1>1, <2>3 DEF HistoryType, ReadChat
  <2>5. TaskType'
    BY <1>0, <1>1, <2>1 DEF TaskType, Writing, ReadChat
  <2> QED
    BY <2>4, <2>5 DEF Typed
<1>2. CASE ReadOutOfTurn(e)
  <2>1. HistoryType'
    BY <1>0, <1>2 DEF HistoryType, ReadOutOfTurn
  <2>2. TaskType'
    BY <1>0, <1>2, FinishType DEF ReadOutOfTurn
  <2> QED
    BY <2>1, <2>2 DEF Typed
<1>3. CASE ReadEnd(e)
  BY <1>0, <1>3, HistoryKept, FinishType DEF ReadEnd, Typed
<1>4. CASE BeginWrite(e)
  <2>1. HistoryType'
    BY <1>0, <1>4, HistoryKept DEF BeginWrite
  <2>2. /\ mailbox[e] \in Seq(Commands) /\ mailbox[e] # << >>
        /\ Head(mailbox[e]).kind \in {"chat", "authorized"}
    BY <1>0, <1>4 DEF BeginWrite, Take, TaskType
  <2>3. Head(mailbox[e]) \in Commands /\ Tail(mailbox[e]) \in Seq(Commands)
    BY <2>2, TailType
  <2>4. Head(mailbox[e]) \in {Authorized} \cup Chats /\ Head(mailbox[e]) # Key
    BY <2>2, <2>3, WrittenCommand
  <2>5. /\ phase' \in [Ends -> Phases]
        /\ phase'[e] = "writing"
        /\ \A f \in Ends \ {e} : phase'[f] = phase[f]
    BY <1>0, <1>4, GotoType DEF BeginWrite, TaskType, Phases, Live
  <2>6. /\ pending' \in [Ends -> {Key, Authorized} \cup Chats]
        /\ pending'[e] # Key
        /\ \A f \in Ends \ {e} : pending'[f] = pending[f]
    BY <1>0, <1>4, <2>4 DEF BeginWrite, TaskType
  <2>7. Writing'
    BY <1>0, <2>5, <2>6 DEF TaskType, Writing
  <2>8. mailbox' \in [Ends -> Seq(Commands)] /\ UNCHANGED wire
    BY <1>0, <1>4, <2>3 DEF BeginWrite, TaskType
  <2> QED
    BY <1>0, <2>1, <2>5, <2>6, <2>7, <2>8 DEF TaskType, Typed
<1>5. ASSUME EndWrite(e), wire' \in [Ends -> Seq(Frames)]
      PROVE  Typed'
  <2>1. HistoryType'
    BY <1>0, <1>5, HistoryKept DEF EndWrite
  <2>2. /\ phase' \in [Ends -> Phases]
        /\ phase'[e] = "running"
        /\ \A f \in Ends \ {e} : phase'[f] = phase[f]
    BY <1>0, <1>5, GotoType DEF EndWrite, TaskType, Phases, Live
  <2>3. /\ pending' \in [Ends -> {Key, Authorized} \cup Chats]
        /\ pending'[e] = Key
        /\ \A f \in Ends \ {e} : pending'[f] = pending[f]
    BY <1>0, <1>5 DEF EndWrite, TaskType
  <2>4. Writing'
    BY <1>0, <2>2, <2>3 DEF TaskType, Writing
  <2>5. UNCHANGED mailbox
    BY <1>5 DEF EndWrite
  <2> QED
    BY <1>0, <1>5, <2>1, <2>2, <2>3, <2>4, <2>5 DEF TaskType, Typed
<1>6. CASE WriteSucceeds(e)
  <2>1. pending[e] \in Frames
    BY <1>0, PendingFrame DEF TaskType
  <2>2. wire' \in [Ends -> Seq(Frames)]
    BY <1>0, <1>6, <2>1, WriteType DEF WriteSucceeds
  <2> QED
    BY <1>5, <1>6, <2>2 DEF WriteSucceeds
<1>7. CASE WriteFails(e)
  BY <1>0, <1>5, <1>7 DEF WriteFails
<1>8. CASE TakeClose(e)
  BY <1>0, <1>8, HistoryKept, FinishType DEF TakeClose, Typed
<1> QED
  BY <1>1, <1>2, <1>3, <1>4, <1>6, <1>7, <1>8

LEMMA PutType ==
    ASSUME TaskType, NEW e \in Ends, NEW m \in Commands, Put(e, m)
    PROVE  TaskType'
<1>1. Append(mailbox[e], m) \in Seq(Commands)
  BY AppendType DEF TaskType
<1>2. mailbox' \in [Ends -> Seq(Commands)] /\ UNCHANGED <<phase, wire, pending>>
  BY <1>1 DEF Put, TaskType
<1> QED
  BY <1>2, StayType DEF TaskType

LEMMA CutWire ==
    ASSUME wire \in [Ends -> Seq(Frames)], Cut
    PROVE  /\ wire' \in [Ends -> Seq(Frames)]
           /\ \A e \in Ends : /\ Len(wire'[e]) <= Len(wire[e])
                             /\ \A i \in 1 .. Len(wire'[e]) :
                                    wire'[e][i] = wire[e][i]
<1>1. PICK kept \in [Ends -> 0 .. Capacity] :
        /\ \A e \in Ends : kept[e] <= Len(wire[e])
        /\ wire' = [e \in Ends |-> SubSeq(wire[e], 1, kept[e])]
  BY DEF Cut
<1>2. \A e \in Ends : kept[e] \in Nat
  BY LinkAssumption
<1>3. \A e \in Ends :
        /\ SubSeq(wire[e], 1, kept[e]) \in Seq(Frames)
        /\ Len(SubSeq(wire[e], 1, kept[e])) = kept[e]
        /\ \A i \in 1 .. kept[e] : SubSeq(wire[e], 1, kept[e])[i] = wire[e][i]
  BY <1>1, <1>2, PrefixType
<1> QED
  BY <1>1, <1>3

LEMMA OutsideTyped ==
    ASSUME Typed,
           \/ Cut
           \/ \E e \in Ends : \/ \E size \in Sizes : Submit(e, size)
                             \/ Authorize(e) \/ Disconnect(e)
    PROVE  Typed'
<1>0. TaskType /\ HistoryType /\ wire \in [Ends -> Seq(Frames)]
  BY DEF Typed, TaskType
<1>1. CASE Cut
  <2>1. wire' \in [Ends -> Seq(Frames)]
    BY <1>0, <1>1, CutWire
  <2>2. TaskType'
    BY <1>0, <1>1, <2>1, StayType DEF Cut, TaskType
  <2>3. HistoryType'
    BY <1>0, <1>1 DEF Cut, HistoryType, history
  <2> QED
    BY <2>2, <2>3 DEF Typed
<1>2. ASSUME NEW e \in Ends, NEW size \in Sizes, Submit(e, size)
      PROVE  Typed'
  <2>1. Len(submitted[e]) \in Nat /\ Len(submitted[e]) < MaxSubmitted
    BY <1>0, <1>2 DEF HistoryType, Submit
  <2>2. Chat(Len(submitted[e]) + 1) \in Commands
    BY <2>1, LinkAssumption DEF Commands, Chats
  <2>3. TaskType'
    BY <1>0, <1>2, <2>2, PutType DEF Submit
  <2>4. Append(submitted[e], size) \in Seq(Sizes)
    BY <1>0, <1>2, AppendType DEF HistoryType
  <2>5. submitted' \in [Ends -> Seq(Sizes)] /\ misused' \in BOOLEAN
    BY <1>0, <1>2, <2>4 DEF HistoryType, Submit
  <2>6. HistoryType'
    BY <1>0, <1>2, <2>5 DEF HistoryType, Submit, Put
  <2> QED
    BY <2>3, <2>6 DEF Typed
<1>3. ASSUME NEW e \in Ends, Authorize(e)
      PROVE  Typed'
  <2>1. TaskType'
    BY <1>0, <1>3, PutType DEF Authorize, Commands
  <2>2. authorized[e] + 1 \in Nat
    BY <1>0, <1>3, LinkAssumption DEF HistoryType, Authorize
  <2>3. authorized' \in [Ends -> Nat] /\ misused' \in BOOLEAN
    BY <1>0, <1>3, <2>2 DEF HistoryType, Authorize
  <2>4. HistoryType'
    BY <1>0, <1>3, <2>3 DEF HistoryType, Authorize, Put
  <2> QED
    BY <2>1, <2>4 DEF Typed
<1>4. ASSUME NEW e \in Ends, Disconnect(e)
      PROVE  Typed'
  <2>1. TaskType'
    BY <1>0, <1>4, PutType DEF Disconnect, Commands
  <2>2. HistoryType'
    BY <1>0, <1>4 DEF HistoryType, Disconnect, Put
  <2> QED
    BY <2>1, <2>2 DEF Typed
<1> QED
  BY <1>1, <1>2, <1>3, <1>4

LEMMA TypedStep == Typed /\ [Next]_vars => Typed'
<1> SUFFICES ASSUME Typed, [Next]_vars PROVE Typed'
  OBVIOUS
<1>1. CASE Cut
  BY <1>1, OutsideTyped
<1>2. ASSUME NEW e \in Ends, Step(e) PROVE Typed'
  BY <1>2, HandshakeTyped, LoopTyped DEF Step
<1>3. ASSUME NEW e \in Ends, Environment(e) PROVE Typed'
  BY <1>3, HandshakeTyped, OutsideTyped DEF Environment
<1>4. CASE UNCHANGED vars
  BY <1>4 DEF vars, history, Typed, TaskType, HistoryType, Writing
<1> QED
  BY <1>1, <1>2, <1>3, <1>4 DEF Next

-----------------------------------------------------------------------------
(* How far the two ends can be apart in the handshake, and how many frames  *)
(* can be on their way then.                                                *)

ClientShape ==
    /\ phase["client"] = "dialed" =>
            /\ phase["server"] \in {"wantKey", "closed"}
            /\ Len(wire["client"]) = 0
            /\ Len(wire["server"]) = 0
    /\ phase["client"] = "wantKey" =>
            /\ phase["server"] \in {"wantKey", "wantAuth", "closed"}
            /\ phase["server"] = "wantAuth" => Len(wire["client"]) = 0
            /\ Len(wire["server"]) <= 1
    /\ phase["client"] = "signing" =>
            /\ phase["server"] \in {"wantAuth", "closed"}
            /\ Len(wire["client"]) = 0
            /\ Len(wire["server"]) = 0

ServerShape ==
    /\ phase["server"] = "wantKey" =>
            /\ phase["client"] \in {"dialed", "wantKey", "closed"}
            /\ Len(wire["client"]) <= 1
            /\ Len(wire["server"]) = 0
    /\ phase["server"] = "wantAuth" =>
            /\ phase["client"] \in {"wantKey", "signing", "wantAuth", "closed"}
            /\ phase["client"] = "wantAuth" => Len(wire["server"]) = 0
    /\ phase["server"] = "signing" =>
            /\ phase["client"] \in {"wantAuth", "closed"}
            /\ phase["client"] = "wantAuth" => Len(wire["server"]) = 0

\* Nothing is on its way to an end that is closed.
ClosedShape == \A e \in Ends : phase[e] = "closed" => Len(wire[Other(e)]) = 0

Shape == ClientShape /\ ServerShape /\ ClosedShape

WithinCapacity == \A e \in Ends : Len(wire[e]) <= Capacity

\* An auth frame that verifies is from the holder of the key of its id, and the
\* server sends its own only after it has verified the client's.
GenuineFrom(e, frame) ==
    frame.kind = "auth" =>
        /\ frame.genuine => ownKey[e]
        /\ e = "server" => ownKey["client"]

FramesGenuine ==
    \A e \in Ends : \A i \in 1 .. Len(wire[e]) : GenuineFrom(e, wire[e][i])

\* Past the authentication.
Later == {"wantAuthorized", "announcing"} \cup Live

PeerVerified ==
    /\ phase["server"] \in {"signing"} \cup Later => ownKey["client"]
    /\ phase["client"] \in Later => ownKey["client"] /\ ownKey["server"]

LEMMA Lengths ==
    ASSUME TaskType
    PROVE  \A e \in Ends : Len(wire[e]) \in Nat
  BY DEF TaskType

LEMMA TwoEnds ==
    /\ "client" \in Ends /\ "server" \in Ends
    /\ Other("client") = "server" /\ Other("server") = "client"
    /\ \A e \in Ends : e = "client" \/ e = "server"
  BY DEF Ends, Other

LEMMA FinishShape ==
    ASSUME TaskType, Shape, NEW e \in Ends, Finish(e)
    PROVE  Shape'
<1>1. /\ phase'[e] = "closed"
      /\ phase'[Other(e)] = phase[Other(e)]
      /\ wire'[e] = wire[e]
      /\ Len(wire'[Other(e)]) = 0
  BY FinishType, NoFrames
<1>2. CASE e = "client"
  BY <1>1, <1>2, TwoEnds DEF Shape, ClientShape, ServerShape, ClosedShape
<1>3. CASE e = "server"
  BY <1>1, <1>3, TwoEnds DEF Shape, ClientShape, ServerShape, ClosedShape
<1> QED
  BY <1>2, <1>3, TwoEnds

\* Frames are lost or read, and no task moves on.
LEMMA FewerShape ==
    ASSUME TaskType, TaskType', Shape, UNCHANGED phase,
           \A e \in Ends : Len(wire'[e]) <= Len(wire[e])
    PROVE  Shape'
<1>1. \A e \in Ends : Len(wire[e]) \in Nat /\ Len(wire'[e]) \in Nat
  BY DEF TaskType
<1> QED
  BY <1>1, TwoEnds DEF Shape, ClientShape, ServerShape, ClosedShape

LEMMA LaterShape ==
    ASSUME TaskType, TaskType', Shape, NEW e \in Ends,
           phase[e] \in Later, phase'[e] \in Later,
           phase'[Other(e)] = phase[Other(e)],
           phase[Other(e)] = "closed" => Len(wire'[e]) = Len(wire[e]),
           Len(wire'[Other(e)]) <= Len(wire[Other(e)])
    PROVE  Shape'
<1>1. \A f \in Ends : Len(wire[f]) \in Nat /\ Len(wire'[f]) \in Nat
  BY DEF TaskType
<1> USE DEF Later, Live
<1>2. CASE e = "client"
  <2>1. ClientShape'
    BY <1>2, TwoEnds DEF ClientShape
  <2>2. ServerShape'
    BY <1>2, TwoEnds DEF Shape, ServerShape
  <2>3. ClosedShape'
    BY <1>1, <1>2, TwoEnds DEF Shape, ClosedShape
  <2> QED
    BY <2>1, <2>2, <2>3 DEF Shape
<1>3. CASE e = "server"
  <2>1. ClientShape'
    BY <1>3, TwoEnds DEF Shape, ClientShape
  <2>2. ServerShape'
    BY <1>3, TwoEnds DEF ServerShape
  <2>3. ClosedShape'
    BY <1>1, <1>3, TwoEnds DEF Shape, ClosedShape
  <2> QED
    BY <2>1, <2>2, <2>3 DEF Shape
<1> QED
  BY <1>2, <1>3, TwoEnds

LEMMA LastFrame ==
    ASSUME NEW n \in Nat \ {0}, NEW m, n <= 1, m = n - 1
    PROVE  n = 1 /\ m = 0
  OBVIOUS

\* What writing and reading a frame does to the number of frames.
LEMMA WriteLength ==
    ASSUME TaskType, NEW e \in Ends, NEW f \in Frames, Write(e, f)
    PROVE  /\ Len(wire'[e]) = IF Unread(e) THEN Len(wire[e]) ELSE Len(wire[e]) + 1
           /\ wire'[Other(e)] = wire[Other(e)]
<1>1. wire \in [Ends -> Seq(Frames)] /\ wire[e] \in Seq(Frames)
  BY DEF TaskType
<1>2. Len(Append(wire[e], f)) = Len(wire[e]) + 1
  BY <1>1, AppendType
<1>3. /\ wire'[e] = IF Unread(e) THEN wire[e] ELSE Append(wire[e], f)
      /\ wire'[Other(e)] = wire[Other(e)]
  BY <1>1, WriteType
<1> QED
  BY <1>2, <1>3

LEMMA ConsumeLength ==
    ASSUME TaskType, NEW e \in Ends, NEW K, Readable(e, K), Consume(e)
    PROVE  /\ Len(wire[Other(e)]) \in Nat \ {0}
           /\ Len(wire'[Other(e)]) = Len(wire[Other(e)]) - 1
           /\ wire'[e] = wire[e]
<1>1. wire \in [Ends -> Seq(Frames)]
  BY DEF TaskType
<1>2. wire[Other(e)] \in Seq(Frames) /\ wire[Other(e)] # << >>
  BY <1>1, OtherEnd DEF Readable
<1>3. /\ Len(wire[Other(e)]) \in Nat \ {0}
      /\ Len(Tail(wire[Other(e)])) = Len(wire[Other(e)]) - 1
  BY <1>2, TailType
<1>4. wire'[e] = wire[e] /\ wire'[Other(e)] = Tail(wire[Other(e)])
  BY <1>1, ConsumeType
<1> QED
  BY <1>3, <1>4

LEMMA ReadKeyLength ==
    ASSUME TaskType, NEW e \in Ends, ReadKey(e)
    PROVE  /\ Len(wire[Other(e)]) \in Nat \ {0}
           /\ Len(wire'[Other(e)]) = Len(wire[Other(e)]) - 1
           /\ e = "client" => wire'[e] = wire[e]
           /\ Len(wire'[e]) \in {Len(wire[e]), Len(wire[e]) + 1}
           /\ Unread(e) => wire'[e] = wire[e]
<1>1. wire \in [Ends -> Seq(Frames)]
  BY DEF TaskType
<1>2. wire[Other(e)] \in Seq(Frames) /\ wire[Other(e)] # << >>
  BY <1>1, OtherEnd DEF ReadKey, Readable
<1>3. Len(Append(wire[e], Key)) = Len(wire[e]) + 1
  BY <1>1, AppendType, KeyFrames
<1>4. /\ Len(wire[Other(e)]) \in Nat \ {0}
      /\ Len(Tail(wire[Other(e)])) = Len(wire[Other(e)]) - 1
  BY <1>2, TailType
<1>5. /\ wire'[Other(e)] = Tail(wire[Other(e)])
      /\ e = "client" => wire'[e] = wire[e]
      /\ wire'[e] \in {wire[e], Append(wire[e], Key)}
      /\ Unread(e) => wire'[e] = wire[e]
  BY <1>1, ReadKeyWire
<1> QED
  BY <1>3, <1>4, <1>5

-----------------------------------------------------------------------------
(* Shape in every step. *)

LEMMA ShapeInit == Init => Shape
<1> SUFFICES ASSUME Init PROVE Shape
  OBVIOUS
<1>1. /\ phase["client"] = "dialed" /\ phase["server"] = "wantKey"
      /\ \A e \in Ends : Len(wire[e]) = 0
  BY NoFrames DEF Init
<1> QED
  BY <1>1, TwoEnds, OtherEnd DEF Shape, ClientShape, ServerShape, ClosedShape

LEMMA ForwardShape ==
    ASSUME Typed, Typed', Shape, NEW e \in Ends,
           \/ e = "client" /\ SendKey
           \/ ReadKey(e) \/ SendAuth(e)
           \/ ReadAuth(e) /\ Verified(Head(wire[Other(e)]))
    PROVE  Shape'
<1>0. TaskType /\ TaskType' /\ \A f \in Ends : Len(wire[f]) \in Nat
  BY Lengths DEF Typed
<1>1. ASSUME NEW p \in Phases, Goto(e, p)
      PROVE  phase'[e] = p /\ phase'[Other(e)] = phase[Other(e)]
  BY <1>0, <1>1, GotoType, OtherEnd DEF TaskType
<1> USE DEF Shape, ClientShape, ServerShape, ClosedShape, Unread
<1>2. CASE e = "client" /\ SendKey
  <2>1. phase'["client"] = "wantKey" /\ phase'["server"] = phase["server"]
    BY <1>1, <1>2, TwoEnds DEF SendKey, Phases, Handshake, Timed
  <2>2. /\ Len(wire'["client"]) = IF Unread("client") THEN Len(wire["client"])
                                  ELSE Len(wire["client"]) + 1
        /\ wire'["server"] = wire["server"]
    BY <1>0, <1>2, WriteLength, KeyFrames, TwoEnds DEF SendKey
  <2> QED
    BY <1>0, <1>2, <2>1, <2>2, TwoEnds DEF SendKey
<1>3. CASE e = "client" /\ ReadKey(e)
  <2>1. phase'["client"] = "signing" /\ phase'["server"] = phase["server"]
    BY <1>1, <1>3, TwoEnds DEF ReadKey, Phases, Handshake
  <2>2. /\ Len(wire["server"]) \in Nat \ {0}
        /\ Len(wire'["server"]) = Len(wire["server"]) - 1
        /\ wire'["client"] = wire["client"]
    BY <1>0, <1>3, ReadKeyLength, TwoEnds
  <2>3. phase["client"] = "wantKey"
    BY <1>3 DEF ReadKey
  <2>4. /\ phase["server"] \in {"wantAuth", "closed"}
        /\ Len(wire["client"]) = 0
        /\ Len(wire["server"]) = 1 /\ Len(wire'["server"]) = 0
    <3>1. Len(wire["server"]) \in Nat /\ Len(wire["server"]) <= 1
      BY <1>0, <2>3, TwoEnds
    <3>2. Len(wire["server"]) = 1 /\ Len(wire'["server"]) = 0
      BY <2>2, <3>1, LastFrame
    <3>3. phase["server"] \in {"wantAuth", "closed"}
      BY <2>3, <3>2
    <3>4. phase["server"] = "closed" => Len(wire["client"]) = 0
      BY TwoEnds
    <3> QED
      BY <2>3, <3>2, <3>3, <3>4
  <2>5. ClientShape'
    BY <2>1, <2>2, <2>4
  <2>6. ServerShape'
    BY <2>1, <2>2, <2>4
  <2>7. ClosedShape'
    BY <2>1, <2>2, <2>3, <2>4, TwoEnds
  <2> QED
    BY <2>5, <2>6, <2>7
<1>4. CASE e = "server" /\ ReadKey(e)
  <2>1. phase'["server"] = "wantAuth" /\ phase'["client"] = phase["client"]
    BY <1>1, <1>4, TwoEnds DEF ReadKey, Phases, Handshake, Timed
  <2>2. /\ Len(wire["client"]) \in Nat \ {0}
        /\ Len(wire'["client"]) = Len(wire["client"]) - 1
        /\ Len(wire'["server"]) \in {Len(wire["server"]), Len(wire["server"]) + 1}
        /\ Unread("server") => wire'["server"] = wire["server"]
    BY <1>0, <1>4, ReadKeyLength, TwoEnds
  <2>3. phase["server"] = "wantKey"
    BY <1>4 DEF ReadKey
  <2>4. /\ phase["client"] \in {"wantKey", "closed"}
        /\ Len(wire["client"]) = 1 /\ Len(wire'["client"]) = 0
        /\ Len(wire["server"]) = 0
    <3>1. Len(wire["client"]) \in Nat /\ Len(wire["client"]) <= 1
      BY <1>0, <2>3, TwoEnds
    <3>2. Len(wire["client"]) = 1 /\ Len(wire'["client"]) = 0
      BY <2>2, <3>1, LastFrame
    <3> QED
      BY <2>3, <3>2
  <2>8. Len(wire'["server"]) <= 1
    <3>1. Len(wire'["server"]) \in {0, 1}
      BY <2>2, <2>4
    <3>2. \A n \in {0, 1} : n <= 1
      OBVIOUS
    <3> QED
      BY <3>1, <3>2
  <2>5. ClientShape'
    BY <2>1, <2>4, <2>8
  <2>6. ServerShape'
    BY <2>1, <2>2, <2>4
  <2>7. ClosedShape'
    BY <2>1, <2>2, <2>4, TwoEnds
  <2> QED
    BY <2>5, <2>6, <2>7
<1>5. CASE e = "client" /\ SendAuth(e)
  <2>1. phase'["client"] = "wantAuth" /\ phase'["server"] = phase["server"]
    BY <1>1, <1>5, TwoEnds DEF SendAuth, Phases, Handshake, Timed
  <2>2. /\ Len(wire'["client"]) = IF Unread("client") THEN Len(wire["client"])
                                  ELSE Len(wire["client"]) + 1
        /\ wire'["server"] = wire["server"]
    <3>1. Auth(ownKey[e]) \in Frames
      BY KeyFrames DEF Typed, HistoryType
    <3> QED
      BY <1>0, <1>5, <3>1, WriteLength, TwoEnds DEF SendAuth
  <2> QED
    BY <1>0, <1>5, <2>1, <2>2, TwoEnds DEF SendAuth
<1>6. CASE e = "server" /\ SendAuth(e)
  <2>1. phase'["server"] = "announcing" /\ phase'["client"] = phase["client"]
    BY <1>1, <1>6, TwoEnds DEF SendAuth, Phases, Handshake
  <2>2. /\ Len(wire'["server"]) = IF Unread("server") THEN Len(wire["server"])
                                  ELSE Len(wire["server"]) + 1
        /\ wire'["client"] = wire["client"]
    <3>1. Auth(ownKey[e]) \in Frames
      BY KeyFrames DEF Typed, HistoryType
    <3> QED
      BY <1>0, <1>6, <3>1, WriteLength, TwoEnds DEF SendAuth
  <2> QED
    BY <1>0, <1>6, <2>1, <2>2, TwoEnds DEF SendAuth
<1>7. CASE e = "client" /\ ReadAuth(e) /\ Verified(Head(wire[Other(e)]))
  <2>1. phase'["client"] = "wantAuthorized" /\ phase'["server"] = phase["server"]
    BY <1>1, <1>7, TwoEnds DEF ReadAuth, Phases, Handshake
  <2>2. /\ Len(wire["server"]) \in Nat \ {0}
        /\ Len(wire'["server"]) = Len(wire["server"]) - 1
        /\ wire'["client"] = wire["client"]
    BY <1>0, <1>7, ConsumeLength, TwoEnds DEF ReadAuth
  <2> QED
    BY <1>0, <1>7, <2>1, <2>2, TwoEnds DEF ReadAuth
<1>8. CASE e = "server" /\ ReadAuth(e) /\ Verified(Head(wire[Other(e)]))
  <2>1. phase'["server"] = "signing" /\ phase'["client"] = phase["client"]
    BY <1>1, <1>8, TwoEnds DEF ReadAuth, Phases, Handshake
  <2>2. /\ Len(wire["client"]) \in Nat \ {0}
        /\ Len(wire'["client"]) = Len(wire["client"]) - 1
        /\ wire'["server"] = wire["server"]
    BY <1>0, <1>8, ConsumeLength, TwoEnds DEF ReadAuth
  <2> QED
    BY <1>0, <1>8, <2>1, <2>2, TwoEnds DEF ReadAuth
<1> QED
  BY <1>2, <1>3, <1>4, <1>5, <1>6, <1>7, <1>8, TwoEnds

LEMMA ShapeStep ==
    ASSUME Typed, Typed', Shape, [Next]_vars
    PROVE  Shape'
<1>0. /\ TaskType /\ TaskType'
      /\ wire \in [Ends -> Seq(Frames)]
      /\ phase \in [Ends -> Phases]
      /\ \A f \in Ends : Len(wire[f]) \in Nat
  BY Lengths DEF Typed, TaskType
<1>1. ASSUME NEW e \in Ends, Finish(e)
      PROVE  Shape'
  BY <1>0, <1>1, FinishShape
<1>2. ASSUME NEW e \in Ends, NEW p \in Later, phase[e] \in Later, Goto(e, p),
             phase[Other(e)] = "closed" => Len(wire'[e]) = Len(wire[e]),
             Len(wire'[Other(e)]) <= Len(wire[Other(e)])
      PROVE  Shape'
  <2>1. p \in Phases
    BY DEF Later, Phases, Handshake
  <2>2. phase'[e] = p /\ phase'[Other(e)] = phase[Other(e)]
    BY <1>0, <1>2, <2>1, GotoType, OtherEnd
  <2> QED
    BY <1>0, <1>2, <2>2, LaterShape
<1>3. ASSUME UNCHANGED <<phase, wire>> PROVE Shape'
  BY <1>3 DEF Shape, ClientShape, ServerShape, ClosedShape
<1>4. ASSUME NEW e \in Ends, NEW K, Readable(e, K), Consume(e)
      PROVE  /\ Len(wire'[e]) = Len(wire[e])
             /\ Len(wire'[Other(e)]) <= Len(wire[Other(e)])
  BY <1>0, <1>4, ConsumeLength
<1>5. CASE Cut
  BY <1>0, <1>5, CutWire, FewerShape DEF Cut
<1>6. ASSUME NEW e \in Ends,
             Step(e) \/ Environment(e)
      PROVE  Shape'
  <2>1. CASE \/ e = "client" /\ SendKey
             \/ ReadKey(e) \/ SendAuth(e)
             \/ ReadAuth(e) /\ Verified(Head(wire[Other(e)]))
    BY <2>1, ForwardShape
  <2>2. CASE \/ e = "client" /\ ReadTooEarly
             \/ ReadAuth(e) /\ ~Verified(Head(wire[Other(e)]))
             \/ HandshakeBreaks(e) \/ Timeout(e) \/ ReadOutOfTurn(e)
             \/ ReadEnd(e) \/ TakeClose(e) \/ ReadPartOfKey(e) \/ EngineLeaves(e)
    BY <1>1, <2>2 DEF ReadTooEarly, ReadAuth, HandshakeBreaks, Timeout,
       ReadOutOfTurn, ReadEnd, TakeClose, ReadPartOfKey, EngineLeaves
  <2>3. CASE e = "client" /\ ReadAuthorized
    BY <1>2, <1>4, <2>3 DEF ReadAuthorized, Later
  <2>4. CASE \/ e = "client" /\ ReadNoAuthorization
             \/ Announce(e) \/ BeginWrite(e) \/ WriteFails(e)
    <3>1. UNCHANGED wire
      BY <2>4 DEF ReadNoAuthorization, Announce, BeginWrite, WriteFails
    <3>2. Len(wire'[Other(e)]) <= Len(wire[Other(e)])
      BY <1>0, <3>1, OtherEnd
    <3>3. \E p \in Later : phase[e] \in Later /\ Goto(e, p)
      BY <2>4 DEF ReadNoAuthorization, Announce, BeginWrite, Take, WriteFails,
         EndWrite, Later, Live
    <3> QED
      BY <1>2, <3>1, <3>2, <3>3
  <2>5. CASE ReadChat(e)
    <3>1. \A f \in Ends : Len(wire'[f]) <= Len(wire[f])
      <4>1. /\ Len(wire'[e]) = Len(wire[e])
            /\ Len(wire'[Other(e)]) <= Len(wire[Other(e)])
        BY <1>4, <2>5 DEF ReadChat
      <4>2. Len(wire'[e]) <= Len(wire[e])
        BY <1>0, <4>1
      <4> QED
        BY <4>1, <4>2, TwoEnds
    <3> QED
      BY <1>0, <2>5, <3>1, FewerShape DEF ReadChat
  <2>6. CASE WriteSucceeds(e)
    <3>1. pending[e] \in Frames
      BY <1>0, PendingFrame DEF TaskType
    <3>2. /\ Len(wire'[e]) = IF Unread(e) THEN Len(wire[e]) ELSE Len(wire[e]) + 1
          /\ wire'[Other(e)] = wire[Other(e)]
      BY <1>0, <2>6, <3>1, WriteLength DEF WriteSucceeds
    <3>3. Len(wire'[Other(e)]) <= Len(wire[Other(e)])
      BY <1>0, <3>2, OtherEnd
    <3> QED
      BY <1>2, <2>6, <3>2, <3>3 DEF WriteSucceeds, EndWrite, Unread, Later, Live
  <2>7. CASE \/ \E size \in Sizes : Submit(e, size)
             \/ Authorize(e) \/ Disconnect(e)
    BY <1>3, <2>7 DEF Submit, Authorize, Disconnect, Put
  <2> QED
    BY <1>6, <2>1, <2>2, <2>3, <2>4, <2>5, <2>6, <2>7 DEF Step, Environment
<1>7. CASE UNCHANGED vars
  BY <1>3, <1>7 DEF vars
<1> QED
  BY <1>5, <1>6, <1>7 DEF Next

-----------------------------------------------------------------------------
(* The capacity of the stream, and what is in it. *)

LEMMA ReadFewer ==
    ASSUME TaskType, NEW e \in Ends, NEW K, Readable(e, K), Consume(e)
    PROVE  /\ WithinCapacity => WithinCapacity'
           /\ FramesGenuine /\ UNCHANGED ownKey => FramesGenuine'
<1>1. wire \in [Ends -> Seq(Frames)] /\ Capacity \in Nat
  BY LinkAssumption DEF TaskType
<1>2. /\ wire'[e] = wire[e]
      /\ wire'[Other(e)] = Tail(wire[Other(e)])
      /\ wire[Other(e)] \in Seq(Frames)
      /\ wire[Other(e)] # << >>
  BY <1>1, ConsumeType, OtherEnd DEF Readable
<1> DEFINE w == wire[Other(e)]
           n == Len(w)
<1>3. /\ n \in Nat \ {0}
      /\ Len(Tail(w)) = n - 1
      /\ \A i \in 1 .. n - 1 : Tail(w)[i] = w[i + 1]
  BY <1>2, TailType
<1> HIDE DEF n
<1>4. n <= Capacity => n - 1 <= Capacity
  BY <1>1, <1>3
<1>5. WithinCapacity => WithinCapacity'
  BY <1>2, <1>3, <1>4, TwoEnds DEF WithinCapacity, n
<1>6. \A i \in 1 .. n - 1 : i + 1 \in 1 .. n
  BY <1>3
<1>7. ASSUME FramesGenuine, UNCHANGED ownKey PROVE FramesGenuine'
  <2>1. \A i \in 1 .. n : GenuineFrom(Other(e), w[i])
    BY <1>7, OtherEnd DEF FramesGenuine, n
  <2>2. \A i \in 1 .. n - 1 : GenuineFrom(Other(e), Tail(w)[i])
    BY <1>3, <1>6, <2>1
  <2>3. \A i \in 1 .. Len(wire'[Other(e)]) :
            GenuineFrom(Other(e), wire'[Other(e)][i])
    BY <1>2, <1>3, <2>2
  <2>4. \A i \in 1 .. Len(wire'[e]) : GenuineFrom(e, wire'[e][i])
    BY <1>2, <1>7 DEF FramesGenuine
  <2>5. \A f \in Ends : \A i \in 1 .. Len(wire'[f]) : GenuineFrom(f, wire'[f][i])
    BY <2>3, <2>4, TwoEnds
  <2> QED
    BY <1>7, <2>5 DEF FramesGenuine, GenuineFrom
<1> QED
  BY <1>5, <1>7

LEMMA WriteOne ==
    ASSUME TaskType, NEW e \in Ends, NEW f \in Frames, Write(e, f)
    PROVE  /\ WithinCapacity /\ (Unread(e) \/ Len(wire[e]) < Capacity)
                => WithinCapacity'
           /\ FramesGenuine /\ GenuineFrom(e, f) /\ UNCHANGED ownKey
                => FramesGenuine'
<1>1. wire \in [Ends -> Seq(Frames)] /\ Capacity \in Nat
  BY LinkAssumption DEF TaskType
<1>2. /\ wire'[Other(e)] = wire[Other(e)]
      /\ wire'[e] = IF Unread(e) THEN wire[e] ELSE Append(wire[e], f)
  BY <1>1, WriteType
<1> DEFINE w == wire[e]
           n == Len(w)
<1>3. /\ n \in Nat
      /\ Len(Append(w, f)) = n + 1
      /\ \A i \in 1 .. n : Append(w, f)[i] = w[i]
      /\ Append(w, f)[n + 1] = f
  BY <1>1, AppendType
<1> HIDE DEF n
<1>4. n < Capacity => n + 1 <= Capacity
  BY <1>1, <1>3
<1>5. WithinCapacity /\ (Unread(e) \/ n < Capacity) => WithinCapacity'
  BY <1>2, <1>3, <1>4, TwoEnds DEF WithinCapacity, n
<1>6. \A i \in 1 .. n + 1 : i \in 1 .. n \/ i = n + 1
  BY <1>3
<1>7. ASSUME FramesGenuine, GenuineFrom(e, f), UNCHANGED ownKey
      PROVE  FramesGenuine'
  <2>1. \A i \in 1 .. n : GenuineFrom(e, w[i])
    BY <1>7 DEF FramesGenuine, n
  <2>2. \A i \in 1 .. n + 1 : GenuineFrom(e, Append(w, f)[i])
    BY <1>3, <1>6, <1>7, <2>1
  <2>3. \A i \in 1 .. Len(wire'[e]) : GenuineFrom(e, wire'[e][i])
    BY <1>2, <1>3, <2>1, <2>2 DEF n
  <2>4. \A i \in 1 .. Len(wire'[Other(e)]) :
            GenuineFrom(Other(e), wire'[Other(e)][i])
    BY <1>2, <1>7, OtherEnd DEF FramesGenuine
  <2>5. \A g \in Ends : \A i \in 1 .. Len(wire'[g]) : GenuineFrom(g, wire'[g][i])
    BY <2>3, <2>4, TwoEnds
  <2> QED
    BY <1>7, <2>5 DEF FramesGenuine, GenuineFrom
<1> QED
  BY <1>5, <1>7 DEF n

LEMMA FinishFewer ==
    ASSUME TaskType, NEW e \in Ends, Finish(e)
    PROVE  /\ WithinCapacity => WithinCapacity'
           /\ FramesGenuine /\ UNCHANGED ownKey => FramesGenuine'
<1>1. /\ wire'[e] = wire[e]
      /\ wire'[Other(e)] = << >>
      /\ Len(<< >>) = 0
  BY FinishType, NoFrames
<1>2. 0 <= Capacity
  BY LinkAssumption
<1>3. \A i \in 1 .. Len(wire'[Other(e)]) : FALSE
  BY <1>1
<1>4. WithinCapacity => WithinCapacity'
  BY <1>1, <1>2, TwoEnds DEF WithinCapacity
<1>5. ASSUME FramesGenuine, UNCHANGED ownKey PROVE FramesGenuine'
  <2>1. \A f \in Ends : \A i \in 1 .. Len(wire'[f]) : GenuineFrom(f, wire'[f][i])
    BY <1>1, <1>3, <1>5, TwoEnds DEF FramesGenuine
  <2> QED
    BY <1>5, <2>1 DEF FramesGenuine, GenuineFrom
<1> QED
  BY <1>4, <1>5

LEMMA ReadKeyContents ==
    ASSUME TaskType, Shape, NEW e \in Ends, ReadKey(e)
    PROVE  /\ WithinCapacity => WithinCapacity'
           /\ FramesGenuine => FramesGenuine'
<1>0. /\ wire \in [Ends -> Seq(Frames)]
      /\ Capacity \in Nat \ {0} /\ UNCHANGED ownKey
  BY LinkAssumption DEF TaskType, ReadKey
<1>1. CASE e = "client"
  <2>1. Readable(e, {"key"}) /\ Consume(e)
    <3>1. wire' = [f \in Ends |-> IF f = Other(e) THEN Tail(wire[f]) ELSE wire[f]]
      BY <1>1 DEF ReadKey
    <3> QED
      BY <1>0, <3>1 DEF ReadKey, Consume
  <2> QED
    BY <1>0, <2>1, ReadFewer
<1>2. CASE e = "server"
  <2>1. /\ wire'["client"] = Tail(wire["client"])
        /\ wire'["server"] \in {wire["server"], Append(wire["server"], Key)}
    BY <1>0, <1>2, ReadKeyWire, TwoEnds
  <2>2. Len(wire["server"]) = 0 /\ Len(wire["client"]) <= 1
    BY <1>2 DEF ReadKey, Shape, ServerShape
  <2>3. /\ Len(wire["client"]) \in Nat \ {0}
        /\ Len(wire'["client"]) = Len(wire["client"]) - 1
    BY <1>2, ReadKeyLength, TwoEnds
  <2>4. Len(wire'["client"]) = 0
    BY <2>2, <2>3, LastFrame
  <2>5. /\ Len(Append(wire["server"], Key)) = 1
        /\ Append(wire["server"], Key)[1] = Key
    BY <1>0, <2>2, AppendType, KeyFrames, TwoEnds
  <2>6. /\ Len(wire'["server"]) \in {0, 1}
        /\ Len(wire'["server"]) = 1 => wire'["server"][1] = Key
    <3>1. CASE wire'["server"] = wire["server"]
      <4>1. Len(wire'["server"]) = 0 /\ 0 # 1
        BY <2>2, <3>1
      <4> QED
        BY <4>1
    <3>2. CASE wire'["server"] = Append(wire["server"], Key)
      BY <2>5, <3>2
    <3> QED
      BY <2>1, <3>1, <3>2
  <2>7. 0 <= Capacity /\ 1 <= Capacity
    BY <1>0
  <2>8. WithinCapacity'
    BY <2>4, <2>6, <2>7, TwoEnds DEF WithinCapacity
  <2>9. \A i \in 1 .. Len(wire'["server"]) : wire'["server"][i] = Key
    BY <2>6
  <2>10. \A i \in 1 .. Len(wire'["client"]) : FALSE
    BY <2>4
  <2>11. Key.kind # "auth"
    BY DEF Key
  <2>12. FramesGenuine'
    BY <2>9, <2>10, <2>11, TwoEnds DEF FramesGenuine, GenuineFrom
  <2> QED
    BY <2>8, <2>12
<1> QED
  BY <1>1, <1>2, TwoEnds

LinkInv == Typed /\ Shape /\ WithinCapacity /\ FramesGenuine /\ PeerVerified

LEMMA LinkInvInit == Init => LinkInv
<1> SUFFICES ASSUME Init PROVE LinkInv
  OBVIOUS
<1>1. Typed /\ Shape
  BY TypedInit, ShapeInit
<1>2. \A e \in Ends : Len(wire[e]) = 0
  BY NoFrames DEF Init
<1>3. 0 <= Capacity
  BY LinkAssumption
<1>4. WithinCapacity
  BY <1>2, <1>3 DEF WithinCapacity
<1>5. FramesGenuine
  BY <1>2 DEF FramesGenuine
<1>6. PeerVerified
  BY DEF Init, PeerVerified, Later, Live
<1> QED
  BY <1>1, <1>4, <1>5, <1>6 DEF LinkInv

\* An end that goes on from the authentication of the other has seen the other's
\* genuine frame.
LEMMA VerifiedFrame ==
    ASSUME Typed, FramesGenuine, NEW e \in Ends, ReadAuth(e),
           Verified(Head(wire[Other(e)]))
    PROVE  ownKey[Other(e)] /\ (e = "client" => ownKey["client"])
<1>1. wire[Other(e)] \in Seq(Frames) /\ wire[Other(e)] # << >>
  BY OtherEnd DEF Typed, TaskType, ReadAuth, Readable
<1>2. /\ Head(wire[Other(e)]) = wire[Other(e)][1]
      /\ Len(wire[Other(e)]) \in Nat \ {0}
  BY <1>1, TailType
<1>3. 1 \in 1 .. Len(wire[Other(e)])
  BY <1>2
<1>4. GenuineFrom(Other(e), Head(wire[Other(e)]))
  BY <1>2, <1>3, OtherEnd DEF FramesGenuine
<1> QED
  BY <1>4, TwoEnds DEF GenuineFrom, Verified

LEMMA KeysKept ==
    ASSUME [Next]_vars
    PROVE  UNCHANGED ownKey
  BY DEF Next, vars, Step, Environment, Cut, SendKey, ReadAuthorized,
     ReadNoAuthorization, ReadTooEarly, ReadKey, SendAuth, ReadAuth,
     HandshakeBreaks, Timeout, Announce, ReadChat, ReadOutOfTurn, ReadEnd,
     BeginWrite, WriteSucceeds, WriteFails, EndWrite, TakeClose, ReadPartOfKey,
     EngineLeaves, Submit, Authorize, Disconnect, Put

LEMMA PeerVerifiedStep ==
    ASSUME Typed, Shape, FramesGenuine, PeerVerified, [Next]_vars
    PROVE  PeerVerified'
<1>0. phase \in [Ends -> Phases]
  BY DEF Typed, TaskType
<1>1. UNCHANGED ownKey
  BY KeysKept
<1>2. CASE UNCHANGED phase
  BY <1>1, <1>2 DEF PeerVerified
\* What the phase that a step goes to stands for.
<1>3. ASSUME NEW e \in Ends, NEW p \in Phases, Goto(e, p),
             /\ e = "server" /\ p \in {"signing"} \cup Later => ownKey["client"]
             /\ e = "client" /\ p \in Later => ownKey["client"] /\ ownKey["server"]
      PROVE  PeerVerified'
  <2>1. phase'[e] = p /\ phase'[Other(e)] = phase[Other(e)]
    BY <1>0, <1>3, GotoType, OtherEnd
  <2> QED
    BY <1>1, <1>3, <2>1, TwoEnds DEF PeerVerified
<1>4. ASSUME NEW e \in Ends, Finish(e) PROVE PeerVerified'
  BY <1>3, <1>4 DEF Finish, Phases, Later, Live
<1>5. ASSUME NEW e \in Ends, NEW p \in Later, phase[e] \in Later, Goto(e, p)
      PROVE  PeerVerified'
  <2>1. p \in Phases
    BY DEF Later, Phases, Handshake
  <2> QED
    BY <1>3, <1>5, <2>1 DEF PeerVerified
<1>6. ASSUME NEW e \in Ends, Step(e) \/ Environment(e)
      PROVE  PeerVerified'
  <2>1. CASE \/ e = "client" /\ ReadTooEarly
             \/ ReadAuth(e) /\ ~Verified(Head(wire[Other(e)]))
             \/ HandshakeBreaks(e) \/ Timeout(e) \/ ReadOutOfTurn(e)
             \/ ReadEnd(e) \/ TakeClose(e) \/ ReadPartOfKey(e) \/ EngineLeaves(e)
    BY <1>4, <2>1 DEF ReadTooEarly, ReadAuth, HandshakeBreaks, Timeout,
       ReadOutOfTurn, ReadEnd, TakeClose, ReadPartOfKey, EngineLeaves
  <2>2. CASE \/ e = "client" /\ (ReadAuthorized \/ ReadNoAuthorization)
             \/ Announce(e) \/ BeginWrite(e) \/ WriteSucceeds(e) \/ WriteFails(e)
    <3>1. \E p \in Later : phase[e] \in Later /\ Goto(e, p)
      BY <2>2 DEF ReadAuthorized, ReadNoAuthorization, Announce, BeginWrite, Take,
         WriteSucceeds, WriteFails, EndWrite, Later, Live
    <3> QED
      BY <1>5, <3>1
  <2>3. CASE e = "client" /\ SendKey
    <3>1. Goto(e, "wantKey")
      BY <2>3 DEF SendKey
    <3> QED
      BY <1>3, <2>3, <3>1 DEF Phases, Handshake, Timed, Later, Live
  <2>4. CASE ReadKey(e)
    <3>1. Goto(e, IF e = "client" THEN "signing" ELSE "wantAuth")
      BY <2>4 DEF ReadKey
    <3> QED
      BY <1>3, <3>1, TwoEnds DEF Phases, Handshake, Timed, Later, Live
  <2>5. CASE SendAuth(e)
    <3>1. /\ phase[e] = "signing"
          /\ Goto(e, IF e = "client" THEN "wantAuth" ELSE "announcing")
      BY <2>5 DEF SendAuth
    <3>2. e = "server" => ownKey["client"]
      BY <3>1 DEF PeerVerified
    <3> QED
      BY <1>3, <3>1, <3>2, TwoEnds DEF Phases, Handshake, Timed, Later, Live
  <2>6. CASE ReadAuth(e) /\ Verified(Head(wire[Other(e)]))
    <3>1. ownKey[Other(e)] /\ (e = "client" => ownKey["client"])
      BY <2>6, VerifiedFrame
    <3>2. Goto(e, IF e = "client" THEN "wantAuthorized" ELSE "signing")
      BY <2>6 DEF ReadAuth
    <3> QED
      BY <1>3, <3>1, <3>2, TwoEnds DEF Phases, Handshake, Later, Live
  <2>7. CASE \/ ReadChat(e) \/ \E size \in Sizes : Submit(e, size)
             \/ Authorize(e) \/ Disconnect(e)
    BY <1>2, <2>7 DEF ReadChat, Submit, Authorize, Disconnect, Put
  <2> QED
    BY <1>6, <2>1, <2>2, <2>3, <2>4, <2>5, <2>6, <2>7 DEF Step, Environment
<1> QED
  BY <1>2, <1>6 DEF Next, Cut, vars

LEMMA ContentsStep ==
    ASSUME Typed, Shape, WithinCapacity, FramesGenuine, PeerVerified, [Next]_vars
    PROVE  WithinCapacity' /\ FramesGenuine'
<1>0. TaskType /\ wire \in [Ends -> Seq(Frames)]
  BY DEF Typed, TaskType
<1>1. UNCHANGED ownKey
  BY KeysKept
<1>2. ASSUME UNCHANGED wire PROVE WithinCapacity' /\ FramesGenuine'
  BY <1>1, <1>2 DEF WithinCapacity, FramesGenuine, GenuineFrom
<1>3. CASE Cut
  <2>1. \A e \in Ends : /\ Len(wire'[e]) <= Len(wire[e])
                       /\ Len(wire'[e]) \in Nat /\ Len(wire[e]) \in Nat
                       /\ \A i \in 1 .. Len(wire'[e]) : wire'[e][i] = wire[e][i]
    BY <1>0, <1>3, CutWire
  <2>2. WithinCapacity'
    <3>1. \A m, n \in Nat : m <= n /\ n <= Capacity => m <= Capacity
      BY LinkAssumption
    <3> QED
      BY <2>1, <3>1 DEF WithinCapacity
  <2>3. \A m, n \in Nat : m <= n => 1 .. m \subseteq 1 .. n
    OBVIOUS
  <2>4. FramesGenuine'
    BY <1>1, <2>1, <2>3 DEF FramesGenuine, GenuineFrom
  <2> QED
    BY <2>2, <2>4
<1>4. ASSUME NEW e \in Ends, Step(e) \/ Environment(e)
      PROVE  WithinCapacity' /\ FramesGenuine'
  <2>1. CASE \/ e = "client" /\ ReadTooEarly
             \/ ReadAuth(e) /\ ~Verified(Head(wire[Other(e)]))
             \/ HandshakeBreaks(e) \/ Timeout(e) \/ ReadOutOfTurn(e)
             \/ ReadEnd(e) \/ TakeClose(e) \/ ReadPartOfKey(e) \/ EngineLeaves(e)
    <3>1. Finish(e)
      BY <2>1 DEF ReadTooEarly, ReadAuth, HandshakeBreaks, Timeout,
         ReadOutOfTurn, ReadEnd, TakeClose, ReadPartOfKey, EngineLeaves
    <3> QED
      BY <1>0, <1>1, <3>1, FinishFewer
  <2>2. CASE \/ e = "client" /\ ReadNoAuthorization
             \/ Announce(e) \/ BeginWrite(e) \/ WriteFails(e)
             \/ \E size \in Sizes : Submit(e, size)
             \/ Authorize(e) \/ Disconnect(e)
    BY <1>2, <2>2 DEF ReadNoAuthorization, Announce, BeginWrite, WriteFails,
       Submit, Authorize, Disconnect, Put
  <2>3. CASE \/ e = "client" /\ ReadAuthorized
             \/ ReadChat(e)
             \/ ReadAuth(e) /\ Verified(Head(wire[Other(e)]))
    <3>1. \E K : Readable(e, K) /\ Consume(e)
      BY <2>3 DEF ReadAuthorized, ReadChat, ReadAuth
    <3> QED
      BY <1>0, <1>1, <3>1, ReadFewer
  <2>4. CASE ReadKey(e)
    BY <1>0, <2>4, ReadKeyContents
  <2>5. CASE e = "client" /\ SendKey
    <3>1. Len(wire[e]) < Capacity
      BY <2>5, LinkAssumption DEF SendKey, Shape, ClientShape
    <3>2. Write(e, Key) /\ GenuineFrom(e, Key)
      BY <2>5 DEF SendKey, GenuineFrom, Key
    <3> QED
      BY <1>0, <1>1, <3>1, <3>2, WriteOne, KeyFrames
  <2>6. CASE SendAuth(e)
    <3>1. Unread(e) \/ Len(wire[e]) = 0
      BY <2>6, TwoEnds DEF SendAuth, Shape, ClientShape, ServerShape, Unread
    <3>2. Unread(e) \/ Len(wire[e]) < Capacity
      BY <3>1, LinkAssumption
    <3>3. e = "server" => ownKey["client"]
      BY <2>6 DEF SendAuth, PeerVerified
    <3>4. Auth(ownKey[e]) \in Frames /\ GenuineFrom(e, Auth(ownKey[e]))
      BY <3>3, KeyFrames DEF Typed, HistoryType, GenuineFrom, Auth
    <3>5. Write(e, Auth(ownKey[e]))
      BY <2>6 DEF SendAuth
    <3> QED
      BY <1>0, <1>1, <3>2, <3>4, <3>5, WriteOne
  <2>7. CASE WriteSucceeds(e)
    <3>1. pending[e] \in Frames /\ GenuineFrom(e, pending[e])
      BY <1>0, PendingFrame DEF TaskType, GenuineFrom
    <3>2. /\ Write(e, pending[e])
          /\ Unread(e) \/ Len(wire[e]) < Capacity
      BY <2>7 DEF WriteSucceeds
    <3> QED
      BY <1>0, <1>1, <3>1, <3>2, WriteOne
  <2> QED
    BY <1>4, <2>1, <2>2, <2>3, <2>4, <2>5, <2>6, <2>7 DEF Step, Environment
<1>5. CASE UNCHANGED vars
  BY <1>2, <1>5 DEF vars
<1> QED
  BY <1>3, <1>4, <1>5 DEF Next

LEMMA LinkInvStep == LinkInv /\ [Next]_vars => LinkInv'
  BY TypedStep, ShapeStep, PeerVerifiedStep, ContentsStep DEF LinkInv

-----------------------------------------------------------------------------
\* The ends and the stream between them keep their types, and no frame is ever
\* written into a full stream, the unguarded writes of the handshake included.
THEOREM LinkTypeCorrect == Spec => []TypeOK
<1>1. LinkInv => TypeOK
  BY DEF LinkInv, Typed, TaskType, HistoryType, Writing, WithinCapacity, TypeOK
<1> QED
  BY <1>1, LinkInvInit, LinkInvStep, PTL DEF Spec

\* read_peer_public_key() may take whatever bytes are there: the only frame that
\* can be there is the key.
THEOREM KeysArriveAlone == Spec => []KeyArrivesAlone
<1>1. LinkInv => KeyArrivesAlone
  BY TwoEnds DEF LinkInv, Shape, ClientShape, ServerShape, KeyArrivesAlone
<1> QED
  BY <1>1, LinkInvInit, LinkInvStep, PTL DEF Spec

\* handle_connection() is entered with a peer that holds the key of its id, and
\* by the client only when the server could verify the client too.
THEOREM AlwaysAuthenticated == Spec => []Authenticated
<1>1. LinkInv => Authenticated
  BY TwoEnds DEF LinkInv, PeerVerified, Later, Authenticated
<1> QED
  BY <1>1, LinkInvInit, LinkInvStep, PTL DEF Spec
=============================================================================
