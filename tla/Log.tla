--------------------------------- MODULE Log --------------------------------
(***************************************************************************)
(* The way of a log message: from a connection's task through TxLogger     *)
(* (src/src/engine.rs) into the engine's queue, from there, in get_event,  *)
(* to the application's StandardLogger (src/src/logger.rs), which the      *)
(* application also writes to itself.  Both loggers drop what is below     *)
(* their level, each by the level it has at that moment.                   *)
(*                                                                         *)
(* StandardLogger keeps its messages in a CircularQueue, and so does Chat  *)
(* (src/src/chat.rs), with 200 messages and no level.                      *)
(***************************************************************************)
EXTENDS Integers, Sequences

CONSTANTS
    Capacity,   \* messages the circular queue holds
    Tasks,      \* tasks of connections
    App,        \* the application
    Levels,     \* of Debug, Info, Warning and Error, which are 0, 1, 2 and 3
    Debug,      \* whether the engine was made to log for debugging
    MaxLogged,  \* bound: messages from each source
    MaxQueue    \* bound: messages waiting in the engine's queue

ASSUME LogAssumption ==
    /\ Capacity \in Nat \ {0}
    /\ App \notin Tasks
    /\ Levels \subseteq 0 .. 3
    /\ {0, 1} \subseteq Levels
    /\ Debug \in BOOLEAN
    /\ MaxLogged \in Nat
    /\ MaxQueue \in Nat

DebugLevel == 0
InfoLevel  == 1

Sources == Tasks \cup {App}

VARIABLES
    queue,      \* Engine.rx, of which the log messages
    log_level,  \* StandardLogger.log_level
    slots,      \* CircularQueue: the vector
    insertion,  \* CircularQueue: where the next one goes, from 0
    sent,       \* history: messages logged by each source
    accepted    \* history: all messages that StandardLogger took

vars == <<queue, log_level, slots, insertion, sent, accepted>>

Messages == [from : Sources, number : 1 .. MaxLogged, level : Levels]

TypeOK ==
    /\ queue \in Seq(Messages)
    /\ log_level \in Levels
    /\ slots \in Seq(Messages)
    /\ Len(slots) <= Capacity
    /\ insertion \in 0 .. Capacity - 1
    /\ sent \in [Sources -> 0 .. MaxLogged]
    /\ accepted \in Seq(Messages)

Init ==
    /\ queue = << >>
    /\ log_level = InfoLevel
    /\ slots = << >>
    /\ insertion = 0
    /\ sent = [s \in Sources |-> 0]
    /\ accepted = << >>

-----------------------------------------------------------------------------
(* CircularQueue. *)

\* Mutant: the place to insert at moves on before the write.
PushAhead(message) ==
    LET next == (insertion + 1) % Capacity IN
    /\ slots' = IF Len(slots) < Capacity THEN Append(slots, message)
                ELSE [slots EXCEPT ![next + 1] = message]
    /\ insertion' = next

\* Mutant: the place to insert at is not brought back to the beginning.
PushUnwrapped(message) ==
    /\ slots' = IF Len(slots) < Capacity THEN Append(slots, message)
                ELSE [slots EXCEPT ![insertion + 1] = message]
    /\ insertion' = insertion + 1

Push(message) ==
    /\ slots' = IF Len(slots) < Capacity THEN Append(slots, message)
                ELSE [slots EXCEPT ![insertion + 1] = message]
    /\ insertion' = (insertion + 1) % Capacity

\* Mutant: the vector as it is, as if it never wrapped.
IterSlots == slots

\* asc_iter(): from the place to insert at to the end, then from the beginning.
Iter ==
    LET older == Len(slots) - insertion IN
    [i \in 1 .. Len(slots) |->
        IF i <= older THEN slots[insertion + i] ELSE slots[i - older]]

-----------------------------------------------------------------------------
\* StandardLogger::log.
Take(message) ==
    IF message.level >= log_level
    THEN Push(message) /\ accepted' = Append(accepted, message)
    ELSE UNCHANGED <<slots, insertion, accepted>>

Message(source, level) ==
    [from |-> source, number |-> sent[source] + 1, level |-> level]

Count(source) ==
    /\ sent[source] < MaxLogged
    /\ sent' = [sent EXCEPT ![source] = @ + 1]

TxLevel == IF Debug THEN DebugLevel ELSE InfoLevel

\* TxLogger::log, in a task.
TaskLogs(task, level) ==
    /\ level >= TxLevel
    /\ Len(queue) < MaxQueue
    /\ Count(task)
    /\ queue' = Append(queue, Message(task, level))
    /\ UNCHANGED <<log_level, slots, insertion, accepted>>

\* Mutant: the newest message of the queue is handled first.
HandleNewestLog ==
    /\ queue # << >>
    /\ Take(queue[Len(queue)])
    /\ queue' = SubSeq(queue, 1, Len(queue) - 1)
    /\ UNCHANGED <<log_level, sent>>

\* get_event.
HandleLog ==
    /\ queue # << >>
    /\ Take(Head(queue))
    /\ queue' = Tail(queue)
    /\ UNCHANGED <<log_level, sent>>

\* The application, or the engine on its behalf, logs without the queue.
AppLogs(level) ==
    /\ Count(App)
    /\ Take(Message(App, level))
    /\ UNCHANGED <<queue, log_level>>

SetLogLevel(level) ==
    /\ log_level' = level
    /\ UNCHANGED <<queue, slots, insertion, sent, accepted>>

Next ==
    \/ HandleLog
    \/ \E level \in Levels :
        \/ \E task \in Tasks : TaskLogs(task, level)
        \/ AppLogs(level)
        \/ SetLogLevel(level)

Spec == Init /\ [][Next]_vars

-----------------------------------------------------------------------------
(* Properties *)

\* What can be read are the newest of the messages the logger took, oldest
\* first, none missing in between, also after the vector has wrapped.
NewestKept ==
    LET n == Len(accepted) IN
    /\ Len(slots) = IF n < Capacity THEN n ELSE Capacity
    /\ \A i \in 1 .. Len(slots) : Iter[i] = accepted[n - Len(slots) + i]

\* The messages of one source are read in the order in which it logged them and
\* none is read twice, whatever way they took.
SourceOrder ==
    \A i, j \in 1 .. Len(slots) :
        i < j /\ Iter[i].from = Iter[j].from => Iter[i].number < Iter[j].number

history == INSTANCE History WITH kept <- Iter, Entries <- Messages

\* The promise to the reader: see History.
HistorySpec == history!Spec
=============================================================================
