# Verification of voynich

voynich is a Rust library for end-to-end encrypted chat over Tor onion services.
This directory holds TLA+ specifications of its core, the TLC configurations that
check them on small instances, and TLAPS proofs of the invariants, the action
properties and the refinements for all values of the constants. Line numbers refer to
the files under `src/src/`.

## 1. Inventory

| Component | Code | State | Operations | Interacts with |
|---|---|---|---|---|
| Engine | `engine.rs` | event queue `rx`, map `channels` from peer id to a connection's mailbox | `connect`, `handle_incoming_connection`, `send_message`, `send_connection_authorized_message`, `disconnect`, `get_event` (which handles one event) | spawns one task per connection; tasks answer through the queue |
| Connection task | `connection.rs` | local variables of the handshake; then reader, writer, mailbox | `connect` / `handle_incoming_connection`, then the loop `handle_connection` | the engine's queue, its mailbox, the stream |
| Key exchange, authentication | `crypto.rs:168-338` | none beyond a handshake | `key_exchange`, `generate_session_hash`, `verify_auth_message` | the other end of the stream |
| Encrypted packets | `crypto.rs:21-166` | codec buffers | `EncryptingWriter::send`, `DecryptingReader::read` | the stream |
| Chat list | `chat.rs:54-132` | `list`, `current_index` | `add`, `remove`, `next_chat`, `prev_chat` | called by the application on NewConnection and ConnectionClosed |
| Chat history | `chat.rs:27-52` | circular queue of 200 messages | `add_message`, `iter` | called by the application |
| Loggers | `logger.rs`, `engine.rs:74-98` | `StandardLogger`: circular queue; `TxLogger`: a sender | `log`, `set_log_level` | `TxLogger` sends events to the engine |
| Onion service store | `util.rs`, `onion_service.rs` | two files per service, two levels of directories with permissions | `save_onion_service`, `get_onion_service`, `get_onion_address` | file system; called by the set-up |
| Onion service set-up | `control_connection.rs` | none; Tor keeps the services | `create_onion_service` and the three functions it calls, `connect_to_tor` | Tor's control port, the store, the listener |
| Configuration | `config.rs`, `lib.rs` | none | `get_config`, `update` | file, command line |
| Connection test | `util.rs:186-204` | none | `test_onion_service_connection` | listener, SOCKS proxy |

What is hard, and what makes each part correct:

- **Engine and tasks.** All tasks share one queue, and the engine learns of a task's
  end only when it gets to the event. `channels` is keyed by peer, so connections
  with the same peer share an entry. Sends are unwrapped in three places
  (`engine.rs:245`, `258`, `285`). Correct means: events of a connection come in
  protocol order; an entry routes to the right connection; a live connection can be
  addressed; no unwrap fails; signature requests are answered or given up; a
  disconnect takes effect; the end of a connection is reported.
- **Two ends of a connection.** Handshake frames, chat frames and the authorization
  are told apart only by when they come. Reads have timeouts, one does not. The key
  packet is read without a frame. Writes are awaited inside the `select!`. Either
  side, or Tor, may end the stream at any time. Correct means: only authenticated
  peers are announced; frames are decoded as what they were sent as; messages come
  in order, once, without gaps; no handshake hangs; commands are taken; a close
  reaches the other end.
- **Packets.** Padding is computed through floating point and truncated to one byte.
  Correct means: what is read is what was written, and packet lengths are whole
  blocks.
- **Chat list.** The current position is adjusted as if chats moved up, while
  `swap_remove` moves the last one into the gap. Correct means: the position is in
  range, and removal affects one chat.
- **Store and set-up.** A first save takes up to ten system calls; a crash or an error
  can come after any of them, and after Tor has already created the service. Processes
  of one user share files and Tor. Correct means: what was saved in full stays, and can
  be loaded again; a process signs with the key of the id it goes by; the address and
  the listener that are returned belong together.
- **History and loggers.** A message of a task passes two level filters at different
  times and a queue, and overtakes nothing of its own source. The newest entries are
  kept, in order, up to the capacity, also when the circular queue has wrapped.

## 2. Modules

| Module | What it is |
|---|---|
| `Engine` | one node: the engine, its application and its tasks, with an arbitrary outside |
| `MCEngine` | instances of it |
| `EngineProofs`, `EngineDeliveryProofs` | proofs about it: types and signatures; what the application is told and how it can address its connections |
| `Session` | abstract: what a connection promises the two applications |
| `Link` | both ends of one connection and the stream between; implements `Session` |
| `MCLink` | instances of it |
| `LinkProofs`, `SessionProofs` | proofs about it: the handshake; the frames on their way and the refinement of `Session` |
| `Packet`, `MCPacket`, `PacketProofs` | packet lengths and padding |
| `ChatList`, `MCChatList`, `ChatListProofs` | the chat list |
| `Setup`, `MCSetup`, `SetupProofs` | processes that create, save, load and serve onion services, with the files and Tor they share |
| `History` | abstract: what a chat history or a log promises its reader |
| `Log`, `MCLog`, `LogProofs` | the way of a log message and the circular queue it ends in; implements `History` |

### Engine

One action per public method of `Engine`, one per engine event in `get_event`, one
per stretch of a task between two points where others can run. The methods take
`&mut self`, so each of them is atomic; `handle_engine_event` awaits nothing.
`phase[c]` is the program counter of task `c`:

| phase | where the task is |
|---|---|
| `idle`, `ended` | not spawned; returned, or ended by a panic |
| `dialing`, `accepting` | before the signature request, key exchange included |
| `signing`, `countersigning` | in `sign_data` (`engine.rs:202`) |
| `authenticating`, `awaiting` | client: reading the auth message, then the authorization |
| `replying` | server: writing its auth message |
| `running` | in the `select!` |
| `writing` | inside an arm that awaits a write (`connection.rs:79`, `84`) |
| `failing` | between the two sends after a read error (`connection.rs:65`, `70`) |
| `closing` | out of the loop, the receiver of the mailbox not yet dropped |

`queue` is `Engine.rx`, `channels` is the map, `mailbox[c]` is `Connection.rx`,
`signature[c]` is the answer channel of `sign_data`. An engine that was dropped, or
that a panic unwound, takes queue and senders with it; what tasks send afterwards is
lost, or panics in their own unwrap, which ends them. `view`, `seen`, `rivals` are
history variables: what the application has been told, and which connections were
live together with another one to the same peer. A failed `send_message` to an ended
task changes nothing, so it has no action. The log events that only report progress
are left out; the ones that go with a change of state are in the queue.

### Link and Session

`Link` has a task at each end and `wire[e]`, the frames that `e` sent and the other
has not read. Frames are `key`, `auth`, `authorized` and numbered chats.
Cryptography is taken as perfect: a signature verifies exactly if the signing key
belongs to the id in the frame (`ownKey`; the key and the address of a persistent
service are two files, so an end may hold a key that is not its own). The stream is
FIFO with a capacity; `Cut` ends it and loses any tail of both directions. An end
that has closed reads no more, and what is written to it is lost. A read at the end
of the stream gives Ok(None) or an error. The ten second timeouts may fire at any
time in the phases that have one; the answer may be there all the same.

`Session` says: each end opens once and closes once, and while it is open it is given
the other's chat messages in the order of submission, none twice, none left out but
those too long for a frame. `Link` implements it under the mapping `state` (new until
announced, open, closed); `submitted` and `delivered` are the same on both levels.

### Packet, ChatList

`Packet` keeps of a message its serialized length, of a packet its header and
length, and computes both as `send` and `read` do, the truncation to the header type
included. The f64 division and `ceil` are exact for all lengths below the codec's
limit and are written as integer arithmetic. `ChatList` is the `Vec` and the index,
with positions counted from 0.

### Setup

`Setup` is `create_onion_service` and everything it calls, run by several processes of
one user. `phase[p]` is the program counter of process `p`, with a step for each system
call of a save and for each request to Tor:

| phase | where the process is |
|---|---|
| `off`, `ready`, `serving` | not running; running, nothing under way; `create_onion_service` has returned |
| `adding` | asking Tor for a service (`control_connection.rs:65`, `87`, `119`) |
| `makeHome`, `secureHome`, `makeDir`, `secureDir` | in `create_secure_dir` for each of the two directories |
| `openAddress`, `writeAddress`, `secureAddress`, `openKey`, `writeKey`, `secureKey` | in the two `write` calls, which open and then write, and their chmod |
| `readAddress`, `readKey` | in `get_onion_address`, `get_onion_service` |
| `asking` | `GETINFO onions/detached` (`control_connection.rs:111`) |
| `binding` | about to bind the listener |

An id stands for a service and its key, a listen address for its local port, a file mode
for whether the checks accept it. `tor` has the listen address and the owner of each
service: a control connection, or none for a detached one. `Fail(p)` lets any call fail,
which returns the error and undoes nothing; `End(p)` ends a process at any point, also by
the unwrap of a service port that was not given; `TorRestarts` ends all services and
control connections. A process sets up one service at a time and serves one. The
history variables are:

- `saved`: the service last saved in full under a name by a save that no other
  overlapped.
- `unsettled`: the names whose files an unfinished or an overlapped save has touched.
- `mixed`: those of them where the save came upon the key of an earlier service, or upon
  another save, so that an address may lie beside a key of another service.
- `asked`: where Tor was told to forward each service to, since it started.

`job[p].clean` says of a save that no other overlaps it, and of a load that the name was
not `mixed` when it began and that no save under the name began since.

What the properties say, and what they leave out because the code allows it:

- `StoreKeepsSaved` speaks of the names that are not `unsettled`: the code replaces files
  in place, so nothing is promised of a save that did not get to its end.
- `IdentityIsOwn` covers loads after a first save that broke off anywhere, or beside one
  that is going on: the key is written last, into a file that was absent or empty, so that such a
  load gets the right key or fails. Once a save over an earlier service breaks off between
  its two files, or two saves overlap, the files may hold the address of one service and
  the key of another, and every load returns them as they are. The code does that; no text
  of the repository speaks of it.
- `ServedIsReachable` asks of a service that was added for the session only that its key
  belongs to its id. One that Tor still had is used as it is, with the listen address it
  was added with, whatever is asked for now (`control_connection.rs:118`): it is reachable
  if whoever had Tor add it gave the listen address of this session, and otherwise
  `create_onion_service` returns a listener that gets no connection.
- A service that was created and could not be saved stays in Tor until Tor restarts.

### Log and History

`Log` follows a message from a task through `TxLogger` into the engine's queue (of which
only log messages are kept here) and from `get_event` to `StandardLogger`, which the
application also writes to directly, and whose level it may change at any time. `slots`
and `insertion` are the vector and the index of the `circular_queue` crate, which
`StandardLogger` and `Chat` both use: `Push` is `push`, `Iter` is `asc_iter`. `Chat` is
the same queue with a capacity of 200 and no level. `History` says what their readers
see: the newest entries, oldest first. `Log` implements it with `Iter` for `kept`.

## 3. Runs

| Run | Checks | Bounds and why they are enough |
|---|---|---|
| `engine` | `TypeOK`, `SignatureNeverPanics`, `OrderlyDelivery`, `RegistrySound`, `LiveConnectionRegistered` | two tasks, two peers: both the shared and the separate entry occur, and a reconnect after a close (second task); two messages each so that order matters; one command waiting in a mailbox; failed writes are logged only while fewer than two events wait |
| `engine_live` | `SignatureServed`, `CloseReported`, `DisconnectHonoured` | two tasks, one peer, without symmetry; writes that never end, a close that waits behind a write, and messages arriving while it waits all occur |
| `engine_send_panic` | `SendNeverPanics`, violated | one peer |
| `engine_unknown` | `UnknownMeansNotConnected`, violated | one peer, two connections |
| `chat_list` | `TypeOK`, `CurrentInRange`, `PagingReverses`, `RemoveKeepsOthers`, `RemovalAheadKeepsCurrent` | three ids, up to five chats: repeated ids, removal at both ends, in the middle, before, at and after the current one |
| `chat_list_panic` | `NeverPanics`, violated | same |
| `packet` | `TypeOK`, `ReadsWhatWasWritten`, `WholeBlocks` | the code's block and header sizes; lengths on both sides of every block edge up to a frame limit of four blocks, which the longest exceeds; three messages |
| `link` | `TypeOK`, `KeyArrivesAlone`, `Authenticated`, `DecodesWhatIsSent`, refinement `SessionSpec`, `CommandsTaken`, `CloseReachesOther`, `HandshakeEnds` | stream of two frames per direction, two messages per end, one command waiting; the server may authorize twice, the client once: a full stream, both ends blocked on it, a too long message between others, double authorization and authorization by the wrong end all occur |
| `link_authorized` | `ClientWasAuthorized`, violated | stream of one frame, one message per end |
| `setup` | `TypeOK`, `StoreKeepsSaved`, `IdentityIsOwn`, `ServedIsReachable` | two processes, two names, two ports, two services made in all: one service saved over another, first saves that break off at every step, overlapping saves and loads, a service in Tor with the same or another listen address, a restart of Tor and of either process all occur; with the symmetry of all four sets, which no action or property tells apart |
| `setup_unusable` | `SavedIsUsable`, violated | one name |
| `log` | `TypeOK`, `NewestKept`, `SourceOrder`, refinement `HistorySpec` | a queue of two entries and three messages from a task and the application each, so that it wraps twice; levels below, at and above the default |

`MaxMailbox`, `MaxMessages`, `MaxQueue`, `MaxSubmitted`, `MaxAuthorize`, `MaxLogged`,
`MaxSent`, `MaxLen` and the number of `Ids` are bounds of the models; the code has no
such limits. Deadlock is not checked where the system may stop: all tasks ended, both
ends closed, everything sent and read, a panic. It is checked for `Setup` and `Log`.

What the violated properties show:

- `SendNeverPanics`: `disconnect` or `send_connection_authorized_message` panics when
  the task has ended and its entry is still there: before the ConnectionClosed event
  is handled, or always after a local disconnect, which removes no entry and sends no
  event.
- `UnknownMeansNotConnected`: when one of two connections with a peer closes, the
  entry of the other goes with it.
- `NeverPanics`: removing the first chat while it is current leaves a list without
  current chat; the next removal panics.
- `ClientWasAuthorized`: an end of file is taken for the authorization.
- `SavedIsUsable`: `create_secure_dir` makes a directory and then sets its mode. When the
  second call fails or the process ends before it, no later save sets the mode, because
  the directory exists; saves succeed, and every load is refused by `check_directory`.

A remark without a run: `crypto.rs:84` speaks of a packet longer than message and header,
and the code allows equal; `WholeBlocks` states what the code does.

### Fairness

- `Engine`: `WF(GetEvent)`, because the application's main loop keeps calling
  `get_event`; `WF(TaskStep(c))`, because tokio polls every ready task and `select!`
  picks among ready arms at random. Nothing is assumed of the network: handshakes and
  reads may never get on, and a write may never end, because the loop awaits it without a
  timeout and a peer that stays connected and does not read can block it. The premise of
  `DisconnectHonoured`, `[]<>(phase[c] # "writing")`, is that this does not happen to the
  connection in question: nothing else, neither commands before the close nor messages
  that arrive, keeps it from being taken. `SignatureServed` and `CloseReported` need no
  such premise.
- `Link`: `Scheduled(e)`, which is `WF(Step(e))`, for each end. The properties state it
  as their premise under `Spec`, so that each assumes no more than it needs:
  `HandshakeEnds` assumes it only for the end it speaks of, the other may stop for good.
  A write that waits for room is not assumed to finish, because the room depends on the
  other end: that is how `Gridlock`, both ends inside a write with both directions full,
  is reached, and `CommandsTaken` excludes exactly that. `Step` contains `Timeout`,
  because time passes.
- `Setup`, `Log`: none; nothing is promised to happen there.

## 4. Proofs

All theorems hold for every value of the constants that satisfies the named
assumption of the module, and for any number of tasks and messages.

| Theorem | Statement | Argument |
|---|---|---|
| `EngineProofs!TypeCorrect` | `[]TypeOK` | inductive by itself; it includes that a task past the key exchange knows its peer, without which `channels[peer[c]]` would be meaningless |
| `EngineProofs!SignatureSafe` | `[]SignatureNeverPanics` | `SignatureInv`: a queued signature request belongs to a task that still waits, unanswered; a task has at most one; before asking it has no answer; the queue of an engine that is gone is empty. Every step either leaves the waiting tasks alone and adds other events (`SteadyStep`), or asks, answers or ends a wait |
| `EngineDeliveryProofs!DeliveryIsOrderly` | `[]OrderlyDelivery` | `Telling`: what the application was told of a connection, what is still queued about it and the phase of its task fit together, NewConnection is first in the queue and ConnectionClosed last; `Numbering`: the queued messages of a connection are exactly `seen + 1 .. received`, upwards |
| `EngineDeliveryProofs!RoutingIsSound` | `[]RegistrySound` | `Addressing`: an entry leads to a connection with that peer which the application knows to be open; what was said of a connection was said when its peer was known |
| `EngineDeliveryProofs!LiveIsRegistered` | `[]LiveConnectionRegistered` | `Addressing` also says that two live connections with one peer are rivals, and that of other connections with the peer of a live one without rivals no report is queued once that one was announced, nor behind its NewConnection: so no late event removes or replaces its entry |
| `LinkProofs!LinkTypeCorrect` | `[]TypeOK` | needs `Shape`, since the writes of the handshake do not wait for room: how far apart the ends can be in the handshake and how many frames are on their way then |
| `LinkProofs!KeysArriveAlone` | `[]KeyArrivesAlone` | follows from `Shape` |
| `LinkProofs!AlwaysAuthenticated` | `[]Authenticated` | `FramesGenuine` (an auth frame on the wire that verifies was made with the sender's own key, and the server's is sent only after the client was verified) and `PeerVerified` (what each phase past the verification stands for) |
| `SessionProofs!LinkImplementsSession` | `SessionSpec` | see below |
| `SessionProofs!FramesAreExpected` | `[]DecodesWhatIsSent` | `Expecting` (which end has yet to read which frame of the handshake, and who has sent it) and `InTurn` (as long as there was no misuse, the authorization is sent once, read first, and no chat frame comes before it) |
| `PacketProofs!TypeCorrect` | `[]TypeOK` | the packets on the wire are packets of messages |
| `PacketProofs!MessagesComeThrough` | `[]ReadsWhatWasWritten` | the packets on the wire are those of the messages written and not read; the padding always fits the header |
| `PacketProofs!PacketsAreWholeBlocks` | `[]WholeBlocks` | the same invariant and a lemma on integer division |
| `LogProofs!LogTypeCorrect` | `[]TypeOK` | inductive by itself |
| `LogProofs!NewestAlwaysKept` | `[]NewestKept` | `Ring`, which says of each slot which of the messages taken it holds: while the vector fills up the one of its own number; later, before the place to insert at, the newest, and from there on those a capacity older |
| `LogProofs!SourceOrderKept` | `[]SourceOrder` | `Ordered`: what the logger took and what waits in the queue are numbered upwards for each source, the former before the latter, below the numbers given out; the application's own messages never wait |
| `LogProofs!ImplementsHistory` | `HistorySpec` | with `Ring`, what is read is `Newest` of all that was taken; taking one more message is an `Add`, every other step leaves what is read alone |
| `SetupProofs!SetupTypeCorrect` | `[]TypeOK` | `TypeInv`: also, every service a file or a process knows is one that Tor made, and a process that is reading or asks Tor is loading |
| `SetupProofs!StoreKept` | `[]StoreKeepsSaved` | `Store`: a clean save is the only one under its name, and `Wrote` says what its files hold at each phase; a save under way has its name in `unsettled`; a save holds an id with its own key (`OwnOf`) |
| `SetupProofs!IdentityKept` | `[]IdentityIsOwn` | `Store`: unless a name is in `mixed`, a key in its files has its own address beside it (`Paired`), because a save that is not mixed is clean and what it has yet to write is empty (`Blank`); a clean load has such a name and still holds what the address file holds (`ReadOf`) |
| `SetupProofs!ServedReached` | `[]ServedIsReachable` | `Reach` says it from the moment a process has its service in Tor, added or found there: nobody adds a service that is there, and nobody but its owner takes it away; a process that adds a saved service has not found it there. `Asked`: a service forwards to where somebody told Tor to forward it, which settles the services that were found there |
| `ChatListProofs!TypeCorrect` | `[]TypeOK` | part of the same invariant as the next |
| `ChatListProofs!CurrentAlwaysInRange` | `[]CurrentInRange` | with the types and that an empty list has no current chat |
| `ChatListProofs!PagingAlwaysReverses` | `[]PagingReverses` | from `CurrentInRange`: at either end of the list paging wraps |
| `ChatListProofs!RemovalKeepsOthers` | `RemoveKeepsOthers` | the positions of another id before and after `swap_remove` correspond one to one: only the last position moves, into the gap |
| `ChatListProofs!RemovalAheadSafe` | `RemovalAheadKeepsCurrent` | the gap is after the current position, so neither what moves nor what is cut off is the current chat |

The two proofs about `Engine` first sort its steps into kinds (`StepKind`): a step
leaves the reports in the queue alone, ends the engine, sends one report
(`Speaks`), or handles one (`Hears`). Each invariant is then carried through the
kinds, not through every action.

`LinkImplementsSession` rests on `Flow(e)`, which follows the messages that end `e` was
given to send through its mailbox, the write under way and the wire. `Current`: what is
still on its way has not been delivered. `InOrder`: numbers go up along that way.
`NoGap`: what is on the wire fits a frame, and nothing that fits is missing in front of it. `NoneLost`: as long
as the two ends are connected, each message that the other has yet to be given is
somewhere on the way. A step that ends a task is a `Close`, one that
announces the connection an `Open`, one that takes a message from the application a
`Submit`, and one that reads a chat frame a `Deliver` of the smallest number on the wire;
every other step, handshake and cut included, leaves the variables of `Session` alone.

With these, every invariant and every action property that a passing run checks, and both
refinements, are theorems. Only model-checked are the liveness properties
`SignatureServed`, `CloseReported`, `DisconnectHonoured` (`Engine`), `CommandsTaken`,
`CloseReachesOther` and `HandshakeEnds` (`Link`): they need fairness, whose meaning is
given by ENABLED, about which TLAPS does not reason.

## 5. Not modelled

- Cryptographic strength, serialization formats, text of log messages.
- The spinning of a loop whose mailbox has lost its sender (`connection.rs:76`): it
  changes no state.
- Replaced or reordered packets: the stream is Tor's and TCP's.
- `test_onion_service_connection`: one accept and one connect, no state of its own.
- How `connect_to_tor` chooses among the ways to authenticate: `Connect` succeeds or not.
- `config.rs`: parsing, and a merge that takes each option from the later layer. One pure
  function of two records, without an order of events to get wrong; `lib.rs` declares
  modules.
- Symbolic links, other users of the file system, and a partly written file that still
  parses.

## 6. Plan

Done, in this order: `Engine`, `ChatList`, `Packet`, `Session` and `Link`, `Setup`,
`History` and `Log`, and the proofs above. Still to come:

- `Network`: several nodes, each with the registry of `Engine`, joined by the sessions
  of `Session`: two nodes that dial each other, reconnects after a cut. Its theorem is
  the one of `LiveConnectionRegistered` at both ends of a session.
