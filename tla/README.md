# message-io in TLA+

`message-io` is a Rust networking library: a user gets a `NodeHandler`, asks it
to connect, listen, send and close, and is told what happens through one
callback. Behind the handler run one *master* multiplexor thread (listeners and
outgoing connects) and several *worker* threads (established connections). Every
thread owns a mio poll, a command channel and its own, unsynchronised resource
registries. This directory holds a TLA+ model of that machinery, TLC
configurations that check it on small instances, and TLAPS proofs.

Paths below are relative to the crate's `src/` directory (`src/src/` in this
tree).

## 1. The system

### Components, their state and their operations

| component | code | state | operations |
|---|---|---|---|
| command path | `events.rs`, `network/poll.rs`, `network.rs` (Waker arm) | an unbounded channel per thread, the poll's waker, the drain counter | `post` = send then wake; poll reports the waker; drain at most `MAX_COMMANDS` |
| node handler | `node.rs`, `network/waker_command.rs` | the senders of all threads, two id generators, `running` | `connect_with`, `listen_with`, `send`, `close`, the `*_sync` variants, `is_ready_sync`, `stop` |
| dispatch | `network.rs` `process_poll_event` | none of its own | poll events and commands to the driver of the id's adapter |
| TCP driver and adapter | `adapters/tcp/*` | `remote_registry`, `local_registry`, per remote: `ready`, the listener it came from | `process_read/write/listen/connect/send/close/is_ready`, registration of accepted and connecting sockets |
| registries | `network/registry.rs`, `network/poll.rs` | id → resource maps (`RefCell`-like, no lock), poll registrations | `register`, `get`, `deregister` |
| ids | `network/resource_id.rs`, `loader.rs`, `poll.rs` | two atomic counters | `generate`, packing and unpacking, token conversion, worker index |
| lifecycle | `node.rs`, `util/thread.rs` | `running`, `thr_counter`, the thread handles | launch and count-in, `stop`, `NodeTask::wait`, drop |
| framing | `util/encoding.rs` | `Decoder.stored` | `encode_size`, `decode_size`, `decode` |
| SSL | `adapters/ssl/*` | as TCP, plus acceptor / handshake state of the stream | as TCP |
| WebSocket | `adapters/ws/*` | as TCP, plus handshake machine, `WebSocketContext` state, frame codec | as TCP |
| transport table, addresses | `network/transport.rs`, `remote_addr.rs`, `endpoint.rs` | none | conversions |
| UDP | `adapters/udp.rs` | — | not compiled in |

### How they interact

A handler call becomes a `WakerCommand` in the channel of the thread that owns
the resource: `Connect`, `Listen` and closes of listeners go to the master,
everything about a remote goes to worker `id % workers`. The master makes the
socket of a connect, and accepts connections, but never serves them: it sends
the socket *with its callback* to the worker in a registration command, and the
worker adds it to its registry and poll. From then on only that worker touches
the resource. Poll events (edge triggered) drive the driver's `process_read` and
`process_write`, which resolve a pending remote (`Connected`, `Accepted`), read
it until it would block (`Message`) and remove it when it ends (`Disconnected`).

### What is hard here

* posting is two steps (send, wake), wakes coalesce and a drain is cut short;
* a socket is in flight between two threads while users and peers already act on
  it;
* registries have no lock: their soundness is that no two threads ever share an
  entry;
* poll events outlive the resource they are about (closed by an earlier command
  of the same batch);
* edge-triggered polling: a loop that stops early, or data that precedes the
  registration, must not strand anybody;
* both a read and a write edge can resolve a pending connection;
* users hold the handler before any thread exists, may stop the node at any
  moment, and may block on a promise that only a multiplexor thread keeps;
* `connect_sync` polls a worker for an answer that may be out of date when it is used,
  while the connection is made, lost or closed;
* the byte stream is cut anywhere, in the middle of a length header too, and a send may
  give up half-way through a message;
* a TLS handshake runs inside `read` and `send`, which wait actively, and rustls keeps
  records the poll knows nothing of;
* a WebSocket's close handshake may start at both ends at once, over a stream that
  blocks half-way through a buffer and may end at any moment; its opening handshake is
  interrupted and resumed by poll edges, while users send and close.

`PROJECT.json` lists these hazards one by one, with the line each bites at and
the properties that would show it going wrong.

### What makes each component correct

* command path — no wake-up is lost; commands are handled once, in order, and
  eventually: a reliable FIFO channel;
* node, driver and registries — thread confinement; every open socket has one
  owner; the events of an endpoint follow the protocol of `net_event.rs`; nothing
  a peer sent before an orderly close is lost; a `close` does not overtake the
  sends before it; connects resolve, data is delivered, dead sockets are
  reclaimed, the backlog is served;
* ids — unique, and the fields packed into them are read back;
* lifecycle — the task is returned once all threads serve; `wait` returns exactly
  when they are gone; a synchronous call returns unless the node is stopped, and what
  `connect_sync` returned is true of the connection;
* framing — the messages delivered do not depend on how the stream was cut, and a send
  that reports `Sent` has written all of its message in its place;
* SSL — what was sent is delivered once and in order, a send returns, the end of one
  side is noticed by the other, a remote that is reported ready can be written to;
* WebSocket — messages arrive in order, "closed" is only said of an orderly end,
  every close is answered, nothing but a pong follows it, and it ends both sides; a
  handshake is written once however often it is interrupted, its failure is reported
  once, and no failed or unfinished remote is used as an open one.

## 2. Modules

| module | models | role |
|---|---|---|
| `CommandChannel` | what users of the command path rely on | abstract FIFO channel |
| `CommandQueue` | post / wake / poll / drain of one thread | detailed; implements `CommandChannel` |
| `CommandQueueProofs` | — | TLAPS proofs about `CommandQueue` |
| `NodeNetwork` | handler, dispatch, TCP driver and adapter, registries, all threads | the core; one `CommandChannel`-like queue per thread |
| `NodeNetworkProofs` | — | TLAPS proofs about `NodeNetwork`: types and confinement; ownership, order of events; sends, closes, received data |
| `NodeLifecycle` | launch, stop, wait, drop, synchronous calls | lifecycle; the base of `SyncConnect` |
| `SyncConnect` | `connect_sync_with`, `is_ready_sync`, `process_is_ready` | `NodeLifecycle` composed with connections and the threads that wait for them |
| `SyncConnectProofs` | — | TLAPS proofs about `NodeLifecycle` and `SyncConnect` |
| `ResourceId` | generators, packing, tokens, worker index | pure operators over issued ids |
| `ResourceIdProofs` | — | TLAPS proofs about `ResourceId` |
| `Decoder` | length-prefixed framing | the decoder's operators and its `Decode` step |
| `FramedStream` | the write loop of `send`, the socket, `receive` and the decoder behind it | `Decoder` composed with the connection that feeds it |
| `FramedStreamProofs` | — | TLAPS proofs about `Decoder` and `FramedStream` |
| `SslRemote` | `adapters/ssl`: the two remotes of a TLS connection | the stream's states, with rustls as an external |
| `SslRemoteProofs` | — | TLAPS proofs about `SslRemote` |
| `WebSocketContext` | `adapters/ws/protocol`: context and frame codec | two of them, client and server, over one stream |
| `WebSocketContextProofs` | — | TLAPS proofs about `WebSocketContext` |
| `WsRemote` | `adapters/ws`: driver, adapter and handshake of the two ends of a connection | up to the open WebSocket, where `WebSocketContext` takes over |
| `WsRemoteProofs` | — | TLAPS proofs about `WsRemote` |

Operators marked *Slip* are deliberately wrong variants of the definition that
follows them. Each is a bug one could plausibly write at that place; exchanging
the definition for it must violate the property it is listed with in
`PROJECT.json` (`mutants`). They are not part of any specification.

### CommandQueue

`queue` is the crossbeam channel, `mustWake` the posters that have executed
`sender.send` but not yet `waker.wake`, `wakePending` the wake the poll has not
reported, `draining`/`count` the while loop of the Waker arm. `PostSend`,
`PostWake`, `PollWaker`, `Receive`, `DrainEnd` are the atomic steps of the code;
handling a command is part of `Receive`. `processed` is a history variable.
`count` keeps the last value of the loop's counter after the loop, so that a
drain that was cut short can be told from one that emptied the channel.

### NodeNetwork

One record per remote id and per listener id. `queue[t]` is thread `t`'s
channel (by `Refinement`, below, the command path behaves as one; that it also
delivers depends on no burst exceeding the drain limit, see `command_burst`). `remotes[t]`, `locals[t]` are the keys of `t`'s
registries, `ready` and `origin` the remote's properties, `events[r]` the history
of the `NetEvent`s about `r`. A handler is one action, with every call it makes:
`DoConnect` is `process_connect` with what `tcp_remote_connect_with` may return
(`TcpRemoteConnectWith`) and the post to the worker,
`DoConnectRegister` the registration and the user's callback, `ProcessRead` the
lookup, the resolution of a pending remote with its event, and the entry into the
receive loop. Only the two loops that call out between turns are cut into
turns: `receive()` (`ReadData`, `ReadWouldBlock`, `ReadEnd`) and `accept()`
(`AcceptOne`, `AcceptEnd`); `act[t]` says which one a thread is in.

Data is abstract: a message is a number (sends) or just counted (receives).
Sockets, peers, the listen backlog and the edge-triggered poll are external,
modelled from how the code uses them: `sock[r]` (connecting, up, refused; unread
chunks; what the peer did with its end), `open`, `backlog`, `poll[t]`. An edge is
recorded only in the poll the socket is registered with; registering reports the
readiness that is already there, as epoll does.

A user can only name an endpoint it was told of (the callback of its connect, or
an event): that is what `KnownRemote` says, and it is why
`NoCommandBeforeRegistration` holds.

Three of the properties the runs name are conjunctions of smaller ones that the proofs
treat one by one: `EndpointProtocol` (`EventOrder`, `CallbackBeforeEvents`), `Ownership`
(`SocketHasOneOwner`, `EndedIsRemoved`, `NoCommandBeforeRegistration`) and
`SilentOnceGone` (`EventsOnlyWhileRegistered`, `NeverRegisteredAgain`).
A single remote cannot show a clash of two ids: that no id is given twice is `UniqueIds`
of `ResourceId`, and `NeverRegisteredAgain` is proved for any number of remotes.

Abstractions: `DoSend` writes the whole message or none of it (the loop itself is in
`FramedStream`); user callbacks do not call back into the node synchronously (they may
post, which is a user step).

### NodeLifecycle and SyncConnect

`NodeLifecycle` follows the launching thread through `node_listener_for_each_async`,
`wait` and drop, and every multiplexor thread through its start, the loop head
that reads `running`, and `process_poll_event`.

`SyncConnect` extends it: its next-state relation is a step of `NodeLifecycle` or one
about a connection. `conn[k]` is where user thread `k` is in `connect_sync_with`: at
the first promise (`ConnectSync`), asking `is_ready` (`AskReady`, `TakeAnswer`), or
back with what it returned (`Abort` after `MaxTries` questions). The promise of the
first stage is kept by the registration (`DoRegister`), which is why a socket that
cannot be opened (`DoConnect`) leaves the caller waiting. `res[k]` is the entry of the
worker's registry; poll events resolve and end it (`ProcessEvent`) and the user may
close it, from the event callback or after the return, in between any question and its
answer.

### ResourceId, Decoder and FramedStream

`ResourceId` treats bit fields as
digits of a positional number, so that field widths are parameters; `issued` is the
sequence of the ids given out, so an id given twice is there twice. `Decoder`
keeps the two code paths (decode in place / complete what is stored) apart, with a
radix instead of 128; sizes and the two subtractions of `store_and_decoded_data` wrap at
`Usize`, as in a build without overflow checks, and a header has at most
`MaxEncodedSize` digits. The loops of `encode_size`, `decode_size` and `try_decode` are
recursive functions over the number, the digits and the bytes that are left.

`FramedStream` puts it behind a connection. A send is a loop of `Write`s, each of which
moves what the socket has room for, until all is written (`Sent`), the connection is
lost (`ResourceNotFound`) or `MaxWrites` writes were made (`SendAbort`); the reader
takes any number of the bytes that have arrived and gives them to `Decode`. `Uncut`
are the messages before the first that was cut short: of these everything is promised,
of what follows nothing.

### SslRemote

The two ends of one connection, `client` (from `connect`) and `server` (from a
listener), with the worker that serves each: two threads, or one, as the ids fall.
The driver's control is that of the TCP driver; `stream[e]` adds the variant of
`SslStream`, and `hs`, `out`, `plain` what rustls keeps: whether it is handshaking,
records it has not written, messages it has read ahead. `act[t]` is the loop a
thread is in; a turn of `receive` or of `send` is an action, and a turn that would
block changes nothing, which is the active waiting of the code. rustls is modelled
as `StreamOwned` works: `read` and `write` first finish the handshake and what is
left to be written (`PriorIo`), give up when that would block, and `write` then
queues the message whether or not the socket takes it. A hello may arrive in
pieces, which `wrap_stream` takes for an error.

Three places of the driver panic, and are actions: `send` on an acceptor is
`unreachable!()` (`SendAcceptor`), and so is a failing `wrap_stream` of a client whose
host is no server name (`RegisterClientBadName`); an address that is no string or no
URI ends the master (`ConnectBadAddress`). A thread that panics drops its drivers and
its channel, with the streams they hold (`Panic`, `HeldBy`); the master takes its
listener and the backlog along, and what it accepts for a worker that has panicked is
dropped by `post` (`Accept`).

Before it reports a read edge the poll looks at the socket again (`LoseEdge`), as
epoll does; what a send's handshake has read meanwhile is not reported.

### WebSocketContext

`ws[e]` is the context of end `e`: its state, `additional_send`, the incomplete
message and the codec's `out_buffer`. An action is one call of `read` (one turn of
its loop), `write`, `flush` or `close`, or the drop of the stream. The methods are
operators from a *view* of an end to the set of their possible outcomes, so that
the code's `?` is `Try`: go on after a success, return an error with whatever the
call has changed so far. The stream is external: it holds `Window` frames per
direction and then blocks, ends when the other end is dropped, and is reset if that
end left something unread. A frame is its opcode, a message number and whether it
is masked. Frames are written and read whole, in order; lengths and with them
`max_frame_size` and `max_message_size`, UTF-8 checks, reserved bits and opcodes are
left out, since both ends are this code and never produce them. Users write
well-formed fragments (`First`, then `Last`), with control frames between them, and
may drop a stream at any moment.

Of `Frame::close` the model keeps that it makes no frame without a close code. At
this commit `do_close` passes the `Option` it returns to `set_additional`, which
takes a frame; the `websocket` feature is not in the default build and does not
type-check there. The model reads that line as "reply if there is a frame", and
there always is one, since an end without a code sends no close frame at all.

### WsRemote

One connection, its two ends, the worker of each and the master. `state[e]` is the
`RemoteState` of end `e` with the stage of its handshake machine and the length of the
machine's packet; `act[e]` is where the worker is: between events, in `pending()`, or
in the loop of `MidHandshake::handshake`, of which a turn (`ReadRound`, `WriteRound`) is
an action, so that the network acts between two writes. `Pending` is the match of
`pending()`; `Incomplete`, `Ready`, `Disconnected` and `Unreachable` are what
`resolve_pending_remote` makes of its result. The request is a number of pieces, the
checks of headers are a choice (`VerifyResponse`, `CreateResponse`), sockets take
`SendBuf` pieces and the poll's edges coalesce. An address that is no URL panics the
master (`DoConnectBadUrl`), which drops its listeners and serves no more commands.

`ReadRound` is the code as it is: it looks at the packet and never reads the stream, so
the packet that `start_read` made stays empty. What follows the reading stage
(`VerifyResponse`, the server's response, `Done`) is in the model and is not reached;
the run `ws_handshake` shows the consequence. The `websocket` feature does not type-check at
this commit for the reason given above, so this is what it would do once that line is
mended.

## 3. Model checking

| run | checks | bounds and why they are enough |
|---|---|---|
| `command_queue` | `NoLostWakeup`, `InOrderExactlyOnce`, `HandledUnlessCutShort`, `ImplementsChannel` | 3 posters × 2 commands, limit 2: posts race each other, a drain, and a drain that is cut short |
| `command_burst` | `EveryCommandHandled` — **violated** | one command more than the limit, wakes coalesced: the last command stays in the channel |
| `network_one` | `EndpointProtocol`, `Ownership`, `NoDataLost`, `SendsInOrder`, `CloseAfterSends`, `SilentOnceGone` | one remote, connected or accepted, 2 chunks, 2 sends, 2 closes, failures and spurious edges: all orders around one endpoint |
| `network_two` | `Confinement`, `ConnectResolved`, `DataDelivered`, `EndedSocketReclaimed`, `BacklogServed` | two remotes on two workers and a listener: sockets in flight to different threads, ids from user and master, edges that coalesce, a backlog of two |
| `sync_connect` | `TaskTellsThreads`, `TaskReturned`, `StopEndsWait`, `SyncReturns`, `ConnectOutcome` | master and one worker, a synchronous caller, a `connect_sync` with two questions, one posted stop: at a stop one thread may be starting and the other running, and every change of the connection falls before, between and after the questions |
| `resource_ids` | `UniqueIds`, `TokenTellsResource` | two-bit fields, all adapters, up to the last base value |
| `framed_stream` | `ChunkingIrrelevant`, `SentIsWhole` | three messages with one- and two-byte headers, sizes at the edges of both, a socket of 6 bytes and 3 writes per send: sends that fit, that need several writes, and that give up; reads of every length |
| `websocket` | `MessagesInOrder`, `ClosedMeansAllReceived`, `CloseIsLast`, `CloseAnswered`, `EndsAgree`, `CloseEndsBoth` | 2 data messages, 1 ping or pong, window 1, buffer written above 1 frame: every frame can meet a full stream, a fragment can be split by a control frame, both ends can close at once; `MaxOut` is above what can be buffered, as in the default (unlimited) configuration |
| `ssl` | `SentIsSomewhere`, `SendReturns`, `SentIsDelivered`, `EndNoticed` | 2 messages each way, sockets of 2 records, one thread or two: a message can share a read with the end of a handshake, and a full socket can leave one in rustls; each of the panics, at any point |
| `ssl_ready` | `ReadyCanWrite` — **violated** | a send right after `Accepted`, before the client's hello |
| `ws_remote` | `NeverUnreachable`, `RequestOnce`, `FailureTold`, `ClientProgress` | a request of 3 pieces over a socket that holds one: the handshake is interrupted twice; refusal, reset, close, send and a panic of the master at any point |
| `ws_handshake` | `PendingResolves` — **violated** | the smallest handshake: the request arrives and is never read |

The violated properties state what a doc comment of the crate says;
`PROJECT.json` (`findings`) quotes the comment and the line of the code that does
otherwise. More such divergences are in the models and have no run of their own:

* a connect whose socket cannot be opened is not answered: the callback is dropped
  uncalled, against `node.rs:99` ("this function can return an error"), and
  `connect_sync` waits for ever; `SyncReturns` has to except it (`DoConnect`);
* `connect_sync` answers `ConnectionAborted` after its 1000 questions, not
  `ConnectionRefused` (`node.rs:257`), and leaves the resource registered: it may still
  become `Connected` (`Abort`);
* `process_is_ready` looks a listener's id up in the registry of remotes
  (`tcp_driver.rs:411`), and `is_ready_sync` asks a worker for it: the answer is always
  `None`; `SyncConnect` asks for remotes only;
* a send that gives up leaves a part of its message on the stream, against
  `network/adapter.rs:146` ("in charge to send the entire `data`"); the next message is
  then read as the rest of it. On such a stream the subtraction of `encoding.rs:75` can go
  below zero (`StoreAndDecode` with a header longer than its size needs), as can that of
  `encoding.rs:61` (more bytes stored than a header can have, and no size in them), which panics
  with overflow checks and otherwise makes the decoder store everything that follows;
* a WebSocket address that is no URL panics the master thread (`ws_driver.rs:345`, `:352`),
  a TLS address that is no string or no URI too (`ssl_driver.rs:355`, `:356`), and a host
  that is no server name panics the worker (`ssl_driver.rs:322`);
* a WebSocket server that is still in its handshake does not notice that its peer has
  gone, and its user has no id to close it by (`ReadRound`, `UserSend`);
* dropping a `NodeTask` does not block as `node.rs:643` says: the `Drop` of its
  threads is commented out (`util/thread.rs:54`); see `DropTask`;
* `stop()` only clears a flag (`node.rs:481`): a thread inside `process_poll_event`
  still hands out events, against `node.rs:479`; see `Stop` and `LoopHead`;
* `StreamOwned::write` takes a message whether or not the socket takes its record, so a
  TLS send returns `Sent` for what is still in rustls, against `network/adapter.rs:73` ("has
  sent the message to the OS"), and a write edge does not flush it (`SendTls`, `ProcessWrite`);
* `WebSocketContext::close(None)` queues no close frame, against
  `ws/protocol/mod.rs:261` and `:515`: two ends that close so wait for each other for ever;
* a WebSocket server whose close reply is blocked is told `ConnectionClosed` by its
  next `read` with the reply unsent (`ws/protocol/mod.rs:384`), against `:201` ("it is safe
  to drop the underlying connection").

`SendReturns` and `SentIsDelivered` name the ways in which a TLS send can hang or a
message can be left behind; without these exceptions TLC refutes them. Both
exceptions come from waiting inside a call: two threads in `send` over full
sockets, or one thread that serves both ends; and a record left in rustls, which a
write edge does not flush and a read edge does not report. What is left
there is neither lost nor out of order: that is `SentIsSomewhere`. `CloseEndsBoth` in
the same way excepts the close without a code.

`CHECK_DEADLOCK FALSE` everywhere: a node whose users and peers do nothing more
really stops, and the bounds on posts, ids and data stop it too.

**Fairness.** Weak fairness of each multiplexor thread as a whole: it runs a loop
and the OS schedules it. Of a poster between its send and its wake: straight-line
code. Of a connect's outcome: TCP eventually connects or times out. In
`SyncConnect`, strong fairness of a thread's commands: `PollEnd` stands for a poll that
times out at any moment, and a woken poll reports the waker in one of its next
rounds; a thread inside `connect_sync` keeps running, and nothing is assumed of the
network. In `WsRemote`, weak fairness of a worker's commands and of its poll events
each: a drain is limited, so neither shuts the other out; TCP connects or gives up, and
carries what it has taken. `FramedStream` has safety properties only and no fairness. Users and peers owe nothing, except in
`WebSocketContext`, where the progress of a close handshake needs what the docs of
`close` ask for: both ends keep calling `read` and `flush` and drop the stream after
an error. Within `NodeNetwork`, weak fairness of a
thread as a whole is enough because a thread's pending edges and commands are
finite in number between two actions of users and peers, which are bounded.

## 4. Proofs

TLAPS proves these for every value of the constants, under the assumptions stated
in the modules.

`CommandQueueProofs` (`MaxCommands ∈ Nat \ {0}`, `MaxPosts ∈ Nat`, any set of
posters): `TypeCorrect`; `WakeupNeverLost`, that the thread sleeps on a non-empty
channel only after a drain cut short at the limit; `OrderKept`, that each poster's
commands are handled once and in order; `Refinement`, that every step of the
command path is a step or a stutter of `CommandChannel`. `NoLostWakeup` is
inductive together with the types, since it already speaks of every place a
pending wake can be: in the poll, with a poster that has sent and not yet woken,
or in the drain. Order is stated on the whole history (handled, then queued), on
which `HistoryStep` shows that a step is a stutter or an append of the sender's
next command; that makes it inductive, and is also the heart of `Refinement`.

`NodeNetworkProofs` (`WorkerNum ∈ Nat \ {0}`, natural bounds, Boolean switches) has three
parts. The first: `TypeCorrect` and `ThreadsConfined`. The registries are private because commands
are routed, so `Confinement` alone is not inductive: a worker handling a
registration posted to the wrong channel would break it. The inductive invariant
`IInv` adds `WellPlaced`, that every command in flight is in the channel of the
thread its id belongs to (`to_worker_index` for remotes, the master for connects
and listeners), and `UnreadWasSent` for the types. One lemma per action.

The second part: `OneOwner`, `EventsInOrder`,
`CallbackFirst`, `RemovedWhenEnded`, `NoOvertaking`, `SilentWhenGone` and
`GoneForGood`, and from them `EndpointProtocolHolds`, `OwnershipHolds` and
`SilentOnceGoneHolds`, the properties as the runs name them. The inductive invariant is `IInv ∧ OInv`. Its idea is the *birth*
of a remote: the commands `Connect`, `ConnectRegister` and `AcceptRegister`.

* `OneBirth`: at most one birth of a remote is in flight;
* `Unborn`: while it is in flight no registry, event or callback knows the remote,
  and the socket is open exactly if the command carries it;
* `UsedAfterBirth`: sends and closes in flight are for remotes whose birth is over,
  because a user can only name what a callback or an event has told;
* `Owned`: registered means open, and open means registered or carried;
* `FreshIds`: ids not handed out yet have left no trace;
* `Told`: a registered remote is ready exactly if its opening event was delivered,
  it has not ended, and an outgoing one had its callback;
* `EventOrder` and `CallbackBeforeEvents` themselves.

The seven theorems are consequences: a socket has one owner because a birth in
flight excludes a registration (`Unborn`) and a second birth (`OneBirth`);
nothing returns after its end because entering a registry takes a birth, and a
birth in flight means no event yet. `IInv` and `OInv` were model-checked on the
instances of `network_one` and `network_two` before they were proved.

The third part (on top of `IInv ∧ OInv`): `SendsInOrderHolds`,
`CloseAfterSendsHolds` and `NoDataLostHolds`. None of the three is inductive: they speak of
what has been written or reported, and what will be is still in a channel or a socket.

* Sends (`DInv`): the numbers of a remote's sends grow along its channel (`SendOrder`)
  and exceed what has been written (`Numbered`); all of them are in one channel because
  of `WellPlaced`. `SafeKept`: a send made before the first `close()` is written, or its
  remote is still registered and the send is queued with no `Close` of that remote ahead
  of it. `CloseAsked` ties leaving the registry to a `close()` or to the connection's end.
* Data (`AInv`): the `Message` events of a remote and the chunks unread in its socket add
  up to what its peer sent; a peer that closes leaves nothing unread behind a reported end.

`SyncConnectProofs` (any number of threads, callers, connectors and tries):
`TaskTellsThreadsHolds` and `ConnectOutcomeHolds`. The lifecycle part (`LInv`) counts:
`gather` only looks at `thr_counter`, so that a task implies running threads needs
`Counted`, the counter is the number of threads that have started, together with the order
in which threads are launched and joined. The connect part (`CInv`) says that the command
that brings a resource about and the one that asks for it are each in flight at most once
(`InFlight`), that the user has been told what became of a resource (`ToldOf`), and that an
answer is true or was (`Answered`): a stale `ready` still means that `Connected` came first.

`ResourceIdProofs` (any widths and set of adapters within `ResourceIdAssumption`):
`FieldsRecovered` and `TokenRoundTrip` about the packing itself, then `UniqueIdsHolds` and
`TokenTellsResourceHolds`. An id is a number of two digits, the upper of which has two
digits itself (type and adapter); `Digits` and `ModMultiple` are the arithmetic. The
invariant `IdInv` adds that a generator is above every base value it has given out.

`WsRemoteProofs` (any `RequestLen` and buffer): `NeverUnreachableHolds`,
`RequestOnceHolds` and `FailureToldHolds`. `WInv` says that each end is opened once
(`Opening`), that a worker is only ever at work on a remote that is registered and in a
state its work can meet (`Served`), what a remote that is gone leaves behind (`ToldOf`), and
that what the server has got and what is on its way are the first `Written` pieces of the
request (`RInv`), where `Written` is read off the handshake's own state.

`FramedStreamProofs` (any `Radix ≥ MaxEncodedSize − 2`, `Usize > MaxEncodedSize`, message
sizes a usize and a header can tell, any socket and any number of writes per send):
`SentWhole` and `ChunksDoNotMatter`. The invariant `IInv`:

* `Counts`: at most one send runs, and it has not written all of its frame;
* `Wired`: the bytes the socket was given are the frames sent and the part of the one being
  written; once a send was cut short, they begin with the frames before the cut;
* `Decoded`: the bytes read are the frames of the messages delivered and the stored bytes,
  which are a part of the next frame, or they go beyond the frames before the cut.

Below it are the algorithms, each shown to do what it should for every input:
`EncodeSize(n)` is a header (`IsHeader`: its digits stand for `n`, the last and only the
last is below `Radix`), `DecodeSize` reads it back from whatever follows and finds nothing
in a part of it (`HeaderOfPart`), `TryDecode` takes off the frames that are whole, wherever
the data is cut, and `StoreAndDecode` completes the one that is stored. Its header read takes up to `MaxEncodedSize`
bytes and must not take more than the frame: a stored part that holds no size yet is a
part of a header of two bytes or more, so the message has at least `Radix` bytes, which is
where `Radix ≥ MaxEncodedSize − 2` (128 and 10 in the code) is needed.
The recursive functions are shown to satisfy their equations and the facts about them are
proved by induction, as in `SslRemoteProofs` below.

`SslRemoteProofs` (any `MaxSends`, any `Window` above 0): `TypeCorrect` and
`SentStaysSomewhere`. A call of rustls is again a function from a view to outcomes, and
`Follows` is what each of them keeps: what has been read and what the socket still holds for
the reader are the same messages as before, what is in the writer's rustls and on the
stream are the same messages and behind them the one that was sent, and a byte of room is used per record.
A panic drops streams and moves nothing else, so that the three of them are one lemma
(`PanicKeeps`). One lemma per call (`FlushKeeps`, `ReadKeeps`, `PriorKeeps`, `TlsReadKeeps`,
`TlsWriteKeeps`). `SentIsSomewhere` says nothing of an end that has left, and a message may
be in flight to it; the inductive invariant `SInv` therefore follows both:

* `Whole`: while the reader is up, what it has and what is on its way are all that was sent,
  or, once the writer has left, a prefix of it;
* `Kept`: an end that is no connection (yet, or any more) keeps no records, and one that has
  not begun has sent nothing;
* `HelloFirst`: while the server is an acceptor there is at most the hello on the stream and
  the client handshakes, so nothing is lost when the acceptor replaces its stream;
* `Sending`: a thread in `send` has a message.

That the messages among records, and the data of events, are what they should be for
sequences of every length (`MessagesConcat`, `DataAppend`) is proved by induction: a set
of naturals that is not empty has a least element (`LeastNatural`, from the library's
`WFMin`, which has no operator as a parameter), so a set with 0 and the successor of each of its elements is all of `Nat`
(`SetInduction`).

`WebSocketContextProofs` (any `MaxMessages`, `MaxControls`, `Window`, and any `WriteLen`
below `MaxOut`): `TypeInvariant`, `MessagesInOrderHolds`, `ClosedMeansAllReceivedHolds`,
`CloseIsLastHolds`, `CloseAnsweredHolds` and `EndsAgreeHolds`. The methods are functions
from views to outcomes, so there is one lemma per method about a view alone: `Advances`
says that what was accepted (put on the stream or buffered) keeps its order, that at most
the reply in `additional_send` is added to it, and what a result means for the state.
The inductive invariant `CInv` then follows the frames between the ends as one line, those
the stream holds and behind them those in the buffer, so that a partial write changes
nothing:

* `Sender`: the line is masked as its end masks, has only pongs behind a close frame, in it
  or read from it, and the close frames sent, buffered and due are one at most: none
  while the context is `Active`, exactly one in `ClosedByPeer`;
* `Reader`: the line leads from where the reader stands to where the writer's user does.
  A position counts two steps to a message, the odd ones being inside a fragmented one, and
  `Path` gives the position before each frame. An end that drops its WebSocket loses what it
  had buffered, so a line ends where the user does (`Whole`) only while its end lives or
  once its close frame was taken by the stream;
* `Judged`: what the first fatal error of an end says of its state.

A message is in its place because its frame starts where the reader stands; an orderly end
means everything was received because the close frame was read, only pongs are behind it,
and a whole line with no data left ends where the writer does (`AllRead`).

Each of these invariants was model-checked on the instance of its run before it was proved.

**Only model-checked.** Everything under fairness (`HandledUnlessCutShort`, the
progress properties of `NodeNetwork`, `SyncConnect`, `SslRemote`, `WebSocketContext` and
`WsRemote`), because the prover has no rule for fairness. Every invariant of a run that is
expected to pass, and every action property, is a theorem.

## 5. Not modelled, and the plan

* `receive` and `send` of an open WebSocket (`ws_adapter.rs:169`, `:218`): no remote
  becomes ready at this commit (`ws_handshake`). What they call, `WebSocketContext`, is
  modelled. The parsing of requests and responses, and the contents of headers, are a
  choice of outcomes.
* The blocking WebSocket client (`connect_with_config` with its redirects, `WsStream`):
  taken over from tungstenite and used by nothing in the crate.
* The byte layout of WebSocket frames (`frame.rs`, `coding.rs`, `mask.rs`) and UTF-8
  assembly (`message.rs`): conversions without interleaving; frames are whole in
  `WebSocketContext`.
* Synchronous calls from inside the callback: the docs of `connect_sync` forbid them
  (`node.rs:261`); the caller would wait for the thread it runs on.
* `transport.rs`, `remote_addr.rs`, `endpoint.rs`: stateless tables and address
  conversions. `udp.rs` is not compiled in. Examples, benches and tests are not
  part of the node.
