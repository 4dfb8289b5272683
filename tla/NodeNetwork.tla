---------------------------- MODULE NodeNetwork ----------------------------
(***************************************************************************)
(* A running node over TCP: the NodeHandler calls of its users, the        *)
(* commands they become, the master thread (listeners, connects), the      *)
(* worker threads (remotes), the registries of every thread and the        *)
(* network events handed to the user.                                      *)
(*                                                                         *)
(* The command path of a thread is the channel of CommandChannel, which    *)
(* CommandQueue implements.  A handler is one action, except the two loops *)
(* that call out between turns: receive() (one read() per action) and      *)
(* accept() (one accept() per action); other threads, the users and the    *)
(* peers may act between the turns.  Sockets, peers and the edge-triggered *)
(* poll are external: `sock`, `backlog` and `poll`.                        *)
(***************************************************************************)
EXTENDS Integers, Sequences, FiniteSets

CONSTANTS WorkerNum,       \* number of worker threads
          MaxRemotes,      \* bound: connections asked for, by users or peers
          MaxLocals,       \* bound: local ids, of listens
          MaxData,         \* bound: chunks a peer sends on one connection
          MaxSends,        \* bound: sends of the users on one connection
          MaxCloses,       \* bound: close() calls on one id
          ConnectMayFail,  \* the OS may refuse to open a connecting socket
          AcceptMayFail,   \* accept() may fail with other than WouldBlock
          WriteMayFail,    \* a write may fail, or be given up, on a live socket
          SpuriousEdges    \* poll() may report readiness that is not there

ASSUME WorkerNumAssumption == WorkerNum \in Nat \ {0}
ASSUME BoundsAssumption == /\ MaxRemotes \in Nat /\ MaxLocals \in Nat
                           /\ MaxData \in Nat /\ MaxSends \in Nat
                           /\ MaxCloses \in Nat
ASSUME FailuresAssumption == /\ ConnectMayFail \in BOOLEAN
                             /\ AcceptMayFail \in BOOLEAN
                             /\ WriteMayFail \in BOOLEAN
                             /\ SpuriousEdges \in BOOLEAN

RemoteIds == 1 .. MaxRemotes
LocalIds == 1 .. MaxLocals
NoLocal == 0                       \* properties.local is None

Workers == 0 .. WorkerNum - 1      \* indices into NodeHandlerImpl.workers
Master == WorkerNum
Threads == Workers \cup {Master}

\* to_worker_index: the worker that serves a resource.
Worker(id) == id % WorkerNum

VARIABLES
    nextRemote, nextLocal,   \* the two ResourceIdGenerators
    queue,                   \* queue[t]: the command channel of thread t
    act,                     \* act[t]: the loop thread t is in, if any
    remotes,                 \* remotes[t]: keys of t's remote_registry
    locals,                  \* locals[t]: keys of t's local_registry
    ready,                   \* ready[r]: RemoteProperties.ready
    origin,                  \* origin[r]: RemoteProperties.local
    connectCb, listenCb,     \* fate of the callback of a connect / a listen
    events,                  \* events[r]: history of the NetEvents about r
    sends, written,          \* sends posted on r; those written whole, in order
    safeSends,               \* sends on an open endpoint nobody had closed
    closes, closesL,         \* close() calls on a remote / a local id
    sock,                    \* sock[r]: the OS socket of r (external)
    open,                    \* remote ids whose socket is open (external)
    backlog, demand,         \* connections not yet accepted; connections asked for
    poll, pollL              \* edges poll() will report, per thread

userVars == <<nextLocal, sends, safeSends, closes, closesL>>
osVars == <<sock, open, backlog, demand>>
regVars == <<remotes, locals, ready, origin>>
cbVars == <<connectCb, listenCb>>
vars == <<nextRemote, nextLocal, queue, act, remotes, locals, ready, origin,
          connectCb, listenCb, events, sends, written, safeSends, closes, closesL,
          sock, open, backlog, demand, poll, pollL>>

RemoteOps == {"AcceptRegister", "ConnectRegister", "Send", "Close"}
MasterOps == {"Listen", "Connect", "CloseLocal"}

\* WakerCommand: arg is the listener of an AcceptRegister and the number of
\* a Send, and 0 otherwise.
Command == [op : RemoteOps \cup MasterOps, id : Nat, arg : Nat]
Cmd(op, id, arg) == [op |-> op, id |-> id, arg |-> arg]

Idle == [op |-> "poll", id |-> 0]
Activity == [op : {"poll", "read", "accept"}, id : Nat]

OpeningEvents == {"Connected", "ConnectFail", "Accepted"}
ClosingEvents == {"ConnectFail", "Disconnected"}
NetEvent == OpeningEvents \cup ClosingEvents \cup {"Message"}

Socket == [conn : {"none", "connecting", "up", "refused"},
           unread : 0 .. MaxData,            \* chunks waiting in the OS
           sent : 0 .. MaxData,              \* chunks the peer has sent
           end : {"open", "closed", "reset"}]\* what the peer did with its end
NoSocket == [conn |-> "none", unread |-> 0, sent |-> 0, end |-> "open"]
FreshSocket(conn) == [NoSocket EXCEPT !.conn = conn]

UserTypeOK ==
    /\ nextRemote \in 1 .. MaxRemotes + 1
    /\ nextLocal \in 1 .. MaxLocals + 1
    /\ sends \in [RemoteIds -> 0 .. MaxSends]
    /\ safeSends \in [RemoteIds -> SUBSET Nat]
    /\ closes \in [RemoteIds -> 0 .. MaxCloses]
    /\ closesL \in [LocalIds -> 0 .. MaxCloses]

ThreadTypeOK ==
    /\ queue \in [Threads -> Seq(Command)]
    /\ act \in [Threads -> Activity]

RegistryTypeOK ==
    /\ remotes \in [Threads -> SUBSET RemoteIds]
    /\ locals \in [Threads -> SUBSET LocalIds]
    /\ ready \in [RemoteIds -> BOOLEAN]
    /\ origin \in [RemoteIds -> LocalIds \cup {NoLocal}]

OutputTypeOK ==
    /\ connectCb \in [RemoteIds -> {"none", "held", "called", "dropped"}]
    /\ listenCb \in [LocalIds -> {"none", "held", "ok", "err"}]
    /\ events \in [RemoteIds -> Seq(NetEvent)]
    /\ written \in [RemoteIds -> Seq(Nat)]

OsTypeOK ==
    /\ sock \in [RemoteIds -> Socket]
    /\ open \subseteq RemoteIds
    /\ backlog \in [LocalIds -> Nat]
    /\ demand \in Nat
    /\ poll \in [Threads -> SUBSET (RemoteIds \X {"R", "W"})]
    /\ pollL \in [Threads -> SUBSET LocalIds]

TypeOK == UserTypeOK /\ ThreadTypeOK /\ RegistryTypeOK /\ OutputTypeOK /\ OsTypeOK

Init ==
    /\ nextRemote = 1 /\ nextLocal = 1
    /\ queue = [t \in Threads |-> <<>>]
    /\ act = [t \in Threads |-> Idle]
    /\ remotes = [t \in Threads |-> {}]
    /\ locals = [t \in Threads |-> {}]
    /\ ready = [r \in RemoteIds |-> FALSE]
    /\ origin = [r \in RemoteIds |-> NoLocal]
    /\ connectCb = [r \in RemoteIds |-> "none"]
    /\ listenCb = [l \in LocalIds |-> "none"]
    /\ events = [r \in RemoteIds |-> <<>>]
    /\ sends = [r \in RemoteIds |-> 0]
    /\ written = [r \in RemoteIds |-> <<>>]
    /\ safeSends = [r \in RemoteIds |-> {}]
    /\ closes = [r \in RemoteIds |-> 0]
    /\ closesL = [l \in LocalIds |-> 0]
    /\ sock = [r \in RemoteIds |-> NoSocket]
    /\ open = {}
    /\ backlog = [l \in LocalIds |-> 0]
    /\ demand = 0
    /\ poll = [t \in Threads |-> {}]
    /\ pollL = [t \in Threads |-> {}]

-----------------------------------------------------------------------------
(* The users: any thread, at any time.  A user can only name an endpoint   *)
(* or a listener it has been told of: by the callback of its connect or    *)
(* listen, or by an Accepted event.                                        *)

KnownRemote(r) == connectCb[r] = "called" \/ events[r] # <<>>
KnownLocal(l) == listenCb[l] = "ok"

\* Slip: a command is posted before those already in the channel.
PostFront(q, t, c) == [q EXCEPT ![t] = <<c>> \o @]

\* NodeHandler::post and post_to_master.
Post(q, t, c) == [q EXCEPT ![t] = Append(@, c)]

\* connect_with: take a remote id, post Connect to the master.
UserConnect ==
    /\ demand < MaxRemotes
    /\ nextRemote <= MaxRemotes
    /\ nextRemote' = nextRemote + 1
    /\ demand' = demand + 1
    /\ connectCb' = [connectCb EXCEPT ![nextRemote] = "held"]
    /\ queue' = Post(queue, Master, Cmd("Connect", nextRemote, 0))
    /\ UNCHANGED <<userVars, act, regVars, listenCb, events, written,
                   sock, open, backlog, poll, pollL>>

\* listen_with: take a local id, post Listen to the master.
UserListen ==
    /\ nextLocal <= MaxLocals
    /\ nextLocal' = nextLocal + 1
    /\ listenCb' = [listenCb EXCEPT ![nextLocal] = "held"]
    /\ queue' = Post(queue, Master, Cmd("Listen", nextLocal, 0))
    /\ UNCHANGED <<nextRemote, sends, safeSends, closes, closesL, act, regVars, connectCb,
                   events, written, osVars, poll, pollL>>

\* send: post Send to the worker of the endpoint.
UserSend(r) ==
    /\ KnownRemote(r)
    /\ sends[r] < MaxSends
    /\ sends' = [sends EXCEPT ![r] = @ + 1]
    /\ safeSends' = IF events[r] # <<>> /\ closes[r] = 0
                    THEN [safeSends EXCEPT ![r] = @ \cup {sends[r] + 1}]
                    ELSE safeSends
    /\ queue' = Post(queue, Worker(r), Cmd("Send", r, sends[r] + 1))
    /\ UNCHANGED <<nextRemote, nextLocal, closes, closesL, act, regVars, cbVars,
                   events, written, osVars, poll, pollL>>

\* Slip: a close has priority over the commands posted before it.
UserCloseFirst(r) ==
    /\ KnownRemote(r)
    /\ closes[r] < MaxCloses
    /\ closes' = [closes EXCEPT ![r] = @ + 1]
    /\ queue' = PostFront(queue, Worker(r), Cmd("Close", r, 0))
    /\ UNCHANGED <<nextRemote, nextLocal, sends, safeSends, closesL, act, regVars, cbVars,
                   events, written, osVars, poll, pollL>>

\* close of a remote: to its worker.
UserClose(r) ==
    /\ KnownRemote(r)
    /\ closes[r] < MaxCloses
    /\ closes' = [closes EXCEPT ![r] = @ + 1]
    /\ queue' = Post(queue, Worker(r), Cmd("Close", r, 0))
    /\ UNCHANGED <<nextRemote, nextLocal, sends, safeSends, closesL, act, regVars, cbVars,
                   events, written, osVars, poll, pollL>>

\* close of a listener: to the master.
UserCloseLocal(l) ==
    /\ KnownLocal(l)
    /\ closesL[l] < MaxCloses
    /\ closesL' = [closesL EXCEPT ![l] = @ + 1]
    /\ queue' = Post(queue, Master, Cmd("CloseLocal", l, 0))
    /\ UNCHANGED <<nextRemote, nextLocal, sends, safeSends, closes, act, regVars, cbVars,
                   events, written, osVars, poll, pollL>>

User ==
    \/ UserConnect \/ UserListen
    \/ \E r \in RemoteIds : UserSend(r) \/ UserClose(r)
    \/ \E l \in LocalIds : UserCloseLocal(l)

-----------------------------------------------------------------------------
(* The commands, as the Waker arm of process_poll_event dispatches them.   *)

\* Thread t, between two poll events or inside the drain, takes a command.
Takes(t, op) == /\ act[t] = Idle
                /\ queue[t] # <<>>
                /\ Head(queue[t]).op = op
Rest(t) == [queue EXCEPT ![t] = Tail(@)]

\* LocalResource::listen_with: any step from socket() to listen() may fail.
ListenResults == {"ok", "err"}

\* process_listen: bind and listen; on success register, and in any case
\* call the callback.
DoListen(t) == LET c == Head(queue[t]) IN
    /\ Takes(t, "Listen")
    /\ queue' = Rest(t)
    /\ \E result \in ListenResults :
           /\ locals' = IF result = "ok" THEN [locals EXCEPT ![t] = @ \cup {c.id}]
                                         ELSE locals
           /\ listenCb' = [listenCb EXCEPT ![c.id] = result]
    /\ UNCHANGED <<nextRemote, userVars, act, remotes, ready, origin, connectCb,
                   events, written, osVars, poll, pollL>>

\* Slip: the thread that opens the connection keeps it.
DoConnectInPlace(t) == LET c == Head(queue[t]) IN
    /\ Takes(t, "Connect")
    /\ sock' = [sock EXCEPT ![c.id] = FreshSocket("connecting")]
    /\ open' = open \cup {c.id}
    /\ queue' = Post(Rest(t), t, Cmd("ConnectRegister", c.id, 0))
    /\ UNCHANGED <<nextRemote, userVars, act, regVars, cbVars, events, written,
                   backlog, demand, poll, pollL>>

\* Slip: the callback is called as soon as the socket is connecting.
DoConnectEarlyCallback(t) == LET c == Head(queue[t]) IN
    /\ Takes(t, "Connect")
    /\ sock' = [sock EXCEPT ![c.id] = FreshSocket("connecting")]
    /\ open' = open \cup {c.id}
    /\ queue' = Post(Rest(t), Worker(c.id), Cmd("ConnectRegister", c.id, 0))
    /\ connectCb' = [connectCb EXCEPT ![c.id] = "called"]
    /\ UNCHANGED <<nextRemote, userVars, act, regVars, listenCb, events, written,
                   backlog, demand, poll, pollL>>

\* tcp_remote_connect_with: a socket whose connect is in progress or done, unless the OS
\* refuses it.
TcpRemoteConnectWith == {"connecting", "up"} \cup (IF ConnectMayFail THEN {"error"} ELSE {})

\* process_connect: start connecting; on success hand stream and callback
\* to the worker of the id, on error drop both.
DoConnect(t) == LET c == Head(queue[t]) IN
    /\ Takes(t, "Connect")
    /\ \/ /\ \E conn \in TcpRemoteConnectWith \ {"error"} :
                 sock' = [sock EXCEPT ![c.id] = FreshSocket(conn)]
          /\ open' = open \cup {c.id}
          /\ queue' = Post(Rest(t), Worker(c.id), Cmd("ConnectRegister", c.id, 0))
          /\ UNCHANGED connectCb
       \/ /\ "error" \in TcpRemoteConnectWith
          /\ connectCb' = [connectCb EXCEPT ![c.id] = "dropped"]
          /\ queue' = Rest(t)
          /\ UNCHANGED <<sock, open>>
    /\ UNCHANGED <<nextRemote, userVars, act, regVars, listenCb, events, written,
                   backlog, demand, poll, pollL>>

\* The edges of a socket when it is added to a poll.
Readable(s) == s.unread > 0 \/ s.end # "open" \/ s.conn = "refused"
Writable(s) == s.conn # "connecting"
Edges(r) == {e \in {r} \X {"R", "W"} :
                 IF e[2] = "R" THEN Readable(sock[r]) ELSE Writable(sock[r])}

\* remote_registry.register, with write readiness.
Register(t, r, local) ==
    /\ remotes' = [remotes EXCEPT ![t] = @ \cup {r}]
    /\ ready' = [ready EXCEPT ![r] = FALSE]
    /\ origin' = [origin EXCEPT ![r] = local]
    /\ poll' = [poll EXCEPT ![t] = @ \cup Edges(r)]

\* process_accept_register_remote: the callback passed is empty.
DoAcceptRegister(t) == LET c == Head(queue[t]) IN
    /\ Takes(t, "AcceptRegister")
    /\ queue' = Rest(t)
    /\ Register(t, c.id, c.arg)
    /\ UNCHANGED <<nextRemote, userVars, act, locals, cbVars, events, written,
                   osVars, pollL>>

\* Slip: the user's callback is forgotten.
DoConnectRegisterSilently(t) == LET c == Head(queue[t]) IN
    /\ Takes(t, "ConnectRegister")
    /\ queue' = Rest(t)
    /\ Register(t, c.id, NoLocal)
    /\ UNCHANGED <<nextRemote, userVars, act, locals, cbVars, events, written,
                   osVars, pollL>>

\* process_connect_register_remote: register, then the user's callback.
DoConnectRegister(t) == LET c == Head(queue[t]) IN
    /\ Takes(t, "ConnectRegister")
    /\ queue' = Rest(t)
    /\ Register(t, c.id, NoLocal)
    /\ connectCb' = [connectCb EXCEPT ![c.id] = "called"]
    /\ UNCHANGED <<nextRemote, userVars, act, locals, listenCb, events, written,
                   osVars, pollL>>

\* RemoteResource::send: the write loop writes all of the data, unless a write
\* fails or the loop is given up after 1000 tries.
SendResults(r) ==
    IF sock[r].end = "reset" THEN {"failed"}
    ELSE IF WriteMayFail THEN {"sent", "failed"} ELSE {"sent"}

\* process_send: the write loop, for a remote that is found and ready.
DoSend(t) == LET c == Head(queue[t]) IN
    /\ Takes(t, "Send")
    /\ queue' = Rest(t)
    /\ \E result \in IF c.id \in remotes[t] /\ ready[c.id] THEN SendResults(c.id)
                                                           ELSE {"notFound"} :
           written' = IF result = "sent" THEN [written EXCEPT ![c.id] = Append(@, c.arg)]
                                         ELSE written
    /\ UNCHANGED <<nextRemote, userVars, act, regVars, cbVars, events, osVars,
                   poll, pollL>>

\* remote_registry.deregister; the last reference closes the socket.
Deregister(t, r) ==
    /\ remotes' = [remotes EXCEPT ![t] = @ \ {r}]
    /\ open' = IF r \in remotes[t] THEN open \ {r} ELSE open

\* process_close of a remote.
DoClose(t) == LET c == Head(queue[t]) IN
    /\ Takes(t, "Close")
    /\ queue' = Rest(t)
    /\ Deregister(t, c.id)
    /\ UNCHANGED <<nextRemote, userVars, act, locals, ready, origin, cbVars, events,
                   written, sock, backlog, demand, poll, pollL>>

\* process_close of a listener: connections not yet accepted die with it.
DoCloseLocal(t) == LET c == Head(queue[t]) IN
    /\ Takes(t, "CloseLocal")
    /\ queue' = Rest(t)
    /\ locals' = [locals EXCEPT ![t] = @ \ {c.id}]
    /\ backlog' = IF c.id \in locals[t] THEN [backlog EXCEPT ![c.id] = 0] ELSE backlog
    /\ UNCHANGED <<nextRemote, userVars, act, remotes, ready, origin, cbVars, events,
                   written, sock, open, demand, poll, pollL>>

DoCommand(t) ==
    \/ DoListen(t) \/ DoConnect(t) \/ DoAcceptRegister(t) \/ DoConnectRegister(t)
    \/ DoSend(t) \/ DoClose(t) \/ DoCloseLocal(t)

-----------------------------------------------------------------------------
(* The network events of a thread's poll.                                  *)

Emit(r, e) == events' = [events EXCEPT ![r] = Append(@, e)]

\* check_tcp_stream_ready: SO_ERROR, then peer_addr().
Pending(r) ==
    CASE sock[r].conn = "refused" \/ sock[r].end = "reset" -> "Disconnected"
      [] sock[r].conn = "connecting" -> "Incomplete"
      [] OTHER -> "Ready"

\* Slip: a resource that turned out ready is not marked as ready.
ResolvePendingUnmarked(t, r) ==
    /\ Pending(r) = "Ready"
    /\ Emit(r, IF origin[r] = NoLocal THEN "Connected" ELSE "Accepted")
    /\ UNCHANGED <<ready, remotes, open>>

\* resolve_pending_remote: the new value of ready, the event and the
\* registry for every status of the pending resource.
ResolvePending(t, r) ==
    \/ /\ Pending(r) = "Ready"
       /\ ready' = [ready EXCEPT ![r] = TRUE]
       /\ Emit(r, IF origin[r] = NoLocal THEN "Connected" ELSE "Accepted")
       /\ UNCHANGED <<remotes, open>>
    \/ /\ Pending(r) = "Incomplete"
       /\ UNCHANGED <<ready, events, remotes, open>>
    \/ /\ Pending(r) = "Disconnected"
       /\ Deregister(t, r)
       /\ IF origin[r] = NoLocal THEN Emit(r, "ConnectFail") ELSE UNCHANGED events
       /\ UNCHANGED ready

\* Slip: an event is served without looking the id up in the registry.
ProcessReadStale(t, r) ==
    /\ act[t] = Idle
    /\ <<r, "R">> \in poll[t]
    /\ poll' = [poll EXCEPT ![t] = @ \ {<<r, "R">>}]
    /\ IF ~ready[r] THEN ResolvePending(t, r) ELSE UNCHANGED <<ready, events, remotes, open>>
    /\ act' = IF ready'[r] THEN [act EXCEPT ![t] = [op |-> "read", id |-> r]] ELSE act
    /\ UNCHANGED <<nextRemote, userVars, queue, locals, origin, cbVars, written,
                   sock, backlog, demand, pollL>>

\* Slip: the event that resolves a pending remote is used up by that.
ProcessReadResolveOnly(t, r) ==
    /\ act[t] = Idle
    /\ <<r, "R">> \in poll[t]
    /\ poll' = [poll EXCEPT ![t] = @ \ {<<r, "R">>}]
    /\ IF r \in remotes[t] /\ ~ready[r]
       THEN ResolvePending(t, r)
       ELSE UNCHANGED <<ready, events, remotes, open>>
    /\ act' = IF r \in remotes[t] /\ ready[r]
              THEN [act EXCEPT ![t] = [op |-> "read", id |-> r]]
              ELSE act
    /\ UNCHANGED <<nextRemote, userVars, queue, locals, origin, cbVars, written,
                   sock, backlog, demand, pollL>>

\* process_read of a remote: resolve it if it is pending; once it is ready,
\* enter the receive loop.  An event for an id that is gone does nothing.
ProcessRead(t, r) ==
    /\ act[t] = Idle
    /\ <<r, "R">> \in poll[t]
    /\ poll' = [poll EXCEPT ![t] = @ \ {<<r, "R">>}]
    /\ IF r \in remotes[t] /\ ~ready[r]
       THEN ResolvePending(t, r)
       ELSE UNCHANGED <<ready, events, remotes, open>>
    /\ act' = IF r \in remotes[t] /\ ready'[r]
              THEN [act EXCEPT ![t] = [op |-> "read", id |-> r]]
              ELSE act
    /\ UNCHANGED <<nextRemote, userVars, queue, locals, origin, cbVars, written,
                   sock, backlog, demand, pollL>>

\* Slip: a write event of a pending remote is not used to resolve it.
ProcessWriteIgnored(t, r) ==
    /\ act[t] = Idle
    /\ <<r, "W">> \in poll[t]
    /\ poll' = [poll EXCEPT ![t] = @ \ {<<r, "W">>}]
    /\ UNCHANGED <<nextRemote, userVars, queue, act, regVars, cbVars, events, written,
                   osVars, pollL>>

\* process_write of a remote: resolve it if it is pending.  A ready TCP
\* remote has nothing to write: ready_to_write() is true.
ProcessWrite(t, r) ==
    /\ act[t] = Idle
    /\ <<r, "W">> \in poll[t]
    /\ poll' = [poll EXCEPT ![t] = @ \ {<<r, "W">>}]
    /\ IF r \in remotes[t] /\ ~ready[r]
       THEN ResolvePending(t, r)
       ELSE UNCHANGED <<ready, events, remotes, open>>
    /\ UNCHANGED <<nextRemote, userVars, queue, act, locals, origin, cbVars, written,
                   sock, backlog, demand, pollL>>

\* RemoteResource::receive: what the next read() may find.  Data that has
\* arrived is found before the end of the stream; a reset may overtake it.
ReadResults(r) ==
    (IF sock[r].unread > 0 THEN {"data"} ELSE {})
    \cup (IF sock[r].unread = 0 /\ sock[r].end = "open" THEN {"wouldBlock"} ELSE {})
    \cup (IF (sock[r].unread = 0 /\ sock[r].end = "closed") \/ sock[r].end = "reset"
          THEN {"end"} ELSE {})

\* Slip: the result of read() is taken for data without being looked at.
ReadDataUnchecked(t) ==
    LET r == act[t].id IN
    /\ act[t].op = "read"
    /\ sock' = [sock EXCEPT ![r].unread = @ - 1]
    /\ Emit(r, "Message")
    /\ UNCHANGED <<nextRemote, userVars, queue, act, regVars, cbVars, written,
                   open, backlog, demand, poll, pollL>>

\* Slip: one read() per event, as if the poll were level triggered.
ReadDataOnce(t) ==
    LET r == act[t].id IN
    /\ act[t].op = "read"
    /\ sock[r].unread > 0
    /\ sock' = [sock EXCEPT ![r].unread = @ - 1]
    /\ act' = [act EXCEPT ![t] = Idle]
    /\ Emit(r, "Message")
    /\ UNCHANGED <<nextRemote, userVars, queue, regVars, cbVars, written,
                   open, backlog, demand, poll, pollL>>

\* receive(): read() returned data.
ReadData(t) ==
    LET r == act[t].id IN
    /\ act[t].op = "read"
    /\ "data" \in ReadResults(r)
    /\ sock' = [sock EXCEPT ![r].unread = @ - 1]
    /\ Emit(r, "Message")
    /\ UNCHANGED <<nextRemote, userVars, queue, act, regVars, cbVars, written,
                   open, backlog, demand, poll, pollL>>

\* receive(): read() would block.
ReadWouldBlock(t) ==
    LET r == act[t].id IN
    /\ act[t].op = "read"
    /\ "wouldBlock" \in ReadResults(r)
    /\ act' = [act EXCEPT ![t] = Idle]
    /\ UNCHANGED <<nextRemote, userVars, queue, regVars, cbVars, events, written,
                   osVars, poll, pollL>>

\* Slip: the disconnection is reported, but the resource stays registered.
ReadEndKept(t) ==
    LET r == act[t].id IN
    /\ act[t].op = "read"
    /\ "end" \in ReadResults(r)
    /\ act' = [act EXCEPT ![t] = Idle]
    /\ Emit(r, "Disconnected")
    /\ UNCHANGED <<nextRemote, userVars, queue, regVars, cbVars, written,
                   osVars, poll, pollL>>

\* Slip: a closed peer is noticed before its data has been read.
ReadEndEarly(t) ==
    LET r == act[t].id IN
    /\ act[t].op = "read"
    /\ sock[r].end # "open"
    /\ act' = [act EXCEPT ![t] = Idle]
    /\ Deregister(t, r)
    /\ IF r \in remotes[t] THEN Emit(r, "Disconnected") ELSE UNCHANGED events
    /\ UNCHANGED <<nextRemote, userVars, queue, locals, ready, origin, cbVars, written,
                   sock, backlog, demand, poll, pollL>>

\* receive(): end of file or an error; then read_from_remote removes the
\* resource and, if it was there, reports the disconnection.
ReadEnd(t) ==
    LET r == act[t].id IN
    /\ act[t].op = "read"
    /\ "end" \in ReadResults(r)
    /\ act' = [act EXCEPT ![t] = Idle]
    /\ Deregister(t, r)
    /\ IF r \in remotes[t] THEN Emit(r, "Disconnected") ELSE UNCHANGED events
    /\ UNCHANGED <<nextRemote, userVars, queue, locals, ready, origin, cbVars, written,
                   sock, backlog, demand, poll, pollL>>

\* process_read of a listener: enter the accept loop.
ProcessAccept(t, l) ==
    /\ act[t] = Idle
    /\ l \in pollL[t]
    /\ pollL' = [pollL EXCEPT ![t] = @ \ {l}]
    /\ act' = IF l \in locals[t]
              THEN [act EXCEPT ![t] = [op |-> "accept", id |-> l]]
              ELSE act
    /\ UNCHANGED <<nextRemote, userVars, queue, regVars, cbVars, events, written,
                   osVars, poll>>

\* Slip: one accept() per event, as if the poll were level triggered.
AcceptOneAndStop(t) ==
    LET l == act[t].id IN
    /\ act[t].op = "accept"
    /\ backlog[l] > 0
    /\ nextRemote <= MaxRemotes
    /\ backlog' = [backlog EXCEPT ![l] = @ - 1]
    /\ nextRemote' = nextRemote + 1
    /\ sock' = [sock EXCEPT ![nextRemote] = FreshSocket("up")]
    /\ open' = open \cup {nextRemote}
    /\ queue' = Post(queue, Worker(nextRemote), Cmd("AcceptRegister", nextRemote, l))
    /\ act' = [act EXCEPT ![t] = Idle]
    /\ UNCHANGED <<userVars, regVars, cbVars, events, written, demand, poll, pollL>>

\* accept() returned a connection: give it an id and hand it to the worker
\* of that id (read_from_local).
AcceptOne(t) ==
    LET l == act[t].id IN
    /\ act[t].op = "accept"
    /\ backlog[l] > 0
    /\ nextRemote <= MaxRemotes
    /\ backlog' = [backlog EXCEPT ![l] = @ - 1]
    /\ nextRemote' = nextRemote + 1
    /\ sock' = [sock EXCEPT ![nextRemote] = FreshSocket("up")]
    /\ open' = open \cup {nextRemote}
    /\ queue' = Post(queue, Worker(nextRemote), Cmd("AcceptRegister", nextRemote, l))
    /\ UNCHANGED <<userVars, act, regVars, cbVars, events, written, demand, poll, pollL>>

\* accept() would block, or failed: the loop ends either way.
AcceptEnd(t) ==
    LET l == act[t].id IN
    /\ act[t].op = "accept"
    /\ backlog[l] = 0 \/ AcceptMayFail
    /\ act' = [act EXCEPT ![t] = Idle]
    /\ UNCHANGED <<nextRemote, userVars, queue, regVars, cbVars, events, written,
                   osVars, poll, pollL>>

Thread(t) ==
    \/ DoCommand(t)
    \/ \E r \in RemoteIds : ProcessRead(t, r) \/ ProcessWrite(t, r)
    \/ \E l \in LocalIds : ProcessAccept(t, l)
    \/ ReadData(t) \/ ReadWouldBlock(t) \/ ReadEnd(t)
    \/ AcceptOne(t) \/ AcceptEnd(t)

-----------------------------------------------------------------------------
(* The OS and the peers (external).  An edge is recorded in the poll the   *)
(* socket is registered with, if it is registered.                         *)

Edge(r, kinds) ==
    poll' = [t \in Threads |->
                IF r \in remotes[t] THEN poll[t] \cup ({r} \X kinds) ELSE poll[t]]

libVars == <<nextRemote, userVars, queue, act, regVars, cbVars, events, written>>

SockConnected(r) ==
    /\ r \in open /\ sock[r].conn = "connecting"
    /\ sock' = [sock EXCEPT ![r].conn = "up"]
    /\ Edge(r, {"W"})
    /\ UNCHANGED <<libVars, open, backlog, demand, pollL>>

SockRefused(r) ==
    /\ r \in open /\ sock[r].conn = "connecting"
    /\ sock' = [sock EXCEPT ![r].conn = "refused"]
    /\ Edge(r, {"R", "W"})
    /\ UNCHANGED <<libVars, open, backlog, demand, pollL>>

\* mio may report a readiness that is not there.
SpuriousEdge(r, kind) ==
    /\ SpuriousEdges
    /\ \E t \in Threads : r \in remotes[t]
    /\ Edge(r, {kind})
    /\ UNCHANGED <<libVars, osVars, pollL>>

PeerSend(r) ==
    /\ r \in open /\ sock[r].conn = "up" /\ sock[r].end = "open"
    /\ sock[r].sent < MaxData
    /\ sock' = [sock EXCEPT ![r].sent = @ + 1, ![r].unread = @ + 1]
    /\ Edge(r, {"R"})
    /\ UNCHANGED <<libVars, open, backlog, demand, pollL>>

PeerClose(r) ==
    /\ r \in open /\ sock[r].conn = "up" /\ sock[r].end = "open"
    /\ sock' = [sock EXCEPT ![r].end = "closed"]
    /\ Edge(r, {"R"})
    /\ UNCHANGED <<libVars, open, backlog, demand, pollL>>

PeerReset(r) ==
    /\ r \in open /\ sock[r].conn = "up" /\ sock[r].end # "reset"
    /\ sock' = [sock EXCEPT ![r].end = "reset"]
    /\ Edge(r, {"R", "W"})
    /\ UNCHANGED <<libVars, open, backlog, demand, pollL>>

\* A peer connects to a listener.
PeerConnect(l) ==
    /\ \E t \in Threads : l \in locals[t]
    /\ demand < MaxRemotes
    /\ demand' = demand + 1
    /\ backlog' = [backlog EXCEPT ![l] = @ + 1]
    /\ pollL' = [t \in Threads |->
                    IF l \in locals[t] THEN pollL[t] \cup {l} ELSE pollL[t]]
    /\ UNCHANGED <<libVars, sock, open, poll>>

OS == \/ \E r \in RemoteIds :
             \/ SockConnected(r) \/ SockRefused(r)
             \/ PeerSend(r) \/ PeerClose(r) \/ PeerReset(r)
             \/ \E kind \in {"R", "W"} : SpuriousEdge(r, kind)
      \/ \E l \in LocalIds : PeerConnect(l)

Next == User \/ OS \/ \E t \in Threads : Thread(t)

Spec == Init /\ [][Next]_vars

\* Every multiplexor thread keeps running its loop (the node is not stopped),
\* and a connect eventually succeeds or fails.  Users and peers owe nothing.
Fairness ==
    /\ \A t \in Threads : WF_vars(Thread(t))
    /\ \A r \in RemoteIds : WF_vars(SockConnected(r) \/ SockRefused(r))

FairSpec == Spec /\ Fairness

-----------------------------------------------------------------------------
(* Properties.                                                             *)

Registered(r) == \E t \in Threads : r \in remotes[t]
Ended(r) == \E i \in DOMAIN events[r] : events[r][i] \in ClosingEvents

\* The i-th command in t's channel carries the socket of r to its worker.
Carries(t, i, r) == /\ queue[t][i].op \in {"AcceptRegister", "ConnectRegister"}
                    /\ queue[t][i].id = r
Carried(r) == \E t \in Threads : \E i \in DOMAIN queue[t] : Carries(t, i, r)

\* Thread confinement, on which the lockless registries rest: a remote is
\* registered only with the thread that its commands are posted to, a
\* listener only with the master, and the resource a thread is reading from
\* or accepting on is still registered with it when the callback returns.
Confinement ==
    /\ \A t \in Threads : \A r \in remotes[t] : t = Worker(r)
    /\ \A t \in Threads : locals[t] # {} => t = Master
    /\ \A t \in Threads : act[t].op = "read" => act[t].id \in remotes[t] /\ ready[act[t].id]
    /\ \A t \in Threads : act[t].op = "accept" => act[t].id \in locals[t]

\* What net_event.rs promises of the events of one endpoint: it is opened
\* once, by Connected or Accepted, before any other event; nothing follows
\* a failed connect or a Disconnected.
EventOrder ==
    \A r \in RemoteIds : \A i \in DOMAIN events[r] :
        /\ events[r][i] \in OpeningEvents <=> i = 1
        /\ events[r][i] \in ClosingEvents => i = Len(events[r])
        /\ i = 1 => (events[r][i] = "Accepted" <=> origin[r] # NoLocal)

\* "When this event is received, the resource is considered already removed"
\* (net_event.rs, Disconnected): no thread still has it, its socket is
\* closed, and no registration of it is on its way.
EndedIsRemoved ==
    \A r \in RemoteIds : Ended(r) => ~Registered(r) /\ r \notin open /\ ~Carried(r)

\* An open socket has exactly one owner on its way from the thread that
\* made it to the worker that serves it: a registration command in one
\* channel, or an entry of one registry.  No socket leaks, none is shared.
SocketHasOneOwner ==
    \A r \in RemoteIds :
        /\ r \in open <=> Carried(r) \/ Registered(r)
        /\ ~(Carried(r) /\ Registered(r))
        /\ \A t, u \in Threads : r \in remotes[t] /\ r \in remotes[u] => t = u
        /\ \A t, u \in Threads : \A i \in DOMAIN queue[t], j \in DOMAIN queue[u] :
               Carries(t, i, r) /\ Carries(u, j, r) => t = u /\ i = j

\* A user can never overtake a registration: when a Send or a Close of an
\* endpoint is queued, the endpoint has been registered with that worker.
NoCommandBeforeRegistration ==
    \A t \in Threads : \A i \in DOMAIN queue[t] :
        queue[t][i].op \in {"Send", "Close"} => ~Carried(queue[t][i].id)

\* The callback of connect() runs, and so hands out the endpoint, before any
\* event about that endpoint.
CallbackBeforeEvents ==
    \A r \in RemoteIds :
        events[r] # <<>> /\ origin[r] = NoLocal => connectCb[r] = "called"

\* The places of r's history at which a chunk of data was handed over.
MessagesOf(r) == {i \in DOMAIN events[r] : events[r][i] = "Message"}

\* A peer that closes in an orderly way loses nothing: when its connection
\* is reported Disconnected, every chunk it sent has been reported first.
NoDataLost ==
    \A r \in RemoteIds :
        Ended(r) /\ sock[r].end = "closed"
            => Cardinality(MessagesOf(r)) = sock[r].sent

\* The sends on one endpoint are written in the order they were posted, none
\* twice.
SendsInOrder ==
    \A r \in RemoteIds : \A i, j \in DOMAIN written[r] :
        i < j => written[r][i] < written[r][j]

\* close() lets earlier sends through: when a connection that was opened has
\* been removed by close() and not by its peer, everything sent on it after
\* it was reported open and before close() has been written (a reset or a
\* failing write aside).
CloseAfterSends ==
    \A r \in RemoteIds :
        /\ events[r] # <<>> /\ r \notin open /\ ~Ended(r)
        /\ sock[r].end # "reset" /\ ~WriteMayFail
        => \A n \in safeSends[r] : \E i \in DOMAIN written[r] : written[r][i] = n

\* Events are only about resources that are registered when the event is
\* handed out: after a close has been carried out the endpoint is silent
\* ("Remove explicitely a resource will NOT generate the event").
EventsOnlyWhileRegistered ==
    [][\A r \in RemoteIds : events'[r] # events[r] => Registered(r)]_vars

\* Ids are used once: a resource that has left every registry never returns.
NeverRegisteredAgain ==
    [][\A r \in RemoteIds : ~Registered(r) /\ Registered(r)' => events[r] = <<>> /\ r \in open]_vars

\* What a user relies on for one endpoint: its events come in the order net_event.rs
\* promises, and after the callback that hands out the endpoint.
EndpointProtocol == EventOrder /\ CallbackBeforeEvents

\* Who holds a connection on its way from the thread that opens it to the worker that
\* serves it and to its end: one owner while the socket is open, none afterwards, and
\* no command of its user ahead of it.
Ownership == SocketHasOneOwner /\ EndedIsRemoved /\ NoCommandBeforeRegistration

\* What was removed is silent from then on and for good, although events of it may
\* still be in a poll batch and commands for it in a channel.
SilentOnceGone == EventsOnlyWhileRegistered /\ NeverRegisteredAgain

\* A connect whose callback was told the endpoint gets its Connected event,
\* true or false, unless the user closes it first.
ConnectResolved ==
    \A r \in RemoteIds :
        connectCb[r] = "called" ~> events[r] # <<>> \/ closes[r] > 0

\* Edge-triggered reading stalls nobody: data for a registered remote is
\* read to the end, or the remote is removed.
DataDelivered ==
    \A r \in RemoteIds :
        Registered(r) /\ sock[r].unread > 0 ~> sock[r].unread = 0 \/ ~Registered(r)

\* A connection its peer has ended is given up, wherever it was on its way.
EndedSocketReclaimed ==
    \A r \in RemoteIds : r \in open /\ sock[r].end # "open" ~> r \notin open

\* A connection in a listener's backlog is accepted, or its listener closed.
BacklogServed ==
    \A l \in LocalIds : backlog[l] > 0 ~> backlog[l] = 0
=============================================================================
