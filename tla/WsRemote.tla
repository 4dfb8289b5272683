------------------------------ MODULE WsRemote ------------------------------
(***************************************************************************)
(* Opening a WebSocket connection (adapters/ws): the two remotes of one    *)
(* connection, from connect and listen to the end of the HTTP handshake.   *)
(* The client writes a request and reads a response, the server reads and  *)
(* then writes; both do so inside pending(), a round at a time, each time  *)
(* the poll reports an edge of a remote that is not ready.                 *)
(*                                                                         *)
(* A worker never waits in these calls, so it does not matter whether one  *)
(* thread serves both ends.  The request is a number of pieces; sockets    *)
(* and the poll are external.  What an open WebSocket does is the subject  *)
(* of WebSocketContext.                                                    *)
(***************************************************************************)
EXTENDS Integers, Sequences

CONSTANTS RequestLen,  \* pieces of an HTTP request, and of a response
          SendBuf      \* pieces the sending side of a socket holds

ASSUME WsConstants == RequestLen \in Nat \ {0} /\ SendBuf \in Nat \ {0}

\* What a RemoteAddr may be besides something that is no URL, or has no host or port:
\* a socket address or a ws or wss URL, or a URL of another scheme.
Addresses == {"ws", "otherScheme"}

VARIABLES
    master,    \* the master thread: "up" or "panicked"
    chan,      \* chan[t]: commands for the master, and for the worker of an end
    closed,    \* the client's user has closed it
    answer,    \* the connect callback: "none", "waiting", "called" or "dropped"
    address,   \* the address of the connection that is being opened
    listener,  \* "none", "on" or "closed"
    backlog,   \* a connection waits to be accepted
    tcp,       \* the client's socket: "none", "connecting", "up" or "refused"
    reset,     \* the connection has been reset
    reg,       \* reg[e]: e is in its worker's registry
    ready,     \* ready[e]: RemoteProperties::ready
    state,     \* state[e]: RemoteState; left is the length of the machine's packet
    act,       \* act[e]: what e's worker is doing for e: "idle", at the call of
               \* "pending", in the loop of "handshake", "panicked"
    buf,       \* buf[e]: pieces e's socket has taken and not yet sent
    got,       \* got[e]: pieces that have arrived at e's socket
    shut,      \* shut[e]: e's socket has been closed
    polls,     \* polls[e]: edges the poll has to report for e
    events     \* history: the NetEvents of e

netVars == <<backlog, tcp, reset, buf, got, shut>>
endVars == <<reg, ready, state, act, events>>
vars == <<master, chan, closed, answer, address, listener, netVars, endVars, polls>>

Ends == {"client", "server"}
Peer(e) == IF e = "client" THEN "server" ELSE "client"

\* RemoteState and PendingHandshake.
S(st, left) == [st |-> st, left |-> left]
States == [st : {"none", "connect", "accept", "write", "read", "websocket", "error"},
           left : 0 .. RequestLen]

Init ==
    /\ master = "up" /\ listener = "none" /\ closed = FALSE /\ answer = "none" /\ address = "none"
    /\ chan = [t \in Ends \cup {"master"} |-> <<>>]
    /\ tcp = "none" /\ backlog = FALSE /\ reset = FALSE
    /\ reg = [e \in Ends |-> FALSE] /\ ready = [e \in Ends |-> FALSE]
    /\ state = [e \in Ends |-> S("none", 0)] /\ act = [e \in Ends |-> "idle"]
    /\ buf = [e \in Ends |-> <<>>] /\ got = [e \in Ends |-> <<>>]
    /\ shut = [e \in Ends |-> FALSE] /\ polls = [e \in Ends |-> {}]
    /\ events = [e \in Ends |-> <<>>]

Post(t, c) == chan' = [chan EXCEPT ![t] = Append(@, c)]
Taken(t, c) == chan[t] # <<>> /\ Head(chan[t]) = c
Take(t) == chan' = [chan EXCEPT ![t] = Tail(@)]
Posted(t, c) == \E i \in DOMAIN chan[t] : chan[t][i] = c

Emit(e, ev) == events' = [events EXCEPT ![e] = Append(@, ev)]

\* Edges the poll reports of sockets that are registered.
Raise(edges) == polls' = [e \in Ends |-> IF reg[e] THEN polls[e] \cup edges[e] ELSE polls[e]]

-----------------------------------------------------------------------------
(* The users.                                                              *)

UserListen ==
    /\ listener = "none" /\ ~Posted("master", "listen")
    /\ Post("master", "listen")
    /\ UNCHANGED <<master, closed, answer, address, listener, netVars, endVars, polls>>

UserConnect(a) ==
    /\ answer = "none" /\ answer' = "waiting" /\ address' = a
    /\ Post("master", "connect")
    /\ UNCHANGED <<master, closed, listener, netVars, endVars, polls>>

\* Another user connects to something that is no URL.
UserConnectBadUrl ==
    /\ master = "up" /\ ~Posted("master", "connectBadUrl")
    /\ Post("master", "connectBadUrl")
    /\ UNCHANGED <<master, closed, answer, address, listener, netVars, endVars, polls>>

UserCloseListener ==
    /\ listener = "on" /\ ~Posted("master", "close")
    /\ Post("master", "close")
    /\ UNCHANGED <<master, closed, answer, address, listener, netVars, endVars, polls>>

\* Only the client's user knows an endpoint (from the callback): a server's would
\* learn it from Accepted.  One send waits at a time.
UserSend ==
    /\ answer = "called" /\ ~Posted("client", "send")
    /\ Post("client", "send")
    /\ UNCHANGED <<master, closed, answer, address, listener, netVars, endVars, polls>>

UserClose ==
    /\ answer = "called" /\ ~closed
    /\ closed' = TRUE /\ Post("client", "close")
    /\ UNCHANGED <<master, answer, address, listener, netVars, endVars, polls>>

-----------------------------------------------------------------------------
(* The master: WsDriver::process_listen, process_connect, process_close and *)
(* read_from_local.                                                         *)

\* The listener is dropped: a connection that waits in its backlog is reset.
CloseListener ==
    /\ listener' = IF listener = "on" THEN "closed" ELSE listener
    /\ backlog' = FALSE /\ reset' = (reset \/ backlog)
    /\ Raise([e \in Ends |-> IF backlog THEN {"read", "write"} ELSE {}])

\* What becomes of a listener: its socket may fail to open, bind or listen.
ListenWith == {"on", "closed"}

DoListen ==
    /\ master = "up" /\ Taken("master", "listen") /\ Take("master")
    /\ listener' \in ListenWith
    /\ UNCHANGED <<master, closed, answer, address, netVars, endVars, polls>>

\* ws_remote_connect_with opens a connecting socket, or fails.
ConnectWith == {"connecting", "none"}

\* process_connect: the socket goes to the client's worker; without one the callback is
\* dropped uncalled.
DoConnect ==
    /\ master = "up" /\ Taken("master", "connect")
    /\ tcp' \in ConnectWith
    /\ IF tcp' = "connecting"
       THEN /\ chan' = [chan EXCEPT !["master"] = Tail(@), !["client"] = Append(@, "register")]
            /\ UNCHANGED answer
       ELSE Take("master") /\ answer' = "dropped"
    /\ UNCHANGED <<master, closed, address, listener, backlog, reset, buf, got, shut, endVars, polls>>

\* process_connect of what is no URL: expect or unwrap panics, and the master's
\* drivers are dropped.
DoConnectBadUrl ==
    /\ master = "up" /\ Taken("master", "connectBadUrl") /\ Take("master")
    /\ master' = "panicked" /\ CloseListener
    /\ UNCHANGED <<closed, answer, address, tcp, buf, got, shut, endVars>>

DoCloseListener ==
    /\ master = "up" /\ Taken("master", "close") /\ Take("master")
    /\ CloseListener
    /\ UNCHANGED <<master, closed, answer, address, tcp, buf, got, shut, endVars>>

\* The accept loop of the listener: up to WouldBlock it takes what waits.
AcceptedType == listener = "on" /\ backlog

\* read_from_local: the stream that was accepted goes to its worker.
Accept ==
    /\ master = "up" /\ AcceptedType
    /\ backlog' = FALSE /\ Post("server", "register")
    /\ UNCHANGED <<master, closed, answer, address, listener, tcp, reset, buf, got, shut, endVars, polls>>

-----------------------------------------------------------------------------
(* The workers.                                                            *)

IsIdle(e) == act[e] = "idle"

\* What the poll reports of a socket when it is added.
ReadyEdges(e) ==
    (IF e = "server" \/ tcp # "connecting" THEN {"write"} ELSE {})
    \cup (IF got[e] # <<>> \/ shut[Peer(e)] \/ reset \/ (e = "client" /\ tcp = "refused")
          THEN {"read"} ELSE {})

\* process_connect_register_remote and process_accept_register_remote.
DoRegister(e) ==
    /\ IsIdle(e) /\ Taken(e, "register") /\ Take(e)
    /\ reg' = [reg EXCEPT ![e] = TRUE]
    /\ state' = [state EXCEPT ![e] = S(IF e = "client" THEN "connect" ELSE "accept", 0)]
    /\ polls' = [polls EXCEPT ![e] = ReadyEdges(e)]
    /\ answer' = IF e = "client" THEN "called" ELSE answer
    /\ UNCHANGED <<master, closed, address, listener, netVars, ready, act, events>>

\* process_send: a remote that is not ready is ResourceNotAvailable; send on one
\* that is still in its handshake, or failed, would be unreachable!().
DoSend(e) ==
    /\ IsIdle(e) /\ Taken(e, "send") /\ Take(e)
    /\ act' = IF reg[e] /\ ready[e] /\ state[e].st # "websocket"
              THEN [act EXCEPT ![e] = "panicked"] ELSE act
    /\ UNCHANGED <<master, closed, answer, address, listener, netVars, reg, ready, state, events, polls>>

\* deregister: the last reference to the resource goes, and closes the socket.
Deregister(e) ==
    /\ reg' = [reg EXCEPT ![e] = FALSE]
    /\ shut' = [shut EXCEPT ![e] = @ \/ reg[e]]
    /\ polls' = [p \in Ends |-> CASE p = e -> {}
                                  [] p # e /\ reg[e] /\ reg[p] -> {"read", "write"}
                                  [] OTHER -> polls[p]]

\* process_close.
DoClose(e) ==
    /\ IsIdle(e) /\ Taken(e, "close") /\ Take(e)
    /\ Deregister(e)
    /\ UNCHANGED <<master, closed, answer, address, listener, backlog, tcp, reset, buf, got,
                   ready, state, act, events>>

\* resolve_pending_remote, for each PendingStatus.
Incomplete(e) ==
    /\ act' = [act EXCEPT ![e] = "idle"]
    /\ UNCHANGED <<reg, ready, shut, polls, events>>

\* Slip: the remote is left in the registry.
DisconnectedKept(e) ==
    /\ act' = [act EXCEPT ![e] = "idle"]
    /\ IF e = "client" THEN Emit(e, "ConnectFail") ELSE UNCHANGED events
    /\ UNCHANGED <<reg, ready, shut, polls>>

\* Slip: the user is told only of a connection that had been accepted.
DisconnectedSilent(e) ==
    /\ act' = [act EXCEPT ![e] = "idle"]
    /\ Deregister(e)
    /\ IF e = "server" THEN Emit(e, "ConnectFail") ELSE UNCHANGED events
    /\ UNCHANGED ready

Disconnected(e) ==
    /\ act' = [act EXCEPT ![e] = "idle"]
    /\ Deregister(e)
    /\ IF e = "client" THEN Emit(e, "ConnectFail") ELSE UNCHANGED events
    /\ UNCHANGED ready

Ready(e) ==
    /\ act' = [act EXCEPT ![e] = "idle"]
    /\ ready' = [ready EXCEPT ![e] = TRUE]
    /\ Emit(e, IF e = "client" THEN "Connected" ELSE "Accepted")
    /\ UNCHANGED <<reg, shut, polls>>

\* unreachable!().
Unreachable(e) ==
    /\ act' = [act EXCEPT ![e] = "panicked"]
    /\ UNCHANGED <<reg, ready, shut, polls, events>>

\* MidHandshake::handshake is called.
Handshake(e) ==
    /\ act' = [act EXCEPT ![e] = "handshake"]
    /\ UNCHANGED <<reg, ready, shut, polls, events>>

\* HandshakeMachine::start_read and start_write: reading begins with an empty packet.
StartRead == S("read", 0)
StartWrite(data) == S("write", data)

\* The lengths of what generate_request and write_response make.
GenerateRequest == RequestLen
WriteResponse == RequestLen

\* Slip: the error of the socket is not taken, and its peer_addr is NotConnected.
TcpStatusNoError == IF tcp \in {"refused", "connecting"} \/ reset THEN "Incomplete" ELSE "Ready"

\* check_tcp_stream_ready of the client's socket.
TcpStatus == CASE tcp = "refused" \/ reset -> "Disconnected"
               [] tcp = "connecting" -> "Incomplete"
               [] OTHER -> "Ready"

\* HandshakeError::Failure.
Failure(e) == state' = [state EXCEPT ![e] = S("error", 0)] /\ Disconnected(e)

\* uri_mode: ws and wss, and nothing else.
UriMode(a) == a = "ws"

\* ws_connect: ClientHandshake::start, then the loop.
WsConnect(e) ==
    IF UriMode(address)
    THEN /\ state' = [state EXCEPT ![e] = StartWrite(GenerateRequest)]
         /\ Handshake(e)
    ELSE Failure(e)

\* ws_accept: ServerHandshake::start.
WsAccept(e) ==
    /\ state' = [state EXCEPT ![e] = StartRead]
    /\ Handshake(e)

\* pending(), up to the handshake's loop.
Pending(e) ==
    /\ act[e] = "pending"
    /\ UNCHANGED <<master, closed, chan, answer, address, listener, backlog, tcp, reset, buf, got>>
    /\ CASE state[e].st = "connect" /\ TcpStatus = "Ready" -> WsConnect(e)
         [] state[e].st = "connect" /\ TcpStatus = "Incomplete" -> Incomplete(e) /\ UNCHANGED state
         [] state[e].st = "connect" /\ TcpStatus = "Disconnected" -> Disconnected(e) /\ UNCHANGED state
         [] state[e].st = "accept" -> WsAccept(e)
         [] state[e].st \in {"read", "write"} -> Handshake(e) /\ UNCHANGED state
         [] state[e].st = "websocket" -> Ready(e) /\ UNCHANGED state
         [] state[e].st = "error" -> Unreachable(e) /\ UNCHANGED state

\* An edge the poll reports.
Edge(e, k) ==
    /\ IsIdle(e) /\ reg[e] /\ k \in polls[e]
    /\ polls' = [polls EXCEPT ![e] = @ \ {k}]
    /\ UNCHANGED <<master, closed, chan, answer, address, listener, netVars, reg, ready, state, events>>

\* process_read: a remote that is not ready is resolved (one that is, is read from).
ProcessRead(e) ==
    /\ Edge(e, "read")
    /\ act' = IF ready[e] THEN act ELSE [act EXCEPT ![e] = "pending"]

\* process_write.
ProcessWrite(e) ==
    /\ Edge(e, "write")
    /\ act' = IF ready[e] THEN act ELSE [act EXCEPT ![e] = "pending"]

-----------------------------------------------------------------------------
(* The loop of MidHandshake::handshake: a round of the machine at a time.  *)

InLoop(e, st) ==
    /\ act[e] = "handshake" /\ state[e].st = st
    /\ UNCHANGED <<master, closed, chan, answer, address, listener, backlog, tcp, reset, got>>

\* The stage that the machine has finished is followed by another one, or by the
\* WebSocket.
Continue(e, next) == state' = [state EXCEPT ![e] = next]
                     /\ UNCHANGED <<reg, ready, act, shut, polls, events>>
Done(e) == state' = [state EXCEPT ![e] = S("websocket", 0)] /\ Ready(e)

\* Whether the response, or the request, is one the peer may send: status, Upgrade,
\* Connection, version and key.
VerifyResponse == {"Ok", "Err"}
CreateResponse == {"Ok", "Err"}

\* ClientHandshake::stage_finished.
ClientStage(e, finished) ==
    IF finished = "DoneWriting" THEN Continue(e, StartRead)
    ELSE \E verified \in VerifyResponse : IF verified = "Ok" THEN Done(e) ELSE Failure(e)

\* ServerHandshake::stage_finished; the callback is NoCallback, which accepts.
ServerStage(e, finished) ==
    IF finished = "DoneWriting" THEN Done(e)
    ELSE \E response \in CreateResponse :
             IF response = "Ok" THEN Continue(e, StartWrite(WriteResponse)) ELSE Failure(e)

StageFinished(e, finished) ==
    IF e = "client" THEN ClientStage(e, finished) ELSE ServerStage(e, finished)

\* A packet with a part of the data is looked at again, and counted again, until
\* check_incoming_packet_size refuses it.
AttackCheck(size) == size < RequestLen

\* single_round, Reading: what the packet holds is looked at; nothing is read from the
\* stream.
ReadRound(e) ==
    /\ InLoop(e, "read")
    /\ IF state[e].left = 0 THEN Incomplete(e) /\ UNCHANGED state
       ELSE IF AttackCheck(state[e].left) THEN Failure(e)
       ELSE StageFinished(e, "DoneReading")
    /\ UNCHANGED buf

\* The n-th piece from the end of a request.
Piece(n) == RequestLen + 1 - n

\* Slip: a handshake that was interrupted begins again.
WriteRoundAgain(e) ==
    LET left == state[e].left IN
    /\ InLoop(e, "write")
    /\ IF reset THEN Failure(e) /\ UNCHANGED buf
       ELSE IF Len(buf[e]) = SendBuf
       THEN /\ Incomplete(e) /\ UNCHANGED buf
            /\ state' = [state EXCEPT ![e] = StartWrite(RequestLen)]
       ELSE /\ buf' = [buf EXCEPT ![e] = Append(@, Piece(left))]
            /\ IF left > 1 THEN Continue(e, S("write", left - 1))
               ELSE StageFinished(e, "DoneWriting")

\* single_round, Writing: the socket takes some of the packet (a piece at a time,
\* which is a write of several with no step in between), or would block.
WriteRound(e) ==
    LET left == state[e].left IN
    /\ InLoop(e, "write")
    /\ IF reset THEN Failure(e) /\ UNCHANGED buf
       ELSE IF Len(buf[e]) = SendBuf THEN Incomplete(e) /\ UNCHANGED <<buf, state>>
       ELSE /\ buf' = [buf EXCEPT ![e] = Append(@, Piece(left))]
            /\ IF left > 1 THEN Continue(e, S("write", left - 1))
               ELSE StageFinished(e, "DoneWriting")

Commands(e) == DoRegister(e) \/ DoSend(e) \/ DoClose(e)
Polled(e) == \/ ProcessRead(e) \/ ProcessWrite(e)
             \/ Pending(e) \/ ReadRound(e) \/ WriteRound(e)

-----------------------------------------------------------------------------
(* The sockets.                                                            *)

SocketOpen == tcp = "connecting" /\ ~shut["client"]

\* The connection is established, and waits in the listener's backlog.
SockUp ==
    /\ SocketOpen /\ listener = "on"
    /\ tcp' = "up" /\ backlog' = TRUE
    /\ Raise([e \in Ends |-> IF e = "client" THEN {"write"} ELSE {}])
    /\ UNCHANGED <<master, closed, chan, answer, address, listener, reset, buf, got, shut, endVars>>

SockRefused ==
    /\ SocketOpen /\ tcp' = "refused"
    /\ Raise([e \in Ends |-> IF e = "client" THEN {"read", "write"} ELSE {}])
    /\ UNCHANGED <<master, closed, chan, answer, address, listener, backlog, reset, buf, got, shut, endVars>>

\* A piece arrives; a socket that was full can be written to again.
Transmit(e) ==
    /\ buf[e] # <<>> /\ ~reset
    /\ buf' = [buf EXCEPT ![e] = Tail(@)]
    /\ got' = [got EXCEPT ![Peer(e)] = Append(@, Head(buf[e]))]
    /\ Raise([p \in Ends |-> IF p # e THEN {"read"}
                             ELSE IF Len(buf[e]) = SendBuf THEN {"write"} ELSE {}])
    /\ UNCHANGED <<master, closed, chan, answer, address, listener, backlog, tcp, reset, shut, endVars>>

\* The peer's host or the network resets the connection.
SockReset ==
    /\ tcp = "up" /\ ~reset /\ reset' = TRUE
    /\ buf' = [e \in Ends |-> <<>>]
    /\ Raise([e \in Ends |-> {"read", "write"}])
    /\ UNCHANGED <<master, closed, chan, answer, address, listener, backlog, tcp, got, shut, endVars>>

User == \/ UserListen \/ UserCloseListener \/ UserConnectBadUrl
        \/ \E a \in Addresses : UserConnect(a)
        \/ UserSend \/ UserClose
Master == DoListen \/ DoConnect \/ DoConnectBadUrl \/ DoCloseListener \/ Accept
Net == SockUp \/ SockRefused \/ SockReset \/ \E e \in Ends : Transmit(e)

Next == User \/ Master \/ Net \/ \E e \in Ends : Commands(e) \/ Polled(e)

Spec == Init /\ [][Next]_vars

\* Threads run their loops, which come to commands and to edges in turn (a drain is
\* limited); TCP connects or gives up, and carries what it has taken.
Fairness == /\ WF_vars(Master)
            /\ \A e \in Ends : WF_vars(Commands(e)) /\ WF_vars(Polled(e))
            /\ WF_vars(SockUp \/ SockRefused) /\ \A e \in Ends : WF_vars(Transmit(e))

FairSpec == Spec /\ Fairness

-----------------------------------------------------------------------------
\* The pieces of the request from the first to the n-th.
Request(n) == [i \in 1 .. n |-> i]

\* No worker reaches an unreachable!(): pending() is not called again on a remote whose
\* handshake failed, and send not on one whose handshake is not done, whatever edges
\* and commands are left when it fails.
NeverUnreachable == \A e \in Ends : act[e] # "panicked"

\* However often the handshake is interrupted by a full socket and resumed by a later
\* edge, the server's socket gets each piece of the request once and in order.
RequestOnce ==
    ~reset =>
        got["server"] \o buf["client"] =
            Request(CASE state["client"].st = "write" -> RequestLen - state["client"].left
                      [] state["client"].st = "read" -> RequestLen
                      [] OTHER -> 0)

\* A remote that ends before it is ready leaves nothing behind: it is in no registry, its
\* socket is closed and no edge of it is to come; and its user is told of it, once,
\* unless the user has closed it.
FailureTold ==
    \A e \in Ends :
        /\ events[e] = <<"ConnectFail">> \/ state[e].st = "error" => ~reg[e]
        /\ state[e].st # "none" /\ ~reg[e] =>
               /\ shut[e] /\ polls[e] = {}
               /\ closed \/ events[e] = IF e = "client" THEN <<"ConnectFail">> ELSE <<>>

\* A client whose connection is refused, or reset before its request is written, learns
\* of it, even if the master has panicked meanwhile, unless its user closes it first.
RefusalReported ==
    reg["client"] /\ (tcp = "refused" \/ (reset /\ state["client"].st \in {"connect", "write"}))
        ~> events["client"] = <<"ConnectFail">> \/ closed

\* A client that is connected writes its whole request, although edges coalesce and its
\* socket may take only a part at a time.
RequestArrives ==
    reg["client"] /\ tcp = "up" /\ address = "ws"
        ~> got["server"] = Request(RequestLen) \/ ~reg["client"] \/ reset

\* What a client is owed: its failure is reported, its request gets through.
ClientProgress == RefusalReported /\ RequestArrives

\* "The method wil be called several times with different `Readiness` until the
\* implementator returns a `PendingStatus::Ready` or `PendingStatus::Disconnected`"
\* (adapter.rs, Remote::pending): a registered remote becomes ready or is removed, if
\* the connection stays up and is not closed.
PendingResolves == \A e \in Ends : reg[e] ~> ready[e] \/ ~reg[e] \/ reset \/ closed
=============================================================================
