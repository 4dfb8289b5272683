----------------------------- MODULE SslRemote ------------------------------
(***************************************************************************)
(* A TLS connection (adapters/ssl) between a remote opened by connect and  *)
(* one accepted by a listener, each served by a worker thread: the two may *)
(* be one thread, since ids are spread over the workers of one node.       *)
(*                                                                         *)
(* The SSL driver is the TCP driver (see NodeNetwork) over another stream. *)
(* Modelled here is what that stream adds: an accepted remote is an        *)
(* acceptor until it has read the client hello, rustls does its handshake  *)
(* inside the calls of read and write, and keeps records of its own on the *)
(* way out (out) and in (plain); and where the driver panics.  Sockets,    *)
(* the poll and rustls (StreamOwned::read and write) are external.         *)
(***************************************************************************)
EXTENDS Integers, Sequences

CONSTANTS MaxSends,  \* bound: messages the user of an end sends
          Window     \* records the sockets hold in one direction

ASSUME BoundsAssumption == MaxSends \in Nat /\ Window \in Nat \ {0}

VARIABLES
    worker,    \* worker[e]: the thread that serves e
    tcp,       \* the client's TCP connection: "connecting", "up", "refused"
    stream,    \* stream[e]: "none", "sent" to its worker, "acceptor" or "tls"
               \* (SslStream), "gone"
    ready,     \* ready[e]: RemoteProperties::ready
    hs,        \* hs[e]: rustls is handshaking
    out,       \* out[e]: records rustls has not yet written to the socket
    plain,     \* plain[e]: messages rustls has read and e has not
    net,       \* net[e]: records e's socket has taken and the peer not read
    shut,      \* shut[e]: e's socket is closed
    polls,     \* polls[e]: edges the poll has to report for e
    act,       \* act[t]: what thread t is doing
    cmds,      \* cmds[e]: commands for e in its worker's channel
    posted,    \* posted[e]: sends e's user has posted
    sent,      \* history: the messages of e whose send returned Sent
    events     \* history: the NetEvents of e

tlsVars == <<stream, hs, out, plain, net, shut>>
userVars == <<cmds, posted>>
vars == <<worker, tcp, tlsVars, polls, ready, act, userVars, sent, events>>

Ends == {"client", "server"}
Peer(e) == IF e = "client" THEN "server" ELSE "client"
Master == 0
Workers == {1, 2}
Threads == Workers \cup {Master}

Hello == -3
Flight == -2       \* the server's part of the handshake
Finished == -1     \* the client's last part
CloseCmd == 0
Messages == 1 .. MaxSends
Record == {Hello, Flight, Finished} \cup Messages

Idle == [op |-> "idle", e |-> "client", n |-> 0]
Activity == [op : {"idle", "receive", "send", "panicked"}, e : Ends, n : 0 .. MaxSends]
Event == [kind : {"Open", "Failed", "Message", "Disconnected"}, data : Seq(Messages)]
Ev(kind) == [kind |-> kind, data |-> <<>>]

TypeOK ==
    /\ worker \in [Ends -> Workers] /\ tcp \in {"connecting", "up", "refused"}
    /\ stream \in [Ends -> {"none", "sent", "acceptor", "tls", "gone"}]
    /\ ready \in [Ends -> BOOLEAN] /\ hs \in [Ends -> BOOLEAN]
    /\ out \in [Ends -> Seq(Record)] /\ plain \in [Ends -> Seq(Messages)]
    /\ net \in [Ends -> Seq(Record)] /\ \A e \in Ends : Len(net[e]) <= Window
    /\ shut \in [Ends -> BOOLEAN] /\ polls \in [Ends -> SUBSET {"read", "write"}]
    /\ act \in [Threads -> Activity]
    /\ cmds \in [Ends -> Seq(0 .. MaxSends)] /\ posted \in [Ends -> 0 .. MaxSends]
    /\ sent \in [Ends -> Seq(Messages)] /\ events \in [Ends -> Seq(Event)]

Init ==
    /\ worker \in [Ends -> Workers] /\ worker["client"] = 1
    /\ tcp = "connecting"
    /\ stream = [e \in Ends |-> "none"] /\ ready = [e \in Ends |-> FALSE]
    /\ hs = [e \in Ends |-> FALSE]
    /\ out = [e \in Ends |-> <<>>] /\ plain = [e \in Ends |-> <<>>]
    /\ net = [e \in Ends |-> <<>>] /\ shut = [e \in Ends |-> FALSE]
    /\ polls = [e \in Ends |-> {}] /\ act = [t \in Threads |-> Idle]
    /\ cmds = [e \in Ends |-> <<>>] /\ posted = [e \in Ends |-> 0]
    /\ sent = [e \in Ends |-> <<>>] /\ events = [e \in Ends |-> <<>>]

Registered(e) == stream[e] \in {"acceptor", "tls"}
IsIdle(e) == act[worker[e]].op = "idle"
Doing(e, op) == act[worker[e]].op = op /\ act[worker[e]].e = e
Readable(e) == net[Peer(e)] # <<>> \/ shut[Peer(e)]
Opened(e) == \E i \in DOMAIN events[e] : events[e][i].kind = "Open"

-----------------------------------------------------------------------------
(* rustls over the socket of e.  A call takes a view of the end and yields *)
(* its possible outcomes.                                                  *)

View(e) ==
    [e |-> e, hs |-> hs[e], out |-> out[e], plain |-> plain[e], in |-> net[Peer(e)],
     room |-> Window - Len(net[e]), put |-> <<>>,
     end |-> shut[Peer(e)], torn |-> shut[Peer(e)] /\ net[e] # <<>>]

R(v, res) == [v |-> v, res |-> res]
Try(outcomes, Then(_)) ==
    UNION {IF r.res = "ok" THEN Then(r.v) ELSE {r} : r \in outcomes}

\* write_tls until nothing is left: to a closed peer it fails, now or later.
FlushTls(v) ==
    LET n == IF v.room < Len(v.out) THEN v.room ELSE Len(v.out)
        w == [v EXCEPT !.out = SubSeq(@, n + 1, Len(@)), !.room = @ - n,
                       !.put = @ \o SubSeq(v.out, 1, n)]
    IN  CASE v.out = <<>> -> {R(v, "ok")}
          [] v.out # <<>> /\ v.end -> {R([v EXCEPT !.out = <<>>], "ok"), R(v, "error")}
          [] OTHER -> {R(w, IF w.out = <<>> THEN "ok" ELSE "block")}

\* The application data among the records s.
MessagesOf(s) == LET f[i \in 0 .. Len(s)] ==
                         CASE i = 0 -> <<>>
                           [] i > 0 /\ s[i] > 0 -> Append(f[i - 1], s[i])
                           [] OTHER -> f[i - 1]
                 IN  f[Len(s)]

\* read_tls takes any number of the records that have arrived.  Handshake records
\* have their effect, messages are decrypted into plain.
ReadTls(v) ==
    LET after(k) == LET got == SubSeq(v.in, 1, k) IN
        [v EXCEPT !.in = SubSeq(@, k + 1, Len(@)),
                  !.plain = @ \o MessagesOf(got),
                  !.hs = @ /\ \A i \in 1 .. k : got[i] \notin {Flight, Finished},
                  !.out = IF \E i \in 1 .. k : got[i] = Flight THEN Append(@, Finished) ELSE @]
    IN  {R(after(k), "ok") : k \in 1 .. Len(v.in)}
        \cup (IF v.in = <<>> THEN {R(v, IF v.end THEN "error" ELSE "block")} ELSE {})
        \cup (IF v.torn THEN {R(v, "error")} ELSE {})

\* complete_prior_io: the handshake, and what is left to be written.
PriorIo(v) ==
    Try(IF v.hs THEN Try(FlushTls(v), ReadTls) ELSE {R(v, "ok")}, FlushTls)

\* StreamOwned::read; what it returns is left in plain.
TlsRead(v) ==
    Try(PriorIo(v), LAMBDA w : IF w.plain # <<>> THEN {R(w, "ok")} ELSE ReadTls(w))

\* StreamOwned::write of a message: whether the socket takes it is not looked at.
TlsWrite(v, n) ==
    Try(PriorIo(v), LAMBDA w : {R(r.v, "ok") : r \in FlushTls([w EXCEPT !.out = Append(@, n)])})

\* wrap_stream of ssl_acceptor.rs.  A hello of which only a part has arrived is an
\* error (ClientHelloNotCompletedYet), and so is the end of the stream.
WrapStream(v) ==
    IF v.in = <<>> THEN {R(v, IF v.end THEN "error" ELSE "block")}
    ELSE {R([v EXCEPT !.in = Tail(@), !.hs = TRUE, !.out = <<Flight>>], "ok"), R(v, "error")}

-----------------------------------------------------------------------------
(* The steps of a worker for its end.                                      *)

\* Edges that e's call causes at the other end: data, and room in a full socket.
EdgesFor(p, v) ==
    IF ~Registered(p) THEN {}
    ELSE (IF v.put # <<>> THEN {"read"} ELSE {})
         \cup (IF Len(net[p]) = Window /\ Len(v.in) < Window THEN {"write"} ELSE {})

\* A call on e's stream has left v, and e's stream is now s.
Leaves(e, v, s) ==
    /\ hs' = [hs EXCEPT ![e] = v.hs] /\ out' = [out EXCEPT ![e] = v.out]
    /\ plain' = [plain EXCEPT ![e] = v.plain]
    /\ net' = [net EXCEPT ![e] = @ \o v.put, ![Peer(e)] = v.in]
    /\ polls' = [polls EXCEPT ![Peer(e)] = @ \cup EdgesFor(Peer(e), v)]
    /\ stream' = [stream EXCEPT ![e] = s]
    /\ UNCHANGED shut

\* The ends of S are deregistered: their streams are dropped and sockets closed.
\* The other end's poll reports it, besides the edges it has (had).
Drop(S, had) ==
    /\ stream' = [e \in Ends |-> IF e \in S THEN "gone" ELSE stream[e]]
    /\ shut' = [e \in Ends |-> shut[e] \/ e \in S]
    /\ out' = [e \in Ends |-> IF e \in S THEN <<>> ELSE out[e]]
    /\ plain' = [e \in Ends |-> IF e \in S THEN <<>> ELSE plain[e]]
    /\ polls' = [e \in Ends |-> CASE e \in S -> {}
                                  [] e \notin S /\ Registered(e) /\ Peer(e) \in S -> {"read", "write"}
                                  [] OTHER -> had[e]]
    /\ UNCHANGED <<hs, net>>

Emit(e, ev) == events' = [events EXCEPT ![e] = Append(@, ev)]

\* What the poll reports of a socket that is added to it.
ReadyEdges(e) == (IF tcp = "connecting" THEN {} ELSE {"write"})
                 \cup (IF Readable(e) THEN {"read"} ELSE {})

\* Thread t panics: its drivers and its channel are dropped, and with them the
\* streams of S.
Panic(t, S) == act' = [act EXCEPT ![t].op = "panicked"] /\ Drop(S, polls)

\* The streams that a worker's registry or its channel holds.
HeldBy(t) == {x \in Ends : worker[x] = t /\ stream[x] \in {"sent", "acceptor", "tls"}}

\* ssl_remote_connect_with: where the client's stream is then.  A socket that cannot
\* be opened, and an address without a host, leave none.
SslRemoteConnectWith == {"sent", "none"}

\* process_connect, on the master: a socket that is connecting goes to the worker; an
\* error is dropped, with the callback.
Connect ==
    /\ stream["client"] = "none" /\ act[Master].op = "idle"
    /\ \E s \in SslRemoteConnectWith : stream' = [stream EXCEPT !["client"] = s]
    /\ UNCHANGED <<worker, tcp, ready, hs, out, plain, net, shut, polls, act, userVars, sent, events>>

\* process_connect, of any user, to what is no string or no URI: assert! or unwrap
\* panics.  The listener goes with the master, and a connection in its backlog is reset.
\* (Once the listener has accepted, the master has no part in the connection.)
ConnectBadAddress ==
    /\ stream["server"] = "none" /\ act[Master].op = "idle"
    /\ Panic(Master, IF tcp = "up" THEN {"server"} ELSE {})
    /\ UNCHANGED <<worker, tcp, ready, userVars, sent, events>>

\* read_from_local, on the master: the listener accepts the connection.  A worker that
\* has panicked has no channel any more, and post drops the stream.
Accept ==
    /\ stream["server"] = "none" /\ tcp = "up" /\ act[Master].op = "idle"
    /\ IF act[worker["server"]].op = "panicked" THEN Drop({"server"}, polls)
       ELSE /\ stream' = [stream EXCEPT !["server"] = "sent"]
            /\ UNCHANGED <<hs, out, plain, net, shut, polls>>
    /\ UNCHANGED <<worker, tcp, ready, act, userVars, sent, events>>

\* process_connect_register_remote: a client connection of ssl_connector.rs, which
\* has its hello to write.  The user's callback is called, and may send.
RegisterClient ==
    /\ stream["client"] = "sent" /\ IsIdle("client")
    /\ stream' = [stream EXCEPT !["client"] = "tls"]
    /\ hs' = [hs EXCEPT !["client"] = TRUE] /\ out' = [out EXCEPT !["client"] = <<Hello>>]
    /\ polls' = [polls EXCEPT !["client"] = ReadyEdges("client")]
    /\ UNCHANGED <<worker, tcp, ready, plain, net, shut, act, userVars, sent, events>>

\* process_connect_register_remote of a host that is no server name: wrap_stream fails,
\* which is unreachable!().
RegisterClientBadName ==
    /\ stream["client"] = "sent" /\ IsIdle("client")
    /\ Panic(worker["client"], HeldBy(worker["client"]))
    /\ UNCHANGED <<worker, tcp, ready, userVars, sent, events>>

\* process_accept_register_remote.
RegisterServer ==
    /\ stream["server"] = "sent" /\ IsIdle("server")
    /\ stream' = [stream EXCEPT !["server"] = "acceptor"]
    /\ polls' = [polls EXCEPT !["server"] = ReadyEdges("server")]
    /\ UNCHANGED <<worker, tcp, ready, hs, out, plain, net, shut, act, userVars, sent, events>>

\* resolve_pending_remote, if e is not ready: only the TCP connection is looked at.
ResolvePending(e, had) ==
    IF ready[e] \/ (e = "client" /\ tcp = "connecting")
    THEN polls' = had /\ UNCHANGED <<tlsVars, ready, events>>
    ELSE IF e = "client" /\ tcp = "refused"
    THEN Drop({e}, had) /\ Emit(e, Ev("Failed")) /\ UNCHANGED ready
    ELSE /\ ready' = [ready EXCEPT ![e] = TRUE] /\ Emit(e, Ev("Open"))
         /\ polls' = had /\ UNCHANGED tlsVars

\* process_read of an edge the poll reports: a ready remote is received from.
ProcessRead(e) ==
    /\ Registered(e) /\ IsIdle(e) /\ "read" \in polls[e]
    /\ ResolvePending(e, [polls EXCEPT ![e] = @ \ {"read"}])
    /\ act' = IF ready'[e] THEN [act EXCEPT ![worker[e]] = [op |-> "receive", e |-> e, n |-> 0]]
              ELSE act
    /\ UNCHANGED <<worker, tcp, userVars, sent>>

\* process_write: ready_to_write, which nothing overrides, writes nothing.
ProcessWrite(e) ==
    /\ Registered(e) /\ IsIdle(e) /\ "write" \in polls[e]
    /\ ResolvePending(e, [polls EXCEPT ![e] = @ \ {"write"}])
    /\ UNCHANGED <<worker, tcp, act, userVars, sent>>

\* read_from_remote: receive has returned Disconnected.
Disconnected(e) == /\ Drop({e}, polls) /\ Emit(e, Ev("Disconnected"))
                   /\ act' = [act EXCEPT ![worker[e]] = Idle]

\* receive, a turn of its loop on an acceptor; it spins while wrap_stream blocks.
ReceiveAcceptor(e) ==
    /\ Doing(e, "receive") /\ stream[e] = "acceptor"
    /\ \E r \in WrapStream(View(e)) :
        \/ r.res = "ok" /\ Leaves(e, r.v, "tls") /\ UNCHANGED <<events, act>>
        \/ r.res = "error" /\ Disconnected(e)
    /\ UNCHANGED <<worker, tcp, ready, userVars, sent>>

\* Slip: the loop ends after the first data.
ReceiveTlsOnce(e) ==
    /\ Doing(e, "receive") /\ stream[e] = "tls"
    /\ \E r \in TlsRead(View(e)) :
        \/ /\ r.res # "error" /\ Leaves(e, [r.v EXCEPT !.plain = <<>>], "tls")
           /\ act' = [act EXCEPT ![worker[e]] = Idle]
           /\ IF r.res = "ok" THEN Emit(e, [kind |-> "Message", data |-> r.v.plain])
              ELSE UNCHANGED events
        \/ r.res = "error" /\ Disconnected(e)
    /\ UNCHANGED <<worker, tcp, ready, userVars, sent>>

\* Slip: an error of the handshake is left for the next event.
ReceiveTlsLenient(e) ==
    /\ Doing(e, "receive") /\ stream[e] = "tls"
    /\ \E r \in TlsRead(View(e)) :
        \/ /\ r.res = "ok" /\ Leaves(e, [r.v EXCEPT !.plain = <<>>], "tls")
           /\ Emit(e, [kind |-> "Message", data |-> r.v.plain]) /\ UNCHANGED act
        \/ /\ r.res = "block" \/ (r.res = "error" /\ hs[e])
           /\ Leaves(e, r.v, "tls")
           /\ act' = [act EXCEPT ![worker[e]] = Idle] /\ UNCHANGED events
        \/ r.res = "error" /\ ~hs[e] /\ Disconnected(e)
    /\ UNCHANGED <<worker, tcp, ready, userVars, sent>>

\* receive, a turn of its loop on a connection.
ReceiveTls(e) ==
    /\ Doing(e, "receive") /\ stream[e] = "tls"
    /\ \E r \in TlsRead(View(e)) :
        \/ /\ r.res = "ok" /\ Leaves(e, [r.v EXCEPT !.plain = <<>>], "tls")
           /\ Emit(e, [kind |-> "Message", data |-> r.v.plain]) /\ UNCHANGED act
        \/ /\ r.res = "block" /\ Leaves(e, r.v, "tls")
           /\ act' = [act EXCEPT ![worker[e]] = Idle] /\ UNCHANGED events
        \/ r.res = "error" /\ Disconnected(e)
    /\ UNCHANGED <<worker, tcp, ready, userVars, sent>>

\* process_send and process_close.
DoCommand(e) ==
    /\ IsIdle(e) /\ cmds[e] # <<>>
    /\ cmds' = [cmds EXCEPT ![e] = Tail(@)]
    /\ IF Head(cmds[e]) = CloseCmd /\ Registered(e) THEN Drop({e}, polls)
       ELSE UNCHANGED <<tlsVars, polls>>
    /\ act' = IF Head(cmds[e]) # CloseCmd /\ Registered(e) /\ ready[e]
              THEN [act EXCEPT ![worker[e]] = [op |-> "send", e |-> e, n |-> Head(cmds[e])]]
              ELSE act
    /\ UNCHANGED <<worker, tcp, ready, posted, sent, events>>

\* Slip: a write that would block counts as sent.
SendTlsBlindly(e) ==
    /\ Doing(e, "send") /\ stream[e] = "tls"
    /\ \E r \in TlsWrite(View(e), act[worker[e]].n) :
        /\ Leaves(e, r.v, "tls")
        /\ sent' = IF r.res = "error" THEN sent
                   ELSE [sent EXCEPT ![e] = Append(@, act[worker[e]].n)]
    /\ act' = [act EXCEPT ![worker[e]] = Idle]
    /\ UNCHANGED <<worker, tcp, ready, userVars, events>>

\* Slip: a write that fails is tried again.
SendTlsForever(e) ==
    /\ Doing(e, "send") /\ stream[e] = "tls"
    /\ \E r \in TlsWrite(View(e), act[worker[e]].n) :
        /\ Leaves(e, r.v, "tls")
        /\ act' = IF r.res # "ok" THEN act ELSE [act EXCEPT ![worker[e]] = Idle]
        /\ sent' = IF r.res # "ok" THEN sent
                   ELSE [sent EXCEPT ![e] = Append(@, act[worker[e]].n)]
    /\ UNCHANGED <<worker, tcp, ready, userVars, events>>

\* send, a turn of its loop; it spins while the write blocks.
SendTls(e) ==
    /\ Doing(e, "send") /\ stream[e] = "tls"
    /\ \E r \in TlsWrite(View(e), act[worker[e]].n) :
        /\ Leaves(e, r.v, "tls")
        /\ act' = IF r.res = "block" THEN act ELSE [act EXCEPT ![worker[e]] = Idle]
        /\ sent' = IF r.res # "ok" THEN sent
                   ELSE [sent EXCEPT ![e] = Append(@, act[worker[e]].n)]
    /\ UNCHANGED <<worker, tcp, ready, userVars, events>>

\* send on an acceptor is unreachable!().
SendAcceptor(e) ==
    /\ Doing(e, "send") /\ stream[e] = "acceptor"
    /\ Panic(worker[e], HeldBy(worker[e]))
    /\ UNCHANGED <<worker, tcp, ready, userVars, sent, events>>

Serve(e) == \/ ProcessRead(e) \/ ProcessWrite(e)
            \/ ReceiveAcceptor(e) \/ ReceiveTls(e)
            \/ DoCommand(e) \/ SendTls(e) \/ SendAcceptor(e)

Thread(t) == \/ worker["client"] = t /\ (RegisterClient \/ RegisterClientBadName)
             \/ worker["server"] = t /\ RegisterServer
             \/ \E e \in Ends : worker[e] = t /\ Serve(e)

-----------------------------------------------------------------------------
(* The users, the network and the poll.                                    *)

\* connect's callback names the client's endpoint, Accepted the server's.
Known(e) == Opened(e) \/ (e = "client" /\ stream[e] \notin {"none", "sent"})

UserSend(e) ==
    /\ Known(e) /\ posted[e] < MaxSends
    /\ posted' = [posted EXCEPT ![e] = @ + 1]
    /\ cmds' = [cmds EXCEPT ![e] = Append(@, posted[e] + 1)]
    /\ UNCHANGED <<worker, tcp, tlsVars, polls, ready, act, sent, events>>

\* An end is closed at most once: what comes after finds no resource.
UserClose(e) ==
    /\ Known(e) /\ stream[e] # "gone" /\ \A i \in DOMAIN cmds[e] : cmds[e][i] # CloseCmd
    /\ cmds' = [cmds EXCEPT ![e] = Append(@, CloseCmd)]
    /\ UNCHANGED <<worker, tcp, tlsVars, polls, ready, act, posted, sent, events>>

\* The client's socket connects, if there still is a listener, or is refused.
TcpOutcome ==
    /\ tcp = "connecting" /\ stream["client"] # "none" /\ ~shut["client"]
    /\ tcp' \in {"up", "refused"} /\ (act[Master].op = "panicked" => tcp' = "refused")
    /\ polls' = IF Registered("client") THEN [polls EXCEPT !["client"] = @ \cup {"write"}] ELSE polls
    /\ UNCHANGED <<worker, tlsVars, ready, act, userVars, sent, events>>

\* The poll looks again before it reports an edge: what a send has read in its
\* handshake is not reported.
LoseEdge(e) ==
    /\ "read" \in polls[e] /\ ~Readable(e)
    /\ polls' = [polls EXCEPT ![e] = @ \ {"read"}]
    /\ UNCHANGED <<worker, tcp, tlsVars, ready, act, userVars, sent, events>>

Next == \/ \E t \in Workers : Thread(t)
        \/ Connect \/ ConnectBadAddress \/ Accept \/ TcpOutcome
        \/ \E e \in Ends : UserSend(e) \/ UserClose(e) \/ LoseEdge(e)

Spec == Init /\ [][Next]_vars

\* Threads run their loops (the master accepts), and TCP connects or gives up.
Fairness == WF_vars(Accept) /\ WF_vars(TcpOutcome) /\ \A t \in Workers : WF_vars(Thread(t))

FairSpec == Spec /\ Fairness

-----------------------------------------------------------------------------
\* What e has been handed in Message events.
DataOf(s) == LET f[i \in 0 .. Len(s)] == IF i = 0 THEN <<>> ELSE f[i - 1] \o s[i].data
             IN  f[Len(s)]
Received(e) == DataOf(events[e])

IsPrefix(s, t) == Len(s) <= Len(t) /\ s = SubSeq(t, 1, Len(s))

\* While both ends are up, a message whose send returned Sent has been handed over or
\* is on its way, in order and once: handshakes inside read and write, partly
\* written buffers and retried sends lose and repeat nothing.
SentIsSomewhere ==
    \A e \in Ends :
        LET there == Received(Peer(e)) \o plain[Peer(e)]
            way   == MessagesOf(net[e] \o out[e])
        IN  /\ IsPrefix(there, sent[e])
            /\ Registered(e) /\ Registered(Peer(e)) => there \o way = sent[e]

\* send's active waiting ends, unless the thread of the other end is in a send too (it
\* may be the same thread) or has records of its own that it cannot write.
SendReturns ==
    \A e \in Ends : Doing(e, "send") ~>
        ~Doing(e, "send") \/ [](act[worker[Peer(e)]].op = "send" \/ out[Peer(e)] # <<>>)

\* A message whose send returned Sent is delivered if both ends stay up, unless
\* records stay inside rustls for good (a write edge does not flush them, and what a
\* send has read is not looked for) or a thread stays in a send.
SentIsDelivered ==
    \A e \in Ends : \A n \in Messages :
        (\E i \in DOMAIN sent[e] : sent[e][i] = n) ~>
            \/ \E i \in 1 .. Len(Received(Peer(e))) : Received(Peer(e))[i] = n
            \/ \E x \in Ends : stream[x] = "gone"
            \/ [](\E x \in Ends : out[x] # <<>> \/ plain[x] # <<>> \/ Doing(x, "send"))

\* When one end of a connection is gone the other is told and removed, unless its
\* thread has panicked.
EndNoticed ==
    \A e \in Ends : shut[Peer(e)] /\ tcp = "up" ~> stream[e] = "gone" \/ act[worker[e]].op = "panicked"

\* "A remote resource is considered ready when it is totally connected and can be
\* used for writing data" (adapter.rs): no send to a ready remote meets the acceptor
\* that send declares unreachable.
ReadyCanWrite == \A e \in Ends : ~(Doing(e, "send") /\ stream[e] = "acceptor")
=============================================================================
