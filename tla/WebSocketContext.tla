-------------------------- MODULE WebSocketContext --------------------------
(***************************************************************************)
(* WebSocketContext (adapters/ws/protocol): the protocol state machine of  *)
(* a WebSocket after its handshake, with its frame codec.  The module runs *)
(* two of them, a client and a server, at the ends of one TCP stream.      *)
(*                                                                         *)
(* An action is one call of read, write, flush or close, or the drop of a  *)
(* stream.  The stream is external: it keeps order, holds at most Window   *)
(* frames the other end has not read (write() then would block), and once  *)
(* the other end is dropped it reports end of file, or a reset if that end *)
(* left something unread.  Payloads are message numbers; lengths, and so   *)
(* the size limits of max_frame_size and max_message_size, are left out.   *)
(***************************************************************************)
EXTENDS Integers, Sequences, FiniteSets

CONSTANTS MaxMessages,  \* bound: data messages written, by both ends
          MaxControls,  \* bound: pings and pongs written, by both ends
          Window,       \* frames the stream holds in one direction
          WriteLen,     \* out_buffer_write_len, in frames
          MaxOut        \* max_out_buffer_len, in frames

\* assert_valid: the buffer's limit is above the length it is written at.
ASSUME ConfigAssumption == /\ WriteLen \in Nat /\ MaxOut \in Nat /\ MaxOut > WriteLen
                           /\ MaxMessages \in Nat /\ MaxControls \in Nat
                           /\ Window \in Nat \ {0}

VARIABLES ws,        \* ws[e]: the context of end e
          wire,      \* wire[e]: the frames e's stream has taken and the other
                     \* end has not read
          dropped,   \* dropped[e]: e's stream has been dropped
          wrote,     \* wrote[e]: data messages accepted by e's write
          midway,    \* midway[e]: e's user is between two fragments
          controls,  \* controls[e]: pings and pongs accepted by e's write
          closes,    \* history: how many close frames e's stream has taken
          received,  \* history: the data messages e's read has returned
          verdict    \* history: the first fatal error of e's calls

userVars == <<wrote, midway, controls>>
vars == <<ws, wire, dropped, userVars, closes, received, verdict>>

Ends == {"client", "server"}
Total(count) == count["client"] + count["server"]
Peer(e) == IF e = "client" THEN "server" ELSE "client"

States == {"Active", "ClosedByUs", "ClosedByPeer", "CloseAcknowledged", "Terminated"}
CanRead(state) == state \in {"Active", "ClosedByUs"}

DataOps == {"Binary", "First", "Last"}     \* a whole message, or its fragments
ControlOps == {"Ping", "Pong"}
None == "None"
CloseFrames(s) == Cardinality({i \in DOMAIN s : s[i].op = "Close"})
Frame == [op : DataOps \cup ControlOps \cup {"Close"}, n : 0 .. MaxMessages,
          masked : BOOLEAN]

\* Results that end the use of a connection (all but "would block", a full
\* buffer and a write that comes too late).
Fatal == {"closed", "already", "reset", "noHandshake", "receivedAfterClosing",
          "latePong", "badMask", "unexpectedContinue", "expectedFragment"}

TypeOK ==
    /\ ws \in [Ends -> [state : States, additional : {None, "Pong", "Close"},
                        incomplete : 0 .. MaxMessages, out : Seq(Frame)]]
    /\ \A e \in Ends : Len(ws[e].out) <= MaxOut
    /\ wire \in [Ends -> Seq(Frame)] /\ \A e \in Ends : Len(wire[e]) <= Window
    /\ dropped \in [Ends -> BOOLEAN]
    /\ wrote \in [Ends -> 0 .. MaxMessages] /\ midway \in [Ends -> BOOLEAN]
    /\ controls \in [Ends -> 0 .. MaxControls]
    /\ closes \in [Ends -> Nat]
    /\ received \in [Ends -> Seq(1 .. MaxMessages)]
    /\ verdict \in [Ends -> Fatal \cup {None}]

Context(state) == [state |-> state, additional |-> None, incomplete |-> 0, out |-> <<>>]

Init ==
    /\ ws = [e \in Ends |-> Context("Active")]
    /\ wire = [e \in Ends |-> <<>>] /\ closes = [e \in Ends |-> 0]
    /\ dropped = [e \in Ends |-> FALSE]
    /\ wrote = [e \in Ends |-> 0] /\ midway = [e \in Ends |-> FALSE]
    /\ controls = [e \in Ends |-> 0]
    /\ received = [e \in Ends |-> <<>>] /\ verdict = [e \in Ends |-> None]

-----------------------------------------------------------------------------
(* The methods.  A method takes a view of its end: the context, the room   *)
(* the stream has left, the frames it has taken (put) and the message      *)
(* returned (msg).  It yields the possible outcomes, each with the view it *)
(* leaves and its result.                                                  *)

View(e) ==
    [role |-> e, c |-> ws[e], room |-> Window - Len(wire[e]),
     down |-> dropped[Peer(e)], put |-> <<>>, msg |-> 0]

R(v, res) == [v |-> v, res |-> res]

\* Ok(false) and Ok(true) of _write are "ok" and "flush".
IsOk(r) == r.res \in {"ok", "flush"}

\* The `?` of the code: go on after a success, return an error.
Try(outcomes, Then(_)) ==
    UNION {IF IsOk(r) THEN Then(r.v) ELSE {r} : r \in outcomes}

\* check_connection_reset.
CheckReset(r) ==
    IF r.res = "reset" /\ ~CanRead(r.v.c.state) THEN R(r.v, "closed") ELSE r

\* Slip: what a blocking stream has taken stays in the buffer.
WriteOutBufferKeep(v) ==
    LET n == IF v.room < Len(v.c.out) THEN v.room ELSE Len(v.c.out)
        w == [v EXCEPT !.room = @ - n, !.put = @ \o SubSeq(v.c.out, 1, n)]
    IN  IF n = Len(v.c.out) THEN {R([w EXCEPT !.c.out = <<>>], "ok")} ELSE {R(w, "block")}

\* FrameCodec::write_out_buffer.  A write to a peer that is gone may fail.
WriteOutBuffer(v) ==
    LET n == IF v.room < Len(v.c.out) THEN v.room ELSE Len(v.c.out)
        w == [v EXCEPT !.c.out = SubSeq(@, n + 1, Len(@)), !.room = @ - n,
                       !.put = @ \o SubSeq(v.c.out, 1, n)]
    IN  IF v.c.out = <<>> THEN {R(v, "ok")}
        ELSE {R(w, IF w.c.out = <<>> THEN "ok" ELSE "block")}
             \cup (IF v.down THEN {R(v, "reset")} ELSE {})

\* FrameCodec::buffer_frame.
BufferInCodec(v, f) ==
    LET w == [v EXCEPT !.c.out = Append(@, f)]
    IN  IF Len(w.c.out) > MaxOut THEN {R(v, "full")}
        ELSE IF Len(w.c.out) > WriteLen THEN WriteOutBuffer(w) ELSE {R(w, "ok")}

\* WebSocketContext::buffer_frame.
BufferFrame(v, op, n) ==
    {CheckReset(r) : r \in
        BufferInCodec(v, [op |-> op, n |-> n, masked |-> v.role = "client"])}

\* set_additional: only a pong is replaced.
SetAdditional(v, op) ==
    IF v.c.additional \in {None, "Pong"} THEN [v EXCEPT !.c.additional = op] ELSE v

\* The part of _write that takes and sends additional_send.
SendAdditional(v) ==
    IF v.c.additional = None THEN {R(v, "ok")}
    ELSE {CASE r.res = "full" -> R(SetAdditional(r.v, v.c.additional), "ok")
            [] r.res = "ok"   -> R(r.v, "flush")
            [] OTHER          -> r :
          r \in BufferFrame([v EXCEPT !.c.additional = None], v.c.additional, 0)}

\* The part of _write that ends a server's connection once nothing is to be read.
ServerMayEnd(v, res) ==
    IF v.role = "client" \/ CanRead(v.c.state) THEN {R(v, res)}
    ELSE {IF IsOk(r) THEN R([r.v EXCEPT !.c.state = "Terminated"], "closed") ELSE r :
          r \in WriteOutBuffer(v)}

\* _write(None).
WriteRest(v) ==
    UNION {IF IsOk(r) THEN ServerMayEnd(r.v, r.res) ELSE {r} : r \in SendAdditional(v)}

\* _write(Some(frame)).
WriteFrame(v, op, n) == Try(BufferFrame(v, op, n), WriteRest)

\* flush.
Flush(v) == Try(WriteRest(v), WriteOutBuffer)

\* close, with or without a close code: Frame::close makes no frame without one.
Close(v, coded) ==
    LET w == [v EXCEPT !.c.state = "ClosedByUs"]
    IN  IF v.c.state # "Active" THEN Flush(v)
        ELSE Try(IF coded THEN WriteFrame(w, "Close", 0) ELSE WriteRest(w), Flush)

\* Slip: data may be written until the connection is terminated.
WriteLate(v, op, n) ==
    CASE v.c.state = "Terminated" -> {R(v, "already")}
      [] op = "Pong" -> WriteRest(SetAdditional(v, "Pong"))
      [] OTHER -> UNION {IF r.res = "flush" THEN Flush(r.v) ELSE {r} : r \in WriteFrame(v, op, n)}

\* write, of anything but Message::Close (which is close).
Write(v, op, n) ==
    CASE v.c.state = "Terminated" -> {R(v, "already")}
      [] v.c.state \notin {"Active", "Terminated"} -> {R(v, "sendAfterClosing")}
      [] v.c.state = "Active" /\ op = "Pong" -> WriteRest(SetAdditional(v, "Pong"))
      [] OTHER -> UNION {IF r.res = "flush" THEN Flush(r.v) ELSE {r} : r \in WriteFrame(v, op, n)}

\* Slip: the peer's close is noted but not answered.
DoCloseUnanswered(v) ==
    [v EXCEPT !.c.state = IF @ = "Active" THEN "ClosedByPeer" ELSE "CloseAcknowledged"]

\* do_close, in the states read_message_frame calls it in.  The reply repeats the
\* code of the frame received, and every close frame here has one.
DoClose(v) ==
    IF v.c.state = "Active"
    THEN SetAdditional([v EXCEPT !.c.state = "ClosedByPeer"], "Close")
    ELSE [v EXCEPT !.c.state = "CloseAcknowledged"]

\* Slip: a completed message stays in place as an incomplete one.
OnDataStale(v, f) ==
    CASE f.op = "Last" -> IF v.c.incomplete = 0 THEN R(v, "unexpectedContinue")
                          ELSE R([v EXCEPT !.msg = v.c.incomplete], "ok")
      [] f.op # "Last" /\ v.c.incomplete # 0 -> R(v, "expectedFragment")
      [] f.op = "First" /\ v.c.incomplete = 0 -> R([v EXCEPT !.c.incomplete = f.n], "ok")
      [] OTHER -> R([v EXCEPT !.msg = f.n], "ok")

\* A data frame: a message, or a piece of the IncompleteMessage.
OnData(v, f) ==
    CASE f.op = "Last" -> IF v.c.incomplete = 0 THEN R(v, "unexpectedContinue")
                          ELSE R([v EXCEPT !.c.incomplete = 0, !.msg = v.c.incomplete], "ok")
      [] f.op # "Last" /\ v.c.incomplete # 0 -> R(v, "expectedFragment")
      [] f.op = "First" /\ v.c.incomplete = 0 -> R([v EXCEPT !.c.incomplete = f.n], "ok")
      [] OTHER -> R([v EXCEPT !.msg = f.n], "ok")

\* read_message_frame, when the codec has a frame.  ReceivedAfterClosing has two
\* names here, to tell a pong from the rest.
OnFrame(v, f) ==
    CASE ~CanRead(v.c.state) ->
             R(v, IF f.op = "Pong" THEN "latePong" ELSE "receivedAfterClosing")
      [] CanRead(v.c.state) /\ f.masked # (v.role = "server") -> R(v, "badMask")
      [] OTHER -> CASE f.op = "Close" -> R(DoClose(v), "ok")
                    [] f.op = "Ping" ->
                           R(IF v.c.state = "Active" THEN SetAdditional(v, "Pong") ELSE v, "ok")
                    [] f.op = "Pong" -> R(v, "ok")
                    [] OTHER -> OnData(v, f)

\* Slip: after our close frame, any end of the stream is an orderly one.
OnEofLenient(v) ==
    R([v EXCEPT !.c.state = "Terminated"],
      IF v.c.state # "Active" THEN "closed" ELSE "noHandshake")

\* Slip: an empty read is taken for one that would block.
OnEofIgnored(v) == R(v, "block")

\* read_message_frame, when the stream has ended.
OnEof(v) ==
    R([v EXCEPT !.c.state = "Terminated"],
      IF v.c.state \in {"ClosedByPeer", "CloseAcknowledged"} THEN "closed" ELSE "noHandshake")

\* read, before it looks at the stream; no_block() forgives a flush that blocks.
BeforeRead(v) ==
    CASE v.c.state = "Terminated" -> {R(v, "already")}
      [] v.c.state # "Terminated" /\ v.c.additional # None ->
             {IF r.res = "block" THEN R(r.v, "ok") ELSE r : r \in Flush(v)}
      [] OTHER -> IF v.c.additional = None /\ v.role = "server" /\ ~CanRead(v.c.state)
                  THEN {R([v EXCEPT !.c.state = "Terminated"], "closed")}
                  ELSE {R(v, "ok")}

-----------------------------------------------------------------------------
(* The steps: calls of the user, and the drop of a stream.                 *)

\* What read() of the stream may return to e.
Inputs(e) == LET p == Peer(e) IN
    {i \in {"frame", "block", "eof", "reset"} :
        CASE i = "frame" -> wire[p] # <<>>
          [] i = "block" -> wire[p] = <<>> /\ ~dropped[p]
          [] i = "eof"   -> wire[p] = <<>> /\ dropped[p]
          [] i = "reset" -> wire[e] # <<>> /\ dropped[p]}

\* A call of e has returned r, having read i from the stream.
Returns(e, r, i) ==
    /\ ~dropped[e]
    /\ ws' = [ws EXCEPT ![e] = r.v.c]
    /\ wire' = [wire EXCEPT ![e] = @ \o r.v.put,
                            ![Peer(e)] = IF i = "frame" THEN Tail(@) ELSE @]
    /\ closes' = [closes EXCEPT ![e] = @ + CloseFrames(r.v.put)]
    /\ received' = IF r.v.msg = 0 THEN received
                   ELSE [received EXCEPT ![e] = Append(@, r.v.msg)]
    /\ verdict' = IF r.res \in Fatal /\ verdict[e] = None
                  THEN [verdict EXCEPT ![e] = r.res] ELSE verdict
    /\ UNCHANGED dropped

\* read_message_frame, for one outcome of reading the stream.
ReadMessageFrame(v, i) ==
    CASE i = "frame" -> OnFrame(v, Head(wire[Peer(v.role)]))
      [] i = "block" -> R(v, "block")
      [] i = "eof"   -> OnEof(v)
      [] i = "reset" -> CheckReset(R(v, "reset"))

\* A turn of read's loop (the loop goes on after a turn without a message).
Read(e) ==
    /\ \E b \in BeforeRead(View(e)) :
        IF ~IsOk(b) THEN Returns(e, b, None)
        ELSE \E i \in Inputs(e) : \E r \in {ReadMessageFrame(b.v, i)} : Returns(e, r, i)
    /\ UNCHANGED userVars

\* The user writes a message, a fragment of one, a ping or a pong.
UserWrite(e, op) ==
    /\ op \in DataOps => Total(wrote) < MaxMessages /\ midway[e] = (op = "Last")
    /\ op \in ControlOps => Total(controls) < MaxControls
    /\ \E r \in Write(View(e), op, IF op \in DataOps THEN wrote[e] + 1 ELSE 0) :
        LET taken == r.res \notin {"already", "sendAfterClosing", "full"}
        IN  /\ Returns(e, r, None)
            /\ wrote' = IF taken /\ op \in {"Binary", "Last"}
                        THEN [wrote EXCEPT ![e] = @ + 1] ELSE wrote
            /\ midway' = IF taken /\ op \in DataOps
                         THEN [midway EXCEPT ![e] = (op = "First")] ELSE midway
            /\ controls' = IF taken /\ op \in ControlOps
                           THEN [controls EXCEPT ![e] = @ + 1] ELSE controls

UserFlush(e) ==
    /\ \E r \in Flush(View(e)) : Returns(e, r, None)
    /\ UNCHANGED userVars

UserClose(e) ==
    /\ \E coded \in BOOLEAN : \E r \in Close(View(e), coded) : Returns(e, r, None)
    /\ UNCHANGED userVars

\* The WebSocket is dropped: its stream and its context are gone.
Drop(e) ==
    /\ ~dropped[e]
    /\ dropped' = [dropped EXCEPT ![e] = TRUE]
    /\ ws' = [ws EXCEPT ![e] = Context("Terminated")]
    /\ UNCHANGED <<wire, userVars, closes, received, verdict>>

End(e) == \/ Read(e) \/ UserFlush(e) \/ UserClose(e) \/ Drop(e)
          \/ \E op \in DataOps \cup ControlOps : UserWrite(e, op)

Next == \E e \in Ends : End(e)

Spec == Init /\ [][Next]_vars

\* The documented use of a WebSocket: keep calling read and flush, and drop
\* it after an error.
DropDue(e) == verdict[e] # None /\ Drop(e)
Fairness == \A e \in Ends : WF_vars(Read(e)) /\ WF_vars(UserFlush(e)) /\ WF_vars(DropDue(e))

FairSpec == Spec /\ Fairness

-----------------------------------------------------------------------------
\* Every message an end's read returns was accepted by the other end's write, and
\* comes in its place: blocked writes, buffering, fragments with control frames
\* between them and resets neither lose one in the middle nor repeat one.
MessagesInOrder ==
    \A e \in Ends : /\ Len(received[e]) <= wrote[Peer(e)]
                    /\ \A i \in DOMAIN received[e] : received[e][i] = i

\* Error::ConnectionClosed means an orderly end: the end that gets it has received
\* every message the other end's write had accepted.
ClosedMeansAllReceived ==
    \A e \in Ends : verdict[e] = "closed" => Len(received[e]) = wrote[Peer(e)]

\* In what an end sends, its close frame comes once and last, but for the pong that
\* additional_send may hold when close() is called: _write buffers it after the
\* close frame.
CloseIsLast ==
    \A e \in Ends : LET s == wire[e] \o ws[e].out IN
        /\ closes[e] + CloseFrames(ws[e].out) <= 1
        /\ \A j \in DOMAIN s :
               CloseFrames(SubSeq(s, 1, j - 1)) > 0 \/ closes[e] > CloseFrames(wire[e])
               => s[j].op = "Pong"

\* e has its close frame sent, buffered or in additional_send.
CloseFrameDue(e) ==
    closes[e] + CloseFrames(ws[e].out) > 0 \/ ws[e].additional = "Close"

\* A close frame that is received gets its reply: neither a pong that is waiting in
\* additional_send nor a stream that blocks displaces it.
CloseAnswered == \A e \in Ends : ws[e].state = "ClosedByPeer" => CloseFrameDue(e)

\* Two ends of this library agree on masking and fragments; the only frame that can
\* meet ReceivedAfterClosing is the pong behind a close frame.
EndsAgree ==
    \A e \in Ends : verdict[e] \notin {"badMask", "unexpectedContinue", "expectedFragment",
                                       "receivedAfterClosing"}

\* A close handshake comes to its end: once one end has called close and both keep
\* calling read and flush, both streams are dropped.  (Unless an end has closed
\* without a code: it has no close frame, and the other may wait for it forever.)
CloseEndsBoth ==
    \A e \in Ends : ws[e].state = "ClosedByUs" ~>
        \/ dropped["client"] /\ dropped["server"]
        \/ \E s \in Ends : ws[s].state \in {"ClosedByUs", "CloseAcknowledged"} /\ ~CloseFrameDue(s)
=============================================================================
