---------------------------- MODULE FramedStream ----------------------------
(***************************************************************************)
(* Framed messages over a TCP connection: a thread in the write loop of    *)
(* RemoteResource::send, a socket that takes what it has room for, and a   *)
(* reader that feeds the Decoder with whatever has arrived, at its own     *)
(* pace.  The loop gives up after MaxWrites (1000) writes, possibly with a *)
(* part of the message on the stream, and process_send ignores the status. *)
(***************************************************************************)
EXTENDS Decoder

CONSTANTS Sizes,        \* sizes of the messages that are sent
          MaxMessages,  \* bound: messages sent
          MaxWrites,    \* writes a send makes at most
          Window        \* bytes the sockets hold

ASSUME StreamAssumption == /\ Sizes \subseteq Nat
                           /\ \A n \in Sizes : n < Usize /\ Len(EncodeSize(n)) <= MaxEncodedSize
                           /\ MaxMessages \in Nat /\ MaxWrites \in Nat \ {0}
                           /\ Window \in Nat \ {0}

VARIABLES messages,  \* the messages given to send, in order
          total,     \* total_bytes_sent of the send that runs
          writes,    \* writes it has made; 0 when no send runs
          status,    \* status[k]: what the k-th send returned
          wire,      \* bytes the sockets hold
          read,      \* history: the bytes the decoder has been fed
          lost       \* the connection is lost

vars == <<messages, total, writes, status, wire, read, lost, stored, out>>

\* The payload of the k-th message: bytes that look like sizes.
Payload(n, k) == [i \in 1 .. n |-> (i + k) % (2 * Radix)]

\* What the user gives to send: a message behind its size.
Framed(m) == EncodeSize(Len(m)) \o m

StreamOf(ms) == LET f[i \in 0 .. Len(ms)] == IF i = 0 THEN <<>> ELSE f[i - 1] \o Framed(ms[i])
                IN  f[Len(ms)]

IsPrefix(s, t) == Len(s) <= Len(t) /\ s = SubSeq(t, 1, Len(s))

Init ==
    /\ messages = <<>> /\ status = <<>> /\ total = 0 /\ writes = 0
    /\ wire = <<>> /\ read = <<>> /\ lost = FALSE
    /\ stored = <<>> /\ out = <<>>

Sending == Len(status) < Len(messages)

\* process_send of the next message.
StartSend(n) ==
    /\ ~Sending /\ Len(messages) < MaxMessages
    /\ messages' = Append(messages, Payload(n, Len(messages) + 1))
    /\ total' = 0 /\ writes' = 0
    /\ UNCHANGED <<status, wire, read, lost, stored, out>>

Return(st) == status' = Append(status, st)

\* Slip: a write that succeeds is taken for the whole.
WriteOnce ==
    LET data == Framed(messages[Len(messages)])
        n == Least(Window - Len(wire), Len(data) - total)
    IN  /\ Sending /\ ~lost /\ writes < MaxWrites
        /\ writes' = writes + 1
        /\ total' = total + n
        /\ wire' = wire \o SubSeq(data, total + 1, total + n)
        /\ IF n > 0 THEN Return("Sent") ELSE UNCHANGED status
        /\ UNCHANGED <<messages, read, lost, stored, out>>

\* A turn of the loop of send: the socket takes what it has room for, or would block.
Write ==
    LET data == Framed(messages[Len(messages)])
        n == Least(Window - Len(wire), Len(data) - total)
    IN  /\ Sending /\ ~lost /\ writes < MaxWrites
        /\ writes' = writes + 1
        /\ total' = total + n
        /\ wire' = wire \o SubSeq(data, total + 1, total + n)
        /\ IF total + n = Len(data) THEN Return("Sent") ELSE UNCHANGED status
        /\ UNCHANGED <<messages, read, lost, stored, out>>

\* A write to a connection that is lost.
WriteFails ==
    /\ Sending /\ lost /\ writes < MaxWrites
    /\ Return("ResourceNotFound")
    /\ UNCHANGED <<messages, total, writes, wire, read, lost, stored, out>>

\* "abort after retry 1000 times"
SendAbort ==
    /\ Sending /\ writes = MaxWrites
    /\ Return("SendAbort")
    /\ UNCHANGED <<messages, total, writes, wire, read, lost, stored, out>>

\* receive reads n bytes, which the user gives to the decoder.
Receive(n) ==
    /\ n <= Len(wire)
    /\ wire' = From(wire, n + 1) /\ read' = read \o SubSeq(wire, 1, n)
    /\ Decode(SubSeq(wire, 1, n))
    /\ UNCHANGED <<messages, total, writes, status, lost>>

Lose == /\ ~lost /\ lost' = TRUE
        /\ UNCHANGED <<messages, total, writes, status, wire, read, stored, out>>

Next == \/ \E n \in Sizes : StartSend(n)
        \/ Write \/ WriteFails \/ SendAbort
        \/ \E n \in 1 .. Window : Receive(n)
        \/ Lose

Spec == Init /\ [][Next]_vars

-----------------------------------------------------------------------------
\* The messages before the first whose send was cut short.
Uncut == LET cut == {k \in DOMAIN status : status[k] # "Sent"}
         IN  IF cut = {} THEN messages
             ELSE SubSeq(messages, 1, (CHOOSE k \in cut : \A j \in cut : k <= j) - 1)

\* Framing does not depend on how the stream was cut into writes and reads: of the
\* messages before the first that was cut short, those whose last byte has been read
\* have been delivered, each intact and in order, and nothing else before that point;
\* exactly the bytes after them are stored.
ChunkingIrrelevant ==
    LET end(k) == Len(StreamOf(SubSeq(Uncut, 1, k)))
        complete == {k \in 0 .. Len(Uncut) : end(k) <= Len(read)}
        n == CHOOSE k \in complete : \A j \in complete : j <= k
    IN  /\ SubSeq(out, 1, Least(n, Len(out))) = SubSeq(Uncut, 1, n)
        /\ Len(read) <= end(Len(Uncut)) =>
               Len(out) = n /\ stored = SubSeq(StreamOf(Uncut), end(n) + 1, Len(read))

\* Sent means that the whole frame is on the stream, in its place: before the first send
\* that was cut short, what the socket has been given is the frames that were sent and
\* the part of the one that is being written, however slowly the reader makes room.
SentIsWhole ==
    LET done == SubSeq(Uncut, 1, Least(Len(status), Len(Uncut)))
        part == IF Sending /\ Len(Uncut) = Len(messages)
                THEN SubSeq(Framed(messages[Len(messages)]), 1, total) ELSE <<>>
        given == StreamOf(done) \o part
    IN  IsPrefix(given, read \o wire)
=============================================================================
