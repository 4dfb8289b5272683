----------------------- MODULE WebSocketContextProofs -----------------------
(***************************************************************************)
(* Proofs about WebSocketContext: what two ends of a WebSocket may rely on *)
(* for every size of the stream and of the buffers.                        *)
(*                                                                         *)
(* A method is a function from views to outcomes; one lemma per method     *)
(* says what its outcomes have in common (Advances): the frames already    *)
(* accepted keep their order, at most the waiting reply is added to them,  *)
(* and the state of the context only moves on.  The invariants then follow *)
(* the frames between two ends as one line: those the stream holds and     *)
(* behind them those in the buffer.                                        *)
(***************************************************************************)
EXTENDS WebSocketContext, FiniteSetTheorems, SequenceTheorems, TLAPS

\* The limits of the buffer and of the stream are numbers.
LEMMA BoundsKnown == MaxOut \in Nat /\ WriteLen \in Nat /\ Window \in Nat /\ MaxMessages \in Nat
BY ConfigAssumption

\* The places of the close frames of s.
ClosePlaces(s) == {i \in DOMAIN s : s[i].op = "Close"}

\* A sequence has finitely many close frames, and none iff no place holds one.
LEMMA CloseFramesType ==
  ASSUME NEW s \in Seq(Frame)
  PROVE  /\ IsFiniteSet(ClosePlaces(s)) /\ CloseFrames(s) = Cardinality(ClosePlaces(s))
         /\ CloseFrames(s) \in Nat
         /\ CloseFrames(s) = 0 <=> \A i \in 1 .. Len(s) : s[i].op # "Close"
<1>1. Len(s) \in Nat /\ DOMAIN s = 1 .. Len(s)
  BY LenProperties
<1>2. 1 \in Int /\ Len(s) \in Int
  BY <1>1
<1>3. IsFiniteSet(1 .. Len(s))
  BY <1>2, FS_Interval
<1>4. IsFiniteSet(ClosePlaces(s))
  BY <1>1, <1>3, FS_Subset DEF ClosePlaces
<1>5. CloseFrames(s) = Cardinality(ClosePlaces(s))
  BY DEF CloseFrames, ClosePlaces
<1>6. CloseFrames(s) \in Nat
  BY <1>4, <1>5, FS_CardinalityType
<1>7. CloseFrames(s) = 0 <=> ClosePlaces(s) = {}
  BY <1>4, <1>5, FS_EmptySet
<1>8. ClosePlaces(s) = {} <=> \A i \in 1 .. Len(s) : s[i].op # "Close"
  BY <1>1 DEF ClosePlaces
<1> QED
  BY <1>4, <1>5, <1>6, <1>7, <1>8

\* The close frames of two sequences add up.
LEMMA CloseFramesConcat ==
  ASSUME NEW s \in Seq(Frame), NEW t \in Seq(Frame)
  PROVE  CloseFrames(s \o t) = CloseFrames(s) + CloseFrames(t)
<1> DEFINE A == ClosePlaces(s)
           B == ClosePlaces(t)
           n == Len(s)
           f == [i \in B |-> i + n]
           C == {i \in (n + 1) .. (n + Len(t)) : i - n \in B}
<1>1. /\ n \in Nat /\ Len(t) \in Nat /\ DOMAIN s = 1 .. n /\ DOMAIN t = 1 .. Len(t)
      /\ s \o t \in Seq(Frame) /\ Len(s \o t) = n + Len(t)
      /\ \A i \in 1 .. n + Len(t) : (s \o t)[i] = IF i <= n THEN s[i] ELSE t[i - n]
  BY LenProperties, ConcatProperties
<1>2. DOMAIN (s \o t) = 1 .. n + Len(t)
  BY <1>1, LenProperties
<1>3. IsFiniteSet(A) /\ IsFiniteSet(B)
  BY CloseFramesType
<1>4. A \subseteq 1 .. n /\ B \subseteq 1 .. Len(t)
  BY <1>1 DEF ClosePlaces
<1>5. f \in Bijection(B, C)
  <2> HIDE DEF A, B
  <2>1. \A i \in B : i + n \in C
    BY <1>1, <1>4
  <2>2. \A i, j \in B : i + n = j + n => i = j
    BY <1>1, <1>4
  <2>3. \A j \in C : j - n \in B /\ (j - n) + n = j
    BY <1>1
  <2> HIDE DEF C, n
  <2>4. f \in [B -> C] /\ \A i, j \in B : f[i] = f[j] => i = j
    BY <2>1, <2>2
  <2>5. \A j \in C : \E i \in B : f[i] = j
    BY <2>3
  <2> QED
    BY <2>4, <2>5 DEF Bijection, Injection, Surjection, IsInjective
<1>6. IsFiniteSet(C) /\ Cardinality(C) = Cardinality(B)
  BY <1>3, <1>5, FS_Bijection DEF ExistsBijection
<1>7. ClosePlaces(s \o t) = A \cup C
  <2>1. ASSUME NEW i \in 1 .. n + Len(t)
        PROVE  (s \o t)[i].op = "Close" <=> i \in A \/ i \in C
    <3>1. CASE i <= n
      <4>1. i \in 1 .. n /\ (s \o t)[i] = s[i]
        BY <1>1, <3>1
      <4>2. i \notin (n + 1) .. (n + Len(t))
        BY <1>1, <3>1
      <4> QED
        BY <1>1, <4>1, <4>2 DEF ClosePlaces
    <3>2. CASE ~(i <= n)
      <4>1. i \notin 1 .. n /\ i - n \in 1 .. Len(t) /\ i \in (n + 1) .. (n + Len(t)) /\ (s \o t)[i] = t[i - n]
        BY <1>1, <3>2
      <4> QED
        BY <1>1, <4>1 DEF ClosePlaces
    <3> QED
      BY <3>1, <3>2
  <2>2. A \subseteq 1 .. n + Len(t) /\ C \subseteq 1 .. n + Len(t)
    BY <1>1, <1>4
  <2> HIDE DEF A, C, n
  <2> QED
    BY <1>2, <2>1, <2>2 DEF ClosePlaces
<1>8. A \cap C = {}
  BY <1>1, <1>4
<1>9. Cardinality(A \cup C) = Cardinality(A) + Cardinality(C)
  <2>1. Cardinality(A \cup C) = Cardinality(A) + Cardinality(C) - Cardinality(A \cap C)
    BY <1>3, <1>6, FS_Union
  <2>2. Cardinality(A) \in Nat /\ Cardinality(C) \in Nat /\ Cardinality(A \cap C) = 0
    BY <1>3, <1>6, <1>8, FS_CardinalityType, FS_EmptySet
  <2> QED
    BY <2>1, <2>2
<1> QED
  BY <1>1, <1>6, <1>7, <1>9, CloseFramesType

\* A sequence of one frame.
LEMMA CloseFramesOne ==
  ASSUME NEW f \in Frame
  PROVE  /\ <<f>> \in Seq(Frame)
         /\ CloseFrames(<<f>>) = IF f.op = "Close" THEN 1 ELSE 0
<1>1. <<f>> \in Seq(Frame) /\ DOMAIN <<f>> = {1} /\ <<f>>[1] = f
  OBVIOUS
<1>2. ClosePlaces(<<f>>) = IF f.op = "Close" THEN {1} ELSE {}
  BY <1>1 DEF ClosePlaces
<1>3. CloseFrames(<<f>>) = Cardinality(ClosePlaces(<<f>>))
  BY DEF CloseFrames, ClosePlaces
<1>4. Cardinality({}) = 0 /\ Cardinality({1}) = 1
  BY FS_EmptySet, FS_Singleton
<1> QED
  BY <1>1, <1>2, <1>3, <1>4

\* Appending a frame adds one if it is a close frame.
LEMMA CloseFramesAppend ==
  ASSUME NEW s \in Seq(Frame), NEW f \in Frame
  PROVE  CloseFrames(Append(s, f)) = CloseFrames(s) + (IF f.op = "Close" THEN 1 ELSE 0)
<1>1. Append(s, f) = s \o <<f>>
  BY AppendIsConcat
<1> QED
  BY <1>1, CloseFramesConcat, CloseFramesOne

\* Taking the first frame away takes one away if it is a close frame.
LEMMA CloseFramesTail ==
  ASSUME NEW s \in Seq(Frame), s # <<>>
  PROVE  CloseFrames(s) = (IF Head(s).op = "Close" THEN 1 ELSE 0) + CloseFrames(Tail(s))
<1>1. Head(s) \in Frame /\ Tail(s) \in Seq(Frame) /\ s = <<Head(s)>> \o Tail(s)
  BY HeadTailProperties
<1> QED
  BY <1>1, CloseFramesConcat, CloseFramesOne

-----------------------------------------------------------------------------
(* What the methods do to a view.                                          *)

Contexts == [state : States, additional : {None, "Pong", "Close"},
             incomplete : 0 .. MaxMessages, out : Seq(Frame)]
Views == [role : Ends, c : Contexts, room : Nat, down : BOOLEAN, put : Seq(Frame),
          msg : 0 .. MaxMessages]

\* The frames a view has accepted: taken by the stream, then those in the buffer.
Accepted(v) == v.put \o v.c.out

\* The frame buffer_frame makes.
FrameOf(v, op, n) == [op |-> op, n |-> n, masked |-> v.role = "client"]

\* w is v after some writing: what the stream takes uses up its room, the buffer
\* stays within its limit, and the reading side is left alone.
Keeps(v, w) ==
    /\ w \in Views /\ w.role = v.role /\ w.msg = v.msg /\ w.c.incomplete = v.c.incomplete
    /\ Len(w.put) + w.room = Len(v.put) + v.room
    /\ Len(v.c.out) <= MaxOut => Len(w.c.out) <= MaxOut

\* Concatenation of frames is associative.
LEMMA FramesAssociative ==
  ASSUME NEW s \in Seq(Frame), NEW t \in Seq(Frame), NEW u \in Seq(Frame)
  PROVE  (s \o t) \o u = s \o (t \o u)
BY ConcatAssociative

\* A context and a view with other values in some of their fields.
LEMMA ContextWith ==
  ASSUME NEW c \in Contexts
  PROVE  /\ \A s \in States : [c EXCEPT !.state = s] \in Contexts
         /\ \A a \in {None, "Pong", "Close"} : [c EXCEPT !.additional = a] \in Contexts
         /\ \A n \in 0 .. MaxMessages : [c EXCEPT !.incomplete = n] \in Contexts
         /\ \A q \in Seq(Frame) : [c EXCEPT !.out = q] \in Contexts
BY DEF Contexts

\* And a view that gets a new context stays a view.
LEMMA ViewWith ==
  ASSUME NEW v \in Views, NEW c \in Contexts
  PROVE  /\ [v EXCEPT !.c = c] \in Views
         /\ \A n \in 0 .. MaxMessages : [v EXCEPT !.c = c, !.msg = n] \in Views
         /\ \A m \in Nat, q \in Seq(Frame) : [v EXCEPT !.c = c, !.room = m, !.put = q] \in Views
BY DEF Views

\* The fields of a view.
LEMMA ViewFields ==
  ASSUME NEW v \in Views
  PROVE  /\ v.role \in Ends /\ v.c \in Contexts /\ v.room \in Nat /\ v.put \in Seq(Frame)
         /\ v.msg \in 0 .. MaxMessages /\ v.c.state \in States
         /\ v.c.additional \in {None, "Pong", "Close"} /\ v.c.incomplete \in 0 .. MaxMessages
         /\ v.c.out \in Seq(Frame) /\ Len(v.c.out) \in Nat /\ Len(v.put) \in Nat
         /\ Accepted(v) \in Seq(Frame)
<1>1. v.role \in Ends /\ v.c \in Contexts /\ v.room \in Nat /\ v.put \in Seq(Frame) /\ v.msg \in 0 .. MaxMessages
  BY DEF Views
<1>2. /\ v.c.state \in States /\ v.c.out \in Seq(Frame)
      /\ v.c.additional \in {None, "Pong", "Close"} /\ v.c.incomplete \in 0 .. MaxMessages
  BY <1>1 DEF Contexts
<1>3. Len(v.c.out) \in Nat /\ Len(v.put) \in Nat
  BY <1>1, <1>2, LenProperties
<1>4. Accepted(v) \in Seq(Frame)
  BY <1>1, <1>2, ConcatProperties DEF Accepted
<1> QED
  BY <1>1, <1>2, <1>3, <1>4

\* write_out_buffer moves frames from the buffer to the stream, in their order.
LEMMA WriteOutBufferMoves ==
  ASSUME NEW v \in Views, NEW r \in WriteOutBuffer(v)
  PROVE  /\ Keeps(v, r.v) /\ Accepted(r.v) = Accepted(v) /\ r.res \in {"ok", "block", "reset"}
         /\ r.v.c.state = v.c.state /\ r.v.c.additional = v.c.additional
<1> DEFINE out == v.c.out
           n == IF v.room < Len(out) THEN v.room ELSE Len(out)
           a == SubSeq(out, 1, n)
           b == SubSeq(out, n + 1, Len(out))
           w == [v EXCEPT !.c.out = SubSeq(@, n + 1, Len(@)), !.room = @ - n, !.put = @ \o SubSeq(v.c.out, 1, n)]
<1>1. /\ v.c \in Contexts /\ out \in Seq(Frame) /\ v.put \in Seq(Frame) /\ v.room \in Nat
      /\ Len(out) \in Nat /\ Len(v.put) \in Nat
  BY LenProperties DEF Views, Contexts
<1>2. n \in Nat /\ n <= Len(out) /\ n <= v.room
  BY <1>1
<1>3. a \in Seq(Frame) /\ b \in Seq(Frame) /\ Len(a) = n /\ Len(b) = Len(out) - n
  <2>1. \A i \in 1 .. n : out[i] \in Frame
    BY <1>1, <1>2, ElementOfSeq
  <2>2. \A i \in n + 1 .. Len(out) : out[i] \in Frame
    BY <1>1, <1>2, ElementOfSeq
  <2> HIDE DEF n, out
  <2>3. a \in Seq(Frame) /\ Len(a) = IF 1 <= n THEN n - 1 + 1 ELSE 0
    BY <1>2, <2>1, SubSeqProperties
  <2>4. b \in Seq(Frame) /\ Len(b) = IF n + 1 <= Len(out) THEN Len(out) - (n + 1) + 1 ELSE 0
    BY <1>1, <1>2, <2>2, SubSeqProperties
  <2> QED
    BY <1>1, <1>2, <2>3, <2>4
<1>4. a \o b = out
  <2>1. 1 \in 1 .. Len(out) + 1 /\ n \in 1 - 1 .. Len(out) /\ Len(out) \in n .. Len(out)
    BY <1>1, <1>2
  <2>2. a \o b = SubSeq(out, 1, Len(out))
    <3> HIDE DEF n, out
    <3> QED
      BY <1>1, <2>1, ConcatAdjacentSubSeq
  <2> QED
    BY <1>1, <2>2, SubSeqFull
<1>5. /\ w.role = v.role /\ w.msg = v.msg /\ w.down = v.down /\ w.room = v.room - n
      /\ w.put = v.put \o a /\ w.c = [v.c EXCEPT !.out = b]
  BY DEF Views
<1>8. \/ r.v = v /\ r.res \in {"ok", "reset"}
      \/ r.v = w /\ r.res \in {"ok", "block"}
  <2>1. CASE out = <<>>
    BY <2>1 DEF WriteOutBuffer, R
  <2>2. CASE out # <<>>
    <3>1. r \in {R(w, IF w.c.out = <<>> THEN "ok" ELSE "block")} \cup (IF v.down THEN {R(v, "reset")} ELSE {})
      BY <2>2, Zenon DEF WriteOutBuffer
    <3> HIDE DEF w
    <3> QED
      BY <3>1 DEF R
  <2> QED
    BY <2>1, <2>2
<1>9. out = v.c.out
  OBVIOUS
<1>7. w \in Views
  <2>1. [v.c EXCEPT !.out = b] \in Contexts
    <3> HIDE DEF a, b, n, out, w
    <3> QED
      BY <1>1, <1>3, ContextWith
  <2>2. v.put \o a \in Seq(Frame) /\ v.room - n \in Nat
    BY <1>1, <1>2, <1>3, ConcatProperties
  <2>3. w = [v EXCEPT !.c = [v.c EXCEPT !.out = b], !.room = v.room - n, !.put = v.put \o a]
    OBVIOUS
  <2> HIDE DEF w, a, b, n
  <2> QED
    BY <2>1, <2>2, <2>3, ViewWith
<1> HIDE DEF a, b, n, out, w
<1>12. a \in Seq(Frame) /\ b \in Seq(Frame) /\ v.put \o a \in Seq(Frame) /\ Len(v.put \o a) = Len(v.put) + n
  BY <1>1, <1>3, ConcatProperties
<1>6. /\ w.c.out = b /\ w.c.state = v.c.state /\ w.c.additional = v.c.additional
      /\ w.c.incomplete = v.c.incomplete /\ w.c \in Contexts
  BY <1>1, <1>3, <1>5 DEF Contexts
<1>10. CASE r.v = v
  BY <1>8, <1>10 DEF Keeps
<1>11. CASE r.v = w
  <2>1. Accepted(w) = Accepted(v)
    <3>1. (v.put \o a) \o b = v.put \o (a \o b)
      BY <1>1, <1>12, FramesAssociative
    <3> QED
      BY <3>1, <1>4, <1>5, <1>6, <1>9 DEF Accepted
  <2>2. Len(w.put) = Len(v.put) + n
    BY <1>5, <1>12
  <2>3. Len(w.put) + w.room = Len(v.put) + v.room
    BY <1>1, <1>2, <1>5, <2>2
  <2>4. Len(w.c.out) <= Len(v.c.out)
    BY <1>1, <1>2, <1>3, <1>6, <1>9
  <2>5. Len(v.c.out) <= MaxOut => Len(w.c.out) <= MaxOut
    BY <1>1, <1>3, <1>6, <1>9, <2>4, BoundsKnown, LenProperties
  <2>6. Keeps(v, w)
    BY <1>5, <1>6, <1>7, <2>3, <2>5 DEF Keeps
  <2> QED
    BY <1>6, <1>8, <1>11, <2>1, <2>6
<1> QED
  BY <1>8, <1>10, <1>11

\* w is v with frame f accepted as well.
Accepts(v, w, f) ==
    /\ Keeps(v, w) /\ Accepted(w) = Append(Accepted(v), f)
    /\ w.c.state = v.c.state /\ w.c.additional = v.c.additional

\* Keeping composes.
LEMMA KeepsTwice ==
  ASSUME NEW u \in Views, NEW v \in Views, NEW w \in Views, Keeps(u, v), Keeps(v, w)
  PROVE  Keeps(u, w)
BY DEF Keeps

\* The two buffer_frame accept the frame, or leave everything as it is when the buffer is
\* full; a reset is reported as the end of a connection whose peer has closed.
LEMMA BufferFrameAccepts ==
  ASSUME NEW v \in Views, NEW op \in DataOps \cup ControlOps \cup {"Close"},
         NEW n \in 0 .. MaxMessages, NEW r \in BufferFrame(v, op, n)
  PROVE  /\ FrameOf(v, op, n) \in Frame
         /\ \/ r = R(v, "full")
            \/ /\ Accepts(v, r.v, FrameOf(v, op, n))
               /\ r.res \in {"ok", "block", "reset", "closed"}
               /\ r.res = "closed" => ~CanRead(v.c.state)
<1> DEFINE f == FrameOf(v, op, n)
           w == [v EXCEPT !.c.out = Append(@, f)]
<1>1. f \in Frame
  BY DEF Frame, FrameOf
<1>2. PICK q \in BufferInCodec(v, f) : r = CheckReset(q)
  BY DEF BufferFrame, FrameOf
<1> HIDE DEF f
<1>3. Append(v.c.out, f) \in Seq(Frame) /\ Len(Append(v.c.out, f)) = Len(v.c.out) + 1
  BY <1>1, ViewFields, AppendProperties
<1>4. w \in Views
  <2>1. [v.c EXCEPT !.out = Append(v.c.out, f)] \in Contexts
    BY <1>3, ViewFields, ContextWith
  <2>2. w = [v EXCEPT !.c = [v.c EXCEPT !.out = Append(v.c.out, f)]]
    OBVIOUS
  <2> QED
    BY <2>1, <2>2, ViewWith
<1>5. /\ w.role = v.role /\ w.msg = v.msg /\ w.room = v.room /\ w.put = v.put
      /\ w.c.out = Append(v.c.out, f) /\ w.c.state = v.c.state
      /\ w.c.additional = v.c.additional /\ w.c.incomplete = v.c.incomplete
  BY ViewFields DEF Views, Contexts
<1>6. q \in IF Len(w.c.out) > MaxOut THEN {R(v, "full")}
            ELSE IF Len(w.c.out) > WriteLen THEN WriteOutBuffer(w) ELSE {R(w, "ok")}
  BY <1>2, Zenon DEF BufferInCodec
<1> HIDE DEF w
<1>7. Accepted(w) = Append(Accepted(v), f)
  <2>4. Accepted(v) \in Seq(Frame) /\ v.c.out \in Seq(Frame)
    BY ViewFields
  <2>5. f \in Frame
    BY <1>1
  <2>6. \A q2 \in Seq(Frame) : Append(q2, f) = q2 \o <<f>>
    <3> HIDE DEF f
    <3> QED
      BY <2>5, AppendIsConcat
  <2>1. Append(v.c.out, f) = v.c.out \o <<f>> /\ <<f>> \in Seq(Frame)
    BY <2>4, <2>5, <2>6
  <2>2. Append(Accepted(v), f) = Accepted(v) \o <<f>>
    BY <2>4, <2>6
  <2>3. (v.put \o v.c.out) \o <<f>> = v.put \o (v.c.out \o <<f>>)
    BY <2>1, ViewFields, FramesAssociative
  <2> QED
    BY <1>5, <2>1, <2>2, <2>3 DEF Accepted
<1>8. CASE Len(w.c.out) > MaxOut
  <2>1. q = R(v, "full")
    BY <1>6, <1>8
  <2>2. r = q
    BY <1>2, <2>1 DEF R, CheckReset
  <2> QED
    BY <1>1, <2>1, <2>2 DEF f
<1>9. CASE ~(Len(w.c.out) > MaxOut)
  <2>1. Keeps(v, w)
    BY <1>3, <1>4, <1>5, <1>9, BoundsKnown, ViewFields DEF Keeps
  <2>2. /\ Keeps(w, q.v) /\ Accepted(q.v) = Accepted(w) /\ q.res \in {"ok", "block", "reset"}
        /\ q.v.c.state = w.c.state /\ q.v.c.additional = w.c.additional
    <3>1. CASE q \in WriteOutBuffer(w)
      BY <1>4, <3>1, WriteOutBufferMoves
    <3>2. CASE q = R(w, "ok")
      BY <1>4, <3>2 DEF R, Keeps
    <3> QED
      BY <1>6, <1>9, <3>1, <3>2
  <2>3. q.v \in Views /\ Keeps(v, q.v)
    BY <1>4, <2>1, <2>2, KeepsTwice DEF Keeps
  <2>4. Accepts(v, q.v, f)
    BY <1>5, <1>7, <2>2, <2>3 DEF Accepts
  <2>5. r.v = q.v /\ r.res \in {"ok", "block", "reset", "closed"} /\ (r.res = "closed" => ~CanRead(q.v.c.state))
    BY <1>2, <2>2 DEF CheckReset, R
  <2> QED
    BY <1>1, <1>5, <2>2, <2>4, <2>5 DEF f
<1> QED
  BY <1>8, <1>9

-----------------------------------------------------------------------------
(* The methods that add no frame of the user's.                            *)

\* Such a method sends additional_send or leaves it, and moves the state only to end the
\* connection of a server that has nothing more to read.
Advances(v, r) ==
    /\ Keeps(v, r.v)
    /\ \/ Accepted(r.v) = Accepted(v) /\ r.v.c.additional = v.c.additional
       \/ /\ v.c.additional # None /\ r.v.c.additional = None
          /\ Accepted(r.v) = Append(Accepted(v), FrameOf(v, v.c.additional, 0))
    /\ \/ r.v.c.state = v.c.state
       \/ ~CanRead(v.c.state) /\ r.v.c.state = "Terminated" /\ r.res = "closed"
    /\ r.res \in {"ok", "flush", "block", "reset", "closed"}
    /\ r.res = "closed" => ~CanRead(v.c.state)

\* One such method after another, once additional_send is gone or untouched.
LEMMA AdvancesThen ==
  ASSUME NEW v \in Views, NEW q, NEW r, Advances(v, q), IsOk(q),
         q.v \in Views, Keeps(q.v, r.v), Accepted(r.v) = Accepted(q.v),
         r.v.c.additional = q.v.c.additional,
         \/ r.v.c.state = q.v.c.state
         \/ ~CanRead(q.v.c.state) /\ r.v.c.state = "Terminated" /\ r.res = "closed",
         r.res \in {"ok", "flush", "block", "reset", "closed"},
         r.res = "closed" => ~CanRead(q.v.c.state)
  PROVE  Advances(v, r)
<1>1. q.v.c.state = v.c.state
  BY DEF Advances, IsOk
<1>2. r.v \in Views /\ Keeps(v, r.v)
  BY KeepsTwice DEF Advances, Keeps
<1> QED
  BY <1>1, <1>2 DEF Advances

\* additional_send is taken out, and put back when the buffer is full.
LEMMA SendAdditionalAdvances ==
  ASSUME NEW v \in Views, NEW r \in SendAdditional(v)
  PROVE  Advances(v, r) /\ r.v.c.state = v.c.state
<1>1. CASE v.c.additional = None
  BY <1>1 DEF SendAdditional, R, Advances, Keeps
<1>2. CASE v.c.additional # None
  <2> DEFINE u == [v EXCEPT !.c.additional = None]
             a == v.c.additional
  <2>1. PICK q \in BufferFrame(u, a, 0) :
            r = CASE q.res = "full" -> R(SetAdditional(q.v, a), "ok")
                  [] q.res = "ok"   -> R(q.v, "flush")
                  [] OTHER          -> q
    BY <1>2, Zenon DEF SendAdditional
  <2>2. u \in Views
    <3>1. [v.c EXCEPT !.additional = None] \in Contexts
      BY ViewFields, ContextWith
    <3>2. u = [v EXCEPT !.c = [v.c EXCEPT !.additional = None]]
      OBVIOUS
    <3> QED
      BY <3>1, <3>2, ViewWith
  <2>3. /\ u.role = v.role /\ u.msg = v.msg /\ u.room = v.room /\ u.put = v.put
        /\ u.c.out = v.c.out /\ u.c.state = v.c.state
        /\ u.c.additional = None /\ u.c.incomplete = v.c.incomplete
    BY ViewFields DEF Views, Contexts
  <2>4. SetAdditional(u, a) = v
    <3>1. v = [v EXCEPT !.c.additional = a]
      BY DEF Views, Contexts
    <3>2. [u EXCEPT !.c.additional = a] = [v EXCEPT !.c.additional = a]
      BY DEF Views, Contexts
    <3> HIDE DEF u, a
    <3> QED
      BY <2>3, <3>1, <3>2 DEF SetAdditional
  <2>5. a \in {"Pong", "Close"} /\ 0 \in 0 .. MaxMessages
    BY <1>2, ViewFields, BoundsKnown
  <2>6. FrameOf(u, a, 0) = FrameOf(v, a, 0)
    BY <2>3 DEF FrameOf
  <2>7. Accepted(u) = Accepted(v) /\ Keeps(v, u)
    BY <2>2, <2>3 DEF Accepted, Keeps
  <2> HIDE DEF u, a
  <2>8. \/ q.res = "full" /\ q.v = u
        \/ /\ Accepts(u, q.v, FrameOf(u, a, 0)) /\ q.res \in {"ok", "block", "reset", "closed"}
           /\ q.res = "closed" => ~CanRead(u.c.state)
    BY <2>2, <2>5, BufferFrameAccepts DEF ControlOps, R
  <2>9. CASE q.res = "full" /\ q.v = u
    <3>1. r = R(v, "ok")
      BY <2>1, <2>4, <2>9
    <3> QED
      BY <3>1 DEF R, Advances, Keeps
  <2>10. CASE /\ Accepts(u, q.v, FrameOf(u, a, 0)) /\ q.res \in {"ok", "block", "reset", "closed"}
              /\ q.res = "closed" => ~CanRead(u.c.state)
    <3>1. /\ r.v = q.v /\ r.res \in {"flush", "block", "reset", "closed"}
          /\ r.res = "closed" => q.res = "closed"
      <4>1. CASE q.res = "ok"
        BY <2>1, <4>1 DEF R
      <4>2. CASE q.res \in {"block", "reset", "closed"}
        <5>1. r = q
          BY <2>1, <4>2
        <5> QED
          BY <4>2, <5>1
      <4> QED
        BY <2>10, <4>1, <4>2
    <3>2. q.v \in Views /\ Keeps(v, q.v)
      BY <2>2, <2>7, <2>10, KeepsTwice DEF Accepts, Keeps
    <3>3. Accepted(r.v) = Append(Accepted(v), FrameOf(v, a, 0)) /\ r.v.c.additional = None /\ r.v.c.state = v.c.state
      BY <2>3, <2>6, <2>7, <2>10, <3>1 DEF Accepts
    <3> QED
      BY <1>2, <2>3, <2>10, <3>1, <3>2, <3>3 DEF Advances, a
  <2> QED
    BY <2>8, <2>9, <2>10
<1> QED
  BY <1>1, <1>2

\* The state of a view set to s.
LEMMA WithState ==
  ASSUME NEW v \in Views, NEW s \in States
  PROVE  LET w == [v EXCEPT !.c.state = s] IN
         /\ w \in Views /\ Keeps(v, w) /\ Accepted(w) = Accepted(v) /\ w.c.state = s
         /\ w.c.additional = v.c.additional /\ w.role = v.role /\ w.put = v.put
         /\ w.room = v.room /\ w.c.out = v.c.out
<1> DEFINE w == [v EXCEPT !.c.state = s]
<1>1. w \in Views
  <2>1. [v.c EXCEPT !.state = s] \in Contexts
    BY ViewFields, ContextWith
  <2>2. w = [v EXCEPT !.c = [v.c EXCEPT !.state = s]]
    OBVIOUS
  <2> QED
    BY <2>1, <2>2, ViewWith
<1>2. /\ w.role = v.role /\ w.msg = v.msg /\ w.room = v.room /\ w.put = v.put
      /\ w.c.out = v.c.out /\ w.c.state = s
      /\ w.c.additional = v.c.additional /\ w.c.incomplete = v.c.incomplete
  BY ViewFields DEF Views, Contexts
<1> HIDE DEF w
<1>3. Accepted(w) = Accepted(v) /\ Keeps(v, w)
  BY <1>1, <1>2 DEF Accepted, Keeps
<1> QED
  BY <1>1, <1>2, <1>3 DEF w

\* A server whose peer has closed writes what it has and ends.
LEMMA ServerMayEndMoves ==
  ASSUME NEW v \in Views, NEW res \in {"ok", "flush"}, NEW r \in ServerMayEnd(v, res)
  PROVE  /\ Keeps(v, r.v) /\ Accepted(r.v) = Accepted(v)
         /\ r.v.c.additional = v.c.additional
         /\ \/ r.v.c.state = v.c.state
            \/ ~CanRead(v.c.state) /\ r.v.c.state = "Terminated" /\ r.res = "closed"
         /\ r.res \in {"ok", "flush", "block", "reset", "closed"}
         /\ r.res = "closed" => ~CanRead(v.c.state)
<1>1. CASE v.role = "client" \/ CanRead(v.c.state)
  <2>1. r = R(v, res)
    BY <1>1 DEF ServerMayEnd
  <2> QED
    BY <2>1 DEF R, Keeps
<1>2. CASE ~(v.role = "client" \/ CanRead(v.c.state))
  <2>1. PICK q \in WriteOutBuffer(v) :
            r = IF IsOk(q) THEN R([q.v EXCEPT !.c.state = "Terminated"], "closed") ELSE q
    BY <1>2, Zenon DEF ServerMayEnd
  <2>2. /\ Keeps(v, q.v) /\ Accepted(q.v) = Accepted(v) /\ q.res \in {"ok", "block", "reset"}
        /\ q.v.c.state = v.c.state /\ q.v.c.additional = v.c.additional
    BY WriteOutBufferMoves
  <2>3. CASE IsOk(q)
    <3> DEFINE w == [q.v EXCEPT !.c.state = "Terminated"]
    <3>1. q.v \in Views /\ "Terminated" \in States
      BY <2>2 DEF Keeps, States
    <3>2. /\ w \in Views /\ Keeps(q.v, w) /\ Accepted(w) = Accepted(q.v)
          /\ w.c.state = "Terminated" /\ w.c.additional = q.v.c.additional
      BY <3>1, WithState
    <3>3. r.v = w /\ r.res = "closed"
      BY <2>1, <2>3 DEF R
    <3> HIDE DEF w
    <3>4. Keeps(v, w)
      BY <2>2, <3>1, <3>2, KeepsTwice
    <3> QED
      BY <1>2, <2>2, <3>2, <3>3, <3>4
  <2>4. CASE ~IsOk(q)
    BY <2>1, <2>2, <2>4 DEF IsOk
  <2> QED
    BY <2>3, <2>4
<1> QED
  BY <1>1, <1>2

\* _write(None).
LEMMA WriteRestAdvances ==
  ASSUME NEW v \in Views, NEW r \in WriteRest(v)
  PROVE  Advances(v, r)
<1>1. PICK q \in SendAdditional(v) : r \in IF IsOk(q) THEN ServerMayEnd(q.v, q.res) ELSE {q}
  BY DEF WriteRest
<1>2. Advances(v, q) /\ q.v \in Views
  BY SendAdditionalAdvances DEF Advances, Keeps
<1>3. CASE IsOk(q)
  <2>1. q.res \in {"ok", "flush"} /\ r \in ServerMayEnd(q.v, q.res)
    BY <1>1, <1>3 DEF IsOk
  <2> QED
    BY <1>2, <1>3, <2>1, ServerMayEndMoves, AdvancesThen
<1>4. CASE ~IsOk(q)
  BY <1>1, <1>2, <1>4
<1> QED
  BY <1>3, <1>4

\* flush.
LEMMA FlushAdvances ==
  ASSUME NEW v \in Views, NEW r \in Flush(v)
  PROVE  Advances(v, r)
<1>1. PICK q \in WriteRest(v) : r \in IF IsOk(q) THEN WriteOutBuffer(q.v) ELSE {q}
  BY DEF Flush, Try
<1>2. Advances(v, q) /\ q.v \in Views
  BY WriteRestAdvances DEF Advances, Keeps
<1>3. CASE IsOk(q)
  <2>1. r \in WriteOutBuffer(q.v)
    BY <1>1, <1>3
  <2>2. /\ Keeps(q.v, r.v) /\ Accepted(r.v) = Accepted(q.v) /\ r.res \in {"ok", "block", "reset"}
        /\ r.v.c.state = q.v.c.state /\ r.v.c.additional = q.v.c.additional
    BY <1>2, <2>1, WriteOutBufferMoves
  <2> QED
    BY <1>2, <1>3, <2>2, AdvancesThen
<1>4. CASE ~IsOk(q)
  BY <1>1, <1>2, <1>4
<1> QED
  BY <1>3, <1>4
-----------------------------------------------------------------------------
(* Lines of frames.                                                        *)

\* Where a sequence of messages and fragments stands: two steps to a message, the first
\* of which is the first of its fragments.
From(f) == IF f.op = "Last" THEN 2 * f.n - 1 ELSE 2 * f.n - 2
To(f) == IF f.op = "First" THEN 2 * f.n - 1 ELSE 2 * f.n
Half(b) == IF b THEN 1 ELSE 0

\* st is where the reader of line s will stand before each frame and behind the last one:
\* it starts at a, never passes z, and if the line is whole stands at z once only control
\* frames are left.
PathOf(st, s, a, z, whole) ==
    /\ st[1] = a
    /\ \A i \in 1 .. Len(s) : IF s[i].op \in DataOps THEN st[i] = From(s[i]) /\ st[i + 1] = To(s[i])
                              ELSE st[i + 1] = st[i]
    /\ \A i \in 1 .. Len(s) + 1 : st[i] <= z
    /\ whole => \A i \in 1 .. Len(s) + 1 :
                    (\A j \in i .. Len(s) : s[j].op \notin DataOps) => st[i] = z
Path(s, a, z, whole) == \E st \in [1 .. Len(s) + 1 -> Nat] : PathOf(st, s, a, z, whole)

\* The client's frames are masked and the server's are not.
Masked(s, e) == \A i \in 1 .. Len(s) : s[i].masked <=> e = "client"

\* Behind a close frame, in the line or read from it already, there are only pongs.
PongsBehindClose(s, gone) ==
    /\ \A i, j \in 1 .. Len(s) : i < j /\ s[i].op = "Close" => s[j].op = "Pong"
    /\ gone => \A j \in 1 .. Len(s) : s[j].op = "Pong"

\* What a frame appended to a line does to its path.
LEMMA PathAppend ==
  ASSUME NEW s \in Seq(Frame), NEW f \in Frame, NEW a \in Nat, NEW z \in Nat, NEW y \in Nat,
         Path(s, a, z, TRUE),
         IF f.op \in DataOps THEN z = From(f) /\ y = To(f) ELSE y = z
  PROVE  Path(Append(s, f), a, y, TRUE)
<1> DEFINE n == Len(s)
           t == Append(s, f)
<1>1. PICK st \in [1 .. Len(s) + 1 -> Nat] : PathOf(st, s, a, z, TRUE)
  BY DEF Path
<1> DEFINE su == [i \in 1 .. n + 2 |-> IF i <= n + 1 THEN st[i] ELSE y]
<1>2. /\ n \in Nat /\ t \in Seq(Frame) /\ Len(t) = n + 1
      /\ \A i \in 1 .. n : t[i] = s[i]
      /\ t[n + 1] = f
  BY AppendProperties, LenProperties
<1>3. st[n + 1] = z
  <2>1. n + 1 \in 1 .. n + 1 /\ n + 1 .. n = {}
    BY <1>2
  <2> QED
    BY <1>1, <2>1 DEF PathOf
<1>4. z <= y
  BY DEF From, To, Frame
<1>5. /\ su \in [1 .. Len(t) + 1 -> Nat] /\ su[n + 2] = y
      /\ \A i \in 1 .. n + 1 : su[i] = st[i]
  BY <1>2
<1> HIDE DEF su, t, n
<1>6. su[1] = a
  BY <1>1, <1>2, <1>5 DEF PathOf
<1>7. ASSUME NEW i \in 1 .. Len(t)
      PROVE  IF t[i].op \in DataOps THEN su[i] = From(t[i]) /\ su[i + 1] = To(t[i])
             ELSE su[i + 1] = su[i]
  <2>1. CASE i \in 1 .. n
    <3>1. t[i] = s[i] /\ su[i] = st[i] /\ su[i + 1] = st[i + 1] /\ i \in 1 .. Len(s)
      BY <1>2, <1>5, <2>1 DEF n
    <3> QED
      BY <1>1, <3>1 DEF PathOf
  <2>2. CASE i = n + 1
    <3>1. t[i] = f /\ su[i] = z /\ su[i + 1] = y
      BY <1>2, <1>3, <1>5, <2>2
    <3> QED
      BY <3>1
  <2> QED
    BY <1>2, <2>1, <2>2
<1>8. ASSUME NEW i \in 1 .. Len(t) + 1 PROVE su[i] <= y
  <2>1. CASE i \in 1 .. n + 1
    <3>1. su[i] = st[i] /\ st[i] <= z /\ st[i] \in Nat
      BY <1>1, <1>5, <2>1 DEF PathOf, n
    <3> QED
      BY <1>4, <3>1
  <2>2. CASE i = n + 2
    BY <1>5, <2>2
  <2> QED
    BY <1>2, <2>1, <2>2
<1>9. ASSUME NEW i \in 1 .. Len(t) + 1, \A j \in i .. Len(t) : t[j].op \notin DataOps
      PROVE  su[i] = y
  <2>1. CASE i = n + 2
    BY <1>5, <2>1
  <2>2. CASE i \in 1 .. n + 1
    <3>1. n + 1 \in i .. Len(t)
      BY <1>2, <2>2
    <3>2. f.op \notin DataOps
      BY <1>2, <1>9, <3>1
    <3>3. \A j \in i .. n : j \in 1 .. n /\ j \in i .. Len(t)
      BY <1>2, <2>2
    <3>4. \A j \in i .. n : s[j].op \notin DataOps
      BY <1>2, <1>9, <3>3
    <3>5. st[i] = z
      BY <1>1, <2>2, <3>4 DEF PathOf, n
    <3> QED
      BY <1>5, <2>2, <3>2, <3>5
  <2> QED
    BY <1>2, <2>1, <2>2
<1>10. PathOf(su, t, a, y, TRUE)
  BY <1>6, <1>7, <1>8, <1>9 DEF PathOf
<1> QED
  BY <1>5, <1>10 DEF Path, t

\* What the reader does to it: the first frame fits where the reader stands, and what is
\* left is a path from behind that frame.
LEMMA PathTail ==
  ASSUME NEW s \in Seq(Frame), s # <<>>, NEW a \in Nat, NEW z \in Nat, NEW whole \in BOOLEAN,
         Path(s, a, z, whole)
  PROVE  LET b == IF Head(s).op \in DataOps THEN To(Head(s)) ELSE a IN
         /\ Head(s).op \in DataOps => a = From(Head(s))
         /\ b \in Nat /\ b <= z /\ Path(Tail(s), b, z, whole)
<1> DEFINE n == Len(s)
           t == Tail(s)
           b == IF Head(s).op \in DataOps THEN To(Head(s)) ELSE a
<1>1. PICK st \in [1 .. Len(s) + 1 -> Nat] : PathOf(st, s, a, z, whole)
  BY DEF Path
<1> DEFINE su == [i \in 1 .. n |-> st[i + 1]]
<1>2. /\ n \in Nat /\ n >= 1 /\ t \in Seq(Frame) /\ Len(t) = n - 1
      /\ \A i \in 1 .. n - 1 : t[i] = s[i + 1]
      /\ Head(s) = s[1] /\ Head(s) \in Frame
  BY HeadTailProperties, LenProperties, EmptySeq
<1>3. su \in [1 .. Len(t) + 1 -> Nat] /\ \A i \in 1 .. n : su[i] = st[i + 1]
  BY <1>2
<1> HIDE DEF su, t, n
<1>4. /\ st[1] = a /\ st[2] = b /\ (Head(s).op \in DataOps => a = From(Head(s)))
      /\ st[2] \in Nat /\ st[2] <= z
  <2>1. 1 \in 1 .. Len(s) /\ 2 \in 1 .. Len(s) + 1
    BY <1>2 DEF n
  <2>2. IF s[1].op \in DataOps THEN st[1] = From(s[1]) /\ st[1 + 1] = To(s[1]) ELSE st[1 + 1] = st[1]
    BY <1>1, <2>1 DEF PathOf
  <2>3. st[1] = a /\ st[2] \in Nat /\ st[2] <= z
    BY <1>1, <2>1 DEF PathOf
  <2> QED
    BY <1>2, <2>2, <2>3
<1> HIDE DEF b
<1>5. su[1] = b
  BY <1>2, <1>3, <1>4
<1>6. ASSUME NEW i \in 1 .. Len(t)
      PROVE  IF t[i].op \in DataOps THEN su[i] = From(t[i]) /\ su[i + 1] = To(t[i])
             ELSE su[i + 1] = su[i]
  <2>1. i + 1 \in 1 .. Len(s) /\ t[i] = s[i + 1] /\ su[i] = st[i + 1] /\ su[i + 1] = st[i + 1 + 1]
    BY <1>2, <1>3 DEF n
  <2> DEFINE k == i + 1
  <2>2. IF s[k].op \in DataOps THEN st[k] = From(s[k]) /\ st[k + 1] = To(s[k]) ELSE st[k + 1] = st[k]
    <3> HIDE DEF k
    <3> QED
      BY <1>1, <2>1 DEF PathOf, k
  <2> QED
    BY <2>1, <2>2
<1>7. ASSUME NEW i \in 1 .. Len(t) + 1 PROVE su[i] <= z
  <2>1. i + 1 \in 1 .. Len(s) + 1 /\ su[i] = st[i + 1]
    BY <1>2, <1>3 DEF n
  <2> QED
    BY <1>1, <2>1 DEF PathOf
<1>8. ASSUME whole, NEW i \in 1 .. Len(t) + 1, \A j \in i .. Len(t) : t[j].op \notin DataOps
      PROVE  su[i] = z
  <2>1. i + 1 \in 1 .. Len(s) + 1 /\ su[i] = st[i + 1]
    BY <1>2, <1>3 DEF n
  <2>2. ASSUME NEW j \in i + 1 .. Len(s) PROVE s[j].op \notin DataOps
    <3>1. j - 1 \in i .. Len(t) /\ j - 1 \in 1 .. n - 1 /\ (j - 1) + 1 = j
      BY <1>2 DEF n
    <3>2. t[j - 1] = s[(j - 1) + 1]
      BY <1>2, <3>1
    <3> QED
      BY <1>8, <3>1, <3>2
  <2> QED
    BY <1>1, <1>8, <2>1, <2>2 DEF PathOf
<1>9. PathOf(su, t, b, z, whole)
  BY <1>5, <1>6, <1>7, <1>8 DEF PathOf
<1> QED
  BY <1>3, <1>4, <1>9 DEF Path, t, b

\* A line whose last part is lost is still a path, and is as whole as it was if only
\* control frames are lost.
LEMMA PathPrefix ==
  ASSUME NEW s \in Seq(Frame), NEW t \in Seq(Frame), NEW a \in Nat, NEW z \in Nat
  PROVE  /\ Path(s \o t, a, z, FALSE) => Path(s, a, z, FALSE)
         /\ Path(s \o t, a, z, TRUE) /\ (\A j \in 1 .. Len(t) : t[j].op \notin DataOps) =>
                Path(s, a, z, TRUE)
<1>1. ASSUME NEW u \in BOOLEAN, Path(s \o t, a, z, u),
             u => \A j \in 1 .. Len(t) : t[j].op \notin DataOps
      PROVE  Path(s, a, z, u)
  <2> DEFINE n == Len(s)
             l == s \o t
  <2>1. PICK st \in [1 .. Len(s \o t) + 1 -> Nat] : PathOf(st, s \o t, a, z, u)
    BY <1>1 DEF Path
  <2> DEFINE su == [i \in 1 .. n + 1 |-> st[i]]
  <2>2. /\ n \in Nat /\ Len(t) \in Nat /\ l \in Seq(Frame) /\ Len(l) = n + Len(t)
        /\ \A i \in 1 .. n + Len(t) : l[i] = IF i <= n THEN s[i] ELSE t[i - n]
    BY ConcatProperties, LenProperties
  <2>3. su \in [1 .. n + 1 -> Nat] /\ \A i \in 1 .. n + 1 : su[i] = st[i]
    BY <2>2
  <2> HIDE DEF su, n
  <2>4. su[1] = a
    BY <2>1, <2>2, <2>3 DEF PathOf
  <2>5. ASSUME NEW i \in 1 .. n
        PROVE  IF s[i].op \in DataOps THEN su[i] = From(s[i]) /\ su[i + 1] = To(s[i])
               ELSE su[i + 1] = su[i]
    <3>1. i \in 1 .. Len(l) /\ l[i] = s[i] /\ su[i] = st[i] /\ su[i + 1] = st[i + 1]
      BY <2>2, <2>3
    <3>2. IF l[i].op \in DataOps THEN st[i] = From(l[i]) /\ st[i + 1] = To(l[i]) ELSE st[i + 1] = st[i]
      BY <2>1, <3>1 DEF PathOf
    <3> HIDE DEF l
    <3> QED
      BY <3>1, <3>2
  <2>6. ASSUME NEW i \in 1 .. n + 1 PROVE su[i] <= z
    <3>1. i \in 1 .. Len(l) + 1 /\ su[i] = st[i]
      BY <2>2, <2>3
    <3> QED
      BY <2>1, <3>1 DEF PathOf
  <2>7. ASSUME u, NEW i \in 1 .. n + 1, \A j \in i .. n : s[j].op \notin DataOps
        PROVE  su[i] = z
    <3>1. i \in 1 .. Len(l) + 1 /\ su[i] = st[i]
      BY <2>2, <2>3
    <3>2. ASSUME NEW j \in i .. Len(l) PROVE l[j].op \notin DataOps
      <4>1. CASE j <= n
        <5>1. j \in i .. n /\ l[j] = s[j]
          BY <2>2, <4>1
        <5> QED
          BY <2>7, <5>1
      <4>2. CASE ~(j <= n)
        <5>1. j - n \in 1 .. Len(t) /\ l[j] = t[j - n]
          BY <2>2, <4>2
        <5> HIDE DEF l
        <5> QED
          BY <1>1, <2>7, <5>1
      <4> QED
        BY <4>1, <4>2
    <3>3. u
      BY <2>7
    <3> QED
      BY <2>1, <3>1, <3>2, <3>3 DEF PathOf
  <2>8. PathOf(su, s, a, z, u)
    BY <2>4, <2>5, <2>6, <2>7 DEF PathOf, n
  <2> QED
    BY <2>3, <2>8 DEF Path, n
<1> DEFINE Control == \A j \in 1 .. Len(t) : t[j].op \notin DataOps
           P(u) == Path(s \o t, a, z, u)
           Q(u) == Path(s, a, z, u)
<1>2. \A u \in BOOLEAN : P(u) /\ (u => Control) => Q(u)
  BY <1>1
<1> HIDE DEF Control, P, Q
<1>3. (P(FALSE) => Q(FALSE)) /\ (P(TRUE) /\ Control => Q(TRUE))
  BY <1>2, Zenon
<1> QED
  BY <1>3 DEF Control, P, Q

\* Nothing but control frames left to read: the reader stands where the writer does.
LEMMA PathRead ==
  ASSUME NEW s \in Seq(Frame), NEW a \in Nat, NEW z \in Nat, Path(s, a, z, TRUE),
         \A j \in 1 .. Len(s) : s[j].op \notin DataOps
  PROVE  a = z
<1>1. PICK st \in [1 .. Len(s) + 1 -> Nat] : PathOf(st, s, a, z, TRUE)
  BY DEF Path
<1>2. 1 \in 1 .. Len(s) + 1
  BY LenProperties
<1> QED
  BY <1>1, <1>2 DEF PathOf

\* A frame accepted behind a close frame is a pong, so there stay only pongs behind it.
LEMMA PongsAppend ==
  ASSUME NEW s \in Seq(Frame), NEW f \in Frame, NEW g \in BOOLEAN, PongsBehindClose(s, g),
         f.op = "Pong" \/ (~g /\ CloseFrames(s) = 0)
  PROVE  PongsBehindClose(Append(s, f), g)
<1> DEFINE n == Len(s)
           t == Append(s, f)
<1>1. n \in Nat /\ Len(t) = n + 1 /\ (\A i \in 1 .. n : t[i] = s[i]) /\ t[n + 1] = f
  BY AppendProperties, LenProperties
<1>2. f.op # "Pong" => ~g /\ \A i \in 1 .. n : s[i].op # "Close"
  BY CloseFramesType
<1> HIDE DEF t, n
<1>3. ASSUME NEW i \in 1 .. n + 1, NEW j \in 1 .. n + 1, i < j, t[i].op = "Close"
      PROVE  t[j].op = "Pong"
  <2>1. i \in 1 .. n /\ s[i].op = "Close"
    BY <1>1, <1>3
  <2>2. CASE j = n + 1
    BY <1>1, <1>2, <2>1, <2>2
  <2>3. CASE j \in 1 .. n
    BY <1>1, <1>3, <2>1, <2>3 DEF PongsBehindClose, n
  <2> QED
    BY <1>1, <2>2, <2>3
<1>4. ASSUME g, NEW j \in 1 .. n + 1 PROVE t[j].op = "Pong"
  <2>1. CASE j = n + 1
    BY <1>1, <1>2, <1>4, <2>1
  <2>2. CASE j \in 1 .. n
    BY <1>1, <1>4, <2>2 DEF PongsBehindClose, n
  <2> QED
    BY <1>1, <2>1, <2>2
<1> QED
  BY <1>1, <1>3, <1>4 DEF PongsBehindClose, t

\* Reading the first frame leaves only pongs if that is the close frame.
LEMMA PongsTail ==
  ASSUME NEW s \in Seq(Frame), s # <<>>, NEW g \in BOOLEAN, NEW h \in BOOLEAN, PongsBehindClose(s, g),
         h => g \/ Head(s).op = "Close"
  PROVE  PongsBehindClose(Tail(s), h)
<1> DEFINE n == Len(s)
           t == Tail(s)
<1>1. /\ n \in Nat /\ n >= 1 /\ Len(t) = n - 1 /\ \A i \in 1 .. n - 1 : t[i] = s[i + 1]
      /\ Head(s) = s[1]
  BY HeadTailProperties, LenProperties, EmptySeq
<1> HIDE DEF t, n
<1>2. ASSUME NEW i \in 1 .. n - 1, NEW j \in 1 .. n - 1, i < j, t[i].op = "Close"
      PROVE  t[j].op = "Pong"
  <2>1. i + 1 \in 1 .. n /\ j + 1 \in 1 .. n /\ i + 1 < j + 1 /\ t[i] = s[i + 1] /\ t[j] = s[j + 1]
    BY <1>1, <1>2
  <2> QED
    BY <1>2, <2>1 DEF PongsBehindClose, n
<1>3. ASSUME h, NEW j \in 1 .. n - 1 PROVE t[j].op = "Pong"
  <2>1. 1 \in 1 .. n /\ j + 1 \in 1 .. n /\ 1 < j + 1 /\ t[j] = s[j + 1]
    BY <1>1
  <2>2. g \/ s[1].op = "Close"
    BY <1>1, <1>3
  <2> QED
    BY <2>1, <2>2 DEF PongsBehindClose, n
<1> QED
  BY <1>1, <1>2, <1>3 DEF PongsBehindClose, t

\* The masking of a line, when a frame is appended ...
LEMMA MaskedAppend ==
  ASSUME NEW s \in Seq(Frame), NEW f \in Frame, NEW e, Masked(s, e), f.masked <=> e = "client"
  PROVE  Masked(Append(s, f), e)
<1>1. /\ Len(s) \in Nat /\ Len(Append(s, f)) = Len(s) + 1
      /\ (\A i \in 1 .. Len(s) : Append(s, f)[i] = s[i]) /\ Append(s, f)[Len(s) + 1] = f
  BY AppendProperties, LenProperties
<1>2. ASSUME NEW i \in 1 .. Len(s) + 1 PROVE Append(s, f)[i].masked <=> e = "client"
  <2>1. CASE i = Len(s) + 1
    BY <1>1, <2>1
  <2>2. CASE i \in 1 .. Len(s)
    BY <1>1, <2>2 DEF Masked
  <2> QED
    BY <1>1, <2>1, <2>2
<1> QED
  BY <1>1, <1>2 DEF Masked

\* ... and when its first frame is read.
LEMMA MaskedTail ==
  ASSUME NEW s \in Seq(Frame), s # <<>>, NEW e, Masked(s, e)
  PROVE  Masked(Tail(s), e) /\ (Head(s).masked <=> e = "client")
<1>1. /\ Len(s) \in Nat /\ Len(s) >= 1 /\ Len(Tail(s)) = Len(s) - 1
      /\ (\A i \in 1 .. Len(s) - 1 : Tail(s)[i] = s[i + 1]) /\ Head(s) = s[1]
  BY HeadTailProperties, LenProperties, EmptySeq
<1>2. \A i \in 1 .. Len(s) - 1 : i + 1 \in 1 .. Len(s)
  BY <1>1
<1> QED
  BY <1>1, <1>2 DEF Masked

\* A part of a line, when what follows it is lost.
LEMMA PrefixKeeps ==
  ASSUME NEW s \in Seq(Frame), NEW t \in Seq(Frame), NEW e, NEW g \in BOOLEAN
  PROVE  /\ Masked(s \o t, e) => Masked(s, e)
         /\ PongsBehindClose(s \o t, g) => PongsBehindClose(s, g)
<1> DEFINE n == Len(s)
           l == s \o t
<1>1. /\ n \in Nat /\ Len(t) \in Nat /\ Len(l) = n + Len(t)
      /\ \A i \in 1 .. n + Len(t) : l[i] = IF i <= n THEN s[i] ELSE t[i - n]
  BY ConcatProperties, LenProperties
<1> HIDE DEF l, n
<1>2. /\ \A i \in 1 .. n : i \in 1 .. Len(l) /\ l[i] = s[i]
      /\ \A j \in 1 .. Len(t) : n + j \in 1 .. Len(l) /\ l[n + j] = t[j] /\ \A i \in 1 .. n : i < n + j
  BY <1>1
<1>3. Masked(l, e) => Masked(s, e)
  BY <1>2 DEF Masked, n
<1>4. PongsBehindClose(l, g) => PongsBehindClose(s, g)
  BY <1>2 DEF PongsBehindClose, n
<1> QED
  BY <1>3, <1>4 DEF l

\* Behind a close frame only pongs are lost.
LEMMA PongsLost ==
  ASSUME NEW s \in Seq(Frame), NEW t \in Seq(Frame), NEW g \in BOOLEAN,
         PongsBehindClose(s \o t, g), g \/ CloseFrames(s) > 0
  PROVE  \A j \in 1 .. Len(t) : t[j].op = "Pong"
<1> DEFINE n == Len(s)
           l == s \o t
<1>1. /\ n \in Nat /\ Len(t) \in Nat /\ Len(l) = n + Len(t)
      /\ \A i \in 1 .. n + Len(t) : l[i] = IF i <= n THEN s[i] ELSE t[i - n]
  BY ConcatProperties, LenProperties
<1>0. PongsBehindClose(l, g)
  OBVIOUS
<1> HIDE DEF l, n
<1>2. /\ \A i \in 1 .. n : i \in 1 .. Len(l) /\ l[i] = s[i]
      /\ \A j \in 1 .. Len(t) : n + j \in 1 .. Len(l) /\ l[n + j] = t[j] /\ \A i \in 1 .. n : i < n + j
  BY <1>1
<1>5. ASSUME NEW j \in 1 .. Len(t)
      PROVE  t[j].op = "Pong"
  <2>1. CASE g
    <3>1. n + j \in 1 .. Len(l) /\ l[n + j] = t[j]
      BY <1>2
    <3>2. \A i \in 1 .. Len(l) : l[i].op = "Pong"
      BY <1>0, <2>1 DEF PongsBehindClose
    <3> QED
      BY <3>1, <3>2
  <2>2. CASE CloseFrames(s) > 0
    <3>1. PICK i \in 1 .. n : s[i].op = "Close"
      BY <2>2, CloseFramesType DEF n
    <3> QED
      BY <1>0, <1>2, <1>5, <3>1 DEF PongsBehindClose
  <2> QED
    BY <2>1, <2>2
<1> QED
  BY <1>5
-----------------------------------------------------------------------------
(* The inductive invariant.                                                *)

\* The frames from e to the other end; the other end has read e's close frame; how far
\* e has written and read.
Line(e) == wire[e] \o ws[e].out
Gone(e) == closes[e] > CloseFrames(wire[e])
Whole(e) == ~dropped[e] \/ closes[e] > 0
Put(e) == 2 * wrote[e] + Half(midway[e])
Got(e) == 2 * Len(received[e]) + Half(ws[e].incomplete # 0)

\* n close frames accepted, for a context c: one in all, and none while it is active.
CloseDue(n, c) ==
    LET d == n + Half(c.additional = "Close") IN
    d <= 1 /\ (c.state = "Active" => d = 0) /\ (c.state = "ClosedByPeer" => d = 1)

\* Of what e sends: the close frames its stream has taken include those not yet read, the
\* line is masked as e masks and has its close frame last, and no close frame is one too many.
Sender(e) ==
    /\ CloseFrames(wire[e]) <= closes[e]
    /\ Masked(Line(e), e) /\ PongsBehindClose(Line(e), Gone(e))
    /\ CloseDue(closes[e] + CloseFrames(ws[e].out), ws[e])

\* Of what e reads: the message in pieces is the next one, the messages returned are the
\* first ones written, and the line leads on from where e stands to where the other end's
\* user does.
Reader(e) ==
    /\ ws[e].incomplete \in {0, Len(received[e]) + 1}
    /\ Len(received[e]) <= wrote[Peer(e)]
    /\ \A i \in DOMAIN received[e] : received[e][i] = i
    /\ ~dropped[e] => Path(Line(Peer(e)), Got(e), Put(Peer(e)), Whole(Peer(e)))
    /\ ws[e].state \in {"ClosedByPeer", "CloseAcknowledged"} => Gone(Peer(e))

\* Of the first fatal error of e: a context ends with one, and which one tells what was read.
Judged(e) ==
    /\ ws[e].state = "Terminated" => dropped[e] \/ verdict[e] # None
    /\ verdict[e] = "closed" => /\ ~CanRead(ws[e].state) /\ ws[Peer(e)].state # "Active"
                                /\ Len(received[e]) = wrote[Peer(e)]
    /\ verdict[e] \notin {"badMask", "unexpectedContinue", "expectedFragment", "receivedAfterClosing"}

CInv == TypeOK /\ \A e \in Ends : Sender(e) /\ Reader(e) /\ Judged(e)

\* A half is none or one.
LEMMA HalfType == \A b : Half(b) \in {0, 1}
BY DEF Half

\* The two ends.
LEMMA PeerEnds ==
  ASSUME NEW e \in Ends
  PROVE  /\ Peer(e) \in Ends /\ Peer(e) # e /\ Peer(Peer(e)) = e
         /\ \A x \in Ends : x = e \/ x = Peer(e)
BY DEF Ends, Peer

\* What the type invariant says of one end.
LEMMA EndTypes ==
  ASSUME TypeOK, NEW e \in Ends
  PROVE  /\ ws[e] \in Contexts /\ ws[e].out \in Seq(Frame) /\ Len(ws[e].out) \in Nat
         /\ Len(ws[e].out) <= MaxOut
         /\ wire[e] \in Seq(Frame) /\ Len(wire[e]) \in Nat /\ Len(wire[e]) <= Window
         /\ closes[e] \in Nat /\ wrote[e] \in 0 .. MaxMessages /\ received[e] \in Seq(1 .. MaxMessages)
         /\ Len(received[e]) \in Nat /\ Put(e) \in Nat /\ Got(e) \in Nat
         /\ Line(e) \in Seq(Frame)
         /\ CloseFrames(wire[e]) \in Nat /\ CloseFrames(ws[e].out) \in Nat
         /\ Gone(e) \in BOOLEAN /\ Whole(e) \in BOOLEAN
         /\ dropped[e] \in BOOLEAN /\ midway[e] \in BOOLEAN
<1>1. /\ ws[e] \in Contexts /\ Len(ws[e].out) <= MaxOut
      /\ wire[e] \in Seq(Frame) /\ Len(wire[e]) <= Window
      /\ closes[e] \in Nat /\ wrote[e] \in 0 .. MaxMessages /\ received[e] \in Seq(1 .. MaxMessages)
      /\ dropped[e] \in BOOLEAN /\ midway[e] \in BOOLEAN
  BY DEF TypeOK, Contexts
<1>2. ws[e].out \in Seq(Frame)
  BY <1>1 DEF Contexts
<1>3. Len(ws[e].out) \in Nat /\ Len(wire[e]) \in Nat /\ Len(received[e]) \in Nat
  BY <1>1, <1>2, LenProperties
<1>4. Put(e) \in Nat /\ Got(e) \in Nat
  <2>1. Half(midway[e]) \in {0, 1} /\ Half(ws[e].incomplete # 0) \in {0, 1}
    BY HalfType
  <2> QED
    BY <1>1, <1>3, <2>1 DEF Put, Got
<1>5. Line(e) \in Seq(Frame)
  BY <1>1, <1>2, ConcatProperties DEF Line
<1>6. CloseFrames(wire[e]) \in Nat /\ CloseFrames(ws[e].out) \in Nat
  BY <1>1, <1>2, CloseFramesType
<1>7. Gone(e) \in BOOLEAN /\ Whole(e) \in BOOLEAN
  BY DEF Gone, Whole
<1> QED
  BY <1>1, <1>2, <1>3, <1>4, <1>5, <1>6, <1>7

-----------------------------------------------------------------------------
(* A view in the course of a call.                                         *)

\* What the line of e would be, had the stream and the buffer accepted s, with e's user
\* at z.
LineOK(e, s, z) ==
    /\ Masked(wire[e] \o s, e) /\ PongsBehindClose(wire[e] \o s, Gone(e))
    /\ ~dropped[Peer(e)] => Path(wire[e] \o s, Got(Peer(e)), z, TRUE)

\* The view v may be left as the context and the stream of its end.
Safe(v, z) ==
    /\ v \in Views /\ Len(v.c.out) <= MaxOut
    /\ Len(v.put) + v.room = Window - Len(wire[v.role])
    /\ LineOK(v.role, Accepted(v), z)
    /\ CloseDue(closes[v.role] + CloseFrames(Accepted(v)), v.c)

\* Such a view, with the reading side of e as it was when the call began.
Begun(e, v, z) ==
    /\ Safe(v, z) /\ v.role = e /\ v.msg = 0 /\ v.c.incomplete = ws[e].incomplete
    /\ v.c.state = ws[e].state \/ (ws[e].state = "Active" /\ v.c.state = "ClosedByUs")

\* A call of e that has returned r without reading a frame.
Called(e, r, z) ==
    /\ Safe(r.v, z) /\ r.v.role = e /\ r.v.msg = 0 /\ r.v.c.incomplete = ws[e].incomplete
    /\ \/ r.v.c.state = ws[e].state
       \/ ws[e].state = "Active" /\ r.v.c.state = "ClosedByUs"
       \/ r.v.c.state = "Terminated" /\ r.res \in Fatal
    /\ r.res = "closed" => ~CanRead(ws[e].state)
    /\ r.res \notin {"badMask", "unexpectedContinue", "expectedFragment", "receivedAfterClosing"}

\* The user of a line stands at z before frame f and at y behind it.
Stands(f, z, y) == IF f.op \in DataOps THEN z = From(f) /\ y = To(f) ELSE y = z

\* Accepting a frame.
LEMMA SafeAccepts ==
  ASSUME TypeOK, NEW e \in Ends, CloseFrames(wire[e]) <= closes[e],
         NEW v \in Views, v.role = e, NEW w, NEW f \in Frame, NEW z \in Nat, NEW y \in Nat,
         Safe(v, z), Keeps(v, w), Accepted(w) = Append(Accepted(v), f),
         f.masked <=> e = "client",
         f.op = "Pong" \/ closes[e] + CloseFrames(Accepted(v)) = 0,
         Stands(f, z, y)
  PROVE  /\ w \in Views /\ w.role = e /\ Len(w.c.out) <= MaxOut
         /\ Len(w.put) + w.room = Window - Len(wire[e])
         /\ LineOK(e, Accepted(w), y)
         /\ CloseFrames(Accepted(w)) = CloseFrames(Accepted(v)) + (IF f.op = "Close" THEN 1 ELSE 0)
<1> DEFINE s == wire[e] \o Accepted(v)
<1>1. wire[e] \in Seq(Frame) /\ Accepted(v) \in Seq(Frame) /\ <<f>> \in Seq(Frame) /\ closes[e] \in Nat
  BY EndTypes, ViewFields
<1>2. s \in Seq(Frame)
  BY <1>1, ConcatProperties
<1>3. wire[e] \o Accepted(w) = Append(s, f)
  <2>1. Append(Accepted(v), f) = Accepted(v) \o <<f>>
    BY <1>1, AppendIsConcat
  <2>2. Append(s, f) = s \o <<f>>
    BY <1>2, AppendIsConcat
  <2>3. (wire[e] \o Accepted(v)) \o <<f>> = wire[e] \o (Accepted(v) \o <<f>>)
    <3> DEFINE x == wire[e]
               t == Accepted(v)
               u == <<f>>
    <3>1. x \in Seq(Frame) /\ t \in Seq(Frame) /\ u \in Seq(Frame)
      BY <1>1
    <3> HIDE DEF x, t, u
    <3>2. (x \o t) \o u = x \o (t \o u)
      BY <3>1, FramesAssociative
    <3> QED
      BY <3>2 DEF x, t, u
  <2> QED
    BY <2>1, <2>2, <2>3
<1>4. CloseFrames(Accepted(w)) = CloseFrames(Accepted(v)) + (IF f.op = "Close" THEN 1 ELSE 0)
  BY <1>1, CloseFramesAppend DEF Half
<1>5. f.op = "Pong" \/ (~Gone(e) /\ CloseFrames(s) = 0)
  <2>1. CloseFrames(s) = CloseFrames(wire[e]) + CloseFrames(Accepted(v))
    BY <1>1, CloseFramesConcat
  <2>2. CloseFrames(wire[e]) \in Nat /\ CloseFrames(Accepted(v)) \in Nat
    BY <1>1, CloseFramesType
  <2> QED
    BY <1>1, <2>1, <2>2 DEF Gone
<1>6. Masked(s, e) /\ PongsBehindClose(s, Gone(e)) /\ (~dropped[Peer(e)] => Path(s, Got(Peer(e)), z, TRUE))
  BY DEF Safe, LineOK
<1> HIDE DEF s
<1>7. Masked(Append(s, f), e)
  BY <1>2, <1>6, MaskedAppend
<1>8. PongsBehindClose(Append(s, f), Gone(e))
  BY <1>2, <1>5, <1>6, PongsAppend, EndTypes
<1>9. ~dropped[Peer(e)] => Path(Append(s, f), Got(Peer(e)), y, TRUE)
  <2>1. Got(Peer(e)) \in Nat
    BY PeerEnds, EndTypes
  <2> QED
    BY <1>2, <1>6, <2>1, PathAppend DEF Stands
<1>10. LineOK(e, Accepted(w), y)
  BY <1>3, <1>7, <1>8, <1>9 DEF LineOK
<1>11. /\ w \in Views /\ w.role = e /\ Len(w.c.out) <= MaxOut
       /\ Len(w.put) + w.room = Window - Len(wire[e])
  BY DEF Keeps, Safe
<1> QED
  BY <1>4, <1>10, <1>11

\* Changing the context around the same frames.
LEMMA SafeSame ==
  ASSUME NEW v, NEW w \in Views, NEW z, Safe(v, z), w.role = v.role,
         Len(w.c.out) <= MaxOut, Len(w.put) + w.room = Len(v.put) + v.room, Accepted(w) = Accepted(v),
         CloseDue(closes[v.role] + CloseFrames(Accepted(v)), w.c)
  PROVE  Safe(w, z)
BY DEF Safe

\* Sending additional_send is safe.
LEMMA SafeAdvances ==
  ASSUME TypeOK, NEW e \in Ends, CloseFrames(wire[e]) <= closes[e], NEW z \in Nat,
         NEW v, Begun(e, v, z), NEW r, Advances(v, r)
  PROVE  Called(e, r, z) /\ (IsOk(r) => Begun(e, r.v, z))
<1> DEFINE n == closes[e] + CloseFrames(Accepted(v))
<1>1. Safe(v, z) /\ v \in Views /\ v.role = e /\ Keeps(v, r.v) /\ r.v \in Views /\ r.v.role = e
  BY DEF Begun, Safe, Advances, Keeps
<1>2. closes[e] \in Nat /\ CloseFrames(Accepted(v)) \in Nat
  BY <1>1, EndTypes, ViewFields, CloseFramesType
<1>3. CloseDue(n, v.c)
  BY <1>1 DEF Safe
<1>4. r.v.c.state = v.c.state \/ (r.v.c.state = "Terminated" /\ r.res = "closed" /\ ~CanRead(v.c.state))
  BY DEF Advances
<1>5. Safe(r.v, z)
  <2>1. CASE Accepted(r.v) = Accepted(v) /\ r.v.c.additional = v.c.additional
    <3>1. CloseDue(n, r.v.c)
      BY <1>3, <1>4, <2>1 DEF CloseDue
    <3> QED
      BY <1>1, <2>1, <3>1, SafeSame DEF Keeps, Safe
  <2>2. CASE /\ v.c.additional # None /\ r.v.c.additional = None
             /\ Accepted(r.v) = Append(Accepted(v), FrameOf(v, v.c.additional, 0))
    <3> DEFINE f == FrameOf(v, v.c.additional, 0)
    <3>1. v.c.additional \in {"Pong", "Close"}
      BY <1>1, <2>2, ViewFields
    <3>6. f \in Frame
      BY <3>1, BoundsKnown DEF FrameOf, Frame, ControlOps
    <3>7. f.masked <=> e = "client"
      BY <1>1 DEF FrameOf
    <3>8. f.op = v.c.additional
      BY DEF FrameOf
    <3>9. f.op \notin DataOps
      BY <3>1, <3>8 DEF DataOps
    <3>2. f \in Frame /\ (f.masked <=> e = "client") /\ f.op = v.c.additional /\ f.op \notin DataOps
      BY <3>6, <3>7, <3>8, <3>9
    <3>3. f.op = "Pong" \/ n = 0
      BY <1>2, <1>3, <3>1, <3>2 DEF CloseDue, Half
    <3> HIDE DEF f
    <3>4. /\ r.v \in Views /\ r.v.role = e /\ Len(r.v.c.out) <= MaxOut
          /\ Len(r.v.put) + r.v.room = Window - Len(wire[e])
          /\ LineOK(e, Accepted(r.v), z)
          /\ CloseFrames(Accepted(r.v)) = CloseFrames(Accepted(v)) + (IF f.op = "Close" THEN 1 ELSE 0)
      <4>1. Accepted(r.v) = Append(Accepted(v), f)
        BY <2>2 DEF f
      <4>2. Stands(f, z, z)
        BY <3>2 DEF Stands
      <4> QED
        BY <1>1, <3>2, <3>3, <4>1, <4>2, SafeAccepts
    <3>5. CloseDue(closes[e] + CloseFrames(Accepted(r.v)), r.v.c)
      BY <1>2, <1>3, <1>4, <2>2, <3>1, <3>2, <3>4, SMTT(30) DEF CloseDue, Half, None
    <3> QED
      BY <3>4, <3>5 DEF Safe
  <2> QED
    BY <2>1, <2>2 DEF Advances
<1>6. r.v.msg = 0 /\ r.v.c.incomplete = ws[e].incomplete
  BY DEF Advances, Keeps, Begun
<1>7. r.res = "closed" => ~CanRead(ws[e].state)
  BY DEF Advances, Begun, CanRead
<1>8. r.res \notin {"badMask", "unexpectedContinue", "expectedFragment", "receivedAfterClosing"}
  BY DEF Advances
<1>9. Called(e, r, z)
  BY <1>1, <1>4, <1>5, <1>6, <1>7, <1>8 DEF Called, Begun, Fatal
<1>10. IsOk(r) => Begun(e, r.v, z)
  BY <1>1, <1>4, <1>5, <1>6 DEF IsOk, Begun
<1> QED
  BY <1>9, <1>10
-----------------------------------------------------------------------------
(* The calls.                                                              *)

\* A call begins with the context and the stream of its end.
LEMMA ViewBegun ==
  ASSUME CInv, NEW e \in Ends, ~dropped[e]
  PROVE  /\ Begun(e, View(e), Put(e)) /\ View(e).c = ws[e] /\ View(e).put = <<>>
         /\ TypeOK /\ CloseFrames(wire[e]) <= closes[e] /\ Put(e) \in Nat
<1> DEFINE v == View(e)
           p == Peer(e)
<1>1. /\ TypeOK /\ Sender(e) /\ Reader(p) /\ p \in Ends /\ Peer(p) = e /\ Put(e) \in Nat
      /\ CloseFrames(wire[e]) <= closes[e]
  BY PeerEnds, EndTypes DEF CInv, Sender
<1>2. /\ ws[e] \in Contexts /\ ws[e].out \in Seq(Frame) /\ Len(ws[e].out) <= MaxOut
      /\ Len(wire[e]) \in Nat /\ Len(wire[e]) <= Window /\ dropped[p] \in BOOLEAN
  BY <1>1, EndTypes
<1>3. /\ v.role = e /\ v.c = ws[e] /\ v.room = Window - Len(wire[e]) /\ v.down = dropped[p]
      /\ v.put = <<>> /\ v.msg = 0
  BY DEF View
<1>4. v \in Views
  <2>1. Window - Len(wire[e]) \in Nat /\ 0 \in 0 .. MaxMessages /\ <<>> \in Seq(Frame)
    BY <1>2, BoundsKnown
  <2> QED
    BY <1>2, <2>1 DEF Views, View
<1> HIDE DEF v
<1>5. Accepted(v) = ws[e].out
  BY <1>2, <1>3, ConcatEmptySeq DEF Accepted
<1>6. Len(v.put) + v.room = Window - Len(wire[e])
  <2>1. Len(v.put) = 0
    BY <1>3
  <2> QED
    BY <1>2, <1>3, <2>1, BoundsKnown
<1>7. LineOK(e, Accepted(v), Put(e))
  <2>1. Whole(e)
    BY DEF Whole
  <2> QED
    BY <1>1, <1>5, <2>1 DEF Sender, Reader, LineOK, Line
<1>8. CloseDue(closes[e] + CloseFrames(Accepted(v)), v.c)
  BY <1>1, <1>3, <1>5 DEF Sender
<1> QED
  BY <1>1, <1>2, <1>3, <1>4, <1>6, <1>7, <1>8 DEF Begun, Safe, v

\* A call may return in the middle with any error that says nothing of the peer.
LEMMA BegunReturns ==
  ASSUME NEW e, NEW v, NEW z, Begun(e, v, z),
         NEW res \in {"ok", "flush", "full", "block", "already", "sendAfterClosing"}
  PROVE  Called(e, R(v, res), z)
BY DEF Begun, Called, R

\* flush and _write(None) from such a view.
LEMMA FlushCalled ==
  ASSUME TypeOK, NEW e \in Ends, CloseFrames(wire[e]) <= closes[e], NEW z \in Nat,
         NEW v, Begun(e, v, z), NEW r, r \in Flush(v) \/ r \in WriteRest(v)
  PROVE  Called(e, r, z) /\ (IsOk(r) => Begun(e, r.v, z)) /\ r.res # "full" /\ Advances(v, r)
<1>1. v \in Views
  BY DEF Begun, Safe
<1>2. Advances(v, r)
  BY <1>1, FlushAdvances, WriteRestAdvances
<1> QED
  BY <1>2, SafeAdvances DEF Advances

\* _write of a frame, which is accepted unless the buffer is full.
LEMMA WriteFrameCalled ==
  ASSUME TypeOK, NEW e \in Ends, CloseFrames(wire[e]) <= closes[e],
         NEW v, NEW z \in Nat, NEW y \in Nat, Begun(e, v, z),
         v.c.state \in {"Active", "ClosedByUs"},
         NEW op \in DataOps \cup ControlOps \cup {"Close"}, NEW n \in 0 .. MaxMessages,
         op = "Close" => v.c.state = "ClosedByUs" /\ v.c.additional # "Close",
         closes[e] + CloseFrames(Accepted(v)) = 0,
         Stands(FrameOf(v, op, n), z, y),
         NEW r \in WriteFrame(v, op, n)
  PROVE  /\ r.res = "full" => r = R(v, "full")
         /\ r.res # "full" => Called(e, r, y)
         /\ IsOk(r) => Begun(e, r.v, y)
<1> DEFINE f == FrameOf(v, op, n)
<1>1. PICK q \in BufferFrame(v, op, n) : r \in IF IsOk(q) THEN WriteRest(q.v) ELSE {q}
  BY DEF WriteFrame, Try
<1>2. v \in Views /\ v.role = e /\ Safe(v, z)
  BY DEF Begun, Safe
<1>3. /\ f \in Frame
      /\ \/ q = R(v, "full")
         \/ /\ Accepts(v, q.v, f) /\ q.res \in {"ok", "block", "reset", "closed"}
            /\ q.res = "closed" => ~CanRead(v.c.state)
  BY <1>2, BufferFrameAccepts
<1>4. f.op = op /\ (f.masked <=> e = "client")
  <2>1. f.op = op
    BY DEF FrameOf
  <2>2. f.masked <=> e = "client"
    BY <1>2 DEF FrameOf
  <2> QED
    BY <2>1, <2>2
<1> HIDE DEF f
<1>5. CASE q = R(v, "full")
  <2>1. r = q
    BY <1>1, <1>5 DEF IsOk, R
  <2> QED
    BY <1>5, <2>1 DEF R, IsOk
<1>6. CASE /\ Accepts(v, q.v, f) /\ q.res \in {"ok", "block", "reset", "closed"}
           /\ q.res = "closed" => ~CanRead(v.c.state)
  <2>1. /\ q.v \in Views /\ q.v.role = e /\ Len(q.v.c.out) <= MaxOut
        /\ Len(q.v.put) + q.v.room = Window - Len(wire[e])
        /\ LineOK(e, Accepted(q.v), y)
        /\ CloseFrames(Accepted(q.v)) = CloseFrames(Accepted(v)) + (IF f.op = "Close" THEN 1 ELSE 0)
    <3>1. Keeps(v, q.v) /\ Accepted(q.v) = Append(Accepted(v), f)
      BY <1>6 DEF Accepts
    <3>2. Stands(f, z, y)
      BY DEF f
    <3>3. LineOK(e, Accepted(q.v), y)
      BY <1>2, <1>3, <1>4, <3>1, <3>2, SafeAccepts
    <3>4. CloseFrames(Accepted(q.v)) = CloseFrames(Accepted(v)) + (IF f.op = "Close" THEN 1 ELSE 0)
      <4>1. Accepted(v) \in Seq(Frame)
        BY <1>2, ViewFields
      <4> QED
        BY <1>3, <3>1, <4>1, CloseFramesAppend
    <3> QED
      BY <1>2, <3>1, <3>3, <3>4 DEF Safe, Keeps
  <2>2. CloseDue(closes[e] + CloseFrames(Accepted(q.v)), q.v.c)
    <3>1. closes[e] \in Nat /\ CloseFrames(Accepted(v)) \in Nat
      BY <1>2, EndTypes, ViewFields, CloseFramesType
    <3>2. CloseDue(closes[e] + CloseFrames(Accepted(v)), v.c)
      BY <1>2 DEF Safe
    <3>3. q.v.c.state = v.c.state /\ q.v.c.additional = v.c.additional
      BY <1>6 DEF Accepts
    <3> QED
      <4>1. CASE op = "Close"
        BY <1>4, <2>1, <3>1, <3>3, <4>1 DEF CloseDue, Half
      <4>2. CASE op # "Close"
        <5>1. closes[e] + CloseFrames(Accepted(q.v)) = closes[e] + CloseFrames(Accepted(v))
          BY <1>4, <2>1, <3>1, <4>2
        <5> QED
          BY <3>2, <3>3, <5>1 DEF CloseDue
      <4> QED
        BY <4>1, <4>2
  <2>3. Safe(q.v, y)
    BY <2>1, <2>2 DEF Safe
  <2>4. Begun(e, q.v, y)
    BY <1>6, <2>1, <2>3 DEF Begun, Accepts, Keeps
  <2>5. CASE IsOk(q)
    <3>1. r \in WriteRest(q.v)
      BY <1>1, <2>5
    <3> QED
      BY <2>4, <3>1, FlushCalled
  <2>6. CASE ~IsOk(q)
    <3>1. r = q /\ r.res \in {"block", "reset"}
      BY <1>1, <1>6, <2>6 DEF IsOk, CanRead
    <3> QED
      BY <2>4, <3>1 DEF Begun, Called, IsOk
  <2> QED
    BY <2>5, <2>6
<1> QED
  BY <1>3, <1>5, <1>6

\* close.
LEMMA CloseCalled ==
  ASSUME CInv, NEW e \in Ends, ~dropped[e], NEW coded \in BOOLEAN, NEW r \in Close(View(e), coded)
  PROVE  Called(e, r, Put(e))
<1> DEFINE v == View(e)
           w == [v EXCEPT !.c.state = "ClosedByUs"]
           z == Put(e)
<1>1. /\ Begun(e, v, z) /\ v.c = ws[e] /\ TypeOK /\ CloseFrames(wire[e]) <= closes[e] /\ z \in Nat
      /\ v \in Views /\ v.role = e
  BY ViewBegun DEF Begun, Safe
<1>2. CASE v.c.state # "Active"
  <2>1. r \in Flush(v)
    BY <1>2 DEF Close
  <2> QED
    BY <1>1, <2>1, FlushCalled
<1>3. CASE v.c.state = "Active"
  <2>1. r \in Try(IF coded THEN WriteFrame(w, "Close", 0) ELSE WriteRest(w), Flush)
    BY <1>3, Zenon DEF Close
  <2>2. PICK q \in IF coded THEN WriteFrame(w, "Close", 0) ELSE WriteRest(w) :
            r \in IF IsOk(q) THEN Flush(q.v) ELSE {q}
    BY <2>1 DEF Try
  <2>3. /\ w \in Views /\ Keeps(v, w) /\ Accepted(w) = Accepted(v) /\ w.c.state = "ClosedByUs"
        /\ w.c.additional = v.c.additional /\ w.role = v.role /\ w.put = v.put
        /\ w.room = v.room /\ w.c.out = v.c.out
    BY <1>1, WithState DEF States
  <2> HIDE DEF v, w, z
  <2>4. /\ closes[e] \in Nat /\ CloseFrames(Accepted(v)) \in Nat
        /\ CloseDue(closes[e] + CloseFrames(Accepted(v)), v.c)
    BY <1>1, EndTypes, ViewFields, CloseFramesType DEF Begun, Safe
  <2>5. closes[e] + CloseFrames(Accepted(v)) = 0 /\ v.c.additional # "Close"
    BY <1>3, <2>4 DEF CloseDue, Half
  <2>6. Begun(e, w, z)
    <3>1. CloseDue(closes[e] + CloseFrames(Accepted(v)), w.c)
      BY <2>3, <2>5 DEF CloseDue, Half
    <3>2. Safe(w, z)
      BY <1>1, <2>3, <3>1, SafeSame DEF Begun, Safe
    <3> QED
      BY <1>1, <1>3, <2>3, <3>2 DEF Begun, Keeps
  <2>7. CASE coded
    <3>1. q \in WriteFrame(w, "Close", 0)
      BY <2>2, <2>7
    <3>2. /\ q.res = "full" => q = R(w, "full")
          /\ q.res # "full" => Called(e, q, z)
          /\ IsOk(q) => Begun(e, q.v, z)
      <4>1. "Close" \notin DataOps /\ 0 \in 0 .. MaxMessages
        BY BoundsKnown DEF DataOps
      <4> QED
        <5>1. Stands(FrameOf(w, "Close", 0), z, z)
          BY <4>1 DEF Stands, FrameOf
        <5> QED
          BY <1>1, <2>3, <2>5, <2>6, <3>1, <4>1, <5>1, WriteFrameCalled
    <3>3. Called(e, q, z)
      BY <2>6, <3>2, BegunReturns
    <3> QED
      BY <1>1, <2>2, <3>2, <3>3, FlushCalled DEF z, v
  <2>8. CASE ~coded
    <3>1. q \in WriteRest(w)
      BY <2>2, <2>8
    <3>2. Called(e, q, z) /\ (IsOk(q) => Begun(e, q.v, z))
      BY <1>1, <2>6, <3>1, FlushCalled
    <3> QED
      BY <1>1, <2>2, <3>2, FlushCalled DEF z, v
  <2> QED
    BY <2>7, <2>8
<1> QED
  BY <1>2, <1>3

\* The position of the user once a frame with op and message number n is accepted.
After(z, op, n) == CASE op = "First" -> 2 * n - 1 [] op \in {"Binary", "Last"} -> 2 * n [] OTHER -> z

\* set_additional(Pong) in an active context.
LEMMA PongBegun ==
  ASSUME NEW e \in Ends, NEW v, NEW z, TypeOK, Begun(e, v, z), v.c.state = "Active"
  PROVE  Begun(e, SetAdditional(v, "Pong"), z)
<1>1. v \in Views /\ v.role = e /\ Safe(v, z)
  BY DEF Begun, Safe
<1>2. CASE v.c.additional \notin {None, "Pong"}
  BY <1>2 DEF SetAdditional
<1>3. CASE v.c.additional \in {None, "Pong"}
  <2> DEFINE w == [v EXCEPT !.c.additional = "Pong"]
  <2>1. SetAdditional(v, "Pong") = w
    BY <1>3 DEF SetAdditional
  <2>2. w \in Views
    <3>1. [v.c EXCEPT !.additional = "Pong"] \in Contexts
      BY <1>1, ViewFields, ContextWith
    <3>2. w = [v EXCEPT !.c = [v.c EXCEPT !.additional = "Pong"]]
      OBVIOUS
    <3> QED
      BY <1>1, <3>1, <3>2, ViewWith
  <2>3. /\ w.role = v.role /\ w.msg = v.msg /\ w.room = v.room /\ w.put = v.put
        /\ w.c.out = v.c.out /\ w.c.state = v.c.state
        /\ w.c.additional = "Pong" /\ w.c.incomplete = v.c.incomplete
    BY <1>1, ViewFields DEF Views, Contexts
  <2> HIDE DEF w
  <2>4. CloseDue(closes[e] + CloseFrames(Accepted(v)), w.c)
    <3>1. CloseDue(closes[e] + CloseFrames(Accepted(v)), v.c)
      BY <1>1 DEF Safe
    <3>2. closes[e] \in Nat /\ CloseFrames(Accepted(v)) \in Nat
      BY <1>1, EndTypes, ViewFields, CloseFramesType
    <3> QED
      BY <1>3, <2>3, <3>1, <3>2 DEF CloseDue, Half, None
  <2>5. Accepted(w) = Accepted(v)
    BY <2>3 DEF Accepted
  <2>6. Safe(w, z)
    BY <1>1, <2>2, <2>3, <2>4, <2>5, SafeSame DEF Safe
  <2> QED
    BY <2>1, <2>3, <2>6 DEF Begun
<1> QED
  BY <1>2, <1>3

\* write.
LEMMA WriteCalled ==
  ASSUME CInv, NEW e \in Ends, ~dropped[e], NEW op \in DataOps \cup ControlOps, NEW n \in 0 .. MaxMessages,
         op \in DataOps => n = wrote[e] + 1 /\ midway[e] = (op = "Last"),
         NEW r \in Write(View(e), op, n)
  PROVE  \/ r.res \in {"already", "sendAfterClosing", "full"} /\ Called(e, r, Put(e))
         \/ /\ r.res \notin {"already", "sendAfterClosing", "full"} /\ ws[e].state = "Active"
            /\ Called(e, r, After(Put(e), op, n))
<1> DEFINE v == View(e)
           z == Put(e)
           y == After(z, op, n)
<1>1. /\ Begun(e, v, z) /\ v.c = ws[e] /\ TypeOK /\ CloseFrames(wire[e]) <= closes[e] /\ z \in Nat
      /\ v \in Views /\ v.role = e /\ v.c.state \in States
  BY ViewBegun, ViewFields DEF Begun, Safe
<1>2. CASE v.c.state = "Terminated"
  <2>1. r = R(v, "already")
    BY <1>2 DEF Write
  <2> QED
    BY <1>1, <2>1, BegunReturns DEF R
<1>3. CASE v.c.state \notin {"Active", "Terminated"}
  <2>1. r = R(v, "sendAfterClosing")
    BY <1>3 DEF Write
  <2> QED
    BY <1>1, <2>1, BegunReturns DEF R
<1>4. CASE v.c.state = "Active" /\ op = "Pong"
  <2>1. r \in WriteRest(SetAdditional(v, "Pong"))
    BY <1>4 DEF Write
  <2>2. y = z
    BY <1>4 DEF After
  <2>3. Begun(e, SetAdditional(v, "Pong"), z)
    BY <1>1, <1>4, PongBegun
  <2> HIDE DEF v, z, y
  <2>4. Called(e, r, z) /\ r.res \in {"ok", "flush", "block", "reset", "closed"}
    BY <1>1, <2>1, <2>3, FlushCalled DEF Advances
  <2> QED
    BY <1>1, <1>4, <2>2, <2>4 DEF y, z
<1>5. CASE v.c.state = "Active" /\ op # "Pong"
  <2>1. PICK q \in WriteFrame(v, op, n) : r \in IF q.res = "flush" THEN Flush(q.v) ELSE {q}
    <3>1. r \in UNION {IF x.res = "flush" THEN Flush(x.v) ELSE {x} : x \in WriteFrame(v, op, n)}
      BY <1>5, Zenon DEF Write
    <3> QED
      BY <3>1
  <2>2. y \in Nat /\ Stands(FrameOf(v, op, n), z, y)
    <3>1. FrameOf(v, op, n).op = op /\ FrameOf(v, op, n).n = n
      BY DEF FrameOf
    <3>2. CASE op \in DataOps
      <4>1. wrote[e] \in Nat /\ n = wrote[e] + 1 /\ op \in {"Binary", "First", "Last"}
        BY <1>1, <3>2, EndTypes DEF DataOps
      <4>2. z = 2 * wrote[e] + (IF op = "Last" THEN 1 ELSE 0)
        BY <3>2 DEF Put, Half
      <4> HIDE DEF v, z
      <4> QED
        BY <3>1, <3>2, <4>1, <4>2 DEF From, To, After, Stands
    <3>3. CASE op \notin DataOps
      BY <1>1, <3>1, <3>3 DEF After, DataOps, Stands
    <3> QED
      BY <3>2, <3>3
  <2> HIDE DEF v, z, y
  <2>3. closes[e] + CloseFrames(Accepted(v)) = 0
    <3>1. /\ closes[e] \in Nat /\ CloseFrames(Accepted(v)) \in Nat
          /\ CloseDue(closes[e] + CloseFrames(Accepted(v)), v.c)
      BY <1>1, EndTypes, ViewFields, CloseFramesType DEF Begun, Safe
    <3> QED
      BY <1>5, <3>1 DEF CloseDue, Half
  <2>4. op # "Close"
    BY DEF DataOps, ControlOps
  <2>5. /\ q.res = "full" => q = R(v, "full")
        /\ q.res # "full" => Called(e, q, y)
        /\ IsOk(q) => Begun(e, q.v, y)
    BY <1>1, <1>5, <2>1, <2>2, <2>3, <2>4, WriteFrameCalled
  <2>6. CASE q.res = "flush"
    <3>1. Begun(e, q.v, y) /\ r \in Flush(q.v)
      BY <2>1, <2>5, <2>6 DEF IsOk
    <3>2. Called(e, r, y) /\ r.res \in {"ok", "flush", "block", "reset", "closed"}
      BY <1>1, <2>2, <3>1, FlushCalled DEF Advances
    <3> QED
      BY <1>1, <1>5, <3>2 DEF y, z
  <2>7. CASE q.res = "full"
    <3>1. r = R(v, "full")
      BY <2>1, <2>5, <2>7
    <3> QED
      BY <1>1, <3>1, BegunReturns DEF R, z
  <2>8. CASE q.res \notin {"flush", "full"}
    <3>1. r = q /\ Called(e, r, y)
      BY <2>1, <2>5, <2>8
    <3>2. r.res \notin {"already", "sendAfterClosing"}
      <4>1. PICK x \in BufferFrame(v, op, n) : q \in IF IsOk(x) THEN WriteRest(x.v) ELSE {x}
        BY <2>1 DEF WriteFrame, Try
      <4>2. x.res \in {"full", "ok", "block", "reset", "closed"} /\ x.v \in Views
        BY <1>1, BufferFrameAccepts DEF Accepts, Keeps, R
      <4>3. CASE IsOk(x)
        BY <3>1, <4>1, <4>2, <4>3, WriteRestAdvances DEF Advances
      <4>4. CASE ~IsOk(x)
        BY <3>1, <4>1, <4>2, <4>4
      <4> QED
        BY <4>3, <4>4
    <3> QED
      BY <1>1, <1>5, <2>8, <3>1, <3>2 DEF y, z
  <2> QED
    BY <2>6, <2>7, <2>8
<1> QED
  BY <1>1, <1>2, <1>3, <1>4, <1>5

\* What read does before it looks at the stream.
LEMMA BeforeReadCalled ==
  ASSUME CInv, NEW e \in Ends, ~dropped[e], NEW b \in BeforeRead(View(e))
  PROVE  /\ Called(e, b, Put(e))
         /\ IsOk(b) => /\ Begun(e, b.v, Put(e)) /\ b.v.c.state = ws[e].state
                       /\ ws[e].state # "Terminated"
<1> DEFINE v == View(e)
           z == Put(e)
<1>1. /\ Begun(e, v, z) /\ v.c = ws[e] /\ TypeOK /\ CloseFrames(wire[e]) <= closes[e] /\ z \in Nat
      /\ v \in Views /\ v.role = e /\ Safe(v, z)
  BY ViewBegun DEF Begun, Safe
<1>2. CASE v.c.state = "Terminated"
  <2>1. b = R(v, "already")
    BY <1>2 DEF BeforeRead
  <2> QED
    BY <1>1, <2>1, BegunReturns DEF R, IsOk
<1>3. CASE v.c.state # "Terminated" /\ v.c.additional # None
  <2>1. b \in {IF q.res = "block" THEN R(q.v, "ok") ELSE q : q \in Flush(v)}
    BY <1>3, Zenon DEF BeforeRead
  <2>2. PICK q \in Flush(v) : b = IF q.res = "block" THEN R(q.v, "ok") ELSE q
    BY <2>1
  <2> HIDE DEF v, z
  <2>3. Called(e, q, z) /\ Advances(v, q) /\ (IsOk(q) => Begun(e, q.v, z))
    BY <1>1, <2>2, FlushCalled
  <2>4. CASE q.res = "block"
    <3>1. q.v.c.state = v.c.state
      BY <2>3, <2>4 DEF Advances
    <3>2. Begun(e, q.v, z)
      BY <1>1, <2>3, <3>1 DEF Begun, Called
    <3>3. b = R(q.v, "ok") /\ b.v = q.v
      BY <2>2, <2>4 DEF R
    <3> QED
      BY <1>1, <1>3, <3>1, <3>2, <3>3, BegunReturns DEF z, v
  <2>5. CASE q.res # "block"
    <3>1. b = q
      BY <2>2, <2>5
    <3>2. IsOk(q) => q.v.c.state = v.c.state
      BY <2>3 DEF Advances, IsOk
    <3> QED
      BY <1>1, <1>3, <2>3, <3>1, <3>2 DEF z, v
  <2> QED
    BY <2>4, <2>5
<1>4. CASE v.c.state # "Terminated" /\ v.c.additional = None
  <2>1. b \in IF v.c.additional = None /\ v.role = "server" /\ ~CanRead(v.c.state)
              THEN {R([v EXCEPT !.c.state = "Terminated"], "closed")} ELSE {R(v, "ok")}
    BY <1>4, Zenon DEF BeforeRead
  <2>2. CASE b = R(v, "ok")
    BY <1>1, <1>4, <2>2, BegunReturns DEF R
  <2>3. CASE b = R([v EXCEPT !.c.state = "Terminated"], "closed") /\ ~CanRead(v.c.state)
    <3> DEFINE w == [v EXCEPT !.c.state = "Terminated"]
    <3>1. /\ w \in Views /\ Keeps(v, w) /\ Accepted(w) = Accepted(v) /\ w.c.state = "Terminated"
          /\ w.c.additional = v.c.additional /\ w.role = v.role /\ w.put = v.put
          /\ w.room = v.room /\ w.c.out = v.c.out
      BY <1>1, WithState DEF States
    <3>2. b.v = w /\ b.res = "closed"
      BY <2>3 DEF R
    <3> HIDE DEF w, v, z
    <3>3. Safe(w, z)
      <4>1. CloseDue(closes[e] + CloseFrames(Accepted(v)), w.c)
        BY <1>1, <3>1 DEF Safe, CloseDue
      <4> QED
        BY <1>1, <3>1, <4>1, SafeSame DEF Safe
    <3> QED
      BY <1>1, <2>3, <3>1, <3>2, <3>3 DEF Begun, Called, Keeps, IsOk, Fatal, z
  <2> QED
    BY <2>1, <2>2, <2>3
<1> QED
  BY <1>2, <1>3, <1>4

\* A read that finds no frame.
LEMMA NoFrameCalled ==
  ASSUME NEW e \in Ends, NEW v, NEW z, Begun(e, v, z), v.c.state = ws[e].state,
         NEW i \in {"block", "eof", "reset"}
  PROVE  Called(e, ReadMessageFrame(v, i), z)
<1>1. v \in Views /\ v.role = e /\ Safe(v, z)
  BY DEF Begun, Safe
<1>2. CASE i = "block"
  BY <1>2, BegunReturns DEF ReadMessageFrame
<1>3. CASE i = "eof"
  <2> DEFINE w == [v EXCEPT !.c.state = "Terminated"]
             res == IF v.c.state \in {"ClosedByPeer", "CloseAcknowledged"} THEN "closed" ELSE "noHandshake"
  <2>1. ReadMessageFrame(v, i) = R(w, res)
    BY <1>3 DEF ReadMessageFrame, OnEof
  <2>2. /\ w \in Views /\ Keeps(v, w) /\ Accepted(w) = Accepted(v) /\ w.c.state = "Terminated"
        /\ w.c.additional = v.c.additional /\ w.role = v.role /\ w.put = v.put
        /\ w.room = v.room /\ w.c.out = v.c.out
    BY <1>1, WithState DEF States
  <2>3. res \in {"closed", "noHandshake"} /\ (res = "closed" => ~CanRead(v.c.state))
    BY DEF CanRead
  <2> HIDE DEF w, res
  <2>4. Safe(w, z)
    <3>1. CloseDue(closes[e] + CloseFrames(Accepted(v)), w.c)
      BY <1>1, <2>2 DEF Safe, CloseDue
    <3> QED
      BY <1>1, <2>2, <3>1, SafeSame DEF Safe
  <2>5. Called(e, R(w, res), z)
    BY <1>1, <2>2, <2>3, <2>4 DEF Begun, Called, Keeps, Fatal, R
  <2> QED
    BY <2>1, <2>5
<1>4. CASE i = "reset"
  <2>1. ReadMessageFrame(v, i) = CheckReset(R(v, "reset"))
    BY <1>4 DEF ReadMessageFrame
  <2>2. \/ CheckReset(R(v, "reset")) = R(v, "reset")
        \/ CheckReset(R(v, "reset")) = R(v, "closed") /\ ~CanRead(v.c.state)
    BY DEF CheckReset, R
  <2>3. Called(e, R(v, "reset"), z) /\ (~CanRead(v.c.state) => Called(e, R(v, "closed"), z))
    BY <1>1 DEF Begun, Called, R
  <2> QED
    BY <2>1, <2>2, <2>3
<1> QED
  BY <1>2, <1>3, <1>4

-----------------------------------------------------------------------------
(* The steps.                                                              *)

\* What the step of a call does to each end.
LEMMA ReturnsAt ==
  ASSUME TypeOK, NEW e \in Ends, NEW r, NEW i, Returns(e, r, i)
  PROVE  LET p == Peer(e) IN
         /\ ws'[e] = r.v.c /\ ws'[p] = ws[p]
         /\ wire'[e] = wire[e] \o r.v.put
         /\ wire'[p] = IF i = "frame" THEN Tail(wire[p]) ELSE wire[p]
         /\ closes'[e] = closes[e] + CloseFrames(r.v.put) /\ closes'[p] = closes[p]
         /\ received'[e] = (IF r.v.msg = 0 THEN received[e] ELSE Append(received[e], r.v.msg))
         /\ received'[p] = received[p]
         /\ verdict'[e] = (IF r.res \in Fatal /\ verdict[e] = None THEN r.res ELSE verdict[e])
         /\ verdict'[p] = verdict[p] /\ dropped' = dropped /\ ~dropped[e]
<1>1. Peer(e) \in Ends /\ Peer(e) # e
  BY PeerEnds
<1> QED
  BY <1>1 DEF Returns, TypeOK

\* The user of e writes up to z, if at all while its context is active.
UserMoves(e, z) ==
    /\ wrote' \in [Ends -> 0 .. MaxMessages] /\ midway' \in [Ends -> BOOLEAN]
    /\ controls' \in [Ends -> 0 .. MaxControls]
    /\ wrote'[Peer(e)] = wrote[Peer(e)] /\ midway'[Peer(e)] = midway[Peer(e)]
    /\ wrote[e] <= wrote'[e] /\ (wrote'[e] # wrote[e] => ws[e].state = "Active")
    /\ Put(e)' = z

\* A call of something other than write leaves the user where it was.
LEMMA UserStays ==
  ASSUME TypeOK, NEW e \in Ends, UNCHANGED userVars
  PROVE  UserMoves(e, Put(e))
<1>1. wrote' = wrote /\ midway' = midway /\ controls' = controls
  BY DEF userVars
<1>2. Put(e)' = Put(e)
  BY <1>1 DEF Put
<1>3. wrote[e] <= wrote'[e] /\ wrote'[e] = wrote[e]
  BY <1>1, EndTypes
<1> QED
  BY <1>1, <1>2, <1>3 DEF UserMoves, TypeOK

\* The types after a call.
LEMMA TypesKept ==
  ASSUME TypeOK, NEW e \in Ends, NEW r, NEW i, NEW z, Safe(r.v, z), r.v.role = e, Returns(e, r, i),
         UserMoves(e, z), i = "frame" => wire[Peer(e)] # <<>>
  PROVE  TypeOK'
<1> DEFINE p == Peer(e)
           w == r.v
<1>1. p \in Ends /\ p # e /\ (\A x \in Ends : x = e \/ x = p) /\ w \in Views /\ Len(w.c.out) <= MaxOut
  BY PeerEnds DEF Safe
<1>2. /\ w.c \in Contexts /\ w.put \in Seq(Frame) /\ w.room \in Nat /\ Len(w.put) \in Nat
      /\ w.msg \in 0 .. MaxMessages
  BY <1>1, ViewFields
<1>3. /\ wire[e] \in Seq(Frame) /\ wire[p] \in Seq(Frame) /\ Len(wire[e]) \in Nat /\ Len(wire[p]) \in Nat
      /\ Len(wire[p]) <= Window /\ closes[e] \in Nat /\ received[e] \in Seq(1 .. MaxMessages)
  BY <1>1, EndTypes
<1>9. /\ ws'[e] = w.c /\ ws'[p] = ws[p] /\ wire'[e] = wire[e] \o w.put
      /\ wire'[p] = IF i = "frame" THEN Tail(wire[p]) ELSE wire[p]
  BY <1>1 DEF Returns, TypeOK
<1>10. CloseFrames(w.put) \in Nat /\ Len(w.put) + w.room = Window - Len(wire[e]) /\ Len(ws[p].out) <= MaxOut
  BY <1>1, <1>2, CloseFramesType, EndTypes DEF Safe
<1> HIDE DEF p, w
<1>4. ws' \in [Ends -> Contexts] /\ \A x \in Ends : Len(ws'[x].out) <= MaxOut
  <2>1. ws' \in [Ends -> Contexts]
    BY <1>2 DEF Returns, TypeOK, Contexts, w
  <2> QED
    BY <1>1, <1>9, <1>10, <2>1
<1>5. wire' \in [Ends -> Seq(Frame)] /\ \A x \in Ends : Len(wire'[x]) <= Window
  <2>1. wire[e] \o w.put \in Seq(Frame) /\ Len(wire[e] \o w.put) = Len(wire[e]) + Len(w.put)
    BY <1>2, <1>3, ConcatProperties
  <2>2. wire[p] # <<>> => Tail(wire[p]) \in Seq(Frame) /\ Len(Tail(wire[p])) = Len(wire[p]) - 1
    BY <1>3, HeadTailProperties
  <2>3. wire' \in [Ends -> Seq(Frame)]
    BY <1>1, <1>3, <2>1, <2>2 DEF Returns, TypeOK, w, p
  <2>4. Len(wire'[e]) <= Window
    <3>1. Len(wire[e]) + Len(w.put) <= Window
      <4>1. \A a, b, c, d \in Nat : a + b = d - c => c + a <= d
        OBVIOUS
      <4> QED
        BY <1>2, <1>3, <1>10, <4>1, BoundsKnown
    <3> QED
      BY <1>9, <2>1, <3>1
  <2>5. Len(wire'[p]) <= Window
    <3>1. i = "frame" => wire[p] # <<>>
      BY DEF p
    <3> QED
      BY <1>3, <1>9, <2>2, <3>1, BoundsKnown
  <2> QED
    BY <1>1, <2>3, <2>4, <2>5
<1>6. closes' \in [Ends -> Nat]
  <2>1. closes[e] + CloseFrames(w.put) \in Nat
    BY <1>3, <1>10
  <2>2. closes' = [closes EXCEPT ![e] = closes[e] + CloseFrames(w.put)]
    BY DEF Returns, w
  <2> QED
    BY <2>1, <2>2 DEF TypeOK
<1>7. received' \in [Ends -> Seq(1 .. MaxMessages)]
  <2>1. w.msg # 0 => Append(received[e], w.msg) \in Seq(1 .. MaxMessages)
    BY <1>2, <1>3, AppendProperties, BoundsKnown
  <2> QED
    BY <2>1 DEF Returns, TypeOK, w
<1>8. verdict' \in [Ends -> Fatal \cup {None}] /\ dropped' \in [Ends -> BOOLEAN]
  BY DEF Returns, TypeOK
<1> QED
  BY <1>4, <1>5, <1>6, <1>7, <1>8 DEF TypeOK, UserMoves, Contexts

\* The line of e after a call of e.
LEMMA SenderKept ==
  ASSUME TypeOK, NEW e \in Ends, CloseFrames(wire[e]) <= closes[e], NEW w, NEW z,
         Safe(w, z), w.role = e, ws'[e] = w.c, wire'[e] = wire[e] \o w.put,
         closes'[e] = closes[e] + CloseFrames(w.put)
  PROVE  /\ Sender(e)' /\ (Gone(e)' <=> Gone(e))
         /\ ~dropped[Peer(e)] => Path(Line(e)', Got(Peer(e)), z, TRUE)
<1>1. /\ w \in Views /\ w.put \in Seq(Frame) /\ w.c.out \in Seq(Frame) /\ Accepted(w) \in Seq(Frame)
      /\ wire[e] \in Seq(Frame) /\ closes[e] \in Nat
  BY ViewFields, EndTypes DEF Safe
<1>2. /\ CloseFrames(w.put) \in Nat /\ CloseFrames(w.c.out) \in Nat /\ CloseFrames(wire[e]) \in Nat
      /\ CloseFrames(wire'[e]) = CloseFrames(wire[e]) + CloseFrames(w.put)
      /\ CloseFrames(Accepted(w)) = CloseFrames(w.put) + CloseFrames(w.c.out)
  BY <1>1, CloseFramesType, CloseFramesConcat DEF Accepted
<1>3. Gone(e)' <=> Gone(e)
  BY <1>1, <1>2 DEF Gone
<1>4. Line(e)' = wire[e] \o Accepted(w)
  <2>1. (wire[e] \o w.put) \o w.c.out = wire[e] \o (w.put \o w.c.out)
    BY <1>1, FramesAssociative
  <2> QED
    BY <2>1 DEF Line, Accepted
<1>5. /\ Masked(wire[e] \o Accepted(w), e) /\ PongsBehindClose(wire[e] \o Accepted(w), Gone(e))
      /\ ~dropped[Peer(e)] => Path(wire[e] \o Accepted(w), Got(Peer(e)), z, TRUE)
  BY DEF Safe, LineOK
<1>6. CloseFrames(wire'[e]) <= closes'[e]
  BY <1>1, <1>2
<1>7. CloseDue(closes'[e] + CloseFrames(ws'[e].out), ws'[e])
  <2>1. closes'[e] + CloseFrames(ws'[e].out) = closes[e] + CloseFrames(Accepted(w))
    BY <1>1, <1>2
  <2> QED
    BY <2>1 DEF Safe
<1>8. Masked(Line(e)', e) /\ PongsBehindClose(Line(e)', Gone(e)')
  <2>1. Masked(Line(e)', e) /\ PongsBehindClose(Line(e)', Gone(e))
    BY <1>4, <1>5
  <2> QED
    BY <1>3, <2>1, Zenon DEF PongsBehindClose
<1>9. Masked(Line(e), e)' /\ PongsBehindClose(Line(e), Gone(e))'
  BY <1>8 DEF Masked, PongsBehindClose
<1>10. (CloseDue(closes[e] + CloseFrames(ws[e].out), ws[e]))'
  BY <1>7 DEF CloseDue, CloseFrames
<1> QED
  BY <1>3, <1>4, <1>5, <1>6, <1>9, <1>10 DEF Sender, CloseFrames

\* Once an end has read the other's close frame, it has received everything.
LEMMA AllRead ==
  ASSUME CInv, NEW e \in Ends, ~dropped[e], ws[e].state \in {"ClosedByPeer", "CloseAcknowledged"}
  PROVE  /\ Len(received[e]) = wrote[Peer(e)] /\ ws[Peer(e)].state # "Active"
         /\ \A j \in 1 .. Len(Line(Peer(e))) : Line(Peer(e))[j].op = "Pong"
<1> DEFINE p == Peer(e)
<1>1. /\ p \in Ends /\ TypeOK /\ Reader(e) /\ Sender(p) /\ Gone(p)
  BY PeerEnds DEF CInv, Reader
<1>2. /\ closes[p] \in Nat /\ CloseFrames(wire[p]) \in Nat /\ CloseFrames(ws[p].out) \in Nat
      /\ Line(p) \in Seq(Frame) /\ Put(p) \in Nat /\ Got(e) \in Nat /\ wrote[p] \in Nat
      /\ Len(received[e]) \in Nat
  BY <1>1, EndTypes
<1>3. closes[p] > 0 /\ Whole(p)
  BY <1>1, <1>2 DEF Gone, Whole
<1>4. \A j \in 1 .. Len(Line(p)) : Line(p)[j].op = "Pong"
  BY <1>1 DEF Sender, PongsBehindClose
<1>5. ws[p].state # "Active"
  <2>1. Half(ws[p].additional = "Close") \in {0, 1}
    BY HalfType
  <2> QED
    BY <1>1, <1>2, <1>3, <2>1 DEF Sender, CloseDue
<1>6. Got(e) = Put(p)
  <2>1. \A j \in 1 .. Len(Line(p)) : Line(p)[j].op \notin DataOps
    BY <1>4 DEF DataOps
  <2>2. Path(Line(p), Got(e), Put(p), Whole(p))
    BY <1>1 DEF Reader
  <2>3. Path(Line(p), Got(e), Put(p), TRUE)
    BY <1>3, <2>2 DEF Path, PathOf
  <2> QED
    BY <1>2, <2>1, <2>3, PathRead
<1>7. Len(received[e]) = wrote[p]
  <2>1. Half(midway[p]) \in {0, 1} /\ Half(ws[e].incomplete # 0) \in {0, 1}
    BY HalfType
  <2>2. \A a, b \in Nat : \A g, h \in {0, 1} : 2 * a + g = 2 * b + h => a = b
    OBVIOUS
  <2> QED
    BY <1>2, <1>6, <2>1, <2>2 DEF Got, Put
<1> QED
  BY <1>4, <1>5, <1>7

\* A call that reads no frame.
LEMMA CallKeeps ==
  ASSUME CInv, NEW e \in Ends, NEW r, NEW i, NEW z \in Nat, Called(e, r, z), Returns(e, r, i),
         i # "frame", UserMoves(e, z)
  PROVE  CInv'
<1> DEFINE p == Peer(e)
           w == r.v
<1>1. /\ p \in Ends /\ p # e /\ Peer(p) = e /\ (\A x \in Ends : x = e \/ x = p)
      /\ TypeOK /\ Sender(e) /\ Sender(p) /\ Reader(e) /\ Reader(p) /\ Judged(e) /\ Judged(p)
      /\ Safe(w, z) /\ w.role = e /\ w.msg = 0
  BY PeerEnds DEF CInv, Called
<1>2. /\ ws'[e] = w.c /\ ws'[p] = ws[p]
      /\ wire'[e] = wire[e] \o w.put /\ wire'[p] = wire[p]
      /\ closes'[e] = closes[e] + CloseFrames(w.put) /\ closes'[p] = closes[p]
      /\ received' = received /\ verdict'[p] = verdict[p]
      /\ verdict'[e] = (IF r.res \in Fatal /\ verdict[e] = None THEN r.res ELSE verdict[e])
      /\ dropped' = dropped /\ ~dropped[e]
  BY <1>1 DEF Returns, TypeOK
<1>3. TypeOK'
  BY <1>1, TypesKept
<1>4. CloseFrames(wire[e]) <= closes[e]
  BY <1>1 DEF Sender
<1> HIDE DEF p, w
<1>5. /\ Sender(e)' /\ (Gone(e)' <=> Gone(e))
      /\ ~dropped[Peer(e)] => Path(Line(e)', Got(Peer(e)), z, TRUE)
  BY <1>1, <1>2, <1>4, SenderKept
<1>6. /\ Line(p)' = Line(p) /\ (Gone(p)' <=> Gone(p)) /\ (Whole(p)' <=> Whole(p)) /\ Whole(e)'
  BY <1>2 DEF Line, Gone, Whole
<1>7. Sender(p)'
  BY <1>1, <1>2, <1>6 DEF Sender, Line, Gone
<1>8. w.c.incomplete = ws[e].incomplete
  BY DEF Called, w
<1>9. Got(e)' = Got(e) /\ Got(p)' = Got(p) /\ Put(p)' = Put(p) /\ Put(e)' = z
  BY <1>2, <1>8 DEF Got, Put, UserMoves, p
<1>10. \/ ws'[e].state = ws[e].state
       \/ ws[e].state = "Active" /\ ws'[e].state = "ClosedByUs"
       \/ ws'[e].state = "Terminated" /\ r.res \in Fatal
  BY <1>2 DEF Called, w
<1>11. Reader(e)'
  <2>1. (~dropped[e])' => Path(Line(p)', Got(e)', Put(p)', Whole(p)')
    <3>1. ~dropped[e] => Path(Line(p), Got(e), Put(p), Whole(p))
      BY <1>1 DEF Reader, p
    <3> QED
      BY <1>2, <1>6, <1>9, <3>1, ZenonT(60) DEF Path, PathOf
  <2>2. ws'[e].state \in {"ClosedByPeer", "CloseAcknowledged"} => Gone(p)'
    BY <1>1, <1>6, <1>10 DEF Reader, p
  <2>3. wrote'[p] = wrote[p]
    BY DEF UserMoves, p
  <2> QED
    BY <1>1, <1>2, <1>8, <2>1, <2>2, <2>3 DEF Reader, p
<1>12. Reader(p)'
  <2>1. (~dropped[p])' => Path(Line(e)', Got(p)', Put(e)', Whole(e)')
    <3>1. ~dropped[p] => Path(Line(e)', Got(p), z, TRUE)
      BY <1>5 DEF p
    <3> QED
      BY <1>2, <1>6, <1>9, <3>1, ZenonT(60) DEF Path, PathOf
  <2>2. ws'[p].state \in {"ClosedByPeer", "CloseAcknowledged"} => Gone(e)'
    BY <1>1, <1>2, <1>5 DEF Reader
  <2>3. Len(received'[p]) <= wrote'[e]
    <3>1. /\ Len(received[p]) \in Nat /\ wrote[e] \in Nat /\ wrote'[e] \in Nat
          /\ wrote[e] <= wrote'[e] /\ Len(received[p]) <= wrote[e]
      <4>1. Len(received[p]) \in Nat /\ wrote[e] \in Nat
        BY <1>1, EndTypes
      <4>2. wrote'[e] \in Nat /\ wrote[e] <= wrote'[e]
        BY <1>1 DEF UserMoves
      <4>3. Len(received[p]) <= wrote[e]
        BY <1>1 DEF Reader
      <4> QED
        BY <4>1, <4>2, <4>3
    <3> QED
      BY <1>2, <3>1
  <2> QED
    BY <1>1, <1>2, <2>1, <2>2, <2>3 DEF Reader
<1>13. Judged(e)'
  <2>1. ws'[e].state = "Terminated" => dropped'[e] \/ verdict'[e] # None
    <3>1. None \notin Fatal
      BY DEF Fatal, None
    <3> QED
      BY <1>1, <1>2, <1>10, <3>1 DEF Judged
  <2>2. ASSUME verdict'[e] = "closed"
        PROVE  ~CanRead(ws'[e].state) /\ ws'[p].state # "Active" /\ Len(received'[e]) = wrote'[p]
    <3>1. /\ ~CanRead(ws[e].state) /\ ws[p].state # "Active" /\ Len(received[e]) = wrote[p]
      <4>1. CASE verdict[e] = "closed"
        BY <1>1, <4>1 DEF Judged, p
      <4>2. CASE verdict[e] # "closed"
        <5>1. verdict[e] = None /\ r.res = "closed"
          BY <1>2, <2>2, <4>2
        <5>2. ~CanRead(ws[e].state) /\ ws[e].state # "Terminated"
          BY <1>1, <1>2, <5>1 DEF Called, Judged
        <5>3. ws[e].state \in {"ClosedByPeer", "CloseAcknowledged"}
          BY <1>1, <5>2 DEF TypeOK, States, CanRead
        <5> QED
          BY <1>2, <5>2, <5>3, AllRead DEF p
      <4> QED
        BY <4>1, <4>2
    <3>2. ~CanRead(ws'[e].state)
      BY <1>10, <3>1 DEF CanRead
    <3> QED
      BY <1>2, <3>1, <3>2 DEF UserMoves, p
  <2>3. verdict'[e] \notin {"badMask", "unexpectedContinue", "expectedFragment", "receivedAfterClosing"}
    BY <1>1, <1>2 DEF Judged, Called
  <2> QED
    BY <2>1, <2>2, <2>3 DEF Judged, p
<1>14. Judged(p)'
  <2>1. verdict'[p] = "closed" =>
            ~CanRead(ws'[p].state) /\ ws'[e].state # "Active" /\ Len(received'[p]) = wrote'[e]
    BY <1>1, <1>2, <1>10 DEF Judged, UserMoves
  <2> QED
    BY <1>1, <1>2, <2>1 DEF Judged
<1> QED
  BY <1>1, <1>3, <1>5, <1>7, <1>11, <1>12, <1>13, <1>14 DEF CInv

\* The first frame of what the stream holds is the first of the line.
LEMMA LineTail ==
  ASSUME NEW s \in Seq(Frame), NEW t \in Seq(Frame), s # <<>>
  PROVE  s \o t # <<>> /\ Head(s \o t) = Head(s) /\ Tail(s \o t) = Tail(s) \o t
<1>1. Head(s) \in Frame /\ Tail(s) \in Seq(Frame) /\ s = <<Head(s)>> \o Tail(s) /\ <<Head(s)>> \in Seq(Frame)
  BY HeadTailProperties
<1>2. s \o t = <<Head(s)>> \o (Tail(s) \o t)
  BY <1>1, FramesAssociative
<1>3. Tail(s) \o t \in Seq(Frame)
  BY <1>1, ConcatProperties
<1> DEFINE h == Head(s)
           u == Tail(s) \o t
<1> HIDE DEF h, u
<1>4. <<h>> \o u # <<>> /\ Head(<<h>> \o u) = h /\ Tail(<<h>> \o u) = u
  <2>1. h \in Frame /\ u \in Seq(Frame)
    BY <1>1, <1>3 DEF h, u
  <2> QED
    BY <2>1
<1> QED
  BY <1>2, <1>4 DEF h, u

\* What e's reading of the first frame of its peer comes to.
FrameOutcome(e, v) ==
    LET f == Head(wire[Peer(e)])
        r == OnFrame(v, f)
        k == Len(received[e])
    IN  /\ Safe(r.v, Put(e)) /\ r.v.role = e /\ r.res \in {"ok", "latePong"}
        /\ \/ r.v.c.state = ws[e].state
           \/ f.op = "Close" /\ r.v.c.state \in {"ClosedByPeer", "CloseAcknowledged"}
        /\ f.op \in DataOps \/ f.op = "Close" => CanRead(ws[e].state)
        /\ \/ f.op \notin DataOps /\ r.v.msg = 0 /\ r.v.c.incomplete = ws[e].incomplete
           \/ f.op = "First" /\ r.v.msg = 0 /\ r.v.c.incomplete = k + 1 /\ f.n = k + 1
           \/ f.op \in {"Binary", "Last"} /\ r.v.msg = k + 1 /\ r.v.c.incomplete = 0 /\ f.n = k + 1

\* read_message_frame on a frame: it fits, unless it is a pong that comes too late.
LEMMA FrameRead ==
  ASSUME CInv, NEW e \in Ends, ~dropped[e], NEW v, Begun(e, v, Put(e)), v.c.state = ws[e].state,
         ws[e].state # "Terminated", wire[Peer(e)] # <<>>
  PROVE  FrameOutcome(e, v)
<1> DEFINE p == Peer(e)
           f == Head(wire[p])
           r == OnFrame(v, f)
           k == Len(received[e])
           z == Put(e)
<1> USE DEF FrameOutcome
<1>1. /\ p \in Ends /\ Peer(p) = e /\ TypeOK /\ Sender(p) /\ Reader(e)
      /\ v \in Views /\ v.role = e /\ Safe(v, z) /\ v.msg = 0 /\ v.c.incomplete = ws[e].incomplete
  BY PeerEnds DEF CInv, Begun, Safe
<1>2. /\ wire[p] \in Seq(Frame) /\ ws[p].out \in Seq(Frame) /\ Line(p) \in Seq(Frame) /\ k \in Nat
      /\ Put(p) \in Nat /\ Got(e) \in Nat /\ Whole(p) \in BOOLEAN
  BY <1>1, EndTypes
<1>3. f \in Frame /\ Line(p) # <<>> /\ Head(Line(p)) = f /\ f = Line(p)[1] /\ 1 \in 1 .. Len(Line(p))
  <2>1. Line(p) # <<>> /\ Head(Line(p)) = f
    BY <1>2, LineTail DEF Line
  <2>2. f \in Frame
    BY <1>2, HeadTailProperties
  <2>3. f = Line(p)[1] /\ 1 \in 1 .. Len(Line(p))
    BY <1>2, <2>1, EmptySeq, LenProperties
  <2> QED
    BY <2>1, <2>2, <2>3
<1>4. f.masked <=> p = "client"
  BY <1>1, <1>2, <1>3, MaskedTail DEF Sender
<1>5. f.op \in DataOps => Got(e) = From(f)
  <2>1. Path(Line(p), Got(e), Put(p), Whole(p))
    BY <1>1 DEF Reader
  <2> QED
    BY <1>2, <1>3, <2>1, PathTail
<1>6. ~CanRead(ws[e].state) => f.op = "Pong"
  <2> SUFFICES ASSUME ~CanRead(ws[e].state) PROVE f.op = "Pong"
    OBVIOUS
  <2>1. ws[e].state \in {"ClosedByPeer", "CloseAcknowledged"}
    BY <1>1 DEF TypeOK, States, CanRead
  <2> QED
    BY <1>3, <2>1, AllRead
<1>7. f.masked <=> v.role = "server"
  BY <1>1, <1>4 DEF Ends, Peer
<1>8. f.op \in {"Binary", "First", "Last", "Ping", "Pong", "Close"} /\ f.n \in 0 .. MaxMessages
  BY <1>3 DEF Frame, DataOps, ControlOps
<1>9. CloseDue(closes[e] + CloseFrames(Accepted(v)), v.c) /\ closes[e] \in Nat /\ CloseFrames(Accepted(v)) \in Nat
  BY <1>1, EndTypes, ViewFields, CloseFramesType DEF Safe
<1>10. ws[e].incomplete \in {0, k + 1} /\ Got(e) = 2 * k + (IF ws[e].incomplete # 0 THEN 1 ELSE 0)
  BY <1>1 DEF Reader, Got, Half
<1> HIDE DEF p, f, k, z
<1>11. CASE ~CanRead(v.c.state)
  <2>1. f.op = "Pong"
    BY <1>6, <1>11
  <2>2. r = R(v, "latePong")
    BY <1>11, <2>1 DEF OnFrame
  <2>3. f.op \notin DataOps
    BY <2>1 DEF DataOps
  <2> QED
    BY <1>1, <2>1, <2>2, <2>3 DEF R, p, f, z
<1>12. CASE CanRead(v.c.state)
  <2>0. v.c.state \in {"Active", "ClosedByUs"}
    BY <1>12 DEF CanRead
  <2>1. r = CASE f.op = "Close" -> R(DoClose(v), "ok")
              [] f.op = "Ping" -> R(IF v.c.state = "Active" THEN SetAdditional(v, "Pong") ELSE v, "ok")
              [] f.op = "Pong" -> R(v, "ok")
              [] OTHER -> OnData(v, f)
    <3>1. f.masked = (v.role = "server")
      <4>1. f.masked \in BOOLEAN
        BY <1>3 DEF Frame
      <4> QED
        BY <1>7, <4>1
    <3> QED
      BY <1>12, <3>1 DEF OnFrame
  <2> HIDE DEF r
  <2>2. CASE f.op = "Close"
    <3>1. r = R(DoClose(v), "ok") /\ f.op \notin DataOps
      BY <2>1, <2>2 DEF DataOps
    <3>2. CASE v.c.state = "Active"
      <4> DEFINE u == [v EXCEPT !.c.state = "ClosedByPeer"]
                 w == [u EXCEPT !.c.additional = "Close"]
      <4>1. /\ u \in Views /\ Keeps(v, u) /\ Accepted(u) = Accepted(v) /\ u.c.state = "ClosedByPeer"
            /\ u.c.additional = v.c.additional /\ u.role = v.role /\ u.put = v.put
            /\ u.room = v.room /\ u.c.out = v.c.out
        BY <1>1, WithState DEF States
      <4>2. v.c.additional \in {None, "Pong"} /\ closes[e] + CloseFrames(Accepted(v)) = 0
        BY <1>1, <1>9, <3>2, ViewFields DEF CloseDue, Half
      <4> HIDE DEF u
      <4>3. DoClose(v) = w
        BY <3>2, <4>1, <4>2 DEF DoClose, SetAdditional, u
      <4>4. w \in Views
        <5>1. [u.c EXCEPT !.additional = "Close"] \in Contexts
          BY <4>1, ViewFields, ContextWith
        <5>2. w = [u EXCEPT !.c = [u.c EXCEPT !.additional = "Close"]]
          OBVIOUS
        <5> QED
          BY <4>1, <5>1, <5>2, ViewWith
      <4>5. /\ w.role = e /\ w.msg = 0 /\ w.room = v.room /\ w.put = v.put
            /\ w.c.out = v.c.out /\ w.c.state = "ClosedByPeer"
            /\ w.c.additional = "Close" /\ w.c.incomplete = ws[e].incomplete
        <5>1. /\ w.role = u.role /\ w.msg = u.msg /\ w.room = u.room /\ w.put = u.put
              /\ w.c.out = u.c.out /\ w.c.state = u.c.state
              /\ w.c.additional = "Close" /\ w.c.incomplete = u.c.incomplete
          BY <4>1, ViewFields DEF Views, Contexts
        <5> HIDE DEF w
        <5> QED
          BY <1>1, <4>1, <5>1 DEF Keeps
      <4> HIDE DEF w
      <4>6. Safe(w, z)
        <5>1. Accepted(w) = Accepted(v)
          BY <4>5 DEF Accepted
        <5>2. CloseDue(closes[e] + CloseFrames(Accepted(v)), w.c)
          BY <4>2, <4>5 DEF CloseDue, Half
        <5> QED
          BY <1>1, <4>4, <4>5, <5>1, <5>2, SafeSame DEF Safe
      <4>7. r.v = w /\ r.res = "ok"
        BY <3>1, <4>3 DEF R
      <4> QED
        BY <1>12, <2>2, <3>1, <4>5, <4>6, <4>7 DEF p, f, r, z
    <3>3. CASE v.c.state # "Active"
      <4> DEFINE w == [v EXCEPT !.c.state = "CloseAcknowledged"]
      <4>1. /\ w \in Views /\ Keeps(v, w) /\ Accepted(w) = Accepted(v) /\ w.c.state = "CloseAcknowledged"
            /\ w.c.additional = v.c.additional /\ w.role = v.role /\ w.put = v.put
            /\ w.room = v.room /\ w.c.out = v.c.out
        BY <1>1, WithState DEF States
      <4>2. DoClose(v) = w
        BY <3>3 DEF DoClose
      <4> HIDE DEF w
      <4>3. Safe(w, z)
        <5>1. CloseDue(closes[e] + CloseFrames(Accepted(v)), w.c)
          BY <1>9, <4>1 DEF CloseDue
        <5> QED
          BY <1>1, <4>1, <5>1, SafeSame DEF Safe
      <4>4. r.v = w /\ r.res = "ok"
        BY <3>1, <4>2 DEF R
      <4>5. w.role = e /\ w.msg = 0 /\ w.c.incomplete = ws[e].incomplete
        BY <1>1, <4>1 DEF Keeps
      <4> QED
        BY <1>12, <2>2, <3>1, <4>1, <4>3, <4>4, <4>5 DEF p, f, r, z
    <3> QED
      BY <3>2, <3>3
  <2>3. CASE f.op = "Ping"
    <3>1. r = R(IF v.c.state = "Active" THEN SetAdditional(v, "Pong") ELSE v, "ok") /\ f.op \notin DataOps
      BY <2>1, <2>3 DEF DataOps
    <3>2. Begun(e, r.v, z) /\ r.res = "ok"
      <4>1. CASE v.c.state = "Active"
        BY <1>1, <3>1, <4>1, PongBegun DEF R, z
      <4>2. CASE v.c.state # "Active"
        BY <3>1, <4>2 DEF R, z
      <4> QED
        BY <4>1, <4>2
    <3>3. r.v.c.state = ws[e].state
      <4>1. CASE v.c.state = "Active"
        <5>1. v.c \in Contexts
          BY <1>1, ViewFields
        <5>2. SetAdditional(v, "Pong").c.state = v.c.state
          BY <1>1, <5>1 DEF SetAdditional, Views, Contexts
        <5> QED
          BY <3>1, <4>1, <5>2 DEF R
      <4>2. CASE v.c.state # "Active"
        BY <3>1, <4>2 DEF R
      <4> QED
        BY <4>1, <4>2
    <3> QED
      BY <2>3, <3>1, <3>2, <3>3 DEF Begun, p, f, r, z
  <2>4. CASE f.op = "Pong"
    <3>1. r = R(v, "ok") /\ f.op \notin DataOps
      BY <2>1, <2>4 DEF DataOps
    <3> QED
      BY <1>1, <2>4, <3>1 DEF R, p, f, r, z
  <2>5. CASE f.op \in DataOps
    <3>1. r = OnData(v, f) /\ Got(e) = From(f) /\ f.op \in {"Binary", "First", "Last"}
      BY <1>5, <2>1, <2>5 DEF DataOps
    <3>2. f.n = k + 1 /\ ws[e].incomplete = IF f.op = "Last" THEN k + 1 ELSE 0
      <4>1. k \in Nat /\ f.n \in Nat
        BY <1>2, <1>8, BoundsKnown DEF k
      <4>2. CASE f.op = "Last"
        <5>1. 2 * k + (IF ws[e].incomplete # 0 THEN 1 ELSE 0) = 2 * f.n - 1
          BY <1>10, <3>1, <4>2 DEF From
        <5>2. ws[e].incomplete # 0 /\ f.n = k + 1
          BY <4>1, <5>1
        <5> QED
          BY <1>10, <4>2, <5>2
      <4>3. CASE f.op # "Last"
        <5>1. 2 * k + (IF ws[e].incomplete # 0 THEN 1 ELSE 0) = 2 * f.n - 2
          BY <1>10, <3>1, <4>3 DEF From
        <5>2. ws[e].incomplete = 0 /\ f.n = k + 1
          BY <4>1, <5>1
        <5> QED
          BY <4>3, <5>2
      <4> QED
        BY <4>2, <4>3
    <3>3. v.c \in Contexts /\ k + 1 \in 0 .. MaxMessages /\ k + 1 # 0 /\ 0 \in 0 .. MaxMessages
      BY <1>1, <1>2, <1>8, <3>2, ViewFields, BoundsKnown DEF k
    <3>4. ASSUME NEW c \in Contexts, NEW m \in 0 .. MaxMessages, NEW w \in Views,
                 w = [v EXCEPT !.c = c, !.msg = m] \/ w = [v EXCEPT !.c = c],
                 c.out = v.c.out, c.state = v.c.state, c.additional = v.c.additional
          PROVE  Safe(w, z) /\ w.role = e
      <4>1. w.role = v.role /\ w.c = c /\ w.put = v.put /\ w.room = v.room
        BY <1>1, <3>4 DEF Views
      <4>2. Accepted(w) = Accepted(v) /\ CloseDue(closes[e] + CloseFrames(Accepted(v)), w.c)
        BY <1>9, <3>4, <4>1 DEF Accepted, CloseDue
      <4> QED
        BY <1>1, <3>4, <4>1, <4>2, SafeSame DEF Safe
    <3>5. CASE f.op = "Last"
      <4> DEFINE c == [v.c EXCEPT !.incomplete = 0]
                 w == [v EXCEPT !.c = c, !.msg = k + 1]
      <4>1. r = R(w, "ok")
        BY <1>1, <3>1, <3>2, <3>3, <3>5 DEF OnData
      <4>2. c \in Contexts /\ w \in Views
        BY <1>1, <3>3, ContextWith, ViewWith
      <4>3. c.out = v.c.out /\ c.state = v.c.state /\ c.additional = v.c.additional /\ c.incomplete = 0
        BY <3>3 DEF Contexts
      <4>4. w.c = c /\ w.msg = k + 1
        BY <1>1 DEF Views
      <4> HIDE DEF c
      <4>5. Safe(w, z) /\ w.role = e
        BY <3>3, <3>4, <4>2, <4>3
      <4> HIDE DEF w
      <4> QED
        BY <1>1, <1>12, <3>2, <3>5, <4>1, <4>3, <4>4, <4>5, SMTT(30) DEF R, p, f, r, z, k, DataOps
    <3>6. CASE f.op = "First"
      <4> DEFINE c == [v.c EXCEPT !.incomplete = f.n]
                 w == [v EXCEPT !.c = c]
      <4>1. r = R(w, "ok")
        BY <1>1, <3>1, <3>2, <3>3, <3>6 DEF OnData
      <4>2. c \in Contexts /\ w \in Views
        BY <1>1, <1>8, <3>3, ContextWith, ViewWith
      <4>3. c.out = v.c.out /\ c.state = v.c.state /\ c.additional = v.c.additional /\ c.incomplete = f.n
        BY <3>3 DEF Contexts
      <4>4. w.c = c /\ w.msg = v.msg
        BY <1>1 DEF Views
      <4> HIDE DEF c
      <4>5. Safe(w, z) /\ w.role = e
        BY <3>3, <3>4, <4>2, <4>3
      <4> HIDE DEF w
      <4> QED
        BY <1>1, <1>12, <3>2, <3>6, <4>1, <4>3, <4>4, <4>5, SMTT(30) DEF R, p, f, r, z, k, DataOps
    <3>7. CASE f.op = "Binary"
      <4> DEFINE w == [v EXCEPT !.msg = f.n]
      <4>1. r = R(w, "ok")
        BY <1>1, <3>1, <3>2, <3>3, <3>7 DEF OnData
      <4>2. w = [v EXCEPT !.c = v.c, !.msg = f.n] /\ w.c = v.c /\ w.msg = f.n
        BY <1>1 DEF Views
      <4>3. w \in Views
        BY <1>1, <1>8, <3>3, <4>2, ViewWith
      <4>5. Safe(w, z) /\ w.role = e
        <5> HIDE DEF w
        <5> QED
          BY <1>8, <3>3, <3>4, <4>2, <4>3
      <4> HIDE DEF w
      <4> QED
        <5>1. w.c.incomplete = 0 /\ w.c.state = ws[e].state /\ w.msg = k + 1
          BY <1>1, <3>2, <3>7, <4>2
        <5>2. r.v = w /\ r.res = "ok"
          BY <4>1 DEF R
        <5> QED
          BY <1>12, <3>2, <3>7, <4>5, <5>1, <5>2 DEF p, f, r, z, k
    <3> QED
      BY <3>1, <3>5, <3>6, <3>7
  <2> QED
    BY <1>8, <2>2, <2>3, <2>4, <2>5 DEF DataOps
<1> QED
  BY <1>11, <1>12

\* A call that reads a frame.
LEMMA FrameKeeps ==
  ASSUME CInv, NEW e \in Ends, NEW v, Begun(e, v, Put(e)), v.c.state = ws[e].state,
         ws[e].state # "Terminated", wire[Peer(e)] # <<>>,
         Returns(e, OnFrame(v, Head(wire[Peer(e)])), "frame"), UNCHANGED userVars
  PROVE  CInv'
<1> DEFINE p == Peer(e)
           f == Head(wire[p])
           r == OnFrame(v, f)
           w == r.v
           k == Len(received[e])
           z == Put(e)
<1>1. /\ p \in Ends /\ p # e /\ Peer(p) = e /\ (\A x \in Ends : x = e \/ x = p)
      /\ TypeOK /\ Sender(e) /\ Sender(p) /\ Reader(e) /\ Reader(p) /\ Judged(e) /\ Judged(p)
  BY PeerEnds DEF CInv
<1>2. /\ ws'[e] = w.c /\ ws'[p] = ws[p]
      /\ wire'[e] = wire[e] \o w.put /\ wire'[p] = Tail(wire[p])
      /\ closes'[e] = closes[e] + CloseFrames(w.put) /\ closes'[p] = closes[p]
      /\ received'[e] = (IF w.msg = 0 THEN received[e] ELSE Append(received[e], w.msg))
      /\ received'[p] = received[p] /\ verdict'[p] = verdict[p]
      /\ verdict'[e] = (IF r.res \in Fatal /\ verdict[e] = None THEN r.res ELSE verdict[e])
      /\ dropped' = dropped /\ ~dropped[e]
  <2> HIDE DEF f
  <2>1. Returns(e, r, "frame")
    BY DEF f
  <2> HIDE DEF r
  <2>2. /\ ws'[e] = w.c /\ ws'[p] = ws[p] /\ dropped' = dropped /\ ~dropped[e]
        /\ closes'[e] = closes[e] + CloseFrames(w.put) /\ closes'[p] = closes[p]
    <3>1. /\ ws' = [ws EXCEPT ![e] = w.c] /\ dropped' = dropped /\ ~dropped[e]
          /\ closes' = [closes EXCEPT ![e] = @ + CloseFrames(w.put)]
      BY <2>1 DEF Returns
    <3>2. DOMAIN ws = Ends /\ DOMAIN closes = Ends
      BY <1>1 DEF TypeOK
    <3> QED
      BY <1>1, <3>1, <3>2
  <2>3. wire'[e] = wire[e] \o w.put /\ wire'[p] = Tail(wire[p])
    <3>1. wire' = [wire EXCEPT ![e] = @ \o w.put, ![p] = Tail(@)]
      BY <2>1 DEF Returns
    <3>2. DOMAIN wire = Ends
      BY <1>1 DEF TypeOK
    <3> QED
      BY <1>1, <3>1, <3>2
  <2>4. /\ received'[e] = (IF w.msg = 0 THEN received[e] ELSE Append(received[e], w.msg))
        /\ received'[p] = received[p]
    <3>1. received' = IF w.msg = 0 THEN received ELSE [received EXCEPT ![e] = Append(@, w.msg)]
      BY <2>1 DEF Returns
    <3>2. DOMAIN received = Ends
      BY <1>1 DEF TypeOK
    <3> QED
      BY <1>1, <3>1, <3>2
  <2>5. /\ verdict'[e] = (IF r.res \in Fatal /\ verdict[e] = None THEN r.res ELSE verdict[e])
        /\ verdict'[p] = verdict[p]
    <3>1. verdict' = IF r.res \in Fatal /\ verdict[e] = None
                     THEN [verdict EXCEPT ![e] = r.res] ELSE verdict
      BY <2>1 DEF Returns
    <3>2. DOMAIN verdict = Ends
      BY <1>1 DEF TypeOK
    <3> QED
      BY <1>1, <3>1, <3>2
  <2> QED
    BY <2>2, <2>3, <2>4, <2>5
<1>3. /\ Safe(w, z) /\ w.role = e /\ r.res \in {"ok", "latePong"}
      /\ \/ w.c.state = ws[e].state
         \/ f.op = "Close" /\ w.c.state \in {"ClosedByPeer", "CloseAcknowledged"}
      /\ f.op \in DataOps \/ f.op = "Close" => CanRead(ws[e].state)
      /\ \/ f.op \notin DataOps /\ w.msg = 0 /\ w.c.incomplete = ws[e].incomplete
         \/ f.op = "First" /\ w.msg = 0 /\ w.c.incomplete = k + 1 /\ f.n = k + 1
         \/ f.op \in {"Binary", "Last"} /\ w.msg = k + 1 /\ w.c.incomplete = 0 /\ f.n = k + 1
  <2>1. /\ CInv /\ ~dropped[e] /\ Begun(e, v, Put(e)) /\ v.c.state = ws[e].state
        /\ ws[e].state # "Terminated" /\ wire[Peer(e)] # <<>>
    BY <1>2
  <2>2. FrameOutcome(e, v)
    BY <2>1, FrameRead
  <2> QED
    BY <2>2 DEF FrameOutcome
<1>4. wrote' = wrote /\ midway' = midway /\ controls' = controls
  BY DEF userVars
<1>5. UserMoves(e, z)
  BY <1>1, UserStays DEF z
<1>6. Returns(e, r, "frame")
  OBVIOUS
<1> HIDE DEF r, f
<1>7. TypeOK'
  BY <1>1, <1>3, <1>5, <1>6, TypesKept
<1>8. CloseFrames(wire[e]) <= closes[e]
  BY <1>1 DEF Sender
<1>9. /\ wire[p] \in Seq(Frame) /\ ws[p].out \in Seq(Frame) /\ Line(p) \in Seq(Frame) /\ k \in Nat
      /\ Put(p) \in Nat /\ Got(e) \in Nat /\ Whole(p) \in BOOLEAN /\ Gone(p) \in BOOLEAN
      /\ closes[p] \in Nat /\ CloseFrames(wire[p]) \in Nat /\ received[e] \in Seq(1 .. MaxMessages)
      /\ wrote[p] \in Nat
  BY <1>1, EndTypes
<1> HIDE DEF w, z, k, p
<1>10. /\ Sender(e)' /\ (Gone(e)' <=> Gone(e))
       /\ ~dropped[Peer(e)] => Path(Line(e)', Got(Peer(e)), z, TRUE)
  BY <1>1, <1>2, <1>3, <1>8, SenderKept
<1>11. wire[p] # <<>> /\ f = Head(wire[p])
  BY DEF p, f
<1>12. Line(p) # <<>> /\ Head(Line(p)) = f /\ Line(p)' = Tail(Line(p)) /\ f \in Frame
  <2>1. f \in Frame
    BY <1>9, <1>11, HeadTailProperties
  <2> QED
    BY <1>2, <1>9, <1>11, <2>1, LineTail DEF Line
<1>13. /\ CloseFrames(wire[p]) = (IF f.op = "Close" THEN 1 ELSE 0) + CloseFrames(wire'[p])
       /\ CloseFrames(wire'[p]) \in Nat
  <2>1. Tail(wire[p]) \in Seq(Frame)
    BY <1>9, <1>11, HeadTailProperties
  <2> QED
    BY <1>2, <1>9, <1>11, <2>1, CloseFramesTail, CloseFramesType
<1>14. /\ Gone(p) \/ f.op = "Close" => Gone(p)'
       /\ Gone(p)' => Gone(p) \/ f.op = "Close"
       /\ CloseFrames(wire'[p]) <= closes'[p]
  <2>1. CloseFrames(wire[p]) <= closes[p]
    BY <1>1 DEF Sender
  <2> QED
    BY <1>2, <1>9, <1>13, <2>1 DEF Gone
<1>15. Sender(p)'
  <2>1. Masked(Line(p)', p)
    BY <1>1, <1>9, <1>12, MaskedTail DEF Sender
  <2>2. PongsBehindClose(Line(p)', Gone(p)')
    <3>1. Gone(p)' \in BOOLEAN
      BY DEF Gone
    <3> QED
      BY <1>1, <1>9, <1>12, <1>14, <3>1, PongsTail DEF Sender
  <2>3. CloseDue(closes'[p] + CloseFrames(ws'[p].out), ws'[p])
    BY <1>1, <1>2 DEF Sender
  <2>4. Masked(Line(p), p)' /\ PongsBehindClose(Line(p), Gone(p))'
    BY <2>1, <2>2 DEF Masked, PongsBehindClose
  <2>5. (CloseDue(closes[p] + CloseFrames(ws[p].out), ws[p]))'
    BY <2>3 DEF CloseDue, CloseFrames
  <2> QED
    BY <1>14, <2>4, <2>5 DEF Sender, CloseFrames
<1>16. Got(p)' = Got(p) /\ Put(p)' = Put(p) /\ Put(e)' = z /\ (Whole(p)' <=> Whole(p)) /\ Whole(e)'
  BY <1>2, <1>4 DEF Got, Put, Whole, z
<1>17. /\ Len(received'[e]) \in Nat
       /\ \/ f.op \notin DataOps /\ received'[e] = received[e] /\ ws'[e].incomplete = ws[e].incomplete
          \/ f.op = "First" /\ received'[e] = received[e] /\ ws'[e].incomplete = k + 1 /\ f.n = k + 1
          \/ /\ f.op \in {"Binary", "Last"} /\ received'[e] = Append(received[e], k + 1)
             /\ ws'[e].incomplete = 0 /\ f.n = k + 1 /\ Len(received'[e]) = k + 1
             /\ k + 1 \in 1 .. MaxMessages
  <2>1. CASE f.op \in {"Binary", "Last"} /\ w.msg = k + 1 /\ w.c.incomplete = 0 /\ f.n = k + 1
    <3>1. received'[e] = Append(received[e], k + 1)
      BY <1>2, <1>9, <2>1
    <3>2. w.msg \in 0 .. MaxMessages
      BY <1>3, ViewFields DEF Safe
    <3>3. k + 1 \in 1 .. MaxMessages
      BY <1>9, <2>1, <3>2, BoundsKnown
    <3>4. Len(Append(received[e], k + 1)) = k + 1
      BY <1>9, <3>3, AppendProperties DEF k
    <3> QED
      BY <1>2, <1>9, <2>1, <3>1, <3>3, <3>4
  <2>2. CASE f.op \notin DataOps /\ w.msg = 0 /\ w.c.incomplete = ws[e].incomplete
    BY <1>2, <1>9, <2>2 DEF k
  <2>3. CASE f.op = "First" /\ w.msg = 0 /\ w.c.incomplete = k + 1 /\ f.n = k + 1
    BY <1>2, <1>9, <2>3 DEF k
  <2> QED
    BY <1>3, <2>1, <2>2, <2>3
<1>18. Got(e)' = IF f.op \in DataOps THEN To(f) ELSE Got(e)
  <2>1. CASE f.op \notin DataOps
    BY <1>17, <2>1 DEF Got, DataOps
  <2>2. CASE f.op = "First"
    <3>1. Got(e)' = 2 * k + 1
      <4>1. received'[e] = received[e] /\ ws'[e].incomplete = k + 1
        BY <1>17, <2>2 DEF DataOps
      <4>2. ws'[e].incomplete # 0
        BY <1>9, <4>1
      <4> QED
        BY <4>1, <4>2 DEF Got, Half, k
    <3>2. To(f) = 2 * (k + 1) - 1
      BY <1>17, <2>2 DEF To, DataOps
    <3> QED
      BY <1>9, <2>2, <3>1, <3>2 DEF DataOps
  <2>3. CASE f.op \in {"Binary", "Last"}
    <3>1. Len(received'[e]) = k + 1 /\ ws'[e].incomplete = 0 /\ f.n = k + 1
      BY <1>17, <2>3 DEF DataOps
    <3>2. Got(e)' = 2 * (k + 1) + 0
      BY <3>1 DEF Got, Half
    <3>3. To(f) = 2 * (k + 1)
      BY <2>3, <3>1 DEF To
    <3> QED
      BY <1>9, <2>3, <3>2, <3>3 DEF DataOps
  <2> QED
    BY <2>1, <2>2, <2>3 DEF DataOps
<1>19. Got(e)' \in Nat /\ Got(e)' <= Put(p) /\ Path(Tail(Line(p)), Got(e)', Put(p), Whole(p))
  <2>1. Path(Line(p), Got(e), Put(p), Whole(p))
    BY <1>1, <1>2 DEF Reader, p
  <2> DEFINE b == IF Head(Line(p)).op \in DataOps THEN To(Head(Line(p))) ELSE Got(e)
  <2>2. b \in Nat /\ b <= Put(p) /\ Path(Tail(Line(p)), b, Put(p), Whole(p))
    BY <1>9, <1>12, <2>1, PathTail
  <2>3. Got(e)' = b
    BY <1>12, <1>18
  <2> HIDE DEF b
  <2> QED
    BY <2>2, <2>3
<1>20. Reader(e)'
  <2>1. (~dropped[e])' => Path(Line(p)', Got(e)', Put(p)', Whole(p)')
    <3>1. Path(Line(p)', Got(e)', Put(p)', Whole(p)) /\ (Whole(p)' <=> Whole(p))
      BY <1>12, <1>16, <1>19
    <3> QED
      BY <3>1, ZenonT(60) DEF Path, PathOf
  <2>2. ws'[e].state \in {"ClosedByPeer", "CloseAcknowledged"} => Gone(p)'
    BY <1>1, <1>2, <1>3, <1>14 DEF Reader, p
  <2>3. Len(received'[e]) <= wrote'[p]
    <3>1. Half(midway[p]) \in {0, 1} /\ Half(ws'[e].incomplete # 0) \in {0, 1}
      BY HalfType
    <3>2. \A a, b \in Nat : \A g, h \in {0, 1} : 2 * a + g <= 2 * b + h => a <= b
      OBVIOUS
    <3>3. 2 * Len(received'[e]) + Half(ws'[e].incomplete # 0) <= 2 * wrote[p] + Half(midway[p])
      BY <1>19 DEF Got, Put
    <3> QED
      BY <1>4, <1>9, <1>17, <3>1, <3>2, <3>3
  <2>4. ws'[e].incomplete \in {0, Len(received'[e]) + 1}
    BY <1>1, <1>17 DEF Reader, k, DataOps
  <2>5. \A j \in DOMAIN received'[e] : received'[e][j] = j
    <3>1. CASE received'[e] = received[e]
      BY <1>1, <3>1 DEF Reader
    <3>2. CASE /\ received'[e] = Append(received[e], k + 1) /\ Len(received'[e]) = k + 1
               /\ k + 1 \in 1 .. MaxMessages
      <4>1. received'[e] \in Seq(1 .. MaxMessages)
        BY <1>7 DEF TypeOK
      <4>2. DOMAIN received'[e] = 1 .. k + 1 /\ DOMAIN received[e] = 1 .. k
        BY <1>9, <3>2, <4>1, LenProperties DEF k
      <4>3. /\ \A j \in 1 .. k : Append(received[e], k + 1)[j] = received[e][j]
            /\ Append(received[e], k + 1)[k + 1] = k + 1
        BY <1>9, <3>2, AppendProperties DEF k
      <4>4. \A j \in 1 .. k : received[e][j] = j
        BY <1>1, <4>2 DEF Reader
      <4>5. ASSUME NEW j \in 1 .. k + 1 PROVE received'[e][j] = j
        <5>1. j = k + 1 \/ j \in 1 .. k
          BY <1>9
        <5> QED
          BY <3>2, <4>3, <4>4, <5>1
      <4> QED
        BY <4>2, <4>5
    <3> QED
      BY <1>17, <3>1, <3>2
  <2> QED
    BY <2>1, <2>2, <2>3, <2>4, <2>5 DEF Reader, p
<1>21. Reader(p)'
  <2>1. (~dropped[p])' => Path(Line(e)', Got(p)', Put(e)', Whole(e)')
    <3>1. ~dropped[p] => Path(Line(e)', Got(p), z, TRUE)
      BY <1>10 DEF p
    <3> QED
      BY <1>2, <1>16, <3>1, ZenonT(60) DEF Path, PathOf
  <2>2. ws'[p].state \in {"ClosedByPeer", "CloseAcknowledged"} => Gone(e)'
    BY <1>1, <1>2, <1>10 DEF Reader
  <2> QED
    BY <1>1, <1>2, <1>4, <2>1, <2>2 DEF Reader
<1>22. Judged(e)'
  <2>1. ws'[e].state # "Terminated"
    BY <1>2, <1>3
  <2>2. ASSUME verdict'[e] = "closed"
        PROVE  ~CanRead(ws'[e].state) /\ ws'[p].state # "Active" /\ Len(received'[e]) = wrote'[p]
    <3>1. verdict[e] = "closed"
      BY <1>2, <1>3, <2>2
    <3>2. ~CanRead(ws[e].state) /\ ws[p].state # "Active" /\ Len(received[e]) = wrote[p]
      BY <1>1, <3>1 DEF Judged, p
    <3>3. f.op \notin DataOps /\ f.op # "Close"
      BY <1>3, <3>2
    <3>4. ws'[e].state = ws[e].state /\ received'[e] = received[e]
      BY <1>2, <1>3, <1>17, <3>3 DEF DataOps
    <3> QED
      BY <1>2, <1>4, <3>2, <3>4
  <2>3. verdict'[e] \notin {"badMask", "unexpectedContinue", "expectedFragment", "receivedAfterClosing"}
    BY <1>1, <1>2, <1>3 DEF Judged
  <2> QED
    BY <2>1, <2>2, <2>3 DEF Judged, p
<1>23. Judged(p)'
  <2>1. ws[e].state # "Active" => ws'[e].state # "Active"
    BY <1>2, <1>3
  <2>2. verdict'[p] = "closed" =>
            ~CanRead(ws'[p].state) /\ ws'[e].state # "Active" /\ Len(received'[p]) = wrote'[e]
    BY <1>1, <1>2, <1>4, <2>1 DEF Judged
  <2> QED
    BY <1>1, <1>2, <2>2 DEF Judged
<1> QED
  BY <1>1, <1>7, <1>10, <1>15, <1>20, <1>21, <1>22, <1>23 DEF CInv

\* Dropping a stream: what its buffer held is lost.
LEMMA DropKeeps ==
  ASSUME CInv, NEW e \in Ends, Drop(e)
  PROVE  CInv'
<1> DEFINE p == Peer(e)
<1>1. /\ p \in Ends /\ p # e /\ Peer(p) = e /\ (\A x \in Ends : x = e \/ x = p)
      /\ TypeOK /\ Sender(e) /\ Sender(p) /\ Reader(e) /\ Reader(p) /\ Judged(e) /\ Judged(p)
  BY PeerEnds DEF CInv
<1>2. /\ ws'[e] = Context("Terminated") /\ ws'[p] = ws[p] /\ wire' = wire /\ closes' = closes
      /\ received' = received /\ verdict' = verdict /\ dropped'[e] = TRUE /\ dropped'[p] = dropped[p]
      /\ wrote' = wrote /\ midway' = midway /\ controls' = controls /\ ~dropped[e]
  BY <1>1 DEF Drop, TypeOK, userVars
<1>3. /\ Context("Terminated") \in Contexts /\ Context("Terminated").out = <<>>
      /\ Context("Terminated").state = "Terminated" /\ Context("Terminated").additional = None
      /\ Context("Terminated").incomplete = 0
  BY BoundsKnown DEF Context, Contexts, States
<1>4. TypeOK'
  <2>1. ws' \in [Ends -> Contexts] /\ dropped' \in [Ends -> BOOLEAN]
    <3>1. ws \in [Ends -> Contexts] /\ dropped \in [Ends -> BOOLEAN]
      BY <1>1 DEF TypeOK, Contexts
    <3> QED
      BY <1>3, <3>1 DEF Drop
  <2>2. Len(ws'[e].out) <= MaxOut
    BY <1>2, <1>3, BoundsKnown
  <2>3. Len(ws'[p].out) <= MaxOut
    BY <1>1, <1>2, EndTypes
  <2>4. \A x \in Ends : Len(ws'[x].out) <= MaxOut
    BY <1>1, <2>2, <2>3
  <2> HIDE DEF p
  <2> QED
    BY <1>1, <1>2, <2>1, <2>4 DEF TypeOK, Contexts
<1>5. /\ wire[e] \in Seq(Frame) /\ ws[e].out \in Seq(Frame) /\ closes[e] \in Nat
      /\ CloseFrames(wire[e]) \in Nat /\ CloseFrames(ws[e].out) \in Nat /\ Gone(e) \in BOOLEAN
      /\ Put(e) \in Nat /\ Got(p) \in Nat /\ Whole(e) \in BOOLEAN
  BY <1>1, EndTypes
<1> HIDE DEF p
<1>6. Line(e)' = wire[e] /\ Line(p)' = Line(p) /\ (Gone(e)' <=> Gone(e)) /\ (Gone(p)' <=> Gone(p))
  <2>1. wire[e] \o <<>> = wire[e]
    BY <1>5, ConcatEmptySeq
  <2> QED
    BY <1>2, <1>3, <2>1 DEF Line, Gone
<1>7. Sender(e)'
  <2>1. Masked(Line(e)', e) /\ PongsBehindClose(Line(e)', Gone(e))
    <3>1. Masked(wire[e] \o ws[e].out, e) /\ PongsBehindClose(wire[e] \o ws[e].out, Gone(e))
      BY <1>1 DEF Sender, Line
    <3>2. Masked(wire[e], e)
      BY <1>5, <3>1, PrefixKeeps
    <3>3. PongsBehindClose(wire[e], Gone(e))
      BY <1>5, <3>1, <3>2, PrefixKeeps
    <3> QED
      BY <1>6, <3>2, <3>3
  <2>2. Masked(Line(e), e)' /\ PongsBehindClose(Line(e), Gone(e))'
    BY <1>6, <2>1 DEF Masked, PongsBehindClose
  <2>3. CloseFrames(ws'[e].out) = 0
    <3>1. <<>> \in Seq(Frame) /\ Len(<<>>) = 0
      OBVIOUS
    <3> DEFINE s == <<>>
    <3>2. CloseFrames(s) = 0
      <4>1. s \in Seq(Frame) /\ Len(s) = 0
        BY <3>1
      <4> HIDE DEF s
      <4>2. 1 .. Len(s) = {}
        BY <4>1
      <4> QED
        BY <4>1, <4>2, CloseFramesType
    <3> QED
      BY <1>2, <1>3, <3>2
  <2>4. closes[e] <= 1
    <3>1. Half(ws[e].additional = "Close") \in {0, 1}
      BY HalfType
    <3> QED
      BY <1>1, <1>5, <3>1 DEF Sender, CloseDue
  <2>5. CloseDue(closes'[e] + CloseFrames(ws'[e].out), ws'[e])
    BY <1>2, <1>3, <1>5, <2>3, <2>4 DEF CloseDue, Half, None
  <2>6. (CloseDue(closes[e] + CloseFrames(ws[e].out), ws[e]))'
    BY <2>5 DEF CloseDue, CloseFrames
  <2>7. CloseFrames(wire'[e]) <= closes'[e]
    BY <1>1, <1>2 DEF Sender
  <2> QED
    BY <2>2, <2>6, <2>7 DEF Sender, CloseFrames
<1>8. Sender(p)'
  BY <1>1, <1>2, <1>6 DEF Sender, Line, Gone
<1>9. Reader(e)'
  <2>1. ws'[e].incomplete = 0 /\ ws'[e].state = "Terminated" /\ dropped'[e]
    BY <1>2, <1>3
  <2> QED
    BY <1>1, <1>2, <2>1 DEF Reader
<1>10. Got(p)' = Got(p) /\ Put(e)' = Put(e) /\ (Whole(e)' <=> closes[e] > 0)
  BY <1>2 DEF Got, Put, Whole
<1>11. Reader(p)'
  <2>1. ~dropped[p] => Path(wire[e], Got(p), Put(e), closes[e] > 0)
    <3> SUFFICES ASSUME ~dropped[p] PROVE Path(wire[e], Got(p), Put(e), closes[e] > 0)
      OBVIOUS
    <3>1. Path(wire[e] \o ws[e].out, Got(p), Put(e), Whole(e))
      BY <1>1 DEF Reader, Line
    <3>2. ASSUME closes[e] > 0 PROVE Whole(e) /\ \A j \in 1 .. Len(ws[e].out) : ws[e].out[j].op \notin DataOps
      <4>1. Gone(e) \/ CloseFrames(wire[e]) > 0
        BY <1>5, <3>2 DEF Gone
      <4>2. \A j \in 1 .. Len(ws[e].out) : ws[e].out[j].op = "Pong"
        <5>1. PongsBehindClose(wire[e] \o ws[e].out, Gone(e))
          BY <1>1 DEF Sender, Line
        <5> QED
          BY <1>5, <4>1, <5>1, PongsLost
      <4> QED
        BY <3>2, <4>2 DEF Whole, DataOps
    <3>3. CASE closes[e] > 0
      <4>1. Path(wire[e] \o ws[e].out, Got(p), Put(e), TRUE)
        BY <3>1, <3>2, <3>3, ZenonT(60) DEF Path, PathOf
      <4>2. Path(wire[e], Got(p), Put(e), TRUE)
        BY <1>5, <3>2, <3>3, <4>1, PathPrefix
      <4> QED
        BY <3>3, <4>2 DEF Path, PathOf
    <3>4. CASE ~(closes[e] > 0)
      <4>0. Path(wire[e] \o ws[e].out, Got(p), Put(e), FALSE)
        BY <3>1, ZenonT(60) DEF Path, PathOf
      <4>1. Path(wire[e], Got(p), Put(e), FALSE)
        BY <1>5, <4>0, PathPrefix
      <4> QED
        BY <3>4, <4>1 DEF Path, PathOf
    <3> QED
      BY <3>3, <3>4
  <2>2. (~dropped[p])' => Path(Line(e)', Got(p)', Put(e)', Whole(e)')
    <3>1. ~dropped[p] => Path(Line(e)', Got(p)', Put(e)', closes[e] > 0)
      BY <1>6, <1>10, <2>1
    <3> QED
      BY <1>2, <1>10, <3>1, ZenonT(60) DEF Path, PathOf
  <2>3. ws'[p].state \in {"ClosedByPeer", "CloseAcknowledged"} => Gone(e)'
    BY <1>1, <1>2, <1>6 DEF Reader
  <2> QED
    BY <1>1, <1>2, <2>2, <2>3 DEF Reader
<1>12. Judged(e)'
  <2>1. ws'[e].state = "Terminated" /\ ~CanRead(ws'[e].state) /\ dropped'[e]
    BY <1>2, <1>3 DEF CanRead
  <2> QED
    BY <1>1, <1>2, <2>1 DEF Judged, p
<1>13. Judged(p)'
  <2>1. ws'[e].state = "Terminated"
    BY <1>2, <1>3
  <2> QED
    BY <1>1, <1>2, <2>1 DEF Judged
<1> QED
  BY <1>1, <1>4, <1>7, <1>8, <1>9, <1>11, <1>12, <1>13 DEF CInv

\* Two fresh contexts at the ends of an empty stream.
LEMMA CInvInit == Init => CInv
<1> SUFFICES ASSUME Init PROVE CInv
  OBVIOUS
<1>1. MaxOut \in Nat /\ Window \in Nat /\ MaxMessages \in Nat
  BY BoundsKnown
<1> DEFINE s == <<>>
<1>2. s \in Seq(Frame) /\ Len(s) = 0 /\ s \o s = s /\ DOMAIN s = {} /\ 1 .. Len(s) = {}
  <2>1. <<>> \o <<>> = <<>> /\ Len(<<>>) = 0 /\ <<>> \in Seq(Frame)
    BY ConcatEmptySeq, EmptySeq
  <2> QED
    BY <2>1
<1>3. TypeOK
  <2>1. Context("Active") \in [state : States, additional : {None, "Pong", "Close"},
                               incomplete : 0 .. MaxMessages, out : Seq(Frame)]
    BY <1>1 DEF Context, States
  <2>2. Len(Context("Active").out) = 0 /\ <<>> \in Seq(1 .. MaxMessages)
    BY EmptySeq DEF Context
  <2>3. 0 \in 0 .. MaxMessages /\ 0 \in 0 .. MaxControls
    BY ConfigAssumption
  <2> QED
    BY <1>1, <2>1, <2>2, <2>3 DEF Init, TypeOK
<1>4. CloseFrames(s) = 0
  <2> HIDE DEF s
  <2> QED
    BY <1>2, CloseFramesType
<1>5. ASSUME NEW e \in Ends
      PROVE  /\ ws[e].out = s /\ wire[e] = s /\ received[e] = s /\ closes[e] = 0 /\ ~dropped[e]
             /\ wrote[e] = 0 /\ midway[e] = FALSE /\ ws[e].incomplete = 0 /\ ws[e].state = "Active"
             /\ ws[e].additional = None /\ verdict[e] = None
  BY DEF Init, Context
<1> HIDE DEF s
<1>6. Path(s, 0, 0, TRUE)
  <2> DEFINE st == [i \in 1 .. 1 |-> 0]
  <2>1. st \in [1 .. Len(s) + 1 -> Nat] /\ st[1] = 0 /\ \A i \in 1 .. Len(s) + 1 : st[i] = 0
    BY <1>2
  <2> HIDE DEF st
  <2>2. PathOf(st, s, 0, 0, TRUE)
    BY <1>2, <2>1 DEF PathOf
  <2> QED
    BY <2>1, <2>2 DEF Path
<1>7. ASSUME NEW e \in Ends PROVE Sender(e) /\ Reader(e) /\ Judged(e)
  <2>1. Peer(e) \in Ends
    BY PeerEnds
  <2>2. ASSUME NEW x \in Ends
        PROVE  Line(x) = s /\ ~Gone(x) /\ Whole(x) /\ Put(x) = 0 /\ Got(x) = 0
    <3>1. /\ ws[x].out = s /\ wire[x] = s /\ received[x] = s /\ closes[x] = 0 /\ ~dropped[x]
          /\ wrote[x] = 0 /\ midway[x] = FALSE /\ ws[x].incomplete = 0
      BY <1>5
    <3>2. Line(x) = s /\ ~Gone(x) /\ Whole(x)
      BY <1>2, <1>4, <3>1 DEF Line, Gone, Whole
    <3>3. Put(x) = 0
      BY <3>1 DEF Put, Half
    <3>4. Got(x) = 0
      BY <1>2, <3>1 DEF Got, Half
    <3> QED
      BY <3>2, <3>3, <3>4
  <2>6. /\ ws[e].out = s /\ wire[e] = s /\ received[e] = s /\ closes[e] = 0
        /\ ws[e].incomplete = 0 /\ ws[e].state = "Active" /\ ws[e].additional = "None"
        /\ wrote[Peer(e)] = 0
    BY <1>5, <2>1 DEF None
  <2>3. Sender(e)
    <3>1. Masked(s, e) /\ PongsBehindClose(s, FALSE)
      BY <1>2 DEF Masked, PongsBehindClose
    <3>2. PongsBehindClose(s, Gone(e))
      BY <2>2, <3>1 DEF PongsBehindClose
    <3>3. CloseDue(closes[e] + CloseFrames(ws[e].out), ws[e])
      BY <1>4, <2>6 DEF CloseDue, Half
    <3>4. CloseFrames(wire[e]) <= closes[e]
      BY <1>4, <2>6
    <3>5. Masked(Line(e), e) /\ PongsBehindClose(Line(e), Gone(e))
      BY <2>2, <3>1, <3>2
    <3> QED
      BY <3>3, <3>4, <3>5 DEF Sender
  <2>4. Reader(e)
    <3>1. Path(Line(Peer(e)), Got(e), Put(Peer(e)), Whole(Peer(e)))
      <4>1. Line(Peer(e)) = s /\ Got(e) = 0 /\ Put(Peer(e)) = 0 /\ (Whole(Peer(e)) <=> TRUE)
        BY <2>1, <2>2
      <4>2. Path(s, 0, 0, Whole(Peer(e)))
        BY <1>6 DEF Path, PathOf
      <4> QED
        BY <4>1, <4>2
    <3> QED
      BY <1>2, <2>6, <3>1 DEF Reader
  <2>5. Judged(e)
    BY <1>5 DEF Judged, None
  <2> QED
    BY <2>3, <2>4, <2>5
<1> QED
  BY <1>3, <1>7 DEF CInv

\* A message that write accepts is the user's next step.
LEMMA UserGoesOn ==
  ASSUME TypeOK, NEW e \in Ends, NEW op \in DataOps \cup ControlOps, ws[e].state = "Active",
         op \in DataOps => Total(wrote) < MaxMessages /\ midway[e] = (op = "Last"),
         op \in ControlOps => Total(controls) < MaxControls,
         wrote' = IF op \in {"Binary", "Last"} THEN [wrote EXCEPT ![e] = @ + 1] ELSE wrote,
         midway' = IF op \in DataOps THEN [midway EXCEPT ![e] = (op = "First")] ELSE midway,
         controls' = IF op \in ControlOps THEN [controls EXCEPT ![e] = @ + 1] ELSE controls
  PROVE  UserMoves(e, After(Put(e), op, IF op \in DataOps THEN wrote[e] + 1 ELSE 0))
<1> DEFINE p == Peer(e)
<1>1. p \in Ends /\ p # e /\ Ends = {"client", "server"} /\ MaxMessages \in Nat /\ MaxControls \in Nat
  BY PeerEnds, ConfigAssumption DEF Ends
<1>2. wrote \in [Ends -> 0 .. MaxMessages] /\ midway \in [Ends -> BOOLEAN] /\ controls \in [Ends -> 0 .. MaxControls]
  BY DEF TypeOK
<1> HIDE DEF p
<1>3. op \in DataOps => wrote[e] + 1 \in 0 .. MaxMessages
  BY <1>1, <1>2 DEF Total
<1>4. op \in ControlOps => controls[e] + 1 \in 0 .. MaxControls
  BY <1>1, <1>2 DEF Total
<1>5. wrote' \in [Ends -> 0 .. MaxMessages] /\ wrote'[p] = wrote[p] /\ wrote[e] <= wrote'[e]
  BY <1>1, <1>2, <1>3 DEF DataOps
<1>6. midway' \in [Ends -> BOOLEAN] /\ midway'[p] = midway[p]
  <2>1. (op = "First") \in BOOLEAN
    OBVIOUS
  <2> QED
    BY <1>1, <1>2, <2>1
<1>7. controls' \in [Ends -> 0 .. MaxControls]
  BY <1>1, <1>2, <1>4
<1>8. Put(e)' = After(Put(e), op, IF op \in DataOps THEN wrote[e] + 1 ELSE 0)
  <2>1. op \in {"Binary", "First", "Last", "Ping", "Pong"} /\ wrote[e] \in Nat
    BY <1>1, <1>2 DEF DataOps, ControlOps
  <2>2. CASE op = "First"
    <3>1. wrote'[e] = wrote[e] /\ midway'[e] = TRUE
      BY <1>2, <2>2 DEF DataOps
    <3> QED
      BY <2>1, <2>2, <3>1 DEF Put, Half, After, DataOps
  <2>3. CASE op \in {"Binary", "Last"}
    <3>1. wrote'[e] = wrote[e] + 1 /\ midway'[e] = FALSE
      BY <1>2, <2>3 DEF DataOps
    <3> QED
      BY <2>1, <2>3, <3>1 DEF Put, Half, After, DataOps
  <2>4. CASE op \in {"Ping", "Pong"}
    <3>1. wrote' = wrote /\ midway' = midway
      BY <2>4 DEF DataOps
    <3> QED
      BY <2>1, <2>4, <3>1 DEF Put, After
  <2> QED
    BY <2>1, <2>2, <2>3, <2>4
<1> QED
  BY <1>5, <1>6, <1>7, <1>8 DEF UserMoves, p

\* write.
LEMMA WriteKeeps ==
  ASSUME CInv, NEW e \in Ends, NEW op \in DataOps \cup ControlOps, UserWrite(e, op)
  PROVE  CInv'
<1> DEFINE n == IF op \in DataOps THEN wrote[e] + 1 ELSE 0
<1>1. PICK r \in Write(View(e), op, n) :
        LET taken == r.res \notin {"already", "sendAfterClosing", "full"}
        IN  /\ Returns(e, r, None)
            /\ wrote' = IF taken /\ op \in {"Binary", "Last"}
                        THEN [wrote EXCEPT ![e] = @ + 1] ELSE wrote
            /\ midway' = IF taken /\ op \in DataOps
                         THEN [midway EXCEPT ![e] = (op = "First")] ELSE midway
            /\ controls' = IF taken /\ op \in ControlOps
                           THEN [controls EXCEPT ![e] = @ + 1] ELSE controls
  BY DEF UserWrite
<1>2. /\ op \in DataOps => Total(wrote) < MaxMessages /\ midway[e] = (op = "Last")
      /\ op \in ControlOps => Total(controls) < MaxControls
  BY DEF UserWrite
<1>3. TypeOK /\ ~dropped[e] /\ None # "frame" /\ Put(e) \in Nat
  BY <1>1, EndTypes DEF CInv, Returns, None
<1>4. n \in 0 .. MaxMessages /\ wrote[e] \in Nat
  <2>1. wrote["client"] \in 0 .. MaxMessages /\ wrote["server"] \in 0 .. MaxMessages /\ MaxMessages \in Nat
    BY <1>3, ConfigAssumption DEF TypeOK, Ends
  <2> QED
    BY <1>2, <2>1 DEF Total, Ends
<1>5. op \in DataOps => n = wrote[e] + 1 /\ midway[e] = (op = "Last")
  BY <1>2
<1> HIDE DEF n
<1>6. \/ r.res \in {"already", "sendAfterClosing", "full"} /\ Called(e, r, Put(e))
      \/ /\ r.res \notin {"already", "sendAfterClosing", "full"} /\ ws[e].state = "Active"
         /\ Called(e, r, After(Put(e), op, n))
  BY <1>3, <1>4, <1>5, WriteCalled
<1>7. CASE r.res \in {"already", "sendAfterClosing", "full"}
  <2>1. UNCHANGED userVars
    BY <1>1, <1>7 DEF userVars
  <2>2. UserMoves(e, Put(e))
    BY <1>3, <2>1, UserStays
  <2> QED
    BY <1>1, <1>3, <1>6, <1>7, <2>2, CallKeeps
<1>8. CASE r.res \notin {"already", "sendAfterClosing", "full"}
  <2>1. Called(e, r, After(Put(e), op, n)) /\ ws[e].state = "Active"
    BY <1>6, <1>8
  <2>2. UserMoves(e, After(Put(e), op, n))
    <3>1. /\ wrote' = IF op \in {"Binary", "Last"} THEN [wrote EXCEPT ![e] = @ + 1] ELSE wrote
          /\ midway' = IF op \in DataOps THEN [midway EXCEPT ![e] = (op = "First")] ELSE midway
          /\ controls' = IF op \in ControlOps THEN [controls EXCEPT ![e] = @ + 1] ELSE controls
      BY <1>1, <1>8
    <3> QED
      BY <1>2, <1>3, <2>1, <3>1, UserGoesOn DEF n
  <2>3. After(Put(e), op, n) \in Nat
    BY <1>3, <1>4, <1>5 DEF After, DataOps
  <2> QED
    BY <1>1, <1>3, <2>1, <2>2, <2>3, CallKeeps
<1> QED
  BY <1>7, <1>8

\* read.
LEMMA ReadKeeps ==
  ASSUME CInv, NEW e \in Ends, Read(e)
  PROVE  CInv'
<1>1. PICK b \in BeforeRead(View(e)) :
        IF ~IsOk(b) THEN Returns(e, b, None)
        ELSE \E i \in Inputs(e) : \E r \in {ReadMessageFrame(b.v, i)} : Returns(e, r, i)
  BY DEF Read
<1>2. TypeOK /\ ~dropped[e] /\ UNCHANGED userVars /\ None # "frame" /\ Put(e) \in Nat
  BY <1>1, EndTypes DEF CInv, Returns, None, Read
<1>3. UserMoves(e, Put(e))
  BY <1>2, UserStays
<1>4. /\ Called(e, b, Put(e))
      /\ IsOk(b) => Begun(e, b.v, Put(e)) /\ b.v.c.state = ws[e].state /\ ws[e].state # "Terminated"
  BY <1>2, BeforeReadCalled
<1>5. CASE ~IsOk(b)
  <2>1. Returns(e, b, None)
    BY <1>1, <1>5
  <2> QED
    BY <1>2, <1>3, <1>4, <2>1, CallKeeps
<1>6. CASE IsOk(b)
  <2>1. PICK i \in Inputs(e) : Returns(e, ReadMessageFrame(b.v, i), i)
    BY <1>1, <1>6
  <2>2. b.v.role = e
    BY <1>4, <1>6 DEF Begun
  <2>3. CASE i = "frame"
    <3>1. wire[Peer(e)] # <<>>
      BY <2>3 DEF Inputs
    <3>2. ReadMessageFrame(b.v, i) = OnFrame(b.v, Head(wire[Peer(e)]))
      BY <2>2, <2>3 DEF ReadMessageFrame
    <3>3. Returns(e, OnFrame(b.v, Head(wire[Peer(e)])), "frame")
      BY <2>1, <2>3, <3>2
    <3> QED
      BY <1>2, <1>4, <1>6, <3>1, <3>3, FrameKeeps
  <2>4. CASE i # "frame"
    <3>1. i \in {"block", "eof", "reset"}
      BY <2>4 DEF Inputs
    <3>2. Called(e, ReadMessageFrame(b.v, i), Put(e))
      BY <1>4, <1>6, <3>1, NoFrameCalled
    <3> QED
      BY <1>2, <1>3, <2>1, <2>4, <3>2, CallKeeps
  <2> QED
    BY <2>3, <2>4
<1> QED
  BY <1>5, <1>6

\* Every step keeps the invariant.
LEMMA CInvStep == CInv /\ [Next]_vars => CInv'
<1> SUFFICES ASSUME CInv, [Next]_vars PROVE CInv'
  OBVIOUS
<1>1. CASE UNCHANGED vars
  BY <1>1 DEF CInv, TypeOK, Sender, Reader, Judged, Line, Gone, Whole, Put, Got, vars, userVars
<1>2. ASSUME NEW e \in Ends, Read(e) PROVE CInv'
  BY <1>2, ReadKeeps
<1>3. ASSUME NEW e \in Ends, UserFlush(e) PROVE CInv'
  <2>1. PICK r \in Flush(View(e)) : Returns(e, r, None)
    BY <1>3 DEF UserFlush
  <2>2. TypeOK /\ ~dropped[e] /\ UNCHANGED userVars /\ None # "frame"
    BY <1>3, <2>1 DEF CInv, Returns, None, UserFlush
  <2>3. Begun(e, View(e), Put(e)) /\ CloseFrames(wire[e]) <= closes[e] /\ Put(e) \in Nat
    BY <2>2, ViewBegun
  <2>4. Called(e, r, Put(e)) /\ UserMoves(e, Put(e))
    BY <2>2, <2>3, FlushCalled, UserStays
  <2> QED
    BY <2>1, <2>2, <2>3, <2>4, CallKeeps
<1>4. ASSUME NEW e \in Ends, UserClose(e) PROVE CInv'
  <2>0. PICK coded \in BOOLEAN : \E r \in Close(View(e), coded) : Returns(e, r, None)
    BY <1>4 DEF UserClose
  <2>1. PICK r \in Close(View(e), coded) : Returns(e, r, None)
    BY <2>0
  <2>2. TypeOK /\ ~dropped[e] /\ UNCHANGED userVars /\ None # "frame" /\ Put(e) \in Nat
    BY <1>4, <2>1, EndTypes DEF CInv, Returns, None, UserClose
  <2>3. Called(e, r, Put(e)) /\ UserMoves(e, Put(e))
    BY <2>2, CloseCalled, UserStays
  <2> QED
    BY <2>1, <2>2, <2>3, CallKeeps
<1>5. ASSUME NEW e \in Ends, NEW op \in DataOps \cup ControlOps, UserWrite(e, op) PROVE CInv'
  BY <1>5, WriteKeeps
<1>6. ASSUME NEW e \in Ends, Drop(e) PROVE CInv'
  BY <1>6, DropKeeps
<1> QED
  BY <1>1, <1>2, <1>3, <1>4, <1>5, <1>6 DEF Next, End
-----------------------------------------------------------------------------
(* The theorems.                                                           *)

\* The inductive invariant holds: of the line between two ends, of what its reader has
\* made of it, and of the errors the two have met.
THEOREM CInvInvariant == Spec => []CInv
<1>1. Init => CInv
  BY CInvInit
<1>2. CInv /\ [Next]_vars => CInv'
  BY CInvStep
<1> QED
  BY <1>1, <1>2, PTL DEF Spec

\* Type correctness: no call makes the buffer longer than max_out_buffer_len, or has the
\* stream take more than it has room for.
THEOREM TypeInvariant == Spec => []TypeOK
<1>1. CInv => TypeOK
  BY DEF CInv
<1> QED
  BY <1>1, CInvInvariant, PTL

\* read returns the messages of the other end's write, each once and in its place, for
\* every size of the stream and of the buffers.
THEOREM MessagesInOrderHolds == Spec => []MessagesInOrder
<1>1. CInv => MessagesInOrder
  BY DEF CInv, Reader, MessagesInOrder
<1> QED
  BY <1>1, CInvInvariant, PTL

\* Error::ConnectionClosed is returned only to an end that has received every message
\* the other end's write has accepted.
THEOREM ClosedMeansAllReceivedHolds == Spec => []ClosedMeansAllReceived
<1>1. CInv => ClosedMeansAllReceived
  BY DEF CInv, Judged, ClosedMeansAllReceived
<1> QED
  BY <1>1, CInvInvariant, PTL

\* An end sends one close frame, with nothing behind it but pongs.
THEOREM CloseIsLastHolds == Spec => []CloseIsLast
<1>1. CInv => CloseIsLast
  <2> SUFFICES ASSUME CInv, NEW e \in Ends
               PROVE  LET s == wire[e] \o ws[e].out IN
                      /\ closes[e] + CloseFrames(ws[e].out) <= 1
                      /\ \A j \in DOMAIN s :
                             CloseFrames(SubSeq(s, 1, j - 1)) > 0 \/ closes[e] > CloseFrames(wire[e])
                             => s[j].op = "Pong"
    BY DEF CloseIsLast
  <2> DEFINE s == wire[e] \o ws[e].out
  <2>1. /\ Sender(e) /\ Line(e) = s /\ s \in Seq(Frame)
        /\ closes[e] \in Nat /\ CloseFrames(ws[e].out) \in Nat
    BY EndTypes DEF CInv, Line
  <2>2. closes[e] + CloseFrames(ws[e].out) <= 1
    <3>1. Half(ws[e].additional = "Close") \in {0, 1}
      BY HalfType
    <3> QED
      BY <2>1, <3>1 DEF Sender, CloseDue
  <2>3. PongsBehindClose(s, Gone(e)) /\ Len(s) \in Nat /\ DOMAIN s = 1 .. Len(s)
    BY <2>1, LenProperties DEF Sender
  <2> HIDE DEF s
  <2>4. ASSUME NEW j \in 1 .. Len(s), CloseFrames(SubSeq(s, 1, j - 1)) > 0
        PROVE  s[j].op = "Pong"
    <3> DEFINE t == SubSeq(s, 1, j - 1)
    <3>1. /\ t \in Seq(Frame) /\ Len(t) = j - 1
          /\ \A i \in 1 .. j - 1 : t[i] = s[i]
      BY <2>1, <2>3, SubSeqProperties
    <3>0. CloseFrames(t) > 0
      BY <2>4
    <3> HIDE DEF t
    <3>2. PICK i \in 1 .. Len(t) : t[i].op = "Close"
      BY <3>0, <3>1, CloseFramesType
    <3>3. i \in 1 .. Len(s) /\ i < j /\ s[i].op = "Close"
      BY <2>3, <3>1, <3>2
    <3> QED
      BY <2>3, <3>3 DEF PongsBehindClose
  <2>5. ASSUME NEW j \in 1 .. Len(s), closes[e] > CloseFrames(wire[e])
        PROVE  s[j].op = "Pong"
    BY <2>3, <2>5 DEF PongsBehindClose, Gone
  <2> QED
    BY <2>2, <2>3, <2>4, <2>5 DEF s
<1> QED
  BY <1>1, CInvInvariant, PTL

\* An end that has received a close frame has answered it, or has the answer buffered or
\* in additional_send.
THEOREM CloseAnsweredHolds == Spec => []CloseAnswered
<1>1. CInv => CloseAnswered
  <2> SUFFICES ASSUME CInv, NEW e \in Ends, ws[e].state = "ClosedByPeer" PROVE CloseFrameDue(e)
    BY DEF CloseAnswered
  <2>1. Sender(e) /\ closes[e] \in Nat /\ CloseFrames(ws[e].out) \in Nat
    BY EndTypes DEF CInv
  <2> QED
    BY <2>1 DEF Sender, CloseDue, CloseFrameDue, Half
<1> QED
  BY <1>1, CInvInvariant, PTL

\* Two ends never meet a frame the protocol forbids, but for the pong behind a close frame.
THEOREM EndsAgreeHolds == Spec => []EndsAgree
<1>1. CInv => EndsAgree
  BY DEF CInv, Judged, EndsAgree
<1> QED
  BY <1>1, CInvInvariant, PTL
=============================================================================
