-------------------------- MODULE SslRemoteProofs ---------------------------
(***************************************************************************)
(* Proofs about SslRemote, for every number of messages and every size of  *)
(* the sockets' buffers.                                                   *)
(*                                                                         *)
(* What rustls does inside a call is followed as a view of the end that    *)
(* calls: no step of it changes what has arrived and what is still to      *)
(* come, nor what is to be written, but for the message that is sent.      *)
(***************************************************************************)
EXTENDS SslRemote, SequenceTheorems, WellFoundedInduction, TLAPS

\* What e's peer has of e's messages, and what is on its way.
There(e) == Received(Peer(e)) \o plain[Peer(e)]
Line(e) == net[e] \o out[e]
Way(e) == MessagesOf(Line(e))

\* While its peer can read, nothing of what e has sent is lost.
Whole(e) ==
    /\ IsPrefix(There(e), sent[e])
    /\ ~shut[Peer(e)] => IF shut[e] THEN IsPrefix(There(e) \o Way(e), sent[e])
                         ELSE There(e) \o Way(e) = sent[e]

\* The records rustls keeps are those of a connection.
Kept(e) ==
    /\ shut[e] <=> stream[e] = "gone"
    /\ stream[e] # "tls" => out[e] = <<>> /\ plain[e] = <<>>
    /\ stream[e] \in {"none", "sent", "acceptor"} => net[e] = <<>> /\ sent[e] = <<>>

\* Before the acceptor has read the hello there is nothing behind it.
HelloFirst ==
    /\ stream["client"] # "acceptor"
    /\ stream["server"] \in {"none", "sent", "acceptor"} =>
           /\ Line("client") = <<>> \/ Line("client") = <<Hello>>
           /\ stream["client"] = "tls" => hs["client"]

Sending == \A t \in Threads : act[t].op = "send" => act[t].n \in Messages

SInv == TypeOK /\ HelloFirst /\ Sending /\ (\A e \in Ends : Kept(e) /\ Whole(e))
-----------------------------------------------------------------------------
(* Induction over the naturals, from the least element of a set.           *)

\* A set of naturals has a least element.
LEMMA LeastNatural ==
  ASSUME NEW T, T \subseteq Nat, T # {}
  PROVE  \E x \in T : \A y \in T : x <= y
<1> DEFINE Below == OpToRel(<, Nat)
<1>1. IsWellFoundedOn(Below, Nat)
  BY NatLessThanWellFounded
<1>2. \A y, x \in Nat : y < x => <<y, x>> \in Below
  BY DEF OpToRel
<1> HIDE DEF Below
<1>3. PICK x \in T : \A y \in T : ~(<<y, x>> \in Below)
  BY <1>1, WFMin, Zenon
<1>4. ASSUME NEW y \in T PROVE x <= y
  <2>1. x \in Nat /\ y \in Nat /\ ~(<<y, x>> \in Below)
    BY <1>3
  <2>2. ~(y < x)
    BY <2>1, <1>2, Zenon
  <2> QED
    BY <2>1, <2>2
<1> QED
  BY <1>4

\* What holds of 0 and goes from a number to the next one holds of all.
LEMMA SetInduction ==
  ASSUME NEW S, 0 \in S, \A n \in Nat : n \in S => n + 1 \in S
  PROVE  \A n \in Nat : n \in S
<1> DEFINE T == Nat \ S
<1> SUFFICES ASSUME T # {} PROVE FALSE
  OBVIOUS
<1>1. PICK x \in T : \A y \in T : x <= y
  <2>1. T \subseteq Nat
    OBVIOUS
  <2> HIDE DEF T
  <2> QED
    BY <2>1, LeastNatural
<1>2. x # 0 /\ x \in Nat /\ x - 1 \in Nat /\ x - 1 \in S
  BY <1>1
<1> QED
  BY <1>1, <1>2

\* A sequence is its front and its last element.
LEMMA FrontLast ==
  ASSUME NEW T, NEW s \in Seq(T), NEW n \in Nat, Len(s) = n + 1
  PROVE  /\ SubSeq(s, 1, n) \in Seq(T) /\ Len(SubSeq(s, 1, n)) = n /\ s[n + 1] \in T
         /\ s = Append(SubSeq(s, 1, n), s[n + 1])
<1>1. s \in Seq(T) /\ \A i \in 1 .. n + 1 : s[i] \in T
  BY ElementOfSeq
<1>2. /\ SubSeq(s, 1, n) \in Seq(T) /\ Len(SubSeq(s, 1, n)) = n
      /\ \A i \in 1 .. n : SubSeq(s, 1, n)[i] = s[i]
  <2>1. 1 \in Int /\ n \in Int /\ \A i \in 1 .. n : s[i] \in T
    BY <1>1
  <2>2. /\ SubSeq(s, 1, n) \in Seq(T)
        /\ Len(SubSeq(s, 1, n)) = IF 1 <= n THEN n - 1 + 1 ELSE 0
        /\ \A i \in 1 .. n - 1 + 1 : SubSeq(s, 1, n)[i] = s[1 + i - 1]
    BY <2>1, SubSeqProperties
  <2> QED
    BY <2>2
<1>3. s[n + 1] \in T
  BY <1>1
<1>4. s = Append(SubSeq(s, 1, n), s[n + 1])
  <2> DEFINE u == Append(SubSeq(s, 1, n), s[n + 1])
  <2>1. /\ u \in Seq(T) /\ Len(u) = n + 1 /\ u[n + 1] = s[n + 1]
        /\ \A i \in 1 .. n : u[i] = SubSeq(s, 1, n)[i]
    BY <1>2, <1>3, AppendProperties
  <2>2. \A i \in 1 .. Len(s) : s[i] = u[i]
    BY <1>2, <2>1
  <2> HIDE DEF u
  <2>3. s = u
    BY <2>1, <2>2, SeqEqual
  <2> QED
    BY <2>3 DEF u
<1> QED
  BY <1>2, <1>3, <1>4

-----------------------------------------------------------------------------
(* The application data among records.                                     *)

IsScan(f, s) ==
    f = [i \in 0 .. Len(s) |-> CASE i = 0 -> <<>>
                                 [] i > 0 /\ s[i] > 0 -> Append(f[i - 1], s[i])
                                 [] OTHER -> f[i - 1]]

\* There is a scan of every sequence.
LEMMA ScanExists == ASSUME NEW s \in Seq(Int) PROVE \E f : IsScan(f, s)
<1> DEFINE S == {n \in Nat : \A t \in Seq(Int) : Len(t) = n => \E f : IsScan(f, t)}
<1>1. 0 \in S
  <2> SUFFICES ASSUME NEW t \in Seq(Int), Len(t) = 0 PROVE \E f : IsScan(f, t)
    OBVIOUS
  <2>1. IsScan([i \in {0} |-> <<>>], t)
    BY DEF IsScan
  <2> QED
    BY <2>1
<1>2. ASSUME NEW n \in Nat, n \in S PROVE n + 1 \in S
  <2> SUFFICES ASSUME NEW t \in Seq(Int), Len(t) = n + 1 PROVE \E f : IsScan(f, t)
    OBVIOUS
  <2> DEFINE u == SubSeq(t, 1, n)
  <2>1. u \in Seq(Int) /\ Len(u) = n /\ \A i \in 1 .. n : u[i] = t[i]
    <3>1. /\ u \in Seq(Int) /\ Len(u) = n /\ t = Append(u, t[n + 1]) /\ t[n + 1] \in Int
      BY FrontLast
    <3> QED
      BY <3>1, AppendProperties
  <2> HIDE DEF u
  <2>2. PICK f : IsScan(f, u)
    BY <1>2, <2>1
  <2> DEFINE g == [i \in 0 .. n + 1 |->
                     IF i <= n THEN f[i] ELSE IF t[n + 1] > 0 THEN Append(f[n], t[n + 1]) ELSE f[n]]
  <2>3. f = [i \in 0 .. n |-> CASE i = 0 -> <<>>
                                [] i > 0 /\ u[i] > 0 -> Append(f[i - 1], u[i])
                                [] OTHER -> f[i - 1]]
    BY <2>1, <2>2 DEF IsScan
  <2>4. ASSUME NEW i \in 0 .. n + 1
        PROVE  g[i] = CASE i = 0 -> <<>>
                        [] i > 0 /\ t[i] > 0 -> Append(g[i - 1], t[i])
                        [] OTHER -> g[i - 1]
    <3>1. CASE i = 0
      BY <2>3, <3>1
    <3>2. CASE i \in 1 .. n
      <4>1. /\ i - 1 \in 0 .. n /\ i \in 0 .. n /\ u[i] = t[i] /\ g[i] = f[i] /\ g[i - 1] = f[i - 1]
        BY <2>1, <3>2
      <4>2. f[i] = CASE i = 0 -> <<>>
                     [] i > 0 /\ u[i] > 0 -> Append(f[i - 1], u[i])
                     [] OTHER -> f[i - 1]
        BY <2>3, <4>1
      <4> HIDE DEF g
      <4> QED
        BY <4>1, <4>2
    <3>3. CASE i = n + 1
      BY <3>3
    <3> QED
      BY <3>1, <3>2, <3>3
  <2>5. g = [i \in 0 .. n + 1 |-> g[i]]
    OBVIOUS
  <2>6. IsScan(g, t)
    <3> HIDE DEF g
    <3> QED
      BY <2>4, <2>5 DEF IsScan
  <2> QED
    BY <2>6
<1>3. \A n \in Nat : n \in S
  <2> HIDE DEF S
  <2> QED
    BY <1>1, <1>2, SetInduction
<1> QED
  BY <1>3, LenProperties

\* Scans of two sequences agree as far as the sequences do.
LEMMA ScansAgree ==
  ASSUME NEW s, NEW t, NEW n \in Nat, n <= Len(s), n <= Len(t), Len(s) \in Nat, Len(t) \in Nat,
         \A i \in 1 .. n : s[i] = t[i],
         NEW f, IsScan(f, s), NEW g, IsScan(g, t)
  PROVE  f[n] = g[n]
<1> DEFINE S == {i \in Nat : i <= n => f[i] = g[i]}
<1>1. ASSUME NEW i \in 0 .. Len(s)
      PROVE f[i] = CASE i = 0 -> <<>> [] i > 0 /\ s[i] > 0 -> Append(f[i - 1], s[i]) [] OTHER -> f[i - 1]
  BY DEF IsScan
<1>2. ASSUME NEW i \in 0 .. Len(t)
      PROVE g[i] = CASE i = 0 -> <<>> [] i > 0 /\ t[i] > 0 -> Append(g[i - 1], t[i]) [] OTHER -> g[i - 1]
  BY DEF IsScan
<1>3. 0 \in S
  BY <1>1, <1>2
<1>4. ASSUME NEW i \in Nat, i \in S PROVE i + 1 \in S
  <2> SUFFICES ASSUME i + 1 <= n PROVE f[i + 1] = g[i + 1]
    OBVIOUS
  <2>1. f[i] = g[i] /\ s[i + 1] = t[i + 1] /\ i + 1 \in 0 .. Len(s) /\ i + 1 \in 0 .. Len(t) /\ i + 1 > 0
    BY <1>4
  <2>2. f[i + 1] = IF s[i + 1] > 0 THEN Append(f[i], s[i + 1]) ELSE f[i]
    BY <1>1, <2>1
  <2>3. g[i + 1] = IF t[i + 1] > 0 THEN Append(g[i], t[i + 1]) ELSE g[i]
    BY <1>2, <2>1
  <2> QED
    BY <2>1, <2>2, <2>3
<1>5. \A i \in Nat : i \in S
  <2> HIDE DEF S
  <2> QED
    BY <1>3, <1>4, SetInduction
<1> QED
  BY <1>5

\* The scan that MessagesOf stands for.
LEMMA MessagesScan ==
  ASSUME NEW s \in Seq(Int)
  PROVE  \E f : IsScan(f, s) /\ MessagesOf(s) = f[Len(s)]
<1> DEFINE c == CHOOSE f : IsScan(f, s)
<1>1. MessagesOf(s) = c[Len(s)]
  BY Zenon DEF MessagesOf, IsScan
<1>2. IsScan(c, s)
  BY ScanExists, Zenon
<1> QED
  BY <1>1, <1>2
\* No records, and one more record.
LEMMA MessagesEmpty == MessagesOf(<<>>) = <<>>
<1>1. <<>> \in Seq(Int) /\ Len(<<>>) = 0
  BY EmptySeq
<1>2. PICK f : IsScan(f, <<>>) /\ MessagesOf(<<>>) = f[0]
  BY <1>1, MessagesScan
<1> QED
  BY <1>1, <1>2 DEF IsScan

LEMMA MessagesAppend ==
  ASSUME NEW s \in Seq(Int), NEW r \in Int
  PROVE  MessagesOf(Append(s, r)) = IF r > 0 THEN Append(MessagesOf(s), r) ELSE MessagesOf(s)
<1> DEFINE t == Append(s, r)
           n == Len(s)
<1>1. /\ t \in Seq(Int) /\ n \in Nat /\ Len(t) = n + 1 /\ t[n + 1] = r
      /\ \A i \in 1 .. n : t[i] = s[i]
  BY AppendProperties, LenProperties
<1> HIDE DEF t, n
<1>2. PICK f : IsScan(f, s) /\ MessagesOf(s) = f[n]
  BY MessagesScan DEF n
<1>3. PICK g : IsScan(g, t) /\ MessagesOf(t) = g[n + 1]
  BY <1>1, MessagesScan
<1>4. f[n] = g[n]
  <2>1. /\ n \in Nat /\ n <= Len(s) /\ n <= Len(t) /\ Len(s) \in Nat /\ Len(t) \in Nat
        /\ \A i \in 1 .. n : s[i] = t[i]
    BY <1>1 DEF n
  <2>2. IsScan(f, s) /\ IsScan(g, t)
    BY <1>2, <1>3
  <2> QED
    BY <2>1, <2>2, ScansAgree
<1>5. g[n + 1] = IF t[n + 1] > 0 THEN Append(g[n], t[n + 1]) ELSE g[n]
  <2>1. g = [i \in 0 .. n + 1 |-> CASE i = 0 -> <<>>
                                     [] i > 0 /\ t[i] > 0 -> Append(g[i - 1], t[i])
                                     [] OTHER -> g[i - 1]]
    BY <1>1, <1>3 DEF IsScan
  <2>2. n + 1 \in 0 .. n + 1 /\ n + 1 > 0 /\ n + 1 # 0 /\ (n + 1) - 1 = n
    BY <1>1
  <2>3. g[n + 1] = CASE n + 1 = 0 -> <<>>
                     [] n + 1 > 0 /\ t[n + 1] > 0 -> Append(g[(n + 1) - 1], t[n + 1])
                     [] OTHER -> g[(n + 1) - 1]
    BY <2>1, <2>2
  <2> QED
    BY <2>2, <2>3
<1> QED
  BY <1>1, <1>2, <1>3, <1>4, <1>5 DEF t

\* The messages among records are messages.
LEMMA MessagesType ==
  ASSUME NEW s \in Seq(Record)
  PROVE  MessagesOf(s) \in Seq(Messages)
<1> DEFINE S == {n \in Nat : \A t \in Seq(Record) : Len(t) = n => MessagesOf(t) \in Seq(Messages)}
<1>1. 0 \in S
  <2>1. <<>> \in Seq(Messages)
    BY EmptySeq
  <2>2. ASSUME NEW t \in Seq(Record), Len(t) = 0 PROVE t = <<>>
    BY <2>2, EmptySeq
  <2> QED
    BY <2>1, <2>2, MessagesEmpty
<1>2. ASSUME NEW n \in Nat, n \in S PROVE n + 1 \in S
  <2> SUFFICES ASSUME NEW t \in Seq(Record), Len(t) = n + 1 PROVE MessagesOf(t) \in Seq(Messages)
    OBVIOUS
  <2> DEFINE u == SubSeq(t, 1, n)
             r == t[n + 1]
  <2>1. u \in Seq(Record) /\ Len(u) = n /\ r \in Record /\ t = Append(u, r)
    BY FrontLast
  <2>2. MessagesOf(u) \in Seq(Messages)
    BY <1>2, <2>1
  <2> HIDE DEF u, r
  <2>3. u \in Seq(Int) /\ r \in Int /\ (r > 0 => r \in Messages)
    <3>1. Record \subseteq Int
      BY BoundsAssumption DEF Record, Messages, Hello, Flight, Finished
    <3>2. u \in Seq(Int)
      BY <2>1, <3>1, SeqMonotonic
    <3> QED
      BY <2>1, <3>1, <3>2 DEF Record, Hello, Flight, Finished
  <2>4. MessagesOf(t) = IF r > 0 THEN Append(MessagesOf(u), r) ELSE MessagesOf(u)
    BY <2>1, <2>3, MessagesAppend
  <2> QED
    BY <2>2, <2>3, <2>4, AppendProperties
<1>3. \A n \in Nat : n \in S
  <2> HIDE DEF S
  <2> QED
    BY <1>1, <1>2, SetInduction
<1> QED
  BY <1>3, LenProperties

\* Three parts of a sequence.
LEMMA RecordsAssociative ==
  ASSUME NEW s \in Seq(Record), NEW t \in Seq(Record), NEW u \in Seq(Record)
  PROVE  (s \o t) \o u = s \o (t \o u)
BY ConcatAssociative

LEMMA MessagesAssociative ==
  ASSUME NEW s \in Seq(Messages), NEW t \in Seq(Messages), NEW u \in Seq(Messages)
  PROVE  (s \o t) \o u = s \o (t \o u)
BY ConcatAssociative

\* The same, as a fact about three sequences.
Joined(s, t, u) == (s \o t) \o u = s \o (t \o u)

LEMMA MessagesJoined ==
  ASSUME NEW s \in Seq(Messages), NEW t \in Seq(Messages), NEW u \in Seq(Messages)
  PROVE  Joined(s, t, u) /\ s \o t \in Seq(Messages)
BY MessagesAssociative, ConcatProperties DEF Joined

\* A record behind two sequences.
LEMMA RecordBehind ==
  ASSUME NEW s \in Seq(Record), NEW t \in Seq(Record), NEW r \in Record
  PROVE  s \o Append(t, r) = Append(s \o t, r)
<1> DEFINE x == <<r>>
<1>1. x \in Seq(Record) /\ s \o t \in Seq(Record)
  BY ConcatProperties
<1>2. Append(t, r) = t \o x /\ Append(s \o t, r) = (s \o t) \o x
  BY <1>1, AppendIsConcat
<1> HIDE DEF x
<1>3. (s \o t) \o x = s \o (t \o x)
  BY <1>1, RecordsAssociative
<1> QED
  BY <1>2, <1>3

\* A record is a number, of a message if it is positive.
LEMMA RecordsAreNumbers ==
  ASSUME NEW s \in Seq(Record)
  PROVE  s \in Seq(Int)
<1>1. Record \subseteq Int
  BY BoundsAssumption DEF Record, Messages, Hello, Flight, Finished
<1> QED
  BY <1>1, SeqMonotonic

\* The messages of two sequences of records, one behind the other.
LEMMA MessagesConcat ==
  ASSUME NEW s \in Seq(Record), NEW t \in Seq(Record)
  PROVE  MessagesOf(s \o t) = MessagesOf(s) \o MessagesOf(t)
<1> DEFINE S == {n \in Nat : \A u \in Seq(Record) : Len(u) = n =>
                     MessagesOf(s \o u) = MessagesOf(s) \o MessagesOf(u)}
<1>1. 0 \in S
  <2> SUFFICES ASSUME NEW u \in Seq(Record), Len(u) = 0
               PROVE  MessagesOf(s \o u) = MessagesOf(s) \o MessagesOf(u)
    OBVIOUS
  <2>1. u = <<>>
    BY EmptySeq
  <2>2. s \o <<>> = s /\ MessagesOf(s) \o <<>> = MessagesOf(s)
    BY ConcatEmptySeq, MessagesType
  <2> QED
    BY <2>1, <2>2, MessagesEmpty
<1>2. ASSUME NEW n \in Nat, n \in S PROVE n + 1 \in S
  <2> SUFFICES ASSUME NEW u \in Seq(Record), Len(u) = n + 1
               PROVE  MessagesOf(s \o u) = MessagesOf(s) \o MessagesOf(u)
    OBVIOUS
  <2> DEFINE w == SubSeq(u, 1, n)
             r == u[n + 1]
  <2>1. w \in Seq(Record) /\ Len(w) = n /\ r \in Record /\ u = Append(w, r)
    BY FrontLast
  <2>2. MessagesOf(s \o w) = MessagesOf(s) \o MessagesOf(w)
    BY <1>2, <2>1
  <2> HIDE DEF w, r
  <2>3. s \o w \in Seq(Record) /\ <<r>> \in Seq(Record)
    BY <2>1, ConcatProperties
  <2>4. s \o u = Append(s \o w, r)
    BY <2>1, RecordBehind
  <2>5. /\ MessagesOf(u) = IF r > 0 THEN Append(MessagesOf(w), r) ELSE MessagesOf(w)
        /\ MessagesOf(s \o u) = IF r > 0 THEN Append(MessagesOf(s \o w), r) ELSE MessagesOf(s \o w)
    <3>1. w \in Seq(Int) /\ s \o w \in Seq(Int) /\ r \in Int
      <4>1. r \in Int
        BY <2>1, BoundsAssumption DEF Record, Messages, Hello, Flight, Finished
      <4> QED
        BY <2>1, <2>3, <4>1, RecordsAreNumbers
    <3> QED
      BY <2>1, <2>4, <3>1, MessagesAppend
  <2>6. CASE r > 0
    <3>1. MessagesOf(s) \in Seq(Messages) /\ MessagesOf(w) \in Seq(Messages) /\ r \in Messages
      BY <2>1, <2>6, MessagesType DEF Record, Hello, Flight, Finished
    <3> DEFINE a == MessagesOf(s)
               b == MessagesOf(w)
               x == <<r>>
    <3>2. a \in Seq(Messages) /\ b \in Seq(Messages) /\ x \in Seq(Messages) /\ r \in Messages
      BY <3>1
    <3>3. MessagesOf(s \o u) = Append(a \o b, r) /\ MessagesOf(u) = Append(b, r)
      BY <2>2, <2>5, <2>6
    <3> HIDE DEF a, b
    <3>4. a \o b \in Seq(Messages) /\ Append(a \o b, r) = (a \o b) \o x /\ Append(b, r) = b \o x
      BY <3>2, ConcatProperties, AppendIsConcat
    <3> HIDE DEF x
    <3>5. (a \o b) \o x = a \o (b \o x)
      BY <3>2, MessagesAssociative
    <3> QED
      BY <3>3, <3>4, <3>5 DEF a
  <2>7. CASE ~(r > 0)
    BY <2>2, <2>5, <2>7
  <2> QED
    BY <2>6, <2>7
<1>3. \A n \in Nat : n \in S
  <2> HIDE DEF S
  <2> QED
    BY <1>1, <1>2, SetInduction
<1> QED
  BY <1>3, LenProperties

-----------------------------------------------------------------------------
(* The data of events.                                                     *)

IsGather(f, s) == f = [i \in 0 .. Len(s) |-> IF i = 0 THEN <<>> ELSE f[i - 1] \o s[i].data]

\* There is a gathering of every sequence of events.
LEMMA GatherExists == ASSUME NEW s \in Seq(Event) PROVE \E f : IsGather(f, s)
<1> DEFINE S == {n \in Nat : \A t \in Seq(Event) : Len(t) = n => \E f : IsGather(f, t)}
<1>1. 0 \in S
  <2> SUFFICES ASSUME NEW t \in Seq(Event), Len(t) = 0 PROVE \E f : IsGather(f, t)
    OBVIOUS
  <2>1. IsGather([i \in {0} |-> <<>>], t)
    BY DEF IsGather
  <2> QED
    BY <2>1
<1>2. ASSUME NEW n \in Nat, n \in S PROVE n + 1 \in S
  <2> SUFFICES ASSUME NEW t \in Seq(Event), Len(t) = n + 1 PROVE \E f : IsGather(f, t)
    OBVIOUS
  <2> DEFINE u == SubSeq(t, 1, n)
  <2>1. u \in Seq(Event) /\ Len(u) = n /\ \A i \in 1 .. n : u[i] = t[i]
    <3>1. /\ u \in Seq(Event) /\ Len(u) = n /\ t = Append(u, t[n + 1]) /\ t[n + 1] \in Event
      BY FrontLast
    <3> QED
      BY <3>1, AppendProperties
  <2> HIDE DEF u
  <2>2. PICK f : IsGather(f, u)
    BY <1>2, <2>1
  <2> DEFINE g == [i \in 0 .. n + 1 |-> IF i <= n THEN f[i] ELSE f[n] \o t[n + 1].data]
  <2>3. f = [i \in 0 .. n |-> IF i = 0 THEN <<>> ELSE f[i - 1] \o u[i].data]
    BY <2>1, <2>2 DEF IsGather
  <2>4. ASSUME NEW i \in 0 .. n + 1
        PROVE  g[i] = IF i = 0 THEN <<>> ELSE g[i - 1] \o t[i].data
    <3>1. CASE i = 0
      BY <2>3, <3>1
    <3>2. CASE i \in 1 .. n
      <4>1. /\ i - 1 \in 0 .. n /\ i \in 0 .. n /\ u[i] = t[i] /\ g[i] = f[i] /\ g[i - 1] = f[i - 1]
        BY <2>1, <3>2
      <4>2. f[i] = IF i = 0 THEN <<>> ELSE f[i - 1] \o u[i].data
        BY <2>3, <4>1
      <4> HIDE DEF g
      <4> QED
        BY <4>1, <4>2
    <3>3. CASE i = n + 1
      BY <3>3
    <3> QED
      BY <3>1, <3>2, <3>3
  <2>5. g = [i \in 0 .. n + 1 |-> g[i]]
    OBVIOUS
  <2>6. IsGather(g, t)
    <3> HIDE DEF g
    <3> QED
      BY <2>4, <2>5 DEF IsGather
  <2> QED
    BY <2>6
<1>3. \A n \in Nat : n \in S
  <2> HIDE DEF S
  <2> QED
    BY <1>1, <1>2, SetInduction
<1> QED
  BY <1>3, LenProperties

\* Gatherings of two sequences agree as far as the sequences do.
LEMMA GatheringsAgree ==
  ASSUME NEW s, NEW t, NEW n \in Nat, n <= Len(s), n <= Len(t), Len(s) \in Nat, Len(t) \in Nat,
         \A i \in 1 .. n : s[i] = t[i],
         NEW f, IsGather(f, s), NEW g, IsGather(g, t)
  PROVE  f[n] = g[n]
<1> DEFINE S == {i \in Nat : i <= n => f[i] = g[i]}
<1>1. ASSUME NEW i \in 0 .. Len(s) PROVE f[i] = IF i = 0 THEN <<>> ELSE f[i - 1] \o s[i].data
  BY DEF IsGather
<1>2. ASSUME NEW i \in 0 .. Len(t) PROVE g[i] = IF i = 0 THEN <<>> ELSE g[i - 1] \o t[i].data
  BY DEF IsGather
<1>3. 0 \in S
  BY <1>1, <1>2
<1>4. ASSUME NEW i \in Nat, i \in S PROVE i + 1 \in S
  <2> SUFFICES ASSUME i + 1 <= n PROVE f[i + 1] = g[i + 1]
    OBVIOUS
  <2>1. f[i] = g[i] /\ s[i + 1] = t[i + 1] /\ i + 1 \in 0 .. Len(s) /\ i + 1 \in 0 .. Len(t) /\ i + 1 > 0
    BY <1>4
  <2>2. f[i + 1] = f[i] \o s[i + 1].data
    <3>1. f[i + 1] = IF i + 1 = 0 THEN <<>> ELSE f[(i + 1) - 1] \o s[i + 1].data
      BY <1>1, <2>1
    <3>2. i + 1 # 0 /\ (i + 1) - 1 = i
      OBVIOUS
    <3> QED
      BY <3>1, <3>2
  <2>3. g[i + 1] = g[i] \o t[i + 1].data
    <3>1. g[i + 1] = IF i + 1 = 0 THEN <<>> ELSE g[(i + 1) - 1] \o t[i + 1].data
      BY <1>2, <2>1
    <3>2. i + 1 # 0 /\ (i + 1) - 1 = i
      OBVIOUS
    <3> QED
      BY <3>1, <3>2
  <2> QED
    BY <2>1, <2>2, <2>3
<1>5. \A i \in Nat : i \in S
  <2> HIDE DEF S
  <2> QED
    BY <1>3, <1>4, SetInduction
<1> QED
  BY <1>5

\* The gathering that DataOf stands for.
LEMMA DataGather ==
  ASSUME NEW s \in Seq(Event)
  PROVE  \E f : IsGather(f, s) /\ DataOf(s) = f[Len(s)]
<1> DEFINE c == CHOOSE f : IsGather(f, s)
<1>1. DataOf(s) = c[Len(s)]
  BY Zenon DEF DataOf, IsGather
<1>2. IsGather(c, s)
  BY GatherExists, Zenon
<1> QED
  BY <1>1, <1>2

\* No events, and one more event.
LEMMA DataEmpty == DataOf(<<>>) = <<>>
<1>1. <<>> \in Seq(Event) /\ Len(<<>>) = 0
  BY EmptySeq
<1>2. PICK f : IsGather(f, <<>>) /\ DataOf(<<>>) = f[0]
  BY <1>1, DataGather
<1> QED
  BY <1>1, <1>2 DEF IsGather

LEMMA DataAppend ==
  ASSUME NEW s \in Seq(Event), NEW ev \in Event
  PROVE  DataOf(Append(s, ev)) = DataOf(s) \o ev.data
<1> DEFINE t == Append(s, ev)
           n == Len(s)
<1>1. /\ t \in Seq(Event) /\ n \in Nat /\ Len(t) = n + 1 /\ t[n + 1] = ev
      /\ \A i \in 1 .. n : t[i] = s[i]
  BY AppendProperties, LenProperties
<1> HIDE DEF t, n
<1>2. PICK f : IsGather(f, s) /\ DataOf(s) = f[n]
  BY DataGather DEF n
<1>3. PICK g : IsGather(g, t) /\ DataOf(t) = g[n + 1]
  BY <1>1, DataGather
<1>4. f[n] = g[n]
  <2>1. /\ n \in Nat /\ n <= Len(s) /\ n <= Len(t) /\ Len(s) \in Nat /\ Len(t) \in Nat
        /\ \A i \in 1 .. n : s[i] = t[i]
    BY <1>1 DEF n
  <2>2. IsGather(f, s) /\ IsGather(g, t)
    BY <1>2, <1>3
  <2> QED
    BY <2>1, <2>2, GatheringsAgree
<1>5. g[n + 1] = g[n] \o t[n + 1].data
  <2>1. g = [i \in 0 .. n + 1 |-> IF i = 0 THEN <<>> ELSE g[i - 1] \o t[i].data]
    BY <1>1, <1>3 DEF IsGather
  <2>2. n + 1 \in 0 .. n + 1 /\ n + 1 # 0 /\ (n + 1) - 1 = n
    BY <1>1
  <2>3. g[n + 1] = IF n + 1 = 0 THEN <<>> ELSE g[(n + 1) - 1] \o t[n + 1].data
    BY <2>1, <2>2
  <2> QED
    BY <2>2, <2>3
<1> QED
  BY <1>1, <1>2, <1>3, <1>4, <1>5 DEF t

\* What events hand over is messages.
LEMMA DataType ==
  ASSUME NEW s \in Seq(Event)
  PROVE  DataOf(s) \in Seq(Messages)
<1> DEFINE S == {n \in Nat : \A t \in Seq(Event) : Len(t) = n => DataOf(t) \in Seq(Messages)}
<1>1. 0 \in S
  <2>1. <<>> \in Seq(Messages)
    BY EmptySeq
  <2>2. ASSUME NEW t \in Seq(Event), Len(t) = 0 PROVE t = <<>>
    BY <2>2, EmptySeq
  <2> QED
    BY <2>1, <2>2, DataEmpty
<1>2. ASSUME NEW n \in Nat, n \in S PROVE n + 1 \in S
  <2> SUFFICES ASSUME NEW t \in Seq(Event), Len(t) = n + 1 PROVE DataOf(t) \in Seq(Messages)
    OBVIOUS
  <2> DEFINE u == SubSeq(t, 1, n)
             r == t[n + 1]
  <2>1. u \in Seq(Event) /\ Len(u) = n /\ r \in Event /\ t = Append(u, r)
    BY FrontLast
  <2>2. DataOf(u) \in Seq(Messages)
    BY <1>2, <2>1
  <2> HIDE DEF u, r
  <2>3. DataOf(t) = DataOf(u) \o r.data /\ r.data \in Seq(Messages)
    <3>1. r.data \in Seq(Messages)
      BY <2>1 DEF Event
    <3> QED
      BY <2>1, <3>1, DataAppend
  <2> QED
    BY <2>2, <2>3, ConcatProperties
<1>3. \A n \in Nat : n \in S
  <2> HIDE DEF S
  <2> QED
    BY <1>1, <1>2, SetInduction
<1> QED
  BY <1>3, LenProperties

-----------------------------------------------------------------------------
(* Prefixes.                                                               *)

\* A prefix is what something can follow.
LEMMA PrefixOfConcat ==
  ASSUME NEW s \in Seq(Messages), NEW u \in Seq(Messages)
  PROVE  IsPrefix(s, s \o u)
<1>1. s \o u \in Seq(Messages) /\ Len(s) \in Nat /\ Len(u) \in Nat /\ Len(s \o u) = Len(s) + Len(u)
      /\ \A i \in 1 .. Len(s) : (s \o u)[i] = s[i]
  BY ConcatProperties, LenProperties
<1>2. s = SubSeq(s \o u, 1, Len(s))
  <2> DEFINE w == s \o u
             n == Len(s)
             p == SubSeq(w, 1, n)
  <2>1. n \in Int /\ 1 \in Int /\ n \in Nat /\ \A i \in 1 .. n : w[i] \in Messages
    BY <1>1, ElementOfSeq
  <2>2. \A i \in 1 .. n : w[i] = s[i]
    BY <1>1
  <2> HIDE DEF w, n
  <2>3. /\ p \in Seq(Messages) /\ Len(p) = IF 1 <= n THEN n - 1 + 1 ELSE 0
        /\ \A i \in 1 .. n - 1 + 1 : p[i] = w[1 + i - 1]
    BY <2>1, SubSeqProperties
  <2>4. Len(p) = Len(s) /\ \A i \in 1 .. Len(p) : p[i] = s[i]
    BY <2>1, <2>2, <2>3 DEF n
  <2> HIDE DEF p
  <2>5. p = s
    BY <2>3, <2>4, SeqEqual
  <2> QED
    BY <2>5 DEF p, w, n
<1> QED
  BY <1>1, <1>2 DEF IsPrefix

LEMMA PrefixRest ==
  ASSUME NEW s \in Seq(Messages), NEW t \in Seq(Messages), IsPrefix(s, t)
  PROVE  \E u \in Seq(Messages) : t = s \o u
<1> DEFINE m == Len(s)
           n == Len(t)
           u == SubSeq(t, m + 1, n)
<1>1. m \in Nat /\ n \in Nat /\ m <= n /\ s = SubSeq(t, 1, m) /\ \A i \in 1 .. n : t[i] \in Messages
  BY LenProperties, ElementOfSeq DEF IsPrefix
<1>2. u \in Seq(Messages)
  <2>1. m + 1 \in Int /\ n \in Int /\ \A i \in m + 1 .. n : t[i] \in Messages
    BY <1>1
  <2> QED
    BY <2>1, SubSeqProperties
<1>3. s \o u = t
  <2>1. 1 \in 1 .. Len(t) + 1 /\ m \in 1 - 1 .. Len(t) /\ n \in m .. Len(t)
    BY <1>1
  <2>2. SubSeq(t, 1, m) \o SubSeq(t, m + 1, n) = SubSeq(t, 1, n)
    BY <2>1, ConcatAdjacentSubSeq
  <2>3. SubSeq(t, 1, n) = t
    BY SubSeqFull
  <2> QED
    BY <1>1, <2>2, <2>3
<1> QED
  BY <1>2, <1>3

\* A part of a prefix is a prefix, and so it is of what grows.
LEMMA PrefixPart ==
  ASSUME NEW s \in Seq(Messages), NEW w \in Seq(Messages), NEW t \in Seq(Messages), IsPrefix(s \o w, t)
  PROVE  IsPrefix(s, t)
<1>1. s \o w \in Seq(Messages)
  BY ConcatProperties
<1>2. PICK u \in Seq(Messages) : t = (s \o w) \o u
  BY <1>1, PrefixRest
<1>3. t = s \o (w \o u) /\ w \o u \in Seq(Messages)
  BY <1>2, MessagesAssociative, ConcatProperties
<1> QED
  BY <1>3, PrefixOfConcat

LEMMA PrefixGrows ==
  ASSUME NEW s \in Seq(Messages), NEW t \in Seq(Messages), IsPrefix(s, t), NEW n \in Messages
  PROVE  IsPrefix(s, Append(t, n)) /\ Append(t, n) \in Seq(Messages)
<1>1. PICK u \in Seq(Messages) : t = s \o u
  BY PrefixRest
<1> DEFINE x == <<n>>
<1>2. x \in Seq(Messages) /\ u \o x \in Seq(Messages) /\ Append(t, n) = t \o x /\ Append(t, n) \in Seq(Messages)
  BY ConcatProperties, AppendIsConcat, AppendProperties
<1> HIDE DEF x
<1>3. t \o x = s \o (u \o x)
  BY <1>1, <1>2, MessagesAssociative
<1> QED
  BY <1>2, <1>3, PrefixOfConcat

-----------------------------------------------------------------------------
(* Calls of rustls.                                                        *)

Views == [e : Ends, hs : BOOLEAN, out : Seq(Record), plain : Seq(Messages), in : Seq(Record),
          room : Nat, put : Seq(Record), end : BOOLEAN, torn : BOOLEAN]

\* A call has brought v to w, and m is written behind what there was to write.
Follows(v, w, m) ==
    /\ w \in Views /\ w.e = v.e /\ w.end = v.end /\ w.torn = v.torn
    /\ Len(w.put) + w.room = Len(v.put) + v.room /\ Len(w.in) <= Len(v.in)
    /\ w.plain \o MessagesOf(w.in) = v.plain \o MessagesOf(v.in)
    /\ ~v.end => MessagesOf(w.put \o w.out) = MessagesOf(v.put \o v.out) \o m

Outcomes == {"ok", "block", "error"}

\* The fields of a view.
LEMMA ViewFields ==
  ASSUME NEW v \in Views
  PROVE  /\ v.e \in Ends /\ v.hs \in BOOLEAN /\ v.out \in Seq(Record) /\ v.plain \in Seq(Messages)
         /\ v.in \in Seq(Record) /\ v.room \in Nat /\ v.put \in Seq(Record)
         /\ v.end \in BOOLEAN /\ v.torn \in BOOLEAN
         /\ Len(v.put) \in Nat /\ Len(v.in) \in Nat /\ Len(v.out) \in Nat
         /\ v.put \o v.out \in Seq(Record)
<1>1. /\ v.e \in Ends /\ v.hs \in BOOLEAN /\ v.out \in Seq(Record) /\ v.plain \in Seq(Messages)
      /\ v.in \in Seq(Record) /\ v.room \in Nat /\ v.put \in Seq(Record)
      /\ v.end \in BOOLEAN /\ v.torn \in BOOLEAN
  BY DEF Views
<1> QED
  BY <1>1, LenProperties, ConcatProperties

\* A view with other values in some of its fields.
LEMMA ViewWith ==
  ASSUME NEW v \in Views
  PROVE  /\ \A o \in Seq(Record) : [v EXCEPT !.out = o] \in Views
         /\ \A o \in Seq(Record), n \in Nat, p \in Seq(Record) :
               [v EXCEPT !.out = o, !.room = n, !.put = p] \in Views
         /\ \A i \in Seq(Record), p \in Seq(Messages), h \in BOOLEAN, o \in Seq(Record) :
               [v EXCEPT !.in = i, !.plain = p, !.hs = h, !.out = o] \in Views
         /\ \A i \in Seq(Record), h \in BOOLEAN, o \in Seq(Record) :
               [v EXCEPT !.in = i, !.hs = h, !.out = o] \in Views
BY DEF Views

\* Nothing has happened yet.
LEMMA FollowsItself ==
  ASSUME NEW v \in Views
  PROVE  Follows(v, v, <<>>)
<1>1. MessagesOf(v.put \o v.out) \in Seq(Messages)
  BY ViewFields, MessagesType
<1>2. MessagesOf(v.put \o v.out) \o <<>> = MessagesOf(v.put \o v.out)
  BY <1>1, ConcatEmptySeq
<1> QED
  BY <1>2, ViewFields DEF Follows

\* A call of two parts, the first of which writes no message of its own.
LEMMA FollowsOn ==
  ASSUME NEW v \in Views, NEW w, NEW x, NEW m \in Seq(Messages), Follows(v, w, <<>>), Follows(w, x, m)
  PROVE  Follows(v, x, m)
<1>1. w \in Views /\ x \in Views
  BY DEF Follows
<1>2. /\ Len(v.put) \in Nat /\ v.room \in Nat /\ Len(w.put) \in Nat /\ w.room \in Nat
      /\ Len(x.put) \in Nat /\ x.room \in Nat
      /\ Len(v.in) \in Nat /\ Len(w.in) \in Nat /\ Len(x.in) \in Nat
  BY <1>1, ViewFields
<1>3. MessagesOf(v.put \o v.out) \in Seq(Messages)
  BY ViewFields, MessagesType
<1>4. MessagesOf(v.put \o v.out) \o <<>> = MessagesOf(v.put \o v.out)
  BY <1>3, ConcatEmptySeq
<1>5. /\ w.e = v.e /\ w.end = v.end /\ w.torn = v.torn
      /\ Len(w.put) + w.room = Len(v.put) + v.room /\ Len(w.in) <= Len(v.in)
      /\ w.plain \o MessagesOf(w.in) = v.plain \o MessagesOf(v.in)
      /\ ~v.end => MessagesOf(w.put \o w.out) = MessagesOf(v.put \o v.out)
  BY <1>4 DEF Follows
<1>6. /\ x.e = w.e /\ x.end = w.end /\ x.torn = w.torn
      /\ Len(x.put) + x.room = Len(w.put) + w.room /\ Len(x.in) <= Len(w.in)
      /\ x.plain \o MessagesOf(x.in) = w.plain \o MessagesOf(w.in)
      /\ ~w.end => MessagesOf(x.put \o x.out) = MessagesOf(w.put \o w.out) \o m
  BY DEF Follows
<1>7. Len(x.in) <= Len(v.in)
  BY <1>2, <1>5, <1>6
<1>8. ~v.end => MessagesOf(x.put \o x.out) = MessagesOf(v.put \o v.out) \o m
  BY <1>5, <1>6
<1> QED
  BY <1>1, <1>5, <1>6, <1>7, <1>8 DEF Follows

\* write_tls writes what it can, in order.
LEMMA FlushKeeps ==
  ASSUME NEW v \in Views, NEW r \in FlushTls(v)
  PROVE  /\ Follows(v, r.v, <<>>) /\ r.res \in Outcomes /\ (r.res = "error" => v.end)
         /\ r.v.hs = v.hs /\ r.v.in = v.in /\ r.v.plain = v.plain
         /\ ~v.end => r.v.put \o r.v.out = v.put \o v.out
<1>1. /\ v.e \in Ends /\ v.hs \in BOOLEAN /\ v.out \in Seq(Record) /\ v.plain \in Seq(Messages)
      /\ v.in \in Seq(Record) /\ v.room \in Nat /\ v.put \in Seq(Record)
      /\ v.end \in BOOLEAN /\ v.torn \in BOOLEAN /\ Len(v.out) \in Nat /\ v.put \o v.out \in Seq(Record)
      /\ Len(v.put) \in Nat /\ Len(v.in) \in Nat
  BY ViewFields
<1> DEFINE n == IF v.room < Len(v.out) THEN v.room ELSE Len(v.out)
           w == [v EXCEPT !.out = SubSeq(@, n + 1, Len(@)), !.room = @ - n,
                          !.put = @ \o SubSeq(v.out, 1, n)]
<1>2. CASE r = R(v, "ok") \/ (v.end /\ r = R(v, "error"))
  <2>1. r.v = v /\ r.res \in {"ok", "error"} /\ (r.res = "error" => v.end)
    BY <1>2 DEF R
  <2> QED
    BY <2>1, FollowsItself DEF Outcomes
<1>3. CASE v.end /\ r = R([v EXCEPT !.out = <<>>], "ok")
  <2> DEFINE u == [v EXCEPT !.out = <<>>]
  <2>1. <<>> \in Seq(Record)
    BY EmptySeq
  <2>2. u \in Views
    BY <2>1, ViewWith
  <2>3. /\ u.e = v.e /\ u.end = v.end /\ u.torn = v.torn /\ u.put = v.put /\ u.room = v.room
        /\ u.in = v.in /\ u.plain = v.plain /\ u.hs = v.hs
    BY DEF Views
  <2>4. r.v = u /\ r.res = "ok"
    BY <1>3 DEF R
  <2> HIDE DEF u
  <2>5. Follows(v, u, <<>>)
    BY <1>1, <1>3, <2>2, <2>3 DEF Follows
  <2> QED
    BY <1>3, <2>3, <2>4, <2>5 DEF Outcomes
<1>4. CASE ~v.end /\ r = R(w, IF w.out = <<>> THEN "ok" ELSE "block")
  <2>1. n \in 0 .. Len(v.out) /\ n \in Nat /\ n <= v.room /\ v.room - n \in Nat
    BY <1>1
  <2> DEFINE a == SubSeq(v.out, 1, n)
             b == SubSeq(v.out, n + 1, Len(v.out))
  <2>2. a \in Seq(Record) /\ b \in Seq(Record) /\ Len(a) = n /\ a \o b = v.out
    <3>1. \A i \in 1 .. Len(v.out) : v.out[i] \in Record
      BY <1>1, ElementOfSeq
    <3>2. a \in Seq(Record) /\ Len(a) = n
      <4>1. 1 \in Int /\ n \in Int /\ \A i \in 1 .. n : v.out[i] \in Record
        BY <1>1, <2>1, <3>1
      <4>2. a \in Seq(Record) /\ Len(a) = IF 1 <= n THEN n - 1 + 1 ELSE 0
        BY <4>1, SubSeqProperties
      <4> QED
        BY <2>1, <4>2
    <3>3. b \in Seq(Record)
      <4>1. n + 1 \in Int /\ Len(v.out) \in Int /\ \A i \in n + 1 .. Len(v.out) : v.out[i] \in Record
        BY <1>1, <2>1, <3>1
      <4> QED
        BY <4>1, SubSeqProperties
    <3>4. a \o b = v.out
      <4>1. 1 \in 1 .. Len(v.out) + 1 /\ n \in 1 - 1 .. Len(v.out) /\ Len(v.out) \in n .. Len(v.out)
        BY <1>1, <2>1
      <4>2. a \o b = SubSeq(v.out, 1, Len(v.out))
        BY <1>1, <4>1, ConcatAdjacentSubSeq
      <4> QED
        BY <1>1, <4>2, SubSeqFull
    <3> QED
      BY <3>2, <3>3, <3>4
  <2>3. w = [v EXCEPT !.out = b, !.room = v.room - n, !.put = v.put \o a]
    BY DEF Views
  <2>4. v.put \o a \in Seq(Record) /\ Len(v.put \o a) = Len(v.put) + n
    BY <1>1, <2>2, ConcatProperties
  <2>5. w \in Views
    <3> HIDE DEF n, w, a, b
    <3> QED
      BY <2>1, <2>2, <2>3, <2>4, ViewWith
  <2>6. /\ w.e = v.e /\ w.end = v.end /\ w.torn = v.torn /\ w.put = v.put \o a /\ w.room = v.room - n
        /\ w.in = v.in /\ w.plain = v.plain /\ w.hs = v.hs /\ w.out = b
    BY DEF Views
  <2> HIDE DEF n, w, a, b
  <2>7. w.put \o w.out = v.put \o v.out
    <3>1. v.put \in Seq(Record) /\ a \in Seq(Record) /\ b \in Seq(Record)
      BY <1>1, <2>2
    <3>2. (v.put \o a) \o b = v.put \o (a \o b)
      BY <3>1, RecordsAssociative
    <3> QED
      BY <2>2, <2>6, <3>2
  <2>8. MessagesOf(v.put \o v.out) \o <<>> = MessagesOf(v.put \o v.out)
    BY <1>1, MessagesType, ConcatEmptySeq
  <2>9. Follows(v, w, <<>>)
    BY <1>1, <2>1, <2>4, <2>5, <2>6, <2>7, <2>8 DEF Follows
  <2>10. r.v = w /\ r.res \in {"ok", "block"}
    BY <1>4 DEF R
  <2> QED
    BY <2>6, <2>7, <2>9, <2>10 DEF Outcomes
<1> QED
  BY <1>1, <1>2, <1>3, <1>4 DEF FlushTls

\* read_tls moves messages on, and writes none.
LEMMA ReadKeeps ==
  ASSUME NEW v \in Views, NEW r \in ReadTls(v)
  PROVE  /\ Follows(v, r.v, <<>>) /\ r.res \in Outcomes /\ (r.res = "error" => v.end \/ v.torn)
         /\ v.in = <<>> => r.res # "ok" /\ r.v = v
<1>1. /\ v.e \in Ends /\ v.hs \in BOOLEAN /\ v.out \in Seq(Record) /\ v.plain \in Seq(Messages)
      /\ v.in \in Seq(Record) /\ v.room \in Nat /\ v.put \in Seq(Record)
      /\ v.end \in BOOLEAN /\ v.torn \in BOOLEAN /\ Len(v.out) \in Nat /\ v.put \o v.out \in Seq(Record)
      /\ Len(v.put) \in Nat /\ Len(v.in) \in Nat
  BY ViewFields
<1>2. CASE \/ v.in = <<>> /\ r = R(v, IF v.end THEN "error" ELSE "block")
           \/ v.torn /\ r = R(v, "error")
  <2>1. r.v = v /\ r.res \in {"block", "error"} /\ (r.res = "error" => v.end \/ v.torn)
    BY <1>2 DEF R
  <2> QED
    BY <2>1, FollowsItself DEF Outcomes
<1>3. ASSUME NEW k \in 1 .. Len(v.in),
             r = R([v EXCEPT !.in = SubSeq(@, k + 1, Len(@)),
                             !.plain = @ \o MessagesOf(SubSeq(v.in, 1, k)),
                             !.hs = @ /\ \A i \in 1 .. k : SubSeq(v.in, 1, k)[i] \notin {Flight, Finished},
                             !.out = IF \E i \in 1 .. k : SubSeq(v.in, 1, k)[i] = Flight
                                     THEN Append(@, Finished) ELSE @], "ok")
      PROVE  Follows(v, r.v, <<>>) /\ r.res = "ok" /\ v.in # <<>>
  <2> DEFINE a == SubSeq(v.in, 1, k)
             b == SubSeq(v.in, k + 1, Len(v.in))
             h == v.hs /\ \A i \in 1 .. k : a[i] \notin {Flight, Finished}
             o == IF \E i \in 1 .. k : a[i] = Flight THEN Append(v.out, Finished) ELSE v.out
             w == [v EXCEPT !.in = b, !.plain = v.plain \o MessagesOf(a), !.hs = h, !.out = o]
  <2>1. k \in Nat /\ k <= Len(v.in)
    BY <1>1
  <2>2. a \in Seq(Record) /\ b \in Seq(Record) /\ Len(b) <= Len(v.in) /\ a \o b = v.in
    <3>1. \A i \in 1 .. Len(v.in) : v.in[i] \in Record
      BY <1>1, ElementOfSeq
    <3>2. a \in Seq(Record)
      <4>1. 1 \in Int /\ k \in Int /\ \A i \in 1 .. k : v.in[i] \in Record
        BY <1>1, <2>1, <3>1
      <4> QED
        BY <4>1, SubSeqProperties
    <3>3. b \in Seq(Record) /\ Len(b) <= Len(v.in)
      <4>1. k + 1 \in Int /\ Len(v.in) \in Int /\ \A i \in k + 1 .. Len(v.in) : v.in[i] \in Record
        BY <1>1, <2>1, <3>1
      <4>2. b \in Seq(Record) /\ Len(b) = IF k + 1 <= Len(v.in) THEN Len(v.in) - (k + 1) + 1 ELSE 0
        BY <4>1, SubSeqProperties
      <4> QED
        BY <1>1, <2>1, <4>2
    <3>4. a \o b = v.in
      <4>1. 1 \in 1 .. Len(v.in) + 1 /\ k \in 1 - 1 .. Len(v.in) /\ Len(v.in) \in k .. Len(v.in)
        BY <1>1, <2>1
      <4>2. a \o b = SubSeq(v.in, 1, Len(v.in))
        BY <1>1, <4>1, ConcatAdjacentSubSeq
      <4> QED
        BY <1>1, <4>2, SubSeqFull
    <3> QED
      BY <3>2, <3>3, <3>4
  <2>3. r.v = w /\ r.res = "ok"
    BY <1>3 DEF R, Views
  <2>4. Finished \in Record /\ Finished \in Int /\ ~(Finished > 0)
    BY DEF Record, Finished
  <2>5. o \in Seq(Record) /\ v.plain \o MessagesOf(a) \in Seq(Messages) /\ h \in BOOLEAN
    BY <1>1, <2>2, <2>4, AppendProperties, MessagesType, ConcatProperties
  <2>6. o = v.out \/ o = Append(v.out, Finished)
    OBVIOUS
  <2> HIDE DEF a, b, h, o
  <2>7. w \in Views
    BY <2>2, <2>5, ViewWith
  <2>8. /\ w.e = v.e /\ w.end = v.end /\ w.torn = v.torn /\ w.put = v.put /\ w.room = v.room
        /\ w.in = b /\ w.plain = v.plain \o MessagesOf(a) /\ w.out = o
    BY DEF Views
  <2> HIDE DEF w
  <2>9. w.plain \o MessagesOf(w.in) = v.plain \o MessagesOf(v.in)
    <3>1. MessagesOf(a) \in Seq(Messages) /\ MessagesOf(b) \in Seq(Messages)
          /\ MessagesOf(v.in) = MessagesOf(a) \o MessagesOf(b)
      BY <2>2, MessagesType, MessagesConcat
    <3> DEFINE x == MessagesOf(a)
               y == MessagesOf(b)
               z == v.plain
    <3>2. x \in Seq(Messages) /\ y \in Seq(Messages) /\ z \in Seq(Messages)
      BY <1>1, <3>1
    <3> HIDE DEF x, y, z
    <3>3. (z \o x) \o y = z \o (x \o y)
      BY <3>2, MessagesAssociative
    <3> QED
      BY <2>8, <3>1, <3>3 DEF x, y, z
  <2>10. MessagesOf(v.put \o o) = MessagesOf(v.put \o v.out)
    <3> SUFFICES ASSUME o = Append(v.out, Finished)
                 PROVE  MessagesOf(v.put \o o) = MessagesOf(v.put \o v.out)
      BY <2>6
    <3>1. v.put \o o = Append(v.put \o v.out, Finished)
      BY <1>1, <2>4, RecordBehind
    <3>2. v.put \o v.out \in Seq(Int)
      BY <1>1, RecordsAreNumbers
    <3> QED
      BY <2>4, <3>1, <3>2, MessagesAppend
  <2>11. MessagesOf(v.put \o v.out) \o <<>> = MessagesOf(v.put \o v.out)
    BY <1>1, MessagesType, ConcatEmptySeq
  <2>12. Follows(v, w, <<>>)
    BY <1>1, <2>2, <2>7, <2>8, <2>9, <2>10, <2>11 DEF Follows
  <2>13. v.in # <<>>
    BY <2>1, <1>1, EmptySeq
  <2> QED
    BY <2>3, <2>12, <2>13
<1>4. \/ v.in = <<>> /\ r = R(v, IF v.end THEN "error" ELSE "block")
      \/ v.torn /\ r = R(v, "error")
      \/ \E k \in 1 .. Len(v.in) :
             r = R([v EXCEPT !.in = SubSeq(@, k + 1, Len(@)),
                             !.plain = @ \o MessagesOf(SubSeq(v.in, 1, k)),
                             !.hs = @ /\ \A i \in 1 .. k : SubSeq(v.in, 1, k)[i] \notin {Flight, Finished},
                             !.out = IF \E i \in 1 .. k : SubSeq(v.in, 1, k)[i] = Flight
                                     THEN Append(@, Finished) ELSE @], "ok")
  BY DEF ReadTls
<1>5. CASE \E k \in 1 .. Len(v.in) :
             r = R([v EXCEPT !.in = SubSeq(@, k + 1, Len(@)),
                             !.plain = @ \o MessagesOf(SubSeq(v.in, 1, k)),
                             !.hs = @ /\ \A i \in 1 .. k : SubSeq(v.in, 1, k)[i] \notin {Flight, Finished},
                             !.out = IF \E i \in 1 .. k : SubSeq(v.in, 1, k)[i] = Flight
                                     THEN Append(@, Finished) ELSE @], "ok")
  BY <1>3, <1>5 DEF Outcomes
<1>6. CASE v.in = <<>> /\ r = R(v, "ok")
  BY <1>4, <1>5, <1>6 DEF R
<1> QED
  BY <1>2, <1>4, <1>5 DEF R

\* What one part of a call leads to.
Proper(v, r) == Follows(v, r.v, <<>>) /\ r.res \in Outcomes /\ (r.res = "error" => v.end \/ v.torn)

\* One proper part behind another.
LEMMA ProperOn ==
  ASSUME NEW v \in Views, NEW q, NEW r, Proper(v, q), Proper(q.v, r)
  PROVE  Proper(v, r)
<1>1. <<>> \in Seq(Messages)
  BY EmptySeq
<1>2. Follows(v, q.v, <<>>) /\ Follows(q.v, r.v, <<>>)
  BY DEF Proper
<1>3. Follows(v, r.v, <<>>)
  BY <1>1, <1>2, FollowsOn
<1>4. q.v.end = v.end /\ q.v.torn = v.torn
  BY <1>2 DEF Follows
<1> QED
  BY <1>3, <1>4 DEF Proper

\* The handshake, and what is left to be written: nothing is read of an empty stream.
LEMMA PriorKeeps ==
  ASSUME NEW v \in Views, NEW r \in PriorIo(v)
  PROVE  /\ Proper(v, r) /\ r.v \in Views
         /\ v.hs /\ v.in = <<>> =>
                /\ r.res # "ok" /\ r.v.hs /\ r.v.in = <<>> /\ r.v.plain = v.plain
                /\ ~v.end => r.v.put \o r.v.out = v.put \o v.out
<1> DEFINE A == UNION {IF q.res = "ok" THEN ReadTls(q.v) ELSE {q} : q \in FlushTls(v)}
           B == IF v.hs THEN A ELSE {R(v, "ok")}
<1>1. r \in UNION {IF q.res = "ok" THEN FlushTls(q.v) ELSE {q} : q \in B}
  BY DEF PriorIo, Try
<1>2. PICK q \in B : r \in IF q.res = "ok" THEN FlushTls(q.v) ELSE {q}
  <2> HIDE DEF B
  <2> QED
    BY <1>1
<1>3. /\ Proper(v, q) /\ q.v \in Views
      /\ v.hs /\ v.in = <<>> =>
             /\ q.res # "ok" /\ q.v.hs /\ q.v.in = <<>> /\ q.v.plain = v.plain
             /\ ~v.end => q.v.put \o q.v.out = v.put \o v.out
  <2>1. CASE ~v.hs
    <3>1. q.v = v /\ q.res = "ok"
      BY <1>2, <2>1 DEF R
    <3> QED
      BY <2>1, <3>1, FollowsItself DEF Proper, Outcomes
  <2>2. CASE v.hs
    <3>1. q \in A
      BY <1>2, <2>2
    <3>2. PICK p \in FlushTls(v) : q \in IF p.res = "ok" THEN ReadTls(p.v) ELSE {p}
      BY <3>1
    <3>3. /\ Follows(v, p.v, <<>>) /\ p.res \in Outcomes /\ (p.res = "error" => v.end)
          /\ p.v.hs = v.hs /\ p.v.in = v.in /\ p.v.plain = v.plain
          /\ ~v.end => p.v.put \o p.v.out = v.put \o v.out
      BY FlushKeeps
    <3>4. Proper(v, p) /\ p.v \in Views
      BY <3>3 DEF Proper, Follows
    <3>5. CASE p.res = "ok"
      <4>1. q \in ReadTls(p.v)
        BY <3>2, <3>5
      <4>2. /\ Follows(p.v, q.v, <<>>) /\ q.res \in Outcomes /\ (q.res = "error" => p.v.end \/ p.v.torn)
            /\ p.v.in = <<>> => q.res # "ok" /\ q.v = p.v
        BY <3>4, <4>1, ReadKeeps
      <4>3. Proper(p.v, q) /\ q.v \in Views
        BY <4>2 DEF Proper, Follows
      <4>4. Proper(v, q)
        BY <3>4, <4>3, ProperOn
      <4> QED
        BY <3>3, <4>2, <4>3, <4>4
    <3>6. CASE p.res # "ok"
      BY <3>2, <3>3, <3>4, <3>6, <2>2
    <3> QED
      BY <3>5, <3>6
  <2> QED
    BY <2>1, <2>2
<1>4. CASE q.res = "ok"
  <2>1. r \in FlushTls(q.v)
    BY <1>2, <1>4
  <2>2. Follows(q.v, r.v, <<>>) /\ r.res \in Outcomes /\ (r.res = "error" => q.v.end)
    BY <1>3, <2>1, FlushKeeps
  <2>3. Proper(q.v, r) /\ r.v \in Views
    BY <2>2 DEF Proper, Follows
  <2>4. Proper(v, r)
    BY <1>3, <2>3, ProperOn
  <2> QED
    BY <1>3, <1>4, <2>3, <2>4
<1>5. CASE q.res # "ok"
  BY <1>2, <1>3, <1>5
<1> QED
  BY <1>4, <1>5

\* StreamOwned::read.
LEMMA TlsReadKeeps ==
  ASSUME NEW v \in Views, NEW r \in TlsRead(v)
  PROVE  /\ Proper(v, r) /\ r.v \in Views
         /\ v.hs /\ v.in = <<>> =>
                /\ r.res # "ok" /\ r.v.hs /\ r.v.in = <<>> /\ r.v.plain = v.plain
                /\ ~v.end => r.v.put \o r.v.out = v.put \o v.out
<1>1. PICK q \in PriorIo(v) :
          r \in IF q.res = "ok" THEN (IF q.v.plain # <<>> THEN {R(q.v, "ok")} ELSE ReadTls(q.v)) ELSE {q}
  BY DEF TlsRead, Try
<1>2. /\ Proper(v, q) /\ q.v \in Views
      /\ v.hs /\ v.in = <<>> =>
             /\ q.res # "ok" /\ q.v.hs /\ q.v.in = <<>> /\ q.v.plain = v.plain
             /\ ~v.end => q.v.put \o q.v.out = v.put \o v.out
  BY PriorKeeps
<1>3. CASE q.res # "ok"
  BY <1>1, <1>2, <1>3
<1>4. CASE q.res = "ok" /\ q.v.plain # <<>>
  <2>1. r.v = q.v /\ r.res = "ok"
    BY <1>1, <1>4 DEF R
  <2> QED
    BY <1>2, <1>4, <2>1 DEF Proper
<1>5. CASE q.res = "ok" /\ q.v.plain = <<>>
  <2>1. r \in ReadTls(q.v)
    BY <1>1, <1>5
  <2>2. Follows(q.v, r.v, <<>>) /\ r.res \in Outcomes /\ (r.res = "error" => q.v.end \/ q.v.torn)
    BY <1>2, <2>1, ReadKeeps
  <2>3. Proper(q.v, r) /\ r.v \in Views
    BY <2>2 DEF Proper, Follows
  <2>4. Proper(v, r)
    BY <1>2, <2>3, ProperOn
  <2> QED
    BY <1>2, <1>5, <2>3, <2>4
<1> QED
  BY <1>3, <1>4, <1>5

\* StreamOwned::write of a message that is taken.
LEMMA WriteTakes ==
  ASSUME NEW v \in Views, NEW n \in Messages, NEW r \in FlushTls([v EXCEPT !.out = Append(@, n)])
  PROVE  Follows(v, r.v, <<n>>)
<1> DEFINE o == Append(v.out, n)
           w == [v EXCEPT !.out = o]
           m == <<n>>
<1>1. /\ v.e \in Ends /\ v.out \in Seq(Record) /\ v.put \in Seq(Record) /\ v.put \o v.out \in Seq(Record)
      /\ v.end \in BOOLEAN /\ n \in Record /\ n \in Int /\ n > 0 /\ m \in Seq(Messages)
      /\ Len(v.in) \in Nat
  <2>1. n \in Record /\ n \in Int /\ n > 0
    BY BoundsAssumption DEF Messages, Record
  <2> QED
    BY <2>1, ViewFields
<1>2. o \in Seq(Record)
  BY <1>1, AppendProperties
<1>3. r \in FlushTls(w)
  BY DEF Views
<1>4. w.e = v.e /\ w.end = v.end /\ w.torn = v.torn /\ w.put = v.put /\ w.room = v.room /\ w.in = v.in
      /\ w.plain = v.plain /\ w.out = o
  BY DEF Views
<1> HIDE DEF o, w, m
<1>5. w \in Views
  BY <1>2, ViewWith DEF w
<1>6. Follows(w, r.v, <<>>)
  BY <1>3, <1>5, FlushKeeps
<1>7. MessagesOf(v.put \o o) = MessagesOf(v.put \o v.out) \o m
  <2>1. v.put \o o = Append(v.put \o v.out, n)
    BY <1>1, RecordBehind DEF o
  <2>2. MessagesOf(Append(v.put \o v.out, n)) = Append(MessagesOf(v.put \o v.out), n)
    BY <1>1, RecordsAreNumbers, MessagesAppend
  <2>3. MessagesOf(v.put \o v.out) \in Seq(Messages)
    BY <1>1, MessagesType
  <2>4. Append(MessagesOf(v.put \o v.out), n) = MessagesOf(v.put \o v.out) \o m
    BY <2>3, AppendIsConcat DEF m
  <2> QED
    BY <2>1, <2>2, <2>4
<1>8. MessagesOf(w.put \o w.out) \o <<>> = MessagesOf(w.put \o w.out)
  <2>1. w.put \o w.out \in Seq(Record)
    BY <1>5, ViewFields
  <2> QED
    BY <2>1, MessagesType, ConcatEmptySeq
<1>9. Follows(v, r.v, m)
  BY <1>4, <1>6, <1>7, <1>8 DEF Follows
<1> QED
  BY <1>9 DEF m

\* Its error comes before the message is taken.
LEMMA TlsWriteKeeps ==
  ASSUME NEW v \in Views, NEW n \in Messages, NEW r \in TlsWrite(v, n)
  PROVE  /\ r.v \in Views /\ r.res \in Outcomes /\ (r.res = "error" => v.end \/ v.torn)
         /\ Follows(v, r.v, IF r.res = "ok" THEN <<n>> ELSE <<>>)
         /\ v.hs /\ v.in = <<>> =>
                /\ r.res # "ok" /\ r.v.hs /\ r.v.in = <<>> /\ r.v.plain = v.plain
                /\ ~v.end => r.v.put \o r.v.out = v.put \o v.out
<1>1. PICK q \in PriorIo(v) :
          r \in IF q.res = "ok" THEN {R(x.v, "ok") : x \in FlushTls([q.v EXCEPT !.out = Append(@, n)])} ELSE {q}
  BY DEF TlsWrite, Try
<1>2. /\ Proper(v, q) /\ q.v \in Views
      /\ v.hs /\ v.in = <<>> =>
             /\ q.res # "ok" /\ q.v.hs /\ q.v.in = <<>> /\ q.v.plain = v.plain
             /\ ~v.end => q.v.put \o q.v.out = v.put \o v.out
  BY PriorKeeps
<1>3. CASE q.res # "ok"
  BY <1>1, <1>2, <1>3 DEF Proper
<1>4. CASE q.res = "ok"
  <2>1. PICK x \in FlushTls([q.v EXCEPT !.out = Append(@, n)]) : r = R(x.v, "ok")
    BY <1>1, <1>4
  <2>2. r.v = x.v /\ r.res = "ok"
    BY <2>1 DEF R
  <2>3. Follows(q.v, x.v, <<n>>)
    BY <1>2, WriteTakes
  <2>4. Follows(v, q.v, <<>>) /\ <<n>> \in Seq(Messages)
    BY <1>2 DEF Proper
  <2>5. Follows(v, x.v, <<n>>)
    <3> DEFINE m == <<n>>
    <3>1. m \in Seq(Messages) /\ Follows(q.v, x.v, m)
      BY <2>3, <2>4
    <3> HIDE DEF m
    <3>2. Follows(v, x.v, m)
      BY <2>4, <3>1, FollowsOn
    <3> QED
      BY <3>2 DEF m
  <2>6. x.v \in Views
    BY <2>5 DEF Follows
  <2> QED
    BY <1>2, <1>4, <2>2, <2>5, <2>6 DEF Outcomes
<1> QED
  BY <1>3, <1>4

-----------------------------------------------------------------------------
(* The ends.                                                               *)

LEMMA PeerEnds ==
  ASSUME NEW e \in Ends
  PROVE  /\ Peer(e) \in Ends /\ Peer(e) # e /\ Peer(Peer(e)) = e
         /\ \A x \in Ends : x = e \/ x = Peer(e)
BY DEF Ends, Peer

\* The sequences of an end.
LEMMA EndTypes ==
  ASSUME TypeOK, NEW e \in Ends
  PROVE  /\ out[e] \in Seq(Record) /\ plain[e] \in Seq(Messages) /\ net[e] \in Seq(Record)
         /\ sent[e] \in Seq(Messages) /\ events[e] \in Seq(Event)
         /\ hs[e] \in BOOLEAN /\ shut[e] \in BOOLEAN
         /\ Len(net[e]) \in Nat /\ Len(net[e]) <= Window
         /\ Line(e) \in Seq(Record) /\ Way(e) \in Seq(Messages)
         /\ Received(e) \in Seq(Messages) /\ There(e) \in Seq(Messages)
         /\ Way(e) = MessagesOf(net[e]) \o MessagesOf(out[e])
         /\ MessagesOf(net[e]) \in Seq(Messages) /\ MessagesOf(out[e]) \in Seq(Messages)
<1>1. /\ out[e] \in Seq(Record) /\ plain[e] \in Seq(Messages) /\ net[e] \in Seq(Record)
      /\ sent[e] \in Seq(Messages) /\ events[e] \in Seq(Event)
      /\ hs[e] \in BOOLEAN /\ shut[e] \in BOOLEAN /\ Len(net[e]) <= Window
  BY DEF TypeOK
<1>2. plain[Peer(e)] \in Seq(Messages) /\ events[Peer(e)] \in Seq(Event)
  BY PeerEnds DEF TypeOK
<1>3. Len(net[e]) \in Nat
  BY <1>1, LenProperties
<1>4. Line(e) \in Seq(Record) /\ Way(e) \in Seq(Messages)
  BY <1>1, ConcatProperties, MessagesType DEF Line, Way
<1>5. Received(e) \in Seq(Messages) /\ Received(Peer(e)) \in Seq(Messages)
  BY <1>1, <1>2, DataType DEF Received
<1>6. There(e) \in Seq(Messages)
  BY <1>2, <1>5, ConcatProperties DEF There
<1>7. Way(e) = MessagesOf(net[e]) \o MessagesOf(out[e])
  BY <1>1, MessagesConcat DEF Way, Line
<1>8. MessagesOf(net[e]) \in Seq(Messages) /\ MessagesOf(out[e]) \in Seq(Messages)
  BY <1>1, MessagesType
<1> QED
  BY <1>1, <1>3, <1>4, <1>5, <1>6, <1>7, <1>8

\* The view of an end that is not gone.
LEMMA ViewOfEnd ==
  ASSUME TypeOK, NEW e \in Ends
  PROVE  /\ View(e) \in Views /\ View(e).e = e /\ View(e).hs = hs[e] /\ View(e).out = out[e]
         /\ View(e).plain = plain[e] /\ View(e).in = net[Peer(e)]
         /\ View(e).room = Window - Len(net[e]) /\ View(e).put = <<>> /\ View(e).end = shut[Peer(e)]
         /\ (View(e).torn => View(e).end)
<1>1. /\ Peer(e) \in Ends /\ out[e] \in Seq(Record) /\ plain[e] \in Seq(Messages)
      /\ net[Peer(e)] \in Seq(Record) /\ hs[e] \in BOOLEAN /\ shut[Peer(e)] \in BOOLEAN
      /\ Len(net[e]) \in Nat /\ Len(net[e]) <= Window
  BY PeerEnds, EndTypes
<1>2. Window - Len(net[e]) \in Nat
  BY <1>1, BoundsAssumption
<1>3. <<>> \in Seq(Record)
  BY EmptySeq
<1>4. (shut[Peer(e)] /\ net[e] # <<>>) \in BOOLEAN
  OBVIOUS
<1> QED
  BY <1>1, <1>2, <1>3, <1>4 DEF View, Views

\* What has been handed over does not change with an event without data.
LEMMA EmitNothing ==
  ASSUME TypeOK, NEW e \in Ends, NEW ev \in Event, ev.data = <<>>, Emit(e, ev)
  PROVE  /\ events' \in [Ends -> Seq(Event)]
         /\ \A x \in Ends : DataOf(events'[x]) = DataOf(events[x])
<1>1. events \in [Ends -> Seq(Event)] /\ events' = [events EXCEPT ![e] = Append(@, ev)]
  BY DEF TypeOK, Emit
<1>2. Append(events[e], ev) \in Seq(Event)
  BY <1>1, AppendProperties
<1>3. DataOf(Append(events[e], ev)) = DataOf(events[e])
  <2>1. DataOf(events[e]) \in Seq(Messages) /\ DataOf(Append(events[e], ev)) = DataOf(events[e]) \o ev.data
    BY <1>1, DataType, DataAppend
  <2> QED
    BY <2>1, ConcatEmptySeq
<1> QED
  BY <1>1, <1>2, <1>3

LEMMA PlainEvents ==
  ASSUME NEW k \in {"Open", "Failed", "Disconnected"}
  PROVE  Ev(k) \in Event /\ Ev(k).data = <<>>
<1>1. <<>> \in Seq(Messages)
  BY EmptySeq
<1> QED
  BY <1>1 DEF Ev, Event

\* What an event hands over is no longer in plain.
LEMMA EmitPlain ==
  ASSUME TypeOK, NEW e \in Ends, NEW p \in Seq(Messages), Emit(e, [kind |-> "Message", data |-> p])
  PROVE  /\ events' \in [Ends -> Seq(Event)]
         /\ DataOf(events'[e]) = DataOf(events[e]) \o p
         /\ \A x \in Ends : x # e => events'[x] = events[x]
<1> DEFINE ev == [kind |-> "Message", data |-> p]
<1>1. ev \in Event /\ ev.data = p
  BY DEF Event
<1>2. events \in [Ends -> Seq(Event)] /\ events' = [events EXCEPT ![e] = Append(@, ev)]
  BY DEF TypeOK, Emit
<1> HIDE DEF ev
<1>3. Append(events[e], ev) \in Seq(Event)
  BY <1>1, <1>2, AppendProperties
<1>4. DataOf(Append(events[e], ev)) = DataOf(events[e]) \o p
  BY <1>1, <1>2, DataAppend
<1> QED
  BY <1>2, <1>3, <1>4

-----------------------------------------------------------------------------
(* Steps.                                                                  *)

\* Whole, of sequences: what is there, what is on its way, and what was sent.
Balance(there, way, all, gone, left) ==
    /\ IsPrefix(there, all)
    /\ ~gone => IF left THEN IsPrefix(there \o way, all) ELSE there \o way = all

\* e writes m, behind what it had to write; an end that is not gone.
LEMMA BalanceWritten ==
  ASSUME NEW t \in Seq(Messages), NEW a \in Seq(Messages), NEW b \in Seq(Messages),
         NEW x \in Seq(Messages), NEW y \in Seq(Messages), NEW m \in Seq(Messages),
         NEW s \in Seq(Messages), NEW gone, ~gone => x \o y = b \o m,
         Balance(t, a \o b, s, gone, FALSE)
  PROVE  Balance(t, (a \o x) \o y, s \o m, gone, FALSE)
<1>1. IsPrefix(t, s \o m)
  <2>1. PICK u \in Seq(Messages) : s = t \o u
    BY PrefixRest DEF Balance
  <2>2. Joined(t, u, m) /\ u \o m \in Seq(Messages)
    BY MessagesJoined
  <2>3. s \o m = t \o (u \o m)
    BY <2>1, <2>2 DEF Joined
  <2> QED
    BY <2>2, <2>3, PrefixOfConcat
<1>2. ASSUME ~gone PROVE t \o ((a \o x) \o y) = s \o m
  <2>1. t \o (a \o b) = s /\ x \o y = b \o m
    BY <1>2 DEF Balance
  <2>2. Joined(a, x, y) /\ Joined(a, b, m) /\ a \o b \in Seq(Messages)
    BY MessagesJoined
  <2>3. Joined(t, a \o b, m)
    BY <2>2, MessagesJoined
  <2> QED
    BY <2>1, <2>2, <2>3, Zenon DEF Joined
<1> QED
  BY <1>1, <1>2 DEF Balance

\* Its peer reads: messages move from the way to what is there.
LEMMA BalanceRead ==
  ASSUME NEW g \in Seq(Messages), NEW p \in Seq(Messages), NEW a \in Seq(Messages),
         NEW b \in Seq(Messages), NEW q \in Seq(Messages), NEW c \in Seq(Messages),
         NEW s \in Seq(Messages), NEW left, q \o c = p \o a,
         Balance(g \o p, a \o b, s, FALSE, left)
  PROVE  Balance(g \o q, c \o b, s, FALSE, left)
<1>1. (g \o q) \o (c \o b) = (g \o p) \o (a \o b)
  <2>1. (g \o q) \o (c \o b) = g \o ((q \o c) \o b)
    <3>1. c \o b \in Seq(Messages) /\ Joined(q, c, b)
      BY MessagesJoined
    <3>2. Joined(g, q, c \o b)
      BY <3>1, MessagesJoined
    <3> QED
      BY <3>1, <3>2, Zenon DEF Joined
  <2>2. (g \o p) \o (a \o b) = g \o ((p \o a) \o b)
    <3>1. a \o b \in Seq(Messages) /\ Joined(p, a, b)
      BY MessagesJoined
    <3>2. Joined(g, p, a \o b)
      BY <3>1, MessagesJoined
    <3> QED
      BY <3>1, <3>2, Zenon DEF Joined
  <2> QED
    BY <2>1, <2>2
<1>2. g \o q \in Seq(Messages) /\ c \o b \in Seq(Messages)
  BY ConcatProperties
<1>3. IsPrefix((g \o q) \o (c \o b), s)
  <2>1. CASE left
    BY <1>1, <2>1 DEF Balance
  <2>2. CASE ~left
    <3>1. (g \o q) \o (c \o b) = s
      BY <1>1, <2>2 DEF Balance
    <3>2. s \o <<>> = s /\ <<>> \in Seq(Messages)
      BY ConcatEmptySeq, EmptySeq
    <3>3. IsPrefix(s, s \o <<>>)
      BY <3>2, PrefixOfConcat
    <3> QED
      BY <3>1, <3>2, <3>3
  <2> QED
    BY <2>1, <2>2
<1>4. IsPrefix(g \o q, s)
  BY <1>2, <1>3, PrefixPart
<1> QED
  BY <1>1, <1>3, <1>4 DEF Balance

\* It leaves, and what it had not written is lost.
LEMMA BalanceLeft ==
  ASSUME NEW t \in Seq(Messages), NEW a \in Seq(Messages), NEW b \in Seq(Messages),
         NEW s \in Seq(Messages), NEW gone, Balance(t, a \o b, s, gone, FALSE)
  PROVE  Balance(t, a, s, gone, TRUE)
<1>1. ASSUME ~gone PROVE IsPrefix(t \o a, s)
  <2>1. s = (t \o a) \o b
    BY <1>1, MessagesAssociative DEF Balance
  <2>2. t \o a \in Seq(Messages)
    BY ConcatProperties
  <2> QED
    BY <2>1, <2>2, PrefixOfConcat
<1> QED
  BY <1>1 DEF Balance

\* Its peer leaves, and what it had not handed over is lost.
LEMMA BalanceDropped ==
  ASSUME NEW g \in Seq(Messages), NEW p \in Seq(Messages), NEW s \in Seq(Messages),
         NEW w, NEW x, NEW gone, NEW left, NEW also, Balance(g \o p, w, s, gone, left)
  PROVE  Balance(g \o <<>>, x, s, TRUE, also)
<1>1. IsPrefix(g, s) /\ g \o <<>> = g
  BY PrefixPart, ConcatEmptySeq DEF Balance
<1> QED
  BY <1>1 DEF Balance

\* What is owed to e's peer, as sequences.
LEMMA WholeBalance ==
  ASSUME NEW e \in Ends
  PROVE  Whole(e) <=> Balance(There(e), Way(e), sent[e], shut[Peer(e)], shut[e])
BY DEF Whole, Balance

\* Edges are edges.
LEMMA EdgesType ==
  ASSUME NEW e \in Ends, NEW v, NEW s \in SUBSET {"read", "write"}
  PROVE  s \cup EdgesFor(e, v) \in SUBSET {"read", "write"}
BY DEF EdgesFor

\* The types after a call on a connection.
LEMMA LeavesTyped ==
  ASSUME TypeOK, NEW e \in Ends, NEW v, Leaves(e, v, "tls"),
         v.hs \in BOOLEAN, v.out \in Seq(Record), v.plain \in Seq(Messages), v.in \in Seq(Record),
         v.put \in Seq(Record), Len(net[e]) + Len(v.put) <= Window, Len(v.in) <= Window,
         act' \in [Threads -> Activity], events' \in [Ends -> Seq(Event)],
         sent' \in [Ends -> Seq(Messages)], UNCHANGED <<worker, tcp, ready, userVars>>
  PROVE  /\ TypeOK'
         /\ stream'[e] = "tls" /\ hs'[e] = v.hs /\ out'[e] = v.out /\ plain'[e] = v.plain
         /\ net'[e] = net[e] \o v.put /\ net'[Peer(e)] = v.in /\ shut' = shut
         /\ \A x \in Ends : x # e => /\ stream'[x] = stream[x] /\ hs'[x] = hs[x]
                                     /\ out'[x] = out[x] /\ plain'[x] = plain[x]
<1>1. /\ Peer(e) \in Ends /\ Peer(e) # e /\ \A x \in Ends : x = e \/ x = Peer(e)
  BY PeerEnds
<1>2. /\ hs \in [Ends -> BOOLEAN] /\ out \in [Ends -> Seq(Record)] /\ plain \in [Ends -> Seq(Messages)]
      /\ net \in [Ends -> Seq(Record)] /\ polls \in [Ends -> SUBSET {"read", "write"}]
      /\ stream \in [Ends -> {"none", "sent", "acceptor", "tls", "gone"}]
  BY DEF TypeOK
<1>3. /\ hs' = [hs EXCEPT ![e] = v.hs] /\ out' = [out EXCEPT ![e] = v.out]
      /\ plain' = [plain EXCEPT ![e] = v.plain]
      /\ net' = [net EXCEPT ![e] = @ \o v.put, ![Peer(e)] = v.in]
      /\ polls' = [polls EXCEPT ![Peer(e)] = @ \cup EdgesFor(Peer(e), v)]
      /\ stream' = [stream EXCEPT ![e] = "tls"] /\ shut' = shut
  BY DEF Leaves
<1>4. net[e] \o v.put \in Seq(Record) /\ Len(net[e] \o v.put) = Len(net[e]) + Len(v.put)
  BY <1>2, ConcatProperties
<1>5. net' \in [Ends -> Seq(Record)] /\ net'[e] = net[e] \o v.put /\ net'[Peer(e)] = v.in
  BY <1>1, <1>2, <1>3, <1>4
<1>6. \A x \in Ends : Len(net'[x]) <= Window
  BY <1>1, <1>4, <1>5
<1>7. polls' \in [Ends -> SUBSET {"read", "write"}]
  <2>1. polls[Peer(e)] \cup EdgesFor(Peer(e), v) \in SUBSET {"read", "write"}
    <3> DEFINE q == polls[Peer(e)]
    <3>1. Peer(e) \in Ends /\ q \in SUBSET {"read", "write"}
      BY <1>1, <1>2
    <3> HIDE DEF q
    <3>2. q \cup EdgesFor(Peer(e), v) \in SUBSET {"read", "write"}
      BY <3>1, EdgesType
    <3> QED
      BY <3>2 DEF q
  <2> QED
    BY <1>1, <1>2, <1>3, <2>1
<1>8. /\ hs' \in [Ends -> BOOLEAN] /\ out' \in [Ends -> Seq(Record)] /\ plain' \in [Ends -> Seq(Messages)]
      /\ stream' \in [Ends -> {"none", "sent", "acceptor", "tls", "gone"}]
  BY <1>2, <1>3
<1>9. /\ stream'[e] = "tls" /\ hs'[e] = v.hs /\ out'[e] = v.out /\ plain'[e] = v.plain
      /\ \A x \in Ends : x # e => /\ stream'[x] = stream[x] /\ hs'[x] = hs[x]
                                  /\ out'[x] = out[x] /\ plain'[x] = plain[x]
  BY <1>2, <1>3
<1>10. TypeOK'
  <2>1. /\ worker' \in [Ends -> Workers] /\ tcp' \in {"connecting", "up", "refused"}
        /\ ready' \in [Ends -> BOOLEAN] /\ shut' \in [Ends -> BOOLEAN]
        /\ cmds' \in [Ends -> Seq(0 .. MaxSends)] /\ posted' \in [Ends -> 0 .. MaxSends]
    BY <1>3 DEF TypeOK, userVars
  <2> QED
    BY <1>5, <1>6, <1>7, <1>8, <2>1 DEF TypeOK
<1> QED
  BY <1>3, <1>5, <1>9, <1>10

\* A call on a connection: the message that is sent is written behind the others,
\* what is read leaves the socket for plain or the user, and nothing else moves.
LEMMA CallKeeps ==
  ASSUME SInv, NEW e \in Ends, stream[e] = "tls", NEW u, NEW m \in Seq(Messages),
         Follows(View(e), u, m),
         hs[e] /\ net[Peer(e)] = <<>> =>
             m = <<>> /\ u.hs /\ u.in = <<>> /\ (~u.end => u.put \o u.out = View(e).put \o View(e).out),
         NEW v, v.hs = u.hs, v.out = u.out, v.in = u.in, v.put = u.put, v.plain \in Seq(Messages),
         Leaves(e, v, "tls"),
         events' \in [Ends -> Seq(Event)], events'[Peer(e)] = events[Peer(e)],
         DataOf(events'[e]) \o v.plain = DataOf(events[e]) \o u.plain,
         sent' \in [Ends -> Seq(Messages)], sent'[e] = sent[e] \o m, sent'[Peer(e)] = sent[Peer(e)],
         act' \in [Threads -> Activity], Sending', UNCHANGED <<worker, tcp, ready, userVars>>
  PROVE  SInv'
<1> DEFINE p == Peer(e)
           w == View(e)
<1>1. /\ p \in Ends /\ p # e /\ Peer(p) = e /\ (\A x \in Ends : x = e \/ x = p)
      /\ TypeOK /\ HelloFirst /\ Kept(e) /\ Kept(p) /\ Whole(e) /\ Whole(p)
  BY PeerEnds DEF SInv
<1>2. /\ w \in Views /\ w.hs = hs[e] /\ w.out = out[e] /\ w.plain = plain[e] /\ w.in = net[p]
      /\ w.room = Window - Len(net[e]) /\ w.put = <<>> /\ w.end = shut[p]
  BY <1>1, ViewOfEnd
<1> HIDE DEF w
<1>3. /\ u \in Views /\ u.end = shut[p] /\ Len(u.put) + u.room = Len(w.put) + w.room
      /\ Len(u.in) <= Len(net[p])
      /\ u.plain \o MessagesOf(u.in) = plain[e] \o MessagesOf(net[p])
      /\ ~shut[p] => MessagesOf(u.put \o u.out) = MessagesOf(w.put \o w.out) \o m
  BY <1>2 DEF Follows, w
<1>4. u.plain \o MessagesOf(u.in) = plain[e] \o MessagesOf(net[p])
  BY <1>2 DEF Follows, w
<1>5. /\ u.hs \in BOOLEAN /\ u.out \in Seq(Record) /\ u.plain \in Seq(Messages) /\ u.in \in Seq(Record)
      /\ u.room \in Nat /\ u.put \in Seq(Record) /\ Len(u.put) \in Nat /\ Len(u.in) \in Nat
  BY <1>3, ViewFields
<1>6. /\ out[e] \in Seq(Record) /\ plain[e] \in Seq(Messages) /\ net[e] \in Seq(Record)
      /\ net[p] \in Seq(Record) /\ out[p] \in Seq(Record) /\ sent[e] \in Seq(Messages) /\ sent[p] \in Seq(Messages)
      /\ Len(net[e]) \in Nat /\ Len(net[e]) <= Window /\ Len(net[p]) \in Nat /\ Len(net[p]) <= Window
  BY <1>1, EndTypes
<1>7. w.put \o w.out = out[e] /\ Len(w.put) = 0
  BY <1>2, <1>6, ConcatEmptySeq, EmptySeq
<1>8. /\ TypeOK'
      /\ stream'[e] = "tls" /\ hs'[e] = u.hs /\ out'[e] = u.out /\ plain'[e] = v.plain
      /\ net'[e] = net[e] \o u.put /\ net'[p] = u.in /\ shut' = shut
      /\ stream'[p] = stream[p] /\ hs'[p] = hs[p] /\ out'[p] = out[p] /\ plain'[p] = plain[p]
  <2>1. Len(net[e]) + Len(v.put) <= Window /\ Len(v.in) <= Window
    <3>1. Window \in Nat /\ v.put = u.put /\ v.in = u.in
      BY BoundsAssumption
    <3>2. Len(u.put) + u.room = Window - Len(net[e])
      BY <1>2, <1>3, <1>6, <1>7, <3>1
    <3>3. Len(net[e]) + Len(u.put) <= Window
      <4> DEFINE a == Len(net[e])
                 b == Len(u.put)
                 c == u.room
      <4>1. a \in Nat /\ b \in Nat /\ c \in Nat /\ b + c = Window - a
        BY <1>5, <1>6, <3>2
      <4> HIDE DEF a, b, c
      <4>2. a + b <= Window
        BY <3>1, <4>1
      <4> QED
        BY <4>2 DEF a, b
    <3>4. Len(u.in) <= Window
      BY <1>3, <1>5, <1>6, <3>1
    <3> QED
      BY <3>1, <3>3, <3>4
  <2>2. /\ v.hs \in BOOLEAN /\ v.out \in Seq(Record) /\ v.in \in Seq(Record) /\ v.put \in Seq(Record)
        /\ v.plain \in Seq(Messages)
    BY <1>5
  <2>3. /\ act' \in [Threads -> Activity] /\ events' \in [Ends -> Seq(Event)]
        /\ sent' \in [Ends -> Seq(Messages)] /\ UNCHANGED <<worker, tcp, ready, userVars>>
    OBVIOUS
  <2>4. TypeOK /\ Leaves(e, v, "tls")
    BY <1>1
  <2>5. /\ TypeOK'
        /\ stream'[e] = "tls" /\ hs'[e] = v.hs /\ out'[e] = v.out /\ plain'[e] = v.plain
        /\ net'[e] = net[e] \o v.put /\ net'[Peer(e)] = v.in /\ shut' = shut
        /\ \A x \in Ends : x # e => /\ stream'[x] = stream[x] /\ hs'[x] = hs[x]
                                    /\ out'[x] = out[x] /\ plain'[x] = plain[x]
    BY <2>1, <2>2, <2>3, <2>4, LeavesTyped
  <2> QED
    BY <1>1, <2>5
<1>9. Kept(e)' /\ Kept(p)'
  <2>1. Kept(e)'
    BY <1>1, <1>8 DEF Kept
  <2>2. net[p] = <<>> => net'[p] = <<>>
    BY <1>3, <1>5, <1>8, EmptySeq
  <2>3. Kept(p)'
    BY <1>1, <1>8, <2>2 DEF Kept
  <2> QED
    BY <2>1, <2>3
<1>10. HelloFirst'
  <2>1. stream' = [x \in Ends |-> stream[x]] /\ stream'["client"] = stream["client"] /\ stream'["server"] = stream["server"]
    <3>1. \A x \in Ends : stream'[x] = stream[x]
      BY <1>1, <1>8
    <3>2. stream' \in [Ends -> {"none", "sent", "acceptor", "tls", "gone"}]
      BY <1>8 DEF TypeOK
    <3> QED
      BY <3>1, <3>2 DEF Ends
  <2>2. ASSUME stream["server"] \in {"none", "sent", "acceptor"}
        PROVE  Line("client")' = Line("client") /\ hs'["client"]
    <3>1. e = "client" /\ p = "server"
      BY <2>2 DEF Ends, Peer
    <3>2. net[p] = <<>> /\ hs[e] /\ ~shut[p]
      BY <1>1, <2>2, <3>1 DEF Kept, HelloFirst
    <3>3. u.hs /\ u.put \o u.out = out[e]
      BY <1>3, <1>7, <3>2 DEF w
    <3>4. (net[e] \o u.put) \o u.out = net[e] \o (u.put \o u.out)
      <4> DEFINE x == net[e]
                 y == u.put
                 z == u.out
      <4>1. x \in Seq(Record) /\ y \in Seq(Record) /\ z \in Seq(Record)
        BY <1>5, <1>6
      <4> HIDE DEF x, y, z
      <4>2. (x \o y) \o z = x \o (y \o z)
        BY <4>1, RecordsAssociative
      <4> QED
        BY <4>2 DEF x, y, z
    <3>5. Line(e)' = (net[e] \o u.put) \o u.out
      BY <1>8 DEF Line
    <3> QED
      BY <1>8, <3>1, <3>3, <3>4, <3>5 DEF Line
  <2> QED
    BY <1>1, <2>1, <2>2 DEF HelloFirst
<1>11. Whole(e)'
  <2>1. There(e)' = There(e)
    BY <1>8 DEF There, Received
  <2>2. /\ There(e) \in Seq(Messages) /\ MessagesOf(net[e]) \in Seq(Messages)
        /\ MessagesOf(out[e]) \in Seq(Messages) /\ Way(e) = MessagesOf(net[e]) \o MessagesOf(out[e])
    BY <1>1, EndTypes
  <2>3. /\ MessagesOf(u.put) \in Seq(Messages) /\ MessagesOf(u.out) \in Seq(Messages)
        /\ MessagesOf(u.put \o u.out) = MessagesOf(u.put) \o MessagesOf(u.out)
        /\ MessagesOf(net[e] \o u.put) = MessagesOf(net[e]) \o MessagesOf(u.put)
    BY <1>5, <1>6, MessagesType, MessagesConcat
  <2>4. Way(e)' = (MessagesOf(net[e]) \o MessagesOf(u.put)) \o MessagesOf(u.out)
    <3>1. net[e] \o u.put \in Seq(Record)
      BY <1>5, <1>6, ConcatProperties
    <3>2. MessagesOf((net[e] \o u.put) \o u.out) = MessagesOf(net[e] \o u.put) \o MessagesOf(u.out)
      BY <1>5, <3>1, MessagesConcat
    <3>3. Way(e)' = MessagesOf((net[e] \o u.put) \o u.out)
      BY <1>8 DEF Way, Line
    <3> QED
      BY <2>3, <3>2, <3>3
  <2>5. ~shut[p] => MessagesOf(u.put) \o MessagesOf(u.out) = MessagesOf(out[e]) \o m
    BY <1>3, <1>7, <2>3
  <2>6. ~shut[e]
    BY <1>1 DEF Kept
  <2>7. Balance(There(e), MessagesOf(net[e]) \o MessagesOf(out[e]), sent[e], shut[p], FALSE)
    BY <1>1, <2>2, <2>6 DEF Whole, Balance
  <2> DEFINE t == There(e)
             a == MessagesOf(net[e])
             b == MessagesOf(out[e])
             x == MessagesOf(u.put)
             y == MessagesOf(u.out)
             s == sent[e]
             g == shut[p]
  <2>8. /\ t \in Seq(Messages) /\ a \in Seq(Messages) /\ b \in Seq(Messages)
        /\ x \in Seq(Messages) /\ y \in Seq(Messages) /\ s \in Seq(Messages)
        /\ (~g => x \o y = b \o m) /\ Balance(t, a \o b, s, g, FALSE)
    BY <1>6, <2>2, <2>3, <2>5, <2>7
  <2>9. Balance(t, (a \o x) \o y, s \o m, g, FALSE)
    <3> HIDE DEF t, a, b, x, y, s, g
    <3> QED
      BY <2>8, BalanceWritten
  <2>10. Balance(There(e)', Way(e)', sent'[e], shut'[p], FALSE)
    BY <1>8, <2>1, <2>4, <2>9
  <2> QED
    BY <1>8, <2>6, <2>10 DEF Whole, Balance
<1>12. Whole(p)'
  <2>1. ~shut[e] /\ Balance(There(p), Way(p), sent[p], FALSE, shut[p])
    BY <1>1 DEF Whole, Balance, Kept
  <2>2. There(p) = DataOf(events[e]) \o plain[e] /\ Way(p) = MessagesOf(net[p]) \o MessagesOf(out[p])
    BY <1>1, EndTypes DEF There, Received
  <2>3. There(p)' = DataOf(events[e]) \o u.plain
    BY <1>1, <1>8 DEF There, Received
  <2>4. Way(p)' = MessagesOf(u.in) \o MessagesOf(out[p])
    BY <1>5, <1>6, <1>8, MessagesConcat DEF Way, Line
  <2> DEFINE g == DataOf(events[e])
             q == plain[e]
             a == MessagesOf(net[p])
             b == MessagesOf(out[p])
             r == u.plain
             c == MessagesOf(u.in)
             s == sent[p]
             left == shut[p]
  <2>5. /\ g \in Seq(Messages) /\ q \in Seq(Messages) /\ a \in Seq(Messages) /\ b \in Seq(Messages)
        /\ r \in Seq(Messages) /\ c \in Seq(Messages) /\ s \in Seq(Messages) /\ r \o c = q \o a
        /\ Balance(g \o q, a \o b, s, FALSE, left)
    <3>1. events[e] \in Seq(Event)
      BY <1>1, EndTypes
    <3>2. g \in Seq(Messages)
      BY <3>1, DataType
    <3>3. a \in Seq(Messages) /\ b \in Seq(Messages) /\ c \in Seq(Messages)
      BY <1>5, <1>6, MessagesType
    <3> QED
      BY <1>4, <1>5, <1>6, <2>1, <2>2, <3>2, <3>3
  <2>6. Balance(g \o r, c \o b, s, FALSE, left)
    <3> HIDE DEF g, q, a, b, r, c, s, left
    <3> QED
      BY <2>5, BalanceRead
  <2>7. Balance(There(p)', Way(p)', sent'[p], FALSE, shut'[p])
    BY <1>8, <2>3, <2>4, <2>6
  <2> QED
    BY <1>1, <1>8, <2>1, <2>7 DEF Whole, Balance
<1> QED
  BY <1>1, <1>8, <1>9, <1>10, <1>11, <1>12 DEF SInv

\* The handshake carries no message.
LEMMA HandshakeIsNoMessage ==
  ASSUME NEW r \in {Hello, Flight}
  PROVE  <<r>> \in Seq(Record) /\ MessagesOf(<<r>>) = <<>> /\ Len(<<r>>) = 1
<1>1. r \in Record /\ r \in Int /\ ~(r > 0)
  BY DEF Hello, Flight, Record
<1>2. <<>> \in Seq(Int) /\ Append(<<>>, r) = <<r>>
  BY <1>1, EmptySeq
<1>3. MessagesOf(Append(<<>>, r)) = <<>>
  BY <1>1, <1>2, MessagesAppend, MessagesEmpty
<1> QED
  BY <1>1, <1>2, <1>3

\* One record or none, of two sequences: nothing is behind the first of them.
LEMMA OneRecord ==
  ASSUME NEW s \in Seq(Record), NEW t \in Seq(Record), NEW r \in Record,
         s \o t = <<>> \/ s \o t = <<r>>
  PROVE  /\ s = <<>> \/ s = <<r>>
         /\ s # <<>> => s = <<r>> /\ t = <<>>
<1>1. /\ Len(s) \in Nat /\ Len(t) \in Nat /\ Len(s \o t) = Len(s) + Len(t)
      /\ \A i \in 1 .. Len(s) : (s \o t)[i] = s[i]
  BY ConcatProperties, LenProperties
<1>2. CASE s = <<>>
  BY <1>2
<1>3. CASE s # <<>>
  <2>1. Len(s) # 0
    BY <1>3, EmptySeq
  <2>2. s \o t = <<r>>
    BY <1>1, <2>1, EmptySeq
  <2>3. Len(s) = 1 /\ Len(t) = 0 /\ s[1] = r
    <3> DEFINE x == <<r>>
    <3>1. Len(x) = 1 /\ x[1] = r /\ s \o t = x
      BY <2>2
    <3> HIDE DEF x
    <3> QED
      BY <1>1, <2>1, <3>1
  <2>4. t = <<>>
    BY <2>3, EmptySeq
  <2>5. s = <<r>>
    <3> DEFINE x == <<r>>
    <3>1. x \in Seq(Record) /\ Len(x) = 1 /\ x[1] = r
      OBVIOUS
    <3> HIDE DEF x
    <3>2. \A i \in 1 .. Len(s) : s[i] = x[i]
      BY <2>3, <3>1
    <3>3. s = x
      BY <2>3, <3>1, <3>2, SeqEqual
    <3> QED
      BY <3>3 DEF x
  <2> QED
    BY <2>4, <2>5
<1> QED
  BY <1>2, <1>3

\* A step that moves no record and no message, and takes no end away.
LEMMA StillKeeps ==
  ASSUME SInv, TypeOK', Sending', UNCHANGED <<hs, out, plain, net, shut, sent>>,
         \A e \in Ends : DataOf(events'[e]) = DataOf(events[e]),
         \A e \in Ends : \/ stream'[e] = stream[e]
                         \/ stream[e] \in {"none", "sent"} /\ stream'[e] \in {"sent", "acceptor"},
         stream'["client"] # "acceptor"
  PROVE  SInv'
<1>1. /\ TypeOK /\ HelloFirst /\ Sending /\ \A e \in Ends : Kept(e) /\ Whole(e)
  BY DEF SInv
<1>2. ASSUME NEW e \in Ends PROVE Kept(e)' /\ Whole(e)'
  <2>1. Kept(e)'
    BY <1>1 DEF Kept
  <2>2. There(e)' = There(e) /\ Way(e)' = Way(e)
    BY PeerEnds DEF There, Way, Line, Received
  <2>3. Whole(e)'
    BY <1>1, <2>2 DEF Whole
  <2> QED
    BY <2>1, <2>3
<1>3. HelloFirst'
  <2>1. Line("client")' = Line("client")
    BY DEF Line
  <2>2. "client" \in Ends /\ "server" \in Ends
    BY DEF Ends
  <2>3. stream'["server"] \in {"none", "sent", "acceptor"} => stream["server"] \in {"none", "sent", "acceptor"}
    BY <2>2
  <2>4. stream'["client"] = "tls" => stream["client"] = "tls"
    BY <2>2
  <2> QED
    BY <1>1, <2>1, <2>3, <2>4 DEF HelloFirst
<1> QED
  BY <1>2, <1>3 DEF SInv

\* The types after ends have left.
LEMMA DropTyped ==
  ASSUME TypeOK, NEW S \in SUBSET Ends, NEW had \in [Ends -> SUBSET {"read", "write"}], Drop(S, had),
         act' \in [Threads -> Activity], events' \in [Ends -> Seq(Event)],
         cmds' \in [Ends -> Seq(0 .. MaxSends)], UNCHANGED <<worker, tcp, ready, posted, sent>>
  PROVE  TypeOK'
<1>1. /\ stream' = [e \in Ends |-> IF e \in S THEN "gone" ELSE stream[e]]
      /\ shut' = [e \in Ends |-> shut[e] \/ e \in S]
      /\ out' = [e \in Ends |-> IF e \in S THEN <<>> ELSE out[e]]
      /\ plain' = [e \in Ends |-> IF e \in S THEN <<>> ELSE plain[e]]
      /\ polls' = [e \in Ends |-> CASE e \in S -> {}
                                    [] e \notin S /\ Registered(e) /\ Peer(e) \in S -> {"read", "write"}
                                    [] OTHER -> had[e]]
      /\ hs' = hs /\ net' = net
  BY DEF Drop
<1>2. stream' \in [Ends -> {"none", "sent", "acceptor", "tls", "gone"}]
  BY <1>1 DEF TypeOK
<1>3. shut' \in [Ends -> BOOLEAN]
  BY <1>1 DEF TypeOK
<1>4. <<>> \in Seq(Record) /\ <<>> \in Seq(Messages)
  BY EmptySeq
<1>5. out' \in [Ends -> Seq(Record)] /\ plain' \in [Ends -> Seq(Messages)]
  BY <1>1, <1>4 DEF TypeOK
<1>6. polls' \in [Ends -> SUBSET {"read", "write"}]
  BY <1>1
<1> QED
  BY <1>1, <1>2, <1>3, <1>5, <1>6 DEF TypeOK

\* Ends leave: what they had not written and not handed over is lost.
LEMMA DropKeeps ==
  ASSUME SInv, NEW S \in SUBSET Ends, \A e \in S : stream[e] # "gone",
         NEW had \in [Ends -> SUBSET {"read", "write"}], Drop(S, had), Sending', TypeOK',
         \A e \in Ends : DataOf(events'[e]) = DataOf(events[e]), sent' = sent
  PROVE  SInv'
<1>1. TypeOK /\ HelloFirst /\ Sending /\ \A e \in Ends : Kept(e) /\ Whole(e)
  BY DEF SInv
<1>2. /\ hs' = hs /\ net' = net
      /\ \A e \in Ends : e \in S =>
             stream'[e] = "gone" /\ shut'[e] /\ out'[e] = <<>> /\ plain'[e] = <<>>
      /\ \A e \in Ends : e \notin S =>
             stream'[e] = stream[e] /\ shut'[e] = shut[e] /\ out'[e] = out[e] /\ plain'[e] = plain[e]
  <2>1. shut \in [Ends -> BOOLEAN]
    BY <1>1 DEF TypeOK
  <2> QED
    BY <2>1 DEF Drop
<1>3. ASSUME NEW e \in Ends PROVE Kept(e)'
  <2>1. CASE e \in S
    BY <1>2, <2>1 DEF Kept
  <2>2. CASE e \notin S
    BY <1>1, <1>2, <2>2 DEF Kept
  <2> QED
    BY <2>1, <2>2
<1>4. ASSUME NEW e \in Ends PROVE Whole(e)'
  <2> DEFINE p == Peer(e)
             g == DataOf(events[p])
             q == plain[p]
             a == MessagesOf(net[e])
             b == MessagesOf(out[e])
             s == sent[e]
             gone == shut[p]
             left == shut[e]
             also == shut'[e]
             x == Way(e)'
  <2>1. p \in Ends /\ p # e
    BY PeerEnds
  <2>2. /\ g \in Seq(Messages) /\ q \in Seq(Messages) /\ a \in Seq(Messages) /\ b \in Seq(Messages)
        /\ s \in Seq(Messages) /\ There(e) = g \o q /\ Way(e) = a \o b /\ net[e] \in Seq(Record)
        /\ There(e) \in Seq(Messages)
    <3>1. Received(p) \in Seq(Messages) /\ plain[p] \in Seq(Messages)
      BY <1>1, <2>1, EndTypes
    <3>2. /\ a \in Seq(Messages) /\ b \in Seq(Messages) /\ s \in Seq(Messages) /\ Way(e) = a \o b
          /\ net[e] \in Seq(Record) /\ There(e) \in Seq(Messages)
      BY <1>1, EndTypes
    <3> QED
      BY <3>1, <3>2 DEF There, Received
  <2>3. Balance(g \o q, a \o b, s, gone, left)
    BY <1>1, <2>2 DEF Whole, Balance
  <2>4. There(e)' = g \o plain'[p] /\ sent'[e] = s
    BY <2>1 DEF There, Received
  <2>5. CASE p \in S
    <3>1. There(e)' = g \o <<>> /\ shut'[p]
      BY <1>2, <2>1, <2>4, <2>5
    <3>2. Balance(g \o <<>>, x, s, TRUE, also)
      <4> HIDE DEF g, q, a, b, s, gone, left, also, x
      <4> DEFINE w == a \o b
      <4>1. Balance(g \o q, w, s, gone, left)
        BY <2>3
      <4> HIDE DEF w
      <4> QED
        BY <2>2, <4>1, BalanceDropped
    <3>3. Balance(There(e)', Way(e)', sent'[e], TRUE, shut'[e])
      BY <2>4, <3>1, <3>2
    <3> QED
      BY <3>1, <3>3 DEF Whole, Balance
  <2>6. CASE p \notin S /\ e \in S
    <3>1. There(e)' = g \o q /\ shut'[p] = shut[p] /\ shut'[e] /\ out'[e] = <<>>
      BY <1>2, <2>1, <2>4, <2>6
    <3>2. ~shut[e]
      BY <1>1, <2>6 DEF Kept
    <3>3. Way(e)' = a
      <4>1. Way(e)' = MessagesOf(net[e] \o <<>>)
        BY <1>2, <3>1 DEF Way, Line
      <4> QED
        BY <2>2, <4>1, ConcatEmptySeq
    <3>4. Balance(g \o q, a, s, gone, TRUE)
      <4> DEFINE t == g \o q
      <4>1. t \in Seq(Messages) /\ Balance(t, a \o b, s, gone, FALSE)
        BY <2>2, <2>3, <3>2 DEF Balance
      <4>2. Balance(t, a, s, gone, TRUE)
        <5> HIDE DEF g, q, a, b, s, gone, left, also, x, t
        <5> QED
          BY <2>2, <4>1, BalanceLeft
      <4> QED
        BY <4>2
    <3>5. Balance(There(e)', Way(e)', sent'[e], shut'[p], TRUE)
      BY <2>4, <3>1, <3>3, <3>4
    <3> QED
      BY <3>1, <3>5 DEF Whole, Balance
  <2>7. CASE p \notin S /\ e \notin S
    <3>1. There(e)' = There(e) /\ Way(e)' = Way(e) /\ shut'[p] = shut[p] /\ shut'[e] = shut[e]
      BY <1>2, <2>1, <2>2, <2>4, <2>7 DEF Way, Line
    <3> QED
      BY <1>1, <2>4, <3>1 DEF Whole
  <2> QED
    BY <2>5, <2>6, <2>7
<1>5. HelloFirst'
  <2>1. "client" \in Ends /\ "server" \in Ends
    BY DEF Ends
  <2>2. stream'["client"] # "acceptor"
    BY <1>1, <1>2, <2>1 DEF HelloFirst
  <2>3. ASSUME stream'["server"] \in {"none", "sent", "acceptor"}
        PROVE  /\ Line("client")' = <<>> \/ Line("client")' = <<Hello>>
               /\ stream'["client"] = "tls" => hs'["client"]
    <3>1. stream["server"] \in {"none", "sent", "acceptor"}
      BY <1>2, <2>1, <2>3
    <3>2. /\ Line("client") = <<>> \/ Line("client") = <<Hello>>
          /\ stream["client"] = "tls" => hs["client"]
      BY <1>1, <3>1 DEF HelloFirst
    <3>3. CASE "client" \in S
      <4>1. stream'["client"] = "gone" /\ out'["client"] = <<>>
        BY <1>2, <2>1, <3>3
      <4>2. net["client"] \in Seq(Record) /\ out["client"] \in Seq(Record) /\ Hello \in Record
        BY <1>1, <2>1, EndTypes DEF Record
      <4>3. net["client"] = <<>> \/ net["client"] = <<Hello>>
        BY <3>2, <4>2, OneRecord DEF Line
      <4>4. Line("client")' = net["client"]
        BY <1>2, <4>1, <4>2, ConcatEmptySeq DEF Line
      <4> QED
        BY <4>1, <4>3, <4>4
    <3>4. CASE "client" \notin S
      BY <1>2, <2>1, <3>2, <3>4 DEF Line
    <3> QED
      BY <3>3, <3>4
  <2> QED
    BY <2>2, <2>3 DEF HelloFirst
<1> QED
  BY <1>3, <1>4, <1>5 DEF SInv

-----------------------------------------------------------------------------
(* The actions.                                                            *)

\* connect, accept and the registration of an acceptor.
LEMMA BeginKeeps ==
  ASSUME SInv, Connect \/ Accept \/ RegisterServer,
         Accept => act[worker["server"]].op # "panicked"
  PROVE  SInv'
<1>1. /\ TypeOK /\ HelloFirst /\ Sending /\ "client" \in Ends /\ "server" \in Ends /\ "client" # "server"
  BY DEF SInv, Ends
<1>2. \A e \in Ends : ReadyEdges(e) \in SUBSET {"read", "write"}
  BY DEF ReadyEdges
<1>3. /\ UNCHANGED <<worker, tcp, ready, hs, out, plain, net, shut, act, userVars, sent, events>>
      /\ stream' \in [Ends -> {"none", "sent", "acceptor", "tls", "gone"}]
      /\ polls' \in [Ends -> SUBSET {"read", "write"}]
      /\ \A e \in Ends : \/ stream'[e] = stream[e]
                         \/ stream[e] \in {"none", "sent"} /\ stream'[e] \in {"sent", "acceptor"}
      /\ stream'["client"] # "acceptor"
  <2>1. /\ stream \in [Ends -> {"none", "sent", "acceptor", "tls", "gone"}]
        /\ polls \in [Ends -> SUBSET {"read", "write"}] /\ stream["client"] # "acceptor"
    BY <1>1 DEF TypeOK, HelloFirst
  <2>2. CASE Connect
    BY <1>1, <2>1, <2>2 DEF Connect, SslRemoteConnectWith, userVars
  <2>3. CASE Accept
    BY <1>1, <2>1, <2>3 DEF Accept, userVars
  <2>4. CASE RegisterServer
    <3>1. ReadyEdges("server") \in SUBSET {"read", "write"}
      BY <1>1, <1>2
    <3> QED
      BY <1>1, <2>1, <2>4, <3>1 DEF RegisterServer, userVars
  <2> QED
    BY <2>2, <2>3, <2>4
<1>4. TypeOK'
  BY <1>1, <1>3 DEF TypeOK, userVars
<1>5. Sending'
  BY <1>1, <1>3 DEF Sending
<1> QED
  BY <1>3, <1>4, <1>5, StillKeeps

\* The client's rustls has its hello to write.
LEMMA HelloKeeps ==
  ASSUME SInv, RegisterClient
  PROVE  SInv'
<1>1. /\ TypeOK /\ HelloFirst /\ Sending /\ "client" \in Ends /\ "server" \in Ends /\ "client" # "server"
      /\ \A e \in Ends : Kept(e) /\ Whole(e)
  BY DEF SInv, Ends
<1>2. /\ UNCHANGED <<worker, tcp, ready, plain, net, shut, act, userVars, sent, events>>
      /\ stream["client"] = "sent" /\ stream' = [stream EXCEPT !["client"] = "tls"]
      /\ hs' = [hs EXCEPT !["client"] = TRUE] /\ out' = [out EXCEPT !["client"] = <<Hello>>]
      /\ polls' = [polls EXCEPT !["client"] = ReadyEdges("client")]
  BY DEF RegisterClient
<1>3. net["client"] = <<>> /\ out["client"] = <<>>
  BY <1>1, <1>2 DEF Kept
<1>4. /\ <<Hello>> \in Seq(Record) /\ MessagesOf(<<Hello>>) = <<>> /\ MessagesOf(<<>>) = <<>>
      /\ <<>> \o <<Hello>> = <<Hello>> /\ <<>> \o <<>> = <<>>
  <2>1. <<Hello>> \in Seq(Record) /\ MessagesOf(<<Hello>>) = <<>>
    BY HandshakeIsNoMessage
  <2>2. <<>> \in Seq(Record)
    BY EmptySeq
  <2> QED
    BY <2>1, <2>2, MessagesEmpty, ConcatEmptySeq
<1>5. /\ stream' \in [Ends -> {"none", "sent", "acceptor", "tls", "gone"}]
      /\ hs' \in [Ends -> BOOLEAN] /\ out' \in [Ends -> Seq(Record)]
      /\ stream'["client"] = "tls" /\ stream'["server"] = stream["server"]
      /\ hs'["client"] = TRUE /\ out'["client"] = <<Hello>>
      /\ out'["server"] = out["server"]
  BY <1>1, <1>2, <1>4 DEF TypeOK
<1>6. TypeOK'
  <2>1. polls' \in [Ends -> SUBSET {"read", "write"}]
    <3>1. ReadyEdges("client") \in SUBSET {"read", "write"}
      BY DEF ReadyEdges
    <3> QED
      BY <1>1, <1>2, <3>1 DEF TypeOK
  <2> QED
    BY <1>1, <1>2, <1>5, <2>1 DEF TypeOK, userVars
<1>7. Sending'
  BY <1>1, <1>2 DEF Sending
<1>8. Line("client")' = <<Hello>> /\ Line("client") = <<>> /\ Line("server")' = Line("server")
  BY <1>2, <1>3, <1>4, <1>5 DEF Line
<1>9. ASSUME NEW e \in Ends PROVE Kept(e)' /\ Whole(e)'
  <2>1. Way(e)' = Way(e)
    BY <1>4, <1>8 DEF Way, Ends
  <2>2. There(e)' = There(e)
    BY <1>2 DEF There, Received
  <2>3. Whole(e)'
    BY <1>1, <1>2, <2>1, <2>2 DEF Whole
  <2>4. Kept(e)'
    BY <1>1, <1>2, <1>5 DEF Kept, Ends
  <2> QED
    BY <2>3, <2>4
<1>10. HelloFirst'
  BY <1>1, <1>5, <1>8 DEF HelloFirst
<1> QED
  BY <1>6, <1>7, <1>9, <1>10 DEF SInv

\* The poll reports an edge.
LEMMA ProcessKeeps ==
  ASSUME SInv, NEW e \in Ends, ProcessRead(e) \/ ProcessWrite(e)
  PROVE  SInv'
<1>1. TypeOK /\ HelloFirst /\ Sending
  BY DEF SInv
<1>2. PICK had \in [Ends -> SUBSET {"read", "write"}] : ResolvePending(e, had)
  <2>1. polls \in [Ends -> SUBSET {"read", "write"}]
    BY <1>1 DEF TypeOK
  <2>2. \A x : [polls EXCEPT ![e] = @ \ {x}] \in [Ends -> SUBSET {"read", "write"}]
    BY <2>1
  <2> QED
    BY <2>2 DEF ProcessRead, ProcessWrite
<1>3. UNCHANGED <<worker, tcp, userVars, sent>> /\ Registered(e)
  BY DEF ProcessRead, ProcessWrite
<1>4. ready' \in [Ends -> BOOLEAN]
  BY <1>1, <1>2 DEF ResolvePending, TypeOK
<1>5. act' \in [Threads -> Activity] /\ Sending'
  <2>1. act \in [Threads -> Activity] /\ worker[e] \in Threads
    BY <1>1 DEF TypeOK, Threads
  <2> DEFINE a == [op |-> "receive", e |-> e, n |-> 0]
  <2>2. a \in Activity /\ a.op # "send"
    BY BoundsAssumption DEF Activity
  <2>3. act' = act \/ act' = [act EXCEPT ![worker[e]] = a]
    BY DEF ProcessRead, ProcessWrite
  <2> HIDE DEF a
  <2>4. act' \in [Threads -> Activity]
    BY <2>1, <2>2, <2>3
  <2>5. ASSUME NEW t \in Threads, act'[t].op = "send" PROVE act'[t].n \in Messages
    <3>1. act'[t] = act[t]
      BY <2>1, <2>2, <2>3, <2>5
    <3> QED
      BY <1>1, <2>5, <3>1 DEF Sending
  <2> QED
    BY <2>4, <2>5 DEF Sending
<1>6. events' \in [Ends -> Seq(Event)] /\ \A x \in Ends : DataOf(events'[x]) = DataOf(events[x])
  <2>1. \/ events' = events
        \/ Emit(e, Ev("Open"))
        \/ Emit(e, Ev("Failed"))
    BY <1>2 DEF ResolvePending
  <2>2. CASE events' = events
    BY <1>1, <2>2 DEF TypeOK
  <2>3. CASE Emit(e, Ev("Open"))
    <3>1. Ev("Open") \in Event /\ Ev("Open").data = <<>>
      BY PlainEvents
    <3> QED
      BY <1>1, <2>3, <3>1, EmitNothing
  <2>4. CASE Emit(e, Ev("Failed"))
    <3>1. Ev("Failed") \in Event /\ Ev("Failed").data = <<>>
      BY PlainEvents
    <3> QED
      BY <1>1, <2>4, <3>1, EmitNothing
  <2> QED
    BY <2>1, <2>2, <2>3, <2>4
<1>7. CASE polls' = had /\ UNCHANGED tlsVars
  <2>1. UNCHANGED <<stream, hs, out, plain, net, shut>>
    BY <1>7 DEF tlsVars
  <2>2. TypeOK'
    BY <1>1, <1>3, <1>4, <1>5, <1>6, <1>7, <2>1 DEF TypeOK, userVars
  <2>3. stream'["client"] # "acceptor"
    BY <1>1, <2>1 DEF HelloFirst
  <2> QED
    BY <1>3, <1>5, <1>6, <2>1, <2>2, <2>3, StillKeeps
<1>8. CASE Drop({e}, had) /\ UNCHANGED ready
  <2> DEFINE S == {e}
  <2>1. S \in SUBSET Ends /\ (\A x \in S : stream[x] # "gone") /\ Drop(S, had)
    BY <1>3, <1>8 DEF Registered
  <2>2. cmds' \in [Ends -> Seq(0 .. MaxSends)] /\ UNCHANGED <<worker, tcp, ready, posted, sent>> /\ sent' = sent
    BY <1>1, <1>3, <1>8 DEF TypeOK, userVars
  <2> HIDE DEF S
  <2>3. TypeOK'
    BY <1>1, <1>5, <1>6, <2>1, <2>2, DropTyped
  <2> QED
    BY <1>5, <1>6, <2>1, <2>2, <2>3, DropKeeps
<1> QED
  BY <1>2, <1>7, <1>8 DEF ResolvePending

\* A worker is done with its call.
LEMMA BackToIdle ==
  ASSUME TypeOK, Sending, NEW e \in Ends, act' = [act EXCEPT ![worker[e]] = Idle] \/ act' = act
  PROVE  act' \in [Threads -> Activity] /\ Sending'
<1>1. act \in [Threads -> Activity] /\ worker[e] \in Threads
  BY DEF TypeOK, Threads
<1>2. Idle \in Activity /\ Idle.op # "send"
  BY BoundsAssumption DEF Idle, Activity, Ends
<1>3. act' \in [Threads -> Activity]
  BY <1>1, <1>2
<1>4. ASSUME NEW t \in Threads, act'[t].op = "send" PROVE act'[t].n \in Messages
  <2>1. act'[t] = act[t]
    BY <1>1, <1>2, <1>4
  <2> QED
    BY <1>4, <2>1 DEF Sending
<1> QED
  BY <1>3, <1>4 DEF Sending

\* A receive that fails.
LEMMA DisconnectedKeeps ==
  ASSUME SInv, NEW e \in Ends, Registered(e), Disconnected(e), UNCHANGED <<worker, tcp, ready, userVars, sent>>
  PROVE  SInv'
<1>1. TypeOK /\ Sending
  BY DEF SInv
<1> DEFINE S == {e}
<1>2. /\ S \in SUBSET Ends /\ (\A x \in S : stream[x] # "gone") /\ Drop(S, polls)
      /\ Emit(e, Ev("Disconnected")) /\ act' = [act EXCEPT ![worker[e]] = Idle]
  BY DEF Disconnected, Registered
<1> HIDE DEF S
<1>3. act' \in [Threads -> Activity] /\ Sending'
  BY <1>1, <1>2, BackToIdle
<1>4. events' \in [Ends -> Seq(Event)] /\ \A x \in Ends : DataOf(events'[x]) = DataOf(events[x])
  <2>1. Ev("Disconnected") \in Event /\ Ev("Disconnected").data = <<>>
    BY PlainEvents
  <2> QED
    BY <1>1, <1>2, <2>1, EmitNothing
<1>5. /\ cmds' \in [Ends -> Seq(0 .. MaxSends)] /\ UNCHANGED <<worker, tcp, ready, posted, sent>>
      /\ sent' = sent /\ polls \in [Ends -> SUBSET {"read", "write"}]
  BY <1>1 DEF TypeOK, userVars
<1>6. TypeOK'
  BY <1>1, <1>2, <1>3, <1>4, <1>5, DropTyped
<1> QED
  BY <1>2, <1>3, <1>4, <1>5, <1>6, DropKeeps

\* The acceptor has read the hello, and its rustls has its flight to write.
LEMMA AcceptorKeeps ==
  ASSUME SInv, NEW e \in Ends, ReceiveAcceptor(e)
  PROVE  SInv'
<1>1. /\ TypeOK /\ HelloFirst /\ Sending /\ \A x \in Ends : Kept(x) /\ Whole(x)
  BY DEF SInv
<1>2. /\ stream[e] = "acceptor" /\ UNCHANGED <<worker, tcp, ready, userVars, sent>>
  BY DEF ReceiveAcceptor
<1>3. e = "server" /\ Peer(e) = "client" /\ Peer("client") = e
  BY <1>1, <1>2 DEF HelloFirst, Ends, Peer
<1>4. PICK r \in WrapStream(View(e)) :
          \/ r.res = "ok" /\ Leaves(e, r.v, "tls") /\ UNCHANGED <<events, act>>
          \/ r.res = "error" /\ Disconnected(e)
  BY DEF ReceiveAcceptor
<1>5. CASE Disconnected(e)
  BY <1>2, <1>5, DisconnectedKeeps DEF Registered
<1>6. CASE r.res = "ok" /\ Leaves(e, r.v, "tls") /\ UNCHANGED <<events, act>>
  <2> DEFINE w == View(e)
             v == r.v
  <2>1. /\ w \in Views /\ w.hs = hs[e] /\ w.plain = plain[e] /\ w.in = net["client"] /\ w.put = <<>>
    BY <1>1, <1>3, ViewOfEnd
  <2>2. w.in # <<>> /\ v = [w EXCEPT !.in = Tail(@), !.hs = TRUE, !.out = <<Flight>>]
    BY <1>4, <1>6 DEF WrapStream, R
  <2>3. /\ v.in = Tail(net["client"]) /\ v.hs = TRUE /\ v.out = <<Flight>> /\ v.plain = plain[e]
        /\ v.put = <<>> /\ net["client"] # <<>>
    <3> HIDE DEF w, v
    <3> QED
      BY <2>1, <2>2 DEF Views
  <2>4. /\ net["client"] \in Seq(Record) /\ out["client"] \in Seq(Record) /\ net[e] \in Seq(Record)
        /\ plain[e] \in Seq(Messages) /\ Len(net[e]) <= Window /\ Len(net[e]) \in Nat /\ Hello \in Record
    BY <1>1, <1>3, EndTypes DEF Ends, Record
  <2>5. net["client"] = <<Hello>> /\ out["client"] = <<>>
    <3>1. net["client"] \o out["client"] = <<>> \/ net["client"] \o out["client"] = <<Hello>>
      BY <1>1, <1>2, <1>3 DEF HelloFirst, Line
    <3> QED
      <4> DEFINE x == net["client"]
                 y == out["client"]
                 h == Hello
      <4>1. /\ x \in Seq(Record) /\ y \in Seq(Record) /\ h \in Record /\ x # <<>>
            /\ x \o y = <<>> \/ x \o y = <<h>>
        BY <2>3, <2>4, <3>1
      <4> HIDE DEF x, y, h
      <4>2. x = <<h>> /\ y = <<>>
        BY <4>1, OneRecord
      <4> QED
        BY <4>2 DEF x, y, h
  <2>6. /\ <<Hello>> \in Seq(Record) /\ MessagesOf(<<Hello>>) = <<>>
        /\ <<Flight>> \in Seq(Record) /\ MessagesOf(<<Flight>>) = <<>>
        /\ MessagesOf(<<>>) = <<>> /\ <<>> \in Seq(Record) /\ Len(<<>>) = 0
    BY HandshakeIsNoMessage, MessagesEmpty, EmptySeq
  <2>7. v.in = <<>>
    BY <2>3, <2>5
  <2>8. net[e] = <<>> /\ out[e] = <<>> /\ plain[e] = <<>> /\ sent[e] = <<>> /\ ~shut[e]
    BY <1>1, <1>2 DEF Kept
  <2>9. /\ TypeOK'
        /\ stream'[e] = "tls" /\ hs'[e] = v.hs /\ out'[e] = v.out /\ plain'[e] = v.plain
        /\ net'[e] = net[e] \o v.put /\ net'["client"] = v.in /\ shut' = shut
        /\ \A x \in Ends : x # e => /\ stream'[x] = stream[x] /\ hs'[x] = hs[x]
                                    /\ out'[x] = out[x] /\ plain'[x] = plain[x]
    <3>1. /\ v.hs \in BOOLEAN /\ v.out \in Seq(Record) /\ v.plain \in Seq(Messages) /\ v.in \in Seq(Record)
          /\ v.put \in Seq(Record)
      BY <2>3, <2>4, <2>6, <2>7
    <3>2. Len(net[e]) + Len(v.put) <= Window /\ Len(v.in) <= Window
      <4>1. Len(v.put) = 0 /\ Len(v.in) = 0
        BY <2>3, <2>6, <2>7
      <4> HIDE DEF v
      <4>2. Window \in Nat
        BY BoundsAssumption
      <4> QED
        BY <2>4, <4>1, <4>2
    <3>3. /\ act' \in [Threads -> Activity] /\ events' \in [Ends -> Seq(Event)]
          /\ sent' \in [Ends -> Seq(Messages)] /\ UNCHANGED <<worker, tcp, ready, userVars>>
      BY <1>1, <1>2, <1>6 DEF TypeOK
    <3>4. TypeOK /\ Leaves(e, v, "tls")
      BY <1>1, <1>6
    <3> HIDE DEF v
    <3> QED
      <4>1. /\ TypeOK'
            /\ stream'[e] = "tls" /\ hs'[e] = v.hs /\ out'[e] = v.out /\ plain'[e] = v.plain
            /\ net'[e] = net[e] \o v.put /\ net'[Peer(e)] = v.in /\ shut' = shut
            /\ \A x \in Ends : x # e => /\ stream'[x] = stream[x] /\ hs'[x] = hs[x]
                                        /\ out'[x] = out[x] /\ plain'[x] = plain[x]
        BY <3>1, <3>2, <3>3, <3>4, LeavesTyped
      <4> QED
        BY <1>3, <4>1
  <2> HIDE DEF v, w
  <2>10. /\ Line("client") = <<Hello>> /\ Line(e) = <<>>
         /\ Line("client")' = <<>> /\ Line(e)' = <<Flight>>
    <3>1. <<>> \o <<Flight>> = <<Flight>> /\ <<>> \o <<>> = <<>> /\ <<Hello>> \o <<>> = <<Hello>>
      BY <2>6, ConcatEmptySeq
    <3>2. "client" \in Ends /\ "client" # e
      BY <1>3 DEF Ends
    <3>3. /\ net'["client"] = <<>> /\ out'["client"] = <<>> /\ net'[e] = <<>> /\ out'[e] = <<Flight>>
      BY <2>3, <2>5, <2>7, <2>8, <2>9, <3>1, <3>2
    <3> QED
      BY <2>5, <2>8, <3>1, <3>3 DEF Line
  <2>11. Sending'
    BY <1>1, <1>6 DEF Sending
  <2>12. HelloFirst'
    BY <1>1, <1>3, <2>9 DEF HelloFirst, Ends
  <2>13. ASSUME NEW x \in Ends PROVE Kept(x)' /\ Whole(x)'
    <3>1. x = e \/ x = "client"
      BY <1>3 DEF Ends
    <3>2. Way(x)' = Way(x)
      BY <2>6, <2>10, <3>1 DEF Way
    <3>3. There(x)' = There(x)
      <4>1. plain'[Peer(x)] = plain[Peer(x)]
        BY <2>3, <2>9, PeerEnds
      <4> QED
        BY <1>6, <4>1 DEF There, Received
    <3>4. Whole(x)'
      BY <1>1, <1>2, <2>9, <3>2, <3>3 DEF Whole
    <3>5. Kept(x)'
      <4>1. CASE x = e
        BY <2>8, <2>9, <4>1 DEF Kept
      <4>2. CASE x # e
        <5>1. net["client"] # <<>> /\ x = "client"
          BY <2>3, <3>1, <4>2
        <5> QED
          BY <1>1, <1>2, <2>9, <4>2, <5>1 DEF Kept
      <4> QED
        BY <4>1, <4>2
    <3> QED
      BY <3>4, <3>5
  <2> QED
    BY <2>9, <2>11, <2>12, <2>13 DEF SInv
<1> QED
  BY <1>4, <1>5, <1>6

\* A turn of the loop of receive.
LEMMA ReceiveKeeps ==
  ASSUME SInv, NEW e \in Ends, ReceiveTls(e)
  PROVE  SInv'
<1>1. TypeOK /\ Sending /\ Peer(e) \in Ends /\ Peer(e) # e
  BY PeerEnds DEF SInv
<1>2. /\ stream[e] = "tls" /\ UNCHANGED <<worker, tcp, ready, userVars, sent>>
  BY DEF ReceiveTls
<1>3. PICK r \in TlsRead(View(e)) :
        \/ /\ r.res = "ok" /\ Leaves(e, [r.v EXCEPT !.plain = <<>>], "tls")
           /\ Emit(e, [kind |-> "Message", data |-> r.v.plain]) /\ UNCHANGED act
        \/ /\ r.res = "block" /\ Leaves(e, r.v, "tls")
           /\ act' = [act EXCEPT ![worker[e]] = Idle] /\ UNCHANGED events
        \/ r.res = "error" /\ Disconnected(e)
  BY DEF ReceiveTls
<1> DEFINE w == View(e)
           u == r.v
           m == <<>>
<1>4. /\ w \in Views /\ w.hs = hs[e] /\ w.in = net[Peer(e)]
  BY <1>1, ViewOfEnd
<1>5. /\ Follows(w, u, m) /\ u \in Views /\ u.end = w.end
      /\ hs[e] /\ net[Peer(e)] = <<>> =>
             m = <<>> /\ u.hs /\ u.in = <<>> /\ (~u.end => u.put \o u.out = w.put \o w.out)
  <2>1. /\ Proper(w, r) /\ r.v \in Views
        /\ w.hs /\ w.in = <<>> =>
                /\ r.res # "ok" /\ r.v.hs /\ r.v.in = <<>> /\ r.v.plain = w.plain
                /\ ~w.end => r.v.put \o r.v.out = w.put \o w.out
    <3> HIDE DEF w
    <3>1. r \in TlsRead(w)
      BY DEF w
    <3> QED
      BY <1>4, <3>1, TlsReadKeeps
  <2>2. Follows(w, u, m) /\ u.end = w.end
    BY <2>1 DEF Proper, Follows
  <2> QED
    BY <1>4, <2>1, <2>2
<1>6. /\ u.plain \in Seq(Messages) /\ m \in Seq(Messages)
  BY <1>5, ViewFields, EmptySeq
<1>7. /\ sent' \in [Ends -> Seq(Messages)] /\ sent'[e] = sent[e] \o m /\ sent'[Peer(e)] = sent[Peer(e)]
      /\ UNCHANGED <<worker, tcp, ready, userVars>>
  <2>1. sent \in [Ends -> Seq(Messages)] /\ sent[e] \in Seq(Messages)
    BY <1>1 DEF TypeOK
  <2>2. sent[e] \o <<>> = sent[e]
    BY <2>1, ConcatEmptySeq
  <2> QED
    BY <1>2, <2>1, <2>2
<1>8. /\ DataOf(events[e]) \in Seq(Messages) /\ events \in [Ends -> Seq(Event)]
  BY <1>1, EndTypes DEF Received, TypeOK
<1>9. CASE /\ Leaves(e, [r.v EXCEPT !.plain = <<>>], "tls")
           /\ Emit(e, [kind |-> "Message", data |-> r.v.plain]) /\ UNCHANGED act
  <2> DEFINE v == [u EXCEPT !.plain = <<>>]
  <2>1. v.hs = u.hs /\ v.out = u.out /\ v.in = u.in /\ v.put = u.put /\ v.plain = <<>>
    BY <1>5 DEF Views
  <2>2. /\ events' \in [Ends -> Seq(Event)] /\ DataOf(events'[e]) = DataOf(events[e]) \o u.plain
        /\ events'[Peer(e)] = events[Peer(e)]
    <3> DEFINE q == u.plain
    <3>1. q \in Seq(Messages) /\ Emit(e, [kind |-> "Message", data |-> q])
      BY <1>6, <1>9
    <3> HIDE DEF q
    <3>2. /\ events' \in [Ends -> Seq(Event)] /\ DataOf(events'[e]) = DataOf(events[e]) \o q
          /\ events'[Peer(e)] = events[Peer(e)]
      BY <1>1, <3>1, EmitPlain
    <3> QED
      BY <3>2 DEF q
  <2>3. DataOf(events'[e]) \o v.plain = DataOf(events[e]) \o u.plain /\ v.plain \in Seq(Messages)
    <3>1. DataOf(events[e]) \o u.plain \in Seq(Messages)
      BY <1>6, <1>8, ConcatProperties
    <3>2. (DataOf(events[e]) \o u.plain) \o <<>> = DataOf(events[e]) \o u.plain
      BY <3>1, ConcatEmptySeq
    <3> QED
      BY <1>6, <2>1, <2>2, <3>2
  <2>4. act' \in [Threads -> Activity] /\ Sending'
    BY <1>1, <1>9, BackToIdle
  <2>5. Leaves(e, v, "tls")
    BY <1>9
  <2> HIDE DEF v, u, m
  <2> QED
    BY <1>2, <1>5, <1>6, <1>7, <2>1, <2>2, <2>3, <2>4, <2>5, CallKeeps
<1>10. CASE /\ Leaves(e, r.v, "tls")
            /\ act' = [act EXCEPT ![worker[e]] = Idle] /\ UNCHANGED events
  <2>1. act' \in [Threads -> Activity] /\ Sending'
    BY <1>1, <1>10, BackToIdle
  <2>2. /\ events' \in [Ends -> Seq(Event)] /\ events'[Peer(e)] = events[Peer(e)]
        /\ DataOf(events'[e]) \o u.plain = DataOf(events[e]) \o u.plain
    BY <1>8, <1>10
  <2>3. Leaves(e, u, "tls")
    BY <1>10
  <2> HIDE DEF u, m
  <2> QED
    BY <1>2, <1>5, <1>6, <1>7, <2>1, <2>2, <2>3, CallKeeps
<1>11. CASE Disconnected(e)
  BY <1>2, <1>11, DisconnectedKeeps DEF Registered
<1> QED
  BY <1>3, <1>9, <1>10, <1>11

\* A send or a close is taken from the channel.
LEMMA CommandKeeps ==
  ASSUME SInv, NEW e \in Ends, DoCommand(e)
  PROVE  SInv'
<1>1. TypeOK /\ HelloFirst /\ Sending
  BY DEF SInv
<1> DEFINE c == Head(cmds[e])
           a == [op |-> "send", e |-> e, n |-> c]
<1>2. /\ cmds' = [cmds EXCEPT ![e] = Tail(@)] /\ cmds[e] # <<>>
      /\ UNCHANGED <<worker, tcp, ready, posted, sent, events>>
      /\ (c = CloseCmd /\ Registered(e) /\ Drop({e}, polls)) \/ UNCHANGED <<tlsVars, polls>>
      /\ act' = act \/ (c # CloseCmd /\ act' = [act EXCEPT ![worker[e]] = a])
  BY DEF DoCommand
<1>3. c \in 0 .. MaxSends /\ cmds' \in [Ends -> Seq(0 .. MaxSends)]
  <2>1. cmds \in [Ends -> Seq(0 .. MaxSends)] /\ cmds[e] \in Seq(0 .. MaxSends)
    BY <1>1 DEF TypeOK
  <2>2. Head(cmds[e]) \in 0 .. MaxSends /\ Tail(cmds[e]) \in Seq(0 .. MaxSends)
    BY <1>2, <2>1, HeadTailProperties
  <2> QED
    BY <1>2, <2>1, <2>2
<1>4. act' \in [Threads -> Activity] /\ Sending'
  <2>1. act \in [Threads -> Activity] /\ worker[e] \in Threads
    BY <1>1 DEF TypeOK, Threads
  <2>2. a \in Activity /\ a.n = c
    BY <1>3 DEF Activity
  <2>3. c # CloseCmd => c \in Messages
    BY <1>3, BoundsAssumption DEF CloseCmd, Messages
  <2> HIDE DEF a, c
  <2>4. act' \in [Threads -> Activity]
    BY <1>2, <2>1, <2>2
  <2>5. ASSUME NEW t \in Threads, act'[t].op = "send" PROVE act'[t].n \in Messages
    <3>1. act'[t] = act[t] \/ (c # CloseCmd /\ act'[t] = a)
      BY <1>2, <2>1, <2>5
    <3> QED
      BY <1>1, <2>2, <2>3, <2>5, <3>1 DEF Sending
  <2> QED
    BY <2>4, <2>5 DEF Sending
<1>5. /\ events' \in [Ends -> Seq(Event)] /\ \A x \in Ends : DataOf(events'[x]) = DataOf(events[x])
      /\ sent' = sent /\ UNCHANGED <<worker, tcp, ready, posted, sent>>
  BY <1>1, <1>2 DEF TypeOK
<1>6. CASE UNCHANGED <<tlsVars, polls>>
  <2>1. UNCHANGED <<stream, hs, out, plain, net, shut, sent>>
    BY <1>2, <1>6 DEF tlsVars
  <2>2. TypeOK'
    BY <1>1, <1>2, <1>3, <1>4, <1>6, <2>1 DEF TypeOK
  <2>3. stream'["client"] # "acceptor"
    BY <1>1, <2>1 DEF HelloFirst
  <2> QED
    BY <1>4, <1>5, <2>1, <2>2, <2>3, StillKeeps
<1>7. CASE Registered(e) /\ Drop({e}, polls)
  <2> DEFINE S == {e}
  <2>1. S \in SUBSET Ends /\ (\A x \in S : stream[x] # "gone") /\ Drop(S, polls)
    BY <1>7 DEF Registered
  <2>2. polls \in [Ends -> SUBSET {"read", "write"}]
    BY <1>1 DEF TypeOK
  <2> HIDE DEF S
  <2>3. TypeOK'
    BY <1>1, <1>3, <1>4, <1>5, <2>1, <2>2, DropTyped
  <2> QED
    BY <1>4, <1>5, <2>1, <2>2, <2>3, DropKeeps
<1> QED
  BY <1>2, <1>6, <1>7

\* A turn of the loop of send: it counts as sent what rustls has taken.
LEMMA SendKeeps ==
  ASSUME SInv, NEW e \in Ends, SendTls(e)
  PROVE  SInv'
<1>1. TypeOK /\ Sending /\ Peer(e) \in Ends /\ Peer(e) # e
  BY PeerEnds DEF SInv
<1> DEFINE n == act[worker[e]].n
<1>2. /\ stream[e] = "tls" /\ UNCHANGED <<worker, tcp, ready, userVars, events>>
      /\ act[worker[e]].op = "send"
  BY DEF SendTls, Doing
<1>3. PICK r \in TlsWrite(View(e), n) :
        /\ Leaves(e, r.v, "tls")
        /\ act' = IF r.res = "block" THEN act ELSE [act EXCEPT ![worker[e]] = Idle]
        /\ sent' = IF r.res # "ok" THEN sent ELSE [sent EXCEPT ![e] = Append(@, n)]
  BY DEF SendTls
<1> DEFINE w == View(e)
           u == r.v
           m == IF r.res = "ok" THEN <<n>> ELSE <<>>
<1>4. n \in Messages
  <2>1. worker[e] \in Threads
    BY <1>1 DEF TypeOK, Threads
  <2> QED
    BY <1>1, <1>2, <2>1 DEF Sending
<1>5. w \in Views /\ w.hs = hs[e] /\ w.in = net[Peer(e)]
  BY <1>1, ViewOfEnd
<1>6. /\ Follows(w, u, m) /\ u \in Views /\ u.end = w.end
      /\ hs[e] /\ net[Peer(e)] = <<>> =>
             m = <<>> /\ u.hs /\ u.in = <<>> /\ (~u.end => u.put \o u.out = w.put \o w.out)
  <2>1. /\ u \in Views /\ Follows(w, u, m)
        /\ w.hs /\ w.in = <<>> =>
                /\ r.res # "ok" /\ u.hs /\ u.in = <<>>
                /\ ~w.end => u.put \o u.out = w.put \o w.out
    <3>1. r \in TlsWrite(w, n)
      OBVIOUS
    <3> HIDE DEF w, n
    <3>2. /\ r.v \in Views /\ Follows(w, r.v, IF r.res = "ok" THEN <<n>> ELSE <<>>)
          /\ w.hs /\ w.in = <<>> =>
                /\ r.res # "ok" /\ r.v.hs /\ r.v.in = <<>> /\ r.v.plain = w.plain
                /\ ~w.end => r.v.put \o r.v.out = w.put \o w.out
      BY <1>4, <1>5, <3>1, TlsWriteKeeps
    <3> QED
      BY <3>2
  <2>2. u.end = w.end
    BY <2>1 DEF Follows
  <2> QED
    BY <1>5, <2>1, <2>2
<1>7. /\ u.plain \in Seq(Messages) /\ m \in Seq(Messages)
  BY <1>4, <1>6, ViewFields, EmptySeq
<1>8. /\ sent' \in [Ends -> Seq(Messages)] /\ sent'[e] = sent[e] \o m /\ sent'[Peer(e)] = sent[Peer(e)]
  <2>1. sent \in [Ends -> Seq(Messages)] /\ sent[e] \in Seq(Messages)
    BY <1>1 DEF TypeOK
  <2>2. CASE r.res = "ok"
    <3> HIDE DEF n
    <3>1. Append(sent[e], n) = sent[e] \o <<n>> /\ Append(sent[e], n) \in Seq(Messages)
      BY <1>4, <2>1, AppendIsConcat, AppendProperties
    <3>2. sent' = [sent EXCEPT ![e] = Append(@, n)] /\ m = <<n>>
      BY <1>3, <2>2
    <3> QED
      BY <1>1, <2>1, <3>1, <3>2
  <2>3. CASE r.res # "ok"
    <3>1. sent[e] \o <<>> = sent[e] /\ m = <<>> /\ sent' = sent
      BY <1>3, <2>1, <2>3, ConcatEmptySeq
    <3> QED
      BY <2>1, <3>1
  <2> QED
    BY <2>2, <2>3
<1>9. act' \in [Threads -> Activity] /\ Sending'
  BY <1>1, <1>3, BackToIdle
<1>10. /\ events' \in [Ends -> Seq(Event)] /\ events'[Peer(e)] = events[Peer(e)]
       /\ DataOf(events'[e]) \o u.plain = DataOf(events[e]) \o u.plain
  BY <1>1, <1>2 DEF TypeOK
<1>11. Leaves(e, u, "tls") /\ UNCHANGED <<worker, tcp, ready, userVars>>
  BY <1>2, <1>3
<1> HIDE DEF u, m
<1> QED
  BY <1>2, <1>6, <1>7, <1>8, <1>9, <1>10, <1>11, CallKeeps

\* Streams are dropped, and nothing else moves.
LEMMA LostKeeps ==
  ASSUME SInv, NEW S \in SUBSET Ends, \A e \in S : stream[e] # "gone", Drop(S, polls),
         act' \in [Threads -> Activity], Sending', UNCHANGED <<worker, tcp, ready, userVars, sent, events>>
  PROVE  SInv'
<1>1. TypeOK
  BY DEF SInv
<1>2. /\ events' \in [Ends -> Seq(Event)] /\ \A x \in Ends : DataOf(events'[x]) = DataOf(events[x])
      /\ cmds' \in [Ends -> Seq(0 .. MaxSends)] /\ UNCHANGED <<worker, tcp, ready, posted, sent>>
      /\ sent' = sent /\ polls \in [Ends -> SUBSET {"read", "write"}]
  BY <1>1 DEF TypeOK, userVars
<1>3. TypeOK'
  BY <1>1, <1>2, DropTyped
<1> QED
  BY <1>2, <1>3, DropKeeps

\* A thread panics, and drops what it holds.
LEMMA PanicKeeps ==
  ASSUME SInv, NEW k \in Threads, NEW S \in SUBSET Ends, \A e \in S : stream[e] # "gone", Panic(k, S),
         UNCHANGED <<worker, tcp, ready, userVars, sent, events>>
  PROVE  SInv'
<1>1. TypeOK /\ Sending /\ Drop(S, polls) /\ act' = [act EXCEPT ![k].op = "panicked"]
  BY DEF SInv, Panic
<1>2. act' \in [Threads -> Activity] /\ Sending'
  <2> DEFINE a == [act[k] EXCEPT !.op = "panicked"]
  <2>1. act \in [Threads -> Activity]
    BY <1>1 DEF TypeOK
  <2>2. a \in Activity /\ a.op = "panicked" /\ act' = [act EXCEPT ![k] = a]
    BY <1>1, <2>1 DEF Activity
  <2> HIDE DEF a
  <2>3. act' \in [Threads -> Activity]
    BY <2>1, <2>2
  <2>4. ASSUME NEW t \in Threads, act'[t].op = "send" PROVE act'[t].n \in Messages
    <3>1. act'[t] = act[t]
      BY <2>1, <2>2, <2>4
    <3> QED
      BY <1>1, <2>4, <3>1 DEF Sending
  <2> QED
    BY <2>3, <2>4 DEF Sending
<1> QED
  BY <1>1, <1>2, LostKeeps

\* A send meets the acceptor, a host is no server name, or an address is no URI.
LEMMA PanicsKeep ==
  ASSUME SInv, ConnectBadAddress \/ RegisterClientBadName \/ \E e \in Ends : SendAcceptor(e)
  PROVE  SInv'
<1>1. TypeOK /\ "client" \in Ends /\ "server" \in Ends /\ Master \in Threads
      /\ \A e \in Ends : worker[e] \in Threads
  BY DEF SInv, TypeOK, Ends, Threads
<1>2. CASE ConnectBadAddress
  <2> DEFINE S == IF tcp = "up" THEN {"server"} ELSE {}
  <2>1. /\ S \in SUBSET Ends /\ (\A e \in S : stream[e] # "gone") /\ Panic(Master, S)
        /\ UNCHANGED <<worker, tcp, ready, userVars, sent, events>>
    BY <1>1, <1>2 DEF ConnectBadAddress
  <2> HIDE DEF S
  <2> QED
    BY <1>1, <2>1, PanicKeeps
<1>3. ASSUME NEW e \in Ends, Panic(worker[e], HeldBy(worker[e])),
             UNCHANGED <<worker, tcp, ready, userVars, sent, events>>
      PROVE  SInv'
  <2> DEFINE S == HeldBy(worker[e])
  <2>1. S \in SUBSET Ends /\ (\A x \in S : stream[x] # "gone") /\ Panic(worker[e], S)
    BY <1>3 DEF HeldBy
  <2> HIDE DEF S
  <2> QED
    BY <1>1, <1>3, <2>1, PanicKeeps
<1>4. CASE RegisterClientBadName
  BY <1>1, <1>3, <1>4 DEF RegisterClientBadName
<1>5. CASE \E e \in Ends : SendAcceptor(e)
  BY <1>3, <1>5 DEF SendAcceptor
<1> QED
  BY <1>2, <1>4, <1>5

\* The listener accepts for a worker that has panicked.
LEMMA AcceptLostKeeps ==
  ASSUME SInv, Accept, act[worker["server"]].op = "panicked"
  PROVE  SInv'
<1> DEFINE S == {"server"}
<1>1. /\ S \in SUBSET Ends /\ (\A e \in S : stream[e] # "gone") /\ Drop(S, polls)
      /\ act' = act /\ UNCHANGED <<worker, tcp, ready, userVars, sent, events>>
  BY DEF Accept, Ends
<1> HIDE DEF S
<1>2. act' \in [Threads -> Activity] /\ Sending'
  BY <1>1 DEF SInv, TypeOK, Sending
<1> QED
  BY <1>1, <1>2, LostKeeps

\* The users, TCP and the poll.
LEMMA AroundKeeps ==
  ASSUME SInv, TcpOutcome \/ \E e \in Ends : UserSend(e) \/ UserClose(e) \/ LoseEdge(e)
  PROVE  SInv'
<1>1. TypeOK /\ HelloFirst /\ Sending
  BY DEF SInv
<1>2. /\ UNCHANGED <<worker, stream, hs, out, plain, net, shut, ready, act, sent, events>>
      /\ tcp' \in {"connecting", "up", "refused"} /\ polls' \in [Ends -> SUBSET {"read", "write"}]
      /\ cmds' \in [Ends -> Seq(0 .. MaxSends)] /\ posted' \in [Ends -> 0 .. MaxSends]
  <2>1. /\ tcp \in {"connecting", "up", "refused"} /\ polls \in [Ends -> SUBSET {"read", "write"}]
        /\ cmds \in [Ends -> Seq(0 .. MaxSends)] /\ posted \in [Ends -> 0 .. MaxSends]
    BY <1>1 DEF TypeOK
  <2>2. CASE TcpOutcome
    BY <2>1, <2>2 DEF TcpOutcome, tlsVars, userVars
  <2>3. ASSUME NEW e \in Ends, UserSend(e) \/ UserClose(e) \/ LoseEdge(e)
        PROVE  /\ UNCHANGED <<worker, stream, hs, out, plain, net, shut, ready, act, sent, events>>
               /\ tcp' \in {"connecting", "up", "refused"} /\ polls' \in [Ends -> SUBSET {"read", "write"}]
               /\ cmds' \in [Ends -> Seq(0 .. MaxSends)] /\ posted' \in [Ends -> 0 .. MaxSends]
    <3>1. CASE UserSend(e)
      <4>1. posted[e] + 1 \in 0 .. MaxSends
        BY <2>1, <3>1, BoundsAssumption DEF UserSend
      <4>2. Append(cmds[e], posted[e] + 1) \in Seq(0 .. MaxSends)
        BY <2>1, <4>1, AppendProperties
      <4> QED
        BY <2>1, <3>1, <4>1, <4>2 DEF UserSend, tlsVars
    <3>2. CASE UserClose(e)
      <4>1. CloseCmd \in 0 .. MaxSends
        BY BoundsAssumption DEF CloseCmd
      <4>2. Append(cmds[e], CloseCmd) \in Seq(0 .. MaxSends)
        BY <2>1, <4>1, AppendProperties
      <4> QED
        BY <2>1, <3>2, <4>2 DEF UserClose, tlsVars
    <3>3. CASE LoseEdge(e)
      BY <2>1, <3>3 DEF LoseEdge, tlsVars, userVars
    <3> QED
      BY <2>3, <3>1, <3>2, <3>3
  <2> QED
    BY <2>2, <2>3
<1>3. TypeOK'
  BY <1>1, <1>2 DEF TypeOK
<1>4. Sending' /\ stream'["client"] # "acceptor"
  BY <1>1, <1>2 DEF Sending, HelloFirst
<1> QED
  BY <1>2, <1>3, <1>4, StillKeeps

-----------------------------------------------------------------------------
(* What a send that has returned Sent promises.                            *)

\* Nothing has happened yet.
LEMMA SInvInit == Init => SInv
<1> SUFFICES ASSUME Init PROVE SInv
  OBVIOUS
<1>1. /\ <<>> \in Seq(Record) /\ <<>> \in Seq(Messages) /\ <<>> \in Seq(Event)
      /\ <<>> \in Seq(0 .. MaxSends) /\ Len(<<>>) = 0 /\ <<>> \o <<>> = <<>>
  <2>1. <<>> \in Seq(Record) /\ Len(<<>>) = 0
    BY EmptySeq
  <2> QED
    BY <2>1, EmptySeq, ConcatEmptySeq
<1>2. Idle \in Activity /\ Idle.op # "send"
  BY BoundsAssumption DEF Idle, Activity, Ends
<1>3. TypeOK
  BY <1>1, <1>2, BoundsAssumption DEF Init, TypeOK
<1>4. Sending
  BY <1>2 DEF Init, Sending
<1>5. ASSUME NEW e \in Ends
      PROVE  Line(e) = <<>> /\ There(e) = <<>> /\ Way(e) = <<>> /\ sent[e] = <<>> /\ ~shut[e]
  <2>1. /\ net[e] = <<>> /\ out[e] = <<>> /\ plain[Peer(e)] = <<>> /\ events[Peer(e)] = <<>>
        /\ sent[e] = <<>> /\ ~shut[e]
    BY PeerEnds DEF Init
  <2> QED
    BY <1>1, <2>1, MessagesEmpty, DataEmpty DEF Line, There, Way, Received
<1>6. HelloFirst
  <2>1. "client" \in Ends /\ "server" \in Ends /\ Line("client") = <<>>
    BY <1>5 DEF Ends
  <2> QED
    BY <2>1 DEF Init, HelloFirst
<1>7. ASSUME NEW e \in Ends PROVE Kept(e) /\ Whole(e)
  <2>1. IsPrefix(<<>>, <<>>)
    <3>1. IsPrefix(<<>>, <<>> \o <<>>)
      BY <1>1, PrefixOfConcat
    <3> QED
      BY <1>1, <3>1
  <2>2. Whole(e)
    BY <1>1, <1>5, <2>1 DEF Whole
  <2>3. Kept(e)
    BY <1>5 DEF Init, Kept
  <2> QED
    BY <2>2, <2>3
<1> QED
  BY <1>3, <1>4, <1>6, <1>7 DEF SInv

\* Every step keeps what is owed.
LEMMA SInvStep == SInv /\ [Next]_vars => SInv'
<1> SUFFICES ASSUME SInv, [Next]_vars PROVE SInv'
  OBVIOUS
<1>1. CASE Connect \/ Accept \/ RegisterServer
  BY <1>1, BeginKeeps, AcceptLostKeeps
<1>2. CASE RegisterClient
  BY <1>2, HelloKeeps
<1>3. ASSUME NEW e \in Ends, Serve(e) PROVE SInv'
  <2>1. CASE ProcessRead(e) \/ ProcessWrite(e)
    BY <2>1, ProcessKeeps
  <2>2. CASE ReceiveAcceptor(e)
    BY <2>2, AcceptorKeeps
  <2>3. CASE ReceiveTls(e)
    BY <2>3, ReceiveKeeps
  <2>4. CASE DoCommand(e)
    BY <2>4, CommandKeeps
  <2>5. CASE SendTls(e)
    BY <2>5, SendKeeps
  <2>6. CASE SendAcceptor(e)
    BY <2>6, PanicsKeep
  <2> QED
    BY <1>3, <2>1, <2>2, <2>3, <2>4, <2>5, <2>6 DEF Serve
<1>4. CASE TcpOutcome \/ \E e \in Ends : UserSend(e) \/ UserClose(e) \/ LoseEdge(e)
  BY <1>4, AroundKeeps
<1>5. CASE UNCHANGED vars
  <2>1. /\ UNCHANGED <<worker, tcp, stream, hs, out, plain, net, shut, polls, ready, act, cmds, posted>>
        /\ UNCHANGED <<sent, events>>
    BY <1>5 DEF vars, tlsVars, userVars
  <2>2. TypeOK' /\ Sending' /\ stream'["client"] # "acceptor"
    BY <2>1 DEF SInv, TypeOK, Sending, HelloFirst
  <2> QED
    BY <2>1, <2>2, StillKeeps
<1>6. CASE ConnectBadAddress \/ RegisterClientBadName
  BY <1>6, PanicsKeep
<1> QED
  BY <1>1, <1>2, <1>3, <1>4, <1>5, <1>6 DEF Next, Thread

\* Every value of the variables of the connection is one the code can hold: no end
\* has more in its socket than fits, and no event or command carries what is none.
THEOREM TypeCorrect == Spec => []TypeOK
<1>1. SInv => TypeOK
  BY DEF SInv
<1> QED
  BY <1>1, SInvInit, SInvStep, PTL DEF Spec

\* Where the messages are whose send returned Sent, at every end: what its peer has
\* been handed or has in its rustls is a prefix of them, and while both ends are up
\* the rest is in the socket or in the rustls of the sender, in order and once.
THEOREM SentStaysSomewhere == Spec => []SentIsSomewhere
<1>1. SInv => SentIsSomewhere
  <2> SUFFICES ASSUME SInv, NEW e \in Ends
               PROVE  /\ IsPrefix(There(e), sent[e])
                      /\ Registered(e) /\ Registered(Peer(e)) => There(e) \o Way(e) = sent[e]
    BY DEF SentIsSomewhere, There, Way, Line
  <2>1. Whole(e) /\ Kept(e) /\ Kept(Peer(e))
    BY PeerEnds DEF SInv
  <2>2. ASSUME Registered(e), Registered(Peer(e)) PROVE ~shut[e] /\ ~shut[Peer(e)]
    BY <2>1, <2>2 DEF Kept, Registered
  <2> QED
    BY <2>1, <2>2 DEF Whole
<1> QED
  BY <1>1, SInvInit, SInvStep, PTL DEF Spec
=============================================================================
