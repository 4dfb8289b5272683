------------------------- MODULE CommandQueueProofs -------------------------
(***************************************************************************)
(* Theorems about CommandQueue for every set of posters, every limit       *)
(* MaxCommands and every number of posts.                                  *)
(***************************************************************************)
EXTENDS CommandQueue, SequenceTheorems, TLAPS

-----------------------------------------------------------------------------
(* Sequences: what a receive and a send do to "handled, then queued".      *)

\* Moving the head of the second sequence to the end of the first leaves
\* their concatenation as it is.
LEMMA MoveHead ==
  ASSUME NEW S, NEW s \in Seq(S), NEW q \in Seq(S), q # <<>>
  PROVE  Append(s, Head(q)) \o Tail(q) = s \o q
<1>1. /\ Head(q) \in S /\ Tail(q) \in Seq(S) /\ Len(Tail(q)) = Len(q) - 1
      /\ \A i \in 1 .. Len(Tail(q)) : Tail(q)[i] = q[i + 1]
  BY HeadTailProperties
<1>2. Len(q) \in Nat \ {0} /\ Len(s) \in Nat /\ Head(q) = q[1]
  BY EmptySeq, LenProperties
<1> DEFINE a == Append(s, Head(q))
<1>3. a \in Seq(S) /\ Len(a) = Len(s) + 1
  BY <1>1, AppendProperties
<1>4. \A i \in 1 .. Len(s) : a[i] = s[i]
  BY <1>1, AppendProperties
<1>5. a[Len(s) + 1] = Head(q)
  BY <1>1, AppendProperties
<1> HIDE DEF a
<1>6. /\ a \o Tail(q) \in Seq(S) /\ Len(a \o Tail(q)) = Len(a) + Len(Tail(q))
      /\ \A i \in 1 .. Len(a) + Len(Tail(q)) : (a \o Tail(q))[i] =
              IF i <= Len(a) THEN a[i] ELSE Tail(q)[i - Len(a)]
  BY <1>1, <1>3, ConcatProperties
<1>7. /\ s \o q \in Seq(S) /\ Len(s \o q) = Len(s) + Len(q)
      /\ \A i \in 1 .. Len(s) + Len(q) : (s \o q)[i] =
              IF i <= Len(s) THEN s[i] ELSE q[i - Len(s)]
  BY ConcatProperties
<1>8. Len(a \o Tail(q)) = Len(s \o q)
  BY <1>1, <1>2, <1>3, <1>6, <1>7
<1>9. ASSUME NEW i \in 1 .. Len(a \o Tail(q))
      PROVE  (a \o Tail(q))[i] = (s \o q)[i]
  <2> i \in Int /\ i \in 1 .. Len(a) + Len(Tail(q)) /\ i \in 1 .. Len(s) + Len(q)
    BY <1>1, <1>2, <1>3, <1>6
  <2>1. CASE i <= Len(s)
    BY <2>1, <1>2, <1>3, <1>4, <1>6, <1>7
  <2>2. CASE i = Len(s) + 1
    BY <2>2, <1>2, <1>3, <1>5, <1>6, <1>7
  <2>3. CASE i > Len(s) + 1
    <3>1. /\ i - Len(a) \in 1 .. Len(Tail(q))
          /\ (i - Len(a)) + 1 = i - Len(s)
      BY <2>3, <1>1, <1>2, <1>3
    <3>2. Tail(q)[i - Len(a)] = q[i - Len(s)]
      BY <3>1, <1>1
    <3> QED
      BY <2>3, <3>2, <1>2, <1>3, <1>6, <1>7
  <2> QED
    BY <2>1, <2>2, <2>3, <1>2
<1> QED
  BY <1>6, <1>7, <1>8, <1>9, SeqEqual DEF a

\* Appending to the second sequence appends to the concatenation.
LEMMA AppendRight ==
  ASSUME NEW S, NEW s \in Seq(S), NEW q \in Seq(S), NEW e \in S
  PROVE  s \o Append(q, e) = Append(s \o q, e)
<1>1. Append(q, e) = q \o <<e>>
  BY AppendIsConcat
<1>2. s \o q \in Seq(S)
  BY ConcatProperties
<1>3. Append(s \o q, e) = (s \o q) \o <<e>>
  BY <1>2, AppendIsConcat
<1>4. <<e>> \in Seq(S)
  OBVIOUS
<1> QED
  BY <1>1, <1>3, <1>4, ConcatAssociative

-----------------------------------------------------------------------------
(* Types.                                                                  *)

\* The type invariant: what the channel, the flags and the counter may hold.
THEOREM TypeCorrect == Spec => []TypeOK
<1> USE MaxCommandsAssumption, MaxPostsAssumption
<1>1. Init => TypeOK
  <2> SUFFICES ASSUME Init PROVE TypeOK
    OBVIOUS
  <2>1. queue \in Seq(Command) /\ processed \in Seq(Command)
    BY DEF Init
  <2>2. posted \in [Posters -> 0 .. MaxPosts] /\ count \in 0 .. MaxCommands
    BY DEF Init
  <2> QED
    BY <2>1, <2>2, Zenon DEF Init, TypeOK
<1>2. TypeOK /\ [Next]_vars => TypeOK'
  <2> SUFFICES ASSUME TypeOK, [Next]_vars PROVE TypeOK'
    OBVIOUS
  <2>1. ASSUME NEW p \in Posters, PostSend(p) PROVE TypeOK'
    <3>1. posted[p] \in 0 .. MaxPosts
      BY DEF TypeOK
    <3>2. [from |-> p, n |-> posted[p] + 1] \in Command
      BY <3>1 DEF Command
    <3>3. queue' \in Seq(Command)
      BY <2>1, <3>2 DEF PostSend, TypeOK
    <3>4. posted' \in [Posters -> 0 .. MaxPosts]
      BY <2>1, <3>1 DEF PostSend, TypeOK
    <3> QED
      BY <2>1, <3>3, <3>4 DEF PostSend, TypeOK
  <2>2. ASSUME NEW p \in Posters, PostWake(p) PROVE TypeOK'
    BY <2>2 DEF PostWake, TypeOK
  <2>3. CASE PollWaker
    <3>1. count' \in 0 .. MaxCommands
      BY <2>3 DEF PollWaker
    <3> QED
      BY <2>3, <3>1, Zenon DEF PollWaker, TypeOK
  <2>4. CASE Receive
    <3>1. queue' \in Seq(Command) /\ Head(queue) \in Command
      BY <2>4 DEF Receive, TypeOK
    <3>2. count' \in 0 .. MaxCommands
      BY <2>4 DEF Receive, TypeOK
    <3> QED
      BY <2>4, <3>1, <3>2 DEF Receive, TypeOK
  <2>5. CASE DrainEnd
    BY <2>5 DEF DrainEnd, TypeOK
  <2>6. CASE UNCHANGED vars
    BY <2>6 DEF vars, TypeOK
  <2> QED
    BY <2>1, <2>2, <2>3, <2>4, <2>5, <2>6 DEF Next, Thread
<1> QED
  BY <1>1, <1>2, PTL DEF Spec

\* No lost wake-up, whatever the interleaving of send, wake, poll and drain:
\* the thread sleeps on a non-empty channel only after a drain that was cut
\* short at MAX_COMMANDS.
THEOREM WakeupNeverLost == Spec => []NoLostWakeup
<1>1. Init => NoLostWakeup
  BY DEF Init, NoLostWakeup, Stalled
<1>2. TypeOK /\ NoLostWakeup /\ [Next]_vars => NoLostWakeup'
  <2> SUFFICES ASSUME TypeOK, NoLostWakeup, [Next]_vars PROVE NoLostWakeup'
    OBVIOUS
  <2>1. ASSUME NEW p \in Posters, PostSend(p) PROVE NoLostWakeup'
    \* p itself still has to wake
    BY <2>1 DEF PostSend, NoLostWakeup, Stalled
  <2>2. ASSUME NEW p \in Posters, PostWake(p) PROVE NoLostWakeup'
    BY <2>2 DEF PostWake, NoLostWakeup, Stalled
  <2>3. CASE PollWaker \/ Receive
    \* the thread is draining
    BY <2>3 DEF PollWaker, Receive, NoLostWakeup, Stalled
  <2>4. CASE DrainEnd
    \* either the channel was seen empty or the limit was reached
    BY <2>4, MaxCommandsAssumption DEF DrainEnd, NoLostWakeup, Stalled, TypeOK
  <2>5. CASE UNCHANGED vars
    BY <2>5 DEF vars, NoLostWakeup, Stalled
  <2> QED
    BY <2>1, <2>2, <2>3, <2>4, <2>5 DEF Next, Thread
<1> QED
  BY <1>1, <1>2, TypeCorrect, PTL DEF Spec

-----------------------------------------------------------------------------
(* Order, and the abstract channel.                                        *)

\* A step either leaves the history of commands as it is, or appends the
\* next command of the poster that sends.
LEMMA HistoryStep ==
  ASSUME TypeOK, [Next]_vars
  PROVE  /\ History \in Seq(Command)
         /\ \/ History' = History /\ posted' = posted
            \/ \E p \in Posters :
                  LET c == [from |-> p, n |-> posted[p] + 1]
                  IN  /\ c \in Command
                      /\ History' = Append(History, c)
                      /\ posted' = [posted EXCEPT ![p] = @ + 1]
<1>1. History \in Seq(Command)
  BY ConcatProperties DEF TypeOK, History
<1>2. ASSUME NEW p \in Posters, PostSend(p)
      PROVE  LET c == [from |-> p, n |-> posted[p] + 1]
             IN  /\ c \in Command
                 /\ History' = Append(History, c)
                 /\ posted' = [posted EXCEPT ![p] = @ + 1]
  <2> DEFINE c == [from |-> p, n |-> posted[p] + 1]
  <2>1. posted[p] \in Nat
    BY MaxPostsAssumption DEF TypeOK
  <2>2. c \in Command
    BY <2>1 DEF Command
  <2>3. queue' = Append(queue, c) /\ processed' = processed
    BY <1>2 DEF PostSend
  <2> HIDE DEF c
  <2>4. processed \o Append(queue, c) = Append(processed \o queue, c)
    BY <2>2, AppendRight DEF TypeOK
  <2>5. History' = Append(History, c)
    BY <2>3, <2>4 DEF History
  <2> QED
    BY <1>2, <2>2, <2>5 DEF PostSend, c
<1>3. CASE Receive
  <2>1. Append(processed, Head(queue)) \o Tail(queue) = processed \o queue
    BY <1>3, MoveHead DEF Receive, TypeOK
  <2> QED
    BY <1>1, <1>3, <2>1 DEF Receive, History
<1>4. ASSUME NEW p \in Posters, PostWake(p) PROVE History' = History /\ posted' = posted
  BY <1>4 DEF PostWake, History
<1>5. CASE PollWaker \/ DrainEnd \/ UNCHANGED vars
  BY <1>1, <1>5 DEF PollWaker, DrainEnd, vars, History
<1> QED
  BY <1>1, <1>2, <1>3, <1>4, <1>5 DEF Next, Thread

\* Commands are neither lost nor repeated nor reordered, for any number of
\* posters and any limit: the two-step post, the cut-short drain and the
\* coalesced wakes never disturb the order a poster posted in.
THEOREM OrderKept == Spec => []InOrderExactlyOnce
<1>1. Init => InOrderExactlyOnce
  <2> SUFFICES ASSUME Init PROVE InOrderExactlyOnce
    OBVIOUS
  <2>1. History = <<>>
    BY DEF Init, History
  <2> QED
    BY <2>1 DEF Init, InOrderExactlyOnce
<1>2. TypeOK /\ InOrderExactlyOnce /\ [Next]_vars => InOrderExactlyOnce'
  <2> SUFFICES ASSUME TypeOK, InOrderExactlyOnce, [Next]_vars
               PROVE  InOrderExactlyOnce'
    OBVIOUS
  <2>1. History \in Seq(Command)
    BY HistoryStep
  <2>2. CASE History' = History /\ posted' = posted
    BY <2>2 DEF InOrderExactlyOnce
  <2>3. ASSUME NEW p \in Posters,
               [from |-> p, n |-> posted[p] + 1] \in Command,
               History' = Append(History, [from |-> p, n |-> posted[p] + 1]),
               posted' = [posted EXCEPT ![p] = @ + 1]
        PROVE  InOrderExactlyOnce'
    <3> DEFINE c == [from |-> p, n |-> posted[p] + 1]
               L == Len(History)
    <3>1. /\ L \in Nat /\ DOMAIN History = 1 .. L
          /\ \A i \in 1 .. L : History[i] \in Command
      BY <2>1, LenProperties, ElementOfSeq
    <3>2. /\ DOMAIN History' = 1 .. L + 1
          /\ \A i \in 1 .. L : History'[i] = History[i]
          /\ History'[L + 1] = c
      BY <2>1, <2>3, AppendProperties, LenProperties
    <3>3. /\ \A q \in Posters : posted[q] \in Nat
          /\ posted'[p] = posted[p] + 1
          /\ \A q \in Posters \ {p} : posted'[q] = posted[q]
      BY <2>3, MaxPostsAssumption DEF TypeOK
    <3>4. \A q \in Posters : \A n \in 1 .. posted'[q] :
            \E i \in DOMAIN History' : History'[i] = [from |-> q, n |-> n]
      <4> TAKE q \in Posters
      <4> TAKE n \in 1 .. posted'[q]
      <4>1. CASE q = p /\ n = posted[p] + 1
        <5>1. L + 1 \in DOMAIN History'
          BY <3>1, <3>2
        <5> QED
          BY <4>1, <5>1, <3>2
      <4>2. CASE n \in 1 .. posted[q]
        <5>1. PICK i \in DOMAIN History : History[i] = [from |-> q, n |-> n]
          BY <4>2 DEF InOrderExactlyOnce
        <5> QED
          BY <5>1, <3>1, <3>2
      <4> QED
        BY <4>1, <4>2, <3>3
    <3>5. \A i \in DOMAIN History' : History'[i].n \in 1 .. posted'[History'[i].from]
      <4> TAKE i \in DOMAIN History'
      <4>1. CASE i \in 1 .. L
        <5>1. /\ History[i].n \in 1 .. posted[History[i].from]
              /\ History[i].from \in Posters
          BY <4>1, <3>1 DEF InOrderExactlyOnce, Command
        <5>2. History'[i] = History[i]
          BY <4>1, <3>2
        <5>3. posted[History[i].from] <= posted'[History[i].from]
          BY <5>1, <3>3
        <5> QED
          BY <5>1, <5>2, <5>3, <3>3
      <4>2. CASE i = L + 1
        BY <4>2, <3>2, <3>3
      <4> QED
        BY <4>1, <4>2, <3>1, <3>2
    <3>6. \A i, j \in DOMAIN History' :
             i < j /\ History'[i].from = History'[j].from
                 => History'[i].n < History'[j].n
      <4> TAKE i, j \in DOMAIN History'
      <4> HAVE i < j /\ History'[i].from = History'[j].from
      <4>1. CASE j \in 1 .. L
        BY <4>1, <3>1, <3>2 DEF InOrderExactlyOnce
      <4>2. CASE j = L + 1
        <5>1. i \in 1 .. L
          BY <4>2, <3>1, <3>2
        <5>2. /\ History[i].from = p
              /\ History[i].n \in 1 .. posted[History[i].from]
          BY <4>2, <5>1, <3>1, <3>2 DEF InOrderExactlyOnce
        <5> QED
          BY <4>2, <5>1, <5>2, <3>2, <3>3
      <4> QED
        BY <4>1, <4>2, <3>1, <3>2
    <3> QED
      BY <3>4, <3>5, <3>6 DEF InOrderExactlyOnce
  <2> QED
    BY <2>2, <2>3, HistoryStep
<1> QED
  BY <1>1, <1>2, TypeCorrect, PTL DEF Spec

\* The command path implements the abstract channel: every step of a poster
\* or of the thread is a Send, a Handle or a stutter of CommandChannel.
THEOREM Refinement == Spec => ImplementsChannel
<1>1. Init => Channel!Init
  <2> SUFFICES ASSUME Init PROVE Channel!Init
    OBVIOUS
  <2>1. History = <<>> /\ Len(processed) = 0
    BY DEF Init, History
  <2> QED
    BY <2>1 DEF Channel!Init
<1>2. TypeOK /\ [Next]_vars => [Channel!Next]_Channel!vars
  <2> SUFFICES ASSUME TypeOK, [Next]_vars
               PROVE  Channel!Next \/ UNCHANGED Channel!vars
    BY DEF Channel!vars
  <2>1. History \in Seq(Command)
    BY HistoryStep
  <2>2. ASSUME NEW p \in Posters, PostSend(p) PROVE Channel!Send
    <3> DEFINE c == [from |-> p, n |-> posted[p] + 1]
    <3>1. posted[p] \in Nat
      BY MaxPostsAssumption DEF TypeOK
    <3>2. c \in Command
      BY <3>1 DEF Command
    <3>3. queue' = Append(queue, c) /\ processed' = processed
      BY <2>2 DEF PostSend
    <3> HIDE DEF c
    <3>4. History' = Append(History, c)
      BY <3>2, <3>3, AppendRight DEF TypeOK, History
    <3>5. /\ History' # <<>> /\ Len(History') = Len(History) + 1
          /\ History' \in Seq(Command) /\ Len(History) \in Nat
          /\ \A i \in 1 .. Len(History) : History'[i] = History[i]
      BY <2>1, <3>2, <3>4, AppendProperties, LenProperties
    <3>6. SubSeq(History', 1, Len(History') - 1) = History
      <4>1. /\ SubSeq(History', 1, Len(History)) \in Seq(Command)
            /\ Len(SubSeq(History', 1, Len(History))) = Len(History)
            /\ \A i \in 1 .. Len(History) :
                  SubSeq(History', 1, Len(History))[i] = History'[i]
        BY <2>1, <3>5, ElementOfSeq, SubSeqProperties
      <4>2. SubSeq(History', 1, Len(History)) = History
        BY <4>1, <2>1, <3>5, SeqEqual
      <4> QED
        BY <4>2, <3>5
    <3> QED
      BY <3>3, <3>5, <3>6 DEF Channel!Send
  <2>3. CASE Receive
    <3>1. History' = History
      <4>1. Append(processed, Head(queue)) \o Tail(queue) = processed \o queue
        BY <2>3, MoveHead DEF Receive, TypeOK
      <4> QED
        BY <2>3, <4>1 DEF Receive, History
    <3>2. Len(processed') = Len(processed) + 1
      BY <2>3, AppendProperties, HeadTailProperties DEF Receive, TypeOK
    <3>3. Len(processed) < Len(History)
      BY <2>3, ConcatProperties, EmptySeq, LenProperties DEF Receive, TypeOK, History
    <3> QED
      BY <3>1, <3>2, <3>3 DEF Channel!Next, Channel!Handle
  <2>4. ASSUME NEW p \in Posters, PostWake(p) PROVE UNCHANGED Channel!vars
    BY <2>4 DEF PostWake, History, Channel!vars
  <2>5. CASE PollWaker \/ DrainEnd \/ UNCHANGED vars
    BY <2>5 DEF PollWaker, DrainEnd, vars, History, Channel!vars
  <2> QED
    BY <2>2, <2>3, <2>4, <2>5 DEF Next, Thread, Channel!Next
<1> QED
  BY <1>1, <1>2, TypeCorrect, PTL DEF Spec, ImplementsChannel, Channel!Spec
=============================================================================
