------------------------- MODULE SyncConnectProofs -------------------------
(***************************************************************************)
(* Proofs about SyncConnect and the NodeLifecycle beneath it, for every    *)
(* number of threads, callers and connectors.                              *)
(*                                                                         *)
(* Lifecycle: Gather looks at a counter only, so what it knows of the      *)
(* threads rests on the counter being the number of those that started.    *)
(* Connect: a promise is kept once and by one thread because its command   *)
(* is in flight at most once, and an answer that is out of date is still   *)
(* true of the past because a resource that is ready or gone has told so.  *)
(***************************************************************************)
EXTENDS SyncConnect, FiniteSets, FiniteSetTheorems, SequenceTheorems, TLAPS

\* What a channel carries.
Command == [op : {"Stop", "Call", "Connect", "Register", "IsReady", "Close"},
            who : Callers \cup Connectors \cup {Nobody}]
NetEvents == {"Connected", "ConnectFail", "Disconnected"}

SyncTypeOK ==
    /\ running \in BOOLEAN
    /\ main \in {"launch", "gather", "task", "wait", "waited", "dropped"}
    /\ next \in 1 .. IF main = "launch" THEN ThreadNum ELSE ThreadNum + 1
    /\ thrCounter \in Nat /\ posts \in Nat
    /\ thr \in [Threads -> {"none", "starting", "head", "poll", "exited"}]
    /\ inbox \in [Threads -> Seq(Command)]
    /\ call \in [Callers -> {"idle", "blocked", "returned"}]
    /\ conn \in [Connectors -> {"idle", "connecting", "polling", "asking"} \cup Returned]
    /\ tries \in [Connectors -> 0 .. MaxTries]
    /\ answer \in [Connectors -> {"none", "ready", "notReady", "gone"}]
    /\ home \in [Connectors -> Threads]
    /\ res \in [Connectors -> {"none", "pending", "ready", "gone"}]
    /\ sock \in [Connectors -> {"none", "connecting", "failed", "up", "refused", "lost"}]
    /\ edge \in [Connectors -> BOOLEAN]
    /\ told \in [Connectors -> Seq(NetEvents)]

-----------------------------------------------------------------------------
(* The inductive invariant of the lifecycle.                               *)

Started == {t \in Threads : thr[t] \in {"head", "poll", "exited"}}
HasTask == main \in {"task", "wait", "waited", "dropped"}

\* Threads are launched in order, each once.
LaunchOrder ==
    \A t \in Threads : thr[t] = "none" <=> main = "launch" /\ t >= next

\* thr_counter is the number of threads that have started.
Counted == thrCounter = Cardinality(Started)

\* Threads are joined in order; wait returns behind the last one.
JoinOrder ==
    /\ main = "gather" => next = 1
    /\ HasTask => \A t \in Threads : t < next => thr[t] = "exited"
    /\ main = "waited" => next = ThreadNum + 1

LInv ==
    /\ LaunchOrder /\ Counted /\ JoinOrder
    /\ HasTask => Started = Threads
    /\ \A t \in Threads : thr[t] = "exited" => ~running

-----------------------------------------------------------------------------
(* The inductive invariant of connect_sync.                                *)

\* The commands in the channels q, and whether at most one of S is among them.
Queued(q) == {c \in Command : \E t \in Threads : \E i \in 1 .. Len(q[t]) : q[t][i] = c}
Single(q, C) ==
    \A t, u \in Threads : \A i \in 1 .. Len(q[t]), j \in 1 .. Len(q[u]) :
        q[t][i] \in C /\ q[u][j] \in C => t = u /\ i = j

Birth(k) == {Cmd("Connect", k), Cmd("Register", k)}
Question(k) == {Cmd("IsReady", k)}

\* The commands of k in flight: one that brings its resource about, while it waits for
\* it; one that asks for it, while it waits for the answer; and a close only of what the
\* user has heard of.
InFlight(q, k) ==
    /\ Single(q, Birth(k)) /\ Single(q, Question(k))
    /\ Birth(k) \cap Queued(q) # {} => conn[k] = "connecting"
    /\ Question(k) \cap Queued(q) # {} => conn[k] = "asking" /\ answer[k] = "none"
    /\ Cmd("Close", k) \in Queued(q) => told[k] # <<>>

\* The user of k's endpoint has been told what has become of its resource.
ToldOf(k) ==
    /\ conn[k] \in {"idle", "connecting"} <=> res[k] = "none"
    /\ res[k] \in {"none", "pending"} => told[k] = <<>>
    /\ res[k] = "ready" => told[k] # <<>> /\ Head(told[k]) = "Connected"
    /\ res[k] = "gone" => told[k] # <<>>

\* An answer is true, or was.
Answered(k) ==
    /\ answer[k] # "none" => conn[k] = "asking"
    /\ answer[k] = "ready" \/ conn[k] = "ok" => told[k] # <<>> /\ Head(told[k]) = "Connected"
    /\ answer[k] = "gone" \/ conn[k] = "refused" => res[k] = "gone"

CInv == \A k \in Connectors : InFlight(inbox, k) /\ ToldOf(k) /\ Answered(k)

SInv == SyncTypeOK /\ LInv /\ CInv

-----------------------------------------------------------------------------
(* Channels.                                                               *)

Posted(q, t, c) == [q EXCEPT ![t] = Append(@, c)]
Rest(q, t) == [q EXCEPT ![t] = Tail(@)]

\* Posting adds exactly the command posted, and what was single stays so unless the
\* command is a second one of its kind.
LEMMA PostQueued ==
  ASSUME NEW q \in [Threads -> Seq(Command)], NEW t \in Threads, NEW c \in Command
  PROVE  /\ Posted(q, t, c) \in [Threads -> Seq(Command)]
         /\ Queued(Posted(q, t, c)) = Queued(q) \cup {c}
         /\ \A C \in SUBSET Command :
                Single(q, C) /\ (c \in C => C \cap Queued(q) = {}) => Single(Posted(q, t, c), C)
<1> DEFINE p == Posted(q, t, c)
<1>1. /\ q[t] \in Seq(Command) /\ Len(q[t]) \in Nat
      /\ Append(q[t], c) \in Seq(Command)
      /\ Len(Append(q[t], c)) = Len(q[t]) + 1
      /\ \A i \in 1 .. Len(q[t]) : Append(q[t], c)[i] = q[t][i]
      /\ Append(q[t], c)[Len(q[t]) + 1] = c
  BY AppendProperties, LenProperties
<1>2. /\ p \in [Threads -> Seq(Command)]
      /\ p[t] = Append(q[t], c) /\ \A u \in Threads : u # t => p[u] = q[u]
  BY <1>1 DEF Posted
<1> HIDE DEF p
<1>3. ASSUME NEW u \in Threads, NEW i \in 1 .. Len(q[u])
      PROVE  i \in 1 .. Len(p[u]) /\ p[u][i] = q[u][i]
  <2>1. CASE u = t
    BY <1>1, <1>2, <2>1
  <2>2. CASE u # t
    BY <1>2, <2>2
  <2> QED
    BY <2>1, <2>2
<1>4. Len(q[t]) + 1 \in 1 .. Len(p[t]) /\ p[t][Len(q[t]) + 1] = c
  BY <1>1, <1>2
<1>5. \A u \in Threads : \A i \in 1 .. Len(p[u]) :
          \/ i \in 1 .. Len(q[u]) /\ p[u][i] = q[u][i]
          \/ u = t /\ i = Len(q[t]) + 1 /\ p[u][i] = c
  <2> SUFFICES ASSUME NEW u \in Threads, NEW i \in 1 .. Len(p[u])
               PROVE  \/ i \in 1 .. Len(q[u]) /\ p[u][i] = q[u][i]
                      \/ u = t /\ i = Len(q[t]) + 1 /\ p[u][i] = c
    OBVIOUS
  <2>1. CASE u = t
    <3>1. i \in 1 .. Len(q[t]) \/ i = Len(q[t]) + 1
      BY <1>1, <1>2, <2>1
    <3> QED
      BY <1>3, <1>4, <2>1, <3>1
  <2>2. CASE u # t
    BY <1>2, <2>2
  <2> QED
    BY <2>1, <2>2
<1>6. Queued(p) = Queued(q) \cup {c}
  <2>1. Queued(q) \subseteq Queued(p)
    BY <1>3 DEF Queued
  <2>2. c \in Queued(p)
    BY <1>4 DEF Queued
  <2>3. Queued(p) \subseteq Queued(q) \cup {c}
    BY <1>5 DEF Queued
  <2> QED
    BY <2>1, <2>2, <2>3
<1>7. ASSUME NEW C \in SUBSET Command, Single(q, C), c \in C => C \cap Queued(q) = {}
      PROVE  Single(p, C)
  <2> SUFFICES ASSUME NEW u \in Threads, NEW v \in Threads,
                      NEW i \in 1 .. Len(p[u]), NEW j \in 1 .. Len(p[v]),
                      p[u][i] \in C, p[v][j] \in C
               PROVE  u = v /\ i = j
    BY DEF Single
  <2>1. ASSUME NEW w \in Threads, NEW n \in 1 .. Len(q[w]), q[w][n] \in C PROVE c \notin C
    BY <1>7, <2>1 DEF Queued
  <2>2. CASE i \in 1 .. Len(q[u]) /\ p[u][i] = q[u][i]
    <3>1. j \in 1 .. Len(q[v]) /\ p[v][j] = q[v][j]
      BY <1>5, <2>1, <2>2
    <3> QED
      BY <1>7, <2>2, <3>1 DEF Single
  <2>3. CASE u = t /\ i = Len(q[t]) + 1 /\ p[u][i] = c
    BY <1>5, <2>1, <2>3
  <2> QED
    BY <1>5, <2>2, <2>3
<1> QED
  BY <1>2, <1>6, <1>7 DEF p

\* Taking removes the head of one channel and adds nothing; if the head was the only
\* command of its kind, none is left.
LEMMA TakeQueued ==
  ASSUME NEW q \in [Threads -> Seq(Command)], NEW t \in Threads, q[t] # <<>>
  PROVE  /\ Rest(q, t) \in [Threads -> Seq(Command)]
         /\ Head(q[t]) \in Queued(q)
         /\ Queued(Rest(q, t)) \subseteq Queued(q)
         /\ \A C \in SUBSET Command : Single(q, C) =>
                /\ Single(Rest(q, t), C)
                /\ Head(q[t]) \in C => C \cap Queued(Rest(q, t)) = {}
<1> DEFINE p == Rest(q, t)
           c == Head(q[t])
<1>1. /\ q[t] \in Seq(Command) /\ Len(q[t]) \in Nat \ {0}
      /\ c \in Command /\ c = q[t][1]
      /\ Tail(q[t]) \in Seq(Command)
      /\ Len(Tail(q[t])) = Len(q[t]) - 1
      /\ \A i \in 1 .. Len(Tail(q[t])) : Tail(q[t])[i] = q[t][i + 1]
  BY HeadTailProperties, LenProperties, EmptySeq
<1>2. /\ p \in [Threads -> Seq(Command)]
      /\ p[t] = Tail(q[t]) /\ \A u \in Threads : u # t => p[u] = q[u]
  BY <1>1 DEF Rest
<1> HIDE DEF p, c
<1>3. ASSUME NEW u \in Threads, NEW i \in 1 .. Len(p[u])
      PROVE  \E n \in 1 .. Len(q[u]) : /\ q[u][n] = p[u][i]
                                       /\ n = IF u = t THEN i + 1 ELSE i
  <2>1. CASE u = t
    <3>1. i + 1 \in 1 .. Len(q[u]) /\ q[u][i + 1] = p[u][i]
      BY <1>1, <1>2, <2>1
    <3> QED
      BY <2>1, <3>1
  <2>2. CASE u # t
    BY <1>2, <2>2
  <2> QED
    BY <2>1, <2>2
<1>4. c \in Queued(q)
  BY <1>1 DEF Queued
<1>5. Queued(p) \subseteq Queued(q)
  BY <1>3 DEF Queued
<1>6. ASSUME NEW C \in SUBSET Command, Single(q, C)
      PROVE  Single(p, C)
  <2> SUFFICES ASSUME NEW u \in Threads, NEW v \in Threads,
                      NEW i \in 1 .. Len(p[u]), NEW j \in 1 .. Len(p[v]),
                      p[u][i] \in C, p[v][j] \in C
               PROVE  u = v /\ i = j
    BY DEF Single
  <2>1. PICK n \in 1 .. Len(q[u]) : q[u][n] = p[u][i] /\ n = IF u = t THEN i + 1 ELSE i
    BY <1>3
  <2>2. PICK m \in 1 .. Len(q[v]) : q[v][m] = p[v][j] /\ m = IF v = t THEN j + 1 ELSE j
    BY <1>3
  <2>3. u = v /\ n = m
    BY <1>6, <2>1, <2>2 DEF Single
  <2> QED
    BY <2>1, <2>2, <2>3
<1>7. ASSUME NEW C \in SUBSET Command, Single(q, C), c \in C
      PROVE  C \cap Queued(p) = {}
  <2> SUFFICES ASSUME NEW d \in C, d \in Queued(p) PROVE FALSE
    OBVIOUS
  <2>1. PICK u \in Threads : \E i \in 1 .. Len(p[u]) : p[u][i] = d
    BY DEF Queued
  <2>2. PICK i \in 1 .. Len(p[u]) : p[u][i] = d
    BY <2>1
  <2>3. PICK n \in 1 .. Len(q[u]) : q[u][n] = d /\ n = IF u = t THEN i + 1 ELSE i
    BY <1>3, <2>2
  <2>4. 1 \in 1 .. Len(q[t]) /\ q[t][1] \in C
    BY <1>1, <1>7
  <2>5. u = t /\ n = 1
    BY <1>7, <2>3, <2>4 DEF Single
  <2> QED
    BY <2>2, <2>3, <2>5
<1> QED
  BY <1>2, <1>4, <1>5, <1>6, <1>7 DEF p, c

\* The last of its kind is taken.
LEMMA TakeLast ==
  ASSUME NEW q \in [Threads -> Seq(Command)], NEW t \in Threads, q[t] # <<>>,
         NEW C \in SUBSET Command, Single(q, C), Head(q[t]) \in C
  PROVE  C \cap Queued(Rest(q, t)) = {}
BY TakeQueued

-----------------------------------------------------------------------------
(* Types.                                                                  *)

\* Every command that is built is one a channel carries.
LEMMA CommandTyped ==
  /\ Cmd("Stop", Nobody) \in Command
  /\ \A c \in Callers : Cmd("Call", c) \in Command
  /\ \A k \in Connectors : \A op \in {"Connect", "Register", "IsReady", "Close"} :
         Cmd(op, k) \in Command
BY DEF Cmd, Command

\* The initial state has the types.
LEMMA TypesInit == SyncInit => SyncTypeOK
<1> SUFFICES ASSUME SyncInit PROVE SyncTypeOK
  OBVIOUS
<1>1. <<>> \in Seq(Command) /\ <<>> \in Seq(NetEvents)
  OBVIOUS
<1> QED
  BY <1>1, ThreadNumAssumption, SyncBounds
  DEF SyncInit, Init, SyncTypeOK, Threads, Master, Returned

\* A step of the lifecycle keeps the types.
LEMMA TypesNext == SyncTypeOK /\ Next /\ UNCHANGED connVars => SyncTypeOK'
<1> SUFFICES ASSUME SyncTypeOK, Next, UNCHANGED connVars PROVE SyncTypeOK'
  OBVIOUS
<1> USE DEF SyncTypeOK, connVars
<1>1. CASE Launch
  <2>1. next' \in 1 .. IF main' = "launch" THEN ThreadNum ELSE ThreadNum + 1
    BY <1>1, ThreadNumAssumption DEF Launch
  <2>2. thr' \in [Threads -> {"none", "starting", "head", "poll", "exited"}]
    BY <1>1 DEF Launch
  <2> QED
    BY <1>1, <2>1, <2>2 DEF Launch
<1>2. CASE Gather \/ Wait \/ DropTask \/ Stop
  BY <1>2 DEF Gather, Wait, DropTask, Stop
<1>3. CASE Join
  BY <1>3, ThreadNumAssumption DEF Join
<1>4. ASSUME NEW t \in Threads, Start(t) \/ LoopHead(t) \/ PollEnd(t) PROVE SyncTypeOK'
  <2>1. thr' \in [Threads -> {"none", "starting", "head", "poll", "exited"}]
    <3>1. CASE Start(t)
      BY <3>1 DEF Start
    <3>2. CASE LoopHead(t)
      BY <3>2 DEF LoopHead
    <3>3. CASE PollEnd(t)
      BY <3>3 DEF PollEnd
    <3> QED
      BY <1>4, <3>1, <3>2, <3>3
  <2> QED
    BY <1>4, <2>1 DEF Start, LoopHead, PollEnd
<1>5. ASSUME NEW t \in Threads, Handle(t) PROVE SyncTypeOK'
  <2>1. inbox' \in [Threads -> Seq(Command)]
    BY <1>5, TakeQueued DEF Handle, Rest
  <2> QED
    BY <1>5, <2>1 DEF Handle, Callback
<1>6. ASSUME NEW t \in Threads, PostStop(t) PROVE SyncTypeOK'
  <2>1. inbox' \in [Threads -> Seq(Command)]
    BY <1>6, PostQueued, CommandTyped DEF PostStop, Posted
  <2> QED
    BY <1>6, <2>1 DEF PostStop
<1>7. ASSUME NEW t \in Threads, NEW c \in Callers, CallSync(c, t) PROVE SyncTypeOK'
  <2>1. inbox' \in [Threads -> Seq(Command)]
    BY <1>7, PostQueued, CommandTyped DEF CallSync, Posted
  <2> QED
    BY <1>7, <2>1 DEF CallSync
<1> QED
  BY <1>1, <1>2, <1>3, <1>4, <1>5, <1>6, <1>7 DEF Next, Main, User, Thread

\* The actions of connect_sync, one by one.
ConnAction(t, k, to) ==
    \/ ConnectSync(k) \/ AskReady(k) \/ TakeAnswer(k) \/ Abort(k) \/ UserClose(k)
    \/ DoConnect(t, k) \/ DoRegister(t, k) \/ DoIsReady(t, k) \/ DoClose(t, k)
    \/ ProcessEvent(t, k) \/ SockChange(k, to)

\* A step is one of the lifecycle or one of them.
LEMMA SyncSteps ==
  ASSUME [SyncNext]_syncVars
  PROVE  \/ Next /\ UNCHANGED connVars
         \/ \E t \in Threads, k \in Connectors, to \in {"up", "refused", "lost"} :
                ConnAction(t, k, to)
         \/ UNCHANGED syncVars
<1>1. 1 \in Threads
  BY ThreadNumAssumption DEF Threads
<1> QED
  BY <1>1 DEF SyncNext, ConnAction, Connector, ConnCommand, ConnEvent

\* process_connect takes the Connect and posts at most the Register it leads to.
LEMMA ConnectQueued ==
  ASSUME SyncTypeOK, NEW t \in Threads, NEW k \in Connectors, DoConnect(t, k)
  PROVE  /\ inbox[t] # <<>> /\ Head(inbox[t]) = Cmd("Connect", k)
         /\ inbox' \in [Threads -> Seq(Command)]
         /\ \/ inbox' = Rest(inbox, t)
            \/ inbox' = Posted(Rest(inbox, t), home[k], Cmd("Register", k))
<1>1. /\ inbox \in [Threads -> Seq(Command)] /\ home[k] \in Threads
      /\ inbox[t] # <<>> /\ Head(inbox[t]) = Cmd("Connect", k)
  BY DEF DoConnect, Serves, SyncTypeOK
<1>2. Rest(inbox, t) \in [Threads -> Seq(Command)]
  BY <1>1, TakeQueued
<1>3. Posted(Rest(inbox, t), home[k], Cmd("Register", k)) \in [Threads -> Seq(Command)]
  BY <1>1, <1>2, PostQueued, CommandTyped
<1>4. PICK opened \in BOOLEAN :
          inbox' = [i \in Threads |->
                        CASE i = t -> Tail(inbox[t])
                          [] i # t /\ i = home[k] /\ opened -> Append(inbox[i], Cmd("Register", k))
                          [] OTHER -> inbox[i]]
  BY DEF DoConnect
<1>5. CASE opened /\ home[k] # t
  BY <1>1, <1>3, <1>4, <1>5 DEF Rest, Posted
<1>6. CASE ~(opened /\ home[k] # t)
  BY <1>1, <1>2, <1>4, <1>6 DEF Rest
<1> QED
  BY <1>1, <1>2, <1>3, <1>5, <1>6

\* Telling more does not change what was told first.
LEMMA HeadKept ==
  ASSUME NEW s \in Seq(NetEvents), NEW ev \in Seq(NetEvents)
  PROVE  /\ s \o ev \in Seq(NetEvents)
         /\ s # <<>> => s \o ev # <<>> /\ Head(s \o ev) = Head(s)
         /\ s = <<>> => s \o ev = ev
<1>1. /\ s \o ev \in Seq(NetEvents)
      /\ Len(s) \in Nat /\ Len(ev) \in Nat /\ Len(s \o ev) = Len(s) + Len(ev)
      /\ \A i \in 1 .. Len(s) + Len(ev) : (s \o ev)[i] = IF i <= Len(s) THEN s[i] ELSE ev[i - Len(s)]
  BY ConcatProperties, LenProperties
<1>2. ASSUME s # <<>> PROVE s \o ev # <<>> /\ Head(s \o ev) = Head(s)
  <2>1. Len(s) > 0 /\ 1 \in 1 .. Len(s) + Len(ev)
    BY <1>1, <1>2, EmptySeq
  <2> QED
    BY <1>1, <2>1
<1> QED
  BY <1>1, <1>2, ConcatEmptySeq

\* What the handling of a poll event may do to a resource, and tell of it.
LEMMA EventOutcome ==
  ASSUME SyncTypeOK, NEW t \in Threads, NEW k \in Connectors, ProcessEvent(t, k)
  PROVE  /\ res' \in [Connectors -> {"none", "pending", "ready", "gone"}]
         /\ told' \in [Connectors -> Seq(NetEvents)]
         /\ \A j \in Connectors : j # k => res'[j] = res[j] /\ told'[j] = told[j]
         /\ told[k] # <<>> => told'[k] # <<>> /\ Head(told'[k]) = Head(told[k])
         /\ \/ res'[k] = res[k] /\ told'[k] = told[k]
            \/ /\ res[k] = "pending" /\ res'[k] = "ready"
               /\ told[k] = <<>> => told'[k] = <<"Connected">>
            \/ /\ res[k] \in {"pending", "ready"} /\ res'[k] = "gone"
               /\ told'[k] # <<>>
<1> DEFINE Kept == {<<res[k], <<>>>>}
           Ready == {<<"ready", <<"Connected">>>>}
           Gone == {<<"gone", <<"ConnectFail">>>>, <<"gone", <<"Disconnected">>>>,
                    <<"gone", <<"Connected", "Disconnected">>>>}
<1>1. PICK r \in Kept \cup Ready \cup Gone :
          /\ res' = [res EXCEPT ![k] = r[1]]
          /\ told' = [told EXCEPT ![k] = @ \o r[2]]
          /\ r \in Ready => res[k] = "pending"
          /\ r \in Gone => res[k] \in {"pending", "ready"}
  <2>1. PICK r \in CASE res[k] = "pending" /\ sock[k] = "connecting" -> {<<"pending", <<>>>>}
                  [] res[k] = "pending" /\ sock[k] = "up" -> {<<"ready", <<"Connected">>>>}
                  [] res[k] = "pending" /\ sock[k] = "refused" -> {<<"gone", <<"ConnectFail">>>>}
                  [] res[k] = "pending" /\ sock[k] = "lost" ->
                        {<<"gone", <<"ConnectFail">>>>, <<"gone", <<"Connected", "Disconnected">>>>}
                  [] res[k] = "ready" /\ sock[k] = "lost" -> {<<"gone", <<"Disconnected">>>>}
                  [] OTHER -> {<<res[k], <<>>>>} :
          res' = [res EXCEPT ![k] = r[1]] /\ told' = [told EXCEPT ![k] = @ \o r[2]]
    BY DEF ProcessEvent
  <2>2. CASE r = <<res[k], <<>>>>
    BY <2>1, <2>2
  <2>3. CASE r # <<res[k], <<>>>>
    BY <2>1, <2>3
  <2> QED
    BY <2>2, <2>3
<1>2. /\ r[1] \in {"none", "pending", "ready", "gone"} /\ r[2] \in Seq(NetEvents)
      /\ \/ r[1] = res[k] /\ r[2] = <<>>
         \/ res[k] = "pending" /\ r[1] = "ready" /\ r[2] = <<"Connected">>
         \/ res[k] \in {"pending", "ready"} /\ r[1] = "gone" /\ r[2] # <<>>
  <2>1. /\ <<>> \in Seq(NetEvents) /\ <<"Connected">> \in Seq(NetEvents)
        /\ <<"ConnectFail">> \in Seq(NetEvents) /\ <<"Disconnected">> \in Seq(NetEvents)
        /\ <<"Connected", "Disconnected">> \in Seq(NetEvents)
    BY DEF NetEvents
  <2>2. CASE r \in Kept
    <3>1. r[1] = res[k] /\ r[2] = <<>>
      BY <2>2
    <3> QED
      BY <2>1, <3>1 DEF SyncTypeOK
  <2>3. CASE r \in Ready
    BY <1>1, <2>1, <2>3
  <2>4. CASE r \in Gone
    <3>1. /\ r[1] = "gone"
          /\ r[2] \in {<<"ConnectFail">>, <<"Disconnected">>, <<"Connected", "Disconnected">>}
      BY <2>4
    <3>2. r[2] \in Seq(NetEvents)
      BY <2>1, <3>1
    <3>3. Len(r[2]) \in {1, 2} /\ Len(<<>>) = 0
      BY <3>1
    <3>4. r[2] # <<>>
      BY <3>3
    <3>5. res[k] \in {"pending", "ready"}
      BY <1>1, <2>4
    <3> QED
      BY <3>1, <3>2, <3>4, <3>5
  <2> QED
    BY <1>1, <2>2, <2>3, <2>4
<1> HIDE DEF Kept, Ready, Gone
<1>3. /\ told[k] \in Seq(NetEvents) /\ told'[k] = told[k] \o r[2] /\ res'[k] = r[1]
      /\ \A j \in Connectors : j # k => res'[j] = res[j] /\ told'[j] = told[j]
  BY <1>1 DEF SyncTypeOK
<1>4. told[k] \o r[2] \in Seq(NetEvents)
  BY <1>2, <1>3, HeadKept
<1>5. /\ res' \in [Connectors -> {"none", "pending", "ready", "gone"}]
      /\ told' \in [Connectors -> Seq(NetEvents)]
  BY <1>1, <1>2, <1>4 DEF SyncTypeOK
<1>6. told[k] # <<>> => told'[k] # <<>> /\ Head(told'[k]) = Head(told[k])
  BY <1>2, <1>3, HeadKept
<1>7. told[k] = <<>> => told'[k] = r[2]
  BY <1>2, <1>3, HeadKept
<1>8. r[2] = <<>> => told'[k] = told[k]
  BY <1>3, ConcatEmptySeq
<1> QED
  BY <1>2, <1>3, <1>5, <1>6, <1>7, <1>8

\* A step of connect_sync keeps the types.
LEMMA TypesConn ==
  ASSUME SyncTypeOK, NEW t \in Threads, NEW k \in Connectors,
         NEW to \in {"up", "refused", "lost"}, ConnAction(t, k, to)
  PROVE  SyncTypeOK'
<1> USE DEF Serves, Returned
<1>1. CASE ConnectSync(k)
  <2>1. inbox' \in [Threads -> Seq(Command)]
    BY <1>1, PostQueued, CommandTyped, ThreadNumAssumption
    DEF ConnectSync, Post, Posted, SyncTypeOK, Master, Threads
  <2> QED
    BY <1>1, <2>1 DEF ConnectSync, SyncTypeOK
<1>2. CASE AskReady(k)
  <2>1. inbox' \in [Threads -> Seq(Command)]
    BY <1>2, PostQueued, CommandTyped DEF AskReady, Post, Posted, SyncTypeOK
  <2>2. tries' \in [Connectors -> 0 .. MaxTries]
    BY <1>2, SyncBounds DEF AskReady, SyncTypeOK
  <2> QED
    BY <1>2, <2>1, <2>2 DEF AskReady, SyncTypeOK
<1>3. CASE TakeAnswer(k)
  BY <1>3 DEF TakeAnswer, SyncTypeOK, vars
<1>4. CASE Abort(k)
  BY <1>4 DEF Abort, SyncTypeOK, vars
<1>5. CASE UserClose(k)
  <2>1. inbox' \in [Threads -> Seq(Command)]
    BY <1>5, PostQueued, CommandTyped DEF UserClose, Post, Posted, SyncTypeOK
  <2> QED
    BY <1>5, <2>1 DEF UserClose, SyncTypeOK, connVars
<1>6. CASE DoConnect(t, k)
  <2>1. inbox' \in [Threads -> Seq(Command)]
    BY <1>6, ConnectQueued
  <2> QED
    BY <1>6, <2>1 DEF DoConnect, SyncTypeOK
<1>7. CASE DoRegister(t, k)
  <2>1. inbox' \in [Threads -> Seq(Command)]
    BY <1>7, TakeQueued DEF DoRegister, Rest, SyncTypeOK
  <2> QED
    BY <1>7, <2>1 DEF DoRegister, SyncTypeOK
<1>8. CASE DoIsReady(t, k)
  <2>1. inbox' \in [Threads -> Seq(Command)]
    BY <1>8, TakeQueued DEF DoIsReady, Rest, SyncTypeOK
  <2> QED
    BY <1>8, <2>1 DEF DoIsReady, SyncTypeOK
<1>9. CASE DoClose(t, k)
  <2>1. inbox' \in [Threads -> Seq(Command)]
    BY <1>9, TakeQueued DEF DoClose, Rest, SyncTypeOK
  <2> QED
    BY <1>9, <2>1 DEF DoClose, SyncTypeOK
<1>10. CASE ProcessEvent(t, k)
  BY <1>10, EventOutcome DEF ProcessEvent, SyncTypeOK, vars
<1>11. CASE SockChange(k, to)
  BY <1>11 DEF SockChange, SyncTypeOK, vars
<1> QED
  BY <1>1, <1>2, <1>3, <1>4, <1>5, <1>6, <1>7, <1>8, <1>9, <1>10, <1>11 DEF ConnAction

-----------------------------------------------------------------------------
(* The lifecycle.                                                          *)

\* The set of threads is finite, and has as many members as there are threads.
LEMMA ThreadsFinite == IsFiniteSet(Threads) /\ Cardinality(Threads) = ThreadNum
BY FS_Interval, ThreadNumAssumption DEF Threads

\* A counter that has reached the number of threads has counted them all.
LEMMA AllStarted ==
  ASSUME Counted, thrCounter \in Nat
  PROVE  /\ IsFiniteSet(Started)
         /\ thrCounter >= ThreadNum => Started = Threads
<1>1. Started \in SUBSET Threads
  BY DEF Started
<1>2. /\ IsFiniteSet(Started) /\ Cardinality(Started) <= Cardinality(Threads)
      /\ Cardinality(Threads) = Cardinality(Started) => Threads = Started
  BY <1>1, ThreadsFinite, FS_Subset
<1> QED
  BY <1>2, ThreadsFinite, ThreadNumAssumption DEF Counted

\* The lifecycle's invariant holds before the first thread is launched.
LEMMA LifecycleInit == SyncInit => LInv
<1> SUFFICES ASSUME SyncInit PROVE LInv
  OBVIOUS
<1>1. Started = {}
  BY DEF SyncInit, Init, Started
<1>2. Counted
  BY <1>1, FS_EmptySet DEF Counted, SyncInit, Init
<1> QED
  BY <1>2, ThreadNumAssumption
  DEF LInv, SyncInit, Init, LaunchOrder, JoinOrder, HasTask, Threads

\* It depends on the lifecycle's state only.
LEMMA LifecycleFrame ==
  ASSUME LInv, UNCHANGED <<running, main, next, thrCounter, thr>>
  PROVE  LInv'
BY DEF LInv, LaunchOrder, Counted, Started, JoinOrder, HasTask

\* A step of the launching thread, of a multiplexor thread or of a user keeps it.
LEMMA LifecycleNext ==
  ASSUME SyncTypeOK, LInv, Next
  PROVE  LInv'
<1> USE DEF SyncTypeOK, HasTask
<1>1. CASE Launch
  <2>1. next \in Threads /\ thr[next] = "none"
    BY <1>1 DEF Launch, LInv, LaunchOrder, Threads
  <2>2. Started' = Started
    BY <1>1, <2>1 DEF Launch, Started
  <2>3. LaunchOrder'
    BY <1>1, <2>1, ThreadNumAssumption DEF Launch, LInv, LaunchOrder, Threads
  <2> QED
    BY <1>1, <2>2, <2>3 DEF Launch, LInv, Counted, JoinOrder
<1>2. CASE Gather
  <2>1. Started = Threads
    BY <1>2, AllStarted DEF Gather, LInv
  <2> QED
    BY <1>2, <2>1 DEF Gather, LInv, LaunchOrder, Counted, JoinOrder, Started, Threads
<1>3. CASE Wait \/ DropTask
  <2>1. HasTask /\ HasTask' /\ main' # "waited" /\ UNCHANGED <<running, next, thrCounter, thr>>
    BY <1>3 DEF Wait, DropTask
  <2>2. LaunchOrder' /\ JoinOrder'
    BY <2>1 DEF LInv, LaunchOrder, JoinOrder
  <2> QED
    BY <2>1, <2>2 DEF LInv, Counted, Started
<1>4. CASE Join
  <2>1. JoinOrder'
    BY <1>4, ThreadNumAssumption DEF Join, LInv, JoinOrder, Threads
  <2> QED
    BY <1>4, <2>1 DEF Join, LInv, LaunchOrder, Counted, Started
<1>5. ASSUME NEW t \in Threads, Start(t) PROVE LInv'
  <2>1. t \notin Started /\ Started' = Started \cup {t}
    BY <1>5 DEF Start, Started
  <2>2. Counted'
    BY <1>5, <2>1, AllStarted, FS_AddElement DEF Start, LInv, Counted
  <2>3. ~HasTask
    BY <2>1 DEF LInv
  <2> QED
    BY <1>5, <2>2, <2>3 DEF Start, LInv, LaunchOrder, JoinOrder
<1>6. ASSUME NEW t \in Threads, LoopHead(t) \/ PollEnd(t) PROVE LInv'
  <2>1. /\ Started' = Started
        /\ \A u \in Threads : thr'[u] # thr[u] =>
               u = t /\ thr[u] \in {"head", "poll"} /\ thr'[u] \in {"head", "poll", "exited"}
    BY <1>6 DEF LoopHead, PollEnd, Started
  <2>2. LaunchOrder' /\ JoinOrder'
    BY <1>6, <2>1 DEF LoopHead, PollEnd, LInv, LaunchOrder, JoinOrder
  <2>3. \A u \in Threads : thr'[u] = "exited" => ~running'
    BY <1>6 DEF LoopHead, PollEnd, LInv
  <2> QED
    BY <1>6, <2>1, <2>2, <2>3 DEF LoopHead, PollEnd, LInv, Counted
<1>7. ASSUME NEW t \in Threads, Handle(t) PROVE LInv'
  BY <1>7 DEF Handle, Callback, LInv, LaunchOrder, Counted, JoinOrder, Started
<1>8. CASE Stop
  BY <1>8 DEF Stop, LInv, LaunchOrder, Counted, JoinOrder, Started
<1>9. ASSUME NEW t \in Threads, PostStop(t) \/ \E c \in Callers : CallSync(c, t) PROVE LInv'
  BY <1>9, LifecycleFrame DEF PostStop, CallSync
<1> QED
  BY <1>1, <1>2, <1>3, <1>4, <1>5, <1>6, <1>7, <1>8, <1>9 DEF Next, Main, User, Thread

\* A step of connect_sync leaves the lifecycle alone.
LEMMA LifecycleConn ==
  ASSUME LInv, NEW t \in Threads, NEW k \in Connectors,
         NEW to \in {"up", "refused", "lost"}, ConnAction(t, k, to)
  PROVE  LInv'
<1>1. UNCHANGED <<running, main, next, thrCounter, thr>>
  BY DEF ConnAction, ConnectSync, AskReady, TakeAnswer, Abort, UserClose, DoConnect, DoRegister,
         DoIsReady, DoClose, ProcessEvent, SockChange, Serves, vars
<1> QED
  BY <1>1, LifecycleFrame

-----------------------------------------------------------------------------
(* connect_sync.                                                           *)

\* The commands of k, and what it is for channels p to hold none that q does not hold.
Mine(k) == Birth(k) \cup Question(k) \cup {Cmd("Close", k)}
NoNew(p, q, k) ==
    /\ Mine(k) \cap Queued(p) \subseteq Queued(q)
    /\ Single(q, Birth(k)) => Single(p, Birth(k))
    /\ Single(q, Question(k)) => Single(p, Question(k))

\* The commands of two connectors, and those of the lifecycle, are different ones.
LEMMA CommandsApart ==
  ASSUME NEW k \in Connectors
  PROVE  /\ Birth(k) \in SUBSET Command /\ Question(k) \in SUBSET Command /\ Mine(k) \in SUBSET Command
         /\ \A c : Cmd("Stop", c) \notin Mine(k) /\ Cmd("Call", c) \notin Mine(k)
         /\ \A j \in Connectors, op \in {"Connect", "Register", "IsReady", "Close"} :
                j # k => Cmd(op, j) \notin Mine(k)
         /\ Cmd("Close", k) \notin Birth(k) \cup Question(k)
         /\ Birth(k) \cap Question(k) = {}
BY CommandTyped DEF Birth, Question, Mine, Cmd

\* Posting what is not k's, and taking anything, adds no command of k.
LEMMA NoneAdded ==
  ASSUME NEW q \in [Threads -> Seq(Command)], NEW t \in Threads, NEW k \in Connectors
  PROVE  /\ \A c \in Command : c \notin Mine(k) => NoNew(Posted(q, t, c), q, k)
         /\ q[t] # <<>> => NoNew(Rest(q, t), q, k)
<1>1. ASSUME NEW c \in Command, c \notin Mine(k) PROVE NoNew(Posted(q, t, c), q, k)
  <2>1. c \notin Birth(k) /\ c \notin Question(k)
    BY <1>1 DEF Mine
  <2> QED
    BY <1>1, <2>1, PostQueued, CommandsApart DEF NoNew
<1>2. ASSUME q[t] # <<>> PROVE NoNew(Rest(q, t), q, k)
  BY <1>2, TakeQueued, CommandsApart DEF NoNew
<1> QED
  BY <1>1, <1>2

\* Two steps that add no command of k add none together.
LEMMA NoneAddedTwice ==
  ASSUME NEW p, NEW q, NEW r, NEW k \in Connectors, NoNew(p, q, k), NoNew(q, r, k)
  PROVE  NoNew(p, r, k)
BY DEF NoNew

\* If no command of k is added and k's state is what it was, nothing changes for k.
LEMMA FlightKept ==
  ASSUME NEW k \in Connectors, InFlight(inbox, k), NoNew(inbox', inbox, k),
         conn'[k] = conn[k], answer'[k] = answer[k], told[k] # <<>> => told'[k] # <<>>
  PROVE  InFlight(inbox, k)'
<1>1. /\ Birth(k) \cap Queued(inbox') # {} => Birth(k) \cap Queued(inbox) # {}
      /\ Question(k) \cap Queued(inbox') # {} => Question(k) \cap Queued(inbox) # {}
      /\ Cmd("Close", k) \in Queued(inbox') => Cmd("Close", k) \in Queued(inbox)
  BY DEF NoNew, Mine
<1> QED
  BY <1>1 DEF InFlight, NoNew

\* The same with k's resource.
LEMMA ConnectorKept ==
  ASSUME NEW k \in Connectors, InFlight(inbox, k), ToldOf(k), Answered(k),
         NoNew(inbox', inbox, k), conn'[k] = conn[k], answer'[k] = answer[k],
         told'[k] = told[k], res'[k] = res[k]
  PROVE  InFlight(inbox, k)' /\ ToldOf(k)' /\ Answered(k)'
BY FlightKept DEF ToldOf, Answered

\* No connector has done anything at first.
LEMMA ConnectInit == SyncInit => CInv
<1> SUFFICES ASSUME SyncInit, NEW k \in Connectors
             PROVE  InFlight(inbox, k) /\ ToldOf(k) /\ Answered(k)
  BY DEF CInv
<1>1. \A t \in Threads : Len(inbox[t]) = 0
  BY DEF SyncInit, Init
<1>2. Queued(inbox) = {} /\ \A C : Single(inbox, C)
  BY <1>1 DEF Queued, Single
<1> QED
  BY <1>2 DEF SyncInit, InFlight, ToldOf, Answered

\* Steps of the lifecycle do not touch a connector's commands.
LEMMA ConnectNext ==
  ASSUME SyncTypeOK, CInv, Next, UNCHANGED connVars
  PROVE  CInv'
<1> SUFFICES ASSUME NEW k \in Connectors
             PROVE  InFlight(inbox, k)' /\ ToldOf(k)' /\ Answered(k)'
  BY DEF CInv
<1>1. inbox \in [Threads -> Seq(Command)]
  BY DEF SyncTypeOK
<1>2. NoNew(inbox', inbox, k)
  <2>1. ASSUME UNCHANGED inbox PROVE NoNew(inbox', inbox, k)
    BY <2>1 DEF NoNew
  <2>2. ASSUME NEW t \in Threads, Handle(t) PROVE NoNew(inbox', inbox, k)
    BY <1>1, <2>2, NoneAdded DEF Handle, Rest
  <2>3. ASSUME NEW t \in Threads, PostStop(t) PROVE NoNew(inbox', inbox, k)
    BY <1>1, <2>3, NoneAdded, CommandTyped, CommandsApart DEF PostStop, Posted
  <2>4. ASSUME NEW t \in Threads, NEW c \in Callers, CallSync(c, t) PROVE NoNew(inbox', inbox, k)
    BY <1>1, <2>4, NoneAdded, CommandTyped, CommandsApart DEF CallSync, Posted
  <2> QED
    BY <2>1, <2>2, <2>3, <2>4
    DEF Next, Main, User, Thread, Launch, Gather, Join, Wait, DropTask, Stop, Start, LoopHead, PollEnd
<1> QED
  BY <1>2, ConnectorKept DEF CInv, connVars

\* A step of one connector, or of a thread that serves it, keeps the invariant of
\* connect_sync.
LEMMA ConnectConn ==
  ASSUME SyncTypeOK, CInv, NEW t \in Threads, NEW k \in Connectors,
         NEW to \in {"up", "refused", "lost"}, ConnAction(t, k, to)
  PROVE  CInv'
<1> SUFFICES ASSUME NEW j \in Connectors
             PROVE  InFlight(inbox, j)' /\ ToldOf(j)' /\ Answered(j)'
  BY DEF CInv
<1>1. /\ inbox \in [Threads -> Seq(Command)] /\ home[k] \in Threads /\ Master \in Threads
      /\ InFlight(inbox, j) /\ ToldOf(j) /\ Answered(j)
      /\ conn[j] \in {"idle", "connecting", "polling", "asking"} \cup Returned
      /\ answer[j] \in {"none", "ready", "notReady", "gone"}
      /\ res[j] \in {"none", "pending", "ready", "gone"}
      /\ \A op \in {"Connect", "Register", "IsReady", "Close"} : Cmd(op, k) \in Command
      /\ \A op \in {"Connect", "Register", "IsReady", "Close"} : j # k => Cmd(op, k) \notin Mine(j)
  BY ThreadNumAssumption, CommandTyped, CommandsApart DEF SyncTypeOK, CInv, Master, Threads
<1>2. ASSUME UNCHANGED inbox PROVE NoNew(inbox', inbox, j)
  BY <1>2 DEF NoNew
<1>3. CASE ConnectSync(k)
  <2>1. inbox' = Posted(inbox, Master, Cmd("Connect", k))
    BY <1>3 DEF ConnectSync, Post, Posted
  <2>2. CASE j # k
    <3>1. conn'[j] = conn[j] /\ UNCHANGED <<answer, told, res>>
      BY <1>3, <2>2 DEF ConnectSync, SyncTypeOK
    <3> QED
      BY <1>1, <2>1, <2>2, <3>1, NoneAdded, ConnectorKept
  <2>3. CASE j = k
    <3>1. Birth(k) \cap Queued(inbox) = {} /\ Question(k) \cap Queued(inbox) = {}
      BY <1>1, <1>3, <2>3 DEF ConnectSync, InFlight
    <3>2. /\ Queued(inbox') = Queued(inbox) \cup {Cmd("Connect", k)}
          /\ Single(inbox', Birth(k)) /\ Single(inbox', Question(k))
      BY <1>1, <2>1, <2>3, <3>1, PostQueued, CommandsApart DEF InFlight
    <3>3. Cmd("Connect", k) \notin Question(k) /\ Cmd("Connect", k) # Cmd("Close", k)
      BY DEF Question, Cmd
    <3>4. conn'[k] = "connecting" /\ conn[k] = "idle" /\ UNCHANGED <<answer, told, res>>
      BY <1>3 DEF ConnectSync, SyncTypeOK
    <3>5. InFlight(inbox, k)'
      BY <1>1, <2>3, <3>1, <3>2, <3>3, <3>4 DEF InFlight
    <3> QED
      BY <1>1, <2>3, <3>4, <3>5 DEF ToldOf, Answered
  <2> QED
    BY <2>2, <2>3
<1>4. CASE AskReady(k)
  <2>1. inbox' = Posted(inbox, home[k], Cmd("IsReady", k))
    BY <1>4 DEF AskReady, Post, Posted
  <2>2. CASE j # k
    <3>1. conn'[j] = conn[j] /\ UNCHANGED <<answer, told, res>>
      BY <1>4, <2>2 DEF AskReady, SyncTypeOK
    <3> QED
      BY <1>1, <2>1, <2>2, <3>1, NoneAdded, ConnectorKept
  <2>3. CASE j = k
    <3>1. Birth(k) \cap Queued(inbox) = {} /\ Question(k) \cap Queued(inbox) = {}
      BY <1>1, <1>4, <2>3 DEF AskReady, InFlight
    <3>2. /\ Queued(inbox') = Queued(inbox) \cup {Cmd("IsReady", k)}
          /\ Single(inbox', Birth(k)) /\ Single(inbox', Question(k))
      BY <1>1, <2>1, <2>3, <3>1, PostQueued, CommandsApart DEF InFlight
    <3>3. Cmd("IsReady", k) \notin Birth(k) /\ Cmd("IsReady", k) # Cmd("Close", k)
      BY DEF Birth, Cmd
    <3>4. conn'[k] = "asking" /\ conn[k] = "polling" /\ UNCHANGED <<answer, told, res>>
      BY <1>4 DEF AskReady, SyncTypeOK
    <3>5. answer[k] = "none"
      BY <1>1, <2>3, <3>4 DEF Answered
    <3>6. InFlight(inbox, k)'
      BY <1>1, <2>3, <3>1, <3>2, <3>3, <3>4, <3>5 DEF InFlight
    <3> QED
      BY <1>1, <2>3, <3>4, <3>5, <3>6 DEF ToldOf, Answered
  <2> QED
    BY <2>2, <2>3
<1>5. CASE TakeAnswer(k) \/ Abort(k)
  <2>1. NoNew(inbox', inbox, j) /\ UNCHANGED <<told, res, inbox>>
    BY <1>2, <1>5 DEF TakeAnswer, Abort, vars
  <2>2. CASE j # k
    <3>1. conn'[j] = conn[j] /\ answer'[j] = answer[j]
      BY <1>5, <2>2 DEF TakeAnswer, Abort, SyncTypeOK
    <3> QED
      BY <1>1, <2>1, <3>1, ConnectorKept
  <2>3. CASE j = k
    <3>1. Birth(k) \cap Queued(inbox) = {} /\ Question(k) \cap Queued(inbox) = {}
      BY <1>1, <1>5, <2>3 DEF TakeAnswer, Abort, InFlight
    <3>2. InFlight(inbox, k)'
      BY <1>1, <2>1, <2>3, <3>1 DEF InFlight
    <3>3. /\ answer'[k] = "none"
          /\ \/ answer[k] = "ready" /\ conn'[k] = "ok"
             \/ conn'[k] \in {"polling", "aborted"}
             \/ answer[k] = "gone" /\ conn'[k] = "refused"
      BY <1>1, <1>5, <2>3 DEF TakeAnswer, Abort, SyncTypeOK, Answered
    <3>4. conn[k] \in {"asking", "polling"}
      BY <1>5 DEF TakeAnswer, Abort
    <3> QED
      BY <1>1, <2>1, <2>3, <3>2, <3>3, <3>4 DEF ToldOf, Answered
  <2> QED
    BY <2>2, <2>3
<1>6. CASE UserClose(k)
  <2>1. inbox' = Posted(inbox, home[k], Cmd("Close", k)) /\ UNCHANGED <<conn, answer, told, res>>
    BY <1>6 DEF UserClose, Post, Posted, connVars
  <2>2. CASE j # k
    BY <1>1, <2>1, <2>2, NoneAdded, ConnectorKept
  <2>3. CASE j = k
    <3>1. /\ Queued(inbox') = Queued(inbox) \cup {Cmd("Close", k)}
          /\ Single(inbox', Birth(k)) /\ Single(inbox', Question(k))
      BY <1>1, <2>1, <2>3, PostQueued, CommandsApart DEF InFlight
    <3>2. told[k] # <<>>
      BY <1>1, <1>6, <2>3 DEF UserClose, Answered
    <3>3. Cmd("Close", k) \notin Birth(k) \cup Question(k)
      BY CommandsApart
    <3>4. InFlight(inbox, k)'
      BY <1>1, <2>1, <2>3, <3>1, <3>2, <3>3 DEF InFlight
    <3> QED
      BY <1>1, <2>1, <2>3, <3>4 DEF ToldOf, Answered
  <2> QED
    BY <2>2, <2>3
<1>7. CASE DoConnect(t, k)
  <2>1. /\ inbox[t] # <<>> /\ Head(inbox[t]) = Cmd("Connect", k)
        /\ \/ inbox' = Rest(inbox, t)
           \/ inbox' = Posted(Rest(inbox, t), home[k], Cmd("Register", k))
        /\ UNCHANGED <<conn, answer, told, res>>
    BY <1>7, ConnectQueued DEF DoConnect
  <2>2. /\ Rest(inbox, t) \in [Threads -> Seq(Command)] /\ NoNew(Rest(inbox, t), inbox, j)
        /\ Cmd("Connect", k) \in Queued(inbox)
    <3>1. Rest(inbox, t) \in [Threads -> Seq(Command)] /\ Head(inbox[t]) \in Queued(inbox)
      BY <1>1, <2>1, TakeQueued
    <3>2. NoNew(Rest(inbox, t), inbox, j)
      BY <1>1, <2>1, NoneAdded
    <3> QED
      BY <2>1, <3>1, <3>2
  <2>3. CASE inbox' = Rest(inbox, t)
    BY <1>1, <2>1, <2>2, <2>3, ConnectorKept
  <2>4. CASE j # k /\ inbox' = Posted(Rest(inbox, t), home[k], Cmd("Register", k))
    <3>1. NoNew(inbox', Rest(inbox, t), j)
      BY <1>1, <2>2, <2>4, NoneAdded
    <3>2. NoNew(inbox', inbox, j)
      BY <2>2, <3>1, NoneAddedTwice
    <3> QED
      BY <1>1, <2>1, <3>2, ConnectorKept
  <2>5. CASE j = k /\ inbox' = Posted(Rest(inbox, t), home[k], Cmd("Register", k))
    <3>1. /\ Cmd("Connect", k) \in Birth(k) /\ Cmd("Register", k) \in Birth(k)
          /\ Cmd("Register", k) \notin Question(k) /\ Cmd("Register", k) # Cmd("Close", k)
      BY DEF Birth, Question, Cmd
    <3>2. Birth(k) \cap Queued(Rest(inbox, t)) = {}
      <4>1. Birth(k) \in SUBSET Command /\ Single(inbox, Birth(k))
        BY <1>1, <2>5, CommandsApart DEF InFlight
      <4> QED
        BY <1>1, <2>1, <3>1, <4>1, TakeLast
    <3>3. Single(Rest(inbox, t), Birth(k)) /\ Single(Rest(inbox, t), Question(k))
      BY <1>1, <2>2, <2>5 DEF NoNew, InFlight
    <3>4. /\ Queued(inbox') = Queued(Rest(inbox, t)) \cup {Cmd("Register", k)}
          /\ Single(inbox', Birth(k)) /\ Single(inbox', Question(k))
      BY <1>1, <2>2, <2>5, <3>1, <3>2, <3>3, PostQueued, CommandsApart
    <3>5. Queued(Rest(inbox, t)) \subseteq Queued(inbox)
      BY <1>1, <2>1, TakeQueued
    <3>6. conn[k] = "connecting"
      BY <1>1, <2>2, <2>5, <3>1 DEF InFlight
    <3>7. InFlight(inbox, k)'
      BY <1>1, <2>1, <2>5, <3>1, <3>4, <3>5, <3>6 DEF InFlight
    <3> QED
      BY <1>1, <2>1, <2>5, <3>7 DEF ToldOf, Answered
  <2> QED
    BY <2>1, <2>3, <2>4, <2>5
<1>8. CASE DoRegister(t, k)
  <2>1. /\ inbox[t] # <<>> /\ Head(inbox[t]) = Cmd("Register", k) /\ inbox' = Rest(inbox, t)
        /\ res' = [res EXCEPT ![k] = "pending"] /\ conn' = [conn EXCEPT ![k] = "polling"]
        /\ UNCHANGED <<answer, told>>
    BY <1>8 DEF DoRegister, Serves, Rest
  <2>2. NoNew(inbox', inbox, j) /\ Cmd("Register", k) \in Queued(inbox)
    <3>1. Head(inbox[t]) \in Queued(inbox) /\ NoNew(Rest(inbox, t), inbox, j)
      BY <1>1, <2>1, TakeQueued, NoneAdded
    <3> QED
      BY <2>1, <3>1
  <2>3. CASE j # k
    <3>1. conn'[j] = conn[j] /\ res'[j] = res[j]
      BY <2>1, <2>3 DEF SyncTypeOK
    <3> QED
      BY <1>1, <2>1, <2>2, <3>1, ConnectorKept
  <2>4. CASE j = k
    <3>1. Birth(k) \in SUBSET Command /\ Single(inbox, Birth(k)) /\ Cmd("Register", k) \in Birth(k)
      BY <1>1, <2>4, CommandsApart DEF InFlight, Birth
    <3>2. Birth(k) \cap Queued(inbox') = {}
      <4>1. Head(inbox[t]) \in Birth(k)
        BY <2>1, <3>1
      <4>2. Birth(k) \cap Queued(Rest(inbox, t)) = {}
        BY <1>1, <2>1, <3>1, <4>1, TakeLast
      <4> QED
        BY <2>1, <4>2
    <3>3. conn[k] = "connecting" /\ conn'[k] = "polling" /\ res'[k] = "pending"
      BY <1>1, <2>1, <2>2, <2>4, <3>1 DEF InFlight, SyncTypeOK
    <3>4. Question(k) \cap Queued(inbox') = {}
      BY <1>1, <2>2, <2>4, <3>3 DEF InFlight, NoNew, Mine
    <3>5. InFlight(inbox, k)'
      BY <1>1, <2>1, <2>2, <2>4, <3>2, <3>4 DEF InFlight, NoNew, Mine
    <3> QED
      BY <1>1, <2>1, <2>4, <3>3, <3>5 DEF ToldOf, Answered
  <2> QED
    BY <2>3, <2>4
<1>9. CASE DoIsReady(t, k)
  <2>1. /\ inbox[t] # <<>> /\ Head(inbox[t]) = Cmd("IsReady", k) /\ inbox' = Rest(inbox, t)
        /\ answer' = [answer EXCEPT ![k] = CASE res[k] = "ready" -> "ready"
                                             [] res[k] = "pending" -> "notReady"
                                             [] OTHER -> "gone"]
        /\ UNCHANGED <<conn, told, res>>
    BY <1>9 DEF DoIsReady, Serves, Rest
  <2>2. NoNew(inbox', inbox, j) /\ Cmd("IsReady", k) \in Queued(inbox)
    <3>1. Head(inbox[t]) \in Queued(inbox) /\ NoNew(Rest(inbox, t), inbox, j)
      BY <1>1, <2>1, TakeQueued, NoneAdded
    <3> QED
      BY <2>1, <3>1
  <2>3. CASE j # k
    <3>1. answer'[j] = answer[j]
      BY <2>1, <2>3 DEF SyncTypeOK
    <3> QED
      BY <1>1, <2>1, <2>2, <3>1, ConnectorKept
  <2>4. CASE j = k
    <3>1. Question(k) \in SUBSET Command /\ Single(inbox, Question(k)) /\ Cmd("IsReady", k) \in Question(k)
      BY <1>1, <2>4, CommandsApart DEF InFlight, Question
    <3>2. Question(k) \cap Queued(inbox') = {}
      <4>1. Head(inbox[t]) \in Question(k)
        BY <2>1, <3>1
      <4>2. Question(k) \cap Queued(Rest(inbox, t)) = {}
        BY <1>1, <2>1, <3>1, <4>1, TakeLast
      <4> QED
        BY <2>1, <4>2
    <3>3. conn[k] = "asking"
      BY <1>1, <2>2, <2>4, <3>1 DEF InFlight
    <3>4. InFlight(inbox, k)'
      BY <1>1, <2>1, <2>2, <2>4, <3>2, <3>3 DEF InFlight, NoNew, Mine
    <3>5. /\ answer'[k] = "ready" => res[k] = "ready"
          /\ answer'[k] = "gone" => res[k] \in {"none", "gone"}
      BY <1>1, <2>1, <2>4 DEF SyncTypeOK
    <3> QED
      BY <1>1, <2>1, <2>4, <3>3, <3>4, <3>5 DEF ToldOf, Answered
  <2> QED
    BY <2>3, <2>4
<1>10. CASE DoClose(t, k)
  <2>1. /\ inbox[t] # <<>> /\ Head(inbox[t]) = Cmd("Close", k) /\ inbox' = Rest(inbox, t)
        /\ res' = [res EXCEPT ![k] = "gone"]
        /\ UNCHANGED <<conn, answer, told>>
    BY <1>10 DEF DoClose, Serves, Rest
  <2>2. NoNew(inbox', inbox, j) /\ Cmd("Close", k) \in Queued(inbox)
    <3>1. Head(inbox[t]) \in Queued(inbox) /\ NoNew(Rest(inbox, t), inbox, j)
      BY <1>1, <2>1, TakeQueued, NoneAdded
    <3> QED
      BY <2>1, <3>1
  <2>3. CASE j # k
    <3>1. res'[j] = res[j]
      BY <2>1, <2>3 DEF SyncTypeOK
    <3> QED
      BY <1>1, <2>1, <2>2, <3>1, ConnectorKept
  <2>4. CASE j = k
    <3>1. told[k] # <<>> /\ res'[k] = "gone"
      BY <1>1, <2>1, <2>2, <2>4 DEF InFlight, SyncTypeOK
    <3>2. InFlight(inbox, k)'
      BY <1>1, <2>1, <2>2, <2>4, FlightKept
    <3>3. res[k] # "none"
      BY <1>1, <2>4, <3>1 DEF ToldOf
    <3> QED
      BY <1>1, <2>1, <2>4, <3>1, <3>2, <3>3 DEF ToldOf, Answered
  <2> QED
    BY <2>3, <2>4
<1>11. CASE ProcessEvent(t, k)
  <2>1. NoNew(inbox', inbox, j) /\ UNCHANGED <<conn, answer>>
    BY <1>2, <1>11 DEF ProcessEvent, vars
  <2>2. CASE j # k
    BY <1>1, <1>11, <2>1, <2>2, EventOutcome, ConnectorKept
  <2>3. CASE j = k
    <3>1. /\ told[k] # <<>> => told'[k] # <<>> /\ Head(told'[k]) = Head(told[k])
          /\ \/ res'[k] = res[k] /\ told'[k] = told[k]
             \/ /\ res[k] = "pending" /\ res'[k] = "ready"
                /\ told[k] = <<>> => told'[k] = <<"Connected">>
             \/ /\ res[k] \in {"pending", "ready"} /\ res'[k] = "gone"
                /\ told'[k] # <<>>
      BY <1>11, EventOutcome
    <3>2. InFlight(inbox, k)'
      BY <1>1, <2>1, <2>3, <3>1, FlightKept
    <3>3. <<"Connected">> # <<>> /\ Head(<<"Connected">>) = "Connected"
      OBVIOUS
    <3>4. ToldOf(k)'
      BY <1>1, <2>1, <2>3, <3>1, <3>3 DEF ToldOf
    <3>5. Answered(k)'
      BY <1>1, <2>1, <2>3, <3>1 DEF Answered
    <3> QED
      BY <2>3, <3>2, <3>4, <3>5
  <2> QED
    BY <2>2, <2>3
<1>12. CASE SockChange(k, to)
  BY <1>1, <1>2, <1>12, ConnectorKept DEF SockChange, vars
<1> QED
  BY <1>3, <1>4, <1>5, <1>6, <1>7, <1>8, <1>9, <1>10, <1>11, <1>12 DEF ConnAction

-----------------------------------------------------------------------------
(* The theorems.                                                           *)

\* The inductive invariant of the lifecycle and of connect_sync.
THEOREM SInvInvariant == SyncSpec => []SInv
<1>1. SyncInit => SInv
  BY TypesInit, LifecycleInit, ConnectInit DEF SInv
<1>2. SInv /\ [SyncNext]_syncVars => SInv'
  <2> SUFFICES ASSUME SInv, [SyncNext]_syncVars PROVE SInv'
    OBVIOUS
  <2> USE DEF SInv
  <2>1. CASE Next /\ UNCHANGED connVars
    BY <2>1, TypesNext, LifecycleNext, ConnectNext
  <2>2. ASSUME NEW t \in Threads, NEW k \in Connectors, NEW to \in {"up", "refused", "lost"},
               ConnAction(t, k, to)
        PROVE  SInv'
    BY <2>2, TypesConn, LifecycleConn, ConnectConn
  <2>3. CASE UNCHANGED syncVars
    <3>1. SyncTypeOK'
      BY <2>3 DEF syncVars, vars, connVars, SyncTypeOK
    <3>2. LInv'
      BY <2>3, LifecycleFrame DEF syncVars, vars
    <3>3. CInv'
      BY <2>3 DEF syncVars, vars, connVars, CInv, InFlight, ToldOf, Answered, Single, Queued
    <3> QED
      BY <3>1, <3>2, <3>3
  <2> QED
    BY <2>1, <2>2, <2>3, SyncSteps
<1> QED
  BY <1>1, <1>2, PTL DEF SyncSpec

\* The launching thread has the task only when every thread serves its channel or has
\* seen a stop, and wait (NodeTask::wait) returns only when every thread has ended and
\* the node is stopped, for any number of threads.
THEOREM TaskTellsThreadsHolds == SyncSpec => []TaskTellsThreads
<1>1. SInv => TaskTellsThreads
  <2> SUFFICES ASSUME SInv PROVE TaskTellsThreads
    OBVIOUS
  <2>1. HasTask => \A t \in Threads : thr[t] \in {"head", "poll", "exited"}
    BY DEF SInv, LInv, Started
  <2>2. ASSUME main = "waited" PROVE ~running /\ \A t \in Threads : thr[t] = "exited"
    <3>1. 1 \in Threads /\ \A t \in Threads : t < next
      BY <2>2, ThreadNumAssumption DEF SInv, LInv, JoinOrder, Threads
    <3>2. \A t \in Threads : thr[t] = "exited"
      BY <2>2, <3>1 DEF SInv, LInv, JoinOrder, HasTask
    <3> QED
      BY <3>1, <3>2 DEF SInv, LInv
  <2> QED
    BY <2>1, <2>2 DEF TaskTellsThreads, HasTask
<1> QED
  BY <1>1, SInvInvariant, PTL

\* What connect_sync_with returned is true of its connection, and no answer of is_ready
\* is left for a later question, for any number of connectors, threads and tries.
THEOREM ConnectOutcomeHolds == SyncSpec => []ConnectOutcome
<1>1. SInv => ConnectOutcome
  BY DEF SInv, CInv, ToldOf, Answered, ConnectOutcome
<1> QED
  BY <1>1, SInvInvariant, PTL
====
