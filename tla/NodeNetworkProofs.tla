------------------------- MODULE NodeNetworkProofs -------------------------
(***************************************************************************)
(* Proofs about NodeNetwork, for every number of workers and every bound.  *)
(*                                                                         *)
(* Threads share no registry and take no lock: what keeps a registry       *)
(* private is that every command is posted to the thread that owns its id. *)
(* Confinement is therefore inductive only together with the placement of  *)
(* the commands in flight.  The second and third parts build on the        *)
(* result: who owns a socket, and what becomes of the data sent over it.   *)
(***************************************************************************)
EXTENDS NodeNetwork, SequenceTheorems, FiniteSetTheorems, TLAPS

\* Where a command may be, and which ids it may name.
Placed(t, c) ==
    \/ c.op \in RemoteOps /\ c.id \in RemoteIds /\ t = Worker(c.id)
       /\ (c.op = "AcceptRegister" => c.arg \in LocalIds)
    \/ c.op = "Connect" /\ c.id \in RemoteIds /\ t = Master
    \/ c.op \in {"Listen", "CloseLocal"} /\ c.id \in LocalIds /\ t = Master

\* Every command waits in the channel of the thread that owns the id it names.
\* Without this, handling a command could put a remote in a foreign registry.
WellPlaced(q) ==
    /\ q \in [Threads -> Seq(Command)]
    /\ \A t \in Threads : \A i \in 1 .. Len(q[t]) : Placed(t, q[t][i])

\* What waits to be read was sent: the counter of unread chunks stays in its type.
UnreadWasSent == \A r \in RemoteIds : sock[r].unread <= sock[r].sent

\* The inductive invariant of confinement: types, placement of the commands, and
\* Confinement itself.
IInv == TypeOK /\ WellPlaced(queue) /\ UnreadWasSent /\ Confinement

\* A remote is served by a worker, never by the master.
LEMMA WorkerIsThread ==
  ASSUME NEW r \in Nat
  PROVE  Worker(r) \in Threads /\ Worker(r) # Master
BY WorkerNumAssumption DEF Worker, Threads, Workers, Master

\* Every remote id is served by some thread (to_worker_index in node.rs
\* is always an index of a worker).
LEMMA RemoteIsServed ==
  \A r \in RemoteIds : Worker(r) \in Threads
BY WorkerIsThread DEF RemoteIds

\* The master thread, which owns the listeners, is one of the threads.
LEMMA MasterIsThread == Master \in Threads
BY DEF Threads

\* Posting a command to the thread that owns its id keeps the channels well
\* placed: nothing else moves.
LEMMA PostPlaced ==
  ASSUME NEW q, WellPlaced(q), NEW t \in Threads, NEW c \in Command, Placed(t, c)
  PROVE  WellPlaced(Post(q, t, c))
<1>1. q[t] \in Seq(Command) /\ Append(q[t], c) \in Seq(Command)
      /\ Len(Append(q[t], c)) = Len(q[t]) + 1
  BY AppendProperties DEF WellPlaced
<1>2. Post(q, t, c) \in [Threads -> Seq(Command)]
  BY <1>1 DEF WellPlaced, Post
<1>3. ASSUME NEW u \in Threads, NEW i \in 1 .. Len(Post(q, t, c)[u])
      PROVE  Placed(u, Post(q, t, c)[u][i])
  <2>1. CASE u # t
    BY <2>1, <1>3 DEF WellPlaced, Post
  <2>2. CASE u = t
    <3>1. Post(q, t, c)[u] = Append(q[t], c)
      BY <2>2 DEF Post, WellPlaced
    <3>2. i \in 1 .. Len(q[t]) \/ i = Len(q[t]) + 1
      BY <3>1, <1>1, LenProperties
    <3>3. CASE i \in 1 .. Len(q[t])
      BY <3>1, <3>3, <2>2, <1>1, AppendProperties DEF WellPlaced
    <3>4. CASE i = Len(q[t]) + 1
      BY <3>1, <3>4, <2>2, <1>1, AppendProperties
    <3> QED
      BY <3>2, <3>3, <3>4
  <2> QED
    BY <2>1, <2>2
<1> QED
  BY <1>2, <1>3 DEF WellPlaced

\* Taking the first command of a channel keeps the channels well placed, and
\* the command taken is for the thread that takes it.
LEMMA TakePlaced ==
  ASSUME WellPlaced(queue), NEW t \in Threads, queue[t] # <<>>
  PROVE  /\ WellPlaced(Rest(t))
         /\ Head(queue[t]) \in Command
         /\ Placed(t, Head(queue[t]))
<1>1. queue[t] \in Seq(Command)
  BY DEF WellPlaced
<1>2. /\ Head(queue[t]) \in Command /\ Tail(queue[t]) \in Seq(Command)
      /\ Len(Tail(queue[t])) = Len(queue[t]) - 1
      /\ \A i \in 1 .. Len(Tail(queue[t])) : Tail(queue[t])[i] = queue[t][i + 1]
  BY <1>1, HeadTailProperties
<1>3. Len(queue[t]) \in Nat \ {0} /\ Head(queue[t]) = queue[t][1]
  BY <1>1, EmptySeq, LenProperties
<1>4. Placed(t, Head(queue[t]))
  BY <1>3 DEF WellPlaced
<1>5. Rest(t) \in [Threads -> Seq(Command)]
  BY <1>2 DEF WellPlaced, Rest
<1>6. ASSUME NEW u \in Threads, NEW i \in 1 .. Len(Rest(t)[u])
      PROVE  Placed(u, Rest(t)[u][i])
  <2>1. CASE u # t
    BY <2>1, <1>6 DEF WellPlaced, Rest
  <2>2. CASE u = t
    <3>1. Rest(t)[u] = Tail(queue[t])
      BY <2>2 DEF Rest, WellPlaced
    <3>2. i + 1 \in 1 .. Len(queue[t]) /\ Rest(t)[u][i] = queue[t][i + 1]
      BY <3>1, <1>2, <1>3
    <3> QED
      BY <3>2, <2>2 DEF WellPlaced
  <2> QED
    BY <2>1, <2>2
<1> QED
  BY <1>2, <1>4, <1>5, <1>6 DEF WellPlaced

\* Emitting a NetEvent keeps every event history a sequence of NetEvents.
LEMMA EmitTyped ==
  ASSUME events \in [RemoteIds -> Seq(NetEvent)],
         NEW r, NEW e \in NetEvent, Emit(r, e)
  PROVE  events' \in [RemoteIds -> Seq(NetEvent)]
<1>1. CASE r \in RemoteIds
  <2>1. Append(events[r], e) \in Seq(NetEvent)
    BY <1>1, AppendProperties
  <2> QED
    BY <2>1 DEF Emit
<1>2. CASE r \notin RemoteIds
  BY <1>2 DEF Emit
<1> QED
  BY <1>1, <1>2

\* connect_with: a fresh remote id, and a Connect command for the master.
LEMMA UserConnectStep ==
  ASSUME IInv, UserConnect
  PROVE  IInv'
<1> USE DEF userVars, osVars, regVars, cbVars, libVars
<1>1. RegistryTypeOK' /\ UnreadWasSent' /\ Confinement'
  BY DEF IInv, TypeOK, UserConnect, RegistryTypeOK, UnreadWasSent, Confinement
<1>2. UserTypeOK'
  <2>1. nextRemote' \in 1 .. MaxRemotes + 1
    BY BoundsAssumption DEF IInv, TypeOK, UserTypeOK, UserConnect
  <2> QED
    BY <2>1 DEF IInv, TypeOK, UserTypeOK, UserConnect
<1>3. WellPlaced(queue)'
  <2>1. Cmd("Connect", nextRemote, 0) \in Command /\ Placed(Master, Cmd("Connect", nextRemote, 0))
    BY BoundsAssumption DEF IInv, TypeOK, UserTypeOK, RemoteIds, UserConnect, Cmd, Command, Placed, RemoteOps, MasterOps
  <2> QED
    BY <2>1, MasterIsThread, PostPlaced DEF IInv, UserConnect
<1>4. ThreadTypeOK'
  BY <1>3 DEF IInv, TypeOK, ThreadTypeOK, WellPlaced, UserConnect
<1>5. OutputTypeOK'
  BY DEF IInv, TypeOK, OutputTypeOK, UserConnect
<1>6. OsTypeOK'
  BY DEF IInv, TypeOK, OsTypeOK, UserConnect
<1> QED
  BY <1>1, <1>2, <1>3, <1>4, <1>5, <1>6 DEF IInv, TypeOK

\* listen_with: a fresh local id, and a Listen command for the master.
LEMMA UserListenStep ==
  ASSUME IInv, UserListen
  PROVE  IInv'
<1> USE DEF userVars, osVars, regVars, cbVars, libVars
<1>1. RegistryTypeOK' /\ OsTypeOK' /\ UnreadWasSent' /\ Confinement'
  BY DEF IInv, TypeOK, UserListen, RegistryTypeOK, OsTypeOK, UnreadWasSent, Confinement
<1>2. UserTypeOK'
  BY BoundsAssumption DEF IInv, TypeOK, UserTypeOK, UserListen, RemoteIds, LocalIds
<1>3. WellPlaced(queue)'
  <2>1. Cmd("Listen", nextLocal, 0) \in Command /\ Placed(Master, Cmd("Listen", nextLocal, 0))
    BY BoundsAssumption DEF IInv, TypeOK, UserTypeOK, LocalIds, UserListen, Cmd, Command, Placed, RemoteOps, MasterOps
  <2> QED
    BY <2>1, MasterIsThread, PostPlaced DEF IInv, UserListen
<1>4. ThreadTypeOK'
  BY <1>3 DEF IInv, TypeOK, ThreadTypeOK, WellPlaced, UserListen
<1>5. OutputTypeOK'
  BY DEF IInv, TypeOK, OutputTypeOK, UserListen
<1> QED
  BY <1>1, <1>2, <1>3, <1>4, <1>5 DEF IInv, TypeOK

\* send: a Send command for the worker of the remote.
LEMMA UserSendStep ==
  ASSUME IInv, NEW r \in RemoteIds, UserSend(r)
  PROVE  IInv'
<1> USE DEF userVars, osVars, regVars, cbVars, libVars
<1>1. RegistryTypeOK' /\ OutputTypeOK' /\ OsTypeOK' /\ UnreadWasSent' /\ Confinement'
  BY DEF IInv, TypeOK, UserSend, RegistryTypeOK, OutputTypeOK, OsTypeOK, UnreadWasSent, Confinement
<1>2. UserTypeOK'
  <2>1. sends[r] + 1 \in 0 .. MaxSends /\ sends[r] + 1 \in Nat
    BY BoundsAssumption DEF IInv, TypeOK, UserTypeOK, UserSend
  <2>2. sends' \in [RemoteIds -> 0 .. MaxSends]
    BY <2>1 DEF IInv, TypeOK, UserTypeOK, UserSend
  <2>3. safeSends' \in [RemoteIds -> SUBSET Nat]
    BY <2>1 DEF IInv, TypeOK, UserTypeOK, UserSend
  <2> QED
    BY <2>2, <2>3 DEF IInv, TypeOK, UserTypeOK, UserSend
<1>3. WellPlaced(queue)'
  <2>1. Cmd("Send", r, sends[r] + 1) \in Command /\ Placed(Worker(r), Cmd("Send", r, sends[r] + 1))
    BY BoundsAssumption DEF IInv, TypeOK, UserTypeOK, RemoteIds, UserSend, Cmd, Command, Placed, RemoteOps, MasterOps
  <2> QED
    BY <2>1, RemoteIsServed, PostPlaced DEF IInv, UserSend
<1>4. ThreadTypeOK'
  BY <1>3 DEF IInv, TypeOK, ThreadTypeOK, WellPlaced, UserSend
<1> QED
  BY <1>1, <1>2, <1>3, <1>4 DEF IInv, TypeOK

\* close of a remote: a Close command for the worker of the remote.
LEMMA UserCloseStep ==
  ASSUME IInv, NEW r \in RemoteIds, UserClose(r)
  PROVE  IInv'
<1> USE DEF userVars, osVars, regVars, cbVars, libVars
<1>1. RegistryTypeOK' /\ OutputTypeOK' /\ OsTypeOK' /\ UnreadWasSent' /\ Confinement'
  BY DEF IInv, TypeOK, UserClose, RegistryTypeOK, OutputTypeOK, OsTypeOK, UnreadWasSent, Confinement
<1>2. UserTypeOK'
  <2>1. closes' \in [RemoteIds -> 0 .. MaxCloses]
    <3>1. closes[r] + 1 \in 0 .. MaxCloses
      BY BoundsAssumption DEF IInv, TypeOK, UserTypeOK, UserClose
    <3> QED
      BY <3>1 DEF IInv, TypeOK, UserTypeOK, UserClose
  <2> QED
    BY <2>1 DEF IInv, TypeOK, UserTypeOK, UserClose
<1>3. WellPlaced(queue)'
  <2>1. Cmd("Close", r, 0) \in Command /\ Placed(Worker(r), Cmd("Close", r, 0))
    BY BoundsAssumption DEF IInv, TypeOK, UserTypeOK, RemoteIds, UserClose, Cmd, Command, Placed, RemoteOps, MasterOps
  <2> QED
    BY <2>1, RemoteIsServed, PostPlaced DEF IInv, UserClose
<1>4. ThreadTypeOK'
  BY <1>3 DEF IInv, TypeOK, ThreadTypeOK, WellPlaced, UserClose
<1> QED
  BY <1>1, <1>2, <1>3, <1>4 DEF IInv, TypeOK

\* close of a listener: a CloseLocal command for the master.
LEMMA UserCloseLocalStep ==
  ASSUME IInv, NEW l \in LocalIds, UserCloseLocal(l)
  PROVE  IInv'
<1> USE DEF userVars, osVars, regVars, cbVars, libVars
<1>1. RegistryTypeOK' /\ OutputTypeOK' /\ OsTypeOK' /\ UnreadWasSent' /\ Confinement'
  BY DEF IInv, TypeOK, UserCloseLocal, RegistryTypeOK, OutputTypeOK, OsTypeOK, UnreadWasSent, Confinement
<1>2. UserTypeOK'
  <2>1. closesL' \in [LocalIds -> 0 .. MaxCloses]
    BY BoundsAssumption DEF IInv, TypeOK, UserTypeOK, UserCloseLocal
  <2> QED
    BY <2>1 DEF IInv, TypeOK, UserTypeOK, UserCloseLocal
<1>3. WellPlaced(queue)'
  <2>1. Cmd("CloseLocal", l, 0) \in Command /\ Placed(Master, Cmd("CloseLocal", l, 0))
    BY BoundsAssumption DEF IInv, TypeOK, UserTypeOK, LocalIds, UserCloseLocal, Cmd, Command, Placed, RemoteOps, MasterOps
  <2> QED
    BY <2>1, MasterIsThread, PostPlaced DEF IInv, UserCloseLocal
<1>4. ThreadTypeOK'
  BY <1>3 DEF IInv, TypeOK, ThreadTypeOK, WellPlaced, UserCloseLocal
<1> QED
  BY <1>1, <1>2, <1>3, <1>4 DEF IInv, TypeOK

\* process_listen on the master: the listener joins the master's registry.
LEMMA DoListenStep ==
  ASSUME IInv, NEW t \in Threads, DoListen(t)
  PROVE  IInv'
<1> USE DEF userVars, osVars, regVars, cbVars, libVars
<1>1. UserTypeOK' /\ OsTypeOK' /\ UnreadWasSent'
  BY DEF IInv, TypeOK, DoListen, UserTypeOK, OsTypeOK, UnreadWasSent
<1>2. WellPlaced(queue)'
  BY TakePlaced DEF IInv, DoListen, Takes
<1>3. ThreadTypeOK'
  BY <1>2 DEF IInv, TypeOK, ThreadTypeOK, WellPlaced, DoListen
<1>4. RegistryTypeOK'
  BY TakePlaced DEF IInv, TypeOK, RegistryTypeOK, DoListen, Takes, Placed, RemoteOps
<1>5. OutputTypeOK'
  BY DEF IInv, TypeOK, OutputTypeOK, DoListen, ListenResults
<1>6. Confinement'
  BY TakePlaced DEF IInv, TypeOK, RegistryTypeOK, Confinement, DoListen, Takes, Placed, RemoteOps, Idle
<1> QED
  BY <1>1, <1>2, <1>3, <1>4, <1>5, <1>6 DEF IInv, TypeOK

\* process_connect on the master: the new socket is posted to the worker of
\* its id, or the callback is told of the failure.
LEMMA DoConnectStep ==
  ASSUME IInv, NEW t \in Threads, DoConnect(t)
  PROVE  IInv'
<1> USE DEF userVars, osVars, regVars, cbVars, libVars
<1>1. UserTypeOK' /\ RegistryTypeOK' /\ Confinement'
  BY DEF IInv, TypeOK, DoConnect, UserTypeOK, RegistryTypeOK, Confinement
<1>2. WellPlaced(queue)'
  <2> DEFINE c == Head(queue[t])
             d == Cmd("ConnectRegister", c.id, 0)
  <2>1. WellPlaced(Rest(t)) /\ c.id \in RemoteIds
    BY TakePlaced DEF IInv, DoConnect, Takes, Placed, RemoteOps
  <2>2. d \in Command /\ Placed(Worker(c.id), d)
    BY <2>1 DEF Cmd, Command, Placed, RemoteOps, RemoteIds
  <2>3. WellPlaced(Post(Rest(t), Worker(c.id), d))
    BY <2>1, <2>2, RemoteIsServed, PostPlaced
  <2> QED
    BY <2>1, <2>3 DEF DoConnect, TcpRemoteConnectWith
<1>3. ThreadTypeOK'
  BY <1>2 DEF IInv, TypeOK, ThreadTypeOK, WellPlaced, DoConnect
<1>4. OutputTypeOK'
  BY DEF IInv, TypeOK, OutputTypeOK, DoConnect
<1>5. OsTypeOK'
  <2>1. Head(queue[t]).id \in RemoteIds
    BY TakePlaced DEF IInv, DoConnect, Takes, Placed, RemoteOps
  <2>2. \A conn \in {"connecting", "up"} : FreshSocket(conn) \in Socket
    BY BoundsAssumption DEF FreshSocket, NoSocket, Socket
  <2> QED
    BY <2>1, <2>2 DEF IInv, TypeOK, OsTypeOK, DoConnect, TcpRemoteConnectWith
<1>6. UnreadWasSent'
  <2>1. \A conn \in {"connecting", "up"} : FreshSocket(conn).unread <= FreshSocket(conn).sent
    BY DEF FreshSocket, NoSocket
  <2> QED
    BY <2>1 DEF IInv, TypeOK, OsTypeOK, UnreadWasSent, DoConnect, TcpRemoteConnectWith
<1> QED
  BY <1>1, <1>2, <1>3, <1>4, <1>5, <1>6 DEF IInv, TypeOK

\* The worker registers an accepted socket: its registry gains an id it owns.
LEMMA DoAcceptRegisterStep ==
  ASSUME IInv, NEW t \in Threads, DoAcceptRegister(t)
  PROVE  IInv'
<1> USE DEF userVars, osVars, regVars, cbVars, libVars
<1>1. UserTypeOK' /\ OutputTypeOK' /\ UnreadWasSent'
  BY DEF IInv, TypeOK, DoAcceptRegister, UserTypeOK, OutputTypeOK, UnreadWasSent
<1>2. WellPlaced(queue)'
  BY TakePlaced DEF IInv, DoAcceptRegister, Takes
<1>3. ThreadTypeOK'
  BY <1>2 DEF IInv, TypeOK, ThreadTypeOK, WellPlaced, DoAcceptRegister
<1>4. RegistryTypeOK'
  BY TakePlaced DEF IInv, TypeOK, RegistryTypeOK, DoAcceptRegister, Takes, Placed, Register, MasterOps, NoLocal
<1>5. OsTypeOK'
  <2>1. Head(queue[t]).id \in RemoteIds
    BY TakePlaced DEF IInv, DoAcceptRegister, Takes, Placed
  <2>2. Edges(Head(queue[t]).id) \subseteq RemoteIds \X {"R", "W"}
    BY <2>1 DEF Edges
  <2> QED
    BY <2>2 DEF IInv, TypeOK, OsTypeOK, DoAcceptRegister, Register
<1>6. Confinement'
  BY TakePlaced DEF IInv, TypeOK, RegistryTypeOK, Confinement, DoAcceptRegister, Takes, Placed, Register, Idle
<1> QED
  BY <1>1, <1>2, <1>3, <1>4, <1>5, <1>6 DEF IInv, TypeOK

\* The worker registers a connecting socket and calls the connect callback.
LEMMA DoConnectRegisterStep ==
  ASSUME IInv, NEW t \in Threads, DoConnectRegister(t)
  PROVE  IInv'
<1> USE DEF userVars, osVars, regVars, cbVars, libVars
<1>1. UserTypeOK' /\ UnreadWasSent'
  BY DEF IInv, TypeOK, DoConnectRegister, UserTypeOK, UnreadWasSent
<1>2. WellPlaced(queue)'
  BY TakePlaced DEF IInv, DoConnectRegister, Takes
<1>3. ThreadTypeOK'
  BY <1>2 DEF IInv, TypeOK, ThreadTypeOK, WellPlaced, DoConnectRegister
<1>4. RegistryTypeOK'
  BY TakePlaced DEF IInv, TypeOK, RegistryTypeOK, DoConnectRegister, Takes, Placed, Register, MasterOps, NoLocal
<1>5. OsTypeOK'
  <2>1. Head(queue[t]).id \in RemoteIds
    BY TakePlaced DEF IInv, DoConnectRegister, Takes, Placed
  <2>2. Edges(Head(queue[t]).id) \subseteq RemoteIds \X {"R", "W"}
    BY <2>1 DEF Edges
  <2> QED
    BY <2>2 DEF IInv, TypeOK, OsTypeOK, DoConnectRegister, Register
<1>6. Confinement'
  BY TakePlaced DEF IInv, TypeOK, RegistryTypeOK, Confinement, DoConnectRegister, Takes, Placed, Register, Idle
<1>7. OutputTypeOK'
  BY DEF IInv, TypeOK, OutputTypeOK, DoConnectRegister
<1> QED
  BY <1>1, <1>2, <1>3, <1>4, <1>5, <1>6, <1>7 DEF IInv, TypeOK

\* process_send: bytes are written or the remote is unknown.
LEMMA DoSendStep ==
  ASSUME IInv, NEW t \in Threads, DoSend(t)
  PROVE  IInv'
<1> USE DEF userVars, osVars, regVars, cbVars, libVars
<1>1. UserTypeOK' /\ RegistryTypeOK' /\ OsTypeOK' /\ UnreadWasSent' /\ Confinement'
  BY DEF IInv, TypeOK, DoSend, UserTypeOK, RegistryTypeOK, OsTypeOK, UnreadWasSent, Confinement
<1>2. WellPlaced(queue)'
  BY TakePlaced DEF IInv, DoSend, Takes
<1>3. ThreadTypeOK'
  BY <1>2 DEF IInv, TypeOK, ThreadTypeOK, WellPlaced, DoSend
<1>4. OutputTypeOK'
  <2>1. Head(queue[t]) \in Command
    BY TakePlaced DEF IInv, DoSend, Takes
  <2>2. \A r \in RemoteIds : Append(written[r], Head(queue[t]).arg) \in Seq(Nat)
    BY <2>1, AppendProperties DEF IInv, TypeOK, OutputTypeOK, Command
  <2>3. \/ written' = written
        \/ written' = [written EXCEPT ![Head(queue[t]).id] = Append(@, Head(queue[t]).arg)]
    BY DEF DoSend
  <2>4. Head(queue[t]).id \in RemoteIds
    BY TakePlaced DEF IInv, DoSend, Takes, Placed
  <2>5. written' \in [RemoteIds -> Seq(Nat)]
    BY <2>2, <2>3, <2>4 DEF IInv, TypeOK, OutputTypeOK
  <2> QED
    BY <2>5 DEF IInv, TypeOK, OutputTypeOK, DoSend
<1> QED
  BY <1>1, <1>2, <1>3, <1>4 DEF IInv, TypeOK

\* process_close of a remote: the registry loses an id.
LEMMA DoCloseStep ==
  ASSUME IInv, NEW t \in Threads, DoClose(t)
  PROVE  IInv'
<1> USE DEF userVars, osVars, regVars, cbVars, libVars
<1>1. UserTypeOK' /\ OutputTypeOK' /\ UnreadWasSent'
  BY DEF IInv, TypeOK, DoClose, UserTypeOK, OutputTypeOK, UnreadWasSent
<1>2. WellPlaced(queue)'
  BY TakePlaced DEF IInv, DoClose, Takes
<1>3. ThreadTypeOK'
  BY <1>2 DEF IInv, TypeOK, ThreadTypeOK, WellPlaced, DoClose
<1>4. RegistryTypeOK'
  BY DEF IInv, TypeOK, RegistryTypeOK, DoClose, Deregister
<1>5. OsTypeOK'
  BY DEF IInv, TypeOK, OsTypeOK, DoClose, Deregister
<1>6. Confinement'
  BY DEF IInv, TypeOK, RegistryTypeOK, Confinement, DoClose, Deregister, Takes, Idle
<1> QED
  BY <1>1, <1>2, <1>3, <1>4, <1>5, <1>6 DEF IInv, TypeOK

\* process_close of a listener: the master's registry loses an id.
LEMMA DoCloseLocalStep ==
  ASSUME IInv, NEW t \in Threads, DoCloseLocal(t)
  PROVE  IInv'
<1> USE DEF userVars, osVars, regVars, cbVars, libVars
<1>1. UserTypeOK' /\ OutputTypeOK' /\ UnreadWasSent'
  BY DEF IInv, TypeOK, DoCloseLocal, UserTypeOK, OutputTypeOK, UnreadWasSent
<1>2. WellPlaced(queue)'
  BY TakePlaced DEF IInv, DoCloseLocal, Takes
<1>3. ThreadTypeOK'
  BY <1>2 DEF IInv, TypeOK, ThreadTypeOK, WellPlaced, DoCloseLocal
<1>4. RegistryTypeOK'
  BY DEF IInv, TypeOK, RegistryTypeOK, DoCloseLocal
<1>5. OsTypeOK'
  BY DEF IInv, TypeOK, OsTypeOK, DoCloseLocal
<1>6. Confinement'
  BY DEF IInv, TypeOK, RegistryTypeOK, Confinement, DoCloseLocal, Takes, Idle
<1> QED
  BY <1>1, <1>2, <1>3, <1>4, <1>5, <1>6 DEF IInv, TypeOK

\* process_read of a remote: the pending state is resolved and the thread
\* enters the receive loop only for a remote of its own registry.
LEMMA ProcessReadStep ==
  ASSUME IInv, NEW t \in Threads, NEW r \in RemoteIds, ProcessRead(t, r)
  PROVE  IInv'
<1> USE DEF userVars, osVars, regVars, cbVars, libVars
<1>1. UserTypeOK' /\ WellPlaced(queue)' /\ UnreadWasSent'
  BY DEF IInv, TypeOK, ProcessRead, UserTypeOK, WellPlaced, UnreadWasSent
<1>2. ThreadTypeOK'
  BY DEF IInv, TypeOK, ThreadTypeOK, ProcessRead, Activity, RemoteIds, LocalIds, Idle
<1>3. RegistryTypeOK'
  BY DEF IInv, TypeOK, RegistryTypeOK, ProcessRead, ResolvePending, Deregister
<1>4. OutputTypeOK'
  <2>1. events' \in [RemoteIds -> Seq(NetEvent)]
    BY EmitTyped DEF IInv, TypeOK, OutputTypeOK, ProcessRead, ResolvePending, NetEvent, OpeningEvents, ClosingEvents
  <2> QED
    BY <2>1 DEF IInv, TypeOK, OutputTypeOK, ProcessRead
<1>5. OsTypeOK'
  BY DEF IInv, TypeOK, OsTypeOK, ProcessRead, ResolvePending, Deregister
<1>6. Confinement'
  <2>1. /\ \A u \in Threads : remotes'[u] \subseteq remotes[u] /\ (u # t => remotes'[u] = remotes[u])
        /\ \A q \in RemoteIds : ready[q] => ready'[q]
    BY DEF IInv, TypeOK, RegistryTypeOK, ProcessRead, ResolvePending, Deregister
  <2>2. \A u \in Threads : \/ act'[u] = act[u] /\ (u = t => act[u] = Idle)
                           \/ u = t /\ act'[u] = [op |-> "read", id |-> r] /\ r \in remotes'[u] /\ ready'[r]
    BY DEF IInv, TypeOK, ThreadTypeOK, RegistryTypeOK, ProcessRead, ResolvePending, Deregister
  <2>3. locals' = locals
    BY DEF ProcessRead
  <2> QED
    BY <2>1, <2>2, <2>3 DEF IInv, TypeOK, RegistryTypeOK, Confinement, Idle
<1> QED
  BY <1>1, <1>2, <1>3, <1>4, <1>5, <1>6 DEF IInv, TypeOK

\* process_write of a remote: the pending state is resolved.
LEMMA ProcessWriteStep ==
  ASSUME IInv, NEW t \in Threads, NEW r \in RemoteIds, ProcessWrite(t, r)
  PROVE  IInv'
<1> USE DEF userVars, osVars, regVars, cbVars, libVars
<1>1. UserTypeOK' /\ ThreadTypeOK' /\ WellPlaced(queue)' /\ UnreadWasSent'
  BY DEF IInv, TypeOK, ProcessWrite, UserTypeOK, ThreadTypeOK, WellPlaced, UnreadWasSent
<1>2. RegistryTypeOK'
  BY DEF IInv, TypeOK, RegistryTypeOK, ProcessWrite, ResolvePending, Deregister
<1>3. OutputTypeOK'
  <2>1. events' \in [RemoteIds -> Seq(NetEvent)]
    BY EmitTyped DEF IInv, TypeOK, OutputTypeOK, ProcessWrite, ResolvePending, NetEvent, OpeningEvents, ClosingEvents
  <2> QED
    BY <2>1 DEF IInv, TypeOK, OutputTypeOK, ProcessWrite
<1>4. OsTypeOK'
  BY DEF IInv, TypeOK, OsTypeOK, ProcessWrite, ResolvePending, Deregister
<1>5. Confinement'
  <2>1. /\ \A u \in Threads : remotes'[u] \subseteq remotes[u] /\ (u # t => remotes'[u] = remotes[u])
        /\ \A q \in RemoteIds : ready[q] => ready'[q]
    BY DEF IInv, TypeOK, RegistryTypeOK, ProcessWrite, ResolvePending, Deregister
  <2>2. \A u \in Threads : \/ act'[u] = act[u] /\ (u = t => act[u] = Idle)
                           \/ u = t /\ act'[u] = [op |-> "read", id |-> r] /\ r \in remotes'[u] /\ ready'[r]
    BY DEF IInv, TypeOK, ThreadTypeOK, RegistryTypeOK, ProcessWrite, ResolvePending, Deregister
  <2>3. locals' = locals
    BY DEF ProcessWrite
  <2> QED
    BY <2>1, <2>2, <2>3 DEF IInv, TypeOK, RegistryTypeOK, Confinement, Idle
<1> QED
  BY <1>1, <1>2, <1>3, <1>4, <1>5 DEF IInv, TypeOK

\* A turn of the receive loop takes a chunk the peer has sent.
LEMMA ReadDataStep ==
  ASSUME IInv, NEW t \in Threads, ReadData(t)
  PROVE  IInv'
<1> USE DEF userVars, osVars, regVars, cbVars, libVars
<1>1. UserTypeOK' /\ ThreadTypeOK' /\ RegistryTypeOK' /\ WellPlaced(queue)' /\ Confinement'
  BY DEF IInv, TypeOK, ReadData, UserTypeOK, ThreadTypeOK, RegistryTypeOK, WellPlaced, Confinement
<1>2. OutputTypeOK'
  <2>1. events' \in [RemoteIds -> Seq(NetEvent)]
    BY EmitTyped DEF IInv, TypeOK, OutputTypeOK, ReadData, NetEvent, OpeningEvents, ClosingEvents
  <2> QED
    BY <2>1 DEF IInv, TypeOK, OutputTypeOK, ReadData
<1>3. OsTypeOK'
  <2>1. act[t].id \in RemoteIds
    BY DEF IInv, TypeOK, RegistryTypeOK, Confinement, ReadData
  <2> DEFINE s == sock[act[t].id]
  <2>2. s \in Socket /\ s.unread > 0
    BY <2>1 DEF IInv, TypeOK, OsTypeOK, ReadData, ReadResults
  <2>3. [s EXCEPT !.unread = @ - 1] \in Socket
    BY <2>2, BoundsAssumption DEF Socket
  <2> QED
    BY <2>1, <2>3 DEF IInv, TypeOK, OsTypeOK, ReadData
<1>4. UnreadWasSent'
  BY DEF IInv, TypeOK, OsTypeOK, Socket, UnreadWasSent, ReadData, ReadResults
<1> QED
  BY <1>1, <1>2, <1>3, <1>4 DEF IInv, TypeOK

\* The receive loop ends when read() would block.
LEMMA ReadWouldBlockStep ==
  ASSUME IInv, NEW t \in Threads, ReadWouldBlock(t)
  PROVE  IInv'
<1> USE DEF userVars, osVars, regVars, cbVars, libVars
<1>1. UserTypeOK' /\ RegistryTypeOK' /\ OutputTypeOK' /\ OsTypeOK' /\ WellPlaced(queue)' /\ UnreadWasSent'
  BY DEF IInv, TypeOK, ReadWouldBlock, UserTypeOK, RegistryTypeOK, OutputTypeOK, OsTypeOK, WellPlaced, UnreadWasSent
<1>2. ThreadTypeOK'
  BY DEF IInv, TypeOK, ThreadTypeOK, ReadWouldBlock, Activity, Idle
<1>3. Confinement'
  BY DEF IInv, TypeOK, ThreadTypeOK, Confinement, ReadWouldBlock, Idle
<1> QED
  BY <1>1, <1>2, <1>3 DEF IInv, TypeOK

\* The end of a connection: the remote leaves the registry and the loop ends.
LEMMA ReadEndStep ==
  ASSUME IInv, NEW t \in Threads, ReadEnd(t)
  PROVE  IInv'
<1> USE DEF userVars, osVars, regVars, cbVars, libVars
<1>1. UserTypeOK' /\ WellPlaced(queue)' /\ UnreadWasSent'
  BY DEF IInv, TypeOK, ReadEnd, UserTypeOK, WellPlaced, UnreadWasSent
<1>2. ThreadTypeOK'
  BY DEF IInv, TypeOK, ThreadTypeOK, ReadEnd, Activity, Idle
<1>3. RegistryTypeOK'
  BY DEF IInv, TypeOK, RegistryTypeOK, ReadEnd, Deregister
<1>4. OutputTypeOK'
  <2>1. events' \in [RemoteIds -> Seq(NetEvent)]
    BY EmitTyped DEF IInv, TypeOK, OutputTypeOK, ReadEnd, NetEvent, OpeningEvents, ClosingEvents
  <2> QED
    BY <2>1 DEF IInv, TypeOK, OutputTypeOK, ReadEnd
<1>5. OsTypeOK'
  BY DEF IInv, TypeOK, OsTypeOK, ReadEnd, Deregister
<1>6. Confinement'
  BY DEF IInv, TypeOK, ThreadTypeOK, RegistryTypeOK, Confinement, ReadEnd, Idle, Deregister
<1> QED
  BY <1>1, <1>2, <1>3, <1>4, <1>5, <1>6 DEF IInv, TypeOK

\* process_read of a listener: only the master enters the accept loop.
LEMMA ProcessAcceptStep ==
  ASSUME IInv, NEW t \in Threads, NEW l \in LocalIds, ProcessAccept(t, l)
  PROVE  IInv'
<1> USE DEF userVars, osVars, regVars, cbVars, libVars
<1>1. UserTypeOK' /\ RegistryTypeOK' /\ OutputTypeOK' /\ WellPlaced(queue)' /\ UnreadWasSent'
  BY DEF IInv, TypeOK, ProcessAccept, UserTypeOK, RegistryTypeOK, OutputTypeOK, WellPlaced, UnreadWasSent
<1>2. ThreadTypeOK'
  BY DEF IInv, TypeOK, ThreadTypeOK, ProcessAccept, Activity, RemoteIds, LocalIds, Idle
<1>3. OsTypeOK'
  BY DEF IInv, TypeOK, OsTypeOK, ProcessAccept
<1>4. Confinement'
  BY DEF IInv, TypeOK, ThreadTypeOK, Confinement, ProcessAccept, Idle
<1> QED
  BY <1>1, <1>2, <1>3, <1>4 DEF IInv, TypeOK

\* A turn of the accept loop posts the new socket to the worker of its id.
LEMMA AcceptOneStep ==
  ASSUME IInv, NEW t \in Threads, AcceptOne(t)
  PROVE  IInv'
<1> USE DEF userVars, osVars, regVars, cbVars, libVars
<1>1. RegistryTypeOK' /\ OutputTypeOK' /\ Confinement'
  BY DEF IInv, TypeOK, AcceptOne, RegistryTypeOK, OutputTypeOK, Confinement
<1>2. UserTypeOK'
  BY BoundsAssumption DEF IInv, TypeOK, UserTypeOK, AcceptOne, RemoteIds, LocalIds
<1>3. WellPlaced(queue)'
  <2>1. nextRemote \in RemoteIds /\ nextRemote \in Nat
    BY BoundsAssumption DEF IInv, TypeOK, UserTypeOK, AcceptOne, RemoteIds
  <2>2. act[t].id \in LocalIds /\ act[t].id \in Nat
    BY DEF IInv, TypeOK, ThreadTypeOK, RegistryTypeOK, Confinement, Activity, AcceptOne
  <2> DEFINE c == Cmd("AcceptRegister", nextRemote, act[t].id)
  <2>3. c \in Command /\ Placed(Worker(nextRemote), c)
    BY <2>1, <2>2 DEF Cmd, Command, Placed, RemoteOps
  <2> QED
    BY <2>1, <2>3, RemoteIsServed, PostPlaced DEF IInv, AcceptOne
<1>4. ThreadTypeOK'
  BY <1>3 DEF IInv, TypeOK, ThreadTypeOK, WellPlaced, AcceptOne
<1>5. OsTypeOK'
  <2>1. nextRemote \in RemoteIds
    BY BoundsAssumption DEF IInv, TypeOK, UserTypeOK, AcceptOne, RemoteIds
  <2>2. FreshSocket("up") \in Socket
    BY BoundsAssumption DEF FreshSocket, NoSocket, Socket
  <2>3. act[t].id \in LocalIds /\ backlog[act[t].id] \in Nat
    BY DEF IInv, TypeOK, RegistryTypeOK, OsTypeOK, Confinement, AcceptOne
  <2>4. backlog' \in [LocalIds -> Nat]
    BY <2>3 DEF IInv, TypeOK, OsTypeOK, AcceptOne
  <2>5. sock' \in [RemoteIds -> Socket] /\ open' \subseteq RemoteIds
    BY <2>1, <2>2 DEF IInv, TypeOK, OsTypeOK, AcceptOne
  <2> QED
    BY <2>4, <2>5 DEF IInv, TypeOK, OsTypeOK, AcceptOne
<1>6. UnreadWasSent'
  <2>1. FreshSocket("up").unread <= FreshSocket("up").sent
    BY DEF FreshSocket, NoSocket
  <2> QED
    BY <2>1 DEF IInv, TypeOK, OsTypeOK, UnreadWasSent, AcceptOne
<1> QED
  BY <1>1, <1>2, <1>3, <1>4, <1>5, <1>6 DEF IInv, TypeOK

\* The end of the accept loop.
LEMMA AcceptEndStep ==
  ASSUME IInv, NEW t \in Threads, AcceptEnd(t)
  PROVE  IInv'
<1> USE DEF userVars, osVars, regVars, cbVars, libVars
<1>1. UserTypeOK' /\ RegistryTypeOK' /\ OutputTypeOK' /\ OsTypeOK' /\ WellPlaced(queue)' /\ UnreadWasSent'
  BY DEF IInv, TypeOK, AcceptEnd, UserTypeOK, RegistryTypeOK, OutputTypeOK, OsTypeOK, WellPlaced, UnreadWasSent
<1>2. ThreadTypeOK'
  BY DEF IInv, TypeOK, ThreadTypeOK, AcceptEnd, Activity, Idle
<1>3. Confinement'
  BY DEF IInv, TypeOK, ThreadTypeOK, Confinement, AcceptEnd, Idle
<1> QED
  BY <1>1, <1>2, <1>3 DEF IInv, TypeOK

\* A connecting socket is connected.
LEMMA SockConnectedStep ==
  ASSUME IInv, NEW r \in RemoteIds, SockConnected(r)
  PROVE  IInv'
<1> USE DEF userVars, osVars, regVars, cbVars, libVars
<1>1. UserTypeOK' /\ ThreadTypeOK' /\ RegistryTypeOK' /\ OutputTypeOK' /\ WellPlaced(queue)' /\ Confinement'
  BY DEF IInv, TypeOK, SockConnected, UserTypeOK, ThreadTypeOK, RegistryTypeOK, OutputTypeOK, WellPlaced, Confinement
<1>2. OsTypeOK'
  BY DEF IInv, TypeOK, OsTypeOK, SockConnected, Edge, Socket
<1>3. UnreadWasSent'
  BY DEF IInv, TypeOK, OsTypeOK, Socket, UnreadWasSent, SockConnected
<1> QED
  BY <1>1, <1>2, <1>3 DEF IInv, TypeOK

\* A connecting socket is refused.
LEMMA SockRefusedStep ==
  ASSUME IInv, NEW r \in RemoteIds, SockRefused(r)
  PROVE  IInv'
<1> USE DEF userVars, osVars, regVars, cbVars, libVars
<1>1. UserTypeOK' /\ ThreadTypeOK' /\ RegistryTypeOK' /\ OutputTypeOK' /\ WellPlaced(queue)' /\ Confinement'
  BY DEF IInv, TypeOK, SockRefused, UserTypeOK, ThreadTypeOK, RegistryTypeOK, OutputTypeOK, WellPlaced, Confinement
<1>2. OsTypeOK'
  BY SMTT(30) DEF IInv, TypeOK, OsTypeOK, SockRefused, Edge, Socket
<1>3. UnreadWasSent'
  BY DEF IInv, TypeOK, OsTypeOK, Socket, UnreadWasSent, SockRefused
<1> QED
  BY <1>1, <1>2, <1>3 DEF IInv, TypeOK

\* The peer closes its end.
LEMMA PeerCloseStep ==
  ASSUME IInv, NEW r \in RemoteIds, PeerClose(r)
  PROVE  IInv'
<1> USE DEF userVars, osVars, regVars, cbVars, libVars
<1>1. UserTypeOK' /\ ThreadTypeOK' /\ RegistryTypeOK' /\ OutputTypeOK' /\ WellPlaced(queue)' /\ Confinement'
  BY DEF IInv, TypeOK, PeerClose, UserTypeOK, ThreadTypeOK, RegistryTypeOK, OutputTypeOK, WellPlaced, Confinement
<1>2. OsTypeOK'
  BY DEF IInv, TypeOK, OsTypeOK, PeerClose, Edge, Socket
<1>3. UnreadWasSent'
  BY DEF IInv, TypeOK, OsTypeOK, Socket, UnreadWasSent, PeerClose
<1> QED
  BY <1>1, <1>2, <1>3 DEF IInv, TypeOK

\* The peer resets the connection.
LEMMA PeerResetStep ==
  ASSUME IInv, NEW r \in RemoteIds, PeerReset(r)
  PROVE  IInv'
<1> USE DEF userVars, osVars, regVars, cbVars, libVars
<1>1. UserTypeOK' /\ ThreadTypeOK' /\ RegistryTypeOK' /\ OutputTypeOK' /\ WellPlaced(queue)' /\ Confinement'
  BY DEF IInv, TypeOK, PeerReset, UserTypeOK, ThreadTypeOK, RegistryTypeOK, OutputTypeOK, WellPlaced, Confinement
<1>2. OsTypeOK'
  BY DEF IInv, TypeOK, OsTypeOK, PeerReset, Edge, Socket
<1>3. UnreadWasSent'
  BY DEF IInv, TypeOK, OsTypeOK, Socket, UnreadWasSent, PeerReset
<1> QED
  BY <1>1, <1>2, <1>3 DEF IInv, TypeOK

\* The peer sends a chunk: what is unread stays within what was sent.
LEMMA PeerSendStep ==
  ASSUME IInv, NEW r \in RemoteIds, PeerSend(r)
  PROVE  IInv'
<1> USE DEF userVars, osVars, regVars, cbVars, libVars
<1>1. UserTypeOK' /\ ThreadTypeOK' /\ RegistryTypeOK' /\ OutputTypeOK' /\ WellPlaced(queue)' /\ Confinement'
  BY DEF IInv, TypeOK, PeerSend, UserTypeOK, ThreadTypeOK, RegistryTypeOK, OutputTypeOK, WellPlaced, Confinement
<1>2. OsTypeOK'
  BY DEF IInv, TypeOK, OsTypeOK, PeerSend, Edge, Socket, UnreadWasSent
<1>3. UnreadWasSent'
  BY DEF IInv, TypeOK, OsTypeOK, Socket, UnreadWasSent, PeerSend
<1> QED
  BY <1>1, <1>2, <1>3 DEF IInv, TypeOK

\* The poll reports an edge with nothing behind it.
LEMMA SpuriousEdgeStep ==
  ASSUME IInv, NEW r \in RemoteIds, NEW kind \in {"R", "W"}, SpuriousEdge(r, kind)
  PROVE  IInv'
<1> USE DEF userVars, osVars, regVars, cbVars, libVars
<1>1. UserTypeOK' /\ ThreadTypeOK' /\ RegistryTypeOK' /\ OutputTypeOK' /\ WellPlaced(queue)' /\ UnreadWasSent' /\ Confinement'
  BY DEF IInv, TypeOK, SpuriousEdge, UserTypeOK, ThreadTypeOK, RegistryTypeOK, OutputTypeOK, WellPlaced, UnreadWasSent, Confinement
<1>2. OsTypeOK'
  BY DEF IInv, TypeOK, OsTypeOK, SpuriousEdge, Edge
<1> QED
  BY <1>1, <1>2 DEF IInv, TypeOK

\* A peer joins a listener's backlog.
LEMMA PeerConnectStep ==
  ASSUME IInv, NEW l \in LocalIds, PeerConnect(l)
  PROVE  IInv'
<1> USE DEF userVars, osVars, regVars, cbVars, libVars
<1>1. UserTypeOK' /\ ThreadTypeOK' /\ RegistryTypeOK' /\ OutputTypeOK' /\ WellPlaced(queue)' /\ UnreadWasSent' /\ Confinement'
  BY DEF IInv, TypeOK, PeerConnect, UserTypeOK, ThreadTypeOK, RegistryTypeOK, OutputTypeOK, WellPlaced, UnreadWasSent, Confinement
<1>2. OsTypeOK'
  BY DEF IInv, TypeOK, OsTypeOK, PeerConnect
<1> QED
  BY <1>1, <1>2 DEF IInv, TypeOK

-----------------------------------------------------------------------------
\* The invariant holds before the first call.
LEMMA IInvInit == Init => IInv
<1> SUFFICES ASSUME Init PROVE IInv
  OBVIOUS
<1> USE BoundsAssumption
<1>1. UserTypeOK
  BY DEF Init, UserTypeOK, RemoteIds, LocalIds
<1>2. ThreadTypeOK
  BY DEF Init, ThreadTypeOK, Activity, Idle
<1>3. RegistryTypeOK
  BY DEF Init, RegistryTypeOK
<1>4. OutputTypeOK
  BY DEF Init, OutputTypeOK
<1>5. OsTypeOK
  BY DEF Init, OsTypeOK, Socket, NoSocket
<1>6. WellPlaced(queue)
  BY <1>2 DEF Init, WellPlaced, ThreadTypeOK
<1>7. UnreadWasSent
  BY DEF Init, UnreadWasSent, NoSocket
<1>8. Confinement
  BY DEF Init, Confinement, Idle
<1> QED
  BY <1>1, <1>2, <1>3, <1>4, <1>5, <1>6, <1>7, <1>8 DEF IInv, TypeOK

\* Every step keeps the invariant: one case per action of Next.
LEMMA IInvStep == IInv /\ [Next]_vars => IInv'
<1> SUFFICES ASSUME IInv, [Next]_vars PROVE IInv'
  OBVIOUS
<1>1. CASE User
  BY <1>1, UserConnectStep, UserListenStep, UserSendStep, UserCloseStep, UserCloseLocalStep
     DEF User
<1>2. CASE OS
  BY <1>2, SockConnectedStep, SockRefusedStep, PeerSendStep, PeerCloseStep, PeerResetStep,
     SpuriousEdgeStep, PeerConnectStep DEF OS
<1>3. ASSUME NEW t \in Threads, Thread(t) PROVE IInv'
  <2>1. CASE DoCommand(t)
    BY <2>1, DoListenStep, DoConnectStep, DoAcceptRegisterStep, DoConnectRegisterStep,
       DoSendStep, DoCloseStep, DoCloseLocalStep DEF DoCommand
  <2> QED
    BY <1>3, <2>1, ProcessReadStep, ProcessWriteStep, ProcessAcceptStep, ReadDataStep,
       ReadWouldBlockStep, ReadEndStep, AcceptOneStep, AcceptEndStep DEF Thread
<1>4. CASE UNCHANGED vars
  BY <1>4 DEF vars, IInv, TypeOK, UserTypeOK, ThreadTypeOK, RegistryTypeOK, OutputTypeOK,
              OsTypeOK, WellPlaced, UnreadWasSent, Confinement
<1> QED
  BY <1>1, <1>2, <1>3, <1>4 DEF Next

\* The inductive invariant holds in every reachable state of every instance.
THEOREM IInvInvariant == Spec => []IInv
  BY IInvInit, IInvStep, PTL DEF Spec

\* Every variable keeps its type, for any number of workers, remotes, listeners,
\* sends and closes: registries, channels and event histories of the
\* multiplexor threads only ever hold ids and commands that exist.
THEOREM TypeCorrect == Spec => []TypeOK
<1>1. IInv => TypeOK
  BY DEF IInv
<1> QED
  BY <1>1, IInvInvariant, PTL

\* Each thread's registry, and the socket a thread is working on, belong to that
\* thread: the lock-free registries of the drivers are safe because commands are
\* routed by to_worker_index and listeners live on the master.
THEOREM ThreadsConfined == Spec => []Confinement
<1>1. IInv => Confinement
  BY DEF IInv
<1> QED
  BY <1>1, IInvInvariant, PTL

-----------------------------------------------------------------------------
(***************************************************************************)
(* Second part: who holds a socket, what the user is told                  *)
(* about it in which order, and that what was sent is written in order.    *)
(*                                                                         *)
(* A remote is born in the channels: a Connect command becomes a           *)
(* ConnectRegister command, an accepted socket travels in AcceptRegister.  *)
(* The argument is that such a birth is in flight at most once, that while *)
(* it is in flight nobody else has heard of the id, and that handling its  *)
(* last command moves the socket into exactly one registry.                *)
(*                                                                         *)
(* The third part, Delivery, follows one Send from channel to socket.      *)
(***************************************************************************)

\* The commands a remote is born from: until the last of them is handled the
\* remote is in no registry.
Births == {"Connect", "AcceptRegister", "ConnectRegister"}
\* Of those, the commands that carry the socket itself.
Carriers == {"AcceptRegister", "ConnectRegister"}

\* The commands in the channels q.
Queued(q) == {c \in Command : \E t \in Threads : \E i \in 1 .. Len(q[t]) : q[t][i] = c}

\* At most one command in flight gives birth to a given remote.
OneBirth(q) ==
    \A t, u \in Threads : \A i \in 1 .. Len(q[t]), j \in 1 .. Len(q[u]) :
        /\ q[t][i].op \in Births /\ q[u][j].op \in Births
        /\ q[t][i].id = q[u][j].id
        => t = u /\ i = j

\* No command in the channels q gives birth to r.
NoBirth(q, r) == \A c \in Queued(q) : c.op \in Births => c.id # r

\* While its birth is in flight a remote is known to nobody: no registry, no event
\* and no callback names it, and its socket exists once connect() has been made.
Unborn ==
    \A c \in Queued(queue) : c.op \in Births =>
        /\ c.id < nextRemote
        /\ ~Registered(c.id)
        /\ c.id \in open <=> c.op # "Connect"
        /\ events[c.id] = <<>>
        /\ connectCb[c.id] # "called"

\* Commands that use a remote are queued only after its birth has ended.
UsedAfterBirth ==
    \A c \in Queued(queue) : c.op \in {"Send", "Close"} =>
        c.id < nextRemote /\ NoBirth(queue, c.id)

\* A registered remote has an open socket, and an open socket is registered or
\* carried by a queued command.
Owned ==
    /\ \A r \in RemoteIds : Registered(r) => r < nextRemote /\ r \in open
    /\ \A r \in open : Registered(r) \/ \E c \in Queued(queue) : c.op \in Carriers /\ c.id = r

\* Ids not handed out yet have left no trace.
FreshIds ==
    \A r \in RemoteIds : r >= nextRemote =>
        r \notin open /\ events[r] = <<>> /\ connectCb[r] # "called"

\* What a registered remote has told the user follows from its ready flag, and the
\* user of an outgoing connection has had the callback.
Told ==
    \A r \in RemoteIds : Registered(r) =>
        /\ IF ready[r] THEN events[r] # <<>> /\ ~Ended(r) ELSE events[r] = <<>>
        /\ origin[r] = NoLocal => connectCb[r] = "called"

\* The inductive invariant of ownership and of the order of events.
OInv == /\ OneBirth(queue) /\ Unborn /\ UsedAfterBirth /\ Owned /\ FreshIds
        /\ Told /\ EventOrder /\ CallbackBeforeEvents

-----------------------------------------------------------------------------
\* What is queued is a command, and names a natural number.
LEMMA QueuedTyped ==
  \A q : \A c \in Queued(q) : c \in Command /\ c.id \in Nat
BY DEF Queued, Command

\* A command a remote is born from names a remote, never a listener.
LEMMA BirthsNameRemotes ==
  ASSUME WellPlaced(queue)
  PROVE  \A c \in Queued(queue) : c.op \in Births => c.id \in RemoteIds
BY DEF WellPlaced, Queued, Placed, Births, RemoteOps

\* Posting adds exactly the command posted, and keeps births unique if the remote
\* had no birth in flight.
LEMMA PostQueued ==
  ASSUME NEW q \in [Threads -> Seq(Command)], NEW t \in Threads, NEW c \in Command
  PROVE  /\ Queued(Post(q, t, c)) = Queued(q) \cup {c}
         /\ OneBirth(q) /\ (c.op \in Births => NoBirth(q, c.id)) => OneBirth(Post(q, t, c))
<1> DEFINE p == Post(q, t, c)
<1>1. /\ q[t] \in Seq(Command) /\ Len(q[t]) \in Nat
      /\ Len(Append(q[t], c)) = Len(q[t]) + 1
      /\ \A i \in 1 .. Len(q[t]) : Append(q[t], c)[i] = q[t][i]
      /\ Append(q[t], c)[Len(q[t]) + 1] = c
  BY AppendProperties, LenProperties
<1>2. p[t] = Append(q[t], c) /\ \A u \in Threads : u # t => p[u] = q[u]
  BY DEF Post
<1> HIDE DEF p
<1>3. \A u \in Threads : \A i \in 1 .. Len(q[u]) : i \in 1 .. Len(p[u]) /\ p[u][i] = q[u][i]
  BY <1>1, <1>2
<1>4. Len(q[t]) + 1 \in 1 .. Len(p[t]) /\ p[t][Len(q[t]) + 1] = c
  BY <1>1, <1>2, SMTT(30)
<1>5. \A u \in Threads : \A i \in 1 .. Len(p[u]) :
          \/ i \in 1 .. Len(q[u]) /\ p[u][i] = q[u][i]
          \/ u = t /\ i = Len(q[t]) + 1 /\ p[u][i] = c
  BY <1>1, <1>2
<1>6. Queued(p) = Queued(q) \cup {c}
  <2>1. Queued(q) \subseteq Queued(p)
    BY <1>3 DEF Queued
  <2>2. c \in Queued(p)
    BY <1>4 DEF Queued
  <2>3. Queued(p) \subseteq Queued(q) \cup {c}
    BY <1>5 DEF Queued
  <2> QED
    BY <2>1, <2>2, <2>3
<1>7. \A u \in Threads : \A i \in 1 .. Len(q[u]) : q[u][i] \in Queued(q)
  BY DEF Queued
<1>8. ASSUME OneBirth(q), c.op \in Births => NoBirth(q, c.id)
      PROVE  OneBirth(p)
  <2> SUFFICES ASSUME NEW u \in Threads, NEW v \in Threads,
                      NEW i \in 1 .. Len(p[u]), NEW j \in 1 .. Len(p[v]),
                      p[u][i].op \in Births, p[v][j].op \in Births, p[u][i].id = p[v][j].id
               PROVE  u = v /\ i = j
    BY DEF OneBirth
  <2>1. CASE p[u][i] = c /\ u = t /\ i = Len(q[t]) + 1
    <3>1. ~(j \in 1 .. Len(q[v]) /\ p[v][j] = q[v][j])
      BY <2>1, <1>7, <1>8 DEF NoBirth
    <3> QED
      BY <2>1, <3>1, <1>5
  <2>2. CASE p[v][j] = c /\ v = t /\ j = Len(q[t]) + 1
    <3>1. ~(i \in 1 .. Len(q[u]) /\ p[u][i] = q[u][i])
      BY <2>2, <1>7, <1>8 DEF NoBirth
    <3> QED
      BY <2>2, <3>1, <1>5
  <2>3. CASE /\ i \in 1 .. Len(q[u]) /\ p[u][i] = q[u][i]
             /\ j \in 1 .. Len(q[v]) /\ p[v][j] = q[v][j]
    BY <2>3, <1>8 DEF OneBirth
  <2> QED
    BY <2>1, <2>2, <2>3, <1>5
<1> QED
  BY <1>6, <1>8 DEF p

\* Taking removes exactly the head of one channel; if births were unique, no
\* other birth of the same remote is left behind.
LEMMA TakeQueued ==
  ASSUME queue \in [Threads -> Seq(Command)], NEW t \in Threads, queue[t] # <<>>
  PROVE  /\ Queued(queue) = Queued(Rest(t)) \cup {Head(queue[t])}
         /\ OneBirth(queue) =>
                /\ OneBirth(Rest(t))
                /\ Head(queue[t]).op \in Births => NoBirth(Rest(t), Head(queue[t]).id)
<1> DEFINE p == Rest(t)
           c == Head(queue[t])
<1>1. /\ queue[t] \in Seq(Command) /\ Len(queue[t]) \in Nat \ {0}
      /\ c \in Command /\ c = queue[t][1]
      /\ Len(Tail(queue[t])) = Len(queue[t]) - 1
      /\ \A i \in 1 .. Len(Tail(queue[t])) : Tail(queue[t])[i] = queue[t][i + 1]
  BY HeadTailProperties, LenProperties, EmptySeq
<1>2. p[t] = Tail(queue[t]) /\ \A u \in Threads : u # t => p[u] = queue[u]
  BY DEF Rest
<1> HIDE DEF p, c
<1>3. \A u \in Threads : \A i \in 1 .. Len(p[u]) :
          \/ u # t /\ i \in 1 .. Len(queue[u]) /\ p[u][i] = queue[u][i]
          \/ u = t /\ i + 1 \in 2 .. Len(queue[u]) /\ p[u][i] = queue[u][i + 1]
  <2> SUFFICES ASSUME NEW u \in Threads, NEW i \in 1 .. Len(p[u]),
                      ~(u # t /\ i \in 1 .. Len(queue[u]) /\ p[u][i] = queue[u][i])
               PROVE  u = t /\ i + 1 \in 2 .. Len(queue[u]) /\ p[u][i] = queue[u][i + 1]
    OBVIOUS
  <2>1. u = t /\ i \in 1 .. Len(Tail(queue[t])) /\ i \in Int
    BY <1>2
  <2> QED
    BY <2>1, <1>1, <1>2
<1>4. \A u \in Threads : \A i \in 1 .. Len(queue[u]) :
          \/ u # t /\ i \in 1 .. Len(p[u]) /\ p[u][i] = queue[u][i]
          \/ u = t /\ i = 1 /\ queue[u][i] = c
          \/ u = t /\ i - 1 \in 1 .. Len(p[u]) /\ p[u][i - 1] = queue[u][i]
  <2> SUFFICES ASSUME NEW u \in Threads, NEW i \in 1 .. Len(queue[u]), u = t, i # 1
               PROVE  i - 1 \in 1 .. Len(p[u]) /\ p[u][i - 1] = queue[u][i]
    BY <1>1, <1>2
  <2>1. i - 1 \in 1 .. Len(Tail(queue[t])) /\ (i - 1) + 1 = i
    BY <1>1
  <2> QED
    BY <2>1, <1>1, <1>2
<1>5. Queued(queue) \subseteq Queued(p) \cup {c}
  BY <1>4, SMTT(30) DEF Queued
<1>6. Queued(p) \subseteq Queued(queue)
  <2> SUFFICES ASSUME NEW d \in Queued(p) PROVE d \in Queued(queue)
    OBVIOUS
  <2>0. PICK u \in Threads : \E i \in 1 .. Len(p[u]) : p[u][i] = d
    BY DEF Queued
  <2>1. PICK i \in 1 .. Len(p[u]) : p[u][i] = d
    BY <2>0
  <2>2. \E j \in 1 .. Len(queue[u]) : queue[u][j] = d
    <3>1. CASE u = t
      BY <2>1, <1>1, <1>3, <3>1
    <3>2. CASE u # t
      BY <2>1, <1>3, <3>2
    <3> QED
      BY <3>1, <3>2
  <2> QED
    BY <2>2 DEF Queued
<1>7. c \in Queued(queue)
  BY <1>1 DEF Queued
<1>8. ASSUME OneBirth(queue) PROVE OneBirth(p)
  <2> SUFFICES ASSUME NEW u \in Threads, NEW v \in Threads,
                      NEW i \in 1 .. Len(p[u]), NEW j \in 1 .. Len(p[v]),
                      p[u][i].op \in Births, p[v][j].op \in Births, p[u][i].id = p[v][j].id
               PROVE  u = v /\ i = j
    BY DEF OneBirth
  <2> DEFINE k == IF u = t THEN i + 1 ELSE i
             l == IF v = t THEN j + 1 ELSE j
  <2>1. k \in 1 .. Len(queue[u]) /\ queue[u][k] = p[u][i]
    BY <1>1, <1>3
  <2>2. l \in 1 .. Len(queue[v]) /\ queue[v][l] = p[v][j]
    BY <1>1, <1>3
  <2>3. u = v /\ k = l
    <3> HIDE DEF k, l
    <3>1. /\ queue[u][k].op \in Births /\ queue[v][l].op \in Births
          /\ queue[u][k].id = queue[v][l].id
      BY <2>1, <2>2
    <3>2. \A x \in 1 .. Len(queue[u]), y \in 1 .. Len(queue[v]) :
             queue[u][x].op \in Births /\ queue[v][y].op \in Births /\ queue[u][x].id = queue[v][y].id
               => u = v /\ x = y
      BY <1>8 DEF OneBirth
    <3> QED
      BY <2>1, <2>2, <3>1, <3>2, ZenonT(30)
  <2> QED
    BY <2>3
<1>9. ASSUME OneBirth(queue), c.op \in Births, NEW d \in Queued(p), d.op \in Births, d.id = c.id
      PROVE  FALSE
  <2>0. PICK u \in Threads : \E i \in 1 .. Len(p[u]) : p[u][i] = d
    BY <1>9 DEF Queued
  <2>1. PICK i \in 1 .. Len(p[u]) : p[u][i] = d
    BY <2>0
  <2> DEFINE k == IF u = t THEN i + 1 ELSE i
  <2>2. k \in 1 .. Len(queue[u]) /\ queue[u][k] = d /\ (u = t => k # 1)
    BY <2>1, <1>1, <1>3
  <2>3. u = t /\ k = 1
    BY <1>9, <2>2, <1>1 DEF OneBirth
  <2> QED
    BY <2>2, <2>3
<1> QED
  BY <1>5, <1>6, <1>7, <1>8, <1>9 DEF NoBirth, p, c

-----------------------------------------------------------------------------
\* The part of the state that ownership and events are about, the channels
\* aside.
coreVars == <<nextRemote, remotes, ready, origin, connectCb, events, open>>

\* A step that touches neither registries, events, callbacks nor channels keeps
\* the ownership invariant.
LEMMA CoreUnchanged ==
  ASSUME OInv, UNCHANGED <<coreVars, queue>>
  PROVE  OInv'
<1> USE DEF coreVars
<1>1. OneBirth(queue)' /\ Queued(queue)' = Queued(queue)
  BY DEF OInv, OneBirth, Queued
<1>2. Unborn'
  BY <1>1 DEF OInv, Unborn, Registered
<1>3. UsedAfterBirth'
  BY <1>1 DEF OInv, UsedAfterBirth, NoBirth
<1>4. Owned'
  BY <1>1 DEF OInv, Owned, Registered
<1>5. FreshIds'
  BY DEF OInv, FreshIds
<1>6. Told' /\ EventOrder' /\ CallbackBeforeEvents'
  BY DEF OInv, Told, Registered, Ended, EventOrder, CallbackBeforeEvents
<1> QED
  BY <1>1, <1>2, <1>3, <1>4, <1>5, <1>6 DEF OInv

\* Posting a Send, a Close or a listener's command keeps the ownership invariant
\* when the sender knows the id, from a callback or from an event.
LEMMA PostStep ==
  ASSUME IInv, OInv, UNCHANGED coreVars,
         NEW t \in Threads, NEW c \in Command, queue' = Post(queue, t, c),
         c.op \notin Births,
         c.op \in {"Send", "Close"} => c.id \in RemoteIds /\ KnownRemote(c.id)
  PROVE  OInv'
<1> USE DEF coreVars
<1>1. OneBirth(queue') /\ Queued(queue') = Queued(queue) \cup {c}
  BY PostQueued DEF IInv, WellPlaced, OInv
<1>2. Unborn'
  BY <1>1 DEF OInv, Unborn, Registered
<1>3. UsedAfterBirth'
  <2>1. \A r : NoBirth(queue, r) => NoBirth(queue', r)
    BY <1>1 DEF NoBirth
  <2>2. c.op \in {"Send", "Close"} => c.id < nextRemote /\ NoBirth(queue, c.id)
    BY DEF OInv, IInv, TypeOK, UserTypeOK, KnownRemote, FreshIds, Unborn, NoBirth, RemoteIds
  <2> QED
    BY <1>1, <2>1, <2>2 DEF OInv, UsedAfterBirth
<1>4. Owned'
  BY <1>1 DEF OInv, Owned, Registered
<1>5. FreshIds'
  BY DEF OInv, FreshIds
<1>6. Told' /\ EventOrder' /\ CallbackBeforeEvents'
  BY DEF OInv, Told, Registered, Ended, EventOrder, CallbackBeforeEvents
<1> QED
  BY <1>1, <1>2, <1>3, <1>4, <1>5, <1>6 DEF OInv

\* Handling a command that changes no registry keeps the ownership invariant.
LEMMA TakeStep ==
  ASSUME IInv, OInv, UNCHANGED coreVars,
         NEW t \in Threads, queue[t] # <<>>, queue' = Rest(t),
         Head(queue[t]).op \notin Births
  PROVE  OInv'
<1> USE DEF coreVars
<1>1. OneBirth(queue') /\ Queued(queue) = Queued(queue') \cup {Head(queue[t])}
  BY TakeQueued DEF IInv, WellPlaced, OInv
<1>2. Unborn'
  BY <1>1 DEF OInv, Unborn, Registered
<1>3. UsedAfterBirth'
  BY <1>1 DEF OInv, UsedAfterBirth, NoBirth
<1>4. Owned'
  BY <1>1 DEF OInv, Owned, Registered, Births, Carriers
<1>5. FreshIds'
  BY DEF OInv, FreshIds
<1>6. Told' /\ EventOrder' /\ CallbackBeforeEvents'
  BY DEF OInv, Told, Registered, Ended, EventOrder, CallbackBeforeEvents
<1> QED
  BY <1>1, <1>2, <1>3, <1>4, <1>5, <1>6 DEF OInv

\* connect_with starts the birth of an id that nothing in the system names yet.
LEMMA UserConnectOwner ==
  ASSUME IInv, OInv, UserConnect
  PROVE  OInv'
<1> USE DEF userVars, regVars
<1> DEFINE r == nextRemote
           c == Cmd("Connect", r, 0)
<1>1. /\ r \in RemoteIds /\ r \in Nat /\ c \in Command /\ c.op = "Connect" /\ c.id = r
      /\ nextRemote' = r + 1 /\ queue' = Post(queue, Master, c)
      /\ connectCb' = [connectCb EXCEPT ![r] = "held"]
      /\ UNCHANGED <<remotes, ready, origin, events, open>>
  BY DEF IInv, TypeOK, UserTypeOK, UserConnect, RemoteIds, Cmd, Command, MasterOps
<1>2. NoBirth(queue, r) /\ ~Registered(r) /\ r \notin open /\ events[r] = <<>>
  BY <1>1 DEF OInv, Unborn, Owned, FreshIds, NoBirth
<1> HIDE DEF r, c
<1>3. OneBirth(queue') /\ Queued(queue') = Queued(queue) \cup {c}
  BY <1>1, <1>2, MasterIsThread, PostQueued DEF IInv, WellPlaced, OInv
<1>4. \A d \in Queued(queue) : d.id < r => d.id < nextRemote' /\ d.id # r
  BY <1>1, QueuedTyped
<1>5. Unborn'
  BY <1>1, <1>2, <1>3, <1>4 DEF OInv, IInv, TypeOK, OutputTypeOK, Unborn, Registered, r
<1>6. UsedAfterBirth'
  BY <1>1, <1>3, <1>4 DEF OInv, UsedAfterBirth, NoBirth, r, RemoteIds
<1>7. Owned'
  BY <1>1, <1>3 DEF OInv, Owned, Registered, RemoteIds, r
<1>8. FreshIds'
  BY <1>1 DEF OInv, FreshIds, IInv, TypeOK, OutputTypeOK, RemoteIds, r
<1>9. Told' /\ EventOrder' /\ CallbackBeforeEvents'
  BY <1>1, <1>2 DEF OInv, IInv, TypeOK, OutputTypeOK, Told, Registered, Ended, EventOrder, CallbackBeforeEvents
<1> QED
  BY <1>3, <1>5, <1>6, <1>7, <1>8, <1>9 DEF OInv

\* accept() hands its socket to exactly one command, under an id that nothing in
\* the system names yet.
LEMMA AcceptOneOwner ==
  ASSUME IInv, OInv, NEW t \in Threads, AcceptOne(t)
  PROVE  OInv'
<1> USE DEF userVars, regVars, cbVars
<1> DEFINE r == nextRemote
           c == Cmd("AcceptRegister", r, act[t].id)
<1>1. /\ r \in RemoteIds /\ r \in Nat /\ c \in Command /\ c.op = "AcceptRegister" /\ c.id = r
      /\ nextRemote' = r + 1 /\ queue' = Post(queue, Worker(r), c) /\ open' = open \cup {r}
      /\ UNCHANGED <<remotes, ready, origin, events, connectCb>>
  BY DEF IInv, TypeOK, UserTypeOK, ThreadTypeOK, Activity, AcceptOne, RemoteIds, Cmd, Command, RemoteOps
<1>2. NoBirth(queue, r) /\ ~Registered(r) /\ events[r] = <<>> /\ connectCb[r] # "called"
  BY <1>1 DEF OInv, Unborn, Owned, FreshIds, NoBirth
<1> HIDE DEF r, c
<1>3. OneBirth(queue') /\ Queued(queue') = Queued(queue) \cup {c}
  BY <1>1, <1>2, RemoteIsServed, PostQueued DEF IInv, WellPlaced, OInv
<1>4. \A d \in Queued(queue) : d.id < r => d.id < nextRemote' /\ d.id # r
  BY <1>1, QueuedTyped
<1>5. Unborn'
  BY <1>1, <1>2, <1>3, <1>4 DEF OInv, Unborn, Registered, NoBirth, r
<1>6. UsedAfterBirth'
  BY <1>1, <1>3, <1>4 DEF OInv, UsedAfterBirth, NoBirth, r, RemoteIds
<1>7. Owned'
  BY <1>1, <1>3 DEF OInv, Owned, Registered, RemoteIds, Carriers, r
<1>8. FreshIds'
  BY <1>1 DEF OInv, FreshIds, RemoteIds, r
<1>9. Told' /\ EventOrder' /\ CallbackBeforeEvents'
  BY <1>1, <1>2 DEF OInv, Told, Registered, Ended, EventOrder, CallbackBeforeEvents
<1> QED
  BY <1>3, <1>5, <1>6, <1>7, <1>8, <1>9 DEF OInv

\* process_connect replaces the Connect command by the ConnectRegister command that
\* carries the socket, or ends the birth when connect() fails.
LEMMA DoConnectOwner ==
  ASSUME IInv, OInv, NEW t \in Threads, DoConnect(t)
  PROVE  OInv'
<1> USE DEF userVars, regVars, cbVars
<1> DEFINE c == Head(queue[t])
           r == c.id
           d == Cmd("ConnectRegister", r, 0)
<1>1. /\ c \in Command /\ c.op = "Connect" /\ r \in RemoteIds
      /\ d \in Command /\ d.op = "ConnectRegister" /\ d.id = r
      /\ UNCHANGED <<nextRemote, remotes, ready, origin, events>>
  BY TakePlaced DEF IInv, DoConnect, Takes, Placed, RemoteOps, Cmd, Command
<1>2. /\ OneBirth(Rest(t)) /\ NoBirth(Rest(t), r)
      /\ Queued(queue) = Queued(Rest(t)) \cup {c}
      /\ Rest(t) \in [Threads -> Seq(Command)]
  BY <1>1, TakeQueued, TakePlaced DEF IInv, OInv, WellPlaced, DoConnect, TcpRemoteConnectWith, Takes, Births
<1>3. r < nextRemote /\ ~Registered(r) /\ r \notin open /\ events[r] = <<>> /\ connectCb[r] # "called"
  BY <1>1, <1>2 DEF OInv, Unborn, Births
<1>4. \/ /\ queue' = Post(Rest(t), Worker(r), d) /\ open' = open \cup {r}
         /\ connectCb' = connectCb
      \/ /\ queue' = Rest(t) /\ open' = open
         /\ connectCb' = [connectCb EXCEPT ![r] = "dropped"]
  BY DEF DoConnect, TcpRemoteConnectWith
<1> HIDE DEF c, r, d
<1>5. CASE /\ queue' = Post(Rest(t), Worker(r), d) /\ open' = open \cup {r}
           /\ connectCb' = connectCb
  <2>1. OneBirth(queue') /\ Queued(queue') = Queued(Rest(t)) \cup {d}
    BY <1>1, <1>2, <1>5, RemoteIsServed, PostQueued
  <2>2. Unborn'
    BY <2>1, <1>1, <1>2, <1>3, <1>5 DEF OInv, Unborn, NoBirth, Registered, r
  <2>3. UsedAfterBirth'
    BY <2>1, <1>1, <1>2 DEF OInv, UsedAfterBirth, NoBirth, Births, r
  <2>4. Owned'
    BY <2>1, <1>1, <1>2, <1>5 DEF OInv, Owned, Registered, Carriers
  <2>5. FreshIds'
    BY <1>1, <1>3, <1>5 DEF OInv, FreshIds, IInv, TypeOK, UserTypeOK, RemoteIds
  <2>6. Told' /\ EventOrder' /\ CallbackBeforeEvents'
    BY <1>1, <1>5 DEF OInv, Told, Registered, Ended, EventOrder, CallbackBeforeEvents
  <2> QED
    BY <2>1, <2>2, <2>3, <2>4, <2>5, <2>6 DEF OInv
<1>6. CASE /\ queue' = Rest(t) /\ open' = open
           /\ connectCb' = [connectCb EXCEPT ![r] = "dropped"]
  <2>1. \A q \in RemoteIds : connectCb'[q] = "called" <=> connectCb[q] = "called"
    BY <1>1, <1>3, <1>6 DEF IInv, TypeOK, OutputTypeOK
  <2>2. \A q \in Queued(queue') : q \in Queued(queue) /\ (q.op \in Births => q.id \in RemoteIds)
    BY <1>2, <1>6, BirthsNameRemotes DEF IInv
  <2>3. Unborn'
    BY <2>1, <2>2, <1>1, <1>6 DEF OInv, Unborn, Registered
  <2>4. UsedAfterBirth'
    BY <2>2, <1>1 DEF OInv, UsedAfterBirth, NoBirth
  <2>5. Owned'
    BY <1>1, <1>2, <1>6 DEF OInv, Owned, Registered, Carriers
  <2>6. FreshIds'
    BY <2>1, <1>1, <1>6 DEF OInv, FreshIds
  <2>7. Told' /\ EventOrder' /\ CallbackBeforeEvents'
    BY <2>1, <1>1, <1>6 DEF OInv, Told, Registered, Ended, EventOrder, CallbackBeforeEvents
  <2> QED
    BY <1>2, <1>6, <2>3, <2>4, <2>5, <2>6, <2>7 DEF OInv
<1> QED
  BY <1>4, <1>5, <1>6

\* Handling the command that carries a socket moves the socket from the channel
\* to the registry of the worker, the connect callback being called first.
LEMMA RegisterOwner ==
  ASSUME IInv, OInv, NEW t \in Threads, DoAcceptRegister(t) \/ DoConnectRegister(t)
  PROVE  OInv'
<1> USE DEF userVars, regVars, cbVars, osVars
<1> DEFINE c == Head(queue[t])
           r == c.id
<1>1. /\ c \in Command /\ c.op \in Carriers /\ r \in RemoteIds /\ queue[t] # <<>>
      /\ queue' = Rest(t)
      /\ remotes' = [remotes EXCEPT ![t] = @ \cup {r}]
      /\ ready' = [ready EXCEPT ![r] = FALSE]
      /\ UNCHANGED <<nextRemote, events, open>>
  BY TakePlaced DEF IInv, DoAcceptRegister, DoConnectRegister, Takes, Placed, Register, Carriers
<1>2. /\ OneBirth(queue') /\ NoBirth(queue', r)
      /\ Queued(queue) = Queued(queue') \cup {c}
  BY <1>1, TakeQueued DEF IInv, OInv, WellPlaced, Births, Carriers
<1>3. r < nextRemote /\ ~Registered(r) /\ r \in open /\ events[r] = <<>>
  BY <1>1, <1>2 DEF OInv, Unborn, Births, Carriers
<1>4. /\ connectCb' = connectCb \/ connectCb' = [connectCb EXCEPT ![r] = "called"]
      /\ \E o \in LocalIds \cup {NoLocal} :
             /\ origin' = [origin EXCEPT ![r] = o]
             /\ o = NoLocal => connectCb'[r] = "called"
  <2>1. CASE DoAcceptRegister(t)
    <3>1. c.arg \in LocalIds /\ c.arg # NoLocal
      BY <2>1, TakePlaced DEF IInv, DoAcceptRegister, Takes, Placed, MasterOps, LocalIds, NoLocal
    <3> QED
      BY <2>1, <3>1 DEF DoAcceptRegister, Register
  <2>2. CASE DoConnectRegister(t)
    BY <2>2, <1>1 DEF DoConnectRegister, Register, IInv, TypeOK, OutputTypeOK
  <2> QED
    BY <2>1, <2>2
<1> HIDE DEF c, r
<1>5. /\ ~ready'[r]
      /\ \A q \in RemoteIds : Registered(q)' <=> Registered(q) \/ q = r
      /\ \A q \in RemoteIds : q # r =>
             ready'[q] = ready[q] /\ origin'[q] = origin[q] /\ connectCb'[q] = connectCb[q]
  <2>1. \A q \in RemoteIds : Registered(q)' <=> Registered(q) \/ q = r
    BY <1>1 DEF IInv, TypeOK, RegistryTypeOK, Registered
  <2>2. ~ready'[r] /\ \A q \in RemoteIds : q # r => ready'[q] = ready[q]
    BY <1>1 DEF IInv, TypeOK, RegistryTypeOK
  <2>3. \A q \in RemoteIds : q # r => origin'[q] = origin[q] /\ connectCb'[q] = connectCb[q]
    BY <1>4 DEF IInv, TypeOK, RegistryTypeOK, OutputTypeOK
  <2> QED
    BY <2>1, <2>2, <2>3
<1>6. Unborn'
  <2>1. \A d \in Queued(queue') : d.op \in Births =>
            d \in Queued(queue) /\ d.id # r /\ d.id \in RemoteIds
    BY <1>2, BirthsNameRemotes DEF NoBirth, IInv
  <2> QED
    BY <2>1, <1>1, <1>5 DEF OInv, Unborn
<1>7. UsedAfterBirth'
  BY <1>1, <1>2 DEF OInv, UsedAfterBirth, NoBirth
<1>8. Owned'
  BY <1>1, <1>2, <1>3, <1>5 DEF OInv, IInv, TypeOK, OsTypeOK, Owned, r
<1>9. FreshIds'
  BY <1>1, <1>3, <1>5 DEF OInv, FreshIds, IInv, TypeOK, UserTypeOK, RemoteIds
<1>10. Told'
  BY <1>1, <1>3, <1>4, <1>5 DEF OInv, Told, Ended, IInv, TypeOK, RegistryTypeOK
<1>11. EventOrder' /\ CallbackBeforeEvents'
  BY <1>1, <1>3, <1>5 DEF OInv, EventOrder, CallbackBeforeEvents
<1> QED
  BY <1>2, <1>6, <1>7, <1>8, <1>9, <1>10, <1>11 DEF OInv

-----------------------------------------------------------------------------
(* Events.                                                                 *)

\* What Emit does to an event history: one event at its end, and the history is
\* ended iff the event is one of the two that end it.
LEMMA EmitEffect ==
  ASSUME IInv, NEW r \in RemoteIds, NEW e \in NetEvent, Emit(r, e)
  PROVE  /\ Len(events[r]) \in Nat /\ Len(events'[r]) = Len(events[r]) + 1
         /\ DOMAIN events[r] = 1 .. Len(events[r])
         /\ DOMAIN events'[r] = 1 .. Len(events'[r])
         /\ \A i \in 1 .. Len(events[r]) : events'[r][i] = events[r][i]
         /\ events'[r][Len(events[r]) + 1] = e
         /\ events'[r] # <<>>
         /\ \A q \in RemoteIds : q # r => events'[q] = events[q]
<1>1. events[r] \in Seq(NetEvent) /\ events'[r] = Append(events[r], e)
  BY DEF IInv, TypeOK, OutputTypeOK, Emit
<1>2. events'[r] \in Seq(NetEvent)
  BY <1>1, AppendProperties
<1>3. /\ Len(events[r]) \in Nat /\ DOMAIN events[r] = 1 .. Len(events[r])
      /\ DOMAIN events'[r] = 1 .. Len(events'[r])
  BY <1>1, <1>2, LenProperties
<1>4. /\ Len(events'[r]) = Len(events[r]) + 1
      /\ \A i \in 1 .. Len(events[r]) : events'[r][i] = events[r][i]
      /\ events'[r][Len(events[r]) + 1] = e
  BY <1>1, AppendProperties
<1>5. events'[r] # <<>>
  BY <1>2, <1>3, <1>4, EmptySeq
<1>6. \A q \in RemoteIds : q # r => events'[q] = events[q]
  BY DEF IInv, TypeOK, OutputTypeOK, Emit
<1> QED
  BY <1>3, <1>4, <1>5, <1>6

\* Emit keeps the order of events when an opening event comes first and nothing
\* follows the end.
LEMMA EmitOrder ==
  ASSUME IInv, EventOrder, NEW r \in RemoteIds, NEW e \in NetEvent, Emit(r, e),
         origin' = origin,
         events[r] = <<>> => e \in OpeningEvents /\ (e = "Accepted" <=> origin[r] # NoLocal),
         events[r] # <<>> => e \notin OpeningEvents /\ ~Ended(r)
  PROVE  EventOrder'
<1>1. \A q \in RemoteIds : q # r => events'[q] = events[q]
  BY EmitEffect
<1>2. events[r] \in Seq(NetEvent)
  BY DEF IInv, TypeOK, OutputTypeOK
<1>3. events[r] = <<>> <=> Len(events[r]) = 0
  BY <1>2, EmptySeq
<1> SUFFICES ASSUME NEW i \in 1 .. Len(events'[r])
             PROVE  /\ events'[r][i] \in OpeningEvents <=> i = 1
                    /\ events'[r][i] \in ClosingEvents => i = Len(events'[r])
                    /\ i = 1 => (events'[r][i] = "Accepted" <=> origin'[r] # NoLocal)
  BY <1>1, EmitEffect DEF EventOrder
<1>4. CASE i = Len(events[r]) + 1
  BY <1>3, <1>4, EmitEffect
<1>5. CASE i \in 1 .. Len(events[r])
  <2>1. events'[r][i] = events[r][i] /\ i \in DOMAIN events[r] /\ events[r] # <<>>
    BY <1>3, <1>5, EmitEffect
  <2>2. events[r][i] \notin ClosingEvents
    BY <2>1 DEF Ended
  <2> QED
    BY <2>1, <2>2 DEF EventOrder
<1> QED
  BY <1>4, <1>5, EmitEffect

\* Emitting for a registered remote keeps the connect callback ahead of events.
LEMMA EmitKnown ==
  ASSUME IInv, OInv, NEW r \in RemoteIds, Registered(r), NEW e \in NetEvent, Emit(r, e),
         UNCHANGED <<origin, connectCb>>
  PROVE  CallbackBeforeEvents'
BY EmitEffect DEF OInv, Told, CallbackBeforeEvents

\* Taking a remote out of its registry closes its socket and disturbs nothing of
\* any other remote.
LEMMA RemoveOwner ==
  ASSUME IInv, OInv, NEW t \in Threads, NEW r \in remotes[t], Deregister(t, r),
         UNCHANGED <<nextRemote, ready, origin, connectCb>>,
         OneBirth(queue'), Queued(queue') \subseteq Queued(queue),
         \A c \in Queued(queue) : c.op \in Births => c \in Queued(queue'),
         \A q \in RemoteIds : q # r => events'[q] = events[q]
  PROVE  Unborn' /\ UsedAfterBirth' /\ Owned' /\ FreshIds' /\ Told'
<1>1. r \in RemoteIds /\ Registered(r)
  BY DEF IInv, TypeOK, RegistryTypeOK, Registered
<1>2. /\ open' = open \ {r}
      /\ \A q \in RemoteIds : Registered(q)' <=> Registered(q) /\ q # r
  BY DEF Deregister, IInv, TypeOK, RegistryTypeOK, Confinement, Registered
<1>3. \A c \in Queued(queue) : c.op \in Births => c.id # r /\ c.id \in RemoteIds
  BY <1>1, BirthsNameRemotes DEF OInv, Unborn, IInv
<1>4. Unborn'
  BY <1>2, <1>3 DEF OInv, Unborn
<1>5. UsedAfterBirth'
  BY DEF OInv, UsedAfterBirth, NoBirth
<1>6. Owned'
  BY <1>2 DEF OInv, Owned, Carriers, Births, IInv, TypeOK, OsTypeOK
<1>7. FreshIds'
  BY <1>1, <1>2 DEF OInv, FreshIds, Owned, IInv, TypeOK, UserTypeOK, RemoteIds
<1>8. Told'
  BY <1>2 DEF OInv, Told, Ended
<1> QED
  BY <1>4, <1>5, <1>6, <1>7, <1>8

\* process_close of a remote drops the resource silently; a Close for a remote
\* that is already gone changes nothing.
LEMMA DoCloseOwner ==
  ASSUME IInv, OInv, NEW t \in Threads, DoClose(t)
  PROVE  OInv'
<1> USE DEF userVars, cbVars
<1> DEFINE r == Head(queue[t]).id
<1>1. /\ queue[t] # <<>> /\ Head(queue[t]).op = "Close" /\ queue' = Rest(t)
      /\ Deregister(t, r)
      /\ UNCHANGED <<nextRemote, ready, origin, connectCb, events>>
  BY DEF DoClose, Takes
<1>2. OneBirth(queue') /\ Queued(queue) = Queued(queue') \cup {Head(queue[t])}
  BY <1>1, TakeQueued DEF IInv, WellPlaced, OInv
<1> HIDE DEF r
<1>3. CASE r \in remotes[t]
  <2>1. Unborn' /\ UsedAfterBirth' /\ Owned' /\ FreshIds' /\ Told'
    BY <1>1, <1>2, <1>3, RemoveOwner DEF Births
  <2>2. EventOrder' /\ CallbackBeforeEvents'
    BY <1>1 DEF OInv, EventOrder, CallbackBeforeEvents
  <2> QED
    BY <1>2, <2>1, <2>2 DEF OInv
<1>4. CASE r \notin remotes[t]
  <2>1. remotes' = remotes /\ open' = open
    BY <1>1, <1>4 DEF Deregister, IInv, TypeOK, RegistryTypeOK
  <2> QED
    BY <1>1, <2>1, TakeStep DEF coreVars, Births
<1> QED
  BY <1>3, <1>4

\* resolve_pending_remote: the remote becomes ready and says so, stays pending, or
\* leaves the registry (with a failed Connected for a connection of ours).
LEMMA ResolveOwner ==
  ASSUME IInv, OInv, NEW t \in Threads, NEW r \in remotes[t], ~ready[r], ResolvePending(t, r),
         UNCHANGED <<nextRemote, queue, origin, connectCb>>
  PROVE  OInv'
<1>1. r \in RemoteIds /\ Registered(r) /\ events[r] = <<>>
  BY DEF IInv, TypeOK, RegistryTypeOK, Registered, OInv, Told
<1>2. OneBirth(queue') /\ Queued(queue') = Queued(queue)
  BY DEF OInv
<1>3. CASE Pending(r) = "Ready"
  <2> DEFINE e == IF origin[r] = NoLocal THEN "Connected" ELSE "Accepted"
  <2>1. /\ ready' = [ready EXCEPT ![r] = TRUE] /\ Emit(r, e)
        /\ UNCHANGED <<remotes, open>>
    BY <1>3 DEF ResolvePending
  <2>2. /\ e \in NetEvent /\ e \in OpeningEvents /\ e \notin ClosingEvents
        /\ e = "Accepted" <=> origin[r] # NoLocal
    BY DEF NetEvent, OpeningEvents, ClosingEvents
  <2> HIDE DEF e
  <2>3. EventOrder'
    BY <1>1, <2>1, <2>2, EmitOrder DEF OInv
  <2>4. CallbackBeforeEvents'
    BY <1>1, <2>1, <2>2, EmitKnown
  <2>5. events'[r] # <<>> /\ \A q \in RemoteIds : q # r => events'[q] = events[q]
    BY <1>1, <2>1, <2>2, EmitEffect
  <2>6. ~Ended(r)'
    <3>1. Len(events[r]) = 0
      BY <1>1
    <3>2. DOMAIN events'[r] = 1 .. 1 /\ events'[r][1] = e
      BY <3>1, <1>1, <2>1, <2>2, EmitEffect
    <3> QED
      BY <3>2, <2>2 DEF Ended
  <2>7. \A c \in Queued(queue) : c.op \in Births => c.id # r /\ c.id \in RemoteIds
    BY <1>1, BirthsNameRemotes DEF OInv, Unborn, IInv
  <2>8. Unborn'
    BY <1>2, <2>1, <2>5, <2>7 DEF OInv, Unborn, Registered
  <2>9. UsedAfterBirth' /\ Owned'
    BY <1>2, <2>1 DEF OInv, UsedAfterBirth, NoBirth, Owned, Registered
  <2>10. FreshIds'
    BY <1>1, <2>1, <2>5 DEF OInv, FreshIds, Owned, IInv, TypeOK, UserTypeOK, RemoteIds
  <2>11. Told'
    BY <2>1, <2>5, <2>6 DEF OInv, Told, Registered, Ended, IInv, TypeOK, RegistryTypeOK
  <2> QED
    BY <1>2, <2>3, <2>4, <2>8, <2>9, <2>10, <2>11 DEF OInv
<1>4. CASE Pending(r) = "Incomplete"
  BY <1>4, CoreUnchanged DEF ResolvePending, coreVars
<1>5. CASE Pending(r) = "Disconnected"
  <2>1. /\ Deregister(t, r) /\ UNCHANGED ready
        /\ IF origin[r] = NoLocal THEN Emit(r, "ConnectFail") ELSE UNCHANGED events
    BY <1>5 DEF ResolvePending
  <2>2. "ConnectFail" \in NetEvent /\ "ConnectFail" \in OpeningEvents
    BY DEF NetEvent, OpeningEvents
  <2>3. \A q \in RemoteIds : q # r => events'[q] = events[q]
    BY <1>1, <2>1, <2>2, EmitEffect
  <2>4. Unborn' /\ UsedAfterBirth' /\ Owned' /\ FreshIds' /\ Told'
    BY <1>2, <2>1, <2>3, RemoveOwner
  <2>5. CASE origin[r] = NoLocal
    <3>1. EventOrder'
      BY <1>1, <2>1, <2>2, <2>5, EmitOrder DEF OInv
    <3>2. CallbackBeforeEvents'
      BY <1>1, <2>1, <2>2, <2>5, EmitKnown
    <3> QED
      BY <1>2, <2>4, <3>1, <3>2 DEF OInv
  <2>6. CASE origin[r] # NoLocal
    BY <1>2, <2>1, <2>4, <2>6 DEF OInv, EventOrder, CallbackBeforeEvents
  <2> QED
    BY <2>5, <2>6
<1> QED
  BY <1>3, <1>4, <1>5 DEF ResolvePending

\* process_read and process_write of a remote keep the ownership invariant.
LEMMA ProcessOwner ==
  ASSUME IInv, OInv, NEW t \in Threads, NEW r \in RemoteIds,
         ProcessRead(t, r) \/ ProcessWrite(t, r)
  PROVE  OInv'
<1> USE DEF userVars, cbVars
<1>1. UNCHANGED <<nextRemote, queue, origin, connectCb>>
  BY DEF ProcessRead, ProcessWrite
<1>2. CASE r \in remotes[t] /\ ~ready[r]
  BY <1>1, <1>2, ResolveOwner DEF ProcessRead, ProcessWrite
<1>3. CASE ~(r \in remotes[t] /\ ~ready[r])
  BY <1>1, <1>3, CoreUnchanged DEF ProcessRead, ProcessWrite, coreVars
<1> QED
  BY <1>2, <1>3

\* The receive loop: messages come after the opening event, and Disconnected
\* comes with the removal of the remote.
LEMMA ReadOwner ==
  ASSUME IInv, OInv, NEW t \in Threads, ReadData(t) \/ ReadEnd(t)
  PROVE  OInv'
<1> USE DEF userVars, regVars, cbVars
<1>1. PICK r \in RemoteIds : r = act[t].id /\ r \in remotes[t] /\ ready[r]
  BY DEF IInv, TypeOK, RegistryTypeOK, Confinement, ReadData, ReadEnd
<1>2. Registered(r) /\ events[r] # <<>> /\ ~Ended(r)
  BY <1>1 DEF OInv, Told, Registered
<1>3. UNCHANGED <<nextRemote, queue, ready, origin, connectCb>>
  BY DEF ReadData, ReadEnd
<1>4. OneBirth(queue') /\ Queued(queue') = Queued(queue)
  BY <1>3 DEF OInv
<1>5. PICK e \in {"Message", "Disconnected"} :
          /\ Emit(r, e)
          /\ \/ e = "Message" /\ UNCHANGED <<remotes, open>>
             \/ e = "Disconnected" /\ Deregister(t, r)
  <2>1. CASE ReadData(t)
    BY <2>1, <1>1 DEF ReadData
  <2>2. CASE ReadEnd(t)
    BY <2>2, <1>1 DEF ReadEnd
  <2> QED
    BY <2>1, <2>2
<1>6. e \in NetEvent /\ e \notin OpeningEvents
  BY DEF NetEvent, OpeningEvents, ClosingEvents
<1>7. EventOrder' /\ CallbackBeforeEvents'
  BY <1>2, <1>3, <1>5, <1>6, EmitOrder, EmitKnown DEF OInv
<1>8. events'[r] # <<>> /\ \A q \in RemoteIds : q # r => events'[q] = events[q]
  BY <1>5, <1>6, EmitEffect
<1>9. CASE e = "Message" /\ UNCHANGED <<remotes, open>>
  <2>1. ~Ended(r)'
    <3>1. /\ Len(events[r]) \in Nat /\ DOMAIN events[r] = 1 .. Len(events[r])
          /\ DOMAIN events'[r] = 1 .. Len(events[r]) + 1
          /\ \A i \in 1 .. Len(events[r]) : events'[r][i] = events[r][i]
          /\ events'[r][Len(events[r]) + 1] = "Message"
      BY <1>5, <1>6, <1>9, EmitEffect
    <3> QED
      BY <1>2, <3>1 DEF Ended, ClosingEvents
  <2>2. \A c \in Queued(queue) : c.op \in Births => c.id # r /\ c.id \in RemoteIds
    BY <1>2, BirthsNameRemotes DEF OInv, Unborn, IInv
  <2>3. Unborn'
    BY <1>3, <1>4, <1>8, <1>9, <2>2 DEF OInv, Unborn, Registered
  <2>4. UsedAfterBirth' /\ Owned'
    BY <1>3, <1>4, <1>9 DEF OInv, UsedAfterBirth, NoBirth, Owned, Registered
  <2>5. FreshIds'
    BY <1>2, <1>3, <1>8, <1>9 DEF OInv, FreshIds, Owned, IInv, TypeOK, UserTypeOK, RemoteIds
  <2>6. Told'
    BY <1>1, <1>3, <1>8, <1>9, <2>1 DEF OInv, Told, Registered, Ended
  <2> QED
    BY <1>4, <1>7, <2>3, <2>4, <2>5, <2>6 DEF OInv
<1>10. CASE e = "Disconnected" /\ Deregister(t, r)
  <2>1. Unborn' /\ UsedAfterBirth' /\ Owned' /\ FreshIds' /\ Told'
    BY <1>1, <1>3, <1>4, <1>8, <1>10, RemoveOwner
  <2> QED
    BY <1>4, <1>7, <2>1 DEF OInv
<1> QED
  BY <1>5, <1>9, <1>10

\* The calls of the user that only post a command.
LEMMA PostingOwner ==
  ASSUME IInv, OInv,
         \/ UserListen
         \/ \E r \in RemoteIds : UserSend(r) \/ UserClose(r)
         \/ \E l \in LocalIds : UserCloseLocal(l)
  PROVE  OInv'
<1> USE MasterIsThread, RemoteIsServed, PostStep
       DEF coreVars, regVars, cbVars, osVars, Cmd, Command, Births, RemoteOps, MasterOps
<1>1. CASE UserListen
  BY <1>1 DEF UserListen, IInv, TypeOK, UserTypeOK
<1>2. ASSUME NEW r \in RemoteIds, UserSend(r) PROVE OInv'
  <2>1. r \in Nat /\ sends[r] + 1 \in Nat
    BY DEF IInv, TypeOK, UserTypeOK, RemoteIds
  <2> DEFINE d == Cmd("Send", r, sends[r] + 1)
  <2>2. d \in Command /\ d.op \notin Births /\ d.op = "Send" /\ d.id = r
    BY <2>1
  <2>3. queue' = Post(queue, Worker(r), d) /\ KnownRemote(r) /\ UNCHANGED coreVars
    BY <1>2 DEF UserSend
  <2> HIDE DEF d
  <2> QED
    BY <2>2, <2>3
<1>3. ASSUME NEW r \in RemoteIds, UserClose(r) PROVE OInv'
  BY <1>3 DEF UserClose, RemoteIds
<1>4. ASSUME NEW l \in LocalIds, UserCloseLocal(l) PROVE OInv'
  BY <1>4 DEF UserCloseLocal, LocalIds
<1> QED
  BY <1>1, <1>2, <1>3, <1>4

\* The commands that change no registry of remotes.
LEMMA TakingOwner ==
  ASSUME IInv, OInv, NEW t \in Threads, DoListen(t) \/ DoSend(t) \/ DoCloseLocal(t)
  PROVE  OInv'
BY TakeStep DEF DoListen, DoSend, DoCloseLocal, Takes, coreVars, userVars, regVars, cbVars, osVars, Births

\* The steps that only move a loop or the outside world.
LEMMA QuietOwner ==
  ASSUME OInv,
         \/ OS
         \/ \E t \in Threads : ReadWouldBlock(t) \/ AcceptEnd(t) \/ \E l \in LocalIds : ProcessAccept(t, l)
         \/ UNCHANGED vars
  PROVE  OInv'
<1>1. UNCHANGED <<coreVars, queue>>
  BY DEF OS, SockConnected, SockRefused, PeerSend, PeerClose, PeerReset, SpuriousEdge, PeerConnect,
         ReadWouldBlock, AcceptEnd, ProcessAccept, coreVars, vars, libVars, osVars, regVars, cbVars
<1> QED
  BY <1>1, CoreUnchanged

\* The ownership invariant holds before the first call.
LEMMA OInvInit == Init => OInv
<1> SUFFICES ASSUME Init PROVE OInv
  OBVIOUS
<1>1. Queued(queue) = {} /\ OneBirth(queue)
  BY DEF Init, Queued, OneBirth
<1>2. Unborn /\ UsedAfterBirth
  BY <1>1 DEF Unborn, UsedAfterBirth
<1>3. Owned /\ FreshIds /\ Told
  BY DEF Init, Owned, FreshIds, Told, Registered
<1>4. EventOrder /\ CallbackBeforeEvents
  BY DEF Init, EventOrder, CallbackBeforeEvents
<1> QED
  BY <1>1, <1>2, <1>3, <1>4 DEF OInv

\* Every step keeps the ownership invariant, given the confinement of threads.
LEMMA OInvStep == IInv /\ OInv /\ [Next]_vars => OInv'
<1> SUFFICES ASSUME IInv, OInv, [Next]_vars PROVE OInv'
  OBVIOUS
<1>1. CASE User
  BY <1>1, UserConnectOwner, PostingOwner DEF User
<1>2. CASE OS \/ UNCHANGED vars
  BY <1>2, QuietOwner
<1>3. ASSUME NEW t \in Threads, Thread(t) PROVE OInv'
  <2>1. CASE DoCommand(t)
    BY <2>1, TakingOwner, DoConnectOwner, RegisterOwner, DoCloseOwner DEF DoCommand
  <2>2. CASE \E r \in RemoteIds : ProcessRead(t, r) \/ ProcessWrite(t, r)
    BY <2>2, ProcessOwner
  <2>3. CASE ReadData(t) \/ ReadEnd(t)
    BY <2>3, ReadOwner
  <2>4. CASE ReadWouldBlock(t) \/ AcceptEnd(t) \/ \E l \in LocalIds : ProcessAccept(t, l)
    BY <2>4, QuietOwner
  <2>5. CASE AcceptOne(t)
    BY <2>5, AcceptOneOwner
  <2> QED
    BY <1>3, <2>1, <2>2, <2>3, <2>4, <2>5 DEF Thread
<1> QED
  BY <1>1, <1>2, <1>3 DEF Next

\* Both invariants hold in every reachable state of every instance.
THEOREM OInvInvariant == Spec => [](IInv /\ OInv)
  BY IInvInit, IInvStep, OInvInit, OInvStep, PTL DEF Spec

-----------------------------------------------------------------------------
(* What follows from the invariants.                                       *)

\* A command in a channel carries the socket of r iff it is a queued carrier.
LEMMA CarriedIsQueued ==
  ASSUME IInv, NEW r
  PROVE  Carried(r) <=> \E c \in Queued(queue) : c.op \in Carriers /\ c.id = r
<1>1. \A t \in Threads : DOMAIN queue[t] = 1 .. Len(queue[t])
  BY LenProperties DEF IInv, WellPlaced
<1>2. \A t \in Threads : \A i \in 1 .. Len(queue[t]) : queue[t][i] \in Command
  BY DEF IInv, WellPlaced
<1> QED
  BY <1>1, <1>2 DEF Carried, Carries, Queued, Carriers

\* A socket is held by exactly one place, a command in one channel or the registry
\* of one worker, from connect() or accept() until it is dropped: it is neither
\* leaked nor shared on its way between the master and a worker.
THEOREM OneOwner == Spec => []SocketHasOneOwner
<1>1. IInv /\ OInv => SocketHasOneOwner
  <2> SUFFICES ASSUME IInv, OInv, NEW r \in RemoteIds
               PROVE  /\ r \in open <=> Carried(r) \/ Registered(r)
                      /\ ~(Carried(r) /\ Registered(r))
                      /\ \A t, u \in Threads : r \in remotes[t] /\ r \in remotes[u] => t = u
                      /\ \A t, u \in Threads : \A i \in DOMAIN queue[t], j \in DOMAIN queue[u] :
                             Carries(t, i, r) /\ Carries(u, j, r) => t = u /\ i = j
    BY DEF SocketHasOneOwner
  <2>1. r \in open <=> Carried(r) \/ Registered(r)
    BY CarriedIsQueued DEF OInv, Owned, Unborn, Births, Carriers
  <2>2. ~(Carried(r) /\ Registered(r))
    BY CarriedIsQueued DEF OInv, Unborn, Births, Carriers
  <2>3. \A t, u \in Threads : r \in remotes[t] /\ r \in remotes[u] => t = u
    BY DEF IInv, Confinement
  <2>4. \A t, u \in Threads : \A i \in DOMAIN queue[t], j \in DOMAIN queue[u] :
            Carries(t, i, r) /\ Carries(u, j, r) => t = u /\ i = j
    <3>1. \A t \in Threads : DOMAIN queue[t] = 1 .. Len(queue[t])
      BY LenProperties DEF IInv, WellPlaced
    <3> QED
      BY <3>1 DEF OInv, OneBirth, Births, Carries
  <2> QED
    BY <2>1, <2>2, <2>3, <2>4
<1> QED
  BY <1>1, OInvInvariant, PTL

\* Every remote's events start with the opening event of its kind and stop with
\* the event that ends it, whatever the interleaving of commands and polls.
THEOREM EventsInOrder == Spec => []EventOrder
<1>1. OInv => EventOrder
  BY DEF OInv
<1> QED
  BY <1>1, OInvInvariant, PTL

\* No event of an outgoing connection reaches the user before the callback of
\* connect_with has told the user its endpoint.
THEOREM CallbackFirst == Spec => []CallbackBeforeEvents
<1>1. OInv => CallbackBeforeEvents
  BY DEF OInv
<1> QED
  BY <1>1, OInvInvariant, PTL

\* A remote whose last event has been delivered is in no registry, has no socket
\* and none on its way: an ended connection cannot come back to life.
THEOREM RemovedWhenEnded == Spec => []EndedIsRemoved
<1>1. IInv /\ OInv => EndedIsRemoved
  <2> SUFFICES ASSUME IInv, OInv, NEW r \in RemoteIds, Ended(r)
               PROVE  ~Registered(r) /\ r \notin open /\ ~Carried(r)
    BY DEF EndedIsRemoved
  <2>1. events[r] # <<>>
    BY DEF Ended
  <2>2. ~Registered(r)
    BY <2>1 DEF OInv, Told
  <2>3. ~Carried(r)
    BY <2>1, CarriedIsQueued DEF OInv, Unborn, Births, Carriers
  <2> QED
    BY <2>2, <2>3, CarriedIsQueued DEF OInv, Owned
<1> QED
  BY <1>1, OInvInvariant, PTL

\* No Send or Close waits in a channel together with the command that registers
\* its remote: the user learns an id too late to overtake its registration.
THEOREM NoOvertaking == Spec => []NoCommandBeforeRegistration
<1>1. IInv /\ OInv => NoCommandBeforeRegistration
  <2> SUFFICES ASSUME IInv, OInv, NEW t \in Threads, NEW i \in DOMAIN queue[t],
                      queue[t][i].op \in {"Send", "Close"}
               PROVE  ~Carried(queue[t][i].id)
    BY DEF NoCommandBeforeRegistration
  <2>1. queue[t][i] \in Queued(queue)
    BY LenProperties DEF IInv, WellPlaced, Queued
  <2>2. NoBirth(queue, queue[t][i].id)
    BY <2>1 DEF OInv, UsedAfterBirth
  <2> QED
    BY <2>2, CarriedIsQueued DEF NoBirth, Births, Carriers
<1> QED
  BY <1>1, OInvInvariant, PTL

\* A step that delivers an event of a remote takes place while the remote is
\* registered: after process_close has removed it, nothing more is told.
THEOREM SilentWhenGone == Spec => EventsOnlyWhileRegistered
<1>1. IInv /\ [Next]_vars => [\A r \in RemoteIds : events'[r] # events[r] => Registered(r)]_vars
  <2> SUFFICES ASSUME IInv, Next, NEW r \in RemoteIds, events'[r] # events[r]
               PROVE  Registered(r)
    OBVIOUS
  <2> USE DEF libVars, Registered
  <2>1. ~User
    BY DEF User, UserConnect, UserListen, UserSend, UserClose, UserCloseLocal
  <2>2. ~OS
    BY DEF OS, SockConnected, SockRefused, PeerSend, PeerClose, PeerReset, SpuriousEdge, PeerConnect
  <2>3. PICK t \in Threads : Thread(t)
    BY <2>1, <2>2 DEF Next
  <2>4. ~DoCommand(t)
    BY DEF DoCommand, DoListen, DoConnect, DoAcceptRegister, DoConnectRegister, DoSend, DoClose,
           DoCloseLocal
  <2>5. ASSUME NEW q \in RemoteIds, ProcessRead(t, q) \/ ProcessWrite(t, q) PROVE Registered(r)
    BY <2>5 DEF ProcessRead, ProcessWrite, ResolvePending, Emit, IInv, TypeOK, OutputTypeOK
  <2>6. CASE ReadData(t) \/ ReadEnd(t)
    <3>1. act[t].id \in remotes[t]
      BY <2>6 DEF ReadData, ReadEnd, IInv, Confinement
    <3>2. act[t].id = r
      BY <2>6 DEF ReadData, ReadEnd, Emit, IInv, TypeOK, OutputTypeOK
    <3> QED
      BY <3>1, <3>2
  <2> QED
    BY <2>3, <2>4, <2>5, <2>6 DEF Thread, ReadWouldBlock, ProcessAccept, AcceptOne, AcceptEnd
<1> QED
  BY <1>1, IInvInvariant, PTL DEF Spec, EventsOnlyWhileRegistered

\* A remote that is not registered becomes registered only before its first event
\* and with a live socket: once removed, it is removed for good.
THEOREM GoneForGood == Spec => NeverRegisteredAgain
<1> DEFINE A(r) == ~Registered(r) /\ Registered(r)' => events[r] = <<>> /\ r \in open
<1>1. IInv /\ OInv /\ [Next]_vars => [\A r \in RemoteIds : A(r)]_vars
  <2> SUFFICES ASSUME IInv, OInv, Next, NEW r \in RemoteIds, ~Registered(r), Registered(r)'
               PROVE  events[r] = <<>> /\ r \in open
    OBVIOUS
  <2> USE DEF libVars, regVars, Registered
  <2>1. ~User
    BY DEF User, UserConnect, UserListen, UserSend, UserClose, UserCloseLocal
  <2>2. ~OS
    BY DEF OS, SockConnected, SockRefused, PeerSend, PeerClose, PeerReset, SpuriousEdge, PeerConnect
  <2>3. PICK t \in Threads : Thread(t)
    BY <2>1, <2>2 DEF Next
  <2>4. ASSUME NEW q, Deregister(t, q)  PROVE FALSE
    BY <2>4 DEF Deregister, IInv, TypeOK, RegistryTypeOK
  <2>5. remotes' # remotes
    OBVIOUS
  <2>6. ~\E q \in RemoteIds : ProcessRead(t, q) \/ ProcessWrite(t, q)
    BY <2>4, <2>5 DEF ProcessRead, ProcessWrite, ResolvePending
  <2>7. ~ReadData(t) /\ ~ReadEnd(t) /\ ~ReadWouldBlock(t)
    BY <2>4, <2>5 DEF ReadData, ReadEnd, ReadWouldBlock
  <2>8. ~\E l \in LocalIds : ProcessAccept(t, l)
    BY <2>5 DEF ProcessAccept
  <2>9. ~AcceptOne(t) /\ ~AcceptEnd(t)
    BY <2>5 DEF AcceptOne, AcceptEnd
  <2>10. ~DoClose(t) /\ ~DoCloseLocal(t)
    BY <2>4, <2>5 DEF DoClose, DoCloseLocal
  <2>11. ~DoSend(t) /\ ~DoListen(t) /\ ~DoConnect(t)
    BY <2>5 DEF DoSend, DoListen, DoConnect
  <2>12. DoAcceptRegister(t) \/ DoConnectRegister(t)
    BY <2>3, <2>6, <2>7, <2>8, <2>9, <2>10, <2>11 DEF Thread, DoCommand
  <2> DEFINE c == Head(queue[t])
  <2>13. /\ queue[t] # <<>> /\ c.op \in Carriers
        /\ remotes' = [remotes EXCEPT ![t] = @ \cup {c.id}]
    BY <2>12 DEF DoAcceptRegister, DoConnectRegister, Takes, Carriers, Register
  <2>14. c.id = r
    BY <2>13 DEF IInv, TypeOK, RegistryTypeOK
  <2>15. c \in Queued(queue)
    BY <2>13, TakeQueued DEF IInv, WellPlaced
  <2> QED
    BY <2>13, <2>14, <2>15 DEF OInv, Unborn, Births, Carriers
<1> QED
  BY <1>1, OInvInvariant, PTL DEF Spec, NeverRegisteredAgain

\* For any number of threads and connections: the events of an endpoint come in the
\* order net_event.rs promises, and after the connect callback.
THEOREM EndpointProtocolHolds == Spec => []EndpointProtocol
BY EventsInOrder, CallbackFirst, PTL DEF EndpointProtocol

\* For any number of threads and connections: an open socket is held by one registry or
\* by one registration in flight, an ended one by nobody, and no send or close is ahead
\* of the registration of its remote.
THEOREM OwnershipHolds == Spec => []Ownership
BY OneOwner, RemovedWhenEnded, NoOvertaking, PTL DEF Ownership

\* For any number of threads and connections: a remote that process_close, or its end,
\* has removed is not told of again and does not come back.
THEOREM SilentOnceGoneHolds == Spec => SilentOnceGone
BY SilentWhenGone, GoneForGood, PTL DEF SilentOnceGone

-----------------------------------------------------------------------------
(***************************************************************************)
(* Delivery: what was sent is written in order and before the close that   *)
(* follows it, and what the peer sent is handed over before its end is.    *)
(*                                                                         *)
(* All commands of a remote wait in one channel (WellPlaced), so the       *)
(* numbers of its sends grow along that channel and exceed what has been   *)
(* written; a send made before the first close() has no Close of its       *)
(* remote ahead of it.  For the other direction, chunks are either unread  *)
(* in the socket or among the events.                                      *)
(***************************************************************************)

\* The numbers of the sends of one remote grow along its channel.
SendOrder(q) ==
    \A t \in Threads : \A i, j \in 1 .. Len(q[t]) :
        /\ i < j /\ q[t][i].op = "Send" /\ q[t][j].op = "Send"
        /\ q[t][i].id = q[t][j].id
        => q[t][i].arg < q[t][j].arg

IsCloseOf(c, r) == c.op = "Close" /\ c.id = r

\* Send number n of r is in its channel, and no Close of r is ahead of it.
SafeQueued(q, r, n) ==
    \E i \in 1 .. Len(q[Worker(r)]) :
        /\ q[Worker(r)][i] = Cmd("Send", r, n)
        /\ \A j \in 1 .. i - 1 : ~IsCloseOf(q[Worker(r)][j], r)

\* What is queued was posted and comes after what has been written.
Numbered ==
    \A c \in Queued(queue) : c.op = "Send" =>
        /\ c.arg <= sends[c.id]
        /\ \A k \in DOMAIN written[c.id] : written[c.id][k] < c.arg

WrittenWasPosted ==
    \A r \in RemoteIds : \A k \in DOMAIN written[r] : written[r][k] <= sends[r]

\* A Close in a channel was asked for, and an open connection leaves its registry by a
\* Close or by its end.
CloseAsked ==
    /\ \A c \in Queued(queue) : c.op = "Close" => closes[c.id] > 0
    /\ \A r \in RemoteIds : events[r] # <<>> /\ ~Ended(r) /\ closes[r] = 0 => Registered(r)

\* A safe send is written, or waits with its remote still registered and no Close
\* ahead of it.
SafeKept ==
    \A r \in RemoteIds :
        /\ events[r] = <<>> => safeSends[r] = {}
        /\ events[r] # <<>> /\ ~Ended(r) /\ sock[r].end # "reset" /\ ~WriteMayFail =>
           \A n \in safeSends[r] :
               \/ \E k \in DOMAIN written[r] : written[r][k] = n
               \/ Registered(r) /\ SafeQueued(queue, r, n)

\* The inductive invariant of the sends.
DInv == /\ SendOrder(queue) /\ Numbered /\ WrittenWasPosted /\ SendsInOrder
        /\ CloseAsked /\ SafeKept

-----------------------------------------------------------------------------
(* The channels.                                                           *)

\* What Post does to the order of the sends in the channels: what is queued keeps its
\* place, and the new command comes last.
LEMMA PostSends ==
  ASSUME NEW q \in [Threads -> Seq(Command)], NEW t \in Threads, NEW c \in Command
  PROVE  /\ \A r \in RemoteIds : \A n : SafeQueued(q, r, n) => SafeQueued(Post(q, t, c), r, n)
         /\ /\ SendOrder(q)
            /\ c.op = "Send" => \A d \in Queued(q) : d.op = "Send" /\ d.id = c.id => d.arg < c.arg
            => SendOrder(Post(q, t, c))
         /\ \A r \in RemoteIds : \A n :
                /\ t = Worker(r) /\ c = Cmd("Send", r, n)
                /\ \A d \in Queued(q) : ~IsCloseOf(d, r)
                => SafeQueued(Post(q, t, c), r, n)
<1> DEFINE p == Post(q, t, c)
<1>1. /\ q[t] \in Seq(Command) /\ Len(q[t]) \in Nat
      /\ Len(Append(q[t], c)) = Len(q[t]) + 1
      /\ \A i \in 1 .. Len(q[t]) : Append(q[t], c)[i] = q[t][i]
      /\ Append(q[t], c)[Len(q[t]) + 1] = c
  BY AppendProperties, LenProperties
<1>2. p[t] = Append(q[t], c) /\ \A u \in Threads : u # t => p[u] = q[u]
  BY DEF Post
<1>3. \A u \in Threads : Len(q[u]) \in Nat
  BY LenProperties
<1>4. \A u \in Threads : \A i \in 1 .. Len(q[u]) : q[u][i] \in Queued(q)
  BY DEF Queued
<1> HIDE DEF p
<1>5. \A u \in Threads : \A i \in 1 .. Len(q[u]) : i \in 1 .. Len(p[u]) /\ p[u][i] = q[u][i]
  BY <1>1, <1>2
<1>6. \A u \in Threads : \A i \in 1 .. Len(p[u]) :
          \/ i \in 1 .. Len(q[u]) /\ p[u][i] = q[u][i]
          \/ u = t /\ i = Len(q[t]) + 1 /\ p[u][i] = c
  BY <1>1, <1>2
<1>7. ASSUME NEW r \in RemoteIds, NEW n, SafeQueued(q, r, n)
      PROVE  SafeQueued(p, r, n)
  <2> DEFINE w == Worker(r)
  <2>1. w \in Threads
    BY RemoteIsServed
  <2> HIDE DEF w
  <2>2. PICK i \in 1 .. Len(q[w]) : q[w][i] = Cmd("Send", r, n)
                                    /\ \A j \in 1 .. i - 1 : ~IsCloseOf(q[w][j], r)
    BY <1>7 DEF SafeQueued, w
  <2>3. i \in 1 .. Len(p[w]) /\ p[w][i] = Cmd("Send", r, n)
    BY <2>1, <2>2, <1>5
  <2>4. \A j \in 1 .. i - 1 : p[w][j] = q[w][j]
    BY <2>1, <1>3, <1>5
  <2>5. \A j \in 1 .. i - 1 : ~IsCloseOf(p[w][j], r)
    BY <2>2, <2>4
  <2> QED
    BY <2>3, <2>5 DEF SafeQueued, w
<1>8. ASSUME SendOrder(q),
             c.op = "Send" => \A d \in Queued(q) : d.op = "Send" /\ d.id = c.id => d.arg < c.arg
      PROVE  SendOrder(p)
  <2> SUFFICES ASSUME NEW u \in Threads, NEW i \in 1 .. Len(p[u]), NEW j \in 1 .. Len(p[u]),
                      i < j, p[u][i].op = "Send", p[u][j].op = "Send", p[u][i].id = p[u][j].id
               PROVE  p[u][i].arg < p[u][j].arg
    BY DEF SendOrder
  <2>1. CASE j \in 1 .. Len(q[u]) /\ p[u][j] = q[u][j]
    <3>0. i \in 1 .. Len(q[u])
      BY <2>1, <1>3
    <3>1. i \in 1 .. Len(q[u]) /\ p[u][i] = q[u][i]
      BY <3>0, <1>5
    <3> QED
      BY <2>1, <3>1, <1>8 DEF SendOrder
  <2>2. CASE u = t /\ j = Len(q[t]) + 1 /\ p[u][j] = c
    <3>0. i \in 1 .. Len(q[u])
      BY <2>2, <1>1
    <3>1. i \in 1 .. Len(q[u]) /\ p[u][i] = q[u][i]
      BY <3>0, <1>5
    <3> QED
      BY <2>2, <3>1, <1>4, <1>8
  <2> QED
    BY <1>6, <2>1, <2>2
<1>9. ASSUME NEW r \in RemoteIds, NEW n, t = Worker(r), c = Cmd("Send", r, n),
             \A d \in Queued(q) : ~IsCloseOf(d, r)
      PROVE  SafeQueued(p, r, n)
  <2> DEFINE i == Len(q[t]) + 1
  <2>1. i \in 1 .. Len(p[t]) /\ p[t][i] = c
    BY <1>1, <1>2
  <2>2. \A j \in 1 .. i - 1 : j \in 1 .. Len(q[t])
    BY <1>1
  <2>3. \A j \in 1 .. i - 1 : ~IsCloseOf(p[t][j], r)
    BY <2>2, <1>4, <1>5, <1>9
  <2> QED
    BY <2>1, <2>3, <1>9 DEF SafeQueued
<1> QED
  BY <1>7, <1>8, <1>9 DEF p

\* What taking the head of a channel does: the order stays, the head is the lowest send
\* of its remote, and a safe send is still there unless it is the head.
LEMMA TakeSends ==
  ASSUME WellPlaced(queue), NEW t \in Threads, queue[t] # <<>>
  PROVE  /\ SendOrder(queue) =>
                /\ SendOrder(Rest(t))
                /\ Head(queue[t]).op = "Send" =>
                       \A d \in Queued(Rest(t)) : d.op = "Send" /\ d.id = Head(queue[t]).id
                                                  => Head(queue[t]).arg < d.arg
         /\ \A r \in RemoteIds : \A n : SafeQueued(queue, r, n) =>
                /\ ~(t = Worker(r) /\ IsCloseOf(Head(queue[t]), r))
                /\ \/ SafeQueued(Rest(t), r, n)
                   \/ t = Worker(r) /\ Head(queue[t]) = Cmd("Send", r, n)
<1> DEFINE p == Rest(t)
           c == Head(queue[t])
<1>0. queue \in [Threads -> Seq(Command)]
  BY DEF WellPlaced
<1>1. /\ queue[t] \in Seq(Command) /\ Len(queue[t]) \in Nat \ {0}
      /\ c \in Command /\ c = queue[t][1]
      /\ Len(Tail(queue[t])) = Len(queue[t]) - 1
      /\ \A i \in 1 .. Len(Tail(queue[t])) : Tail(queue[t])[i] = queue[t][i + 1]
  BY <1>0, HeadTailProperties, LenProperties, EmptySeq
<1>2. p[t] = Tail(queue[t]) /\ \A u \in Threads : u # t => p[u] = queue[u]
  BY <1>0 DEF Rest
<1>3. \A u \in Threads : Len(queue[u]) \in Nat
  BY <1>0, LenProperties
<1> HIDE DEF p, c
<1>4. /\ Len(p[t]) = Len(queue[t]) - 1
      /\ \A i \in 1 .. Len(p[t]) : i + 1 \in 2 .. Len(queue[t]) /\ p[t][i] = queue[t][i + 1]
  BY <1>1, <1>2
<1>5. \A u \in Threads : u # t => Len(p[u]) = Len(queue[u]) /\ p[u] = queue[u]
  BY <1>2
<1>6. ASSUME SendOrder(queue) PROVE SendOrder(p)
  <2> SUFFICES ASSUME NEW u \in Threads, NEW i \in 1 .. Len(p[u]), NEW j \in 1 .. Len(p[u]),
                      i < j, p[u][i].op = "Send", p[u][j].op = "Send", p[u][i].id = p[u][j].id
               PROVE  p[u][i].arg < p[u][j].arg
    BY DEF SendOrder
  <2>1. CASE u = t
    <3>1. /\ i + 1 \in 1 .. Len(queue[t]) /\ p[t][i] = queue[t][i + 1]
          /\ j + 1 \in 1 .. Len(queue[t]) /\ p[t][j] = queue[t][j + 1] /\ i + 1 < j + 1
      BY <2>1, <1>1, <1>4
    <3> QED
      BY <2>1, <3>1, <1>6 DEF SendOrder
  <2>2. CASE u # t
    BY <2>2, <1>5, <1>6 DEF SendOrder
  <2> QED
    BY <2>1, <2>2
<1>7. ASSUME SendOrder(queue), c.op = "Send", NEW d \in Queued(p), d.op = "Send", d.id = c.id
      PROVE  c.arg < d.arg
  <2>0. PICK u \in Threads : \E i \in 1 .. Len(p[u]) : p[u][i] = d
    BY DEF Queued
  <2>1. PICK i \in 1 .. Len(p[u]) : p[u][i] = d
    BY <2>0
  <2>2. \A v \in Threads : \A k \in 1 .. Len(queue[v]) :
            queue[v][k].op = "Send" => v = Worker(queue[v][k].id)
    BY DEF WellPlaced, Placed, MasterOps
  <2>3. t = Worker(c.id)
    BY <1>1, <1>7, <2>2
  <2>4. u = t
    BY <2>1, <2>2, <2>3, <1>5, <1>7
  <2>5. i + 1 \in 1 .. Len(queue[t]) /\ queue[t][i + 1] = d /\ 1 < i + 1
    BY <2>1, <2>4, <1>1, <1>4
  <2>6. 1 \in 1 .. Len(queue[t])
    BY <1>1
  <2> QED
    BY <2>5, <2>6, <1>1, <1>7 DEF SendOrder
<1>8. ASSUME NEW r \in RemoteIds, NEW n, SafeQueued(queue, r, n)
      PROVE  /\ ~(t = Worker(r) /\ IsCloseOf(c, r))
             /\ SafeQueued(p, r, n) \/ (t = Worker(r) /\ c = Cmd("Send", r, n))
  <2> DEFINE w == Worker(r)
  <2>1. w \in Threads
    BY RemoteIsServed
  <2> HIDE DEF w
  <2>2. PICK i \in 1 .. Len(queue[w]) : queue[w][i] = Cmd("Send", r, n)
                                        /\ \A j \in 1 .. i - 1 : ~IsCloseOf(queue[w][j], r)
    BY <1>8 DEF SafeQueued, w
  <2>3. CASE t # w
    BY <2>1, <2>2, <2>3, <1>5 DEF SafeQueued, w
  <2>4. CASE t = w /\ i = 1
    BY <2>2, <2>4, <1>1 DEF w, IsCloseOf, Cmd
  <2>5. CASE t = w /\ i # 1
    <3>1. 1 \in 1 .. i - 1 /\ i - 1 \in 1 .. Len(p[t]) /\ (i - 1) + 1 = i
      BY <2>5, <1>1, <1>4
    <3>2. ~IsCloseOf(c, r) /\ p[t][i - 1] = Cmd("Send", r, n)
      BY <2>2, <2>5, <3>1, <1>1, <1>4
    <3>3. \A j \in 1 .. (i - 1) - 1 : j + 1 \in 1 .. i - 1 /\ p[t][j] = queue[t][j + 1]
      BY <3>1, <1>1, <1>4
    <3>4. \A j \in 1 .. (i - 1) - 1 : ~IsCloseOf(p[t][j], r)
      BY <2>2, <2>5, <3>3
    <3> QED
      BY <2>5, <3>1, <3>2, <3>4 DEF SafeQueued, w
  <2> QED
    BY <2>3, <2>4, <2>5
<1> QED
  BY <1>6, <1>7, <1>8 DEF p, c

-----------------------------------------------------------------------------
(* Sends: one lemma per kind of step.                                      *)

sendVars == <<sends, written, safeSends, closes>>

\* What a step that neither sends nor closes may do to remote r: end it, open it, or
\* leave it where it was.
CarriesOn(r) ==
    \/ events[r] = <<>> /\ events'[r] = <<>>
    \/ events[r] = <<>> /\ Registered(r)'
    \/ events'[r] # <<>> /\ Ended(r)'
    \/ /\ events[r] # <<>> /\ events'[r] # <<>> /\ ~Ended(r)
       /\ Registered(r) => Registered(r)'
       /\ sock[r].end = "reset" => sock'[r].end = "reset"

\* A step that neither posts nor handles a Send or a Close keeps the invariant.
LEMMA OtherStep ==
  ASSUME IInv, DInv, UNCHANGED sendVars, SendOrder(queue'),
         \A c \in Queued(queue') : c.op \in {"Send", "Close"} => c \in Queued(queue),
         \A r \in RemoteIds : \A n : SafeQueued(queue, r, n) => SafeQueued(queue', r, n),
         \A r \in RemoteIds : CarriesOn(r)
  PROVE  DInv'
<1> USE DEF sendVars
<1>1. Numbered' /\ WrittenWasPosted' /\ SendsInOrder'
  BY DEF DInv, Numbered, WrittenWasPosted, SendsInOrder
<1>2. CloseAsked'
  <2>1. \A c \in Queued(queue') : c.op = "Close" => closes'[c.id] > 0
    BY DEF DInv, CloseAsked
  <2>2. ASSUME NEW r \in RemoteIds, events'[r] # <<>>, ~Ended(r)', closes'[r] = 0
        PROVE  Registered(r)'
    BY <2>2 DEF DInv, CloseAsked, CarriesOn
  <2> QED
    BY <2>1, <2>2 DEF CloseAsked
<1>3. SafeKept'
  <2> SUFFICES ASSUME NEW r \in RemoteIds
               PROVE  /\ events'[r] = <<>> => safeSends'[r] = {}
                      /\ events'[r] # <<>> /\ ~Ended(r)' /\ sock'[r].end # "reset" /\ ~WriteMayFail =>
                         \A n \in safeSends'[r] :
                            \/ \E k \in DOMAIN written'[r] : written'[r][k] = n
                            \/ Registered(r)' /\ SafeQueued(queue', r, n)
    BY DEF SafeKept
  <2>1. CASE events[r] = <<>>
    BY <2>1 DEF DInv, SafeKept, CarriesOn
  <2>2. CASE events'[r] # <<>> /\ Ended(r)'
    BY <2>2
  <2>3. CASE /\ events[r] # <<>> /\ events'[r] # <<>> /\ ~Ended(r)
             /\ Registered(r) => Registered(r)'
             /\ sock[r].end = "reset" => sock'[r].end = "reset"
    BY <2>3 DEF DInv, SafeKept
  <2> QED
    BY <2>1, <2>2, <2>3 DEF CarriesOn
<1> QED
  BY <1>1, <1>2, <1>3 DEF DInv

\* send(): the new command has the highest number; if it is safe, its remote is
\* registered and no Close of it is queued.
LEMMA UserSendDelivery ==
  ASSUME IInv, OInv, DInv, NEW r \in RemoteIds, UserSend(r)
  PROVE  DInv'
<1> USE DEF regVars, cbVars, osVars
<1> DEFINE n == sends[r] + 1
           c == Cmd("Send", r, n)
<1>1. /\ UNCHANGED <<written, closes, events, sock, remotes>>
      /\ queue' = Post(queue, Worker(r), c)
      /\ sends' = [sends EXCEPT ![r] = n]
      /\ safeSends' = IF events[r] # <<>> /\ closes[r] = 0
                      THEN [safeSends EXCEPT ![r] = @ \cup {n}] ELSE safeSends
  BY DEF UserSend
<1>2. /\ sends \in [RemoteIds -> Nat] /\ n \in Nat /\ n > sends[r]
      /\ c \in Command /\ c.op = "Send" /\ c.id = r /\ c.arg = n
      /\ Worker(r) \in Threads /\ queue \in [Threads -> Seq(Command)]
      /\ safeSends \in [RemoteIds -> SUBSET Nat]
  <2>1. sends \in [RemoteIds -> Nat] /\ safeSends \in [RemoteIds -> SUBSET Nat]
    BY DEF IInv, TypeOK, UserTypeOK
  <2>2. c \in Command /\ c.op = "Send" /\ c.id = r /\ c.arg = n
    BY <2>1 DEF RemoteIds, Cmd, Command, RemoteOps
  <2> QED
    BY <2>1, <2>2, RemoteIsServed DEF IInv, WellPlaced
<1>3. \A d \in Queued(queue) : d.op \in {"Send", "Close"} => d.id \in RemoteIds /\ d.arg \in Nat
  BY DEF IInv, WellPlaced, Placed, Queued, Command, MasterOps
<1>4. \A q \in RemoteIds : \A k \in DOMAIN written[q] : written[q][k] \in Nat
  BY DEF IInv, TypeOK, OutputTypeOK
<1>5. \A q \in RemoteIds : sends[q] <= sends'[q]
  BY <1>1, <1>2
<1> HIDE DEF n, c
<1>6. Queued(queue') = Queued(queue) \cup {c}
  BY <1>1, <1>2, PostQueued
<1>7. SendOrder(queue')
  <2>1. \A d \in Queued(queue) : d.op = "Send" /\ d.id = c.id => d.arg < c.arg
    BY <1>2, <1>3 DEF DInv, Numbered
  <2> QED
    BY <2>1, <1>1, <1>2, PostSends DEF DInv
<1>8. Numbered'
  <2> SUFFICES ASSUME NEW d \in Queued(queue'), d.op = "Send"
               PROVE  /\ d.arg <= sends'[d.id]
                      /\ \A k \in DOMAIN written[d.id] : written[d.id][k] < d.arg
    BY <1>1 DEF Numbered
  <2>1. CASE d \in Queued(queue)
    BY <2>1, <1>2, <1>3, <1>1 DEF DInv, Numbered
  <2>2. CASE d = c
    BY <2>2, <1>1, <1>2, <1>4 DEF DInv, WrittenWasPosted
  <2> QED
    BY <2>1, <2>2, <1>6
<1>9. WrittenWasPosted' /\ SendsInOrder'
  BY <1>1, <1>2, <1>4 DEF DInv, WrittenWasPosted, SendsInOrder
<1>10. CloseAsked'
  BY <1>1, <1>2, <1>6 DEF DInv, CloseAsked, Ended, Registered
<1>11. SafeKept'
  <2> SUFFICES ASSUME NEW q \in RemoteIds
               PROVE  /\ events[q] = <<>> => safeSends'[q] = {}
                      /\ events[q] # <<>> /\ ~Ended(q) /\ sock[q].end # "reset" /\ ~WriteMayFail =>
                         \A m \in safeSends'[q] :
                            \/ \E k \in DOMAIN written[q] : written[q][k] = m
                            \/ Registered(q) /\ SafeQueued(queue', q, m)
    BY <1>1 DEF SafeKept, Ended, Registered
  <2>1. \A m : SafeQueued(queue, q, m) => SafeQueued(queue', q, m)
    BY <1>1, <1>2, PostSends
  <2>2. CASE safeSends'[q] = safeSends[q]
    BY <2>1, <2>2 DEF DInv, SafeKept
  <2>3. CASE safeSends'[q] # safeSends[q]
    <3>1. q = r /\ events[r] # <<>> /\ closes[r] = 0 /\ safeSends'[r] = safeSends[r] \cup {n}
      BY <2>3, <1>1, <1>2
    <3>2. \A d \in Queued(queue) : ~IsCloseOf(d, r)
      BY <3>1 DEF DInv, CloseAsked, IsCloseOf
    <3>3. SafeQueued(queue', r, n)
      BY <3>2, <1>1, <1>2, PostSends DEF c
    <3>4. ~Ended(r) => Registered(r)
      BY <3>1 DEF DInv, CloseAsked
    <3> QED
      BY <2>1, <3>1, <3>3, <3>4 DEF DInv, SafeKept
  <2> QED
    BY <2>2, <2>3
<1> QED
  BY <1>7, <1>8, <1>9, <1>10, <1>11 DEF DInv

\* close() of a remote: the Close is posted behind every send made before it.
LEMMA UserCloseDelivery ==
  ASSUME IInv, DInv, NEW r \in RemoteIds, UserClose(r)
  PROVE  DInv'
<1> USE DEF regVars, cbVars, osVars
<1> DEFINE c == Cmd("Close", r, 0)
<1>1. /\ UNCHANGED <<sends, written, safeSends, events, sock, remotes>>
      /\ queue' = Post(queue, Worker(r), c)
      /\ closes' = [closes EXCEPT ![r] = @ + 1]
  BY DEF UserClose
<1>2. /\ closes \in [RemoteIds -> Nat]
      /\ c \in Command /\ c.op = "Close" /\ c.id = r
      /\ Worker(r) \in Threads /\ queue \in [Threads -> Seq(Command)]
  <2>1. closes \in [RemoteIds -> Nat]
    BY DEF IInv, TypeOK, UserTypeOK
  <2>2. c \in Command /\ c.op = "Close" /\ c.id = r
    BY DEF RemoteIds, Cmd, Command, RemoteOps
  <2> QED
    BY <2>1, <2>2, RemoteIsServed DEF IInv, WellPlaced
<1>3. \A d \in Queued(queue) : d.op = "Close" => d.id \in RemoteIds
  BY DEF IInv, WellPlaced, Placed, Queued, MasterOps
<1> HIDE DEF c
<1>4. Queued(queue') = Queued(queue) \cup {c} /\ SendOrder(queue')
  BY <1>1, <1>2, PostQueued, PostSends DEF DInv
<1>5. \A q \in RemoteIds : \A n : SafeQueued(queue, q, n) => SafeQueued(queue', q, n)
  BY <1>1, <1>2, PostSends
<1>6. Numbered' /\ WrittenWasPosted' /\ SendsInOrder'
  BY <1>1, <1>2, <1>4 DEF DInv, Numbered, WrittenWasPosted, SendsInOrder
<1>7. CloseAsked'
  <2>1. closes'[r] > 0 /\ \A q \in RemoteIds : closes'[q] >= closes[q]
    BY <1>1, <1>2
  <2>2. \A q \in RemoteIds : closes'[q] = 0 => closes[q] = 0
    BY <1>1, <1>2
  <2>3. \A d \in Queued(queue') : d.op = "Close" => closes'[d.id] > 0
    BY <1>1, <1>2, <1>3, <1>4, <2>1 DEF DInv, CloseAsked
  <2> QED
    BY <2>2, <2>3, <1>1 DEF DInv, CloseAsked, Ended, Registered
<1>8. SafeKept'
  BY <1>1, <1>5 DEF DInv, SafeKept, Ended, Registered
<1> QED
  BY <1>4, <1>6, <1>7, <1>8 DEF DInv

\* process_send: the head of the channel is the lowest send of its remote that is not
\* yet written; a safe one finds its remote registered and ready, and is written.
LEMMA DoSendDelivery ==
  ASSUME IInv, OInv, DInv, NEW t \in Threads, DoSend(t)
  PROVE  DInv'
<1> USE DEF userVars, regVars, osVars
<1> DEFINE c == Head(queue[t])
           r == c.id
           Sent == written' = [written EXCEPT ![r] = Append(@, c.arg)]
<1>1. /\ queue[t] # <<>> /\ c.op = "Send" /\ queue' = Rest(t)
      /\ UNCHANGED <<sends, safeSends, closes, events, sock, remotes>>
      /\ Sent \/ written' = written
      /\ r \in remotes[t] /\ ready[r] /\ sock[r].end # "reset" /\ ~WriteMayFail => Sent
  BY DEF DoSend, Takes, SendResults
<1>2. r \in RemoteIds /\ t = Worker(r) /\ c \in Command /\ c.arg \in Nat
  BY <1>1, TakePlaced DEF IInv, Placed, MasterOps, Command
<1>3. Queued(queue) = Queued(queue') \cup {c} /\ SendOrder(queue')
  BY <1>1, TakeQueued, TakeSends DEF IInv, WellPlaced, DInv
<1>4. \A d \in Queued(queue') : d.op = "Send" /\ d.id = r => c.arg < d.arg
  BY <1>1, TakeSends DEF IInv, DInv
<1>5. /\ \A d \in Queued(queue) : d.op \in {"Send", "Close"} => d.id \in RemoteIds /\ d.arg \in Nat
      /\ sends[r] \in Nat
  <2>1. \A d \in Queued(queue) : d.op \in {"Send", "Close"} => d.id \in RemoteIds /\ d.arg \in Nat
    BY DEF IInv, WellPlaced, Placed, Queued, Command, MasterOps
  <2>2. sends[r] \in Nat
    BY <1>2 DEF IInv, TypeOK, UserTypeOK
  <2> QED
    BY <2>1, <2>2
<1>6. \A q \in RemoteIds : written[q] \in Seq(Nat) /\ DOMAIN written[q] = 1 .. Len(written[q])
                           /\ Len(written[q]) \in Nat
  BY LenProperties DEF IInv, TypeOK, OutputTypeOK
<1>7. ASSUME Sent
      PROVE  /\ \A q \in RemoteIds : q # r => written'[q] = written[q]
             /\ DOMAIN written'[r] = 1 .. Len(written[r]) + 1
             /\ \A k \in 1 .. Len(written[r]) : written'[r][k] = written[r][k]
             /\ written'[r][Len(written[r]) + 1] = c.arg
  <2>1. written'[r] = Append(written[r], c.arg) /\ \A q \in RemoteIds : q # r => written'[q] = written[q]
    BY <1>2, <1>7 DEF IInv, TypeOK, OutputTypeOK
  <2> DEFINE s == written[r]
             a == c.arg
  <2>2. s \in Seq(Nat) /\ Len(s) \in Nat /\ a \in Nat
    BY <1>2, <1>6
  <2> HIDE DEF s, a
  <2>3. /\ Append(s, a) \in Seq(Nat) /\ Len(Append(s, a)) = Len(s) + 1
        /\ \A k \in 1 .. Len(s) : Append(s, a)[k] = s[k]
        /\ Append(s, a)[Len(s) + 1] = a
    BY <2>2, AppendProperties
  <2>4. DOMAIN Append(s, a) = 1 .. Len(s) + 1
    BY <2>3, LenProperties
  <2> QED
    BY <2>1, <2>3, <2>4 DEF s, a
<1> HIDE DEF c, r, Sent
<1>8. /\ c.arg <= sends[r] /\ \A k \in DOMAIN written[r] : written[r][k] < c.arg
  BY <1>1, <1>3 DEF DInv, Numbered, r
<1>9. Numbered'
  <2> SUFFICES ASSUME NEW d \in Queued(queue'), d.op = "Send"
               PROVE  /\ d.arg <= sends[d.id]
                      /\ \A k \in DOMAIN written'[d.id] : written'[d.id][k] < d.arg
    BY <1>1 DEF Numbered
  <2>1. /\ d.arg <= sends[d.id] /\ \A k \in DOMAIN written[d.id] : written[d.id][k] < d.arg
        /\ d.id \in RemoteIds
    BY <1>3, <1>5 DEF DInv, Numbered
  <2>2. CASE written' = written \/ d.id # r
    BY <2>1, <2>2, <1>1, <1>7
  <2>3. CASE Sent /\ d.id = r
    <3>1. c.arg < d.arg
      BY <2>3, <1>4
    <3>2. ASSUME NEW k \in DOMAIN written'[r] PROVE written'[r][k] < d.arg
      <4>1. Len(written[r]) \in Nat /\ DOMAIN written[r] = 1 .. Len(written[r])
        BY <1>2, <1>6
      <4>2. k \in 1 .. Len(written[r]) \/ k = Len(written[r]) + 1
        BY <2>3, <1>7, <4>1
      <4>3. CASE k \in 1 .. Len(written[r])
        BY <2>1, <2>3, <1>7, <4>1, <4>3
      <4>4. CASE k = Len(written[r]) + 1
        BY <2>3, <1>7, <3>1, <4>4
      <4> QED
        BY <4>2, <4>3, <4>4
    <3> QED
      BY <2>1, <2>3, <3>2
  <2> QED
    BY <2>2, <2>3, <1>1
<1>10. WrittenWasPosted'
  <2> SUFFICES ASSUME NEW q \in RemoteIds PROVE \A k \in DOMAIN written'[q] : written'[q][k] <= sends[q]
    BY <1>1 DEF WrittenWasPosted
  <2>1. CASE written' = written \/ q # r
    BY <2>1, <1>1, <1>7 DEF DInv, WrittenWasPosted
  <2>2. CASE Sent /\ q = r
    <3>1. \A k \in 1 .. Len(written[r]) : written'[r][k] <= sends[r]
      BY <2>2, <1>2, <1>6, <1>7 DEF DInv, WrittenWasPosted
    <3>2. \A k \in DOMAIN written'[r] : k \in 1 .. Len(written[r]) \/ k = Len(written[r]) + 1
      BY <2>2, <1>2, <1>6, <1>7
    <3> QED
      BY <2>2, <3>1, <3>2, <1>7, <1>8
  <2> QED
    BY <2>1, <2>2, <1>1
<1>11. SendsInOrder'
  <2> SUFFICES ASSUME NEW q \in RemoteIds, NEW i \in DOMAIN written'[q], NEW j \in DOMAIN written'[q], i < j
               PROVE  written'[q][i] < written'[q][j]
    BY DEF SendsInOrder
  <2>1. CASE written' = written \/ q # r
    BY <2>1, <1>1, <1>7 DEF DInv, SendsInOrder
  <2>2. CASE Sent /\ q = r
    <3>1. i \in 1 .. Len(written[r]) /\ j \in 1 .. Len(written[r]) + 1
      BY <2>2, <1>2, <1>6, <1>7
    <3>2. CASE j = Len(written[r]) + 1
      BY <2>2, <3>1, <3>2, <1>2, <1>6, <1>7, <1>8
    <3>3. CASE j \in 1 .. Len(written[r])
      BY <2>2, <3>1, <3>3, <1>2, <1>6, <1>7 DEF DInv, SendsInOrder
    <3> QED
      <4>1. Len(written[r]) \in Nat
        BY <1>2, <1>6
      <4> QED
        BY <3>1, <3>2, <3>3, <4>1
  <2> QED
    BY <2>1, <2>2, <1>1
<1>12. CloseAsked'
  BY <1>1, <1>3 DEF DInv, CloseAsked, Ended, Registered
<1>13. SafeKept'
  <2> SUFFICES ASSUME NEW q \in RemoteIds, events[q] # <<>>, ~Ended(q), sock[q].end # "reset",
                      ~WriteMayFail, NEW n \in safeSends[q]
               PROVE  \/ \E k \in DOMAIN written'[q] : written'[q][k] = n
                      \/ Registered(q) /\ SafeQueued(queue', q, n)
    BY <1>1 DEF DInv, SafeKept, Ended, Registered
  <2>1. CASE \E k \in DOMAIN written[q] : written[q][k] = n
    <3>1. PICK k \in DOMAIN written[q] : written[q][k] = n
      BY <2>1
    <3>2. k \in DOMAIN written'[q] /\ written'[q][k] = n
      <4>1. CASE written' = written \/ q # r
        BY <3>1, <4>1, <1>1, <1>7
      <4>2. CASE Sent /\ q = r
        <5>1. Len(written[r]) \in Nat /\ k \in 1 .. Len(written[r])
          BY <3>1, <4>2, <1>2, <1>6
        <5>2. k \in DOMAIN written'[r]
          BY <4>2, <5>1, <1>7
        <5> QED
          BY <3>1, <4>2, <5>1, <5>2, <1>7
      <4> QED
        BY <4>1, <4>2, <1>1
    <3> QED
      BY <3>2
  <2>2. CASE Registered(q) /\ SafeQueued(queue, q, n)
    <3>1. CASE SafeQueued(queue', q, n)
      BY <2>2, <3>1
    <3>2. CASE c = Cmd("Send", q, n)
      <4>1. r = q /\ c.arg = n
        BY <3>2 DEF r, Cmd
      <4>2. q \in remotes[t] /\ ready[q]
        BY <2>2, <4>1, <1>2 DEF IInv, Confinement, Registered, OInv, Told
      <4>3. Sent
        BY <4>1, <4>2, <1>1
      <4>4. Len(written[r]) + 1 \in DOMAIN written'[r]
        BY <4>3, <1>2, <1>6, <1>7
      <4> QED
        BY <4>1, <4>3, <4>4, <1>7
    <3> QED
      BY <2>2, <3>1, <3>2, <1>1, TakeSends DEF IInv, c
  <2> QED
    BY <2>1, <2>2 DEF DInv, SafeKept
<1> QED
  BY <1>3, <1>9, <1>10, <1>11, <1>12, <1>13 DEF DInv

\* process_close of a remote: when its turn comes, no safe send of that remote is
\* waiting behind it.
LEMMA DoCloseDelivery ==
  ASSUME IInv, DInv, NEW t \in Threads, DoClose(t)
  PROVE  DInv'
<1> USE DEF userVars
<1> DEFINE c == Head(queue[t])
           r == c.id
<1>1. /\ queue[t] # <<>> /\ c.op = "Close" /\ queue' = Rest(t) /\ Deregister(t, r)
      /\ UNCHANGED <<sends, written, safeSends, closes, events, sock>>
  BY DEF DoClose, Takes
<1>2. r \in RemoteIds /\ t = Worker(r)
  BY <1>1, TakePlaced DEF IInv, Placed, MasterOps
<1>3. Queued(queue) = Queued(queue') \cup {c} /\ SendOrder(queue')
  BY <1>1, TakeQueued, TakeSends DEF IInv, WellPlaced, DInv
<1>4. \A q \in RemoteIds : \A n : SafeQueued(queue, q, n) => q # r /\ SafeQueued(queue', q, n)
  <2>1. \A q \in RemoteIds : \A n : SafeQueued(queue, q, n) =>
            /\ ~(t = Worker(q) /\ IsCloseOf(c, q))
            /\ SafeQueued(queue', q, n) \/ c = Cmd("Send", q, n)
    BY <1>1, TakeSends DEF IInv
  <2>2. IsCloseOf(c, r) /\ \A q, n : c # Cmd("Send", q, n)
    BY <1>1 DEF IsCloseOf, Cmd
  <2> QED
    BY <2>1, <2>2, <1>2
<1> HIDE DEF c, r
<1>5. \A q \in RemoteIds : q # r => (Registered(q)' <=> Registered(q))
  BY <1>1 DEF Deregister, Registered, IInv, TypeOK, RegistryTypeOK
<1>6. Numbered' /\ WrittenWasPosted' /\ SendsInOrder'
  BY <1>1, <1>3 DEF DInv, Numbered, WrittenWasPosted, SendsInOrder
<1>7. closes[r] > 0
  BY <1>1, <1>3 DEF DInv, CloseAsked, r
<1>8. CloseAsked'
  BY <1>1, <1>3, <1>5, <1>7 DEF DInv, CloseAsked, Ended
<1>9. SafeKept'
  BY <1>1, <1>4, <1>5 DEF DInv, SafeKept, Ended
<1> QED
  BY <1>3, <1>6, <1>8, <1>9 DEF DInv

\* A step that changes neither events nor registries nor sockets changes no remote.
LEMMA StillCarriesOn ==
  ASSUME UNCHANGED <<events, remotes>>, NEW r \in RemoteIds,
         events[r] # <<>> /\ sock[r].end = "reset" => sock'[r].end = "reset"
  PROVE  CarriesOn(r)
BY DEF CarriesOn, Ended, Registered

\* The other calls of the user, and accept(), post commands that are no Send or Close.
LEMMA PostingDelivery ==
  ASSUME IInv, OInv, DInv,
         \/ UserConnect \/ UserListen \/ \E l \in LocalIds : UserCloseLocal(l)
         \/ \E t \in Threads : AcceptOne(t)
  PROVE  DInv'
<1> USE DEF userVars, regVars, cbVars, osVars
<1>1. PICK u \in Threads, c \in Command :
          queue' = Post(queue, u, c) /\ c.op \notin {"Send", "Close"}
  <2>1. CASE UserConnect
    BY <2>1, MasterIsThread DEF UserConnect, Cmd, Command, MasterOps, IInv, TypeOK, UserTypeOK
  <2>2. CASE UserListen
    BY <2>2, MasterIsThread DEF UserListen, Cmd, Command, MasterOps, IInv, TypeOK, UserTypeOK
  <2>3. CASE \E l \in LocalIds : UserCloseLocal(l)
    BY <2>3, MasterIsThread DEF UserCloseLocal, Cmd, Command, MasterOps, LocalIds
  <2>4. ASSUME NEW t \in Threads, AcceptOne(t)
        PROVE  \E u \in Threads, c \in Command :
                   queue' = Post(queue, u, c) /\ c.op \notin {"Send", "Close"}
    <3> DEFINE c == Cmd("AcceptRegister", nextRemote, act[t].id)
    <3>1. queue' = Post(queue, Worker(nextRemote), c)
      BY <2>4 DEF AcceptOne
    <3>2. c \in Command /\ c.op = "AcceptRegister"
      BY DEF Cmd, Command, RemoteOps, IInv, TypeOK, UserTypeOK, ThreadTypeOK, Activity
    <3>3. Worker(nextRemote) \in Threads
      BY <2>4, RemoteIsServed DEF AcceptOne, RemoteIds, IInv, TypeOK, UserTypeOK
    <3> QED
      BY <3>1, <3>2, <3>3
  <2> QED
    BY <2>1, <2>2, <2>3, <2>4
<1>2. UNCHANGED sendVars /\ UNCHANGED <<events, remotes>>
  BY DEF UserConnect, UserListen, UserCloseLocal, AcceptOne, sendVars
<1>3. queue \in [Threads -> Seq(Command)]
  BY DEF IInv, WellPlaced
<1>4. /\ SendOrder(queue') /\ Queued(queue') = Queued(queue) \cup {c}
      /\ \A r \in RemoteIds : \A n : SafeQueued(queue, r, n) => SafeQueued(queue', r, n)
  BY <1>1, <1>3, PostSends, PostQueued DEF DInv
<1>5. \A r \in RemoteIds : events[r] # <<>> => sock'[r] = sock[r]
  <2>1. CASE ~\E t \in Threads : AcceptOne(t)
    BY <2>1 DEF UserConnect, UserListen, UserCloseLocal
  <2>2. ASSUME NEW t \in Threads, AcceptOne(t) PROVE \A r \in RemoteIds : events[r] # <<>> => sock'[r] = sock[r]
    <3>1. nextRemote \in RemoteIds /\ sock' = [sock EXCEPT ![nextRemote] = FreshSocket("up")]
      BY <2>2 DEF AcceptOne, IInv, TypeOK, UserTypeOK, RemoteIds
    <3>2. events[nextRemote] = <<>>
      BY <3>1 DEF OInv, FreshIds, RemoteIds
    <3> QED
      BY <3>1, <3>2 DEF IInv, TypeOK, OsTypeOK
  <2> QED
    BY <2>1, <2>2
<1>6. \A r \in RemoteIds : CarriesOn(r)
  BY <1>2, <1>5, StillCarriesOn
<1> QED
  BY <1>1, <1>2, <1>4, <1>6, OtherStep

\* The commands other than Send and Close.
LEMMA TakingDelivery ==
  ASSUME IInv, OInv, DInv, NEW t \in Threads,
         DoListen(t) \/ DoCloseLocal(t) \/ DoAcceptRegister(t) \/ DoConnectRegister(t) \/ DoConnect(t)
  PROVE  DInv'
<1> USE DEF userVars, regVars, cbVars, osVars
<1> DEFINE c == Head(queue[t])
<1>1. queue[t] # <<>> /\ c.op \notin {"Send", "Close"} /\ UNCHANGED sendVars /\ events' = events
  BY DEF DoListen, DoCloseLocal, DoAcceptRegister, DoConnectRegister, DoConnect, Takes, sendVars
<1>2. /\ Rest(t) \in [Threads -> Seq(Command)]
      /\ SendOrder(Rest(t)) /\ Queued(queue) = Queued(Rest(t)) \cup {c}
      /\ \A r \in RemoteIds : \A n : SafeQueued(queue, r, n) => SafeQueued(Rest(t), r, n)
  <2>1. Rest(t) \in [Threads -> Seq(Command)]
    BY <1>1, TakePlaced DEF IInv, WellPlaced
  <2>2. SendOrder(Rest(t)) /\ Queued(queue) = Queued(Rest(t)) \cup {c}
    BY <1>1, TakeQueued, TakeSends DEF IInv, WellPlaced, DInv
  <2>3. \A r, n : c # Cmd("Send", r, n)
    BY <1>1 DEF Cmd
  <2>4. \A r \in RemoteIds : \A n : SafeQueued(queue, r, n) => SafeQueued(Rest(t), r, n)
    BY <1>1, <2>3, TakeSends DEF IInv
  <2> QED
    BY <2>1, <2>2, <2>4
<1>3. CASE DoListen(t) \/ DoCloseLocal(t) \/ DoAcceptRegister(t) \/ DoConnectRegister(t)
  <2>1. queue' = Rest(t) /\ sock' = sock
    BY <1>3 DEF DoListen, DoCloseLocal, DoAcceptRegister, DoConnectRegister
  <2>2. \A r \in RemoteIds : Registered(r) => Registered(r)'
    <3>1. CASE DoListen(t) \/ DoCloseLocal(t)
      BY <3>1 DEF DoListen, DoCloseLocal, Registered
    <3>2. CASE DoAcceptRegister(t) \/ DoConnectRegister(t)
      <4>1. Register(t, c.id, c.arg) \/ Register(t, c.id, NoLocal)
        BY <3>2 DEF DoAcceptRegister, DoConnectRegister
      <4>2. remotes' = [remotes EXCEPT ![t] = @ \cup {c.id}]
        BY <4>1 DEF Register
      <4>3. \A u \in Threads : remotes[u] \subseteq remotes'[u]
        BY <4>2 DEF IInv, TypeOK, RegistryTypeOK
      <4> QED
        BY <4>3, RemoteIsServed DEF Registered
    <3> QED
      BY <1>3, <3>1, <3>2
  <2>3. \A r \in RemoteIds : CarriesOn(r)
    BY <1>1, <2>1, <2>2 DEF CarriesOn, Ended
  <2> QED
    BY <1>1, <1>2, <2>1, <2>3, OtherStep
<1>4. CASE DoConnect(t)
  <2> DEFINE d == Cmd("ConnectRegister", c.id, 0)
  <2>1. c \in Command /\ c.id \in RemoteIds /\ c.op = "Connect"
    BY <1>4, TakePlaced DEF DoConnect, Takes, IInv, Placed, RemoteOps
  <2>2. d \in Command /\ d.op \notin {"Send", "Close"} /\ Worker(c.id) \in Threads
    BY <2>1, RemoteIsServed DEF Cmd, Command, RemoteOps
  <2>3. /\ queue' = Rest(t) \/ queue' = Post(Rest(t), Worker(c.id), d)
        /\ sock' = sock \/ \E conn : sock' = [sock EXCEPT ![c.id] = FreshSocket(conn)]
        /\ remotes' = remotes
    BY <1>4 DEF DoConnect, TcpRemoteConnectWith
  <2>4. events[c.id] = <<>>
    BY <1>2, <2>1 DEF OInv, Unborn, Births
  <2> HIDE DEF c, d
  <2>5. /\ SendOrder(queue') /\ Queued(queue') \subseteq Queued(queue) \cup {d}
        /\ \A r \in RemoteIds : \A n : SafeQueued(Rest(t), r, n) => SafeQueued(queue', r, n)
    <3>1. CASE queue' = Rest(t)
      BY <3>1, <1>2
    <3>2. CASE queue' = Post(Rest(t), Worker(c.id), d)
      BY <3>2, <1>2, <2>2, PostSends, PostQueued
    <3> QED
      BY <2>3, <3>1, <3>2
  <2>6. \A r \in RemoteIds : events[r] # <<>> => sock'[r] = sock[r]
    BY <2>1, <2>3, <2>4 DEF IInv, TypeOK, OsTypeOK
  <2>7. \A r \in RemoteIds : CarriesOn(r)
    BY <1>1, <2>3, <2>6, StillCarriesOn
  <2>8. \A e \in Queued(queue') : e.op \in {"Send", "Close"} => e \in Queued(queue)
    BY <2>2, <2>5
  <2> QED
    BY <1>1, <1>2, <2>5, <2>7, <2>8, OtherStep
<1> QED
  BY <1>3, <1>4

\* An event that ends a connection ends its history.
LEMMA EmitEnds ==
  ASSUME IInv, NEW r \in RemoteIds, NEW e \in ClosingEvents, Emit(r, e)
  PROVE  Ended(r)' /\ events'[r] # <<>>
<1>1. e \in NetEvent
  BY DEF NetEvent
<1>2. Len(events[r]) + 1 \in DOMAIN events'[r] /\ events'[r][Len(events[r]) + 1] = e
  BY <1>1, EmitEffect
<1> QED
  BY <1>1, <1>2, EmitEffect DEF Ended

\* Taking r out of its registry leaves the others registered.
LEMMA OthersStay ==
  ASSUME IInv, NEW t \in Threads, NEW r \in RemoteIds, Deregister(t, r)
  PROVE  \A q \in RemoteIds : q # r /\ Registered(q) => Registered(q)'
BY DEF Deregister, Registered, IInv, TypeOK, RegistryTypeOK

\* resolve_pending_remote is for a remote nothing was told of: it opens it, leaves it
\* pending, or ends it.
LEMMA ResolveCarriesOn ==
  ASSUME IInv, OInv, NEW t \in Threads, NEW r \in remotes[t], ~ready[r], ResolvePending(t, r),
         sock' = sock, NEW q \in RemoteIds
  PROVE  CarriesOn(q)
<1>1. r \in RemoteIds /\ Registered(r) /\ events[r] = <<>>
  BY DEF IInv, TypeOK, RegistryTypeOK, Registered, OInv, Told
<1>2. CASE Pending(r) = "Ready"
  <2>1. PICK e \in {"Connected", "Accepted"} : Emit(r, e)
    BY <1>2 DEF ResolvePending
  <2>2. q # r => events'[q] = events[q]
    BY <1>1, <2>1, EmitEffect DEF NetEvent, OpeningEvents
  <2>3. remotes' = remotes
    BY <1>2 DEF ResolvePending
  <2> QED
    BY <1>1, <2>2, <2>3 DEF CarriesOn, Ended, Registered
<1>3. CASE Pending(r) = "Incomplete"
  BY <1>3, StillCarriesOn DEF ResolvePending
<1>4. CASE Pending(r) = "Disconnected"
  <2>1. Deregister(t, r) /\ IF origin[r] = NoLocal THEN Emit(r, "ConnectFail") ELSE UNCHANGED events
    BY <1>4 DEF ResolvePending
  <2>2. \A p \in RemoteIds : p # r => events'[p] = events[p] /\ (Registered(p) => Registered(p)')
    BY <1>1, <2>1, OthersStay, EmitEffect DEF NetEvent, OpeningEvents
  <2>3. CASE q # r
    BY <2>2, <2>3 DEF CarriesOn, Ended
  <2>4. CASE q = r /\ origin[r] = NoLocal
    BY <1>1, <2>1, <2>4, EmitEnds DEF CarriesOn, ClosingEvents
  <2>5. CASE q = r /\ origin[r] # NoLocal
    BY <1>1, <2>1, <2>5 DEF CarriesOn
  <2> QED
    BY <2>3, <2>4, <2>5
<1> QED
  BY <1>2, <1>3, <1>4 DEF ResolvePending

\* The receive loop reports data of an open connection, or ends it.
LEMMA ReadCarriesOn ==
  ASSUME IInv, OInv, NEW t \in Threads, ReadData(t) \/ ReadEnd(t), NEW q \in RemoteIds
  PROVE  CarriesOn(q)
<1> USE DEF regVars
<1>1. PICK r \in RemoteIds : r = act[t].id /\ r \in remotes[t] /\ ready[r]
  BY DEF IInv, TypeOK, RegistryTypeOK, Confinement, ReadData, ReadEnd
<1>2. Registered(r) /\ events[r] # <<>> /\ ~Ended(r)
  BY <1>1 DEF OInv, Told, Registered
<1>3. CASE ReadData(t)
  <2>1. /\ Emit(r, "Message") /\ remotes' = remotes
        /\ sock' = [sock EXCEPT ![r].unread = @ - 1]
    BY <1>1, <1>3 DEF ReadData
  <2>2. events'[r] # <<>> /\ (q # r => events'[q] = events[q])
    BY <2>1, EmitEffect DEF NetEvent
  <2>3. sock'[q].end = sock[q].end
    BY <2>1 DEF IInv, TypeOK, OsTypeOK, Socket
  <2> QED
    BY <1>2, <2>1, <2>2, <2>3 DEF CarriesOn, Ended, Registered
<1>4. CASE ReadEnd(t)
  <2>1. Emit(r, "Disconnected") /\ Deregister(t, r) /\ sock' = sock
    BY <1>1, <1>4 DEF ReadEnd
  <2>2. Ended(r)' /\ events'[r] # <<>> /\ (q # r => events'[q] = events[q])
    BY <2>1, EmitEnds, EmitEffect DEF NetEvent, ClosingEvents
  <2>3. q # r /\ Registered(q) => Registered(q)'
    BY <2>1, OthersStay
  <2> QED
    BY <2>1, <2>2, <2>3 DEF CarriesOn, Ended
<1> QED
  BY <1>3, <1>4

\* The steps that take no command and post none: polls, loops, sockets and peers.
LEMMA QuietDelivery ==
  ASSUME IInv, OInv, DInv,
         \/ OS \/ UNCHANGED vars
         \/ \E t \in Threads :
                \/ ReadData(t) \/ ReadEnd(t) \/ ReadWouldBlock(t) \/ AcceptEnd(t)
                \/ \E l \in LocalIds : ProcessAccept(t, l)
                \/ \E r \in RemoteIds : ProcessRead(t, r) \/ ProcessWrite(t, r)
  PROVE  DInv'
<1> USE DEF userVars, regVars, osVars, libVars
<1>1. UNCHANGED sendVars /\ queue' = queue
  <2>1. CASE OS
    BY <2>1 DEF OS, SockConnected, SockRefused, PeerSend, PeerClose, PeerReset, SpuriousEdge,
                PeerConnect, sendVars
  <2>2. CASE UNCHANGED vars
    BY <2>2 DEF vars, sendVars
  <2>3. ASSUME NEW t \in Threads, ReadData(t) \/ ReadEnd(t) \/ ReadWouldBlock(t) \/ AcceptEnd(t)
        PROVE  UNCHANGED sendVars /\ queue' = queue
    BY <2>3 DEF ReadData, ReadEnd, ReadWouldBlock, AcceptEnd, sendVars
  <2>4. ASSUME NEW t \in Threads,
               \/ \E l \in LocalIds : ProcessAccept(t, l)
               \/ \E r \in RemoteIds : ProcessRead(t, r) \/ ProcessWrite(t, r)
        PROVE  UNCHANGED sendVars /\ queue' = queue
    BY <2>4 DEF ProcessAccept, ProcessRead, ProcessWrite, sendVars
  <2> QED
    BY <2>1, <2>2, <2>3, <2>4
<1>2. ASSUME NEW q \in RemoteIds PROVE CarriesOn(q)
  <2>1. CASE OS
    <3>1. UNCHANGED <<events, remotes>>
      BY <2>1 DEF OS, SockConnected, SockRefused, PeerSend, PeerClose, PeerReset, SpuriousEdge, PeerConnect
    <3>2. sock[q].end = "reset" => sock'[q].end = "reset"
      <4>1. sock[q] \in Socket /\ sock \in [RemoteIds -> Socket]
        BY DEF IInv, TypeOK, OsTypeOK
      <4>2. CASE sock' = sock
        BY <4>2
      <4>3. ASSUME NEW r \in RemoteIds, SockConnected(r) \/ SockRefused(r) \/ PeerSend(r)
            PROVE  sock'[q].end = sock[q].end
        BY <4>1, <4>3 DEF SockConnected, SockRefused, PeerSend, Socket
      <4>4. ASSUME NEW r \in RemoteIds, PeerClose(r) \/ PeerReset(r)
            PROVE  sock[q].end = "reset" => sock'[q].end = "reset"
        BY <4>1, <4>4 DEF PeerClose, PeerReset, Socket
      <4> QED
        BY <2>1, <4>2, <4>3, <4>4 DEF OS, SpuriousEdge, PeerConnect
    <3> QED
      BY <3>1, <3>2, StillCarriesOn
  <2>2. CASE UNCHANGED vars
    BY <2>2, StillCarriesOn DEF vars
  <2>3. ASSUME NEW t \in Threads,
               ReadWouldBlock(t) \/ AcceptEnd(t) \/ \E l \in LocalIds : ProcessAccept(t, l)
        PROVE  CarriesOn(q)
    BY <2>3, StillCarriesOn DEF ReadWouldBlock, AcceptEnd, ProcessAccept
  <2>4. ASSUME NEW t \in Threads, NEW r \in RemoteIds, ProcessRead(t, r) \/ ProcessWrite(t, r)
        PROVE  CarriesOn(q)
    <3>1. sock' = sock
      BY <2>4 DEF ProcessRead, ProcessWrite
    <3>2. CASE r \in remotes[t] /\ ~ready[r]
      BY <2>4, <3>1, <3>2, ResolveCarriesOn DEF ProcessRead, ProcessWrite
    <3>3. CASE ~(r \in remotes[t] /\ ~ready[r])
      BY <2>4, <3>1, <3>3, StillCarriesOn DEF ProcessRead, ProcessWrite
    <3> QED
      BY <3>2, <3>3
  <2> QED
    BY <2>1, <2>2, <2>3, <2>4, ReadCarriesOn
<1>3. SendOrder(queue') /\ Queued(queue') = Queued(queue)
  BY <1>1 DEF DInv
<1> QED
  BY <1>1, <1>2, <1>3, OtherStep

\* Before the first call nothing is queued, written or open.
LEMMA DInvInit == Init => DInv
<1> SUFFICES ASSUME Init PROVE DInv
  OBVIOUS
<1>1. Queued(queue) = {} /\ SendOrder(queue)
  BY DEF Init, Queued, SendOrder
<1>2. Numbered /\ WrittenWasPosted /\ SendsInOrder
  BY <1>1 DEF Init, Numbered, WrittenWasPosted, SendsInOrder
<1>3. CloseAsked /\ SafeKept
  BY <1>1 DEF Init, CloseAsked, SafeKept
<1> QED
  BY <1>1, <1>2, <1>3 DEF DInv

\* Every step keeps the invariant of the sends.
LEMMA DInvStep == IInv /\ OInv /\ DInv /\ [Next]_vars => DInv'
<1> SUFFICES ASSUME IInv, OInv, DInv, [Next]_vars PROVE DInv'
  OBVIOUS
<1>1. CASE User
  BY <1>1, PostingDelivery, UserSendDelivery, UserCloseDelivery DEF User
<1>2. CASE OS \/ UNCHANGED vars
  BY <1>2, QuietDelivery
<1>3. ASSUME NEW t \in Threads, Thread(t) PROVE DInv'
  <2>1. CASE DoCommand(t)
    BY <2>1, TakingDelivery, DoSendDelivery, DoCloseDelivery DEF DoCommand
  <2>2. CASE AcceptOne(t)
    BY <2>2, PostingDelivery
  <2> QED
    BY <1>3, <2>1, <2>2, QuietDelivery DEF Thread
<1> QED
  BY <1>1, <1>2, <1>3 DEF Next

\* The invariant of the sends holds in every reachable state.
THEOREM DInvInvariant == Spec => [](IInv /\ OInv /\ DInv)
  BY IInvInit, IInvStep, OInvInit, OInvStep, DInvInit, DInvStep, PTL DEF Spec

\* For any number of threads, connections and sends: the sends on one endpoint are
\* written in the order in which send() posted them, and none twice.
THEOREM SendsInOrderHolds == Spec => []SendsInOrder
<1>1. DInv => SendsInOrder
  BY DEF DInv
<1> QED
  BY <1>1, DInvInvariant, PTL

\* For any number of threads, connections, sends and closes: a connection that left its
\* registry by process_close has written everything sent on it, while open, before the
\* first close().
THEOREM CloseAfterSendsHolds == Spec => []CloseAfterSends
<1>1. OInv /\ DInv => CloseAfterSends
  <2> SUFFICES ASSUME OInv, DInv, NEW r \in RemoteIds, events[r] # <<>>, r \notin open, ~Ended(r),
                      sock[r].end # "reset", ~WriteMayFail, NEW n \in safeSends[r]
               PROVE  \E i \in DOMAIN written[r] : written[r][i] = n
    BY DEF CloseAfterSends
  <2>1. ~Registered(r)
    BY DEF OInv, Owned
  <2> QED
    BY <2>1 DEF DInv, SafeKept
<1> QED
  BY <1>1, DInvInvariant, PTL

-----------------------------------------------------------------------------
(* Data: every chunk the peer has sent is unread or has been handed over.  *)

\* The chunks of r add up, only an established connection is closed by its peer, and
\* what has ended after an orderly close had been read to the end.
ChunksOf(r) ==
    /\ Cardinality(MessagesOf(r)) + sock[r].unread = sock[r].sent
    /\ sock[r].conn # "up" => sock[r].end = "open"
    /\ Ended(r) /\ sock[r].end = "closed" => sock[r].unread = 0

\* The inductive invariant of the data.
AInv == \A r \in RemoteIds : ChunksOf(r)

\* The messages of a remote are finitely many places of its history.
LEMMA MessagesFinite ==
  ASSUME IInv, NEW r \in RemoteIds
  PROVE  /\ IsFiniteSet(MessagesOf(r)) /\ Cardinality(MessagesOf(r)) \in Nat
         /\ Len(events[r]) \in Nat /\ DOMAIN events[r] = 1 .. Len(events[r])
         /\ events[r] = <<>> => Cardinality(MessagesOf(r)) = 0
<1>1. Len(events[r]) \in Nat /\ DOMAIN events[r] = 1 .. Len(events[r])
  BY LenProperties DEF IInv, TypeOK, OutputTypeOK
<1>2. IsFiniteSet(1 .. Len(events[r]))
  <2>1. 1 \in Int /\ Len(events[r]) \in Int
    BY <1>1
  <2> QED
    BY <2>1, FS_Interval
<1>3. IsFiniteSet(MessagesOf(r))
  BY <1>1, <1>2, FS_Subset DEF MessagesOf
<1>4. events[r] = <<>> => MessagesOf(r) = {}
  BY <1>1 DEF MessagesOf
<1> QED
  BY <1>1, <1>3, <1>4, FS_CardinalityType, FS_EmptySet

\* A connection that has ended has no socket any more.
LEMMA EndedNotOpen ==
  ASSUME IInv, OInv, NEW r \in RemoteIds, Ended(r)
  PROVE  r \notin open
<1>1. events[r] # <<>>
  BY DEF Ended
<1>2. ~Registered(r)
  BY <1>1 DEF OInv, Told
<1>3. \A c \in Queued(queue) : c.op \in Carriers => c.id # r
  BY <1>1 DEF OInv, Unborn, Births, Carriers
<1> QED
  BY <1>2, <1>3 DEF OInv, Owned

\* A remote that nothing happens to keeps its account.
LEMMA SameChunks ==
  ASSUME NEW r \in RemoteIds, ChunksOf(r), events'[r] = events[r], sock'[r] = sock[r]
  PROVE  ChunksOf(r)'
BY DEF ChunksOf, MessagesOf, Ended

\* An event other than Message changes no account, if the end of the connection comes
\* when all has been read.
LEMMA OtherEvent ==
  ASSUME IInv, NEW r \in RemoteIds, ChunksOf(r), NEW e \in NetEvent, e # "Message", Emit(r, e),
         sock' = sock, sock[r].end = "closed" => sock[r].unread = 0 \/ e \notin ClosingEvents,
         ~Ended(r)
  PROVE  ChunksOf(r)'
<1>1. MessagesOf(r)' = MessagesOf(r)
  <2>1. /\ DOMAIN events'[r] = 1 .. Len(events[r]) + 1 /\ DOMAIN events[r] = 1 .. Len(events[r])
        /\ Len(events[r]) \in Nat
        /\ \A i \in 1 .. Len(events[r]) : events'[r][i] = events[r][i]
        /\ events'[r][Len(events[r]) + 1] = e
    BY EmitEffect
  <2>2. \A i : i \in 1 .. Len(events[r]) + 1 <=> i \in 1 .. Len(events[r]) \/ i = Len(events[r]) + 1
    BY <2>1
  <2> QED
    BY <2>1, <2>2 DEF MessagesOf
<1>2. Ended(r)' => e \in ClosingEvents
  <2> SUFFICES ASSUME NEW i \in DOMAIN events'[r], events'[r][i] \in ClosingEvents
               PROVE  e \in ClosingEvents
    BY DEF Ended
  <2>1. CASE i = Len(events[r]) + 1
    BY <2>1, EmitEffect
  <2>2. CASE i \in 1 .. Len(events[r])
    BY <2>2, EmitEffect DEF Ended
  <2> QED
    BY <2>1, <2>2, EmitEffect
<1> QED
  BY <1>1, <1>2 DEF ChunksOf

\* receive() hands over one chunk and reports one message.
LEMMA ReadDataChunks ==
  ASSUME IInv, OInv, AInv, NEW t \in Threads, ReadData(t)
  PROVE  AInv'
<1>1. PICK r \in RemoteIds : r = act[t].id /\ r \in remotes[t] /\ ready[r]
  BY DEF IInv, TypeOK, RegistryTypeOK, Confinement, ReadData
<1>2. /\ Emit(r, "Message") /\ sock' = [sock EXCEPT ![r].unread = @ - 1]
      /\ sock[r].unread > 0
  BY <1>1 DEF ReadData, ReadResults
<1>3. ~Ended(r)
  BY <1>1 DEF OInv, Told, Registered
<1>4. sock \in [RemoteIds -> Socket] /\ sock[r].unread \in Nat /\ sock[r].sent \in Nat
  BY DEF IInv, TypeOK, OsTypeOK, Socket
<1>5. /\ sock'[r].unread = sock[r].unread - 1 /\ sock'[r].sent = sock[r].sent
      /\ sock'[r].conn = sock[r].conn /\ sock'[r].end = sock[r].end
      /\ \A q \in RemoteIds : q # r => sock'[q] = sock[q]
  BY <1>2, <1>4 DEF Socket
<1>6. /\ DOMAIN events'[r] = 1 .. Len(events[r]) + 1 /\ DOMAIN events[r] = 1 .. Len(events[r])
      /\ Len(events[r]) \in Nat
      /\ \A i \in 1 .. Len(events[r]) : events'[r][i] = events[r][i]
      /\ events'[r][Len(events[r]) + 1] = "Message"
      /\ \A q \in RemoteIds : q # r => events'[q] = events[q]
  BY <1>2, EmitEffect DEF NetEvent
<1>7. \A i : i \in 1 .. Len(events[r]) + 1 <=> i \in 1 .. Len(events[r]) \/ i = Len(events[r]) + 1
  BY <1>6
<1>8. MessagesOf(r)' = MessagesOf(r) \cup {Len(events[r]) + 1} /\ Len(events[r]) + 1 \notin MessagesOf(r)
  BY <1>6, <1>7 DEF MessagesOf
<1>9. Cardinality(MessagesOf(r)') = Cardinality(MessagesOf(r)) + 1 /\ Cardinality(MessagesOf(r)) \in Nat
  BY <1>8, MessagesFinite, FS_AddElement
<1>10. ~Ended(r)'
  BY <1>3, <1>6, <1>7 DEF Ended, ClosingEvents
<1>11. ChunksOf(r)'
  BY <1>4, <1>5, <1>9, <1>10 DEF AInv, ChunksOf
<1>12. ASSUME NEW q \in RemoteIds, q # r PROVE ChunksOf(q)'
  BY <1>5, <1>6, <1>12, SameChunks DEF AInv
<1> QED
  BY <1>11, <1>12 DEF AInv

\* receive() finds the end of an orderly closed stream only when nothing is unread.
LEMMA ReadEndChunks ==
  ASSUME IInv, OInv, AInv, NEW t \in Threads, ReadEnd(t)
  PROVE  AInv'
<1>1. PICK r \in RemoteIds : r = act[t].id /\ r \in remotes[t] /\ ready[r]
  BY DEF IInv, TypeOK, RegistryTypeOK, Confinement, ReadEnd
<1>2. Emit(r, "Disconnected") /\ sock' = sock /\ (sock[r].end = "closed" => sock[r].unread = 0)
  BY <1>1 DEF ReadEnd, ReadResults
<1>3. ~Ended(r)
  BY <1>1 DEF OInv, Told, Registered
<1>4. ChunksOf(r)'
  BY <1>2, <1>3, OtherEvent DEF AInv, NetEvent, ClosingEvents
<1>5. ASSUME NEW q \in RemoteIds, q # r PROVE ChunksOf(q)'
  <2>1. events'[q] = events[q]
    BY <1>2, <1>5, EmitEffect DEF NetEvent, ClosingEvents
  <2> QED
    BY <1>2, <2>1, SameChunks DEF AInv
<1> QED
  BY <1>4, <1>5 DEF AInv

\* resolve_pending_remote reports no data; it ends only what was refused or reset.
LEMMA ProcessChunks ==
  ASSUME IInv, OInv, AInv, NEW t \in Threads, NEW r \in RemoteIds, ProcessRead(t, r) \/ ProcessWrite(t, r)
  PROVE  AInv'
<1>1. sock' = sock
  BY DEF ProcessRead, ProcessWrite
<1>2. CASE events' = events
  BY <1>1, <1>2, SameChunks DEF AInv
<1>3. CASE events' # events
  <2>1. r \in remotes[t] /\ ~ready[r] /\ ResolvePending(t, r)
    BY <1>3 DEF ProcessRead, ProcessWrite
  <2>2. ~Ended(r)
    BY <2>1 DEF OInv, Told, Registered, Ended
  <2>3. ChunksOf(r)
    BY DEF AInv
  <2>4. PICK e \in {"Connected", "Accepted", "ConnectFail"} :
            /\ Emit(r, e)
            /\ e = "ConnectFail" => sock[r].conn = "refused" \/ sock[r].end = "reset"
    BY <1>3, <2>1 DEF ResolvePending, Pending
  <2>5. e \in NetEvent /\ e # "Message" /\ (e \in ClosingEvents => sock[r].end # "closed")
    BY <2>3, <2>4 DEF ChunksOf, NetEvent, OpeningEvents, ClosingEvents
  <2>6. ChunksOf(r)'
    BY <1>1, <2>2, <2>3, <2>4, <2>5, OtherEvent
  <2>7. ASSUME NEW q \in RemoteIds, q # r PROVE ChunksOf(q)'
    <3>1. events'[q] = events[q]
      BY <2>4, <2>5, <2>7, EmitEffect
    <3> QED
      BY <1>1, <3>1, SameChunks DEF AInv
  <2> QED
    BY <2>6, <2>7 DEF AInv
<1> QED
  BY <1>2, <1>3

\* A new socket belongs to a remote nothing was told of, and starts an empty account.
LEMMA FreshChunks ==
  ASSUME IInv, OInv, AInv, events' = events, NEW r \in RemoteIds, events[r] = <<>>,
         NEW conn \in {"connecting", "up"}, sock' = [sock EXCEPT ![r] = FreshSocket(conn)]
  PROVE  AInv'
<1>1. sock'[r] = FreshSocket(conn) /\ \A q \in RemoteIds : q # r => sock'[q] = sock[q]
  BY DEF IInv, TypeOK, OsTypeOK
<1>2. FreshSocket(conn).unread = 0 /\ FreshSocket(conn).sent = 0 /\ FreshSocket(conn).end = "open"
  BY DEF FreshSocket, NoSocket
<1>3. Cardinality(MessagesOf(r)') = 0
  BY MessagesFinite DEF MessagesOf
<1>4. ChunksOf(r)'
  BY <1>1, <1>2, <1>3 DEF ChunksOf
<1>5. ASSUME NEW q \in RemoteIds, q # r PROVE ChunksOf(q)'
  BY <1>1, <1>5, SameChunks DEF AInv
<1> QED
  BY <1>4, <1>5 DEF AInv

\* The OS and the peers: a chunk sent is a chunk unread, and an ended connection has no
\* socket that could change.
LEMMA OSChunks ==
  ASSUME IInv, OInv, AInv, OS
  PROVE  AInv'
<1> USE DEF libVars
<1>1. events' = events /\ sock \in [RemoteIds -> Socket]
  BY DEF OS, SockConnected, SockRefused, PeerSend, PeerClose, PeerReset, SpuriousEdge, PeerConnect,
         IInv, TypeOK, OsTypeOK
<1>2. CASE sock' = sock
  BY <1>1, <1>2, SameChunks DEF AInv
<1>3. ASSUME NEW r \in RemoteIds,
             \/ SockConnected(r) \/ SockRefused(r) \/ PeerSend(r) \/ PeerClose(r) \/ PeerReset(r)
      PROVE  AInv'
  <2>1. r \in open /\ ~Ended(r)
    BY <1>3, EndedNotOpen DEF SockConnected, SockRefused, PeerSend, PeerClose, PeerReset
  <2>2. \A q \in RemoteIds : q # r => sock'[q] = sock[q]
    BY <1>1, <1>3 DEF SockConnected, SockRefused, PeerSend, PeerClose, PeerReset
  <2>3. sock[r].unread \in Nat /\ sock[r].sent \in Nat /\ Cardinality(MessagesOf(r)) \in Nat
    BY <1>1, MessagesFinite DEF Socket
  <2>4. /\ \/ sock'[r].unread = sock[r].unread /\ sock'[r].sent = sock[r].sent
           \/ sock'[r].unread = sock[r].unread + 1 /\ sock'[r].sent = sock[r].sent + 1
        /\ sock'[r].conn # "up" => sock'[r].end = "open"
    <3>1. sock[r].conn # "up" => sock[r].end = "open"
      BY DEF AInv, ChunksOf
    <3>2. CASE SockConnected(r) \/ SockRefused(r)
      BY <1>1, <3>1, <3>2 DEF SockConnected, SockRefused, Socket
    <3>3. CASE PeerSend(r)
      BY <1>1, <3>3 DEF PeerSend, Socket
    <3>4. CASE PeerClose(r) \/ PeerReset(r)
      BY <1>1, <3>4 DEF PeerClose, PeerReset, Socket
    <3> QED
      BY <1>3, <3>2, <3>3, <3>4
  <2>5. ChunksOf(r)'
    BY <1>1, <2>1, <2>3, <2>4 DEF AInv, ChunksOf, MessagesOf, Ended
  <2>6. ASSUME NEW q \in RemoteIds, q # r PROVE ChunksOf(q)'
    BY <1>1, <2>2, <2>6, SameChunks DEF AInv
  <2> QED
    BY <2>5, <2>6 DEF AInv
<1> QED
  BY <1>2, <1>3 DEF OS, SpuriousEdge, PeerConnect, osVars

\* Every step keeps the accounts.
LEMMA AInvStep == IInv /\ OInv /\ AInv /\ [Next]_vars => AInv'
<1> SUFFICES ASSUME IInv, OInv, AInv, [Next]_vars PROVE AInv'
  OBVIOUS
<1> USE DEF osVars
<1>1. CASE UNCHANGED <<events, sock>>
  BY <1>1, SameChunks DEF AInv
<1>2. CASE User
  BY <1>1, <1>2 DEF User, UserConnect, UserListen, UserSend, UserClose, UserCloseLocal
<1>3. ASSUME NEW t \in Threads, Thread(t) PROVE AInv'
  <2>1. CASE DoConnect(t)
    <3>1. Head(queue[t]).id \in RemoteIds /\ queue[t] # <<>> /\ Head(queue[t]).op = "Connect"
      BY <2>1, TakePlaced DEF DoConnect, Takes, IInv, Placed, RemoteOps
    <3>2. events[Head(queue[t]).id] = <<>>
      BY <3>1, TakeQueued DEF OInv, Unborn, Births, IInv, WellPlaced
    <3> QED
      BY <2>1, <3>1, <3>2, <1>1, FreshChunks DEF DoConnect, TcpRemoteConnectWith
  <2>2. CASE AcceptOne(t)
    <3>1. nextRemote \in RemoteIds
      BY <2>2 DEF AcceptOne, IInv, TypeOK, UserTypeOK, RemoteIds
    <3>2. events[nextRemote] = <<>>
      BY <3>1 DEF OInv, FreshIds, RemoteIds
    <3> QED
      BY <2>2, <3>1, <3>2, FreshChunks DEF AcceptOne
  <2>3. CASE DoCommand(t) /\ ~DoConnect(t)
    BY <1>1, <2>3 DEF DoCommand, DoListen, DoAcceptRegister, DoConnectRegister, DoSend, DoClose, DoCloseLocal
  <2>4. CASE ReadWouldBlock(t) \/ AcceptEnd(t) \/ \E l \in LocalIds : ProcessAccept(t, l)
    BY <1>1, <2>4 DEF ReadWouldBlock, AcceptEnd, ProcessAccept
  <2> QED
    BY <1>3, <2>1, <2>2, <2>3, <2>4, ReadDataChunks, ReadEndChunks, ProcessChunks DEF Thread
<1>4. CASE UNCHANGED vars
  BY <1>1, <1>4 DEF vars
<1> QED
  BY <1>2, <1>3, <1>4, OSChunks DEF Next

\* Before the first call nothing has been sent.
LEMMA AInvInit == Init => AInv
<1> SUFFICES ASSUME Init, NEW r \in RemoteIds PROVE ChunksOf(r)
  BY DEF AInv
<1>1. events[r] = <<>> /\ sock[r] = NoSocket
  BY DEF Init
<1>2. Cardinality(MessagesOf(r)) = 0
  BY IInvInit, MessagesFinite, <1>1
<1> QED
  BY <1>1, <1>2 DEF ChunksOf, NoSocket

\* For any number of threads, connections and chunks: when a connection its peer closed
\* in an orderly way is reported Disconnected, every chunk has been reported before.
THEOREM NoDataLostHolds == Spec => []NoDataLost
<1>1. IInv /\ AInv => NoDataLost
  <2> SUFFICES ASSUME IInv, AInv, NEW r \in RemoteIds, Ended(r), sock[r].end = "closed"
               PROVE  Cardinality(MessagesOf(r)) = sock[r].sent
    BY DEF NoDataLost
  <2>1. Cardinality(MessagesOf(r)) \in Nat
    BY MessagesFinite
  <2> QED
    BY <2>1 DEF AInv, ChunksOf
<1> QED
  BY <1>1, IInvInit, IInvStep, OInvInit, OInvStep, AInvInit, AInvStep, PTL DEF Spec
=============================================================================
