--------------------------- MODULE WsRemoteProofs ---------------------------
(***************************************************************************)
(* Proofs about WsRemote, for every length of the request and every size   *)
(* of the socket's buffer.                                                 *)
(*                                                                         *)
(* A remote is opened once: the command that leads to its registration is  *)
(* in flight at most once, and only before it has a state.  From then on   *)
(* its worker touches it only while it is registered, so what a failed or  *)
(* closed remote leaves behind can be read off its registration, and the   *)
(* part of the request that the socket has taken off the packet.           *)
(***************************************************************************)
EXTENDS WsRemote, SequenceTheorems, TLAPS

\* Whether a channel holds c, and at most once.
Has(s, c) == \E i \in 1 .. Len(s) : s[i] = c
Once(s, c) == \A i, j \in 1 .. Len(s) : s[i] = c /\ s[j] = c => i = j

Pieces == 1 .. RequestLen
NetEvents == {"Connected", "Accepted", "ConnectFail"}
MasterCommands == {"listen", "connect", "connectBadUrl", "close"}
ClientCommands == {"register", "send", "close"}
ServerCommands == {"register"}

\* The types, of the variables of the whole and of those with a value per end.
SharedTypes ==
    /\ master \in {"up", "panicked"} /\ closed \in BOOLEAN
    /\ answer \in {"none", "waiting", "called", "dropped"}
    /\ listener \in {"none", "on", "closed"}
    /\ tcp \in {"none", "connecting", "up", "refused"}
    /\ backlog \in BOOLEAN /\ reset \in BOOLEAN
    /\ DOMAIN chan = Ends \cup {"master"}
    /\ chan["master"] \in Seq(MasterCommands) /\ chan["client"] \in Seq(ClientCommands)
    /\ chan["server"] \in Seq(ServerCommands)

FlagTypes ==
    /\ reg \in [Ends -> BOOLEAN] /\ ready \in [Ends -> BOOLEAN] /\ shut \in [Ends -> BOOLEAN]
    /\ state \in [Ends -> States] /\ act \in [Ends -> {"idle", "pending", "handshake"}]

StreamTypes ==
    /\ buf \in [Ends -> Seq(Pieces)] /\ got \in [Ends -> Seq(Pieces)]
    /\ polls \in [Ends -> SUBSET {"read", "write"}]
    /\ events \in [Ends -> Seq(NetEvents)]

WsTypeOK == SharedTypes /\ FlagTypes /\ StreamTypes

Unopened(e) == state[e].st = "none"

\* Each end is opened once.
Opening ==
    /\ Once(chan["master"], "connect")
    /\ \A e \in Ends : Once(chan[e], "register") /\ (Has(chan[e], "register") => Unopened(e))
    /\ Has(chan["master"], "connect") =>
           /\ answer = "waiting" /\ tcp = "none"
           /\ Unopened("client") /\ ~Has(chan["client"], "register")
    /\ Has(chan["client"], "register") => answer = "waiting"
    /\ answer = "none" => tcp = "none" /\ Unopened("client")
    /\ backlog => Unopened("server") /\ ~Has(chan["server"], "register")
    /\ backlog \/ Has(chan["server"], "register") \/ ~Unopened("server") => tcp = "up"
    /\ Has(chan["client"], "close") => closed

\* What e's worker knows of e.
Served(e) ==
    /\ act[e] # "idle" => reg[e] /\ ~ready[e]
    /\ act[e] = "handshake" => state[e].st \in {"read", "write"}
    /\ reg[e] => state[e].st \notin {"none", "error"}
    /\ ready[e] => state[e].st = "websocket"
    /\ state[e].st = "read" => state[e].left = 0
    /\ state[e].st = "write" => state[e].left > 0

\* What becomes of e, and what its user is told.
ToldOf(e) ==
    /\ reg[e] => events[e] = IF ~ready[e] THEN <<>>
                             ELSE IF e = "client" THEN <<"Connected">> ELSE <<"Accepted">>
    /\ Unopened(e) => events[e] = <<>>
    /\ ~reg[e] => polls[e] = {}
    /\ ~reg[e] /\ ~Unopened(e) =>
           /\ shut[e]
           /\ closed \/ events[e] = IF e = "client" THEN <<"ConnectFail">> ELSE <<>>

\* What the client has written of its request.
Written == CASE state["client"].st = "write" -> RequestLen - state["client"].left
             [] state["client"].st = "read" -> RequestLen
             [] OTHER -> 0

RInv ==
    /\ state["client"].st \notin {"accept", "websocket"}
    /\ ~reset => got["server"] \o buf["client"] = Request(Written)

WInv == WsTypeOK /\ Opening /\ (\A e \in Ends : Served(e) /\ ToldOf(e)) /\ RInv

-----------------------------------------------------------------------------
(* Sequences.                                                              *)

\* What a channel holds after a command has been posted to it.
LEMMA AppendHas ==
  ASSUME NEW T, NEW s \in Seq(T), NEW c \in T
  PROVE  /\ Append(s, c) \in Seq(T)
         /\ \A d : Has(Append(s, c), d) <=> Has(s, d) \/ d = c
         /\ \A d : Once(s, d) /\ (c = d => ~Has(s, d)) => Once(Append(s, c), d)
<1>1. /\ Len(s) \in Nat /\ Append(s, c) \in Seq(T) /\ Len(Append(s, c)) = Len(s) + 1
      /\ \A i \in 1 .. Len(s) : Append(s, c)[i] = s[i]
      /\ Append(s, c)[Len(s) + 1] = c
  BY AppendProperties, LenProperties
<1>2. ASSUME NEW d PROVE Has(Append(s, c), d) <=> Has(s, d) \/ d = c
  BY <1>1 DEF Has
<1>3. ASSUME NEW d, Once(s, d), c = d => ~Has(s, d) PROVE Once(Append(s, c), d)
  <2> SUFFICES ASSUME NEW i \in 1 .. Len(s) + 1, NEW j \in 1 .. Len(s) + 1,
                      Append(s, c)[i] = d, Append(s, c)[j] = d
               PROVE  i = j
    BY <1>1 DEF Once
  <2>1. CASE i \in 1 .. Len(s) /\ j \in 1 .. Len(s)
    BY <1>1, <1>3, <2>1 DEF Once
  <2>2. CASE i = Len(s) + 1 /\ j \in 1 .. Len(s)
    BY <1>1, <1>3, <2>2 DEF Has
  <2>3. CASE j = Len(s) + 1 /\ i \in 1 .. Len(s)
    BY <1>1, <1>3, <2>3 DEF Has
  <2> QED
    BY <1>1, <2>1, <2>2, <2>3
<1> QED
  BY <1>1, <1>2, <1>3

\* What it holds after one has been taken.
LEMMA TailHas ==
  ASSUME NEW T, NEW s \in Seq(T), s # <<>>
  PROVE  /\ Tail(s) \in Seq(T) /\ Head(s) \in T
         /\ Has(s, Head(s))
         /\ \A d : Has(Tail(s), d) => Has(s, d)
         /\ \A d : Once(s, d) => Once(Tail(s), d) /\ (Head(s) = d => ~Has(Tail(s), d))
<1>1. /\ Len(s) \in Nat \ {0} /\ Head(s) \in T /\ Head(s) = s[1]
      /\ Tail(s) \in Seq(T) /\ Len(Tail(s)) = Len(s) - 1
      /\ \A i \in 1 .. Len(Tail(s)) : Tail(s)[i] = s[i + 1]
  BY HeadTailProperties, LenProperties, EmptySeq
<1>2. \A i \in 1 .. Len(Tail(s)) : i + 1 \in 2 .. Len(s) /\ Tail(s)[i] = s[i + 1]
  BY <1>1
<1>3. Has(s, Head(s))
  BY <1>1 DEF Has
<1>4. ASSUME NEW d PROVE Has(Tail(s), d) => Has(s, d)
  BY <1>1, <1>2 DEF Has
<1>5. ASSUME NEW d, Once(s, d) PROVE Once(Tail(s), d) /\ (Head(s) = d => ~Has(Tail(s), d))
  <2>1. Once(Tail(s), d)
    <3> SUFFICES ASSUME NEW i \in 1 .. Len(Tail(s)), NEW j \in 1 .. Len(Tail(s)),
                        Tail(s)[i] = d, Tail(s)[j] = d
                 PROVE  i = j
      BY DEF Once
    <3>1. i + 1 \in 1 .. Len(s) /\ j + 1 \in 1 .. Len(s) /\ s[i + 1] = d /\ s[j + 1] = d
      BY <1>1, <1>2
    <3>2. i + 1 = j + 1
      BY <1>5, <3>1 DEF Once
    <3> QED
      BY <1>1, <3>2
  <2>2. ASSUME Head(s) = d, Has(Tail(s), d) PROVE FALSE
    <3>1. PICK i \in 1 .. Len(Tail(s)) : Tail(s)[i] = d
      BY <2>2 DEF Has
    <3>2. 1 \in 1 .. Len(s) /\ i + 1 \in 1 .. Len(s) /\ s[1] = d /\ s[i + 1] = d /\ i + 1 # 1
      BY <1>1, <1>2, <2>2, <3>1
    <3> QED
      BY <1>5, <3>2 DEF Once
  <2> QED
    BY <2>1, <2>2
<1> QED
  BY <1>1, <1>3, <1>4, <1>5

\* Moving the head of one sequence to the end of another keeps their concatenation.
LEMMA MoveHead ==
  ASSUME NEW T, NEW r \in Seq(T), NEW s \in Seq(T), s # <<>>
  PROVE  Append(r, Head(s)) \o Tail(s) = r \o s
<1>1. /\ Len(s) \in Nat \ {0} /\ Head(s) \in T /\ Head(s) = s[1] /\ Tail(s) \in Seq(T)
  BY HeadTailProperties, LenProperties, EmptySeq
<1>2. s = <<Head(s)>> \o Tail(s)
  <2>1. SubSeq(s, 1, Len(s)) = <<s[1]>> \o SubSeq(s, 1 + 1, Len(s))
    BY <1>1, SubSeqRecursiveFirst
  <2> QED
    BY <1>1, <2>1, SubSeqFull, TailIsSubSeq
<1>3. <<Head(s)>> \in Seq(T)
  BY <1>1
<1>4. Append(r, Head(s)) = r \o <<Head(s)>>
  BY <1>1, AppendIsConcat
<1>5. (r \o <<Head(s)>>) \o Tail(s) = r \o (<<Head(s)>> \o Tail(s))
  BY <1>1, <1>3, ConcatAssociative
<1> QED
  BY <1>2, <1>4, <1>5

\* Three parts of a request.
LEMMA PiecesAssociative ==
  ASSUME NEW r \in Seq(Nat), NEW s \in Seq(Nat), NEW u \in Seq(Nat)
  PROVE  (r \o s) \o u = r \o (s \o u)
<1> DEFINE T == Nat
<1>1. r \in Seq(T) /\ s \in Seq(T) /\ u \in Seq(T)
  OBVIOUS
<1> HIDE DEF T
<1> QED
  BY <1>1, ConcatAssociative

\* One more piece of the request, behind those that were written.
LEMMA NextPiece ==
  ASSUME NEW n \in Nat, NEW r \in Seq(Nat), NEW s \in Seq(Nat), r \o s = Request(n)
  PROVE  r \o Append(s, n + 1) = Request(n + 1)
<1>1. <<n + 1>> \in Seq(Nat) /\ Append(s, n + 1) = s \o <<n + 1>>
  BY AppendIsConcat
<1>2. r \o Append(s, n + 1) = (r \o s) \o <<n + 1>>
  <2> DEFINE u == <<n + 1>>
  <2>1. u \in Seq(Nat)
    BY <1>1
  <2> HIDE DEF u
  <2>2. r \o (s \o u) = (r \o s) \o u
    BY <2>1, PiecesAssociative
  <2> QED
    BY <1>1, <2>2 DEF u
<1>3. r \o s \in Seq(Nat)
  BY ConcatProperties
<1>4. r \o Append(s, n + 1) = Append(Request(n), n + 1)
  <2>1. Append(r \o s, n + 1) = (r \o s) \o <<n + 1>>
    BY <1>3, AppendIsConcat
  <2> QED
    BY <1>2, <2>1
<1>5. Append(Request(n), n + 1) = Request(n + 1)
  <2> DEFINE x == Append(Request(n), n + 1)
             y == Request(n + 1)
  <2>1. Request(n) \in Seq(Nat) /\ Len(Request(n)) = n
    BY <1>3 DEF Request
  <2>2. y \in [1 .. n + 1 -> Nat] /\ \A i \in 1 .. n + 1 : y[i] = i
    BY DEF Request
  <2>3. y \in Seq(Nat) /\ Len(y) = n + 1
    BY <2>2
  <2>4. /\ x \in Seq(Nat) /\ Len(x) = n + 1 /\ x[n + 1] = n + 1
        /\ \A i \in 1 .. n : x[i] = Request(n)[i]
    BY <2>1, AppendProperties
  <2>5. \A i \in 1 .. n : Request(n)[i] = i
    BY DEF Request
  <2> HIDE DEF x, y
  <2>6. ASSUME NEW i \in 1 .. n + 1 PROVE x[i] = y[i]
    <3>1. CASE i = n + 1
      BY <2>2, <2>4, <3>1
    <3>2. CASE i \in 1 .. n
      BY <2>2, <2>4, <2>5, <3>2
    <3> QED
      BY <3>1, <3>2
  <2>7. x = y
    BY <2>3, <2>4, <2>6, SeqEqual
  <2> QED
    BY <2>7 DEF x, y
<1> QED
  BY <1>4, <1>5

\* The pieces of a request are natural numbers.
LEMMA PiecesAreNumbers == \A s \in Seq(Pieces) : s \in Seq(Nat)
<1> SUFFICES ASSUME NEW s \in Seq(Pieces) PROVE s \in Seq(Nat)
  OBVIOUS
<1>1. Len(s) \in Nat /\ s \in [1 .. Len(s) -> Pieces] /\ Pieces \subseteq Nat
  BY LenProperties, WsConstants DEF Pieces
<1>2. s \in [1 .. Len(s) -> Nat]
  BY <1>1
<1> QED
  BY <1>1, <1>2

-----------------------------------------------------------------------------
(* Frames.                                                                 *)

\* Commands that open nothing, and steps that do not open an end, keep Opening.
LEMMA OpeningKept ==
  ASSUME Opening, UNCHANGED <<chan, answer, tcp, backlog>>, closed => closed',
         \A e \in Ends : Unopened(e)' <=> Unopened(e)
  PROVE  Opening'
BY DEF Opening, Ends

\* An end that is not touched, except by an edge if it is registered, stays as it is.
LEMMA EndKept ==
  ASSUME NEW e \in Ends, Served(e), ToldOf(e),
         reg'[e] = reg[e], ready'[e] = ready[e], state'[e] = state[e], act'[e] = act[e],
         events'[e] = events[e], ~reg[e] => polls'[e] = polls[e],
         shut[e] => shut'[e], closed => closed'
  PROVE  Served(e)' /\ ToldOf(e)'
BY DEF Served, ToldOf, Unopened

\* The request depends on the client's state and on the sockets of its direction.
LEMMA RequestKept ==
  ASSUME RInv, state'["client"] = state["client"], reset => reset',
         ~reset' => got'["server"] = got["server"] /\ buf'["client"] = buf["client"]
  PROVE  RInv'
BY DEF RInv, Written

\* The step to be shown for an action that leaves the ends and the sockets' bytes alone.
LEMMA EndsKept ==
  ASSUME \A e \in Ends : Served(e) /\ ToldOf(e), RInv,
         UNCHANGED <<endVars, buf, got, shut>>, closed => closed', reset => reset',
         \A e \in Ends : ~reg[e] => polls'[e] = polls[e]
  PROVE  (\A e \in Ends : Served(e) /\ ToldOf(e))' /\ RInv'
<1>1. ASSUME NEW e \in Ends PROVE Served(e)' /\ ToldOf(e)'
  BY EndKept DEF endVars
<1>2. RInv'
  BY RequestKept DEF endVars
<1> QED
  BY <1>1, <1>2

\* Raising edges is for registered sockets, and keeps the types.
LEMMA RaiseTyped ==
  ASSUME WsTypeOK, NEW edges \in [Ends -> SUBSET {"read", "write"}], Raise(edges)
  PROVE  /\ polls' \in [Ends -> SUBSET {"read", "write"}]
         /\ \A e \in Ends : ~reg[e] => polls'[e] = polls[e]
BY DEF WsTypeOK, SharedTypes, FlagTypes, StreamTypes, Raise

-----------------------------------------------------------------------------
(* The users.                                                              *)

\* Posting a command to one channel keeps the types and leaves the others alone.
LEMMA PostTyped ==
  ASSUME WsTypeOK, NEW t \in Ends \cup {"master"}, NEW c, Post(t, c),
         t = "master" => c \in MasterCommands, t = "client" => c \in ClientCommands,
         t = "server" => c \in ServerCommands
  PROVE  /\ DOMAIN chan' = Ends \cup {"master"}
         /\ chan'["master"] \in Seq(MasterCommands) /\ chan'["client"] \in Seq(ClientCommands)
         /\ chan'["server"] \in Seq(ServerCommands)
         /\ \A u \in Ends \cup {"master"} : u # t => chan'[u] = chan[u]
         /\ \A d : Has(chan'[t], d) <=> Has(chan[t], d) \/ d = c
         /\ \A d : Once(chan[t], d) /\ (c = d => ~Has(chan[t], d)) => Once(chan'[t], d)
<1>1. /\ chan' = [chan EXCEPT ![t] = Append(@, c)] /\ DOMAIN chan = Ends \cup {"master"}
  BY DEF Post, WsTypeOK, SharedTypes, FlagTypes, StreamTypes
<1>2. chan'[t] = Append(chan[t], c) /\ \A u \in Ends \cup {"master"} : u # t => chan'[u] = chan[u]
  BY <1>1
<1>3. CASE t = "master"
  BY <1>1, <1>2, <1>3, AppendHas DEF WsTypeOK, SharedTypes, FlagTypes, StreamTypes, Ends
<1>4. CASE t = "client"
  BY <1>1, <1>2, <1>4, AppendHas DEF WsTypeOK, SharedTypes, FlagTypes, StreamTypes, Ends
<1>5. CASE t = "server"
  BY <1>1, <1>2, <1>5, AppendHas DEF WsTypeOK, SharedTypes, FlagTypes, StreamTypes, Ends
<1> QED
  BY <1>3, <1>4, <1>5 DEF Ends

\* Taking one.
LEMMA TakeTyped ==
  ASSUME WsTypeOK, NEW t \in Ends \cup {"master"}, NEW c, Taken(t, c), Take(t)
  PROVE  /\ DOMAIN chan' = Ends \cup {"master"}
         /\ chan'["master"] \in Seq(MasterCommands) /\ chan'["client"] \in Seq(ClientCommands)
         /\ chan'["server"] \in Seq(ServerCommands)
         /\ \A u \in Ends \cup {"master"} : u # t => chan'[u] = chan[u]
         /\ Has(chan[t], c)
         /\ \A d : Has(chan'[t], d) => Has(chan[t], d)
         /\ \A d : Once(chan[t], d) => Once(chan'[t], d) /\ (c = d => ~Has(chan'[t], d))
<1>1. /\ chan' = [chan EXCEPT ![t] = Tail(@)] /\ DOMAIN chan = Ends \cup {"master"}
      /\ chan[t] # <<>> /\ Head(chan[t]) = c
  BY DEF Take, Taken, WsTypeOK, SharedTypes, FlagTypes, StreamTypes
<1>2. chan'[t] = Tail(chan[t]) /\ \A u \in Ends \cup {"master"} : u # t => chan'[u] = chan[u]
  BY <1>1
<1>3. CASE t = "master"
  BY <1>1, <1>2, <1>3, TailHas DEF WsTypeOK, SharedTypes, FlagTypes, StreamTypes, Ends
<1>4. CASE t = "client"
  BY <1>1, <1>2, <1>4, TailHas DEF WsTypeOK, SharedTypes, FlagTypes, StreamTypes, Ends
<1>5. CASE t = "server"
  BY <1>1, <1>2, <1>5, TailHas DEF WsTypeOK, SharedTypes, FlagTypes, StreamTypes, Ends
<1> QED
  BY <1>3, <1>4, <1>5 DEF Ends

\* What the users do keeps the invariant.
LEMMA UserSteps == WInv /\ User => WInv'
<1> SUFFICES ASSUME WInv, User PROVE WInv'
  OBVIOUS
<1>1. ASSUME UNCHANGED <<endVars, netVars, polls>>, closed => closed', WsTypeOK', Opening' PROVE WInv'
  <2>1. (\A e \in Ends : Served(e) /\ ToldOf(e))' /\ RInv'
    BY <1>1, EndsKept DEF WInv, netVars
  <2> QED
    BY <1>1, <2>1 DEF WInv
<1> USE DEF netVars, endVars
<1>2. ASSUME NEW c \in {"listen", "connectBadUrl", "close"}, Post("master", c),
             UNCHANGED <<master, closed, answer, address, listener, netVars, endVars, polls>>
      PROVE  WInv'
  <2>1. /\ DOMAIN chan' = Ends \cup {"master"}
        /\ chan'["master"] \in Seq(MasterCommands) /\ chan'["client"] \in Seq(ClientCommands)
        /\ chan'["server"] \in Seq(ServerCommands)
        /\ \A u \in Ends \cup {"master"} : u # "master" => chan'[u] = chan[u]
        /\ Has(chan'["master"], "connect") => Has(chan["master"], "connect")
        /\ Once(chan["master"], "connect") => Once(chan'["master"], "connect")
    <3>1. c \in MasterCommands /\ c # "connect" /\ "master" # "client" /\ "master" # "server"
      BY DEF MasterCommands
    <3>2. WsTypeOK /\ Post("master", c)
      BY <1>2 DEF WInv
    <3> QED
      BY <3>1, <3>2, PostTyped
  <2>2. WsTypeOK'
    <3>1. SharedTypes /\ FlagTypes /\ StreamTypes
      BY DEF WInv, WsTypeOK
    <3>11. SharedTypes'
      BY <1>2, <2>1, <3>1 DEF SharedTypes, endVars, netVars
    <3>12. FlagTypes'
      BY <1>2, <2>1, <3>1 DEF FlagTypes, endVars, netVars
    <3>13. StreamTypes'
      BY <1>2, <2>1, <3>1 DEF StreamTypes, endVars, netVars
    <3> QED
      BY <3>11, <3>12, <3>13 DEF WsTypeOK
  <2>3. Opening'
    BY <1>2, <2>1 DEF WInv, Opening, Ends, Unopened
  <2> QED
    BY <1>1, <1>2, <2>2, <2>3
<1>3. CASE UserListen \/ UserCloseListener \/ UserConnectBadUrl
  BY <1>2, <1>3 DEF UserListen, UserCloseListener, UserConnectBadUrl
<1>4. ASSUME NEW a \in Addresses, UserConnect(a) PROVE WInv'
  <2>1. /\ DOMAIN chan' = Ends \cup {"master"}
        /\ chan'["master"] \in Seq(MasterCommands) /\ chan'["client"] \in Seq(ClientCommands)
        /\ chan'["server"] \in Seq(ServerCommands)
        /\ \A u \in Ends \cup {"master"} : u # "master" => chan'[u] = chan[u]
        /\ Once(chan["master"], "connect") /\ ~Has(chan["master"], "connect")
               => Once(chan'["master"], "connect")
    BY <1>4, PostTyped DEF WInv, MasterCommands, UserConnect
  <2>2. WsTypeOK'
    BY <1>4, <2>1 DEF WInv, WsTypeOK, SharedTypes, FlagTypes, StreamTypes, UserConnect
  <2>3. /\ ~Has(chan["master"], "connect") /\ ~Has(chan["client"], "register")
        /\ tcp = "none" /\ Unopened("client")
    BY <1>4 DEF WInv, Opening, UserConnect
  <2>4. Opening'
    BY <1>4, <2>1, <2>3 DEF WInv, Opening, Ends, Unopened, UserConnect
  <2> QED
    BY <1>1, <1>4, <2>2, <2>4 DEF UserConnect
<1>5. ASSUME NEW c \in {"send", "close"}, Post("client", c), c = "close" => closed',
             closed => closed', closed' \in BOOLEAN,
             UNCHANGED <<master, answer, address, listener, netVars, endVars, polls>>
      PROVE  WInv'
  <2>1. /\ DOMAIN chan' = Ends \cup {"master"}
        /\ chan'["master"] \in Seq(MasterCommands) /\ chan'["client"] \in Seq(ClientCommands)
        /\ chan'["server"] \in Seq(ServerCommands)
        /\ \A u \in Ends \cup {"master"} : u # "client" => chan'[u] = chan[u]
        /\ Has(chan'["client"], "register") => Has(chan["client"], "register")
        /\ Has(chan'["client"], "close") => Has(chan["client"], "close") \/ c = "close"
        /\ Once(chan["client"], "register") => Once(chan'["client"], "register")
    BY <1>5, PostTyped DEF WInv, ClientCommands, Ends
  <2>2. WsTypeOK'
    BY <1>5, <2>1 DEF WInv, WsTypeOK, SharedTypes, FlagTypes, StreamTypes
  <2>3. Opening'
    BY <1>5, <2>1 DEF WInv, Opening, Ends, Unopened
  <2> QED
    BY <1>1, <1>5, <2>2, <2>3
<1>6. CASE UserSend \/ UserClose
  BY <1>5, <1>6 DEF UserSend, UserClose, WInv, WsTypeOK, SharedTypes, FlagTypes, StreamTypes
<1> QED
  BY <1>3, <1>4, <1>6 DEF User

-----------------------------------------------------------------------------
(* The master and the network.                                             *)

\* Dropping the listener resets what waits in its backlog, and touches no end.
LEMMA CloseListenerKept ==
  ASSUME WsTypeOK, CloseListener
  PROVE  /\ listener' \in {"none", "on", "closed"} /\ backlog' = FALSE
         /\ reset' \in BOOLEAN /\ (reset => reset')
         /\ polls' \in [Ends -> SUBSET {"read", "write"}]
         /\ \A e \in Ends : ~reg[e] => polls'[e] = polls[e]
<1>1. [e \in Ends |-> IF backlog THEN {"read", "write"} ELSE {}] \in [Ends -> SUBSET {"read", "write"}]
  OBVIOUS
<1>2. /\ polls' \in [Ends -> SUBSET {"read", "write"}]
      /\ \A e \in Ends : ~reg[e] => polls'[e] = polls[e]
  BY <1>1, RaiseTyped DEF CloseListener
<1> QED
  BY <1>2 DEF CloseListener, WsTypeOK, SharedTypes, FlagTypes, StreamTypes

\* What the master does keeps the invariant: a socket that it passes on is opened for
\* the first time.
LEMMA MasterSteps == WInv /\ Master => WInv'
<1> SUFFICES ASSUME WInv, Master PROVE WInv'
  OBVIOUS
<1>1. ASSUME UNCHANGED <<endVars, buf, got, shut, closed>>, reset => reset',
             \A e \in Ends : ~reg[e] => polls'[e] = polls[e], WsTypeOK', Opening'
      PROVE  WInv'
  <2>1. (\A e \in Ends : Served(e) /\ ToldOf(e))' /\ RInv'
    BY <1>1, EndsKept DEF WInv
  <2> QED
    BY <1>1, <2>1 DEF WInv
<1> USE DEF netVars, endVars
<1>2. ASSUME NEW c \in MasterCommands, Taken("master", c), Take("master")
      PROVE  /\ DOMAIN chan' = Ends \cup {"master"}
             /\ chan'["master"] \in Seq(MasterCommands) /\ chan'["client"] \in Seq(ClientCommands)
             /\ chan'["server"] \in Seq(ServerCommands)
             /\ chan'["client"] = chan["client"] /\ chan'["server"] = chan["server"]
             /\ Has(chan'["master"], "connect") => Has(chan["master"], "connect")
             /\ Once(chan'["master"], "connect")
             /\ c = "connect" => Has(chan["master"], "connect") /\ ~Has(chan'["master"], "connect")
  <2>1. WsTypeOK /\ Once(chan["master"], "connect")
    BY DEF WInv, Opening
  <2> QED
    BY <1>2, <2>1, TakeTyped DEF Ends
<1>3. CASE DoListen
  <2>1. WsTypeOK'
    BY <1>2, <1>3 DEF DoListen, ListenWith, WInv, WsTypeOK, SharedTypes, FlagTypes, StreamTypes, MasterCommands
  <2>2. Opening'
    BY <1>2, <1>3 DEF DoListen, WInv, Opening, Ends, Unopened, MasterCommands
  <2> QED
    BY <1>1, <1>3, <2>1, <2>2 DEF DoListen
<1>4. CASE DoConnectBadUrl \/ DoCloseListener
  <2>1. PICK c \in {"connectBadUrl", "close"} : Taken("master", c) /\ Take("master")
    BY <1>4 DEF DoConnectBadUrl, DoCloseListener
  <2>2. /\ CloseListener /\ master' \in {"up", "panicked"}
        /\ UNCHANGED <<closed, answer, address, tcp, buf, got, shut, endVars>>
    BY <1>4 DEF DoConnectBadUrl, DoCloseListener
  <2>3. /\ listener' \in {"none", "on", "closed"} /\ backlog' = FALSE
        /\ reset' \in BOOLEAN /\ (reset => reset')
        /\ polls' \in [Ends -> SUBSET {"read", "write"}]
        /\ \A e \in Ends : ~reg[e] => polls'[e] = polls[e]
    BY <2>2, CloseListenerKept DEF WInv
  <2>4. WsTypeOK'
    BY <1>2, <2>1, <2>2, <2>3 DEF WInv, WsTypeOK, SharedTypes, FlagTypes, StreamTypes, MasterCommands
  <2>5. Opening'
    BY <1>2, <2>1, <2>2, <2>3 DEF WInv, Opening, Ends, Unopened, MasterCommands
  <2> QED
    BY <1>1, <2>2, <2>3, <2>4, <2>5
<1>5. CASE DoConnect
  <2>1. /\ Taken("master", "connect")
        /\ tcp' \in {"connecting", "none"}
        /\ UNCHANGED <<master, closed, address, listener, backlog, reset, buf, got, shut, endVars, polls>>
    BY <1>5 DEF DoConnect, ConnectWith
  <2>2. /\ chan["master"] \in Seq(MasterCommands) /\ chan["master"] # <<>>
        /\ Head(chan["master"]) = "connect" /\ DOMAIN chan = Ends \cup {"master"}
        /\ chan["client"] \in Seq(ClientCommands) /\ Once(chan["master"], "connect")
    BY <2>1 DEF WInv, WsTypeOK, SharedTypes, FlagTypes, StreamTypes, Opening, Taken
  <2>3. /\ Has(chan["master"], "connect") /\ Tail(chan["master"]) \in Seq(MasterCommands)
        /\ Once(Tail(chan["master"]), "connect") /\ ~Has(Tail(chan["master"]), "connect")
    BY <2>2, TailHas
  <2>4. /\ answer = "waiting" /\ tcp = "none" /\ Unopened("client")
        /\ ~Has(chan["client"], "register")
        /\ ~backlog /\ ~Has(chan["server"], "register") /\ Unopened("server")
    BY <2>3 DEF WInv, Opening, Ends
  <2>5. CASE tcp' = "connecting"
    <3>1. /\ DOMAIN chan' = DOMAIN chan
          /\ chan'["master"] = Tail(chan["master"]) /\ chan'["server"] = chan["server"]
          /\ chan'["client"] = Append(chan["client"], "register") /\ answer' = answer
      BY <1>5, <2>2, <2>5 DEF DoConnect, Ends
    <3>2. /\ chan'["client"] \in Seq(ClientCommands) /\ Once(chan'["client"], "register")
          /\ Has(chan'["client"], "close") => Has(chan["client"], "close")
      <4>1. Once(chan["client"], "register") /\ "register" \in ClientCommands /\ "close" # "register"
        BY DEF WInv, Opening, ClientCommands, Ends
      <4> QED
        BY <2>2, <2>4, <3>1, <4>1, AppendHas
    <3>3. WsTypeOK'
      BY <2>1, <2>2, <2>3, <3>1, <3>2 DEF WInv, WsTypeOK, SharedTypes, FlagTypes, StreamTypes
    <3>4. Opening'
      BY <2>1, <2>3, <2>4, <3>1, <3>2 DEF WInv, Opening, Ends, Unopened
    <3> QED
      BY <1>1, <2>1, <3>3, <3>4
  <2>6. CASE tcp' # "connecting"
    <3>1. /\ DOMAIN chan' = DOMAIN chan
          /\ chan'["master"] = Tail(chan["master"]) /\ chan'["server"] = chan["server"]
          /\ chan'["client"] = chan["client"] /\ answer' = "dropped"
      BY <1>5, <2>2, <2>6 DEF DoConnect, Take, Ends
    <3>2. WsTypeOK'
      BY <2>1, <2>2, <2>3, <3>1 DEF WInv, WsTypeOK, SharedTypes, FlagTypes, StreamTypes
    <3>3. Opening'
      BY <2>1, <2>3, <2>4, <2>6, <3>1 DEF WInv, Opening, Ends, Unopened
    <3> QED
      BY <1>1, <2>1, <3>2, <3>3
  <2> QED
    BY <2>5, <2>6
<1>6. CASE Accept
  <2>1. /\ backlog /\ backlog' = FALSE /\ Post("server", "register")
        /\ UNCHANGED <<master, closed, answer, address, listener, tcp, reset, buf, got, shut,
                       endVars, polls>>
    BY <1>6 DEF Accept, AcceptedType
  <2>2. /\ Unopened("server") /\ ~Has(chan["server"], "register") /\ tcp = "up"
        /\ Once(chan["server"], "register")
    BY <2>1 DEF WInv, Opening, Ends
  <2>3. /\ DOMAIN chan' = Ends \cup {"master"}
        /\ chan'["master"] = chan["master"] /\ chan'["client"] = chan["client"]
        /\ chan'["server"] \in Seq(ServerCommands) /\ Once(chan'["server"], "register")
    <3>1. WsTypeOK /\ "register" \in ServerCommands
      BY DEF WInv, ServerCommands
    <3> QED
      BY <2>1, <2>2, <3>1, PostTyped DEF Ends
  <2>4. WsTypeOK'
    BY <2>1, <2>3 DEF WInv, WsTypeOK, SharedTypes, FlagTypes, StreamTypes
  <2>5. Opening'
    BY <2>1, <2>2, <2>3 DEF WInv, Opening, Ends, Unopened
  <2> QED
    BY <1>1, <2>1, <2>4, <2>5
<1> QED
  BY <1>3, <1>4, <1>5, <1>6 DEF Master

\* The sockets: a connection is made once, and bytes are moved, never made.
LEMMA NetSteps == WInv /\ Net => WInv'
<1> SUFFICES ASSUME WInv, Net PROVE WInv'
  OBVIOUS
<1> USE DEF endVars
<1>1. ASSUME NEW edges, edges \in [Ends -> SUBSET {"read", "write"}], Raise(edges)
      PROVE  /\ polls' \in [Ends -> SUBSET {"read", "write"}]
             /\ \A e \in Ends : ~reg[e] => polls'[e] = polls[e]
  BY <1>1, RaiseTyped DEF WInv
<1>2. CASE SockUp \/ SockRefused
  <2>1. PICK edges \in [Ends -> SUBSET {"read", "write"}] : Raise(edges)
    BY <1>2 DEF SockUp, SockRefused, Ends
  <2>2. /\ polls' \in [Ends -> SUBSET {"read", "write"}]
        /\ \A e \in Ends : ~reg[e] => polls'[e] = polls[e]
    BY <1>1, <2>1
  <2>3. /\ tcp = "connecting" /\ tcp' \in {"up", "refused"} /\ backlog' \in BOOLEAN
        /\ backlog' => tcp' = "up" \/ backlog
        /\ UNCHANGED <<master, closed, chan, answer, address, listener, reset, buf, got, shut, endVars>>
    <3>1. backlog \in BOOLEAN
      BY DEF WInv, WsTypeOK, SharedTypes, FlagTypes, StreamTypes
    <3>2. CASE SockUp
      BY <3>2 DEF SockUp, SocketOpen
    <3>3. CASE SockRefused
      BY <3>1, <3>3 DEF SockRefused, SocketOpen
    <3> QED
      BY <1>2, <3>2, <3>3
  <2>4. ~backlog /\ ~Has(chan["server"], "register") /\ Unopened("server")
    BY <2>3 DEF WInv, Opening
  <2>5. ~Has(chan["master"], "connect") /\ answer # "none"
    BY <2>3 DEF WInv, Opening
  <2>6. WsTypeOK'
    BY <2>2, <2>3 DEF WInv, WsTypeOK, SharedTypes, FlagTypes, StreamTypes
  <2>7. Opening'
    BY <2>3, <2>4, <2>5 DEF WInv, Opening, Ends, Unopened
  <2> QED
    BY <2>2, <2>3, <2>6, <2>7, EndsKept DEF WInv
<1>3. CASE SockReset
  <2>1. PICK edges \in [Ends -> SUBSET {"read", "write"}] : Raise(edges)
    BY <1>3 DEF SockReset, Ends
  <2>2. /\ polls' \in [Ends -> SUBSET {"read", "write"}]
        /\ \A e \in Ends : ~reg[e] => polls'[e] = polls[e]
    BY <1>1, <2>1
  <2>3. /\ reset' = TRUE /\ buf' = [e \in Ends |-> <<>>]
        /\ UNCHANGED <<master, closed, chan, answer, address, listener, backlog, tcp, got, shut, endVars>>
    BY <1>3 DEF SockReset
  <2>4. buf' \in [Ends -> Seq(Pieces)]
    BY <2>3
  <2>5. WsTypeOK'
    BY <2>2, <2>3, <2>4 DEF WInv, WsTypeOK, SharedTypes, FlagTypes, StreamTypes
  <2>6. Opening'
    BY <2>3, OpeningKept DEF WInv, Unopened
  <2>7. \A e \in Ends : Served(e)' /\ ToldOf(e)'
    BY <2>2, <2>3, EndKept DEF WInv
  <2>8. RInv'
    BY <2>3, RequestKept DEF WInv
  <2> QED
    BY <2>5, <2>6, <2>7, <2>8 DEF WInv
<1>4. ASSUME NEW e \in Ends, Transmit(e) PROVE WInv'
  <2>1. PICK edges \in [Ends -> SUBSET {"read", "write"}] : Raise(edges)
    BY <1>4 DEF Transmit, Ends
  <2>2. /\ polls' \in [Ends -> SUBSET {"read", "write"}]
        /\ \A p \in Ends : ~reg[p] => polls'[p] = polls[p]
    BY <1>1, <2>1
  <2>3. /\ buf[e] # <<>> /\ buf' = [buf EXCEPT ![e] = Tail(@)]
        /\ got' = [got EXCEPT ![Peer(e)] = Append(@, Head(buf[e]))]
        /\ UNCHANGED <<master, closed, chan, answer, address, listener, backlog, tcp, reset, shut, endVars>>
    BY <1>4 DEF Transmit
  <2>4. buf[e] \in Seq(Pieces) /\ got[Peer(e)] \in Seq(Pieces) /\ Peer(e) \in Ends
    BY DEF WInv, WsTypeOK, SharedTypes, FlagTypes, StreamTypes, Peer, Ends
  <2>5. /\ Tail(buf[e]) \in Seq(Pieces) /\ Head(buf[e]) \in Pieces
        /\ Append(got[Peer(e)], Head(buf[e])) \in Seq(Pieces)
        /\ Append(got[Peer(e)], Head(buf[e])) \o Tail(buf[e]) = got[Peer(e)] \o buf[e]
    <3>1. Tail(buf[e]) \in Seq(Pieces) /\ Head(buf[e]) \in Pieces
      BY <2>3, <2>4, HeadTailProperties
    <3>2. Append(got[Peer(e)], Head(buf[e])) \in Seq(Pieces)
      BY <2>4, <3>1, AppendProperties
    <3>3. Append(got[Peer(e)], Head(buf[e])) \o Tail(buf[e]) = got[Peer(e)] \o buf[e]
      <4> DEFINE r == got[Peer(e)]
                 s == buf[e]
      <4>1. r \in Seq(Pieces) /\ s \in Seq(Pieces) /\ s # <<>>
        BY <2>3, <2>4
      <4> HIDE DEF r, s
      <4>2. Append(r, Head(s)) \o Tail(s) = r \o s
        BY <4>1, MoveHead
      <4> QED
        BY <4>2 DEF r, s
    <3> QED
      BY <3>1, <3>2, <3>3
  <2>6. WsTypeOK'
    <3>1. SharedTypes /\ FlagTypes /\ StreamTypes
      BY DEF WInv, WsTypeOK
    <3>11. SharedTypes'
      BY <2>2, <2>3, <2>4, <2>5, <3>1 DEF SharedTypes, endVars
    <3>12. FlagTypes'
      BY <2>2, <2>3, <2>4, <2>5, <3>1 DEF FlagTypes, endVars
    <3>13. StreamTypes'
      BY <2>2, <2>3, <2>4, <2>5, <3>1 DEF StreamTypes, endVars
    <3> QED
      BY <3>11, <3>12, <3>13 DEF WsTypeOK
  <2>7. Opening'
    BY <2>3, OpeningKept DEF WInv, Unopened
  <2>8. \A p \in Ends : Served(p)' /\ ToldOf(p)'
    BY <2>2, <2>3, EndKept DEF WInv
  <2>9. got'["server"] \o buf'["client"] = got["server"] \o buf["client"]
    BY <2>3, <2>4, <2>5 DEF WInv, WsTypeOK, SharedTypes, FlagTypes, StreamTypes, Peer, Ends
  <2>10. RInv'
    BY <2>3, <2>9 DEF WInv, RInv, Written
  <2> QED
    BY <2>6, <2>7, <2>8, <2>10 DEF WInv
<1> QED
  BY <1>2, <1>3, <1>4 DEF Net

-----------------------------------------------------------------------------
(* The workers.                                                            *)

\* Deregistering closes the socket, and leaves no edge of it.
LEMMA Deregistered ==
  ASSUME WsTypeOK, NEW e \in Ends, Deregister(e)
  PROVE  /\ reg' \in [Ends -> BOOLEAN] /\ shut' \in [Ends -> BOOLEAN]
         /\ polls' \in [Ends -> SUBSET {"read", "write"}]
         /\ reg'[e] = FALSE /\ (reg[e] => shut'[e]) /\ polls'[e] = {}
         /\ \A p \in Ends : shut[p] => shut'[p]
         /\ \A p \in Ends : p # e => reg'[p] = reg[p] /\ (~reg[p] => polls'[p] = polls[p])
BY DEF WsTypeOK, SharedTypes, FlagTypes, StreamTypes, Deregister

\* Registering: the end is opened, for the first time.
LEMMA RegisterSteps == ASSUME WInv, NEW e \in Ends, DoRegister(e) PROVE WInv'
<1>1. /\ Taken(e, "register") /\ Take(e) /\ IsIdle(e)
      /\ reg' = [reg EXCEPT ![e] = TRUE]
      /\ state' = [state EXCEPT ![e] = S(IF e = "client" THEN "connect" ELSE "accept", 0)]
      /\ polls' = [polls EXCEPT ![e] = ReadyEdges(e)]
      /\ answer' = IF e = "client" THEN "called" ELSE answer
      /\ UNCHANGED <<master, closed, address, listener, netVars, ready, act, events>>
  BY DEF DoRegister
<1>2. /\ DOMAIN chan' = Ends \cup {"master"}
      /\ chan'["master"] \in Seq(MasterCommands) /\ chan'["client"] \in Seq(ClientCommands)
      /\ chan'["server"] \in Seq(ServerCommands)
      /\ \A u \in Ends \cup {"master"} : u # e => chan'[u] = chan[u]
      /\ Has(chan[e], "register")
      /\ \A d : Has(chan'[e], d) => Has(chan[e], d)
      /\ Once(chan'[e], "register") /\ ~Has(chan'[e], "register")
  <2>1. WsTypeOK /\ Once(chan[e], "register")
    BY DEF WInv, Opening
  <2> QED
    BY <1>1, <2>1, TakeTyped
<1>3. /\ Unopened(e) /\ reg[e] = FALSE /\ ready[e] = FALSE /\ act[e] = "idle" /\ events[e] = <<>>
      /\ e = "client" => answer = "waiting" /\ ~Has(chan["master"], "connect")
      /\ e = "server" => tcp = "up" /\ ~backlog
  BY <1>2 DEF WInv, WsTypeOK, SharedTypes, FlagTypes, StreamTypes, Opening, Served, ToldOf, Unopened, Ends
<1>4. /\ state' \in [Ends -> States] /\ state'[e].st \in {"connect", "accept"}
      /\ e = "client" => state'[e].st = "connect"
      /\ \A p \in Ends : p # e => state'[p] = state[p]
  BY <1>1, WsConstants DEF WInv, WsTypeOK, SharedTypes, FlagTypes, StreamTypes, S, States
<1>5. ReadyEdges(e) \in SUBSET {"read", "write"}
  BY DEF ReadyEdges
<1>6. WsTypeOK'
  BY <1>1, <1>2, <1>4, <1>5 DEF WInv, WsTypeOK, SharedTypes, FlagTypes, StreamTypes, netVars
<1>7. Opening'
  <2>1. CASE e = "client"
    <3>1. /\ chan'["master"] = chan["master"] /\ chan'["server"] = chan["server"]
          /\ Once(chan'["client"], "register") /\ ~Has(chan'["client"], "register")
          /\ Has(chan'["client"], "close") => Has(chan["client"], "close")
      BY <1>2, <2>1 DEF Ends
    <3>2. /\ state'["server"] = state["server"] /\ state'["client"].st # "none"
          /\ tcp' = tcp /\ backlog' = backlog /\ closed' = closed
      BY <1>1, <1>4, <2>1 DEF Ends, netVars
    <3>3. answer' = "called" /\ answer = "waiting" /\ ~Has(chan["master"], "connect")
      BY <1>1, <1>3, <2>1
    <3>4. Opening
      BY DEF WInv
    <3>5. \A p \in Ends : Once(chan[p], "register") /\ (Has(chan[p], "register") => Unopened(p))
      BY <3>4, Zenon DEF Opening
    <3>6. \A p \in Ends : (Once(chan[p], "register") /\ (Has(chan[p], "register") => Unopened(p)))'
      <4>1. (Once(chan["server"], "register") /\ (Has(chan["server"], "register") => Unopened("server")))'
        BY <3>1, <3>2, <3>5 DEF Ends, Unopened
      <4>2. (Once(chan["client"], "register") /\ (Has(chan["client"], "register") => Unopened("client")))'
        BY <3>1
      <4> QED
        BY <4>1, <4>2 DEF Ends
    <3>7. (/\ Once(chan["master"], "connect")
           /\ Has(chan["master"], "connect") =>
                  /\ answer = "waiting" /\ tcp = "none"
                  /\ Unopened("client") /\ ~Has(chan["client"], "register"))'
      BY <3>1, <3>2, <3>3, <3>4 DEF Opening, Unopened
    <3>8. (/\ Has(chan["client"], "register") => answer = "waiting"
           /\ answer = "none" => tcp = "none" /\ Unopened("client")
           /\ Has(chan["client"], "close") => closed)'
      BY <3>1, <3>2, <3>3, <3>4 DEF Opening, Unopened
    <3>9. (/\ backlog => Unopened("server") /\ ~Has(chan["server"], "register")
           /\ backlog \/ Has(chan["server"], "register") \/ ~Unopened("server") => tcp = "up")'
      BY <3>1, <3>2, <3>3, <3>4 DEF Opening, Unopened
    <3> QED
      BY <3>6, <3>7, <3>8, <3>9 DEF Opening
  <2>2. CASE e = "server"
    <3>1. /\ chan'["master"] = chan["master"] /\ chan'["client"] = chan["client"]
          /\ Once(chan'["server"], "register") /\ ~Has(chan'["server"], "register")
          /\ Has(chan'["server"], "close") => Has(chan["server"], "close")
      BY <1>2, <2>2 DEF Ends
    <3>2. /\ state'["client"] = state["client"] /\ state'["server"].st # "none"
          /\ tcp' = tcp /\ backlog' = backlog /\ closed' = closed
      BY <1>1, <1>4, <2>2 DEF Ends, netVars
    <3>3. answer' = answer /\ tcp = "up" /\ ~backlog
      BY <1>1, <1>3, <2>2
    <3>4. Opening
      BY DEF WInv
    <3>5. \A p \in Ends : Once(chan[p], "register") /\ (Has(chan[p], "register") => Unopened(p))
      BY <3>4, Zenon DEF Opening
    <3>6. \A p \in Ends : (Once(chan[p], "register") /\ (Has(chan[p], "register") => Unopened(p)))'
      <4>1. (Once(chan["client"], "register") /\ (Has(chan["client"], "register") => Unopened("client")))'
        BY <3>1, <3>2, <3>5 DEF Ends, Unopened
      <4>2. (Once(chan["server"], "register") /\ (Has(chan["server"], "register") => Unopened("server")))'
        BY <3>1
      <4> QED
        BY <4>1, <4>2 DEF Ends
    <3>7. (/\ Once(chan["master"], "connect")
           /\ Has(chan["master"], "connect") =>
                  /\ answer = "waiting" /\ tcp = "none"
                  /\ Unopened("client") /\ ~Has(chan["client"], "register"))'
      BY <3>1, <3>2, <3>3, <3>4 DEF Opening, Unopened
    <3>8. (/\ Has(chan["client"], "register") => answer = "waiting"
           /\ answer = "none" => tcp = "none" /\ Unopened("client")
           /\ Has(chan["client"], "close") => closed)'
      BY <3>1, <3>2, <3>3, <3>4 DEF Opening, Unopened
    <3>9. (/\ backlog => Unopened("server") /\ ~Has(chan["server"], "register")
           /\ backlog \/ Has(chan["server"], "register") \/ ~Unopened("server") => tcp = "up")'
      BY <3>1, <3>2, <3>3, <3>4 DEF Opening, Unopened
    <3> QED
      BY <3>6, <3>7, <3>8, <3>9 DEF Opening
  <2> QED
    BY <2>1, <2>2 DEF Ends
<1>8. ASSUME NEW p \in Ends PROVE Served(p)' /\ ToldOf(p)'
  <2>1. CASE p = e
    <3>1. reg'[e] /\ ~ready'[e] /\ act'[e] = "idle" /\ events'[e] = <<>>
      BY <1>1, <1>3 DEF WInv, WsTypeOK, SharedTypes, FlagTypes, StreamTypes
    <3> QED
      BY <1>4, <2>1, <3>1 DEF Served, ToldOf, Unopened
  <2>2. CASE p # e
    <3>1. reg'[p] = reg[p] /\ polls'[p] = polls[p] /\ state'[p] = state[p]
      BY <1>1, <1>4, <2>2 DEF WInv, WsTypeOK, SharedTypes, FlagTypes, StreamTypes
    <3> QED
      BY <1>1, <3>1, EndKept DEF WInv, netVars
  <2> QED
    BY <2>1, <2>2
<1>9. RInv'
  <2>1. CASE e = "client"
    <3>1. Written = 0 /\ Written' = 0
      BY <1>3, <1>4, <2>1 DEF Written, Unopened
    <3> QED
      BY <1>1, <1>4, <2>1, <3>1 DEF WInv, RInv, netVars
  <2>2. CASE e # "client"
    <3>1. state'["client"] = state["client"]
      BY <1>4, <2>2 DEF Ends
    <3> QED
      BY <1>1, <3>1, RequestKept DEF WInv, netVars
  <2> QED
    BY <2>1, <2>2
<1> QED
  BY <1>6, <1>7, <1>8, <1>9 DEF WInv

\* A send finds the remote opened or refuses; a close takes it out of the registry.
LEMMA CommandSteps == ASSUME WInv, NEW e \in Ends, DoSend(e) \/ DoClose(e) PROVE WInv'
<1>1. PICK c \in {"send", "close"} : Taken(e, c) /\ Take(e) /\ (DoClose(e) => c = "close")
  BY DEF DoSend, DoClose
<1>2. /\ DOMAIN chan' = Ends \cup {"master"}
      /\ chan'["master"] \in Seq(MasterCommands) /\ chan'["client"] \in Seq(ClientCommands)
      /\ chan'["server"] \in Seq(ServerCommands)
      /\ \A u \in Ends \cup {"master"} : u # e => chan'[u] = chan[u]
      /\ Has(chan[e], c)
      /\ \A d : Has(chan'[e], d) => Has(chan[e], d)
      /\ Once(chan'[e], "register")
  <2>1. WsTypeOK /\ Once(chan[e], "register")
    BY DEF WInv, Opening
  <2> QED
    BY <1>1, <2>1, TakeTyped
<1>3. e = "client"
  <2>1. ASSUME e = "server" PROVE FALSE
    <3>1. chan["server"] \in [1 .. Len(chan["server"]) -> ServerCommands]
      BY LenProperties DEF WInv, WsTypeOK, SharedTypes, FlagTypes, StreamTypes
    <3> QED
      BY <1>2, <2>1, <3>1 DEF Has, ServerCommands
  <2> QED
    BY <2>1 DEF Ends
<1>4. DoClose(e) => closed
  BY <1>1, <1>2, <1>3 DEF WInv, Opening
<1>5. ASSUME UNCHANGED <<answer, tcp, backlog, state, closed>> PROVE Opening'
  BY <1>2, <1>3, <1>5 DEF WInv, Opening, Ends, Unopened
<1>6. CASE DoSend(e)
  <2>1. /\ act' = act
        /\ UNCHANGED <<master, closed, answer, address, listener, netVars, reg, ready, state, events, polls>>
    BY <1>6 DEF DoSend, WInv, Served
  <2>2. WsTypeOK'
    <3>1. SharedTypes /\ FlagTypes /\ StreamTypes
      BY DEF WInv, WsTypeOK
    <3>11. SharedTypes'
      BY <1>2, <2>1, <3>1 DEF SharedTypes, netVars
    <3>12. FlagTypes'
      BY <1>2, <2>1, <3>1 DEF FlagTypes, netVars
    <3>13. StreamTypes'
      BY <1>2, <2>1, <3>1 DEF StreamTypes, netVars
    <3> QED
      BY <3>11, <3>12, <3>13 DEF WsTypeOK
  <2>3. Opening'
    BY <1>5, <2>1 DEF netVars
  <2> QED
    BY <2>1, <2>2, <2>3, EndsKept DEF WInv, netVars, endVars
<1>7. CASE DoClose(e)
  <2>1. /\ Deregister(e) /\ IsIdle(e)
        /\ UNCHANGED <<master, closed, answer, address, listener, backlog, tcp, reset, buf, got,
                       ready, state, act, events>>
    BY <1>7 DEF DoClose
  <2>2. /\ reg' \in [Ends -> BOOLEAN] /\ shut' \in [Ends -> BOOLEAN]
        /\ polls' \in [Ends -> SUBSET {"read", "write"}]
        /\ reg'[e] = FALSE /\ (reg[e] => shut'[e]) /\ polls'[e] = {}
        /\ \A p \in Ends : shut[p] => shut'[p]
        /\ \A p \in Ends : p # e => reg'[p] = reg[p] /\ (~reg[p] => polls'[p] = polls[p])
    BY <2>1, Deregistered DEF WInv
  <2>3. WsTypeOK'
    <3>1. SharedTypes /\ FlagTypes /\ StreamTypes
      BY DEF WInv, WsTypeOK
    <3>11. SharedTypes'
      BY <1>2, <2>1, <2>2, <3>1 DEF SharedTypes
    <3>12. FlagTypes'
      BY <1>2, <2>1, <2>2, <3>1 DEF FlagTypes
    <3>13. StreamTypes'
      BY <1>2, <2>1, <2>2, <3>1 DEF StreamTypes
    <3> QED
      BY <3>11, <3>12, <3>13 DEF WsTypeOK
  <2>4. Opening'
    BY <1>5, <2>1
  <2>5. ASSUME NEW p \in Ends PROVE Served(p)' /\ ToldOf(p)'
    <3>1. CASE p = e
      <4>1. act[e] = "idle" /\ (reg[e] \/ Unopened(e) \/ shut[e])
        BY <2>1 DEF IsIdle, WInv, ToldOf
      <4>2. Served(e)'
        BY <2>1, <2>2, <4>1 DEF WInv, Served
      <4>3. ToldOf(e)'
        BY <1>4, <1>7, <2>1, <2>2, <4>1 DEF WInv, ToldOf, Unopened
      <4> QED
        BY <3>1, <4>2, <4>3
    <3>2. CASE p # e
      BY <2>1, <2>2, <3>2, EndKept DEF WInv
    <3> QED
      BY <3>1, <3>2
  <2>6. RInv'
    BY <2>1, RequestKept DEF WInv
  <2> QED
    BY <2>3, <2>4, <2>5, <2>6 DEF WInv
<1> QED
  BY <1>6, <1>7

\* A poll event starts pending() of a remote that is not ready.
LEMMA EdgeSteps == ASSUME WInv, NEW e \in Ends, ProcessRead(e) \/ ProcessWrite(e) PROVE WInv'
<1>1. PICK k \in {"read", "write"} :
          /\ act[e] = "idle" /\ reg[e] /\ polls' = [polls EXCEPT ![e] = @ \ {k}]
          /\ act' = IF ready[e] THEN act ELSE [act EXCEPT ![e] = "pending"]
          /\ UNCHANGED <<master, closed, chan, answer, address, listener, netVars, reg, ready, state, events>>
  BY DEF ProcessRead, ProcessWrite, Edge, IsIdle
<1>2. /\ act' \in [Ends -> {"idle", "pending", "handshake"}]
      /\ act'[e] \in {"idle", "pending"} /\ (act'[e] # "idle" => ~ready[e])
      /\ \A p \in Ends : p # e => act'[p] = act[p] /\ polls'[p] = polls[p]
      /\ polls' \in [Ends -> SUBSET {"read", "write"}]
  BY <1>1 DEF WInv, WsTypeOK, SharedTypes, FlagTypes, StreamTypes
<1>3. WsTypeOK'
  BY <1>1, <1>2 DEF WInv, WsTypeOK, SharedTypes, FlagTypes, StreamTypes, netVars
<1>4. Opening'
  BY <1>1, OpeningKept DEF WInv, Unopened, netVars
<1>5. ASSUME NEW p \in Ends PROVE Served(p)' /\ ToldOf(p)'
  <2>1. CASE p = e
    BY <1>1, <1>2, <2>1 DEF WInv, Served, ToldOf, Unopened, netVars
  <2>2. CASE p # e
    BY <1>1, <1>2, <2>2, EndKept DEF WInv, netVars
  <2> QED
    BY <2>1, <2>2
<1>6. RInv'
  BY <1>1, RequestKept DEF WInv, netVars
<1> QED
  BY <1>3, <1>4, <1>5, <1>6 DEF WInv

\* What a round of pending() comes to: e goes on or waits, fails, or is ready.
Stays(e) ==
    /\ act' \in [Ends -> {"idle", "handshake"} \cup {act[p] : p \in Ends \ {e}}]
    /\ act'[e] \in {"idle", "handshake"}
    /\ act'[e] = "handshake" => state'[e].st \in {"read", "write"}
    /\ state'[e].st # "error"
    /\ UNCHANGED <<reg, ready, shut, polls, events>>
Resolved(e) ==
    /\ state' \in [Ends -> States] /\ state'[e].st # "none"
    /\ state'[e].st = "read" => state'[e].left = 0
    /\ state'[e].st = "write" => state'[e].left > 0
    /\ \A p \in Ends : p # e => state'[p] = state[p] /\ act'[p] = act[p]
    /\ Stays(e) \/ Disconnected(e) \/ (state'[e].st = "websocket" /\ Ready(e))

\* Whatever it comes to, the ends stay in order.
LEMMA ResolvedKept ==
  ASSUME WInv, NEW e \in Ends, act[e] # "idle", Resolved(e), buf' \in [Ends -> Seq(Pieces)],
         UNCHANGED <<master, closed, chan, answer, address, listener, backlog, tcp, reset, got>>
  PROVE  WsTypeOK' /\ Opening' /\ (\A p \in Ends : Served(p) /\ ToldOf(p))'
<1>1. /\ reg[e] /\ ~ready[e] /\ events[e] = <<>> /\ ~Unopened(e)
      /\ WsTypeOK /\ Opening /\ \A p \in Ends : Served(p) /\ ToldOf(p)
  BY DEF WInv, Served, ToldOf, Unopened
<1>2. Opening'
  BY <1>1, OpeningKept DEF Resolved, Unopened
<1>3. ASSUME act' \in [Ends -> {"idle", "pending", "handshake"}],
             reg' \in [Ends -> BOOLEAN], ready' \in [Ends -> BOOLEAN], shut' \in [Ends -> BOOLEAN],
             polls' \in [Ends -> SUBSET {"read", "write"}], events' \in [Ends -> Seq(NetEvents)]
      PROVE  WsTypeOK'
  <2>1. state' \in [Ends -> States]
    BY DEF Resolved
  <2>2. SharedTypes /\ FlagTypes /\ StreamTypes
    BY <1>1 DEF WsTypeOK
  <2>11. SharedTypes'
    BY <1>3, <2>1, <2>2 DEF SharedTypes, Resolved
  <2>12. FlagTypes'
    BY <1>3, <2>1, <2>2 DEF FlagTypes, Resolved
  <2>13. StreamTypes'
    BY <1>3, <2>1, <2>2 DEF StreamTypes, Resolved
  <2> QED
    BY <2>11, <2>12, <2>13 DEF WsTypeOK
<1>4. ASSUME NEW p \in Ends, p # e, reg'[p] = reg[p], ready'[p] = ready[p], events'[p] = events[p],
             ~reg[p] => polls'[p] = polls[p], shut[p] => shut'[p]
      PROVE  Served(p)' /\ ToldOf(p)'
  BY <1>1, <1>4, EndKept DEF Resolved
<1>5. CASE Stays(e)
  <2>1. WsTypeOK'
    BY <1>1, <1>3, <1>5 DEF Stays, WsTypeOK, SharedTypes, FlagTypes, StreamTypes
  <2>2. Served(e)' /\ ToldOf(e)'
    BY <1>1, <1>5 DEF Stays, Resolved, Served, ToldOf, Unopened
  <2>3. \A p \in Ends : Served(p)' /\ ToldOf(p)'
    BY <1>4, <1>5, <2>2 DEF Stays
  <2> QED
    BY <1>2, <2>1, <2>3
<1>6. CASE Disconnected(e)
  <2>1. /\ act' = [act EXCEPT ![e] = "idle"] /\ UNCHANGED ready /\ Deregister(e)
        /\ events' = IF e = "client" THEN [events EXCEPT ![e] = Append(@, "ConnectFail")] ELSE events
    BY <1>6 DEF Disconnected, Emit
  <2>2. /\ reg' \in [Ends -> BOOLEAN] /\ shut' \in [Ends -> BOOLEAN]
        /\ polls' \in [Ends -> SUBSET {"read", "write"}]
        /\ reg'[e] = FALSE /\ (reg[e] => shut'[e]) /\ polls'[e] = {}
        /\ \A p \in Ends : shut[p] => shut'[p]
        /\ \A p \in Ends : p # e => reg'[p] = reg[p] /\ (~reg[p] => polls'[p] = polls[p])
    BY <1>1, <2>1, Deregistered
  <2>3. Append(<<>>, "ConnectFail") = <<"ConnectFail">> /\ <<"ConnectFail">> \in Seq(NetEvents)
    BY DEF NetEvents
  <2>4. /\ events' \in [Ends -> Seq(NetEvents)]
        /\ events'[e] = IF e = "client" THEN <<"ConnectFail">> ELSE <<>>
        /\ \A p \in Ends : p # e => events'[p] = events[p]
    BY <1>1, <2>1, <2>3 DEF WsTypeOK, SharedTypes, FlagTypes, StreamTypes
  <2>5. act' \in [Ends -> {"idle", "pending", "handshake"}] /\ act'[e] = "idle"
    BY <1>1, <2>1 DEF WsTypeOK, SharedTypes, FlagTypes, StreamTypes
  <2>6. WsTypeOK'
    BY <1>1, <1>3, <2>1, <2>2, <2>4, <2>5 DEF WsTypeOK, SharedTypes, FlagTypes, StreamTypes
  <2>7. Served(e)' /\ ToldOf(e)'
    BY <1>1, <2>1, <2>2, <2>4, <2>5 DEF Resolved, Served, ToldOf, Unopened
  <2>8. \A p \in Ends : Served(p)' /\ ToldOf(p)'
    BY <1>4, <2>1, <2>2, <2>4, <2>7
  <2> QED
    BY <1>2, <2>6, <2>8
<1>7. CASE state'[e].st = "websocket" /\ Ready(e)
  <2> DEFINE ev == IF e = "client" THEN "Connected" ELSE "Accepted"
  <2>1. /\ act' = [act EXCEPT ![e] = "idle"] /\ ready' = [ready EXCEPT ![e] = TRUE]
        /\ events' = [events EXCEPT ![e] = Append(@, ev)]
        /\ UNCHANGED <<reg, shut, polls>>
    BY <1>7 DEF Ready, Emit
  <2>2. Append(<<>>, ev) = <<ev>> /\ <<ev>> \in Seq(NetEvents)
    BY DEF NetEvents
  <2>3. /\ events' \in [Ends -> Seq(NetEvents)] /\ events'[e] = <<ev>>
        /\ \A p \in Ends : p # e => events'[p] = events[p] /\ ready'[p] = ready[p]
        /\ ready' \in [Ends -> BOOLEAN] /\ ready'[e] = TRUE
    BY <1>1, <2>1, <2>2 DEF WsTypeOK, SharedTypes, FlagTypes, StreamTypes
  <2>4. act' \in [Ends -> {"idle", "pending", "handshake"}] /\ act'[e] = "idle"
    BY <1>1, <2>1 DEF WsTypeOK, SharedTypes, FlagTypes, StreamTypes
  <2>5. WsTypeOK'
    BY <1>1, <1>3, <2>1, <2>3, <2>4 DEF WsTypeOK, SharedTypes, FlagTypes, StreamTypes
  <2>6. Served(e)' /\ ToldOf(e)'
    BY <1>1, <1>7, <2>1, <2>3, <2>4 DEF Served, ToldOf, Unopened
  <2>7. \A p \in Ends : Served(p)' /\ ToldOf(p)'
    BY <1>4, <2>1, <2>3, <2>6
  <2> QED
    BY <1>2, <2>5, <2>7
<1> QED
  BY <1>5, <1>6, <1>7 DEF Resolved

\* Changing one end's stage to n.
LEMMA StageSet ==
  ASSUME WsTypeOK, NEW e \in Ends, NEW n \in States, state' = [state EXCEPT ![e] = n]
  PROVE  /\ state' \in [Ends -> States] /\ state'[e] = n
         /\ \A p \in Ends : p # e => state'[p] = state[p]
BY DEF WsTypeOK, SharedTypes, FlagTypes, StreamTypes

\* pending(), up to the handshake's loop.
LEMMA PendingSteps == ASSUME WInv, NEW e \in Ends, Pending(e) PROVE WInv'
<1>1. /\ act[e] = "pending"
      /\ UNCHANGED <<master, closed, chan, answer, address, listener, backlog, tcp, reset, buf, got>>
  BY DEF Pending
<1>2. /\ state[e].st \in {"connect", "accept", "read", "write", "websocket"}
      /\ state[e] \in States /\ WsTypeOK /\ Served(e)
      /\ act \in [Ends -> {"idle", "pending", "handshake"}]
      /\ e = "client" => state[e].st \notin {"accept", "websocket"}
  BY <1>1 DEF WInv, WsTypeOK, SharedTypes, FlagTypes, StreamTypes, Served, States, RInv
<1>3. /\ \A st \in {"write", "read", "error", "websocket"}, n \in 0 .. RequestLen :
             S(st, n) \in States /\ S(st, n).st = st /\ S(st, n).left = n
      /\ 0 \in 0 .. RequestLen /\ RequestLen \in 0 .. RequestLen /\ RequestLen > 0
  BY WsConstants DEF S, States
<1>4. ASSUME Handshake(e) \/ Incomplete(e)
      PROVE  /\ UNCHANGED <<reg, ready, shut, polls, events>>
             /\ act'[e] \in {"idle", "handshake"} /\ (Incomplete(e) => act'[e] = "idle")
             /\ act' \in [Ends -> {"idle", "handshake"} \cup {act[p] : p \in Ends \ {e}}]
             /\ \A p \in Ends : p # e => act'[p] = act[p]
  BY <1>2, <1>4 DEF Handshake, Incomplete
<1>5. ASSUME Disconnected(e) PROVE \A p \in Ends : p # e => act'[p] = act[p]
  BY <1>2, <1>5 DEF Disconnected
<1>6. /\ Resolved(e)
      /\ e = "client" => /\ state'[e].st \notin {"accept", "websocket"}
                         /\ ~reset => Written' = Written
  <2>1. ASSUME state' = [state EXCEPT ![e] = S("write", RequestLen)], Handshake(e),
               state[e].st = "connect"
        PROVE  Resolved(e) /\ (e = "client" => state'[e].st \notin {"accept", "websocket"} /\ Written' = Written)
    <3>1. /\ state' \in [Ends -> States] /\ state'[e] = S("write", RequestLen)
          /\ \A p \in Ends : p # e => state'[p] = state[p]
      <4>1. S("write", RequestLen) \in States
        BY <1>3
      <4> QED
        BY <1>2, <2>1, <4>1, StageSet
    <3>2. state'[e].st = "write" /\ state'[e].left = RequestLen
      BY <1>3, <3>1
    <3>3. Resolved(e)
      BY <1>3, <1>4, <2>1, <3>1, <3>2 DEF Resolved, Stays
    <3>4. ASSUME e = "client" PROVE Written' = Written
      BY <1>3, <2>1, <3>2, <3>4, WsConstants DEF Written
    <3> QED
      BY <3>2, <3>3, <3>4
  <2>2. ASSUME state' = [state EXCEPT ![e] = S("error", 0)], Disconnected(e), state[e].st = "connect"
        PROVE  Resolved(e) /\ (e = "client" => state'[e].st \notin {"accept", "websocket"} /\ Written' = Written)
    <3>1. /\ state' \in [Ends -> States] /\ state'[e] = S("error", 0)
          /\ \A p \in Ends : p # e => state'[p] = state[p]
      <4>1. S("error", 0) \in States
        BY <1>3
      <4> QED
        BY <1>2, <2>2, <4>1, StageSet
    <3>2. state'[e].st = "error"
      BY <1>3, <3>1
    <3>3. Resolved(e)
      BY <1>5, <2>2, <3>1, <3>2 DEF Resolved
    <3>4. ASSUME e = "client" PROVE Written' = Written
      BY <2>2, <3>2, <3>4 DEF Written
    <3> QED
      BY <3>2, <3>3, <3>4
  <2>3. ASSUME state' = [state EXCEPT ![e] = S("read", 0)], Handshake(e), state[e].st = "accept"
        PROVE  Resolved(e) /\ state'[e].st = "read"
    <3>1. /\ state' \in [Ends -> States] /\ state'[e] = S("read", 0)
          /\ \A p \in Ends : p # e => state'[p] = state[p]
      <4>1. S("read", 0) \in States
        BY <1>3
      <4> QED
        BY <1>2, <2>3, <4>1, StageSet
    <3>2. state'[e].st = "read" /\ state'[e].left = 0
      BY <1>3, <3>1
    <3> QED
      BY <1>4, <2>3, <3>1, <3>2 DEF Resolved, Stays
  <2>4. ASSUME UNCHANGED state,
               \/ Incomplete(e) \/ Disconnected(e)
               \/ Handshake(e) /\ state[e].st \in {"read", "write"}
               \/ Ready(e) /\ state[e].st = "websocket"
        PROVE  Resolved(e) /\ (e = "client" => state'[e].st \notin {"accept", "websocket"} /\ Written' = Written)
    <3>1. \A p \in Ends : p # e => act'[p] = act[p]
      BY <1>2, <1>4, <1>5, <2>4 DEF Ready
    <3>2. state' \in [Ends -> States] /\ state'[e].st \notin {"none", "error"}
      BY <1>2, <2>4 DEF WsTypeOK, SharedTypes, FlagTypes, StreamTypes
    <3>3. Resolved(e)
      BY <1>2, <1>4, <2>4, <3>1, <3>2 DEF Resolved, Stays, Served
    <3> QED
      BY <1>2, <2>4, <3>3 DEF Written
  <2> QED
    <3>1. CASE state[e].st = "connect"
      <4>1. CASE TcpStatus = "Ready"
        <5>1. WsConnect(e)
          BY <3>1, <4>1 DEF Pending
        <5> QED
          BY <3>1, <5>1, <2>1, <2>2 DEF WsConnect, Failure, StartWrite, GenerateRequest
      <4>2. CASE TcpStatus \in {"Incomplete", "Disconnected"}
        <5>1. UNCHANGED state /\ (Incomplete(e) \/ Disconnected(e))
          BY <3>1, <4>2 DEF Pending
        <5> QED
          BY <5>1, <2>4
      <4> QED
        BY <4>1, <4>2 DEF TcpStatus
    <3>2. CASE state[e].st = "accept"
      <4>1. WsAccept(e)
        BY <3>2 DEF Pending
      <4> QED
        BY <1>2, <3>2, <4>1, <2>3 DEF WsAccept, StartRead
    <3>3. CASE state[e].st \in {"read", "write"}
      BY <3>3, <2>4 DEF Pending
    <3>4. CASE state[e].st = "websocket"
      BY <3>4, <2>4 DEF Pending
    <3> QED
      BY <1>2, <3>1, <3>2, <3>3, <3>4
<1>7. WsTypeOK' /\ Opening' /\ (\A p \in Ends : Served(p) /\ ToldOf(p))'
  BY <1>1, <1>6, ResolvedKept DEF WInv, WsTypeOK, SharedTypes, FlagTypes, StreamTypes
<1>8. RInv'
  <2>1. CASE e = "client"
    BY <1>1, <1>6, <2>1 DEF WInv, RInv
  <2>2. CASE e # "client"
    <3>1. state'["client"] = state["client"]
      BY <1>6, <2>2 DEF Resolved, Ends
    <3> QED
      BY <1>1, <3>1, RequestKept DEF WInv
  <2> QED
    BY <2>1, <2>2
<1> QED
  BY <1>7, <1>8 DEF WInv

\* A round of the handshake's loop.  Nothing is read, so the reading stage is left only
\* by giving up the round; a write takes one piece off the packet.
LEMMA RoundSteps == ASSUME WInv, NEW e \in Ends, ReadRound(e) \/ WriteRound(e) PROVE WInv'
<1>1. /\ act[e] = "handshake" /\ state[e].st \in {"read", "write"}
      /\ UNCHANGED <<master, closed, chan, answer, address, listener, backlog, tcp, reset, got>>
  BY DEF ReadRound, WriteRound, InLoop
<1>2. /\ state[e] \in States /\ WsTypeOK /\ Served(e)
      /\ act \in [Ends -> {"idle", "pending", "handshake"}]
      /\ buf \in [Ends -> Seq(Pieces)] /\ got \in [Ends -> Seq(Pieces)]
      /\ state[e].left \in 0 .. RequestLen /\ RequestLen \in Nat \ {0}
  BY <1>1, WsConstants DEF WInv, WsTypeOK, SharedTypes, FlagTypes, StreamTypes, States
<1>3. /\ \A st \in {"write", "read", "error", "websocket"}, n \in 0 .. RequestLen :
             S(st, n) \in States /\ S(st, n).st = st /\ S(st, n).left = n
  BY DEF S, States
<1>4. ASSUME Resolved(e), buf' \in [Ends -> Seq(Pieces)], RInv' PROVE WInv'
  <2>1. WsTypeOK' /\ Opening' /\ (\A p \in Ends : Served(p) /\ ToldOf(p))'
    BY <1>1, <1>4, ResolvedKept
  <2> QED
    BY <1>4, <2>1 DEF WInv
<1>5. ASSUME Incomplete(e), UNCHANGED <<state, buf>> PROVE WInv'
  <2>1. Resolved(e)
    BY <1>1, <1>2, <1>5 DEF Incomplete, Resolved, Stays, Served, WsTypeOK, SharedTypes, FlagTypes, StreamTypes
  <2>2. RInv'
    BY <1>1, <1>5, RequestKept DEF WInv
  <2> QED
    BY <1>2, <1>4, <1>5, <2>1, <2>2
<1>6. ASSUME Failure(e), UNCHANGED buf, reset PROVE WInv'
  <2>1. /\ state' \in [Ends -> States] /\ state'[e] = S("error", 0)
        /\ \A p \in Ends : p # e => state'[p] = state[p]
    <3>1. S("error", 0) \in States
      BY <1>2, <1>3
    <3> QED
      BY <1>2, <1>6, <3>1, StageSet DEF Failure
  <2>2. state'[e].st = "error" /\ \A p \in Ends : p # e => act'[p] = act[p]
    BY <1>2, <1>3, <1>6, <2>1 DEF Failure, Disconnected
  <2>3. Resolved(e)
    BY <1>6, <2>1, <2>2 DEF Resolved, Failure
  <2>4. RInv'
    BY <1>1, <1>6, <2>1, <2>2 DEF WInv, RInv, Ends
  <2> QED
    BY <1>2, <1>4, <1>6, <2>3, <2>4
<1>7. CASE ReadRound(e)
  BY <1>2, <1>5, <1>7 DEF ReadRound, InLoop, Served
<1>8. CASE WriteRound(e)
  <2> DEFINE left == state[e].left
  <2>1. state[e].st = "write" /\ left \in 1 .. RequestLen
    BY <1>2, <1>8 DEF WriteRound, InLoop, Served
  <2>2. CASE reset
    BY <1>6, <1>8, <2>2 DEF WriteRound
  <2>3. CASE ~reset /\ Len(buf[e]) = SendBuf
    BY <1>5, <1>8, <2>3 DEF WriteRound
  <2>4. CASE ~reset /\ Len(buf[e]) # SendBuf
    <3>1. /\ buf' = [buf EXCEPT ![e] = Append(@, Piece(left))]
          /\ IF left > 1 THEN Continue(e, S("write", left - 1)) ELSE StageFinished(e, "DoneWriting")
      BY <1>8, <2>4 DEF WriteRound
    <3>2. Piece(left) = (RequestLen - left) + 1 /\ Piece(left) \in Pieces
      BY <1>2, <2>1 DEF Piece, Pieces
    <3>3. buf' \in [Ends -> Seq(Pieces)] /\ buf'[e] = Append(buf[e], Piece(left))
          /\ \A p \in Ends : p # e => buf'[p] = buf[p]
      BY <1>2, <3>1, <3>2, AppendProperties
    <3>4. \/ /\ left > 1 \/ e = "client"
             /\ state' = [state EXCEPT ![e] = IF left > 1 THEN S("write", left - 1) ELSE S("read", 0)]
             /\ UNCHANGED <<reg, ready, act, shut, polls, events>>
          \/ /\ e = "server"
             /\ state' = [state EXCEPT ![e] = S("websocket", 0)] /\ Ready(e)
      BY <3>1 DEF Continue, StageFinished, ClientStage, ServerStage, StartRead, Done, Ends
    <3>5. CASE /\ left > 1 \/ e = "client"
               /\ state' = [state EXCEPT ![e] = IF left > 1 THEN S("write", left - 1) ELSE S("read", 0)]
               /\ UNCHANGED <<reg, ready, act, shut, polls, events>>
      <4> DEFINE n == IF left > 1 THEN S("write", left - 1) ELSE S("read", 0)
      <4>1. /\ n \in States
            /\ \/ left > 1 /\ n.st = "write" /\ n.left = left - 1
               \/ left = 1 /\ n.st = "read" /\ n.left = 0
        BY <1>2, <1>3, <2>1
      <4> HIDE DEF n
      <4>2. /\ state' \in [Ends -> States] /\ state'[e] = n
            /\ \A p \in Ends : p # e => state'[p] = state[p]
        BY <1>2, <3>5, <4>1, StageSet DEF n
      <4>3. Resolved(e)
        BY <1>1, <1>2, <2>1, <3>5, <4>1, <4>2 DEF Resolved, Stays
      <4>4. ASSUME e = "client" PROVE RInv'
        <5>1. Written = RequestLen - left /\ Written' = (RequestLen - left) + 1
          <6>1. state["client"].st = "write" /\ state["client"].left = left
            BY <2>1, <4>4
          <6>2. Written = RequestLen - left
            BY <6>1 DEF Written
          <6>3. CASE left > 1 /\ n.st = "write" /\ n.left = left - 1
            <7>1. Written' = RequestLen - (left - 1)
              BY <4>2, <4>4, <6>3 DEF Written
            <7> QED
              BY <1>2, <2>1, <6>2, <7>1
          <6>4. CASE left = 1 /\ n.st = "read" /\ n.left = 0
            <7>1. Written' = RequestLen
              BY <4>2, <4>4, <6>4 DEF Written
            <7> QED
              BY <1>2, <6>2, <6>4, <7>1
          <6> QED
            BY <4>1, <6>3, <6>4
        <5>2. got["server"] \in Seq(Nat) /\ buf["client"] \in Seq(Nat) /\ RequestLen - left \in Nat
          BY <1>2, <2>1, PiecesAreNumbers DEF Ends
        <5>3. got["server"] \o buf["client"] = Request(RequestLen - left)
          BY <2>4, <5>1 DEF WInv, RInv
        <5>4. got["server"] \o Append(buf["client"], (RequestLen - left) + 1)
                = Request((RequestLen - left) + 1)
          BY <5>2, <5>3, NextPiece
        <5> QED
          BY <1>1, <3>2, <3>3, <4>1, <4>2, <4>4, <5>1, <5>4 DEF RInv
      <4>5. ASSUME e # "client" PROVE RInv'
        BY <1>1, <3>3, <4>2, <4>5, RequestKept DEF WInv, Ends
      <4> QED
        BY <1>4, <3>3, <4>3, <4>4, <4>5
    <3>6. CASE e = "server" /\ state' = [state EXCEPT ![e] = S("websocket", 0)] /\ Ready(e)
      <4>1. /\ state' \in [Ends -> States] /\ state'[e] = S("websocket", 0)
            /\ \A p \in Ends : p # e => state'[p] = state[p]
        <5>1. S("websocket", 0) \in States
          BY <1>2, <1>3
        <5> QED
          BY <1>2, <3>6, <5>1, StageSet
      <4>2. state'[e].st = "websocket" /\ \A p \in Ends : p # e => act'[p] = act[p]
        BY <1>2, <1>3, <3>6, <4>1 DEF Ready
      <4>3. Resolved(e)
        BY <3>6, <4>1, <4>2 DEF Resolved
      <4>4. RInv'
        BY <1>1, <3>3, <3>6, <4>1, RequestKept DEF WInv, Ends
      <4> QED
        BY <1>4, <3>3, <4>3, <4>4
    <3> QED
      BY <3>4, <3>5, <3>6
  <2> QED
    BY <2>2, <2>3, <2>4
<1> QED
  BY <1>7, <1>8

-----------------------------------------------------------------------------
(* The theorems.                                                           *)

\* The inductive invariant of the two remotes.
THEOREM WInvInvariant == Spec => []WInv
<1>1. Init => WInv
  <2> SUFFICES ASSUME Init PROVE WInv
    OBVIOUS
  <2>1. \A t \in Ends \cup {"master"} : chan[t] = <<>> /\ Len(chan[t]) = 0
    BY DEF Init
  <2>2. \A t \in Ends \cup {"master"} : \A c : ~Has(chan[t], c) /\ Once(chan[t], c)
    BY <2>1 DEF Has, Once
  <2>3. \A e \in Ends : state[e] \in States /\ state[e].st = "none"
    BY WsConstants DEF Init, S, States
  <2>4. \A T : <<>> \in Seq(T)
    OBVIOUS
  <2>5. WsTypeOK
    BY <2>1, <2>3, <2>4, WsConstants DEF Init, WsTypeOK, SharedTypes, FlagTypes, StreamTypes, S, States, Ends
  <2>6. Opening
    BY <2>2, <2>3 DEF Init, Opening, Unopened, Ends
  <2>7. \A e \in Ends : Served(e) /\ ToldOf(e)
    BY <2>3 DEF Init, Served, ToldOf, Unopened
  <2>8. RInv
    <3>1. Written = 0 /\ got["server"] = <<>> /\ buf["client"] = <<>>
      BY <2>3 DEF Init, Written, Ends
    <3>2. <<>> \o <<>> = <<>> /\ Request(0) = <<>>
      BY DEF Request
    <3> QED
      BY <2>3, <3>1, <3>2 DEF RInv, Ends
  <2> QED
    BY <2>5, <2>6, <2>7, <2>8 DEF WInv
<1>2. WInv /\ [Next]_vars => WInv'
  <2> SUFFICES ASSUME WInv, [Next]_vars PROVE WInv'
    OBVIOUS
  <2>1. CASE UNCHANGED vars
    <3>1. WsTypeOK'
      BY <2>1 DEF vars, netVars, endVars, WInv, WsTypeOK, SharedTypes, FlagTypes, StreamTypes
    <3>2. Opening'
      BY <2>1, OpeningKept DEF vars, netVars, endVars, WInv, Unopened
    <3>3. (\A e \in Ends : Served(e) /\ ToldOf(e))' /\ RInv'
      BY <2>1, EndsKept DEF vars, netVars, WInv
    <3> QED
      BY <3>1, <3>2, <3>3 DEF WInv
  <2>2. ASSUME NEW e \in Ends, Commands(e) \/ Polled(e) PROVE WInv'
    BY <2>2, RegisterSteps, CommandSteps, EdgeSteps, PendingSteps, RoundSteps DEF Commands, Polled
  <2> QED
    BY <2>1, <2>2, UserSteps, MasterSteps, NetSteps DEF Next
<1> QED
  BY <1>1, <1>2, PTL DEF Spec

\* No worker reaches an unreachable!() of the WebSocket adapter, whatever edges and
\* commands are left when a handshake fails, for requests and buffers of every size.
THEOREM NeverUnreachableHolds == Spec => []NeverUnreachable
<1>1. WInv => NeverUnreachable
  BY DEF WInv, WsTypeOK, SharedTypes, FlagTypes, StreamTypes, NeverUnreachable
<1> QED
  BY <1>1, WInvInvariant, PTL

\* HandshakeMachine::single_round, interrupted and resumed at any piece of a request of
\* any length, puts each piece on the wire once and in order.
THEOREM RequestOnceHolds == Spec => []RequestOnce
<1>1. WInv => RequestOnce
  BY DEF WInv, RInv, Written, RequestOnce
<1> QED
  BY <1>1, WInvInvariant, PTL

\* A remote that ends before it is ready is in no registry, has its socket closed and no
\* edge to come, and its user has been told once (WsDriver::resolve_pending_remote).
THEOREM FailureToldHolds == Spec => []FailureTold
<1>1. WInv => FailureTold
  <2> SUFFICES ASSUME WInv, NEW e \in Ends
               PROVE  /\ events[e] = <<"ConnectFail">> \/ state[e].st = "error" => ~reg[e]
                      /\ state[e].st # "none" /\ ~reg[e] =>
                             /\ shut[e] /\ polls[e] = {}
                             /\ closed \/ events[e] = IF e = "client" THEN <<"ConnectFail">> ELSE <<>>
    BY DEF FailureTold
  <2>1. <<"ConnectFail">> \notin {<<>>, <<"Connected">>, <<"Accepted">>}
    <3>1. Len(<<"ConnectFail">>) = 1 /\ Len(<<>>) = 0
      OBVIOUS
    <3>2. <<"ConnectFail">>[1] = "ConnectFail" /\ <<"Connected">>[1] = "Connected"
          /\ <<"Accepted">>[1] = "Accepted"
      OBVIOUS
    <3> QED
      BY <3>1, <3>2
  <2> QED
    BY <2>1 DEF WInv, Served, ToldOf, Unopened
<1> QED
  BY <1>1, WInvInvariant, PTL
====
