---------------------------- MODULE SyncConnect ----------------------------
(***************************************************************************)
(* connect_sync_with on top of NodeLifecycle: a user thread posts Connect  *)
(* to the master and blocks on a promise, which the worker that registers  *)
(* the socket keeps; it then asks that worker is_ready, a millisecond      *)
(* apart and at most MaxTries (1000) times.  Meanwhile the connection is   *)
(* made, refused or lost, the poll resolves it and tells the user, who may *)
(* close it from the callback, and the node may be stopped.                *)
(***************************************************************************)
EXTENDS NodeLifecycle

CONSTANTS Connectors,  \* user threads that call connect_sync
          MaxTries     \* how often is_ready is asked

ASSUME SyncBounds == MaxTries \in Nat \ {0} /\ ThreadNum > 1

VARIABLES
    conn,    \* conn[k]: where k is in connect_sync_with, or what it returned
    tries,   \* tries[k]: how often k has asked
    answer,  \* answer[k]: what the promise of is_ready holds: Some(true) is
             \* "ready", Some(false) "notReady", None "gone"
    home,    \* home[k]: the worker of k's resource
    res,     \* res[k]: k's resource: "none", "pending", "ready" or "gone"
    sock,    \* sock[k]: its socket
    edge,    \* edge[k]: the poll has an event of it to report
    told     \* history: the NetEvents of k's endpoint

connVars == <<conn, tries, answer, home, res, sock, edge, told>>
syncVars == <<vars, connVars>>

Master == 1
Returned == {"ok", "refused", "aborted"}

SyncInit ==
    /\ Init
    /\ conn = [k \in Connectors |-> "idle"] /\ tries = [k \in Connectors |-> 0]
    /\ answer = [k \in Connectors |-> "none"]
    /\ home \in [Connectors -> Threads \ {Master}]
    /\ res = [k \in Connectors |-> "none"] /\ sock = [k \in Connectors |-> "none"]
    /\ edge = [k \in Connectors |-> FALSE] /\ told = [k \in Connectors |-> <<>>]

Post(t, c) == inbox' = [inbox EXCEPT ![t] = Append(@, c)]

-----------------------------------------------------------------------------
(* The user threads.                                                       *)

\* connect_with, then promise.wait().
ConnectSync(k) ==
    /\ conn[k] = "idle"
    /\ conn' = [conn EXCEPT ![k] = "connecting"]
    /\ Post(Master, Cmd("Connect", k))
    /\ UNCHANGED <<running, main, next, thrCounter, thr, posts, call>>
    /\ UNCHANGED <<tries, answer, home, res, sock, edge, told>>

\* A turn of the loop: is_ready_sync posts and waits.
AskReady(k) ==
    /\ conn[k] = "polling" /\ tries[k] < MaxTries
    /\ conn' = [conn EXCEPT ![k] = "asking"]
    /\ tries' = [tries EXCEPT ![k] = @ + 1]
    /\ Post(home[k], Cmd("IsReady", k))
    /\ UNCHANGED <<running, main, next, thrCounter, thr, posts, call>>
    /\ UNCHANGED <<answer, home, res, sock, edge, told>>

\* Slip: the first answer that is not None will do.
TakeAnswerHasty(k) ==
    /\ conn[k] = "asking" /\ answer[k] # "none"
    /\ conn' = [conn EXCEPT ![k] = IF answer[k] = "gone" THEN "refused" ELSE "ok"]
    /\ answer' = [answer EXCEPT ![k] = "none"]
    /\ UNCHANGED <<vars, tries, home, res, sock, edge, told>>

\* The match on is_ready_sync's result.
TakeAnswer(k) ==
    /\ conn[k] = "asking" /\ answer[k] # "none"
    /\ conn' = [conn EXCEPT ![k] = CASE answer[k] = "ready" -> "ok"
                                     [] answer[k] = "notReady" -> "polling"
                                     [] answer[k] = "gone" -> "refused"]
    /\ answer' = [answer EXCEPT ![k] = "none"]
    /\ UNCHANGED <<vars, tries, home, res, sock, edge, told>>

\* "abort after retry 1000 times": the resource stays where it is.
Abort(k) ==
    /\ conn[k] = "polling" /\ tries[k] = MaxTries
    /\ conn' = [conn EXCEPT ![k] = "aborted"]
    /\ UNCHANGED <<vars, tries, answer, home, res, sock, edge, told>>

\* A user closes the endpoint, known from its first event or from connect_sync.
UserClose(k) ==
    /\ told[k] # <<>> \/ conn[k] = "ok"
    /\ \A i \in DOMAIN inbox[home[k]] : inbox[home[k]][i] # Cmd("Close", k)
    /\ res[k] # "gone"
    /\ Post(home[k], Cmd("Close", k))
    /\ UNCHANGED <<running, main, next, thrCounter, thr, posts, call, connVars>>

-----------------------------------------------------------------------------
(* The multiplexor threads.                                                *)

\* The next command of thread t is op of connector k.
Serves(t, op, k) ==
    /\ thr[t] = "poll" /\ inbox[t] # <<>> /\ Head(inbox[t]) = Cmd(op, k)
    /\ UNCHANGED <<running, main, next, thrCounter, thr, posts, call>>

\* process_connect; if the socket cannot be opened the promise is dropped with the
\* callback, and nobody keeps it.
DoConnect(t, k) ==
    /\ Serves(t, "Connect", k)
    /\ \E opened \in BOOLEAN :
        /\ sock' = [sock EXCEPT ![k] = IF opened THEN "connecting" ELSE "failed"]
        /\ inbox' = [i \in Threads |->
                        CASE i = t -> Tail(inbox[t])
                          [] i # t /\ i = home[k] /\ opened -> Append(inbox[i], Cmd("Register", k))
                          [] OTHER -> inbox[i]]
    /\ UNCHANGED <<conn, tries, answer, home, res, edge, told>>

\* process_connect_register_remote: the callback keeps the promise.
DoRegister(t, k) ==
    /\ Serves(t, "Register", k) /\ inbox' = [inbox EXCEPT ![t] = Tail(@)]
    /\ res' = [res EXCEPT ![k] = "pending"]
    /\ edge' = [edge EXCEPT ![k] = sock[k] # "connecting"]
    /\ conn' = [conn EXCEPT ![k] = "polling"]
    /\ UNCHANGED <<tries, answer, home, sock, told>>

\* Slip: a resource that is not in the registry is not answered for.
DoIsReadyFound(t, k) ==
    /\ Serves(t, "IsReady", k) /\ inbox' = [inbox EXCEPT ![t] = Tail(@)]
    /\ answer' = [answer EXCEPT ![k] = CASE res[k] = "ready" -> "ready"
                                         [] res[k] = "pending" -> "notReady"
                                         [] OTHER -> "none"]
    /\ UNCHANGED <<conn, tries, home, res, sock, edge, told>>

\* process_is_ready.
DoIsReady(t, k) ==
    /\ Serves(t, "IsReady", k) /\ inbox' = [inbox EXCEPT ![t] = Tail(@)]
    /\ answer' = [answer EXCEPT ![k] = CASE res[k] = "ready" -> "ready"
                                         [] res[k] = "pending" -> "notReady"
                                         [] OTHER -> "gone"]
    /\ UNCHANGED <<conn, tries, home, res, sock, edge, told>>

\* process_close.
DoClose(t, k) ==
    /\ Serves(t, "Close", k) /\ inbox' = [inbox EXCEPT ![t] = Tail(@)]
    /\ res' = [res EXCEPT ![k] = "gone"] /\ edge' = [edge EXCEPT ![k] = FALSE]
    /\ UNCHANGED <<conn, tries, answer, home, sock, told>>

\* process_read and process_write of a poll event: a pending remote is resolved, a
\* ready one received from.  A pending one whose connection was made and lost is
\* found failed, or connected and at once disconnected.
ProcessEvent(t, k) ==
    /\ thr[t] = "poll" /\ home[k] = t /\ edge[k]
    /\ edge' = [edge EXCEPT ![k] = FALSE]
    /\ \E r \in CASE res[k] = "pending" /\ sock[k] = "connecting" -> {<<"pending", <<>>>>}
                  [] res[k] = "pending" /\ sock[k] = "up" -> {<<"ready", <<"Connected">>>>}
                  [] res[k] = "pending" /\ sock[k] = "refused" -> {<<"gone", <<"ConnectFail">>>>}
                  [] res[k] = "pending" /\ sock[k] = "lost" ->
                        {<<"gone", <<"ConnectFail">>>>, <<"gone", <<"Connected", "Disconnected">>>>}
                  [] res[k] = "ready" /\ sock[k] = "lost" -> {<<"gone", <<"Disconnected">>>>}
                  [] OTHER -> {<<res[k], <<>>>>} :
        /\ res' = [res EXCEPT ![k] = r[1]]
        /\ told' = [told EXCEPT ![k] = @ \o r[2]]
    /\ UNCHANGED <<vars, conn, tries, answer, home, sock>>

ConnCommand(t) == \E k \in Connectors : \/ DoConnect(t, k) \/ DoRegister(t, k)
                                        \/ DoIsReady(t, k) \/ DoClose(t, k)
ConnEvent(t) == \E k \in Connectors : ProcessEvent(t, k)

-----------------------------------------------------------------------------
\* The socket's connection is made, refused or lost.
SockChange(k, to) ==
    /\ sock[k] = IF to = "lost" THEN "up" ELSE "connecting"
    /\ res[k] # "gone"
    /\ sock' = [sock EXCEPT ![k] = to]
    /\ edge' = [edge EXCEPT ![k] = @ \/ res[k] \in {"pending", "ready"}]
    /\ UNCHANGED <<vars, conn, tries, answer, home, res, told>>

Connector(k) == AskReady(k) \/ TakeAnswer(k) \/ Abort(k)

SyncNext ==
    \/ Next /\ UNCHANGED connVars
    \/ \E k \in Connectors : ConnectSync(k) \/ Connector(k) \/ UserClose(k)
    \/ \E t \in Threads : ConnCommand(t) \/ ConnEvent(t)
    \/ \E k \in Connectors : \E to \in {"up", "refused", "lost"} : SockChange(k, to)

SyncSpec == SyncInit /\ [][SyncNext]_syncVars

\* The launching thread, the multiplexor threads and a thread inside connect_sync keep
\* running; a thread that polls again and again is at last woken to its commands.
\* Nothing is assumed of the network.
Fairness ==
    /\ WF_syncVars(Main /\ UNCHANGED connVars)
    /\ \A t \in Threads : /\ WF_syncVars((Thread(t) /\ UNCHANGED connVars) \/ ConnCommand(t))
                          /\ SF_syncVars((Handle(t) /\ UNCHANGED connVars) \/ ConnCommand(t))
    /\ \A k \in Connectors : WF_syncVars(Connector(k))

FairSpec == SyncSpec /\ Fairness

-----------------------------------------------------------------------------
\* A synchronous call returns, whatever becomes of its connection, unless the node is
\* stopped or the connect's socket could not even be opened.
SyncReturns ==
    /\ \A c \in Callers : call[c] = "blocked" ~> call[c] = "returned" \/ ~running
    /\ \A k \in Connectors :
            conn[k] = "connecting" ~> conn[k] \in Returned \/ ~running \/ sock[k] = "failed"

\* What connect_sync returned is true of its connection, although is_ready's answer may
\* be out of date: Ok means that Connected came first, "Connection refused" that the
\* resource has gone and the user was told of it (a close comes after Connected); and
\* no answer is left over for a later question.
ConnectOutcome ==
    \A k \in Connectors :
        /\ conn[k] = "ok" => told[k] # <<>> /\ Head(told[k]) = "Connected"
        /\ conn[k] = "refused" => res[k] = "gone" /\ told[k] # <<>>
        /\ answer[k] # "none" => conn[k] = "asking"
=============================================================================
