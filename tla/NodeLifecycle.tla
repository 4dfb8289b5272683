--------------------------- MODULE NodeLifecycle ---------------------------
(***************************************************************************)
(* Starting and stopping a node: node_listener_for_each_async launches the *)
(* multiplexor threads and waits until all of them count themselves in;    *)
(* NodeHandler::stop clears `running`, which each thread reads at the head *)
(* of its loop only; NodeTask::wait joins the threads; dropping the        *)
(* NodeTask does nothing, as NamespacedThread has no Drop.                 *)
(* Commands are the Stop that makes the user's callback stop the node, and *)
(* synchronous calls, whose caller blocks on a promise the thread keeps.   *)
(* SyncConnect adds connect_sync and its commands.                         *)
(***************************************************************************)
EXTENDS Integers, Sequences

CONSTANTS ThreadNum,  \* multiplexor threads: the master and the workers
          Callers,    \* user threads that make synchronous calls
          MaxPosts    \* bound: Stop commands posted by users

ASSUME ThreadNumAssumption == ThreadNum \in Nat \ {0}
ASSUME LifecycleBounds == MaxPosts \in Nat

Threads == 1 .. ThreadNum

VARIABLES running,     \* NodeHandlerImpl.running
          main,        \* where the thread that owns the task is
          next,        \* the thread main is launching, or joining, next
          thrCounter,  \* thr_counter
          thr,         \* thr[t]: where multiplexor thread t is
          inbox,       \* inbox[t]: its command channel
          posts,       \* commands posted by users so far
          call         \* call[c]: where caller c is in its synchronous call

vars == <<running, main, next, thrCounter, thr, inbox, posts, call>>

\* A command and the caller whose promise it carries, if any.
Cmd(op, who) == [op |-> op, who |-> who]
Nobody == "nobody"
Own(c) == c.op \in {"Stop", "Call"}

Init ==
    /\ running = TRUE
    /\ main = "launch"
    /\ next = 1
    /\ thrCounter = 0
    /\ thr = [t \in Threads |-> "none"]
    /\ inbox = [t \in Threads |-> <<>>]
    /\ posts = 0
    /\ call = [c \in Callers |-> "idle"]

-----------------------------------------------------------------------------
(* The thread that calls node_listener_for_each_async.                     *)

\* launch_thread, for the master and then for each worker.
Launch ==
    /\ main = "launch"
    /\ thr' = [thr EXCEPT ![next] = "starting"]
    /\ IF next = ThreadNum THEN main' = "gather" /\ next' = 1
                           ELSE main' = main /\ next' = next + 1
    /\ UNCHANGED <<running, thrCounter, inbox, posts, call>>

\* "waiting for all threads ready": the task is returned.
Gather ==
    /\ main = "gather"
    /\ thrCounter >= ThreadNum
    /\ main' = "task"
    /\ UNCHANGED <<running, next, thrCounter, thr, inbox, posts, call>>

\* NodeTask::wait, called for the first time or again.
Wait ==
    /\ main \in {"task", "waited"}
    /\ main' = "wait"
    /\ UNCHANGED <<running, next, thrCounter, thr, inbox, posts, call>>

\* Slip: the last thread is not joined.
JoinAllButLast ==
    /\ main = "wait"
    /\ IF next >= ThreadNum
       THEN main' = "waited" /\ UNCHANGED next
       ELSE thr[next] = "exited" /\ next' = next + 1 /\ UNCHANGED main
    /\ UNCHANGED <<running, thrCounter, thr, inbox, posts, call>>

\* wait: try_join of the next thread; a joined thread is not joined again.
Join ==
    /\ main = "wait"
    /\ IF next > ThreadNum
       THEN main' = "waited" /\ UNCHANGED next
       ELSE thr[next] = "exited" /\ next' = next + 1 /\ UNCHANGED main
    /\ UNCHANGED <<running, thrCounter, thr, inbox, posts, call>>

\* The task goes out of scope.
DropTask ==
    /\ main \in {"task", "waited"}
    /\ main' = "dropped"
    /\ UNCHANGED <<running, next, thrCounter, thr, inbox, posts, call>>

-----------------------------------------------------------------------------
(* A multiplexor thread (launch_thread's closure).                         *)

\* Slip: a thread counts itself in only if the node still runs.
StartIfRunning(t) ==
    /\ thr[t] = "starting"
    /\ thrCounter' = IF running THEN thrCounter + 1 ELSE thrCounter
    /\ thr' = [thr EXCEPT ![t] = "head"]
    /\ UNCHANGED <<running, main, next, inbox, posts, call>>

\* create_multiplexor_worker, then thr_counter.fetch_add(1).
Start(t) ==
    /\ thr[t] = "starting"
    /\ thrCounter' = thrCounter + 1
    /\ thr' = [thr EXCEPT ![t] = "head"]
    /\ UNCHANGED <<running, main, next, inbox, posts, call>>

\* Slip: only the first thread looks at the flag again.
LoopHeadFirst(t) ==
    /\ thr[t] = "head"
    /\ thr' = [thr EXCEPT ![t] = IF running \/ t > 1 THEN "poll" ELSE "exited"]
    /\ UNCHANGED <<running, main, next, thrCounter, inbox, posts, call>>

\* while handler.is_running()
LoopHead(t) ==
    /\ thr[t] = "head"
    /\ thr' = [thr EXCEPT ![t] = IF running THEN "poll" ELSE "exited"]
    /\ UNCHANGED <<running, main, next, thrCounter, inbox, posts, call>>

\* The user's callback, given the Waker event of a Stop, stops the node.
Callback == running' = FALSE

\* process_poll_event: one command of the drain.
Handle(t) ==
    LET c == Head(inbox[t]) IN
    /\ thr[t] = "poll" /\ inbox[t] # <<>> /\ Own(c)
    /\ inbox' = [inbox EXCEPT ![t] = Tail(@)]
    /\ IF c.op = "Call"
       THEN call' = [call EXCEPT ![c.who] = "returned"] /\ UNCHANGED running
       ELSE Callback /\ UNCHANGED call
    /\ UNCHANGED <<main, next, thrCounter, thr, posts>>

\* process_poll_event returns: the channel is empty or the poll timed out
\* before it was woken.
PollEnd(t) ==
    /\ thr[t] = "poll"
    /\ thr' = [thr EXCEPT ![t] = "head"]
    /\ UNCHANGED <<running, main, next, thrCounter, inbox, posts, call>>

-----------------------------------------------------------------------------
(* The users, who have the handler before any thread exists.               *)

Stop ==
    /\ running
    /\ running' = FALSE
    /\ UNCHANGED <<main, next, thrCounter, thr, inbox, posts, call>>

PostStop(t) ==
    /\ posts < MaxPosts
    /\ posts' = posts + 1
    /\ inbox' = [inbox EXCEPT ![t] = Append(@, Cmd("Stop", Nobody))]
    /\ UNCHANGED <<running, main, next, thrCounter, thr, call>>

\* send_sync and listen_sync_with: post, then promise.wait().
CallSync(c, t) ==
    /\ call[c] = "idle"
    /\ call' = [call EXCEPT ![c] = "blocked"]
    /\ inbox' = [inbox EXCEPT ![t] = Append(@, Cmd("Call", c))]
    /\ UNCHANGED <<running, main, next, thrCounter, thr, posts>>

Main == Launch \/ Gather \/ Join
Thread(t) == Start(t) \/ LoopHead(t) \/ Handle(t) \/ PollEnd(t)
User == \/ Stop \/ Wait \/ DropTask
        \/ \E t \in Threads : PostStop(t)
        \/ \E t \in Threads, c \in Callers : CallSync(c, t)

Next == Main \/ User \/ \E t \in Threads : Thread(t)

-----------------------------------------------------------------------------
\* What the launching thread may rely on: it has the task only when every thread
\* serves its channel or has already seen a stop, and when wait returns ("Block the
\* current thread until the task finalizes") no thread is left and the node is stopped.
TaskTellsThreads ==
    /\ main \in {"task", "wait", "waited", "dropped"}
           => \A t \in Threads : thr[t] \in {"head", "poll", "exited"}
    /\ main = "waited" => ~running /\ \A t \in Threads : thr[t] = "exited"

\* node_listener_for_each_async returns, even when the node is stopped while
\* its threads are being launched.
TaskReturned == <>(main \in {"task", "wait", "waited", "dropped"})

\* A Stop command, even one posted before the threads exist (tests wait_task
\* and sync_node), ends a wait for the task.
StopEndsWait ==
    main = "wait" /\ (~running \/ \E t \in Threads : \E i \in DOMAIN inbox[t] : inbox[t][i].op = "Stop")
        ~> main = "waited"
=============================================================================
