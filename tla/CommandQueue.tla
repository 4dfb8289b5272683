---------------------------- MODULE CommandQueue ----------------------------
(***************************************************************************)
(* The command path of ONE multiplexor thread (master or worker):          *)
(*   EventSender::post        a poster appends a command to an unbounded   *)
(*                            crossbeam channel and THEN wakes the poll;   *)
(*   Poll::process_event      the thread sees the wakes that happened      *)
(*                            since its last poll as one Waker event;      *)
(*   process_poll_event       on that event it drains the channel, but it  *)
(*                            takes at most MAX_COMMANDS commands.         *)
(*                                                                         *)
(* The channel is crossbeam's (unbounded, FIFO over all senders) and the   *)
(* waker is mio's (edge triggered, wakes coalesce): both are external and  *)
(* modelled from how events.rs, poll.rs and network.rs use them.           *)
(***************************************************************************)
EXTENDS Integers, Sequences

CONSTANTS Posters,      \* threads that post: users and multiplexor threads
          MaxCommands,  \* MAX_COMMANDS of the drain loop (1024 in the code)
          MaxPosts      \* bound: posts of one poster

ASSUME MaxCommandsAssumption == MaxCommands \in Nat \ {0}
ASSUME MaxPostsAssumption == MaxPosts \in Nat

VARIABLES queue,        \* the channel
          posted,       \* posted[p]: number of commands p has sent so far
          mustWake,     \* posters between sender.send() and waker.wake()
          wakePending,  \* a wake the poll has not reported yet
          draining,     \* the thread is inside the Waker arm's while loop
          count,        \* the loop's counter (its last value once it ended)
          processed     \* history: the commands handled, in order

vars == <<queue, posted, mustWake, wakePending, draining, count, processed>>

\* The n-th command of poster p.
Command == [from : Posters, n : Nat]

TypeOK ==
    /\ queue \in Seq(Command)
    /\ posted \in [Posters -> 0 .. MaxPosts]
    /\ mustWake \subseteq Posters
    /\ wakePending \in BOOLEAN
    /\ draining \in BOOLEAN
    /\ count \in 0 .. MaxCommands
    /\ processed \in Seq(Command)

Init ==
    /\ queue = <<>>
    /\ posted = [p \in Posters |-> 0]
    /\ mustWake = {}
    /\ wakePending = FALSE
    /\ draining = FALSE
    /\ count = 0
    /\ processed = <<>>

-----------------------------------------------------------------------------
\* EventSender::post, first half: sender.send(event).ok().
PostSend(p) ==
    /\ p \notin mustWake
    /\ posted[p] < MaxPosts
    /\ posted' = [posted EXCEPT ![p] = @ + 1]
    /\ queue' = Append(queue, [from |-> p, n |-> posted[p] + 1])
    /\ mustWake' = mustWake \cup {p}
    /\ UNCHANGED <<wakePending, draining, count, processed>>

\* Slip: a poster wakes the poll only if its command is alone in the channel.
PostWakeIfAlone(p) ==
    /\ p \in mustWake
    /\ mustWake' = mustWake \ {p}
    /\ wakePending' = (wakePending \/ Len(queue) = 1)
    /\ UNCHANGED <<queue, posted, draining, count, processed>>

\* EventSender::post, second half: waker.wake().
PostWake(p) ==
    /\ p \in mustWake
    /\ mustWake' = mustWake \ {p}
    /\ wakePending' = TRUE
    /\ UNCHANGED <<queue, posted, draining, count, processed>>

\* poll() returns with the Waker event: every wake so far is consumed by it.
PollWaker ==
    /\ ~draining
    /\ wakePending
    /\ wakePending' = FALSE
    /\ draining' = TRUE
    /\ count' = 0
    /\ UNCHANGED <<queue, posted, mustWake, processed>>

\* Slip: the newest command is taken first.
ReceiveNewest ==
    /\ draining
    /\ count < MaxCommands
    /\ queue # <<>>
    /\ queue' = SubSeq(queue, 1, Len(queue) - 1)
    /\ processed' = Append(processed, queue[Len(queue)])
    /\ count' = count + 1
    /\ UNCHANGED <<posted, mustWake, wakePending, draining>>

\* Slip: the limit is exceeded by one.
ReceiveOneMore ==
    /\ draining
    /\ count <= MaxCommands
    /\ queue # <<>>
    /\ queue' = Tail(queue)
    /\ processed' = Append(processed, Head(queue))
    /\ count' = count + 1
    /\ UNCHANGED <<posted, mustWake, wakePending, draining>>

\* One turn of the drain loop: try_receive() returned a command.
Receive ==
    /\ draining
    /\ count < MaxCommands
    /\ queue # <<>>
    /\ queue' = Tail(queue)
    /\ processed' = Append(processed, Head(queue))
    /\ count' = count + 1
    /\ UNCHANGED <<posted, mustWake, wakePending, draining>>

\* The loop ends: the channel is empty, or the counter has reached the limit.
DrainEnd ==
    /\ draining
    /\ count < MaxCommands => queue = <<>>
    /\ draining' = FALSE
    /\ UNCHANGED <<queue, posted, mustWake, wakePending, count, processed>>

Thread == PollWaker \/ Receive \/ DrainEnd

Next == Thread \/ \E p \in Posters : PostSend(p) \/ PostWake(p)

Spec == Init /\ [][Next]_vars

\* The multiplexor thread keeps running its loop, and a poster that has sent
\* its command goes on to wake; nobody is obliged to post.
Fairness ==
    /\ WF_vars(Thread)
    /\ \A p \in Posters : WF_vars(PostWake(p))

FairSpec == Spec /\ Fairness

-----------------------------------------------------------------------------
\* The thread sleeps in poll() with commands queued and nothing to wake it.
Stalled ==
    /\ queue # <<>>
    /\ ~draining
    /\ ~wakePending
    /\ mustWake = {}

\* A wake-up is never lost by the two-step post racing the drain loop: the
\* only way to sleep on a non-empty queue is a drain that was cut short at
\* exactly MAX_COMMANDS commands (network.rs, `while count < MAX_COMMANDS`).
NoLostWakeup == Stalled => count = MaxCommands

\* Every command sent so far: first the handled ones, then the queued ones.
History == processed \o queue

\* Exactly-once and FIFO: at every moment, what has been handled followed by
\* what is queued holds every command of every poster, in the order the
\* poster posted them and without repetition.
InOrderExactlyOnce ==
    /\ \A p \in Posters : \A n \in 1 .. posted[p] :
            \E i \in DOMAIN History : History[i] = [from |-> p, n |-> n]
    /\ \A i \in DOMAIN History : History[i].n \in 1 .. posted[History[i].from]
    /\ \A i, j \in DOMAIN History :
            i < j /\ History[i].from = History[j].from
                => History[i].n < History[j].n

\* p's n-th command has been handled.
Handled(p, n) == \E i \in DOMAIN processed : processed[i] = [from |-> p, n |-> n]

\* A command that is posted is handled, or the thread comes to sleep on it after a
\* drain that MAX_COMMANDS cut short: no other order of posts, wakes, polls and
\* drains leaves it behind.
HandledUnlessCutShort ==
    \A p \in Posters : \A n \in 1 .. MaxPosts :
        posted[p] >= n ~> Handled(p, n) \/ (Stalled /\ count = MaxCommands)

\* "The `WakerCommand` is a command from user and wake up the poll thread to
\* recv" (node_event.rs): every command that is posted is handled.
EveryCommandHandled ==
    \A p \in Posters : \A n \in 1 .. MaxPosts : posted[p] >= n ~> Handled(p, n)

-----------------------------------------------------------------------------
\* What the rest of the node may assume of this path: a FIFO channel.
Channel == INSTANCE CommandChannel WITH sent <- History,
                                        handled <- Len(processed)

\* Every step of a poster or of the thread is a step of the channel or none: the
\* two-step post, the coalesced wakes and the drain loop are not visible in it.
ImplementsChannel == Channel!Spec
=============================================================================
