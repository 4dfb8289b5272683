--------------------------- MODULE CommandChannel ---------------------------
(***************************************************************************)
(* What the command path of a multiplexor thread promises to its users: a  *)
(* command sent is handled at most once, after every command sent before   *)
(* it.  NodeNetwork uses one such channel per thread; CommandQueue         *)
(* implements it.                                                          *)
(***************************************************************************)
EXTENDS Integers, Sequences

VARIABLES sent,     \* every command sent so far, in the order of sending
          handled   \* how many of them, from the first, have been handled

vars == <<sent, handled>>

Init == sent = <<>> /\ handled = 0

Send == /\ sent' # <<>>
        /\ sent = SubSeq(sent', 1, Len(sent') - 1)
        /\ UNCHANGED handled

Handle == /\ handled < Len(sent)
          /\ handled' = handled + 1
          /\ UNCHANGED sent

Next == Send \/ Handle

Spec == Init /\ [][Next]_vars
=============================================================================
