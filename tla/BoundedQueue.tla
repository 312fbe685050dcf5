---------------------------- MODULE BoundedQueue ----------------------------
(***************************************************************************)
(* What a blocking single-producer single-consumer buffer promises: a      *)
(* first-in first-out queue of at most Capacity items, each of which is    *)
(* taken exactly once.                                                     *)
(***************************************************************************)
EXTENDS Naturals, Sequences

CONSTANTS Items,     \* what may be put into the queue
          Capacity   \* items it holds at most

VARIABLE queue

Init == queue = <<>>

Put(x) == /\ Len(queue) < Capacity
          /\ queue' = Append(queue, x)

Take == /\ queue # <<>>
        /\ queue' = Tail(queue)

Next == Take \/ \E x \in Items : Put(x)

Spec == Init /\ [][Next]_queue
=============================================================================
