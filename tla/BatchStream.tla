---------------------------- MODULE BatchStream ----------------------------
(***************************************************************************)
(* What one receive stream promises to the thread that consumes it: packet *)
(* batches with consecutive identifiers, each exactly once and in order,   *)
(* through a queue of bounded length.  A batch says which of its frames    *)
(* were received, and it is valid when all of them were.                   *)
(***************************************************************************)
EXTENDS Naturals, Sequences

CONSTANTS BatchSize,      \* frames per batch
          QueueCapacity,  \* batches that may wait for the consumer
          BatchIds        \* the batch identifiers that are used

VARIABLES started,  \* has the stream seen its first usable packet?
          next,     \* identifier of the next batch to publish
          queue,    \* batches published and not yet taken
          taken     \* the batch the consumer works on: <<>> or <<batch>>

vars == <<started, next, queue, taken>>

Frames == 0 .. BatchSize - 1

Batch(id, got) == [id |-> id, got |-> got, valid |-> got = Frames]

Init == /\ started = FALSE
        /\ next = 0
        /\ queue = <<>>
        /\ taken = <<>>

\* The first usable packet chooses where the numbering starts.
Start == /\ ~started
         /\ started' = TRUE
         /\ next' \in BatchIds
         /\ UNCHANGED <<queue, taken>>

\* A batch that was lost as a whole is not published.
Publish_SkipsLost ==
           /\ started
           /\ next \in BatchIds
           /\ Len(queue) < QueueCapacity
           /\ \E got \in SUBSET Frames : queue' = Append(queue, Batch(next, got))
           /\ next' \in {next + 1, next + 2}
           /\ UNCHANGED <<started, taken>>

\* Whatever was lost, the next batch published is the next batch in time.
Publish == /\ started
           /\ next \in BatchIds
           /\ Len(queue) < QueueCapacity
           /\ \E got \in SUBSET Frames : queue' = Append(queue, Batch(next, got))
           /\ next' = next + 1
           /\ UNCHANGED <<started, taken>>

Take == /\ queue # <<>>
        /\ taken' = <<Head(queue)>>
        /\ queue' = Tail(queue)
        /\ UNCHANGED <<started, next>>

Next == Start \/ Publish \/ Take

Spec == Init /\ [][Next]_vars
=============================================================================
