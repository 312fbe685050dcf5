--------------------------- MODULE CircularBuffer ---------------------------
(***************************************************************************)
(* The buffer a receive stream passes its batches through:                 *)
(* BlockingReaderWriterCircularBuffer (readerwritercircularbuffer.h) over  *)
(* two LightweightSemaphores (atomicops.h), one counting free slots and    *)
(* one counting items, at the granularity of their atomic operations.      *)
(* One thread produces, with try_enqueue and then wait_enqueue, and one    *)
(* consumes, with wait_dequeue: the only operations the program calls.     *)
(*                                                                         *)
(* A semaphore is a count, which one thread decrements and the other one   *)
(* increments, and a kernel semaphore for the thread that has to sleep.    *)
(* A module that extends this one says what a thread does outside of the   *)
(* buffer.                                                                 *)
(***************************************************************************)
EXTENDS Integers, Sequences

CONSTANTS Capacity,    \* maxcap
          IndexRange   \* 2^64, the range of std::size_t

VARIABLES
  count,      \* m_count of the semaphores slots_ and items
  sema,       \* m_sema of the two
  pc,         \* where each thread is
  data,       \* the slots
  nextSlot,   \* index of the next slot to fill
  nextItem    \* index of the next item to take

semVars == <<count, sema>>
bufVars == <<count, sema, pc, data, nextSlot, nextItem>>

Semaphores == {"slots", "items"}
Threads == {"producer", "consumer"}

Waits(t) == IF t = "producer" THEN "slots" ELSE "items"
Signals(t) == IF t = "producer" THEN "items" ELSE "slots"

PowersOfTwo == {2^k : k \in 0 .. Capacity}

\* Rounded down: a ring that is too short.
Size_RoundedDown ==
  CHOOSE n \in PowersOfTwo : n <= Capacity /\ 2 * n > Capacity

\* mask + 1: the capacity rounded up to a power of two.
Size == CHOOSE n \in PowersOfTwo : n >= Capacity /\ n < 2 * Capacity

ASSUME CapacityAssumption == Capacity \in Nat \ {0}
ASSUME IndexAssumption == /\ IndexRange \in Nat \ {0} /\ IndexRange % Size = 0
                          /\ IndexRange > Capacity

NoItem == -1   \* storage from malloc that holds no item yet

BufferInit ==
  /\ count = [s \in Semaphores |-> IF s = "slots" THEN Capacity ELSE 0]
  /\ sema = [s \in Semaphores |-> 0]
  /\ pc = [t \in Threads |-> "work"]
  /\ data = [i \in 0 .. Size - 1 |-> NoItem]
  /\ nextSlot = 0
  /\ nextItem = 0

Advance(i) == (i + 1) % IndexRange

(***************************************************************************)
(* LightweightSemaphore::wait.                                             *)
(***************************************************************************)
\* m_count.load() > 0, in tryWait and in every turn of the spin loop.  A
\* failed try_enqueue is a turn of this loop: wait_enqueue follows it.
Load(t) ==
  /\ pc[t] = "try"
  /\ pc' = [pc EXCEPT ![t] = IF count[Waits(t)] > 0 THEN "take" ELSE "block"]
  /\ UNCHANGED <<semVars, data, nextSlot, nextItem>>

\* A count of zero is taken for an item.
Decrement_ZeroIsEnough(t) ==
  /\ pc[t] \in {"take", "block"}
  /\ count' = [count EXCEPT ![Waits(t)] = @ - 1]
  /\ pc' = [pc EXCEPT ![t] = IF pc[t] = "take" \/ count[Waits(t)] >= 0
                               THEN "copy" ELSE "sleep"]
  /\ UNCHANGED <<sema, data, nextSlot, nextItem>>

\* fetch_add_acquire(-1), after the count was seen positive ("take") or when
\* the thread is tired of spinning ("block").
Decrement(t) ==
  /\ pc[t] \in {"take", "block"}
  /\ count' = [count EXCEPT ![Waits(t)] = @ - 1]
  /\ pc' = [pc EXCEPT ![t] = IF pc[t] = "take" \/ count[Waits(t)] > 0
                               THEN "copy" ELSE "sleep"]
  /\ UNCHANGED <<sema, data, nextSlot, nextItem>>

\* m_sema.wait()
Sleep(t) ==
  /\ pc[t] = "sleep"
  /\ sema[Waits(t)] > 0
  /\ sema' = [sema EXCEPT ![Waits(t)] = @ - 1]
  /\ pc' = [pc EXCEPT ![t] = "copy"]
  /\ UNCHANGED <<count, data, nextSlot, nextItem>>

(***************************************************************************)
(* LightweightSemaphore::signal.                                           *)
(***************************************************************************)
\* The sleeper is forgotten.
Signal_NoWake(t) ==
  /\ pc[t] = "signal"
  /\ count' = [count EXCEPT ![Signals(t)] = @ + 1]
  /\ pc' = [pc EXCEPT ![t] = IF count[Signals(t)] < -1 THEN "wake" ELSE "work"]
  /\ UNCHANGED <<sema, data, nextSlot, nextItem>>

\* A count of zero is taken for a sleeper.
Signal_ZeroWakes(t) ==
  /\ pc[t] = "signal"
  /\ count' = [count EXCEPT ![Signals(t)] = @ + 1]
  /\ pc' = [pc EXCEPT ![t] = IF count[Signals(t)] <= 0 THEN "wake" ELSE "work"]
  /\ UNCHANGED <<sema, data, nextSlot, nextItem>>

\* fetch_add_release(1); a negative count tells of a sleeper.
Signal(t) ==
  /\ pc[t] = "signal"
  /\ count' = [count EXCEPT ![Signals(t)] = @ + 1]
  /\ pc' = [pc EXCEPT ![t] = IF count[Signals(t)] < 0 THEN "wake" ELSE "work"]
  /\ UNCHANGED <<sema, data, nextSlot, nextItem>>

\* m_sema.signal(1)
Wake(t) ==
  /\ pc[t] = "wake"
  /\ sema' = [sema EXCEPT ![Signals(t)] = @ + 1]
  /\ pc' = [pc EXCEPT ![t] = "work"]
  /\ UNCHANGED <<count, data, nextSlot, nextItem>>

SemaphoreStep(t) == Load(t) \/ Decrement(t) \/ Sleep(t) \/ Signal(t) \/ Wake(t)

(***************************************************************************)
(* The buffer.                                                             *)
(***************************************************************************)
\* try_enqueue, wait_enqueue, wait_dequeue: wait for the semaphore first.
Enter(t) ==
  /\ pc[t] = "work"
  /\ pc' = [pc EXCEPT ![t] = "try"]
  /\ UNCHANGED <<semVars, data, nextSlot, nextItem>>

\* inner_enqueue, up to its signal.
Store(x) ==
  /\ pc["producer"] = "copy"
  /\ data' = [data EXCEPT ![nextSlot % Size] = x]
  /\ nextSlot' = Advance(nextSlot)
  /\ pc' = [pc EXCEPT !["producer"] = "signal"]
  /\ UNCHANGED <<semVars, nextItem>>

\* inner_dequeue, up to its signal; the item is data[nextItem % Size].
Fetch ==
  /\ pc["consumer"] = "copy"
  /\ nextItem' = Advance(nextItem)
  /\ pc' = [pc EXCEPT !["consumer"] = "signal"]
  /\ UNCHANGED <<semVars, data, nextSlot>>

(***************************************************************************)
(* Correctness.                                                            *)
(***************************************************************************)
BufferTypeOK ==
  /\ count \in [Semaphores -> -1 .. Capacity]
  /\ sema \in [Semaphores -> 0 .. 1]
  /\ pc \in [Threads -> {"work", "try", "take", "block", "sleep", "copy",
                         "signal", "wake"}]
  /\ nextSlot \in 0 .. IndexRange - 1
  /\ nextItem \in 0 .. IndexRange - 1

\* The two threads copy from and to different slots.
SlotsApart ==
  pc["producer"] = "copy" /\ pc["consumer"] = "copy"
    => nextSlot % Size # nextItem % Size

\* Items that were signalled and not taken yet, oldest first.
Visible ==
  LET unsignalled == IF pc["producer"] = "signal" THEN 1 ELSE 0
      n == (nextSlot - nextItem - unsignalled) % IndexRange
  IN [i \in 1 .. n |-> data[(nextItem + i - 1) % Size]]
=============================================================================
