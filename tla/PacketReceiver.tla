--------------------------- MODULE PacketReceiver ---------------------------
(***************************************************************************)
(* One receive stream: the DPDK worker recv2mem (src/src/dpdk.cpp), the    *)
(* pool of packet batches it fills in turn (src/src/init.cu), the blocking *)
(* single-producer single-consumer queue that passes them on and the       *)
(* thread that takes them off it.                                          *)
(*                                                                         *)
(* The network may lose, repeat and reorder packets: any packet identifier *)
(* may arrive at any time.  Samples are abstracted to their provenance: a  *)
(* payload slot holds the identifier of the packet whose samples are in    *)
(* it.  Frames of the wrong length or for another UDP port are freed       *)
(* without any change of the state kept here.                              *)
(***************************************************************************)
EXTENDS Integers, Sequences

CONSTANTS BatchSize,       \* frames per batch, GlobalConfig::batchsize()
          QueueCapacity,   \* GlobalConfig::QUEUE_CAPACITY
          MaxPacketId,     \* bound on the packet identifiers that arrive
          Modes,           \* values baseband_mode may be configured to
          MonitorEnabled,  \* subband_monitor
          MonitorPeriod    \* packets between two scheduled monitor frames

ASSUME BatchSizeAssumption == BatchSize \in Nat \ {0}
ASSUME QueueCapacityAssumption == QueueCapacity \in Nat \ {0}
ASSUME MaxPacketIdAssumption == MaxPacketId \in Nat
ASSUME ModeAssumption == Modes \subseteq BOOLEAN /\ MonitorEnabled \in BOOLEAN
ASSUME MonitorPeriodAssumption == MonitorPeriod \in Nat \ {0}

VARIABLES
  baseband_mode,        \* observation_mode == BASEBAND, fixed by the configuration
  pool,                 \* the packet batches of the stream
  queue,                \* pool indices published and not yet dequeued
  held,                 \* pool index the consumer works on, or NoBatch
  pc,                   \* where the worker is in the body of its loop
  pkt,                  \* identifier of the packet it processes
  expected_pkt_id,
  prebatchid,           \* identifier of the batch being filled
  pool_idx,             \* pool index of the batch being filled
  have_header_template,
  last_noise_packet,    \* packet last_noise_source_state was read from
  monitor               \* packet in the shared monitor file, or NoPacket

producerVars == <<expected_pkt_id, prebatchid, pool_idx,
                  have_header_template, last_noise_packet>>
vars == <<baseband_mode, pool, queue, held, pc, pkt, producerVars, monitor>>

PacketIds == 0 .. MaxPacketId
Frames == 0 .. BatchSize - 1

NoPacket == -1      \* nothing stored there yet
ZeroVoltage == -2   \* payload filled with 0x80
NoBatch == -1       \* a null PacketBatch pointer

\* A pool with no batch set aside for the consumer.
PoolSize_NoConsumerBatch == QueueCapacity + 1

\* A full queue, the consumer's batch and the producer's batch.
PoolSize == QueueCapacity + 2

PoolIdx == 0 .. PoolSize - 1

(***************************************************************************)
(* Batches.                                                                *)
(***************************************************************************)
\* A VDIF header: the packet its time stamp names, and the invalid flag.
Header(id, invalid) == [packet_id |-> id, invalid |-> invalid]

\* allocatePacketBatch: std::vector::resize zeroes pkt_id and the headers.
NewBatch ==
  [batch_id |-> 0, received_count |-> 0, header_valid |-> FALSE,
   valid |-> FALSE, noise_packet |-> NoPacket,
   pkt_id |-> [i \in Frames |-> 0],
   payload |-> [i \in Frames |-> NoPacket],
   hdrs |-> [i \in Frames |-> Header(0, FALSE)]]

BatchId(r) == r \div BatchSize
FrameIdx(r) == r % BatchSize

\* The packet that belongs in frame i of batch b.
FrameId(id, i) == id * BatchSize + i

\* prepare_batch
PreparedBatch(b, id) ==
  [b EXCEPT !.batch_id = id,
            !.received_count = 0,
            !.valid = FALSE,
            !.header_valid = have_header_template,
            !.hdrs = IF have_header_template
                       THEN [@ EXCEPT ![0] = Header(FrameId(id, 0), FALSE)]
                       ELSE @,
            !.noise_packet = IF have_header_template
                               THEN last_noise_packet ELSE @]

Complete(b) == b.header_valid /\ b.received_count = BatchSize

Missing(b, i) == b.pkt_id[i] # FrameId(b.batch_id, i)

\* Synthesized headers all keep the time of the batch start.
FinalizedBatch_HeaderTimeKept(b) ==
  IF ~baseband_mode \/ Complete(b) \/ ~b.header_valid
    THEN [b EXCEPT !.valid = Complete(b)]
    ELSE [b EXCEPT !.valid = FALSE,
                   !.payload = [i \in Frames |->
                      IF Missing(b, i) THEN ZeroVoltage ELSE @[i]],
                   !.hdrs = [i \in Frames |->
                      IF Missing(b, i) THEN Header(@[0].packet_id, TRUE) ELSE @[i]]]

\* finalize_batch: a baseband batch with losses gets filler frames.
FinalizedBatch(b) ==
  IF ~baseband_mode \/ Complete(b) \/ ~b.header_valid
    THEN [b EXCEPT !.valid = Complete(b)]
    ELSE [b EXCEPT !.valid = FALSE,
                   !.payload = [i \in Frames |->
                      IF Missing(b, i) THEN ZeroVoltage ELSE @[i]],
                   !.hdrs = [i \in Frames |->
                      IF Missing(b, i) THEN Header(FrameId(b.batch_id, i), TRUE)
                                       ELSE @[i]]]

\* The packet's samples, and its header where the mode needs it; the first
\* packet of a batch also dates the batch.
StoredBatch(b, r) ==
  LET i == FrameIdx(r)
      first == b.received_count = 0
      own == IF baseband_mode THEN [b.hdrs EXCEPT ![i] = Header(r, FALSE)] ELSE b.hdrs
  IN [b EXCEPT
        !.pkt_id[i] = r,
        !.payload[i] = r,
        !.hdrs = IF first
                   THEN [own EXCEPT ![0] = Header(FrameId(BatchId(r), 0), FALSE)]
                   ELSE own,
        !.header_valid = first \/ @,
        !.noise_packet = IF first \/ i = 0 THEN r ELSE @,
        !.received_count = @ + 1]

(***************************************************************************)
(* The worker.                                                             *)
(***************************************************************************)
Init == /\ baseband_mode \in Modes
        /\ pool = [x \in PoolIdx |-> NewBatch]
        /\ queue = <<>>
        /\ held = NoBatch
        /\ pc = "poll"
        /\ pkt = 0
        /\ expected_pkt_id = 0
        /\ prebatchid = 0
        /\ pool_idx = 0
        /\ have_header_template = FALSE
        /\ last_noise_packet = NoPacket
        /\ monitor = NoPacket

\* The shared monitor file is created by the first packet and rewritten by
\* every scheduled one, before the packet's sequence is looked at.
MonitorDue(r) == /\ MonitorEnabled
                 /\ monitor = NoPacket \/ r % MonitorPeriod = 0

\* The file cannot be created, resized or mapped: the worker returns.
MonitorFails(r) == /\ pc = "poll"
                   /\ MonitorEnabled /\ monitor = NoPacket
                   /\ pc' = "exited"
                   /\ UNCHANGED <<pool, queue, held, pkt, producerVars, monitor, baseband_mode>>

\* The current packet is accepted once more.
InSequence_Repeats(r) == r + 1 >= expected_pkt_id

\* Not behind the expected packet: in order, or after a loss.
InSequence(r) == r >= expected_pkt_id

\* Synchronisation: the first packet of a batch starts the stream.
FirstPacket(r) == /\ expected_pkt_id = 0
                  /\ FrameIdx(r) = 0
                  /\ expected_pkt_id' = r + 1
                  /\ prebatchid' = BatchId(r)
                  /\ pool' = [pool EXCEPT ![pool_idx] = PreparedBatch(@, BatchId(r))]
                  /\ pkt' = r
                  /\ pc' = "advance"
                  /\ UNCHANGED <<pool_idx, have_header_template, last_noise_packet>>

NextPacket(r) == /\ expected_pkt_id # 0
                 /\ InSequence(r)
                 /\ expected_pkt_id' = r + 1
                 /\ pkt' = r
                 /\ pc' = "advance"
                 /\ UNCHANGED <<pool, prebatchid, pool_idx,
                                have_header_template, last_noise_packet>>

\* Before synchronisation, late, or a duplicate.
DiscardPacket(r) == /\ IF expected_pkt_id = 0 THEN FrameIdx(r) # 0
                                              ELSE ~InSequence(r)
                    /\ UNCHANGED <<pool, pkt, pc, producerVars>>

Receive(r) == /\ pc = "poll"
              /\ monitor' = IF MonitorDue(r) THEN r ELSE monitor
              /\ FirstPacket(r) \/ NextPacket(r) \/ DiscardPacket(r)
              /\ UNCHANGED <<queue, held, baseband_mode>>

\* One turn of the loop over the batches the packet has left behind.
Finalize == /\ pc = "advance"
            /\ prebatchid < BatchId(pkt)
            /\ pool' = [pool EXCEPT ![pool_idx] = FinalizedBatch(@)]
            /\ pc' = "enqueue"
            /\ UNCHANGED <<queue, held, pkt, producerVars, monitor, baseband_mode>>

\* The wrap-around compares with > instead of >=.
NextPoolIdx_OffByOne == IF pool_idx + 1 > PoolSize THEN 0 ELSE pool_idx + 1

NextPoolIdx == IF pool_idx + 1 >= PoolSize THEN 0 ELSE pool_idx + 1

\* One batch more than the queue has slots for.
SlotFree_OffByOne == Len(queue) <= QueueCapacity

\* The queue's slots_ semaphore is not zero.
SlotFree == Len(queue) < QueueCapacity

\* The loop over the batches left behind does not count them.
Publish_NotCounted ==
           /\ SlotFree
           /\ queue' = Append(queue, pool_idx)
           /\ pool_idx' = NextPoolIdx
           /\ pc' = "prepare"
           /\ UNCHANGED <<pool, held, pkt, expected_pkt_id, prebatchid,
                          have_header_template, last_noise_packet, monitor, baseband_mode>>

\* The batch becomes visible to the consumer; the worker moves on.
Publish == /\ SlotFree
           /\ queue' = Append(queue, pool_idx)
           /\ prebatchid' = prebatchid + 1
           /\ pool_idx' = NextPoolIdx
           /\ pc' = "prepare"
           /\ UNCHANGED <<pool, held, pkt, expected_pkt_id,
                          have_header_template, last_noise_packet, monitor, baseband_mode>>

\* try_enqueue, and the switch to the blocking call when the queue is full.
TryEnqueue == /\ pc = "enqueue"
              /\ \/ Publish
                 \/ /\ ~SlotFree
                    /\ pc' = "wait"
                    /\ UNCHANGED <<pool, queue, held, pkt, producerVars, monitor, baseband_mode>>

\* wait_enqueue: back-pressure, nothing is polled meanwhile.
WaitEnqueue == pc = "wait" /\ Publish

\* The next batch is numbered after the packet in hand, not after the batch.
PrepareNext_SkipsLost ==
               /\ pc = "prepare"
               /\ pool' = [pool EXCEPT ![pool_idx] = PreparedBatch(@, BatchId(pkt))]
               /\ pc' = "advance"
               /\ UNCHANGED <<queue, held, pkt, producerVars, monitor, baseband_mode>>

PrepareNext == /\ pc = "prepare"
               /\ pool' = [pool EXCEPT ![pool_idx] = PreparedBatch(@, prebatchid)]
               /\ pc' = "advance"
               /\ UNCHANGED <<queue, held, pkt, producerVars, monitor, baseband_mode>>

Store == /\ pc = "advance"
         /\ prebatchid >= BatchId(pkt)
         /\ pool' = [pool EXCEPT ![pool_idx] = StoredBatch(@, pkt)]
         /\ LET first == pool[pool_idx].received_count = 0
            IN /\ have_header_template' = (first \/ have_header_template)
               /\ last_noise_packet' = IF first THEN pkt ELSE last_noise_packet
         /\ pc' = "poll"
         /\ UNCHANGED <<queue, held, pkt, expected_pkt_id, prebatchid, pool_idx, monitor, baseband_mode>>

(***************************************************************************)
(* The consumer, reduced to what it does to the queue: the batch it got    *)
(* last is its own until wait_dequeue returns the next one.                *)
(***************************************************************************)
\* The consumer is only woken by a second batch.
ItemAvailable_OffByOne == Len(queue) > 1

\* The queue's items semaphore is not zero.
ItemAvailable == queue # <<>>

Dequeue == /\ ItemAvailable
           /\ held' = Head(queue)
           /\ queue' = Tail(queue)
           /\ UNCHANGED <<pool, pc, pkt, producerVars, monitor, baseband_mode>>

Worker == Finalize \/ TryEnqueue \/ WaitEnqueue \/ PrepareNext \/ Store

Next == \/ \E r \in PacketIds : Receive(r) \/ MonitorFails(r)
        \/ Worker
        \/ Dequeue

Spec == Init /\ [][Next]_vars

\* Nothing makes packets arrive.  The worker is a pinned polling thread, and
\* the consumer returns to wait_dequeue after every batch.
FairSpec == Spec /\ WF_vars(Worker) /\ WF_vars(Dequeue)

(***************************************************************************)
(* Correctness.                                                            *)
(***************************************************************************)
BatchType == [batch_id : Nat, received_count : Nat, header_valid : BOOLEAN,
              valid : BOOLEAN, noise_packet : Int,
              pkt_id : [Frames -> Nat], payload : [Frames -> Int],
              hdrs : [Frames -> [packet_id : Nat, invalid : BOOLEAN]]]

\* Type invariant of recv2mem's locals, of the pool and of the queue, whose
\* length the slots_ semaphore bounds.
TypeOK == /\ pool \in [PoolIdx -> BatchType]
          /\ queue \in Seq(PoolIdx)
          /\ Len(queue) <= QueueCapacity
          /\ held \in PoolIdx \cup {NoBatch}
          /\ pc \in {"poll", "advance", "enqueue", "wait", "prepare", "exited"}
          /\ pkt \in PacketIds
          /\ expected_pkt_id \in Nat
          /\ prebatchid \in Nat
          /\ pool_idx \in PoolIdx
          /\ have_header_template \in BOOLEAN
          /\ last_noise_packet \in Int
          /\ monitor \in PacketIds \cup {NoPacket}

\* Batches the producer has given away: queued, or with the consumer.
Published == {queue[k] : k \in DOMAIN queue} \cup ({held} \ {NoBatch})

\* A full queue, the consumer's batch and the batch recv2mem fills have
\* distinct storage (the pool_capacity comment in init()): recv2mem never
\* writes a batch that is queued or being read, however the pool wraps.
BatchOwnership ==
  /\ pool_idx \notin Published
  /\ \A k \in DOMAIN queue : queue[k] # held
  /\ \A j, k \in DOMAIN queue : queue[j] = queue[k] => j = k

\* Whatever is lost, repeated or reordered, the consumer sees consecutive
\* batch identifiers: the queue ends just before the batch being filled and
\* starts just after the batch the consumer holds (the loop over prebatchid).
ConsecutiveBatches ==
  /\ \A k \in DOMAIN queue :
        pool[queue[k]].batch_id = prebatchid - Len(queue) - 1 + k
  /\ held # NoBatch => pool[held].batch_id = prebatchid - Len(queue) - 1

\* A published batch has a start time, and it is valid exactly when every
\* frame holds the samples of its own packet, none stale from the batch that
\* used the storage before, none counted twice; a valid batch carries the
\* noise-source state of its first packet.
ValidMeansComplete ==
  \A x \in Published :
    LET b == pool[x] IN
    /\ b.header_valid
    /\ b.hdrs[0].packet_id = FrameId(b.batch_id, 0)
    /\ b.valid <=> \A i \in Frames : b.payload[i] = FrameId(b.batch_id, i)
    /\ b.valid => b.noise_packet = FrameId(b.batch_id, 0)

\* "Baseband files keep a fixed frame cadence": every frame of a published
\* baseband batch is dated by its own position and holds either its own
\* samples or zero voltage flagged invalid, never an older frame.
FixedCadence ==
  baseband_mode =>
    \A x \in Published, i \in Frames :
      LET b == pool[x] IN
      /\ b.hdrs[i].packet_id = FrameId(b.batch_id, i)
      /\ b.payload[i] = IF b.hdrs[i].invalid THEN ZeroVoltage
                                             ELSE FrameId(b.batch_id, i)

\* No step of recv2mem changes a batch between its publication and the
\* consumer's next wait_dequeue.
PublishedFrozen ==
  [][\A x \in Published \cap Published' : pool'[x] = pool[x]]_vars

(***************************************************************************)
(* The stream implements BatchStream.                                      *)
(***************************************************************************)
AbstractBatch(x) ==
  [id |-> pool[x].batch_id,
   got |-> {i \in Frames : ~Missing(pool[x], i)},
   valid |-> pool[x].valid]

Stream == INSTANCE BatchStream WITH
  BatchIds <- Nat,
  started <- expected_pkt_id # 0,
  next <- prebatchid,
  queue <- [k \in DOMAIN queue |-> AbstractBatch(queue[k])],
  taken <- IF held = NoBatch THEN <<>> ELSE <<AbstractBatch(held)>>

\* Seen through the queue, recv2mem publishes consecutive batches, each once
\* and unchanged until the consumer takes it, and calls a batch valid exactly
\* when it received all of its frames.
ImplementsBatchStream == Stream!Spec

\* A producer blocked by back-pressure in wait_enqueue gets on with the
\* packet it holds, through every batch the packet skipped.
BlockedProducerResumes == pc = "wait" ~> pc = "poll"

\* A finished batch reaches the consumer: it is not stranded in the queue.
EveryBatchDelivered ==
  \A x \in PoolIdx : (pc = "prepare" /\ queue # <<>> /\ queue[Len(queue)] = x) ~> held = x
=============================================================================
