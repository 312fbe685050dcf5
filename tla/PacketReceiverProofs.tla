------------------------ MODULE PacketReceiverProofs ------------------------
(***************************************************************************)
(* Proofs about PacketReceiver, for every batch size, queue capacity and   *)
(* range of packet identifiers.                                            *)
(***************************************************************************)
EXTENDS PacketReceiver, TLAPS

USE BatchSizeAssumption, QueueCapacityAssumption, MaxPacketIdAssumption

(***************************************************************************)
(* Packet identifiers and the frames of a batch.  FrameId multiplies two   *)
(* variables; these facts are all that is used of it below.                *)
(***************************************************************************)
\* A packet has a place in exactly one batch (packet_id / batchsize).
LEMMA PacketPlace ==
  ASSUME NEW r \in Nat
  PROVE  /\ BatchId(r) \in Nat
         /\ FrameIdx(r) \in Frames
         /\ r = FrameId(BatchId(r), 0) + FrameIdx(r)
  BY DEF BatchId, FrameIdx, Frames, FrameId

\* Frames are numbered from the batch start.
LEMMA FrameOffset ==
  ASSUME NEW id \in Nat, NEW i \in Nat
  PROVE  /\ FrameId(id, 0) \in Nat
         /\ FrameId(id, i) \in Nat
         /\ FrameId(id, i) = FrameId(id, 0) + i
         /\ FrameId(id + 1, 0) = FrameId(id, 0) + BatchSize
  BY DEF FrameId

\* A later batch starts after the end of an earlier one.
LEMMA FrameMonotone ==
  ASSUME NEW a \in Nat, NEW b \in Nat, a < b
  PROVE  FrameId(a, 0) + BatchSize <= FrameId(b, 0)
<1>1. b = a + 1 + (b - a - 1) /\ b - a - 1 \in Nat
  OBVIOUS
<1>2. b * BatchSize = (a + 1) * BatchSize + (b - a - 1) * BatchSize
  BY <1>1
<1>3. (b - a - 1) * BatchSize \in Nat
  BY <1>1
<1>4. (a + 1) * BatchSize = a * BatchSize + BatchSize
  OBVIOUS
<1> QED
  BY <1>2, <1>3, <1>4 DEF FrameId

(***************************************************************************)
(* Types.                                                                  *)
(***************************************************************************)
\* prepare_batch keeps a batch well formed.
LEMMA PreparedType ==
  ASSUME NEW b \in BatchType, NEW id \in Nat, TypeOK
  PROVE  PreparedBatch(b, id) \in BatchType
  BY FrameOffset DEF PreparedBatch, BatchType, TypeOK, Header, Frames

\* The fields of a well-formed batch.
LEMMA BatchFields ==
  ASSUME NEW b \in BatchType
  PROVE  /\ b.batch_id \in Nat
         /\ b.received_count \in Nat
         /\ b.header_valid \in BOOLEAN
         /\ b.valid \in BOOLEAN
         /\ b.noise_packet \in Int
         /\ b.pkt_id \in [Frames -> Nat]
         /\ b.payload \in [Frames -> Int]
         /\ b.hdrs \in [Frames -> [packet_id : Nat, invalid : BOOLEAN]]
  BY DEF BatchType

\* finalize_batch keeps a batch well formed.
LEMMA FinalizedType ==
  ASSUME NEW b \in BatchType
  PROVE  FinalizedBatch(b) \in BatchType
<1>1. \A i \in Frames : FrameId(b.batch_id, i) \in Nat
  <2> TAKE i \in Frames
  <2>1. i \in Nat /\ b.batch_id \in Nat
    BY BatchFields DEF Frames
  <2> QED
    BY <2>1, FrameOffset
<1>2. \A v \in BOOLEAN : [b EXCEPT !.valid = v] \in BatchType
  BY DEF BatchType
<1>3. CASE ~baseband_mode \/ Complete(b) \/ ~b.header_valid
  <2>1. Complete(b) \in BOOLEAN
    BY Zenon DEF Complete
  <2> QED
    BY <1>2, <1>3, <2>1 DEF FinalizedBatch
<1>4. CASE ~(~baseband_mode \/ Complete(b) \/ ~b.header_valid)
  <2> DEFINE pay == [i \in Frames |-> IF Missing(b, i) THEN ZeroVoltage ELSE b.payload[i]]
             hdr == [i \in Frames |-> IF Missing(b, i)
                                        THEN Header(FrameId(b.batch_id, i), TRUE)
                                        ELSE b.hdrs[i]]
  <2>1. pay \in [Frames -> Int]
    BY BatchFields DEF ZeroVoltage
  <2>2. hdr \in [Frames -> [packet_id : Nat, invalid : BOOLEAN]]
    BY BatchFields, <1>1 DEF Header
  <2>3. FinalizedBatch(b) = [b EXCEPT !.valid = FALSE, !.payload = pay, !.hdrs = hdr]
    BY <1>4 DEF FinalizedBatch
  <2> HIDE DEF pay, hdr
  <2> QED
    BY <2>1, <2>2, <2>3 DEF BatchType
<1> QED
  BY <1>3, <1>4

\* Storing a packet keeps a batch well formed.
LEMMA StoredType ==
  ASSUME NEW b \in BatchType, NEW r \in Nat
  PROVE  StoredBatch(b, r) \in BatchType
<1>1. FrameId(BatchId(r), 0) \in Nat /\ FrameIdx(r) \in Frames
  BY PacketPlace, FrameOffset
<1> DEFINE first == b.received_count = 0
           own == IF baseband_mode
                    THEN [b.hdrs EXCEPT ![FrameIdx(r)] = Header(r, FALSE)] ELSE b.hdrs
           hdr == IF first
                    THEN [own EXCEPT ![0] = Header(FrameId(BatchId(r), 0), FALSE)]
                    ELSE own
           ids == [b.pkt_id EXCEPT ![FrameIdx(r)] = r]
           pay == [b.payload EXCEPT ![FrameIdx(r)] = r]
           noise == IF first \/ FrameIdx(r) = 0 THEN r ELSE b.noise_packet
<1>2. own \in [Frames -> [packet_id : Nat, invalid : BOOLEAN]]
  BY BatchFields, <1>1 DEF Header
<1>3. hdr \in [Frames -> [packet_id : Nat, invalid : BOOLEAN]]
  BY <1>1, <1>2 DEF Header
<1>4. ids \in [Frames -> Nat] /\ pay \in [Frames -> Int] /\ noise \in Int
  BY BatchFields, <1>1
<1>5. (first \/ b.header_valid) \in BOOLEAN /\ b.received_count + 1 \in Nat
  BY BatchFields
<1>6. StoredBatch(b, r) =
        [b EXCEPT !.pkt_id = ids, !.payload = pay, !.hdrs = hdr,
                  !.header_valid = first \/ b.header_valid,
                  !.noise_packet = noise, !.received_count = b.received_count + 1]
  BY DEF StoredBatch
<1> HIDE DEF hdr, ids, pay, noise, first
<1> QED
  BY <1>3, <1>4, <1>5, <1>6 DEF BatchType

\* The pool index recv2mem moves to is one of the pool's.
LEMMA NextPoolIdxType ==
  ASSUME pool_idx \in PoolIdx
  PROVE  NextPoolIdx \in PoolIdx
  BY DEF NextPoolIdx, PoolIdx, PoolSize

\* Every action writes only the batch recv2mem fills, if any.
LEMMA PoolUpdateType ==
  ASSUME TypeOK, NEW b \in BatchType
  PROVE  [pool EXCEPT ![pool_idx] = b] \in [PoolIdx -> BatchType]
  BY DEF TypeOK

\* The batch recv2mem fills is a batch.
LEMMA CurrentBatchType ==
  ASSUME TypeOK
  PROVE  pool[pool_idx] \in BatchType
  BY DEF TypeOK

\* recv2mem, its pool and its queue start well typed.
LEMMA InitType == Init => TypeOK
<1> SUFFICES ASSUME Init PROVE TypeOK
  OBVIOUS
<1>1. NewBatch \in BatchType
  BY DEF NewBatch, BatchType, Header, NoPacket
<1>2. 0 \in PoolIdx
  BY DEF PoolIdx, PoolSize
<1> QED
  BY <1>1, <1>2 DEF Init, TypeOK, PacketIds, NoPacket

\* Publishing a batch, by try_enqueue or by wait_enqueue.
LEMMA PublishType ==
  ASSUME TypeOK, Publish
  PROVE  TypeOK'
<1>1. queue' \in Seq(PoolIdx) /\ Len(queue') <= QueueCapacity
  BY DEF TypeOK, Publish, SlotFree
<1>2. pool_idx' \in PoolIdx
  BY NextPoolIdxType DEF TypeOK, Publish
<1> QED
  BY <1>1, <1>2 DEF TypeOK, Publish

\* Every step of the worker and of the consumer keeps the types.
LEMMA NextType == TypeOK /\ [Next]_vars => TypeOK'
<1> SUFFICES ASSUME TypeOK, [Next]_vars PROVE TypeOK'
  OBVIOUS
<1>1. ASSUME NEW r \in PacketIds, Receive(r) PROVE TypeOK'
  <2>1. monitor' \in PacketIds \cup {NoPacket}
    BY <1>1 DEF Receive, TypeOK
  <2>2. r \in Nat /\ r + 1 \in Nat /\ BatchId(r) \in Nat
    BY PacketPlace DEF PacketIds
  <2>3. CASE FirstPacket(r)
    <3>1. pool' \in [PoolIdx -> BatchType]
      BY <2>2, <2>3, CurrentBatchType, PreparedType, PoolUpdateType DEF FirstPacket
    <3> QED
      BY <1>1, <2>1, <2>2, <2>3, <3>1 DEF FirstPacket, Receive, TypeOK
  <2>4. CASE NextPacket(r)
    BY <1>1, <2>1, <2>2, <2>4 DEF NextPacket, Receive, TypeOK
  <2>5. CASE DiscardPacket(r)
    BY <1>1, <2>1, <2>5 DEF DiscardPacket, Receive, TypeOK, producerVars
  <2> QED
    BY <1>1, <2>3, <2>4, <2>5 DEF Receive
<1>2. ASSUME NEW r \in PacketIds, MonitorFails(r) PROVE TypeOK'
  BY <1>2 DEF MonitorFails, TypeOK, producerVars
<1>3. CASE Finalize
  <2>1. pool' \in [PoolIdx -> BatchType]
    BY <1>3, CurrentBatchType, FinalizedType, PoolUpdateType DEF Finalize
  <2> QED
    BY <1>3, <2>1 DEF Finalize, TypeOK, producerVars
<1>4. CASE TryEnqueue
  <2>1. CASE Publish
    BY <2>1, PublishType
  <2>2. CASE ~Publish
    BY <1>4, <2>2 DEF TryEnqueue, TypeOK, producerVars
  <2> QED
    BY <2>1, <2>2
<1>5. CASE WaitEnqueue
  BY <1>5, PublishType DEF WaitEnqueue
<1>6. CASE PrepareNext
  <2>1. pool' \in [PoolIdx -> BatchType]
    <3>1. prebatchid \in Nat
      BY DEF TypeOK
    <3> QED
      BY <1>6, <3>1, CurrentBatchType, PreparedType, PoolUpdateType DEF PrepareNext
  <2> QED
    BY <1>6, <2>1 DEF PrepareNext, TypeOK, producerVars
<1>7. CASE Store
  <2>1. pkt \in Nat
    BY DEF TypeOK, PacketIds
  <2>2. pool' \in [PoolIdx -> BatchType]
    BY <1>7, <2>1, CurrentBatchType, StoredType, PoolUpdateType DEF Store
  <2>3. have_header_template' \in BOOLEAN /\ last_noise_packet' \in Int
    BY <1>7, <2>1 DEF Store, TypeOK
  <2> QED
    BY <1>7, <2>2, <2>3 DEF Store, TypeOK
<1>8. CASE Dequeue
  <2>1. held' \in PoolIdx /\ queue' \in Seq(PoolIdx) /\ Len(queue') <= QueueCapacity
    BY <1>8 DEF Dequeue, ItemAvailable, TypeOK
  <2> QED
    BY <1>8, <2>1 DEF Dequeue, TypeOK, producerVars
<1>9. CASE UNCHANGED vars
  BY <1>9 DEF TypeOK, vars, producerVars
<1> QED
  BY <1>1, <1>2, <1>3, <1>4, <1>5, <1>6, <1>7, <1>8, <1>9 DEF Next, Worker

\* recv2mem's state is always well typed: its pool index stays inside the
\* pool and the queue within the capacity its semaphores give it.
THEOREM TypeCorrect == Spec => []TypeOK
  BY InitType, NextType, PTL DEF Spec

(***************************************************************************)
(* Ownership and order of the batches.                                     *)
(*                                                                         *)
(* The pool is used round robin, so a batch is identified by how many      *)
(* batches ago recv2mem left it.  The batches given away are the last      *)
(* Len(queue) + 1 ones, which is less than the size of the pool.           *)
(***************************************************************************)
Age(x, p) == IF x < p THEN p - x ELSE p - x + PoolSize

\* The batches given away are the most recent ones, in order.
RingOrder ==
  /\ \A k \in DOMAIN queue : Age(queue[k], pool_idx) = Len(queue) + 1 - k
  /\ held # NoBatch => Age(held, pool_idx) = Len(queue) + 1

\* A batch given away is numbered by its age.
AgeIsNumber ==
  /\ \A k \in DOMAIN queue :
        pool[queue[k]].batch_id = prebatchid - Age(queue[k], pool_idx)
  /\ held # NoBatch => pool[held].batch_id = prebatchid - Age(held, pool_idx)

\* The batch being filled carries the number prebatchid, except while
\* recv2mem has left one batch and not prepared the next.
CurrentNumbered ==
  expected_pkt_id # 0 /\ pc # "prepare" => pool[pool_idx].batch_id = prebatchid

\* Nothing is given away before the first usable packet.
NothingBeforeStart ==
  expected_pkt_id = 0 => /\ queue = <<>> /\ held = NoBatch
                         /\ pc \in {"poll", "exited"}

RingInv == TypeOK /\ RingOrder /\ AgeIsNumber /\ CurrentNumbered /\ NothingBeforeStart

\* The age of a batch is at least one and at most the size of the pool;
\* only the batch being filled has the age PoolSize.
LEMMA AgeFacts ==
  ASSUME NEW p \in PoolIdx, NEW x \in PoolIdx
  PROVE  /\ Age(x, p) \in 1 .. PoolSize
         /\ Age(x, p) = PoolSize <=> x = p
  BY DEF Age, PoolIdx, PoolSize

\* Moving on to the next batch makes the others one older.
LEMMA AgeStep ==
  ASSUME pool_idx \in PoolIdx, NEW x \in PoolIdx
  PROVE  /\ x = pool_idx => Age(x, NextPoolIdx) = 1
         /\ Age(x, pool_idx) < PoolSize => Age(x, NextPoolIdx) = Age(x, pool_idx) + 1
  BY DEF Age, PoolIdx, PoolSize, NextPoolIdx

\* The invariant gives the property the pool's size is chosen for.
LEMMA RingGivesOwnership == RingInv => BatchOwnership
<1> SUFFICES ASSUME RingInv PROVE BatchOwnership
  OBVIOUS
<1>1. pool_idx \in PoolIdx /\ \A k \in DOMAIN queue : queue[k] \in PoolIdx
  BY DEF RingInv, TypeOK
<1>2. Len(queue) + 1 < PoolSize /\ Len(queue) \in Nat /\ DOMAIN queue = 1 .. Len(queue)
  BY DEF RingInv, TypeOK, PoolSize
<1>3. \A k \in DOMAIN queue : Age(queue[k], pool_idx) = Len(queue) + 1 - k
  BY DEF RingInv, RingOrder
<1>4. held # NoBatch => held \in PoolIdx /\ Age(held, pool_idx) = Len(queue) + 1
  BY DEF RingInv, RingOrder, TypeOK
<1>5. \A k \in DOMAIN queue : queue[k] # pool_idx
  BY <1>1, <1>2, <1>3, AgeFacts
<1>6. held # NoBatch => held # pool_idx
  BY <1>1, <1>2, <1>4, AgeFacts
<1>7. \A k \in DOMAIN queue : queue[k] # held
  BY <1>1, <1>2, <1>3, <1>4 DEF NoBatch, PoolIdx, PoolSize
<1>8. \A j, k \in DOMAIN queue : queue[j] = queue[k] => j = k
  BY <1>2, <1>3
<1> QED
  BY <1>5, <1>6, <1>7, <1>8 DEF BatchOwnership, Published

\* The invariant gives the order in which the consumer sees the batches.
LEMMA RingGivesOrder == RingInv => ConsecutiveBatches
<1> SUFFICES ASSUME RingInv PROVE ConsecutiveBatches
  OBVIOUS
<1>1. Len(queue) \in Nat /\ DOMAIN queue = 1 .. Len(queue) /\ prebatchid \in Nat
  BY DEF RingInv, TypeOK
<1> QED
  BY <1>1 DEF RingInv, RingOrder, AgeIsNumber, ConsecutiveBatches

\* What the three updates of a batch do to its number.
LEMMA UpdatedNumber ==
  ASSUME NEW b \in BatchType, NEW id \in Nat, NEW r \in Nat
  PROVE  /\ PreparedBatch(b, id).batch_id = id
         /\ FinalizedBatch(b).batch_id = b.batch_id
         /\ StoredBatch(b, r).batch_id = b.batch_id
<1>1. PreparedBatch(b, id).batch_id = id
  BY DEF PreparedBatch, BatchType
<1>2. FinalizedBatch(b).batch_id = b.batch_id
  BY DEF FinalizedBatch, BatchType
<1>3. StoredBatch(b, r).batch_id = b.batch_id
  BY DEF StoredBatch, BatchType
<1> QED
  BY <1>1, <1>2, <1>3

\* A step that writes only the batch being filled leaves the others as they
\* are: none of them is the one being filled.
LEMMA LocalWrite ==
  ASSUME RingInv, NEW b,
         pool' = [pool EXCEPT ![pool_idx] = b],
         UNCHANGED <<queue, held, pool_idx, prebatchid>>
  PROVE  RingOrder' /\ AgeIsNumber'
<1>1. BatchOwnership
  BY RingGivesOwnership
<1>2. \A k \in DOMAIN queue : pool'[queue[k]] = pool[queue[k]]
  BY <1>1 DEF BatchOwnership, Published, RingInv, TypeOK
<1>3. held # NoBatch => pool'[held] = pool[held]
  BY <1>1 DEF BatchOwnership, Published, RingInv, TypeOK
<1> QED
  BY <1>2, <1>3 DEF RingInv, RingOrder, AgeIsNumber

\* Publication: the batch just filled is the youngest, numbered prebatchid.
LEMMA PublishRing ==
  ASSUME RingInv, TypeOK', Publish, pc \in {"enqueue", "wait"}
  PROVE  RingInv'
<1>1. /\ pool_idx \in PoolIdx /\ pool_idx' = NextPoolIdx
      /\ prebatchid \in Nat /\ prebatchid' = prebatchid + 1
      /\ pool' = pool /\ held' = held
  BY DEF RingInv, TypeOK, Publish
<1>2. /\ Len(queue) \in Nat /\ DOMAIN queue = 1 .. Len(queue)
      /\ Len(queue') = Len(queue) + 1 /\ DOMAIN queue' = 1 .. Len(queue) + 1
      /\ Len(queue) + 2 <= PoolSize
      /\ queue'[Len(queue) + 1] = pool_idx
      /\ \A k \in DOMAIN queue : queue'[k] = queue[k] /\ queue[k] \in PoolIdx
  BY DEF RingInv, TypeOK, Publish, SlotFree, PoolSize
<1>3. expected_pkt_id # 0 /\ pool[pool_idx].batch_id = prebatchid
  BY DEF RingInv, NothingBeforeStart, CurrentNumbered
<1>4. \A k \in DOMAIN queue : /\ Age(queue[k], pool_idx) = Len(queue) + 1 - k
                              /\ Age(queue[k], pool_idx') = Len(queue) + 2 - k
  BY <1>1, <1>2, AgeStep DEF RingInv, RingOrder, PoolSize
<1>5. held # NoBatch => /\ Age(held, pool_idx) = Len(queue) + 1
                        /\ Age(held, pool_idx') = Len(queue) + 2
  BY <1>1, <1>2, AgeStep DEF RingInv, RingOrder, TypeOK, PoolSize
<1>6. Age(pool_idx, pool_idx') = 1
  BY <1>1, AgeStep
<1>7. RingOrder'
  BY <1>1, <1>2, <1>4, <1>5, <1>6 DEF RingOrder
<1>8. AgeIsNumber'
  <2>1. \A k \in DOMAIN queue : pool[queue[k]].batch_id = prebatchid' - Age(queue[k], pool_idx')
    BY <1>1, <1>2, <1>4 DEF RingInv, AgeIsNumber
  <2>2. pool[pool_idx].batch_id = prebatchid' - Age(pool_idx, pool_idx')
    BY <1>1, <1>3, <1>6
  <2>3. held # NoBatch => pool[held].batch_id = prebatchid' - Age(held, pool_idx')
    BY <1>1, <1>2, <1>5 DEF RingInv, AgeIsNumber
  <2>4. \A k \in DOMAIN queue' : k \in DOMAIN queue \/ k = Len(queue) + 1
    BY <1>2
  <2> QED
    BY <1>1, <1>2, <2>1, <2>2, <2>3, <2>4 DEF AgeIsNumber
<1>9. CurrentNumbered' /\ NothingBeforeStart'
  BY <1>3 DEF Publish, CurrentNumbered, NothingBeforeStart
<1> QED
  BY <1>7, <1>8, <1>9 DEF RingInv

\* Taking the oldest batch off the queue: its age is that of the batch held.
LEMMA DequeueRing ==
  ASSUME RingInv, TypeOK', Dequeue
  PROVE  RingInv'
<1>1. UNCHANGED <<pool, pool_idx, prebatchid, pc, expected_pkt_id>>
  BY DEF Dequeue, producerVars
<1>2. /\ Len(queue) \in Nat /\ DOMAIN queue = 1 .. Len(queue) /\ Len(queue) > 0
      /\ Len(queue') = Len(queue) - 1 /\ DOMAIN queue' = 1 .. Len(queue) - 1
      /\ held' = queue[1]
      /\ \A k \in DOMAIN queue' : queue'[k] = queue[k + 1] /\ k + 1 \in DOMAIN queue
  BY DEF RingInv, TypeOK, Dequeue, ItemAvailable
<1>3. RingOrder'
  BY <1>1, <1>2 DEF RingInv, RingOrder
<1>4. AgeIsNumber'
  BY <1>1, <1>2 DEF RingInv, AgeIsNumber
<1>5. CurrentNumbered'
  BY <1>1 DEF RingInv, CurrentNumbered
<1>6. NothingBeforeStart'
  BY <1>1, <1>2 DEF RingInv, NothingBeforeStart
<1> QED
  BY <1>3, <1>4, <1>5, <1>6 DEF RingInv

\* Every step keeps the batches in order and apart.
LEMMA NextRing == RingInv /\ [Next]_vars => RingInv'
<1> SUFFICES ASSUME RingInv, [Next]_vars PROVE RingInv'
  OBVIOUS
<1>0. TypeOK /\ TypeOK' /\ pool \in [PoolIdx -> BatchType] /\ pool_idx \in PoolIdx
      /\ pool[pool_idx] \in BatchType
  BY NextType DEF RingInv, TypeOK
<1>1. ASSUME NEW r \in PacketIds, Receive(r) PROVE RingInv'
  <2>1. r \in Nat /\ BatchId(r) \in Nat
    BY PacketPlace DEF PacketIds
  <2>2. CASE FirstPacket(r)
    <3>1. queue = <<>> /\ held = NoBatch /\ queue' = <<>> /\ held' = NoBatch
      BY <1>1, <2>2 DEF RingInv, NothingBeforeStart, FirstPacket, Receive
    <3>2. RingOrder' /\ AgeIsNumber'
      BY <3>1 DEF RingOrder, AgeIsNumber
    <3>3. expected_pkt_id' # 0
      BY <2>1, <2>2 DEF FirstPacket
    <3>4. pool'[pool_idx'].batch_id = prebatchid'
      BY <1>0, <2>1, <2>2, UpdatedNumber DEF FirstPacket
    <3> QED
      BY <1>0, <3>2, <3>3, <3>4 DEF RingInv, CurrentNumbered, NothingBeforeStart
  <2>3. CASE NextPacket(r)
    <3>1. UNCHANGED <<pool, queue, held, pool_idx, prebatchid>>
      BY <1>1, <2>3 DEF NextPacket, Receive
    <3>2. pc = "poll" /\ pc' = "advance" /\ expected_pkt_id # 0 /\ expected_pkt_id' # 0
      BY <1>1, <2>1, <2>3 DEF NextPacket, Receive
    <3> QED
      BY <1>0, <3>1, <3>2
      DEF RingInv, RingOrder, AgeIsNumber, CurrentNumbered, NothingBeforeStart
  <2>4. CASE DiscardPacket(r)
    BY <1>0, <1>1, <2>4
    DEF DiscardPacket, Receive, producerVars,
        RingInv, RingOrder, AgeIsNumber, CurrentNumbered, NothingBeforeStart
  <2> QED
    BY <1>1, <2>2, <2>3, <2>4 DEF Receive
<1>2. ASSUME NEW r \in PacketIds, MonitorFails(r) PROVE RingInv'
  BY <1>0, <1>2
  DEF MonitorFails, producerVars,
      RingInv, RingOrder, AgeIsNumber, CurrentNumbered, NothingBeforeStart
<1>3. CASE Finalize
  <2>1. RingOrder' /\ AgeIsNumber'
    BY <1>3, LocalWrite DEF Finalize, producerVars
  <2>2. CurrentNumbered'
    BY <1>0, <1>3, UpdatedNumber DEF Finalize, producerVars, RingInv, CurrentNumbered
  <2>3. NothingBeforeStart'
    BY <1>3 DEF Finalize, producerVars, RingInv, NothingBeforeStart
  <2> QED
    BY <1>0, <2>1, <2>2, <2>3 DEF RingInv
<1>4. CASE TryEnqueue
  <2>1. CASE Publish
    BY <1>0, <1>4, <2>1, PublishRing DEF TryEnqueue
  <2>2. CASE ~Publish
    BY <1>0, <1>4, <2>2
    DEF TryEnqueue, producerVars,
        RingInv, RingOrder, AgeIsNumber, CurrentNumbered, NothingBeforeStart
  <2> QED
    BY <2>1, <2>2
<1>5. CASE WaitEnqueue
  BY <1>0, <1>5, PublishRing DEF WaitEnqueue
<1>6. CASE PrepareNext
  <2>1. RingOrder' /\ AgeIsNumber'
    BY <1>6, LocalWrite DEF PrepareNext, producerVars
  <2>2. CurrentNumbered'
    <3>1. prebatchid \in Nat
      BY <1>0 DEF TypeOK
    <3> QED
      BY <1>0, <1>6, <3>1, UpdatedNumber DEF PrepareNext, producerVars, CurrentNumbered
  <2>3. NothingBeforeStart'
    BY <1>6 DEF PrepareNext, producerVars, RingInv, NothingBeforeStart
  <2> QED
    BY <1>0, <2>1, <2>2, <2>3 DEF RingInv
<1>7. CASE Store
  <2>1. RingOrder' /\ AgeIsNumber'
    BY <1>7, LocalWrite DEF Store
  <2>2. CurrentNumbered'
    <3>1. pkt \in Nat
      BY <1>0 DEF TypeOK, PacketIds
    <3> QED
      BY <1>0, <1>7, <3>1, UpdatedNumber DEF Store, RingInv, CurrentNumbered
  <2>3. NothingBeforeStart'
    BY <1>7 DEF Store, RingInv, NothingBeforeStart
  <2> QED
    BY <1>0, <2>1, <2>2, <2>3 DEF RingInv
<1>8. CASE Dequeue
  BY <1>0, <1>8, DequeueRing
<1>9. CASE UNCHANGED vars
  BY <1>0, <1>9
  DEF vars, producerVars,
      RingInv, RingOrder, AgeIsNumber, CurrentNumbered, NothingBeforeStart
<1> QED
  BY <1>1, <1>2, <1>3, <1>4, <1>5, <1>6, <1>7, <1>8, <1>9 DEF Next, Worker

\* The invariant holds initially: nothing is queued or held.
LEMMA InitRing == Init => RingInv
  BY InitType DEF Init, RingInv, RingOrder, AgeIsNumber, CurrentNumbered, NothingBeforeStart

\* The order of batches around the pool is kept for ever.
LEMMA RingInvariant == Spec => []RingInv
  BY InitRing, NextRing, PTL DEF Spec

\* recv2mem never writes a batch that is queued or with the consumer: the
\* two batches init() adds to the queue's capacity are enough, always.
THEOREM Ownership == Spec => []BatchOwnership
  BY RingInvariant, RingGivesOwnership, PTL

\* The consumer sees consecutive batch identifiers, whatever the network
\* loses, repeats or reorders.
THEOREM Order == Spec => []ConsecutiveBatches
  BY RingInvariant, RingGivesOrder, PTL
=============================================================================
