------------------------ MODULE PacketContentProofs ------------------------
(***************************************************************************)
(* Proofs about what a published batch holds (PacketReceiver), on top of   *)
(* the ownership and order of batches proved in PacketReceiverProofs, and  *)
(* that a receive stream implements BatchStream.                           *)
(***************************************************************************)
EXTENDS PacketReceiverProofs, SequenceTheorems

USE BatchSizeAssumption, QueueCapacityAssumption, MaxPacketIdAssumption

(***************************************************************************)
(* A batch given away is not written.                                      *)
(***************************************************************************)
\* A step changes no batch that is given away after it, and the only batch a
\* step gives away is the finalized one.
LEMMA PublishedStep ==
  ASSUME RingInv, [Next]_vars
  PROVE  \A x \in Published' : /\ x \in PoolIdx
                               /\ pool'[x] = pool[x]
                               /\ \/ x \in Published
                                  \/ pc \in {"enqueue", "wait"} /\ x = pool_idx
<1>0. /\ pool \in [PoolIdx -> BatchType] /\ pool_idx \in PoolIdx /\ pool_idx \notin Published
      /\ \A x \in Published : x \in PoolIdx
  BY RingGivesOwnership DEF RingInv, TypeOK, BatchOwnership, Published
<1>1. ASSUME NEW b, pool' = [pool EXCEPT ![pool_idx] = b], UNCHANGED <<queue, held>>
      PROVE  \A x \in Published' : x \in Published /\ pool'[x] = pool[x]
  BY <1>0, <1>1 DEF Published
<1>2. ASSUME UNCHANGED <<pool, queue, held>>
      PROVE  \A x \in Published' : x \in Published /\ pool'[x] = pool[x]
  BY <1>2 DEF Published
<1>3. ASSUME Publish
      PROVE  \A x \in Published' : (x \in Published \/ x = pool_idx) /\ pool'[x] = pool[x]
  <2>1. /\ DOMAIN queue = 1 .. Len(queue) /\ DOMAIN queue' = 1 .. Len(queue) + 1
        /\ Len(queue) \in Nat /\ queue'[Len(queue) + 1] = pool_idx
        /\ \A k \in 1 .. Len(queue) : queue'[k] = queue[k]
    BY <1>3 DEF RingInv, TypeOK, Publish
  <2>2. pool' = pool /\ held' = held
    BY <1>3 DEF Publish
  <2> QED
    BY <2>1, <2>2 DEF Published
<1>4. ASSUME Dequeue
      PROVE  \A x \in Published' : x \in Published /\ pool'[x] = pool[x]
  <2>1. /\ DOMAIN queue = 1 .. Len(queue) /\ Len(queue) \in Nat /\ Len(queue) > 0
        /\ DOMAIN queue' = 1 .. Len(queue) - 1 /\ held' = queue[1]
        /\ \A k \in 1 .. Len(queue) - 1 : queue'[k] = queue[k + 1]
    BY <1>4 DEF RingInv, TypeOK, Dequeue, ItemAvailable
  <2>2. pool' = pool
    BY <1>4 DEF Dequeue
  <2>3. \A k \in DOMAIN queue : queue[k] \in PoolIdx
    BY DEF RingInv, TypeOK
  <2>4. \A x \in PoolIdx : x # NoBatch
    BY DEF PoolIdx, NoBatch
  <2> QED
    BY <2>1, <2>2, <2>3, <2>4 DEF Published
<1>5. ASSUME NEW r \in PacketIds, Receive(r)
      PROVE  \A x \in Published' : x \in Published /\ pool'[x] = pool[x]
  BY <1>1, <1>2, <1>5 DEF Receive, FirstPacket, NextPacket, DiscardPacket
<1>6. CASE \E r \in PacketIds : Receive(r) \/ MonitorFails(r)
  BY <1>0, <1>2, <1>5, <1>6 DEF MonitorFails
<1>7. CASE Finalize \/ PrepareNext \/ Store
  BY <1>0, <1>1, <1>7 DEF Finalize, PrepareNext, Store
<1>8. CASE TryEnqueue \/ WaitEnqueue
  BY <1>0, <1>2, <1>3, <1>8 DEF TryEnqueue, WaitEnqueue
<1>9. CASE UNCHANGED vars
  BY <1>0, <1>2, <1>9 DEF vars
<1> QED
  BY <1>0, <1>4, <1>6, <1>7, <1>8, <1>9 DEF Next, Worker

\* No step of recv2mem changes a batch between its publication and the
\* consumer's next wait_dequeue.
THEOREM Frozen == Spec => PublishedFrozen
<1>1. RingInv /\ [Next]_vars => [\A x \in Published \cap Published' : pool'[x] = pool[x]]_vars
  BY PublishedStep
<1> QED
  BY <1>1, RingInvariant, PTL DEF Spec, PublishedFrozen

(***************************************************************************)
(* Contents of the batches.                                                *)
(*                                                                         *)
(* Packet identifiers only ever grow, so the batch being filled has        *)
(* received at most as many packets as it has frames below the last one,   *)
(* and as many only if it received them all.  Storage that is used again   *)
(* only holds identifiers below the start of its new batch.                *)
(***************************************************************************)
\* Every packet stored so far is below Seen.
Seen == IF pc \in {"poll", "exited"} THEN expected_pkt_id ELSE pkt

\* First packet of the batch being filled.
BatchStart == FrameId(prebatchid, 0)

\* How the packet in hand lies to the batch being filled.
LoopPosition ==
  /\ expected_pkt_id # 0 => BatchStart <= Seen
  /\ pc = "advance" => prebatchid <= BatchId(pkt) /\ expected_pkt_id = pkt + 1
  /\ pc \in {"enqueue", "wait"} => prebatchid < BatchId(pkt) /\ expected_pkt_id = pkt + 1
  /\ pc = "prepare" => prebatchid <= BatchId(pkt) /\ prebatchid > 0
                       /\ expected_pkt_id = pkt + 1

\* Storage not in use for the current batch holds older packets only.
OnlyOlder(b) == \A i \in Frames : /\ b.pkt_id[i] = 0 \/ b.pkt_id[i] < BatchStart
                                  /\ b.payload[i] < BatchStart

OthersOlder == \A x \in PoolIdx : x # pool_idx \/ pc = "prepare" => OnlyOlder(pool[x])

\* Until the first packet is stored the pool is as it was allocated.
Untouched ==
  ~have_header_template =>
    /\ \A x \in PoolIdx, i \in Frames : /\ pool[x].pkt_id[i] = 0
                                        /\ pool[x].payload[i] = NoPacket
    /\ expected_pkt_id # 0 => /\ pc = "advance" /\ pkt = BatchStart
                              /\ pool[pool_idx].received_count = 0

\* There is no header template before the first usable packet.
TemplateLater == expected_pkt_id = 0 => ~have_header_template

\* Frames of a batch from start on that are below seen.
Reach(start, seen) == IF seen - start <= BatchSize THEN seen - start ELSE BatchSize

\* The count of a batch: as many as could have come only if all of them came.
CountRight(b, seen) ==
  LET reach == Reach(FrameId(b.batch_id, 0), seen) IN
  /\ b.received_count <= reach
  /\ b.received_count = reach <=> \A i \in Frames : i < reach => ~Missing(b, i)
  /\ b.received_count = 0 => \A i \in Frames : Missing(b, i)

\* Its samples: those of its own packets where the identifiers say so.
SamplesRight(b, seen) ==
  \A i \in Frames :
    /\ b.payload[i] = FrameId(b.batch_id, i) <=> ~Missing(b, i)
    /\ b.pkt_id[i] = 0 \/ b.pkt_id[i] < seen
    /\ b.pkt_id[i] < FrameId(b.batch_id, 0) + BatchSize
    /\ b.payload[i] < FrameId(b.batch_id, 0) + BatchSize

\* Its start time and its noise-source state.
TagsRight(b) ==
  /\ b.header_valid = TRUE
  /\ b.hdrs[0].packet_id = FrameId(b.batch_id, 0)
  /\ ~Missing(b, 0) => b.noise_packet = FrameId(b.batch_id, 0)

Current ==
  have_header_template /\ pc \in {"poll", "exited", "advance"} =>
    /\ CountRight(pool[pool_idx], Seen)
    /\ SamplesRight(pool[pool_idx], Seen)
    /\ TagsRight(pool[pool_idx])

\* What ValidMeansComplete says of one batch.
Good(b) ==
  /\ b.header_valid
  /\ b.hdrs[0].packet_id = FrameId(b.batch_id, 0)
  /\ b.valid <=> \A i \in Frames : b.payload[i] = FrameId(b.batch_id, i)
  /\ b.valid => b.noise_packet = FrameId(b.batch_id, 0)

\* A finalized batch that waits for a free slot of the queue.
Finalized ==
  pc \in {"enqueue", "wait"} =>
    /\ Good(pool[pool_idx])
    /\ \A i \in Frames : /\ pool[pool_idx].pkt_id[i] < BatchStart + BatchSize
                         /\ pool[pool_idx].payload[i] < BatchStart + BatchSize

ContentInv == /\ RingInv
              /\ LoopPosition
              /\ OthersOlder
              /\ Untouched
              /\ TemplateLater
              /\ Current
              /\ Finalized
              /\ ValidMeansComplete

\* What prepare_batch leaves in a batch, once there is a header template.
LEMMA PreparedFields ==
  ASSUME NEW b \in BatchType, NEW id \in Nat, have_header_template
  PROVE  LET p == PreparedBatch(b, id) IN
         /\ p.batch_id = id
         /\ p.received_count = 0
         /\ p.header_valid = have_header_template
         /\ p.hdrs[0].packet_id = FrameId(id, 0)
         /\ p.pkt_id = b.pkt_id
         /\ p.payload = b.payload
<1>1. 0 \in Frames
  BY DEF Frames
<1> QED
  BY <1>1 DEF PreparedBatch, BatchType, Header

\* prepare_batch touches neither identifiers nor samples.
LEMMA PreparedKeeps ==
  ASSUME NEW b \in BatchType, NEW id \in Nat
  PROVE  LET p == PreparedBatch(b, id) IN
         /\ p.batch_id = id
         /\ p.received_count = 0
         /\ p.pkt_id = b.pkt_id
         /\ p.payload = b.payload
  BY DEF PreparedBatch, BatchType

\* What storing a packet does to a batch.
LEMMA StoredFields ==
  ASSUME NEW b \in BatchType, NEW r \in Nat, NEW i \in Frames, i = FrameIdx(r)
  PROVE  LET p == StoredBatch(b, r) IN
         /\ p.batch_id = b.batch_id
         /\ p.received_count = b.received_count + 1
         /\ p.header_valid = (b.received_count = 0 \/ b.header_valid)
         /\ p.noise_packet = IF b.received_count = 0 \/ i = 0 THEN r ELSE b.noise_packet
         /\ \A j \in Frames : p.pkt_id[j] = IF j = i THEN r ELSE b.pkt_id[j]
         /\ \A j \in Frames : p.payload[j] = IF j = i THEN r ELSE b.payload[j]
<1>1. /\ StoredBatch(b, r).pkt_id = [b.pkt_id EXCEPT ![i] = r]
      /\ StoredBatch(b, r).payload = [b.payload EXCEPT ![i] = r]
      /\ StoredBatch(b, r).batch_id = b.batch_id
      /\ StoredBatch(b, r).received_count = b.received_count + 1
      /\ StoredBatch(b, r).header_valid = (b.received_count = 0 \/ b.header_valid)
      /\ StoredBatch(b, r).noise_packet =
             IF b.received_count = 0 \/ i = 0 THEN r ELSE b.noise_packet
  BY DEF StoredBatch, BatchType
<1> QED
  BY <1>1, BatchFields

\* The first header of a batch dates its start, if it did or the packet does.
LEMMA StoredHeader ==
  ASSUME NEW b \in BatchType, NEW r \in Nat,
         \/ b.received_count = 0
         \/ b.hdrs[0].packet_id = FrameId(BatchId(r), 0)
  PROVE  StoredBatch(b, r).hdrs[0].packet_id = FrameId(BatchId(r), 0)
<1>0. /\ FrameIdx(r) \in Frames /\ BatchId(r) \in Nat
      /\ r = FrameId(BatchId(r), 0) + FrameIdx(r)
  BY PacketPlace
<1>1. /\ FrameIdx(r) \in Frames /\ 0 \in Frames
      /\ r = FrameId(BatchId(r), 0) + FrameIdx(r) /\ FrameId(BatchId(r), 0) \in Nat
  BY <1>0, FrameOffset DEF Frames
<1> DEFINE own == IF baseband_mode
                    THEN [b.hdrs EXCEPT ![FrameIdx(r)] = Header(r, FALSE)] ELSE b.hdrs
<1>2. DOMAIN own = Frames /\ DOMAIN b.hdrs = Frames
  BY BatchFields
<1>3. StoredBatch(b, r).hdrs = IF b.received_count = 0
                    THEN [own EXCEPT ![0] = Header(FrameId(BatchId(r), 0), FALSE)]
                    ELSE own
  BY DEF StoredBatch, BatchType
<1>4. CASE b.received_count = 0
  BY <1>1, <1>2, <1>3, <1>4 DEF Header
<1>5. CASE b.received_count # 0
  <2>1. own[0].packet_id = FrameId(BatchId(r), 0)
    BY <1>1, <1>2, <1>5 DEF Header
  <2> QED
    BY <1>3, <1>5, <2>1
<1> QED
  BY <1>4, <1>5

\* What finalize_batch does to a batch that has a header.
LEMMA FinalizedFields ==
  ASSUME NEW b \in BatchType, b.header_valid
  PROVE  LET p == FinalizedBatch(b) IN
         /\ p.batch_id = b.batch_id
         /\ p.header_valid = b.header_valid
         /\ p.valid = (b.received_count = BatchSize)
         /\ p.noise_packet = b.noise_packet
         /\ p.pkt_id = b.pkt_id
         /\ b.hdrs[0].packet_id = FrameId(b.batch_id, 0) =>
               p.hdrs[0].packet_id = FrameId(b.batch_id, 0)
         /\ \A j \in Frames : \/ p.payload[j] = b.payload[j]
                              \/ Missing(b, j) /\ p.payload[j] = ZeroVoltage
<1>0. 0 \in Frames
  BY DEF Frames
<1>1. CASE ~baseband_mode \/ Complete(b) \/ ~b.header_valid
  <2>1. FinalizedBatch(b) = [b EXCEPT !.valid = Complete(b)]
    BY <1>1 DEF FinalizedBatch
  <2>2. Complete(b) = (b.received_count = BatchSize)
    BY DEF Complete
  <2>3. /\ FinalizedBatch(b).valid = Complete(b)
        /\ FinalizedBatch(b).batch_id = b.batch_id
        /\ FinalizedBatch(b).header_valid = b.header_valid
        /\ FinalizedBatch(b).noise_packet = b.noise_packet
        /\ FinalizedBatch(b).pkt_id = b.pkt_id
        /\ FinalizedBatch(b).hdrs = b.hdrs
        /\ FinalizedBatch(b).payload = b.payload
    BY <2>1 DEF BatchType
  <2> QED
    BY <2>2, <2>3
<1>2. CASE ~(~baseband_mode \/ Complete(b) \/ ~b.header_valid)
  <2> DEFINE pay == [i \in Frames |-> IF Missing(b, i) THEN ZeroVoltage ELSE b.payload[i]]
             hdr == [i \in Frames |-> IF Missing(b, i)
                                        THEN Header(FrameId(b.batch_id, i), TRUE)
                                        ELSE b.hdrs[i]]
  <2>1. FinalizedBatch(b) = [b EXCEPT !.valid = FALSE, !.payload = pay, !.hdrs = hdr]
    BY <1>2 DEF FinalizedBatch
  <2>2. b.hdrs[0].packet_id = FrameId(b.batch_id, 0) =>
          hdr[0].packet_id = FrameId(b.batch_id, 0)
    BY <1>0 DEF Header
  <2>3. \A j \in Frames : \/ pay[j] = b.payload[j]
                          \/ Missing(b, j) /\ pay[j] = ZeroVoltage
    OBVIOUS
  <2>4. b.received_count # BatchSize
    BY <1>2 DEF Complete
  <2> HIDE DEF pay, hdr
  <2>5. /\ FinalizedBatch(b).valid = FALSE
        /\ FinalizedBatch(b).batch_id = b.batch_id
        /\ FinalizedBatch(b).header_valid = b.header_valid
        /\ FinalizedBatch(b).noise_packet = b.noise_packet
        /\ FinalizedBatch(b).pkt_id = b.pkt_id
        /\ FinalizedBatch(b).hdrs = hdr
        /\ FinalizedBatch(b).payload = pay
    BY <2>1 DEF BatchType
  <2> QED
    BY <2>2, <2>3, <2>4, <2>5
<1> QED
  BY <1>1, <1>2

(***************************************************************************)
(* Every step keeps the contents right.                                    *)
(***************************************************************************)
\* The types the steps below use.
LEMMA ContentTypes ==
  ASSUME ContentInv
  PROVE  /\ pool \in [PoolIdx -> BatchType] /\ pool_idx \in PoolIdx
         /\ pool[pool_idx] \in BatchType
         /\ pkt \in Nat /\ expected_pkt_id \in Nat /\ prebatchid \in Nat
         /\ Seen \in Nat /\ BatchStart \in Nat
         /\ \A i \in Frames : i \in Nat /\ FrameId(prebatchid, i) = BatchStart + i
<1>1. /\ pool \in [PoolIdx -> BatchType] /\ pool_idx \in PoolIdx
      /\ pkt \in Nat /\ expected_pkt_id \in Nat /\ prebatchid \in Nat
  BY DEF ContentInv, RingInv, TypeOK, PacketIds
<1>2. Seen \in Nat
  BY <1>1 DEF Seen
<1>3. BatchStart \in Nat /\ \A i \in Frames : i \in Nat /\ FrameId(prebatchid, i) = BatchStart + i
  BY <1>1, FrameOffset DEF BatchStart, Frames
<1> QED
  BY <1>1, <1>2, <1>3

\* A batch given away stays good, and the one given away is good.
LEMMA ValidStep ==
  ASSUME ContentInv, [Next]_vars
  PROVE  ValidMeansComplete'
<1>1. ValidMeansComplete <=> \A x \in Published : Good(pool[x])
  BY DEF ValidMeansComplete, Good
<1>2. ValidMeansComplete' <=> \A x \in Published' : Good(pool'[x])
  BY DEF ValidMeansComplete, Good
<1>3. \A x \in Published' : Good(pool[x]) /\ pool'[x] = pool[x]
  BY <1>1, PublishedStep DEF ContentInv, Finalized
<1> QED
  BY <1>2, <1>3

\* A packet is in the batch being filled or in a later one.
LEMMA NotBefore ==
  ASSUME NEW r \in Nat, NEW id \in Nat, FrameId(id, 0) <= r
  PROVE  id <= BatchId(r)
<1>1. /\ BatchId(r) \in Nat /\ FrameIdx(r) \in 0 .. BatchSize - 1
      /\ r = FrameId(BatchId(r), 0) + FrameIdx(r)
  BY PacketPlace DEF Frames
<1>2. FrameId(BatchId(r), 0) \in Nat /\ FrameId(id, 0) \in Nat
  BY <1>1, FrameOffset
<1>3. CASE BatchId(r) < id
  <2>1. FrameId(BatchId(r), 0) + BatchSize <= FrameId(id, 0)
    BY <1>1, <1>3, FrameMonotone
  <2> QED
    BY <1>1, <1>2, <2>1
<1> QED
  BY <1>1, <1>3

\* The numbers in a batch.
LEMMA BatchFrames ==
  ASSUME NEW b \in BatchType
  PROVE  /\ FrameId(b.batch_id, 0) \in Nat /\ b.received_count \in Nat
         /\ \A i \in Frames : /\ i \in Nat /\ i < BatchSize
                              /\ b.pkt_id[i] \in Nat /\ b.payload[i] \in Int
                              /\ FrameId(b.batch_id, i) = FrameId(b.batch_id, 0) + i
<1>1. b.batch_id \in Nat /\ b.received_count \in Nat
  BY BatchFields
<1>2. \A i \in Frames : i \in Nat /\ i < BatchSize /\ b.pkt_id[i] \in Nat /\ b.payload[i] \in Int
  <2>1. b.pkt_id \in [Frames -> Nat] /\ b.payload \in [Frames -> Int]
    BY BatchFields
  <2>2. \A i \in Frames : b.pkt_id[i] \in Nat /\ b.payload[i] \in Int
    BY <2>1
  <2>3. \A i \in Frames : i \in Nat /\ i < BatchSize
    BY DEF Frames
  <2> QED
    BY <2>2, <2>3
<1>3. 0 \in Frames
  BY DEF Frames
<1> QED
  BY <1>1, <1>2, <1>3, FrameOffset

\* Going on to a later packet: the frames lost on the way are missing.
LEMMA CountAfterGap ==
  ASSUME NEW b \in BatchType, NEW old \in Nat, NEW new \in Nat,
         FrameId(b.batch_id, 0) <= old, old <= new, old # 0,
         CountRight(b, old), SamplesRight(b, old)
  PROVE  CountRight(b, new) /\ SamplesRight(b, new)
<1> DEFINE start == FrameId(b.batch_id, 0)
<1>1. /\ start \in Nat /\ b.received_count \in Nat
      /\ \A i \in Frames : i \in Nat /\ b.pkt_id[i] \in Nat /\ FrameId(b.batch_id, i) = start + i
  BY BatchFrames
<1>2. SamplesRight(b, new)
  BY <1>1 DEF SamplesRight
<1>3. CASE Reach(start, new) = Reach(start, old)
  BY <1>2, <1>3 DEF CountRight
<1>4. CASE Reach(start, new) # Reach(start, old)
  <2>1. /\ Reach(start, old) = old - start /\ old - start \in Frames
        /\ Reach(start, old) < Reach(start, new)
    BY <1>1, <1>4 DEF Reach, Frames
  <2>2. Missing(b, old - start)
    BY <1>1, <2>1 DEF Missing, SamplesRight
  <2>3. b.received_count < Reach(start, new) /\ Reach(start, new) \in Nat
    BY <1>1, <2>1 DEF CountRight, Reach
  <2> QED
    BY <1>1, <1>2, <2>1, <2>2, <2>3 DEF CountRight
<1> QED
  BY <1>3, <1>4

\* The first usable packet.
LEMMA FirstContent ==
  ASSUME ContentInv, RingInv', ValidMeansComplete', NEW r \in PacketIds,
         Receive(r), FirstPacket(r)
  PROVE  ContentInv'
<1>1. /\ r \in Nat /\ BatchId(r) \in Nat /\ FrameIdx(r) = 0
      /\ r = FrameId(BatchId(r), 0)
  <2>1. r \in Nat /\ FrameIdx(r) = 0
    BY DEF PacketIds, FirstPacket
  <2>2. BatchId(r) \in Nat /\ r = FrameId(BatchId(r), 0) + 0
    BY <2>1, PacketPlace
  <2> QED
    BY <2>1, <2>2, FrameOffset
<1>2. BatchStart' = r /\ Seen' = r /\ pc' = "advance" /\ expected_pkt_id' = r + 1
  BY <1>1 DEF BatchStart, Seen, FirstPacket
<1>3. ~have_header_template /\ ~have_header_template'
  BY DEF ContentInv, TemplateLater, FirstPacket
<1>4. \A x \in PoolIdx, i \in Frames : /\ pool'[x].pkt_id[i] = 0
                                        /\ pool'[x].payload[i] = NoPacket
  <2>1. \A x \in PoolIdx : /\ pool'[x].pkt_id = pool[x].pkt_id
                          /\ pool'[x].payload = pool[x].payload
    BY <1>1, ContentTypes, PreparedKeeps DEF FirstPacket
  <2> QED
    BY <1>3, <2>1 DEF ContentInv, Untouched
<1>5. pool'[pool_idx'].received_count = 0
  BY <1>1, ContentTypes, PreparedKeeps DEF FirstPacket
<1>6. LoopPosition'
  BY <1>1, <1>2 DEF LoopPosition, FirstPacket
<1>7. OthersOlder'
  BY <1>1, <1>2, <1>4 DEF OthersOlder, OnlyOlder, NoPacket
<1>8. Untouched' /\ TemplateLater'
  BY <1>1, <1>2, <1>3, <1>4, <1>5 DEF Untouched, TemplateLater, FirstPacket
<1>9. Current' /\ Finalized'
  BY <1>2, <1>3 DEF Current, Finalized
<1> QED
  BY <1>6, <1>7, <1>8, <1>9 DEF ContentInv

\* A packet in sequence, possibly after a loss: a lost frame is missing.
LEMMA NextContent ==
  ASSUME ContentInv, RingInv', ValidMeansComplete', NEW r \in PacketIds,
         Receive(r), NextPacket(r)
  PROVE  ContentInv'
<1>1. /\ r \in Nat /\ expected_pkt_id # 0 /\ expected_pkt_id <= r
      /\ pc = "poll" /\ pc' = "advance" /\ pkt' = r /\ expected_pkt_id' = r + 1
      /\ UNCHANGED <<pool, pool_idx, prebatchid, have_header_template>>
  BY ContentTypes DEF PacketIds, Receive, NextPacket, InSequence
<1>2. Seen = expected_pkt_id /\ Seen' = r /\ BatchStart' = BatchStart
  BY <1>1 DEF Seen, BatchStart
<1>3. BatchStart <= Seen /\ BatchStart <= r /\ have_header_template
  BY <1>1, <1>2, ContentTypes DEF ContentInv, LoopPosition, Untouched
<1>4. prebatchid <= BatchId(r)
  BY <1>1, <1>3, NotBefore, ContentTypes DEF BatchStart
<1>5. LoopPosition'
  BY <1>1, <1>2, <1>3, <1>4 DEF LoopPosition
<1>6. OthersOlder'
  BY <1>1, <1>2 DEF ContentInv, OthersOlder, OnlyOlder
<1>7. Untouched' /\ TemplateLater' /\ Finalized'
  BY <1>1, <1>3 DEF Untouched, TemplateLater, Finalized
<1>8. Current'
  <2>1. /\ CountRight(pool[pool_idx], Seen) /\ SamplesRight(pool[pool_idx], Seen)
        /\ TagsRight(pool[pool_idx])
    BY <1>1, <1>3 DEF ContentInv, Current
  <2>2. pool[pool_idx].batch_id = prebatchid
    BY <1>1 DEF ContentInv, RingInv, CurrentNumbered
  <2>3. CountRight(pool[pool_idx], r) /\ SamplesRight(pool[pool_idx], r)
    BY <1>1, <1>2, <1>3, <2>1, <2>2, CountAfterGap, ContentTypes DEF BatchStart
  <2> QED
    BY <1>1, <1>2, <2>1, <2>3 DEF Current
<1> QED
  BY <1>5, <1>6, <1>7, <1>8 DEF ContentInv

\* finalize_batch: the packet in hand is beyond the batch, so that its count
\* tells whether it is complete.
LEMMA FinalizeContent ==
  ASSUME ContentInv, RingInv', ValidMeansComplete', Finalize
  PROVE  ContentInv'
<1> DEFINE b == pool[pool_idx]
<1>1. /\ pc = "advance" /\ pc' = "enqueue" /\ prebatchid < BatchId(pkt)
      /\ pool' = [pool EXCEPT ![pool_idx] = FinalizedBatch(b)]
      /\ UNCHANGED <<pkt, expected_pkt_id, prebatchid, pool_idx, have_header_template>>
  BY DEF Finalize, producerVars
<1>2. Seen = pkt /\ Seen' = pkt /\ BatchStart' = BatchStart
  BY <1>1 DEF Seen, BatchStart
<1>3. BatchStart + BatchSize <= pkt /\ expected_pkt_id = pkt + 1 /\ pkt \in Nat
  <2>1. /\ BatchId(pkt) \in Nat /\ FrameIdx(pkt) \in Nat
        /\ pkt = FrameId(BatchId(pkt), 0) + FrameIdx(pkt) /\ FrameId(BatchId(pkt), 0) \in Nat
    BY ContentTypes, PacketPlace, FrameOffset DEF Frames
  <2>2. FrameId(prebatchid, 0) + BatchSize <= FrameId(BatchId(pkt), 0)
    BY <1>1, <2>1, ContentTypes, FrameMonotone
  <2> QED
    BY <1>1, <2>1, <2>2, ContentTypes DEF BatchStart, ContentInv, LoopPosition
<1>4. have_header_template
  BY <1>3, ContentTypes DEF ContentInv, Untouched
<1>5. /\ b \in BatchType /\ b.batch_id = prebatchid
      /\ CountRight(b, pkt) /\ SamplesRight(b, pkt) /\ TagsRight(b)
  BY <1>1, <1>2, <1>3, <1>4, ContentTypes DEF ContentInv, Current, RingInv, CurrentNumbered
<1> DEFINE p == FinalizedBatch(b)
<1>6. pool'[pool_idx'] = p /\ \A x \in PoolIdx : x # pool_idx => pool'[x] = pool[x]
  BY <1>1, ContentTypes
<1>7. LoopPosition'
  BY <1>1, <1>2, <1>3, ContentTypes DEF ContentInv, LoopPosition
<1>8. OthersOlder'
  BY <1>1, <1>2, <1>6 DEF ContentInv, OthersOlder, OnlyOlder
<1>9. Untouched' /\ TemplateLater' /\ Current'
  BY <1>1, <1>3, <1>4 DEF Untouched, TemplateLater, Current
<1>10. Finalized'
  <2> HIDE DEF b
  <2>1. /\ p.batch_id = b.batch_id
        /\ p.header_valid = TRUE
        /\ p.valid = (b.received_count = BatchSize)
        /\ p.noise_packet = b.noise_packet
        /\ p.pkt_id = b.pkt_id
        /\ p.hdrs[0].packet_id = FrameId(b.batch_id, 0)
        /\ \A j \in Frames : \/ p.payload[j] = b.payload[j]
                             \/ Missing(b, j) /\ p.payload[j] = ZeroVoltage
    BY <1>5, FinalizedFields DEF TagsRight
  <2> HIDE DEF p
  <2>2. Reach(FrameId(b.batch_id, 0), pkt) = BatchSize
    BY <1>3, <1>5, BatchFrames DEF Reach, BatchStart
  <2>3. b.received_count = BatchSize <=> \A i \in Frames : ~Missing(b, i)
    BY <1>5, <2>2, BatchFrames DEF CountRight
  <2>4. \A i \in Frames : p.payload[i] = FrameId(b.batch_id, i) <=> ~Missing(b, i)
    BY <1>5, <2>1, BatchFrames DEF SamplesRight, ZeroVoltage
  <2>5. p.valid <=> \A i \in Frames : p.payload[i] = FrameId(p.batch_id, i)
    BY <2>1, <2>3, <2>4
  <2>6. p.valid => p.noise_packet = FrameId(p.batch_id, 0)
    <3>1. 0 \in Frames
      BY DEF Frames
    <3> QED
      BY <1>5, <2>1, <2>3, <3>1 DEF TagsRight
  <2>7. Good(p)
    BY <2>1, <2>5, <2>6 DEF Good
  <2>8. \A i \in Frames : /\ p.pkt_id[i] < BatchStart + BatchSize
                          /\ p.payload[i] < BatchStart + BatchSize
    BY <1>5, <2>1, BatchFrames DEF SamplesRight, ZeroVoltage, BatchStart
  <2> QED
    BY <1>2, <1>6, <2>7, <2>8 DEF Finalized
<1> QED
  BY <1>7, <1>8, <1>9, <1>10 DEF ContentInv

\* Publication: the batch left behind only holds packets before the next one.
LEMMA PublishContent ==
  ASSUME ContentInv, RingInv', ValidMeansComplete', Publish, pc \in {"enqueue", "wait"}
  PROVE  ContentInv'
<1>1. /\ pc' = "prepare" /\ prebatchid' = prebatchid + 1
      /\ UNCHANGED <<pool, pkt, expected_pkt_id, have_header_template>>
  BY DEF Publish
<1>2. prebatchid < BatchId(pkt) /\ expected_pkt_id = pkt + 1
  BY DEF ContentInv, LoopPosition
<1>3. Seen' = pkt /\ BatchStart' = BatchStart + BatchSize
  BY <1>1, ContentTypes, FrameOffset DEF Seen, BatchStart
<1>4. have_header_template
  BY <1>2, ContentTypes DEF ContentInv, Untouched
<1>5. BatchId(pkt) \in Nat /\ BatchStart + BatchSize <= pkt
  <2>1. /\ BatchId(pkt) \in Nat /\ FrameIdx(pkt) \in Nat
        /\ pkt = FrameId(BatchId(pkt), 0) + FrameIdx(pkt) /\ FrameId(BatchId(pkt), 0) \in Nat
    BY ContentTypes, PacketPlace, FrameOffset DEF Frames
  <2>2. FrameId(prebatchid, 0) + BatchSize <= FrameId(BatchId(pkt), 0)
    BY <1>2, <2>1, ContentTypes, FrameMonotone
  <2> QED
    BY <2>1, <2>2, ContentTypes DEF BatchStart
<1>6. LoopPosition'
  BY <1>1, <1>2, <1>3, <1>5, ContentTypes DEF LoopPosition
<1>7. OthersOlder'
  <2>1. \A x \in PoolIdx, i \in Frames : pool[x].pkt_id[i] \in Nat /\ pool[x].payload[i] \in Int
    BY ContentTypes, BatchFrames
  <2>2. \A x \in PoolIdx : OnlyOlder(pool[x])'
    BY <1>1, <1>3, <2>1, ContentTypes
    DEF ContentInv, OthersOlder, OnlyOlder, Finalized
  <2> QED
    BY <1>1, <2>2 DEF OthersOlder
<1>8. Untouched' /\ TemplateLater' /\ Current' /\ Finalized'
  BY <1>1, <1>2, <1>4, ContentTypes DEF Untouched, TemplateLater, Current, Finalized
<1> QED
  BY <1>6, <1>7, <1>8 DEF ContentInv

\* prepare_batch: all frames of the new batch are missing, whatever the
\* storage held before.
LEMMA PrepareContent ==
  ASSUME ContentInv, RingInv', ValidMeansComplete', PrepareNext
  PROVE  ContentInv'
<1> DEFINE b == pool[pool_idx]
           p == PreparedBatch(b, prebatchid)
<1>1. /\ pc = "prepare" /\ pc' = "advance"
      /\ pool' = [pool EXCEPT ![pool_idx] = p]
      /\ UNCHANGED <<pkt, expected_pkt_id, prebatchid, pool_idx, have_header_template>>
  BY DEF PrepareNext, producerVars
<1>2. Seen = pkt /\ Seen' = pkt /\ BatchStart' = BatchStart
  BY <1>1 DEF Seen, BatchStart
<1>3. /\ expected_pkt_id = pkt + 1 /\ prebatchid <= BatchId(pkt) /\ prebatchid > 0
      /\ BatchStart <= pkt /\ expected_pkt_id # 0
  BY <1>1, <1>2, ContentTypes DEF ContentInv, LoopPosition
<1>4. have_header_template
  BY <1>1, <1>3 DEF ContentInv, Untouched
<1>5. pool'[pool_idx'] = p /\ \A x \in PoolIdx : x # pool_idx => pool'[x] = pool[x]
  BY <1>1, ContentTypes
<1>6. BatchStart > 0
  BY <1>3, FrameMonotone, FrameOffset, ContentTypes DEF BatchStart
<1>7. /\ p \in BatchType /\ p.batch_id = prebatchid /\ p.received_count = 0
      /\ p.header_valid = TRUE /\ p.hdrs[0].packet_id = BatchStart
      /\ \A i \in Frames : p.pkt_id[i] = b.pkt_id[i] /\ p.payload[i] = b.payload[i]
  <2>1. p \in BatchType
    BY ContentTypes, PreparedType DEF ContentInv, RingInv
  <2>2. have_header_template = TRUE
    BY <1>4 DEF ContentInv, RingInv, TypeOK
  <2>3. b \in BatchType /\ prebatchid \in Nat
    BY ContentTypes
  <2> HIDE DEF b
  <2>4. /\ p.batch_id = prebatchid /\ p.received_count = 0
        /\ p.header_valid = TRUE /\ p.hdrs[0].packet_id = BatchStart
    BY <2>2, <2>3, PreparedFields DEF BatchStart
  <2>5. p.pkt_id = b.pkt_id /\ p.payload = b.payload
    BY <2>2, <2>3, PreparedFields
  <2> QED
    BY <2>1, <2>4, <2>5
<1>8. OnlyOlder(b)
  BY <1>1, ContentTypes DEF ContentInv, OthersOlder
<1> HIDE DEF b, p
<1>9. \A i \in Frames : Missing(p, i) /\ p.payload[i] < BatchStart
                       /\ (p.pkt_id[i] = 0 \/ p.pkt_id[i] < BatchStart)
  BY <1>6, <1>7, <1>8, ContentTypes DEF OnlyOlder, Missing
<1>10. SamplesRight(p, pkt)
  BY <1>3, <1>6, <1>7, <1>9, BatchFrames, ContentTypes DEF SamplesRight, BatchStart
<1>11. CountRight(p, pkt)
  <2>1. Reach(BatchStart, pkt) \in Nat /\ 0 \in Frames
    BY <1>3, ContentTypes DEF Reach, Frames
  <2>2. FrameId(p.batch_id, 0) = BatchStart
    BY <1>7 DEF BatchStart
  <2>3. \A i \in Frames : i \in Nat
    BY DEF Frames
  <2> QED
    BY <1>7, <1>9, <2>1, <2>2, <2>3 DEF CountRight
<1>12. TagsRight(p)
  <2>1. 0 \in Frames
    BY DEF Frames
  <2> QED
    BY <1>7, <1>9, <2>1 DEF TagsRight, BatchStart
<1>13. Current'
  BY <1>2, <1>5, <1>10, <1>11, <1>12 DEF Current
<1>14. LoopPosition'
  BY <1>1, <1>2, <1>3 DEF LoopPosition
<1>15. OthersOlder'
  BY <1>1, <1>2, <1>5 DEF ContentInv, OthersOlder, OnlyOlder
<1>16. Untouched' /\ TemplateLater' /\ Finalized'
  BY <1>1, <1>3, <1>4 DEF Untouched, TemplateLater, Finalized
<1> QED
  BY <1>13, <1>14, <1>15, <1>16 DEF ContentInv

\* Storing the packet in its frame of the batch being filled.
LEMMA StoreContent ==
  ASSUME ContentInv, RingInv', ValidMeansComplete', Store
  PROVE  ContentInv'
<1> DEFINE b == pool[pool_idx]
           p == StoredBatch(b, pkt)
           i == FrameIdx(pkt)
<1>1. /\ pc = "advance" /\ pc' = "poll"
      /\ pool' = [pool EXCEPT ![pool_idx] = p]
      /\ UNCHANGED <<pkt, expected_pkt_id, prebatchid, pool_idx>>
      /\ have_header_template' = (b.received_count = 0 \/ have_header_template)
  BY DEF Store
<1>2. expected_pkt_id = pkt + 1 /\ prebatchid = BatchId(pkt) /\ expected_pkt_id # 0
  <2>1. prebatchid <= BatchId(pkt) /\ prebatchid >= BatchId(pkt) /\ expected_pkt_id = pkt + 1
    BY <1>1 DEF ContentInv, LoopPosition, Store
  <2>2. BatchId(pkt) \in Nat
    BY ContentTypes, PacketPlace
  <2> QED
    BY <2>1, <2>2, ContentTypes
<1>3. Seen = pkt /\ Seen' = pkt + 1 /\ BatchStart' = BatchStart
  BY <1>1, <1>2 DEF Seen, BatchStart
<1>4. i \in Frames /\ i \in 0 .. BatchSize - 1 /\ pkt = BatchStart + i
  BY <1>2, ContentTypes, PacketPlace DEF BatchStart, Frames
<1>5. pool'[pool_idx'] = p /\ \A x \in PoolIdx : x # pool_idx => pool'[x] = pool[x]
  BY <1>1, ContentTypes
<1>6. b \in BatchType /\ p \in BatchType /\ b.batch_id = prebatchid
  BY <1>1, <1>2, ContentTypes, StoredType DEF ContentInv, RingInv, CurrentNumbered
<1>7. have_header_template' = TRUE
  BY <1>1, <1>2 DEF ContentInv, RingInv, TypeOK, Untouched
<1>8. have_header_template => CountRight(b, pkt) /\ SamplesRight(b, pkt) /\ TagsRight(b)
  BY <1>1, <1>3 DEF ContentInv, Current
<1>9. ~have_header_template => /\ b.received_count = 0 /\ i = 0
                               /\ \A j \in Frames : b.pkt_id[j] = 0 /\ b.payload[j] = NoPacket
  BY <1>2, <1>4, ContentTypes DEF ContentInv, Untouched
<1>10. /\ p.batch_id = prebatchid
       /\ p.received_count = b.received_count + 1
       /\ p.header_valid = (b.received_count = 0 \/ b.header_valid)
       /\ p.noise_packet = IF b.received_count = 0 \/ i = 0 THEN pkt ELSE b.noise_packet
       /\ \A j \in Frames : p.pkt_id[j] = IF j = i THEN pkt ELSE b.pkt_id[j]
       /\ \A j \in Frames : p.payload[j] = IF j = i THEN pkt ELSE b.payload[j]
  BY <1>4, <1>6, StoredFields, ContentTypes
<1>11. p.hdrs[0].packet_id = BatchStart
  <2>1. b.received_count = 0 \/ b.hdrs[0].packet_id = FrameId(BatchId(pkt), 0)
    BY <1>2, <1>6, <1>8, <1>9 DEF TagsRight
  <2> QED
    BY <1>2, <1>6, <2>1, StoredHeader, ContentTypes DEF BatchStart
<1> HIDE DEF b, p, i
<1>12. /\ \A j \in Frames : /\ j \in Nat /\ j < BatchSize
                            /\ b.pkt_id[j] \in Nat /\ b.payload[j] \in Int
                            /\ FrameId(prebatchid, j) = BatchStart + j
       /\ BatchStart \in Nat /\ b.received_count \in Nat /\ 0 \in Frames
  BY <1>6, BatchFrames, ContentTypes DEF Frames
<1>13. /\ \A j \in Frames : j # i => (Missing(p, j) <=> Missing(b, j))
       /\ ~Missing(p, i)
  BY <1>4, <1>6, <1>10, <1>12 DEF Missing
<1>14. SamplesRight(p, pkt + 1)
  <2>1. CASE have_header_template
    BY <1>4, <1>6, <1>8, <1>10, <1>12, <1>13, <2>1 DEF SamplesRight, BatchStart
  <2>2. CASE ~have_header_template
    <3>1. \A j \in Frames : j # i => /\ p.pkt_id[j] = 0 /\ p.payload[j] = -1 /\ j > 0
                                     /\ Missing(p, j)
      BY <1>9, <1>10, <1>12, <2>2 DEF NoPacket, Missing
    <3>2. p.pkt_id[i] = pkt /\ p.payload[i] = pkt
      BY <1>4, <1>10
    <3> QED
      BY <1>4, <1>10, <1>12, <1>13, <3>1, <3>2 DEF SamplesRight, BatchStart
  <2> QED
    BY <2>1, <2>2
<1>15. CountRight(p, pkt + 1)
  <2>1. FrameId(p.batch_id, 0) = BatchStart /\ FrameId(b.batch_id, 0) = BatchStart
    BY <1>6, <1>10 DEF BatchStart
  <2>2. Reach(BatchStart, pkt) = i /\ Reach(BatchStart, pkt + 1) = i + 1
    BY <1>4, <1>12 DEF Reach
  <2>3. b.received_count <= i /\ (b.received_count = i <=> \A j \in Frames : j < i => ~Missing(b, j))
    BY <1>8, <1>9, <1>12, <2>1, <2>2 DEF CountRight
  <2>4. (\A j \in Frames : j < i + 1 => ~Missing(p, j))
          <=> (\A j \in Frames : j < i => ~Missing(b, j))
    BY <1>4, <1>12, <1>13
  <2> QED
    BY <1>4, <1>10, <1>12, <2>1, <2>2, <2>3, <2>4 DEF CountRight
<1>16. TagsRight(p)
  <2>1. p.header_valid = TRUE
    BY <1>8, <1>9, <1>10 DEF TagsRight
  <2>2. ~Missing(p, 0) => p.noise_packet = BatchStart
    <3>1. CASE i = 0
      BY <1>4, <1>10, <1>12, <3>1
    <3>2. CASE i # 0
      <4>1. have_header_template /\ (b.received_count = 0 => Missing(b, 0))
        BY <1>8, <1>9, <1>12, <3>2 DEF CountRight
      <4> QED
        BY <1>6, <1>8, <1>10, <1>12, <1>13, <3>2, <4>1 DEF TagsRight, BatchStart
    <3> QED
      BY <3>1, <3>2
  <2> QED
    BY <1>10, <1>11, <2>1, <2>2 DEF TagsRight, BatchStart
<1>17. Current'
  BY <1>3, <1>5, <1>14, <1>15, <1>16 DEF Current
<1>18. LoopPosition'
  BY <1>1, <1>3, <1>4, <1>12 DEF LoopPosition
<1>19. OthersOlder'
  BY <1>1, <1>3, <1>5 DEF ContentInv, OthersOlder, OnlyOlder
<1>20. Untouched' /\ TemplateLater' /\ Finalized'
  BY <1>1, <1>2, <1>7 DEF Untouched, TemplateLater, Finalized
<1> QED
  BY <1>17, <1>18, <1>19, <1>20 DEF ContentInv

\* Steps that leave the worker's batch and counters alone: a discarded
\* packet, a full queue, the consumer, a stuttering step.
LEMMA OtherContent ==
  ASSUME ContentInv, RingInv', ValidMeansComplete',
         UNCHANGED <<pool, pkt, producerVars>>,
         \/ pc' = pc
         \/ pc = "enqueue" /\ pc' = "wait"
         \/ pc = "poll" /\ pc' = "exited"
  PROVE  ContentInv'
<1>1. UNCHANGED <<pool, pkt, expected_pkt_id, prebatchid, pool_idx, have_header_template>>
  BY DEF producerVars
<1>2. Seen' = Seen /\ BatchStart' = BatchStart
  BY <1>1 DEF Seen, BatchStart
<1>3. LoopPosition'
  BY <1>1, <1>2 DEF ContentInv, LoopPosition
<1>4. OthersOlder'
  BY <1>1, <1>2 DEF ContentInv, OthersOlder, OnlyOlder
<1>5. Untouched' /\ TemplateLater'
  BY <1>1, <1>2 DEF ContentInv, Untouched, TemplateLater
<1>6. Current'
  BY <1>1, <1>2 DEF ContentInv, Current
<1>7. Finalized'
  BY <1>1, <1>2 DEF ContentInv, Finalized
<1> QED
  BY <1>3, <1>4, <1>5, <1>6, <1>7 DEF ContentInv

\* Every step of recv2mem and of the consumer keeps what batches contain.
LEMMA NextContents == ContentInv /\ [Next]_vars => ContentInv'
<1> SUFFICES ASSUME ContentInv, [Next]_vars PROVE ContentInv'
  OBVIOUS
<1>0. RingInv' /\ ValidMeansComplete'
  BY NextRing, ValidStep DEF ContentInv
<1>1. ASSUME NEW r \in PacketIds, Receive(r) PROVE ContentInv'
  <2>1. CASE FirstPacket(r)
    BY <1>0, <1>1, <2>1, FirstContent
  <2>2. CASE NextPacket(r)
    BY <1>0, <1>1, <2>2, NextContent
  <2>3. CASE DiscardPacket(r)
    BY <1>0, <2>3, OtherContent DEF DiscardPacket
  <2> QED
    BY <1>1, <2>1, <2>2, <2>3 DEF Receive
<1>2. ASSUME NEW r \in PacketIds, MonitorFails(r) PROVE ContentInv'
  BY <1>0, <1>2, OtherContent DEF MonitorFails
<1>3. CASE Finalize
  BY <1>0, <1>3, FinalizeContent
<1>4. CASE TryEnqueue
  BY <1>0, <1>4, PublishContent, OtherContent DEF TryEnqueue
<1>5. CASE WaitEnqueue
  BY <1>0, <1>5, PublishContent DEF WaitEnqueue
<1>6. CASE PrepareNext
  BY <1>0, <1>6, PrepareContent
<1>7. CASE Store
  BY <1>0, <1>7, StoreContent
<1>8. CASE Dequeue
  BY <1>0, <1>8, OtherContent DEF Dequeue
<1>9. CASE UNCHANGED vars
  BY <1>0, <1>9, OtherContent DEF vars
<1> QED
  BY <1>1, <1>2, <1>3, <1>4, <1>5, <1>6, <1>7, <1>8, <1>9 DEF Next, Worker

\* A pool just allocated holds no samples.
LEMMA InitContents == Init => ContentInv
<1> SUFFICES ASSUME Init PROVE ContentInv
  OBVIOUS
<1>1. RingInv
  BY InitRing
<1>2. \A x \in PoolIdx, i \in Frames : pool[x].pkt_id[i] = 0 /\ pool[x].payload[i] = NoPacket
  BY DEF Init, NewBatch
<1>3. BatchStart \in Nat
  BY FrameOffset DEF Init, BatchStart
<1>4. OthersOlder /\ Untouched
  BY <1>2, <1>3 DEF Init, OthersOlder, OnlyOlder, Untouched, NoPacket
<1>5. LoopPosition /\ TemplateLater /\ Current /\ Finalized
  BY DEF Init, LoopPosition, TemplateLater, Current, Finalized
<1>6. ValidMeansComplete
  BY DEF Init, ValidMeansComplete, Published
<1> QED
  BY <1>1, <1>4, <1>5, <1>6 DEF ContentInv

\* A batch that reaches the consumer as valid holds exactly its own packets,
\* one per frame, and one that does not misses a packet, whatever the network
\* loses, repeats or reorders and however often the storage was used before.
THEOREM Completeness == Spec => []ValidMeansComplete
<1>1. ContentInv => ValidMeansComplete
  BY DEF ContentInv
<1> QED
  BY <1>1, InitContents, NextContents, PTL DEF Spec

(***************************************************************************)
(* The frames of a baseband batch.                                         *)
(***************************************************************************)
\* The header of a frame that was received is that of its packet.
HeadersRight(b) ==
  \A i \in Frames : ~Missing(b, i) => /\ b.hdrs[i].packet_id = FrameId(b.batch_id, i)
                                     /\ b.hdrs[i].invalid = FALSE

\* What FixedCadence says of one batch.
Cadenced(b) ==
  \A i \in Frames :
    /\ b.hdrs[i].packet_id = FrameId(b.batch_id, i)
    /\ b.payload[i] = IF b.hdrs[i].invalid THEN ZeroVoltage ELSE FrameId(b.batch_id, i)

HeadersKept == baseband_mode /\ have_header_template /\ pc \in {"poll", "exited", "advance"} =>
                 HeadersRight(pool[pool_idx])

\* A finalized batch: it is called valid when no frame is missing, and a
\* baseband batch has all of its frames.
Sealed == pc \in {"enqueue", "wait"} =>
            /\ pool[pool_idx].valid <=> \A i \in Frames : ~Missing(pool[pool_idx], i)
            /\ baseband_mode => Cadenced(pool[pool_idx])

CadenceInv == ContentInv /\ HeadersKept /\ Sealed /\ FixedCadence

\* The headers of a baseband batch after a packet is stored.
LEMMA StoredHeaders ==
  ASSUME NEW b \in BatchType, NEW r \in Nat, baseband_mode
  PROVE  \A j \in Frames :
           StoredBatch(b, r).hdrs[j] =
             IF b.received_count = 0 /\ j = 0 THEN Header(FrameId(BatchId(r), 0), FALSE)
             ELSE IF j = FrameIdx(r) THEN Header(r, FALSE) ELSE b.hdrs[j]
<1>1. FrameIdx(r) \in Frames /\ 0 \in Frames
  BY PacketPlace DEF Frames
<1> DEFINE own == [b.hdrs EXCEPT ![FrameIdx(r)] = Header(r, FALSE)]
<1>2. /\ DOMAIN own = Frames
      /\ \A j \in Frames : own[j] = IF j = FrameIdx(r) THEN Header(r, FALSE) ELSE b.hdrs[j]
  BY <1>1, BatchFields
<1>3. StoredBatch(b, r).hdrs = IF b.received_count = 0
                    THEN [own EXCEPT ![0] = Header(FrameId(BatchId(r), 0), FALSE)]
                    ELSE own
  BY DEF StoredBatch, BatchType
<1> HIDE DEF own
<1> QED
  BY <1>1, <1>2, <1>3

\* Storing a packet also keeps its header.
LEMMA StoreCadence ==
  ASSUME CadenceInv, Store, baseband_mode
  PROVE  HeadersRight(pool'[pool_idx'])
<1> DEFINE b == pool[pool_idx]
           p == StoredBatch(b, pkt)
           i == FrameIdx(pkt)
<1>1. /\ pc = "advance" /\ pool' = [pool EXCEPT ![pool_idx] = p] /\ pool_idx' = pool_idx
      /\ prebatchid >= BatchId(pkt)
  BY DEF Store
<1>0. ContentInv /\ HeadersKept
  BY DEF CadenceInv
<1>2. prebatchid = BatchId(pkt) /\ expected_pkt_id # 0
  <2>1. prebatchid <= BatchId(pkt) /\ expected_pkt_id = pkt + 1
    BY <1>0, <1>1 DEF ContentInv, LoopPosition
  <2>2. BatchId(pkt) \in Nat /\ pkt \in Nat /\ prebatchid \in Nat
    BY <1>0, ContentTypes, PacketPlace
  <2> QED
    BY <1>1, <2>1, <2>2
<1>3. b \in BatchType /\ b.batch_id = prebatchid /\ pkt \in Nat /\ p.batch_id = prebatchid
  BY <1>0, <1>1, <1>2, ContentTypes, UpdatedNumber DEF ContentInv, RingInv, CurrentNumbered
<1>4. /\ i \in Frames /\ pkt = FrameId(prebatchid, i)
      /\ \A j \in Frames : FrameId(prebatchid, j) = FrameId(prebatchid, 0) + j
      /\ FrameId(prebatchid, 0) \in Nat
  BY <1>0, <1>2, <1>3, PacketPlace, ContentTypes DEF BatchStart
<1>5. \A j \in Frames : p.hdrs[j] =
         IF b.received_count = 0 /\ j = 0 THEN Header(FrameId(prebatchid, 0), FALSE)
         ELSE IF j = i THEN Header(pkt, FALSE) ELSE b.hdrs[j]
  <2>1. b \in BatchType /\ pkt \in Nat
    BY <1>3
  <2> HIDE DEF b
  <2>2. \A j \in Frames : StoredBatch(b, pkt).hdrs[j] =
           IF b.received_count = 0 /\ j = 0 THEN Header(FrameId(BatchId(pkt), 0), FALSE)
           ELSE IF j = FrameIdx(pkt) THEN Header(pkt, FALSE) ELSE b.hdrs[j]
    BY <2>1, StoredHeaders
  <2> QED
    BY <1>2, <2>2
<1>6. \A j \in Frames : p.pkt_id[j] = IF j = i THEN pkt ELSE b.pkt_id[j]
  BY <1>3, <1>4, StoredFields
<1>7. have_header_template => HeadersRight(b)
  BY <1>0, <1>1 DEF HeadersKept
<1>8. ~have_header_template => \A j \in Frames : j # i => Missing(p, j)
  <2> SUFFICES ASSUME ~have_header_template, NEW j \in Frames, j # i PROVE Missing(p, j)
    OBVIOUS
  <2>1. pkt = FrameId(prebatchid, 0) /\ b.pkt_id[j] = 0
    BY <1>0, <1>2, ContentTypes DEF ContentInv, Untouched, BatchStart
  <2>2. FrameId(prebatchid, j) > 0 /\ p.pkt_id[j] = 0
    BY <1>4, <1>6, <2>1 DEF Frames
  <2> QED
    BY <1>3, <2>2 DEF Missing
<1>9. p = pool'[pool_idx']
  BY <1>0, <1>1, ContentTypes
<1> HIDE DEF b, p, i
<1>10. ASSUME NEW j \in Frames, ~Missing(p, j)
       PROVE  p.hdrs[j].packet_id = FrameId(prebatchid, j) /\ p.hdrs[j].invalid = FALSE
  <2>1. CASE j = i
    BY <1>4, <1>5, <2>1 DEF Header
  <2>2. CASE j # i
    <3>1. have_header_template /\ ~Missing(b, j)
      BY <1>3, <1>6, <1>8, <1>10, <2>2 DEF Missing
    <3>2. b.hdrs[j].packet_id = FrameId(prebatchid, j) /\ b.hdrs[j].invalid = FALSE
      BY <1>3, <1>7, <3>1 DEF HeadersRight
    <3> QED
      BY <1>5, <2>2, <3>2 DEF Header
  <2> QED
    BY <2>1, <2>2
<1> QED
  BY <1>3, <1>9, <1>10 DEF HeadersRight

\* finalize_batch completes a baseband batch: a frame that did not come
\* gets its time, zero voltage and the invalid flag.
LEMMA FinalizeCadence ==
  ASSUME CadenceInv, Finalize
  PROVE  /\ pool'[pool_idx'].valid <=> \A i \in Frames : ~Missing(pool'[pool_idx'], i)
         /\ baseband_mode => Cadenced(pool'[pool_idx'])
<1> DEFINE b == pool[pool_idx]
           p == FinalizedBatch(b)
<1>1. /\ pc = "advance" /\ prebatchid < BatchId(pkt)
      /\ pool' = [pool EXCEPT ![pool_idx] = p] /\ pool_idx' = pool_idx
  BY DEF Finalize, producerVars
<1>0. ContentInv /\ HeadersKept
  BY DEF CadenceInv
<1>2. Seen = pkt /\ expected_pkt_id = pkt + 1 /\ pkt \in Nat /\ BatchStart + BatchSize <= pkt
  <2>1. /\ BatchId(pkt) \in Nat /\ FrameIdx(pkt) \in Nat
        /\ pkt = FrameId(BatchId(pkt), 0) + FrameIdx(pkt) /\ FrameId(BatchId(pkt), 0) \in Nat
    BY <1>0, ContentTypes, PacketPlace, FrameOffset DEF Frames
  <2>2. FrameId(prebatchid, 0) + BatchSize <= FrameId(BatchId(pkt), 0)
    BY <1>0, <1>1, <2>1, ContentTypes, FrameMonotone
  <2> QED
    BY <1>0, <1>1, <2>1, <2>2, ContentTypes DEF BatchStart, ContentInv, LoopPosition, Seen
<1>3. have_header_template
  BY <1>0, <1>2, ContentTypes DEF ContentInv, Untouched
<1>4. /\ b \in BatchType /\ b.batch_id = prebatchid
      /\ CountRight(b, pkt) /\ SamplesRight(b, pkt) /\ TagsRight(b)
  BY <1>0, <1>1, <1>2, <1>3, ContentTypes
  DEF ContentInv, Current, RingInv, CurrentNumbered
<1>5. b.received_count = BatchSize <=> \A i \in Frames : ~Missing(b, i)
  <2>1. Reach(FrameId(b.batch_id, 0), pkt) = BatchSize
    BY <1>2, <1>4, BatchFrames DEF Reach, BatchStart
  <2> QED
    BY <1>4, <2>1, BatchFrames DEF CountRight
<1>6. /\ p.batch_id = b.batch_id /\ p.pkt_id = b.pkt_id
      /\ p.valid = (b.received_count = BatchSize)
  BY <1>4, FinalizedFields DEF TagsRight
<1>7. \A i \in Frames : Missing(p, i) <=> Missing(b, i)
  BY <1>6 DEF Missing
<1>8. ASSUME baseband_mode PROVE Cadenced(p)
  <2>1. HeadersRight(b)
    BY <1>0, <1>1, <1>3, <1>8 DEF HeadersKept
  <2>2. CASE Complete(b)
    <3>1. p = [b EXCEPT !.valid = Complete(b)]
      BY <2>2 DEF FinalizedBatch
    <3>2. p.hdrs = b.hdrs /\ p.payload = b.payload
      BY <1>4, <3>1 DEF BatchType
    <3>3. \A i \in Frames : ~Missing(b, i)
      BY <1>5, <2>2 DEF Complete
    <3> HIDE DEF p, b
    <3> QED
      BY <1>4, <1>6, <2>1, <3>2, <3>3 DEF Cadenced, HeadersRight, SamplesRight
  <2>3. CASE ~Complete(b)
    <3> DEFINE pay == [i \in Frames |-> IF Missing(b, i) THEN ZeroVoltage ELSE b.payload[i]]
               hdr == [i \in Frames |-> IF Missing(b, i)
                                          THEN Header(FrameId(b.batch_id, i), TRUE)
                                          ELSE b.hdrs[i]]
    <3>1. p = [b EXCEPT !.valid = FALSE, !.payload = pay, !.hdrs = hdr]
      BY <1>4, <1>8, <2>3 DEF FinalizedBatch, TagsRight
    <3>2. \A i \in Frames : /\ hdr[i] = IF Missing(b, i) THEN Header(FrameId(b.batch_id, i), TRUE)
                                                        ELSE b.hdrs[i]
                            /\ pay[i] = IF Missing(b, i) THEN ZeroVoltage ELSE b.payload[i]
      OBVIOUS
    <3> HIDE DEF pay, hdr
    <3>3. p.hdrs = hdr /\ p.payload = pay
      BY <1>4, <3>1 DEF BatchType
    <3> HIDE DEF p, b
    <3>4. ASSUME NEW i \in Frames, Missing(b, i)
          PROVE  /\ p.hdrs[i].packet_id = FrameId(b.batch_id, i)
                 /\ p.hdrs[i].invalid = TRUE /\ p.payload[i] = ZeroVoltage
      <4>1. p.hdrs[i] = Header(FrameId(b.batch_id, i), TRUE) /\ p.payload[i] = ZeroVoltage
        BY <3>2, <3>3, <3>4
      <4>2. /\ Header(FrameId(b.batch_id, i), TRUE).packet_id = FrameId(b.batch_id, i)
            /\ Header(FrameId(b.batch_id, i), TRUE).invalid = TRUE
        BY DEF Header
      <4> QED
        BY <4>1, <4>2
    <3>5. ASSUME NEW i \in Frames, ~Missing(b, i)
          PROVE  /\ p.hdrs[i].packet_id = FrameId(b.batch_id, i)
                 /\ p.hdrs[i].invalid = FALSE /\ p.payload[i] = FrameId(b.batch_id, i)
      BY <1>4, <2>1, <3>2, <3>3, <3>5 DEF HeadersRight, SamplesRight
    <3> QED
      BY <1>6, <3>4, <3>5 DEF Cadenced
  <2> QED
    BY <2>2, <2>3
<1>9. p = pool'[pool_idx']
  BY <1>0, <1>1, ContentTypes
<1> HIDE DEF p, b
<1> QED
  BY <1>5, <1>6, <1>7, <1>8, <1>9

\* The mode is that of the configuration.
LEMMA ModeFixed ==
  ASSUME [Next]_vars
  PROVE  baseband_mode' = baseband_mode
<1>1. ASSUME NEW r \in PacketIds, Receive(r) \/ MonitorFails(r)
      PROVE  baseband_mode' = baseband_mode
  BY <1>1 DEF Receive, MonitorFails
<1>2. CASE Worker
  BY <1>2 DEF Worker, Finalize, TryEnqueue, WaitEnqueue, Publish, PrepareNext, Store
<1>3. CASE Dequeue \/ UNCHANGED vars
  BY <1>3 DEF Dequeue, vars
<1> QED
  BY <1>1, <1>2, <1>3 DEF Next

\* A batch given away stays as it was finalized.
LEMMA CadenceStays ==
  ASSUME CadenceInv, [Next]_vars
  PROVE  FixedCadence'
<1>1. FixedCadence <=> (baseband_mode => \A x \in Published : Cadenced(pool[x]))
  BY DEF FixedCadence, Cadenced
<1>2. FixedCadence' <=> (baseband_mode => \A x \in Published' : Cadenced(pool'[x]))
  BY ModeFixed DEF FixedCadence, Cadenced
<1>3. baseband_mode => \A x \in Published' : Cadenced(pool[x]) /\ pool'[x] = pool[x]
  BY <1>1, PublishedStep DEF CadenceInv, ContentInv, Sealed
<1> QED
  BY <1>2, <1>3

\* Every step of recv2mem and of the consumer keeps the cadence.
LEMMA NextCadence == CadenceInv /\ [Next]_vars => CadenceInv'
<1> SUFFICES ASSUME CadenceInv, [Next]_vars PROVE CadenceInv'
  OBVIOUS
<1>0. /\ ContentInv /\ HeadersKept /\ Sealed /\ ContentInv' /\ FixedCadence'
      /\ baseband_mode' = baseband_mode
  BY CadenceStays, NextContents, ModeFixed DEF CadenceInv
<1> SUFFICES HeadersKept' /\ Sealed'
  BY <1>0 DEF CadenceInv
<1>1. ASSUME UNCHANGED <<pool, pool_idx, have_header_template>>,
             \/ pc' = pc
             \/ pc = "enqueue" /\ pc' = "wait"
             \/ pc = "poll" /\ pc' \in {"exited", "advance"}
      PROVE  HeadersKept' /\ Sealed'
  BY <1>0, <1>1 DEF HeadersKept, Sealed
<1>2. ASSUME NEW r \in PacketIds, Receive(r) PROVE HeadersKept' /\ Sealed'
  <2>1. CASE FirstPacket(r)
    <3>1. ~have_header_template' /\ pc' = "advance"
      BY <1>0, <2>1 DEF FirstPacket, ContentInv, TemplateLater
    <3> QED
      BY <3>1 DEF HeadersKept, Sealed
  <2>2. CASE NextPacket(r) \/ DiscardPacket(r)
    BY <1>1, <1>2, <2>2 DEF NextPacket, DiscardPacket, Receive, producerVars
  <2> QED
    BY <1>2, <2>1, <2>2 DEF Receive
<1>3. ASSUME NEW r \in PacketIds, MonitorFails(r) PROVE HeadersKept' /\ Sealed'
  BY <1>1, <1>3 DEF MonitorFails, producerVars
<1>4. CASE Finalize
  <2>1. pc' = "enqueue"
    BY <1>4 DEF Finalize
  <2> QED
    BY <1>0, <1>4, <2>1, FinalizeCadence DEF HeadersKept, Sealed
<1>5. ASSUME Publish PROVE HeadersKept' /\ Sealed'
  BY <1>5 DEF Publish, HeadersKept, Sealed
<1>6. CASE TryEnqueue
  BY <1>1, <1>5, <1>6 DEF TryEnqueue, producerVars
<1>7. CASE WaitEnqueue
  BY <1>5, <1>7 DEF WaitEnqueue
<1>8. CASE PrepareNext
  <2>1. pc' = "advance" /\ pool'[pool_idx'].received_count = 0
    BY <1>0, <1>8, ContentTypes, PreparedKeeps DEF PrepareNext, producerVars
  <2>2. have_header_template' => \A i \in Frames : Missing(pool'[pool_idx'], i)
    BY <1>0, <2>1 DEF ContentInv, Current, CountRight
  <2> QED
    BY <2>1, <2>2 DEF HeadersKept, HeadersRight, Sealed
<1>9. CASE Store
  <2>1. pc' = "poll"
    BY <1>9 DEF Store
  <2> QED
    BY <1>0, <1>9, <2>1, StoreCadence DEF HeadersKept, Sealed
<1>10. CASE Dequeue
  BY <1>1, <1>10 DEF Dequeue, producerVars
<1>11. CASE UNCHANGED vars
  BY <1>1, <1>11 DEF vars, producerVars
<1> QED
  BY <1>2, <1>3, <1>4, <1>6, <1>7, <1>8, <1>9, <1>10, <1>11 DEF Next, Worker

\* Nothing is given away or finalized in a pool just allocated.
LEMMA InitCadence == Init => CadenceInv
<1>1. Init => HeadersKept /\ Sealed /\ FixedCadence
  BY DEF Init, HeadersKept, Sealed, FixedCadence, Published
<1> QED
  BY <1>1, InitContents DEF CadenceInv

\* "Baseband files keep a fixed frame cadence" (finalize_batch): every frame
\* of a batch the consumer sees is dated by its position and holds its own
\* samples, or zero voltage flagged invalid, never an older frame's.
THEOREM Cadence == Spec => []FixedCadence
<1>1. CadenceInv => FixedCadence
  BY DEF CadenceInv
<1> QED
  BY <1>1, InitCadence, NextCadence, PTL DEF Spec

(***************************************************************************)
(* The stream implements BatchStream.                                      *)
(***************************************************************************)
\* What BatchStream may know of a batch.
Views == [id : Nat, got : SUBSET Frames, valid : BOOLEAN]

\* A queue of pool indices, seen as the queue of what the pool holds there.
Mapped(f, q) == [k \in DOMAIN q |-> f[q[k]]]

\* Publishing appends the batch in the pool.
LEMMA MappedAppend ==
  ASSUME NEW f \in [PoolIdx -> Views], NEW q \in Seq(PoolIdx), NEW x \in PoolIdx
  PROVE  Mapped(f, Append(q, x)) = Append(Mapped(f, q), f[x])
<1> DEFINE a == Append(q, x)
           m == Mapped(f, q)
           l == Mapped(f, a)
           r == Append(m, f[x])
<1>1. /\ a \in Seq(PoolIdx) /\ Len(a) = Len(q) + 1 /\ Len(q) \in Nat
      /\ \A k \in 1 .. Len(q) : a[k] = q[k]
      /\ a[Len(q) + 1] = x
  OBVIOUS
<1>2. /\ m \in Seq(Views) /\ Len(m) = Len(q)
      /\ \A k \in 1 .. Len(q) : m[k] = f[q[k]]
  <2>1. m \in Seq(Views) /\ Len(m) = Len(q)
    BY DEF Mapped
  <2>2. \A k \in 1 .. Len(q) : m[k] = f[q[k]]
    BY DEF Mapped
  <2> QED
    BY <2>1, <2>2
<1> HIDE DEF a
<1>3. /\ l \in Seq(Views) /\ Len(l) = Len(a)
      /\ \A k \in 1 .. Len(a) : l[k] = f[a[k]]
  <2>1. l \in Seq(Views) /\ Len(l) = Len(a)
    BY <1>1 DEF Mapped
  <2>2. \A k \in 1 .. Len(a) : l[k] = f[a[k]]
    BY <1>1 DEF Mapped
  <2> QED
    BY <2>1, <2>2
<1> HIDE DEF m, l
<1>4. f[x] \in Views
  OBVIOUS
<1>5. /\ r \in Seq(Views) /\ Len(r) = Len(q) + 1
      /\ \A k \in 1 .. Len(q) : r[k] = m[k]
      /\ r[Len(q) + 1] = f[x]
  BY <1>1, <1>2, <1>4
<1> HIDE DEF r
<1>6. ASSUME NEW k \in 1 .. Len(l) PROVE l[k] = r[k]
  <2>1. k \in 1 .. Len(q) \/ k = Len(q) + 1
    BY <1>1, <1>3
  <2> QED
    BY <1>1, <1>2, <1>3, <1>5, <2>1
<1>7. l = r
  BY <1>1, <1>3, <1>5, <1>6, SeqEqual
<1> QED
  BY <1>7 DEF a, m, l, r

\* Taking the first batch.
LEMMA MappedTail ==
  ASSUME NEW f \in [PoolIdx -> Views], NEW q \in Seq(PoolIdx), q # <<>>
  PROVE  /\ Mapped(f, q) # <<>>
         /\ Head(Mapped(f, q)) = f[Head(q)]
         /\ Mapped(f, Tail(q)) = Tail(Mapped(f, q))
<1> DEFINE a == Tail(q)
           m == Mapped(f, q)
           l == Mapped(f, a)
           r == Tail(m)
<1>1. /\ a \in Seq(PoolIdx) /\ Len(a) = Len(q) - 1 /\ Len(q) \in Nat \ {0}
      /\ \A k \in 1 .. Len(a) : a[k] = q[k + 1]
      /\ Head(q) = q[1]
  BY HeadTailProperties, EmptySeq
<1>2. /\ m \in Seq(Views) /\ Len(m) = Len(q)
      /\ \A k \in 1 .. Len(q) : m[k] = f[q[k]]
  <2>1. m \in Seq(Views) /\ Len(m) = Len(q)
    BY DEF Mapped
  <2>2. \A k \in 1 .. Len(q) : m[k] = f[q[k]]
    BY DEF Mapped
  <2> QED
    BY <2>1, <2>2
<1> HIDE DEF a
<1>3. /\ l \in Seq(Views) /\ Len(l) = Len(a)
      /\ \A k \in 1 .. Len(a) : l[k] = f[a[k]]
  <2>1. l \in Seq(Views) /\ Len(l) = Len(a)
    BY <1>1 DEF Mapped
  <2>2. \A k \in 1 .. Len(a) : l[k] = f[a[k]]
    BY <1>1 DEF Mapped
  <2> QED
    BY <2>1, <2>2
<1> HIDE DEF m, l
<1>4. m # <<>> /\ Head(m) = m[1]
  BY <1>1, <1>2
<1>5. /\ r \in Seq(Views) /\ Len(r) = Len(q) - 1
      /\ \A k \in 1 .. Len(r) : r[k] = m[k + 1]
  BY <1>2, <1>4, HeadTailProperties
<1> HIDE DEF r
<1>6. \A k \in 1 .. Len(l) : l[k] = r[k]
  BY <1>1, <1>2, <1>3, <1>5
<1>7. l = r
  BY <1>1, <1>3, <1>5, <1>6, SeqEqual
<1> QED
  BY <1>1, <1>2, <1>4, <1>7 DEF a, m, l, r

\* A batch in the pool as BatchStream sees it.
View == [x \in PoolIdx |-> AbstractBatch(x)]

\* The queue and the consumer's batch as BatchStream sees them.
QueueView == [k \in DOMAIN queue |-> AbstractBatch(queue[k])]
TakenView == IF held = NoBatch THEN <<>> ELSE <<AbstractBatch(held)>>

\* The view of the queue is the queue of the views.
LEMMA QueueViewed ==
  ASSUME TypeOK
  PROVE  /\ View \in [PoolIdx -> Views]
         /\ QueueView = Mapped(View, queue)
         /\ Len(QueueView) = Len(queue)
<1>1. \A x \in PoolIdx : AbstractBatch(x) \in Views
  <2> TAKE x \in PoolIdx
  <2>1. pool[x] \in BatchType
    BY DEF TypeOK
  <2>2. pool[x].batch_id \in Nat /\ pool[x].valid \in BOOLEAN
    BY <2>1, BatchFields DEF BatchType
  <2> QED
    BY <2>2 DEF AbstractBatch, Views
<1>2. View \in [PoolIdx -> Views]
  BY <1>1 DEF View
<1>3. DOMAIN queue = 1 .. Len(queue) /\ Len(queue) \in Nat
      /\ \A k \in DOMAIN queue : queue[k] \in PoolIdx
  BY DEF TypeOK
<1>4. QueueView = Mapped(View, queue)
  BY <1>3 DEF QueueView, Mapped, View
<1>5. Len(QueueView) = Len(queue)
  BY <1>3 DEF QueueView
<1> QED
  BY <1>2, <1>4, <1>5

\* Steps that publish nothing and take nothing.
LEMMA QueueViewStays ==
  ASSUME RingInv, [Next]_vars, UNCHANGED <<queue, held>>
  PROVE  QueueView' = QueueView /\ TakenView' = TakenView
<1>1. /\ \A x \in Published : x \in PoolIdx /\ AbstractBatch(x)' = AbstractBatch(x)
  <2>1. Published' = Published
    BY DEF Published
  <2>2. \A x \in Published : x \in PoolIdx /\ pool'[x] = pool[x]
    BY <2>1, PublishedStep
  <2> QED
    BY <2>2 DEF AbstractBatch, Missing
<1>2. \A k \in DOMAIN queue : queue[k] \in Published
  BY DEF Published
<1>3. held # NoBatch => held \in Published
  BY DEF Published
<1>4. QueueView' = QueueView
  BY <1>1, <1>2 DEF QueueView
<1>5. TakenView' = TakenView
  BY <1>1, <1>3 DEF TakenView
<1> QED
  BY <1>4, <1>5

\* Publication shows the consumer the batch prebatchid, with the frames it
\* received, valid when that is all of them.
LEMMA PublishViewed ==
  ASSUME CadenceInv, Publish, pc \in {"enqueue", "wait"}
  PROVE  Stream!Publish
<1> DEFINE b == pool[pool_idx]
           got == {i \in Frames : ~Missing(b, i)}
<1>0. ContentInv /\ Sealed /\ RingInv /\ TypeOK /\ pool_idx \in PoolIdx
      /\ queue \in Seq(PoolIdx)
  BY DEF CadenceInv, ContentInv, RingInv, TypeOK
<1>1. /\ SlotFree /\ queue' = Append(queue, pool_idx) /\ prebatchid' = prebatchid + 1
      /\ UNCHANGED <<pool, held, expected_pkt_id>>
  BY DEF Publish
<1>2. expected_pkt_id # 0 /\ prebatchid \in Nat
  BY <1>0, ContentTypes DEF ContentInv, LoopPosition
<1>3. b.batch_id = prebatchid /\ b.valid \in BOOLEAN
  <2>1. b \in BatchType
    BY <1>0, ContentTypes
  <2> QED
    BY <1>0, <1>2, <2>1 DEF RingInv, CurrentNumbered, BatchType
<1>4. b.valid = (got = Frames)
  BY <1>0, <1>3 DEF Sealed
<1>5. AbstractBatch(pool_idx) = Stream!Batch(prebatchid, got)
  BY <1>3, <1>4 DEF AbstractBatch, Stream!Batch, Stream!Frames, Frames
<1>6. View' = View /\ View[pool_idx] = AbstractBatch(pool_idx)
  BY <1>0, <1>1 DEF View, AbstractBatch, Missing
<1>7. QueueView' = Append(QueueView, AbstractBatch(pool_idx))
  <2>2. QueueView = Mapped(View, queue) /\ View \in [PoolIdx -> Views]
    BY <1>0, QueueViewed
  <2>3. QueueView' = Mapped(View', queue')
    <3>1. queue' \in Seq(PoolIdx)
      BY <1>0, <1>1
    <3>2. DOMAIN queue' = 1 .. Len(queue') /\ \A k \in DOMAIN queue' : queue'[k] \in PoolIdx
      BY <3>1
    <3> QED
      BY <3>2 DEF QueueView, Mapped, View
  <2>4. Mapped(View', queue') = Mapped(View, Append(queue, pool_idx))
    BY <1>1, <1>6
  <2>5. Mapped(View, Append(queue, pool_idx)) = Append(Mapped(View, queue), View[pool_idx])
    BY <1>0, <2>2, MappedAppend
  <2> QED
    BY <1>6, <2>2, <2>3, <2>4, <2>5
<1>8. Len(QueueView) < QueueCapacity
  BY <1>0, <1>1, QueueViewed DEF SlotFree
<1>9. TakenView' = TakenView
  BY <1>1 DEF TakenView, AbstractBatch, Missing
<1>10. got \in SUBSET Stream!Frames
  BY DEF Stream!Frames, Frames
<1> HIDE DEF b, got
<1> QED
  BY <1>1, <1>2, <1>5, <1>7, <1>8, <1>9, <1>10 DEF Stream!Publish, QueueView, TakenView

\* wait_dequeue hands over the oldest batch.
LEMMA DequeueViewed ==
  ASSUME CadenceInv, Dequeue
  PROVE  Stream!Take
<1>0. TypeOK /\ queue \in Seq(PoolIdx) /\ queue # <<>>
  BY DEF CadenceInv, ContentInv, RingInv, TypeOK, Dequeue, ItemAvailable
<1>1. /\ held' = Head(queue) /\ queue' = Tail(queue)
      /\ UNCHANGED <<pool, prebatchid, expected_pkt_id>>
  BY DEF Dequeue, producerVars
<1>2. Head(queue) \in PoolIdx /\ Tail(queue) \in Seq(PoolIdx) /\ Head(queue) # NoBatch
  <2>1. Head(queue) \in PoolIdx /\ Tail(queue) \in Seq(PoolIdx)
    BY <1>0, HeadTailProperties
  <2> QED
    BY <2>1 DEF PoolIdx, NoBatch
<1>3. View' = View /\ View[Head(queue)] = AbstractBatch(Head(queue))
  BY <1>1, <1>2 DEF View, AbstractBatch, Missing
<1>4. QueueView = Mapped(View, queue) /\ View \in [PoolIdx -> Views]
  BY <1>0, QueueViewed
<1>5. /\ QueueView # <<>> /\ Head(QueueView) = AbstractBatch(Head(queue))
      /\ Mapped(View, Tail(queue)) = Tail(QueueView)
  <2>1. Mapped(View, queue) # <<>> /\ Head(Mapped(View, queue)) = View[Head(queue)]
        /\ Mapped(View, Tail(queue)) = Tail(Mapped(View, queue))
    BY <1>0, <1>4, MappedTail
  <2> QED
    BY <1>3, <1>4, <2>1
<1>6. QueueView' = Mapped(View, Tail(queue))
  BY <1>0, <1>1, <1>2, <1>3 DEF QueueView, Mapped, View
<1>7. TakenView' = <<Head(QueueView)>>
  BY <1>1, <1>2, <1>5 DEF TakenView, AbstractBatch, Missing
<1> QED
  BY <1>1, <1>5, <1>6, <1>7 DEF Stream!Take, QueueView, TakenView

\* Receiving, finalizing, preparing and storing do not show, except that the
\* first usable packet starts the stream.
LEMMA NextViewed == CadenceInv /\ [Next]_vars => [Stream!Next]_(Stream!vars)
<1> SUFFICES ASSUME CadenceInv, [Next]_vars PROVE Stream!Next \/ UNCHANGED Stream!vars
  OBVIOUS
<1>0. RingInv /\ ContentInv /\ expected_pkt_id \in Nat
  BY ContentTypes DEF CadenceInv, ContentInv
<1>1. ASSUME UNCHANGED <<queue, held, prebatchid>>,
             (expected_pkt_id' # 0) <=> (expected_pkt_id # 0)
      PROVE  UNCHANGED Stream!vars
  BY <1>0, <1>1, QueueViewStays DEF Stream!vars, QueueView, TakenView
<1>2. ASSUME NEW r \in PacketIds, Receive(r)
      PROVE  Stream!Next \/ UNCHANGED Stream!vars
  <2>0. r \in Nat /\ UNCHANGED <<queue, held>>
    BY <1>2 DEF Receive, PacketIds
  <2>1. CASE FirstPacket(r)
    <3>1. /\ expected_pkt_id = 0 /\ expected_pkt_id' # 0 /\ prebatchid' \in Nat
      BY <2>0, <2>1, PacketPlace DEF FirstPacket
    <3>2. QueueView' = QueueView /\ TakenView' = TakenView
      BY <1>0, <2>0, QueueViewStays
    <3>3. Stream!Start
      BY <3>1, <3>2 DEF Stream!Start, QueueView, TakenView
    <3> QED
      BY <3>3 DEF Stream!Next
  <2>2. CASE NextPacket(r)
    BY <1>1, <2>0, <2>2 DEF NextPacket
  <2>3. CASE DiscardPacket(r)
    BY <1>1, <2>0, <2>3 DEF DiscardPacket, producerVars
  <2> QED
    BY <1>2, <2>1, <2>2, <2>3 DEF Receive
<1>3. ASSUME NEW r \in PacketIds, MonitorFails(r) PROVE UNCHANGED Stream!vars
  BY <1>1, <1>3 DEF MonitorFails, producerVars
<1>4. CASE Finalize \/ PrepareNext \/ Store
  BY <1>1, <1>4 DEF Finalize, PrepareNext, Store, producerVars
<1>5. CASE TryEnqueue
  BY <1>1, <1>5, PublishViewed DEF TryEnqueue, producerVars, Stream!Next
<1>6. CASE WaitEnqueue
  BY <1>6, PublishViewed DEF WaitEnqueue, Stream!Next
<1>7. CASE Dequeue
  BY <1>7, DequeueViewed DEF Stream!Next
<1>8. CASE UNCHANGED vars
  BY <1>1, <1>8 DEF vars, producerVars
<1> QED
  BY <1>2, <1>3, <1>4, <1>5, <1>6, <1>7, <1>8 DEF Next, Worker

\* Nothing is published before the stream starts.
LEMMA InitViewed == Init => Stream!Init
  BY DEF Init, Stream!Init

\* Seen through its queue, recv2mem publishes consecutive batches, each once
\* and unchanged until the consumer takes it, and calls a batch valid exactly
\* when it received all of its frames: whatever is lost, repeated or reordered.
THEOREM Refinement == Spec => ImplementsBatchStream
<1>1. Spec => []CadenceInv
  BY InitCadence, NextCadence, PTL DEF Spec
<1> QED
  BY <1>1, InitViewed, NextViewed, PTL DEF Spec, ImplementsBatchStream, Stream!Spec
=============================================================================
