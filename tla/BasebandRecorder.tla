-------------------------- MODULE BasebandRecorder --------------------------
(***************************************************************************)
(* The recorder of one baseband stream (src/include/baseband.hpp, run by   *)
(* baseband_thread), fed by recv2mem through a CircularBuffer: it takes a  *)
(* batch, converts the samples of its frames in place and writes headers   *)
(* and payloads to the current part file with writev, starting a new part  *)
(* when the batch would exceed the size limit.                             *)
(*                                                                         *)
(* The producer fills the batches of the pool in turn; which of its frames *)
(* are lost is an input here (PacketReceiver is about that).  writev may   *)
(* write less than it was asked to, or fail, and so may the creation of a  *)
(* file; a writev that is interrupted before it wrote anything is called   *)
(* again, which changes nothing.                                           *)
(***************************************************************************)
EXTENDS CircularBuffer, VdifHeader, Quantize, FiniteSetsExt

CONSTANTS BatchSize,      \* frames per batch
          FramePayload,   \* FRAME_PAYLOAD, bytes of a frame from the FPGA
          IovMax,         \* iov_max
          MaxFileSize,    \* max_file_size
          BitDepths,      \* values of Baseband_bits
          StreamThread,   \* ServerID * 16 + stream_id
          LostIds,        \* packets the network loses
          MaxBatches,     \* number of batches (bound)
          Cuts,           \* lengths a short writev may have (bound)
          MaxFaults       \* short writes and failures (bound)

ASSUME RecorderAssumption ==
  /\ BatchSize \in Nat \ {0} /\ IovMax \in Nat \ {0} /\ FramePayload \in Nat
  /\ MaxFileSize \in Nat
  /\ MaxBatches \in Nat /\ MaxFaults \in Nat /\ Cuts \subseteq Nat \ {0}
  /\ BitDepths \subseteq {8, 4, 2}
  /\ \A b \in BitDepths : FormatOK(b, FramePayload)

\* Samples come in pairs, and the times and lengths of this program fit into
\* the fields of a header.
ASSUME FieldsAssumption ==
  /\ FramePayload % 2 = 0
  /\ FramesPerSecond <= 2^24
  /\ (MaxBatches * BatchSize) \div FramesPerSecond < 2^30
  /\ \A b \in BitDepths : (HeaderSize + (FramePayload * b) \div 8) \div LengthUnit < 2^24

VARIABLES
  bits,        \* Baseband_bits
  batch,       \* the pool: batch[x] is a sequence of frames
  pool_idx,    \* the batch the producer fills
  filled,      \* batches filled so far
  held,        \* readblock, or NoItem
  stage,       \* where recoder() is: "idle", "take", "prepare" or "write"
  done,        \* bytes of the batch already written
  part,        \* the directory: contents of the part files
  fd,          \* the part that is open
  file_index,  \* number of the next part
  current_size,
  faults,
  \* History.
  finished,    \* batches recoder() is done with
  damaged,     \* parts that lack bytes of a batch
  unrotated    \* parts that should have been followed by a new one

producerVars == <<batch, pool_idx, filled>>
fileVars == <<done, part, fd, file_index, current_size, faults, damaged, unrotated>>
recorderVars == <<held, stage, finished, fileVars>>
vars == <<bufVars, bits, producerVars, recorderVars>>

PoolSize == Capacity + 2

PoolIdx == 0 .. PoolSize - 1
Frames == 1 .. BatchSize
Parts == 0 .. MaxBatches

(***************************************************************************)
(* What recv2mem puts into a batch.                                        *)
(***************************************************************************)
\* A header as the FPGA sends it; fields this program sets may hold anything.
FpgaHeader(id) ==
  SetPacketId([w \in 0 .. 7 |-> IF w < 2 THEN {} ELSE 0 .. 31], id)

Samples(id) == [j \in 1 .. FramePayload |->
                  IF id \in LostIds THEN 128 ELSE (29 * id + 37 * j) % 256]

\* The frames of batch b: those that came, and the fillers of finalize_batch.
Received(b, depth) ==
  LET id(i) == b * BatchSize + i - 1
      configured(i) == ConfigureBaseband(FpgaHeader(id(i)), depth, StreamThread,
                                         FramePayload)
  IN [i \in Frames |->
        [hdr |-> IF id(i) \in LostIds
                   THEN Put(SetPacketId(configured(1), id(i)), Invalid, 1)
                   ELSE configured(i),
         payload |-> Samples(id(i))]]

\* A constant, so that TLC evaluates it once.
ReceivedBatches == [depth \in BitDepths |->
                      [b \in 0 .. MaxBatches - 1 |-> Received(b, depth)]]

Init ==
  /\ BufferInit
  /\ bits \in BitDepths
  /\ batch = [x \in PoolIdx |-> <<>>]
  /\ pool_idx = 0
  /\ filled = 0
  /\ held = NoItem
  /\ stage = "idle"
  /\ done = 0
  /\ part = [p \in Parts |-> <<>>]   \* the constructor has created part 0
  /\ fd = 0
  /\ file_index = 1
  /\ current_size = 0
  /\ faults = 0
  /\ finished = 0
  /\ damaged = {}
  /\ unrotated = {}

\* The producer fills its batch and calls try_enqueue.
Fill == /\ filled < MaxBatches
        /\ batch' = [batch EXCEPT ![pool_idx] = ReceivedBatches[bits][filled]]
        /\ filled' = filled + 1
        /\ Enter("producer")
        /\ UNCHANGED <<bits, pool_idx, recorderVars>>

\* The batch goes into the buffer and the next one of the pool is used.
Publish == /\ Store(pool_idx)
           /\ pool_idx' = (pool_idx + 1) % PoolSize
           /\ UNCHANGED <<bits, batch, filled, recorderVars>>

(***************************************************************************)
(* The recorder.                                                           *)
(***************************************************************************)
FrameBytes == HeaderSize + ((FramePayload * bits) \div 8)
BatchBytes == BatchSize * FrameBytes

\* wait_dequeue
CallDequeue == /\ stage = "idle"
               /\ Enter("consumer")
               /\ stage' = "take"
               /\ UNCHANGED <<bits, producerVars, held, finished, fileVars>>

Dequeue == /\ Fetch
           /\ held' = data[nextItem % Size]
           /\ stage' = "prepare"
           /\ UNCHANGED <<bits, producerVars, finished, fileVars>>

\* The part number is not advanced.
CreateFile_SameIndex ==
  /\ part' = [part EXCEPT ![file_index] = <<>>]
  /\ fd' = file_index
  /\ current_size' = 0
  /\ UNCHANGED file_index

\* create_file: the file is opened with O_TRUNC and the old one closed.
CreateFile ==
  /\ part' = [part EXCEPT ![file_index] = <<>>]
  /\ fd' = file_index
  /\ current_size' = 0
  /\ file_index' = file_index + 1

RotationDue == current_size # 0 /\ current_size + BatchBytes > MaxFileSize

\* When create_file fails, recoder() goes on with the current file.
Rotate ==
  \/ RotationDue /\ CreateFile /\ UNCHANGED <<faults, unrotated>>
  \/ /\ RotationDue /\ faults < MaxFaults
     /\ faults' = faults + 1
     /\ unrotated' = unrotated \cup {fd}
     /\ UNCHANGED <<part, fd, file_index, current_size>>
  \/ ~RotationDue /\ UNCHANGED <<part, fd, file_index, current_size, faults, unrotated>>

\* A new part if there is need, and the conversion of the samples, on a
\* processor with AVX-512 or without.
Prepare(avx) ==
  /\ pc["consumer"] = "work" /\ stage = "prepare"
  /\ Rotate
  /\ batch' = [batch EXCEPT ![held] = [i \in Frames |->
       [batch[held][i] EXCEPT !.payload = Quantized(@, bits, avx)]]]
  /\ done' = 0
  /\ stage' = "write"
  /\ UNCHANGED <<bufVars, bits, pool_idx, filled, held, finished, damaged>>

\* The bytes of a frame in a file, each with what its header says.
FileFrame(frame) ==
  LET id == PacketId(frame.hdr)
      length == Get(frame.hdr, FrameLength) * LengthUnit
  IN [at \in 1 .. FrameBytes |->
        [id |-> id, length |-> length, at |-> at,
         value |-> IF at <= HeaderSize THEN 0 ELSE frame.payload[at - HeaderSize]]]

\* The bytes of the iovecs, two of them per frame.
IovBytes == LET frames == [i \in Frames |-> FileFrame(batch[held][i])]
            IN [n \in 1 .. BatchBytes |->
                  frames[(n - 1) \div FrameBytes + 1][((n - 1) % FrameBytes) + 1]]

\* Bytes up to the end of iovec number k.
IovEnd(k) == (k \div 2) * FrameBytes + IF k % 2 = 1 THEN HeaderSize ELSE 0

\* The last byte a call of writev can reach: iovecs that are complete are
\* skipped, and IovMax of the others are passed.
Reach == LET first == Cardinality({k \in 1 .. 2 * BatchSize : IovEnd(k) <= done})
         IN IovEnd(Min({first + IovMax, 2 * BatchSize}))

\* The lengths a call of writev may return: all it was asked for, or less.
Lengths == {Reach - done} \cup {n \in Cuts : n < Reach - done}

\* writev writes n bytes.
Write(n) ==
  /\ stage = "write"
  /\ n < Reach - done => faults < MaxFaults
  /\ part' = [part EXCEPT ![fd] = @ \o SubSeq(IovBytes, done + 1, done + n)]
  /\ current_size' = current_size + n
  /\ done' = done + n
  /\ faults' = IF n = Reach - done THEN faults ELSE faults + 1
  /\ stage' = IF done + n = BatchBytes THEN "idle" ELSE "write"
  /\ held' = IF done + n = BatchBytes THEN NoItem ELSE held
  /\ finished' = IF done + n = BatchBytes THEN finished + 1 ELSE finished
  /\ UNCHANGED <<bufVars, bits, producerVars, fd, file_index, damaged, unrotated>>

\* writev fails: the rest of the batch is given up, what was written stays.
WriteFails ==
  /\ stage = "write" /\ faults < MaxFaults
  /\ faults' = faults + 1
  /\ damaged' = damaged \cup {fd}
  /\ stage' = "idle"
  /\ held' = NoItem
  /\ finished' = finished + 1
  /\ UNCHANGED <<bufVars, bits, producerVars, done, part, fd, file_index,
                 current_size, unrotated>>

InBuffer(t) == SemaphoreStep(t) /\ UNCHANGED <<bits, producerVars, recorderVars>>

Producer == Fill \/ Publish \/ InBuffer("producer")

Recorder == \/ CallDequeue \/ Dequeue \/ InBuffer("consumer")
            \/ (\E avx \in BOOLEAN : Prepare(avx))
            \/ (stage = "write" /\ \E n \in Lengths : Write(n)) \/ WriteFails

Next == Producer \/ Recorder

\* Both threads run on cores of their own.
Spec == Init /\ [][Next]_vars /\ WF_vars(Producer) /\ WF_vars(Recorder)

(***************************************************************************)
(* Correctness.                                                            *)
(***************************************************************************)
\* Type invariant of the buffer and the recorder.
TypeOK == /\ BufferTypeOK
          /\ data \in [0 .. Size - 1 -> PoolIdx \cup {NoItem}]
          /\ \A x \in PoolIdx : \A i \in DOMAIN batch[x] : batch[x][i].hdr \in Header
          /\ pool_idx \in PoolIdx /\ held \in PoolIdx \cup {NoItem}
          /\ filled \in 0 .. MaxBatches /\ finished \in 0 .. MaxBatches
          /\ stage \in {"idle", "take", "prepare", "write"}
          /\ done \in 0 .. BatchBytes
          /\ fd \in Parts /\ file_index \in 1 .. MaxBatches + 1

\* The two threads never touch the same memory at the same time, although
\* neither the buffer nor the batches have a lock: inner_enqueue and
\* inner_dequeue are on different slots and, with QUEUE_CAPACITY + 2 batches,
\* recv2mem never fills a batch that recoder() converts and writes, nor one
\* that waits in the buffer.
NothingShared ==
  /\ SlotsApart
  /\ pc["producer"] = "work" =>
       /\ pool_idx # held
       /\ \A i \in DOMAIN Visible : Visible[i] # pool_idx

FrameAt(bytes, k, length) == SubSeq(bytes, k * length + 1, (k + 1) * length)

\* Parts on which no write failed and no write is under way.
Intact(p) == p \notin damaged /\ ~(p = fd /\ stage = "write")

\* The reader's view: stepping by the length in each VDIF header through a
\* part no write failed on, one finds whole frames with consecutive times,
\* also after short writes; and a part exceeds the size limit only after
\* create_file failed.
WholeFrames ==
  \A p \in Parts :
    /\ Intact(p) /\ part[p] # <<>> =>
         LET bytes == part[p]
             length == bytes[1].length
             frames == Len(bytes) \div length
         IN /\ Len(bytes) = frames * length
            /\ \A k \in 0 .. frames - 1 : \A j \in 1 .. length :
                 LET byte == bytes[k * length + j] IN
                 byte.id = bytes[1].id + k /\ byte.at = j /\ byte.length = length
    /\ p \notin unrotated /\ BatchBytes <= MaxFileSize => Len(part[p]) <= MaxFileSize

\* The samples of a recorded frame decode to the most significant bits of
\* the voltages of the packet its header names: I before Q, converted once,
\* by either version of the conversion.
VoltagesKept ==
  \A p \in Parts : Intact(p) =>
    \A k \in 0 .. (Len(part[p]) \div FrameBytes) - 1 :
      LET frame == FrameAt(part[p], k, FrameBytes)
          values == [i \in 1 .. FrameBytes - HeaderSize |-> frame[HeaderSize + i].value]
      IN Decoded(values, bits) = Voltages(Samples(frame[1].id), bits)

\* No step removes or changes a byte that was recorded.
RecordedStays ==
  [][\A p \in Parts : /\ Len(part'[p]) >= Len(part[p])
                      /\ SubSeq(part'[p], 1, Len(part[p])) = part[p]]_vars

\* Every batch of the stream is recorded or given up in the end: no wake-up
\* is lost, and failures of the disk do not stop the recorder.
EveryBatchRecorded == <>(finished = MaxBatches)

Abstract == INSTANCE BoundedQueue WITH Items <- PoolIdx, queue <- Visible

\* The circular buffer implements a bounded first-in first-out queue.
ImplementsBoundedQueue == Abstract!Spec
=============================================================================
