# Spectral_line: verification of reception, processing, recording and output

Spectral_line receives VDIF frames of a radio telescope over UDP (DPDK), groups
them into batches of one FFT length, computes polyphase-filtered spectra of two
polarisations on a GPU, integrates them for both states of a noise source and
sends the integrations to a writer (ZeroMQ, local SDFITS files); in baseband mode
it records the frames instead. This directory models it in TLA+ from the
configuration file to the files it writes, checks the model with TLC and proves
its safety properties with TLAPS. Paths below are relative to the repository.

## Inventory

| Component | State | Operations | Interacts with | Must hold |
|---|---|---|---|---|
| Receive worker `recv2mem` (`src/dpdk.cpp`), one pinned thread per stream | expected packet, current batch and pool index, header template, monitor mapping | synchronise on the first packet of a batch, discard late and repeated packets, finalise and publish every batch left behind, prepare the next, store | network, pool, queue, monitor file | each batch once, in order, valid exactly when complete; fixed frame cadence in baseband mode |
| Batch pool (`src/init.cu`) | `QUEUE_CAPACITY + 2` batches per stream, used in turn | take the next one | producer, queue and consumer own batches | no batch owned twice, disjoint storage |
| Blocking circular buffer (`include/readerwritercircularbuffer.h`, `atomicops.h`, vendored) | two semaphores, two indices | `try_enqueue`, `wait_enqueue`, `wait_dequeue` | producer and consumer threads | bounded FIFO, no lost wake-up, no slot shared |
| Subband worker `GpuPfbFft` (`include/DoPFBFFT.hpp`) | the batches in hand, filter window, invalid-output counter, noise state and cycle reference, accumulators | `accumulate_one_block`, `submit_PFB_FFT`, `StokesAcc` | two queues, GPU, result ring | polarisations stay aligned; integrations of intact windows, without gaps, of one noise state |
| CUDA streams (same file) | seven streams, six events, device buffers reused for every block | copies, kernels, event record and wait | worker | outputs computed from the block they are dated with |
| Result ring and `send_data` (same file) | 16 slots with a `used` flag, two indices | publish; poll, send each window, release | worker, SDFITS writer, ZeroMQ sender | rows whole, in order, once |
| `SpectrumSender` (`include/SpectrumSender.hpp`) | socket, sequence number, failure text | connect, number and send one message without blocking, connection events | remote writer | sequence numbers tell losses |
| `LocalSdfitsWriter`, `sdfits.cpp` | bounded job queue, open files, CFITSIO status, writer thread | enqueue, create, write, flush, close, shutdown | file system | accepted rows are written once, in order; flushed rows survive |
| Baseband recorder (`include/baseband.hpp`, `baseband_quantize.hpp`) | current part file and its size, batch in hand | rotate, convert, write | circular buffer, file system | whole frames in time order, with the voltages received |
| VDIF header and time (`include/vdif.hpp`, `timing.hpp`) | none | header fields, packet identifier, time stamp, delay | all | frames describe themselves; UTC correct across leap seconds |
| Start-up (`src/main.cu`, `init.cu`, rest of `dpdk.cpp`) | `ready_threads`, lcore parameters, flow rules | barrier, lcore mapping, port and flow set-up, launch | all threads, network card | no packet before its consumer (but see finding 4) or in another stream; ends in reception or exit |
| Configuration (`include/Globalcfg.hpp`) | the parsed YAML | parse, check | all | what is accepted leads to disjoint storage, names and windows inside the FFT |
| Monitor plotter (`monitor/plot_monitor.py`) | last snapshots, manifest | read, plot, publish | monitor files | out of scope |
| `readerwriterqueue.h` (vendored) | - | included, never used | - | out of scope |
| Offline scripts, Ansible, systemd | - | - | - | out of scope |

What is hard here: the network loses, repeats and reorders packets, and packets
come while the flow rules are still being installed; threads and the GPU share
storage that is reused without a look at whether it is free; back-pressure runs
through two queues taken in alternation; the result ring has no back-pressure at
all; the noise state of lost blocks is guessed; disks fail or write in part,
connections come and go, and the process may die at any time and find its old files
when it is started again. `PROJECT.json` lists these hazards with their lines and
the properties aimed at them.

## Modules

    PacketReceiver ---implements---> BatchStream <---two instances--- GpuPfbFft
    ResultRing, CudaPipeline: the two ends of the worker that GpuPfbFft abstracts
    BasebandRecorder = CircularBuffer + VdifHeader + Quantize
        its CircularBuffer ---implements---> BoundedQueue
    ResultOutputs = LocalSdfitsWriter + SpectrumSender + VdifTime
    Startup = GlobalConfig + threads, ports and packets
    MCResultOutputs, MCStartup: constants of these two for TLC
    PacketReceiverProofs, PacketContentProofs: theorems about PacketReceiver
    GpuPfbFftProofs, ResultRingProofs, CudaPipelineProofs, BasebandRecorderProofs,
    ResultOutputsProofs, StartupProofs: theorems about the module each is named after

**BatchStream** is the promise of one receive stream: batches with consecutive
identifiers, each published once into a bounded queue and taken in order, valid when
all of its frames were received.

**PacketReceiver** models `recv2mem` in full together with the pool, the queue and
the thread that empties it. `pool`, `pool_idx`, `prebatchid`, `expected_pkt_id` and
`have_header_template` are the variables of the code; `baseband_mode` is set by the
configuration and never changes. The body of the receive loop
is cut where another thread can see a difference: `Receive` (monitor file, sequence
check), then, for each batch the packet left behind, `Finalize`, `TryEnqueue` or
`WaitEnqueue`, `PrepareNext`, and at last `Store`. Any packet identifier up to
`MaxPacketId` may arrive at any time, which covers loss, repetition and reordering;
frames of a wrong length or port change nothing. A payload is the identifier of the
packet it came from, so stale samples in reused storage are visible. The noise-source
byte of a batch is the identifier of the packet it was read from. `MonitorFails` is
the early return when the monitor file cannot be created. The semaphores of the
queue are the guards `SlotFree` and `ItemAvailable`. The consumer owns the batch it
got last until `wait_dequeue` returns the next, as both consumers do
(`accumulate_one_block` also waits for the copies to the device first).

**GpuPfbFft** models the subband worker over two BatchStreams. `DequeueA`,
`DequeueB` and `Align` are the two blocking calls and the loop of
`accumulate_one_block`; `Process` is everything it does with the pair, up to the end
of `StokesAcc`, during which it touches nothing shared. A block is its number, a
filter output the window of blocks it was computed from, an integration the set of
its outputs. Time has units finer than a block and the noise source switches at any
unit, with any phase. `Tags` gives the noise states `recv2mem` may have put on a
batch: that of the first packet, for an incomplete batch that of any packet in it,
and for an empty one that of the batch before. `last`, `lost`, `used` and `edgeSeen`
are history.

**ResultRing** models the publication of results against `send_data`. The worker's
writes to a slot are cut in three (header fields, copied data, flag), the sender's
reads by window. In the mode without calibration the first timestamp is written to
the slot when the integration starts, as in the code. `published`, `sent` and
`overrun` are history; `overrun` is set when the worker writes a slot whose flag is
set.

**CudaPipeline** models streams and events. A stream is a FIFO, and as every block
issues each operation once it is a counter; the wait for an event is the guard that
the other stream's counter has reached the block. The host waits only where the code
does. `raced` is history: it is set when a buffer is written before the operation
that reads its previous contents is done.

**CircularBuffer** models the vendored lock-free buffer at the granularity of its
atomic operations. A semaphore is a count and a kernel semaphore; a thread that
waits loads the count (`Load`), decrements it (`Decrement`) and sleeps (`Sleep`) if
it was not positive; one that signals increments it (`Signal`) and wakes a sleeper
(`Wake`) if it was negative. `Store` and `Fetch` copy an item at an index that grows
modulo the range of `std::size_t` and is masked to a ring of a power of two. A failed
`try_enqueue` is one turn of the spin loop of the `wait_enqueue` that follows it.
**BoundedQueue** is what the buffer promises and what the guards `SlotFree` and
`ItemAvailable` of PacketReceiver stand for: `Visible`, the items signalled and not
yet taken, is its queue.

**BasebandRecorder** puts the buffer between a producer, which fills the batches of
the pool in turn, and `recoder()`: `Dequeue`, `Prepare` (rotation and conversion in
place) and one `Write` or `WriteFails` per call of `writev`. Which frames are lost is
an input here. A file is a sequence of bytes, each with the packet and the frame
length its header states and its place in the frame, so that a shift or a mixture of
frames is visible. `finished`, `damaged` and `unrotated` are history. **VdifHeader**
holds the bit fields the program reads or sets: a word is the set of the bits that are
one. **Quantize** is the conversion of samples to 8, 4 and 2 bits, as a scalar loop and
as the AVX-512 version with its vector part and its tail, next to a reference that
says which voltages a decoder must find.

**LocalSdfitsWriter** has one action per critical section or step of the writer
thread. CFITSIO is external: an error status is sticky, a failed write leaves none,
part (`Torn`) or all of the row, rows are safe once flushed. A crash keeps the
flushed rows and all or none of the others. **SpectrumSender** numbers a message
before it knows whether it can be sent, polls and then sends without waiting; ZeroMQ
is external, with a pipe of one message (`ZMQ_SNDHWM`) that exists only while
connected (`ZMQ_IMMEDIATE`) and is lost with the connection. **VdifTime** is the
conversion from the VDIF clock to POSIX time, next to a reference that counts the
seconds of UTC; the unit of time is the duration of a frame. **ResultOutputs**
composes them: `send_data` gives each window of each result to the local writer and
then to the sender; the process may be shut down, killed at any point (`Kill`) and
started again (`Restart`) with the same output folder. `accepted` and `skipped` are
history. Continuum mode is the case without a local writer.

**GlobalConfig** states when a configuration is accepted and what is derived from an
accepted one. A configuration is a record with one value per key; frequencies are
integers, `llround` rounds to the nearest. **Startup** models `main`, `init`, the
worker threads and `dpdk`: the barrier, lcores, ports and flow rules, the launch of
the polling lcores, a failure at every call whose result is checked, and packets
that arrive from the moment a port is started.

## Runs

| Run | Shows | Bounds |
|---|---|---|
| `Receiver` | ownership, order, validity, immutability, refinement of BatchStream, in both modes; filler frames keep the cadence; back-pressure ends, batches arrive; monitor file created or failing | three frames per batch (a middle one can be lost), a queue of one, five batches over a pool of three: storage is used again after a gap of up to four batches |
| `SubbandWorker` | alignment, exact integrations, no gap inside, no output twice; the two queues do not block each other | two taps, queues of one, starts up to two batches apart, a noise period of four blocks, eight blocks: integrations of both states are published and dropped; with and without calibration |
| `SubbandPurity` | integrations of one noise state, without loss | three taps, a period of nine and a half blocks (odd in half blocks, so that the source switches at the start and in the middle of blocks), three periods, every phase of the source; a blank time of one and a half blocks, the least that `BlankingCovers` allows |
| `ResultRingOrder` | rows whole, in order, once, and sent | two slots, so that the ring wraps and overruns; two windows; with and without calibration |
| `CudaStreams` | which orders the events enforce; the device is drained when a result is exposed | two taps, integrations of two blocks, five blocks |
| `BasebandRecording` | no memory shared, no wake-up lost, the buffer implements BoundedQueue; part files of whole frames in order with the right voltages; recorded bytes stay; the recorder never stops | capacity 3 (not a power of two) and index range 4, so that ring and counters wrap; five batches of two frames, two batches per part; three iovecs per call, short writes of one byte (inside a header) or five (inside a payload), two faults; 8, 4 and 2 bits; payloads longer than a vector, with a tail; with and without AVX-512 |
| `ResultOutputs` | accepted rows written once and in order, UTC right, losses countable by the receiver, flushed rows survive, the queue is served and shutdown ends | two windows, one of which cannot be reached; room for two rows, a flush every two; one failure, one disconnection, three results, two sessions; times before, in and after a leap second, and an epoch that starts right after one |
| `Startup` | packets reach their stream only, after its consumer has announced itself; nothing clashes; start-up ends | two physical subbands (eight streams), four queues per port, both with and without flow isolation; five configurations that are accepted and 30 that are refused, one reason each; four hosts (lcores near both ports, one socket only, a port of unknown socket, too few CPUs); one packet, which is enough because packets are routed and accepted one by one |
| `NoiseReference`, `ResultRingOverrun`, `CudaBacklog`, `StartupReadiness` | violations, see Findings | |

Small bounds are enough because the models are uniform in them: the pool, the rings
and the windows only use arithmetic modulo their size, so two turns show every
relation between reader and writer; a gap needs at most a filter length plus one
integration to matter. `CHECK_DEADLOCK FALSE` stands where the bound on identifiers,
blocks, batches, results, sessions or time ends the behaviour, or where the worker
has returned; start-up ends in an exit or in reception.

Each property is also run against a mutated definition (the operators with a suffix,
such as `PoolSize_NoConsumerBatch`) that it must reject.

Fairness. `Receiver`: weak fairness of the worker once it holds a packet
(a pinned thread that polls) and of the consumer (it returns to `wait_dequeue`);
nothing makes packets arrive. `SubbandWorker`: both streams go on delivering,
which back-pressure delays and never refuses, and the worker runs.
`ResultRingOrder`: the sender polls every millisecond and a copy once started
completes; blocks need not come.
`BasebandRecording`: producer and recorder run, on cores of their own; a thread that
sleeps on a kernel semaphore is helped by nothing but the signal of the other.
`ResultOutputs`: the writer thread runs while the process does; neither `send_data`
nor the network nor a restart is fair. `Startup`: the main thread and each worker
thread run; nothing makes packets arrive.

## Proofs

The theorems hold for every value of the constants that satisfies the assumptions
named in the modules; TLC evaluates these assumptions in the runs. Each safety theorem
rests on an inductive invariant, which the module of the proofs defines first and
which was checked with TLC before it was proved. Each action has a lemma of its own.

**PacketReceiver**, for every batch size, capacity, mode and number of packets.

* `TypeCorrect`, `Ownership`, `Order` (`PacketReceiverProofs`): `TypeOK`,
  `BatchOwnership` and `ConsecutiveBatches`. Ownership is not inductive: that the
  batch after the current one is free depends on where all others are. `RingInv`
  says that queue, consumer and producer sit on consecutive places of the ring, by
  the age of a batch (`pool_idx` minus its index, modulo the pool), so that a pool
  of `QUEUE_CAPACITY + 2` leaves the next place free whenever the queue has room.
  Order carries the identifiers along the same ages.
* `Frozen`, `Completeness`, `Cadence` (`PacketContentProofs`): `PublishedFrozen`,
  `ValidMeansComplete` and `FixedCadence`. `ContentInv` adds to the above that packets
  accepted only grow, that `received_count` of the current batch is the number of its
  frames received so far, with equality to the batch size exactly when none is missing,
  and that whatever else its storage holds belongs to older batches. For the cadence
  the headers of the batch in progress are followed from `PrepareNext` to `Finalize`.
* `Refinement`: a receive stream implements BatchStream. The identifiers received of a
  batch are read off its storage; every step of the receiver maps to one of
  `Start`, `Publish` and `Take` of BatchStream or to none.

**GpuPfbFft**, for every filter length, integration length and noise period:
`WorkerTypeCorrect`, `AlignedOnce`, `SpectraAreExact`, `NoSpectrumSpansAGap`,
`OutputsCountedOnce` prove `TypeOK`, `AlignedForGood`, `IntegrationExact`, `NoGapInside`
and `NoOutputTwice`. The invariant says which batch the worker holds of each stream at
each place of its loop (`Pairing`); that `m_pfb_invalid_blocks_remaining` tells how much
of the filter window is usable (`WindowRight`) and how far back the last invalid block
is (`LostBehind`); and that the outputs added up are as many as counted, intact, after
the last loss and different from all others (`Accumulated`, `Distinct`).

`CalibrationIsPure` proves `CalibrationPure`, for every period, on-time, block time and
phase of the source, under two hypotheses that are not assumptions of the module, as the
code does not enforce them. `Lossless`: no packet is lost (see Findings). `BlankingCovers`:
the blank time reaches over the memory of the filter, and over the two blocks by which
a block and the cycle reference may lag behind the source; `Globalcfg.hpp` checks only that
`transition_blank_ms` is not negative, so that choosing it is left to the configuration.
The invariant `NoiseInv` says that the state kept by `update_noise_state` is that of the
source at the start of the block processed last (`TagsRight`), that
`m_noise_cycle_start_ns` is less than one block after a true switching-on once an edge was
seen (`ReferenceRight`), and that what was added since, in the accumulators and in the
result, is pure (`IntegrationsPure`). The arithmetic is one lemma on phases (`OutputPure`):
an output that `is_noise_blank` lets pass has its whole filter window between two
switchings. The filter looks back from a switching and the block ahead to the next one,
hence the two inequalities.

**ResultRing**, for every number of slots and windows: `RingTypeCorrect`,
`RowsDescribe`, `RowsInTurn`, `OverrunMeansFull` prove `TypeOK`, `RowsDescribeData`,
`SentInOrder` and `OverrunOnlyWhenFull`. Until the first overrun the slots in use are
those from the sender's to the worker's (`UsedInterval`), and the distance of a slot
from the sender's tells which integration it holds (`Contents`).

**CudaPipeline**, for every filter length and integration length: `PipelineTypeCorrect`,
`OutputsAreExact`, `ResultsAreComplete`, `DeviceDrained` prove `TypeOK` (which no run
repeats), `OutputsExact`, `ResultComplete` and `DrainedWhenPublished`. `Ordered` is what
the events enforce between the counters of the streams. The rest of the order, `CloseOf`, holds as long as none of the three races of
finding 3 has happened, and with it the buffers hold what the counters say.

**BasebandRecorder** with CircularBuffer, for every capacity, index range, batch size
and pattern of lost frames, short and failed writes:

* `NeverShared`: `NothingShared`. Both counts are determined by the places of the two
  threads and the items stored (`Counts`); a sleeper has exactly one wake-up under way
  when its count is not negative (`Waiting`). Hence an item is fetched only after it was
  stored and a slot is used again only after it was read.
* `BufferIsQueue`: `ImplementsBoundedQueue`. The slots from `nextItem` on hold the last
  batches filled, in order, also where index and ring wrap (`Contents`).
* `RecordedForGood`: `RecordedStays`, because parts that were not opened yet are empty.
* `RecorderTypeCorrect`: `TypeOK`, which needs the above, as a batch must be whole when
  the recorder converts it.
* `FilesHaveWholeFrames`: `WholeFrames`, and `SamplesAreKept`: `VoltagesKept`. Both follow
  from `StreamInv`. The batches queued, held and offered are the next ones of the stream,
  in order (`Numbered`); byte n of a part that no write has failed on is byte n of the
  frames of consecutive batches, up to where the write under way has come (`Recorded`);
  and `current_size` is the length of the open part, with room for the batch in hand
  (`Sizes`). Short writes are the reason for counting bytes and not frames: a part may end
  inside a header at any time, and the next call continues at that byte (`IovRight`,
  `WriteForward`, `Written`).

  What a frame contains is shown by lemmas on the operators. The setters of the VDIF
  header change their own bits only, and each getter returns what was set (`GetPut`,
  `GetOther`, `PacketIdSet`, `Configured`); the AVX-512 path writes the bytes of the scalar
  path, the tail of a payload that is no multiple of the vector included (`Avx8At`,
  `Avx4At`, `QuantizedSame`); and decoding the bytes gives the voltages for 8, 4 and 2 bits
  (`DecodedRight`). That a number is the value of its bits (`ValueOfBits`) is the one
  recursion among them; `ValueOf` is therefore written as a recursive function, and the
  proof goes by the least counterexample, as below.

`FieldsAssumption` says that lengths and times fit into the fields of the header: a
payload has an even number of bytes, frames of a second are counted in 24 bits
(`FRAMES_PER_SECOND` is 62500), lengths in units of 8 bytes in 24 bits (a frame is at most
32 + 8192 bytes), and the bounded stream is shorter than the 2^30 seconds of an epoch
field. `max_file_size` is a `size_t`, hence natural.

That `ceilToPow2` returns a size of at least the capacity (`SizeFits`) is proved too;
what is used of powers of two is that a set of k elements has 2^k subsets.
`IndexAssumption` is about `std::size_t`: its range is a multiple of the size and
exceeds the capacity.

**ResultOutputs**, for every number of windows, high-water mark, flush interval and
number of failures, disconnections, results and restarts: `FlushedForGood` proves
`FlushedRowsStay` (rows flushed are in the file; no file is created that exists);
`GapsTellLosses` proves `GapsCountLosses`: the number of the next message and the
result in hand advance together from the first message on, and what is in the pipe and
what was received is in that order (`SenderInv`).

* `RowsKept`: `RowsInOrder`. Three invariants carry it. `AcceptedInv`: the rows that
  `enqueue` has taken of a window in this session have increasing results, which differ
  from their `integration_id` by a number fixed for the session (`Offset`). `ThreadInv`:
  `queued_bytes_` is exact; a file that is not open has been flushed unless closing it
  failed; the thread ends only with an empty queue and its files closed. `Placed`: file,
  row in hand and queue, one behind the other, are the accepted rows but for those lost
  for want of a file. Hence whatever is appended to a file is the next accepted row
  (`FineWritten`), and a crash leaves the first rows of a file.
* `TimesRight`: `RowTimesCorrect`, with `TimestampCorrect`: for every increasing table of
  leap seconds, `vdif_to_timestamp_ns` gives the second that the count of UTC seconds
  gives. The leap seconds passed are the first ones of the table (`PassedFirst`), the
  count grows with the second (`CountGrows`), so that its inverse is unique
  (`LabelUnique`).

`DelayAssumption` says that the group delay is shorter than the time from 1970 to the
first reference epoch, so that `compensate_delay_ns` never cuts off at zero;
`OutputsAssumption` that the windows of a subband form a list without repetition.
What `OfWindow` selects from a queue that grows or shrinks (`OfWindowAppend`,
`OfWindowTail`) is shown by the least counterexample, as below.

**Startup**, for every number of subbands, every configuration and every host:
`Routing` proves `StreamRouting` and `ConsumersFirst` `ConsumerAnnounced`. `ready_threads` counts the threads that have announced
themselves, only threads that are wanted are started (`Counted`), and `total_threads` is
their number (`ThreadsWanted`, in baseband mode by a bijection of two streams per
subband), so that the barrier opens only when all have (`Barrier`).

`NoClashes` proves `NothingClashes` from the invariant `ChecksDone`: a configuration in
use has passed `initFromYaml` and `checkConfig`, and a port is set up only if enough
lcores were found. From there it is arithmetic. `SizesPositive`: `batchsize()` is positive
and `calc_pool_size` returns at least 3. `StorageApart`: the index of a packet is a number
with the digits pool, batch and position (`Digits`), pools are numbered without gaps in the
order of the streams (`PoolIndexOrder`), so that the batches fill their storage exactly.
`WindowsInside`, `SubbandNames`, `WindowNames`, `RecorderNames`: the rounded first channel
of a window, and the names written to the disk. `LcoresDistinct`: the loop of
`generate_lcore_params` is a recursive function over the streams; `LoopDefined` and `LoopApart`
follow what it has assigned by the argument of the least counterexample (lemma
`LeastElement`, from the well-foundedness of the natural numbers), which needs no induction
theorem with an operator as its parameter.

The assumptions are bounds the code guarantees: sizes, capacities and lengths are
positive (`calc_pool_size` returns at least 3, hence `QUEUE_CAPACITY >= 1`). `Parsed` is
what yaml-cpp returns for the numbers of the file, before any of them is checked; a host
has finitely many CPUs.

Only model-checked:

* liveness, which is out of the proof system's reach: `BlockedProducerResumes`,
  `EveryBatchDelivered`, `PairsProcessed`, `PublishedIsSent`,
  `EveryBatchRecorded`, `QueueIsServed`, `StartupEnds`.

Every invariant, every action property and both refinements that a passing run checks are
stated by a theorem. `CalibrationPure` outside the hypotheses above is neither checked nor claimed.

## Findings

1. `NoiseReference`: the noise state starts as OFF, so an observation that starts
   while the source is on takes its first block for an ON edge; the intervals blanked
   are wrong until the next edge. The branch that infers the cycle from an OFF edge
   is unreachable.
2. `ResultRingOverrun`: the worker writes a slot the sender is reading when the ring
   is full, in the mode without calibration even before it has looked at the flag.
3. `CudaBacklog`: two copies into `m_raw`, two writes to the filter ring and two
   spectra are not ordered against the readers of the first; when the GPU is behind
   a filter window may contain a newer block in place of its oldest. `CudaStreams`
   shows that these three pairs are all that is missing, and that a backlog ends with
   the integration (`DrainedWhenPublished`). Progress of the streams is no question of
   its own: `cudaStreamWaitEvent` waits only for records already issued, so that FIFO
   streams cannot block each other for ever.
4. `StartupReadiness`: `subband_thread` increments `ready_threads` before it makes its
   `GpuPfbFft`, `baseband_thread` after it made its recorder. In spectral and continuum
   mode reception may therefore start, and the log report all threads ready, while the
   workers that "must complete initialization" have not; a constructor may still fail
   then and end the process. Batches received meanwhile wait in the queues. What does
   hold is `ConsumerAnnounced`: no packet before its thread has announced itself, with
   its recorder in baseband mode.

`CalibrationPure` is checked without loss only: lost blocks also update the noise
state, with the tag of the batch before, so that the reference may move off the edge
by the length of the loss.

Remarks from modelling that no run is about:

* `docs/result-data-format.md:45` says the sequence number grows on every attempt to
  send; it does not when `ensure_socket` fails, so that a receiver cannot tell such a
  loss. `GapsCountLosses` holds because a sender that has had a socket keeps it.
* Once `shutdown` has finished, `enqueue` returns true, as for a writer that was never
  enabled, and the row is lost.
* After a restart with the same folder every local row is refused, because the file
  exists; nothing is overwritten. A baseband restart with the same `Observation_ID`
  on the other hand truncates part 0.
* The centre of an integration is computed from two POSIX times; across a leap second
  it is half a second off, or wraps if the integration is shorter than a second.
* Worker threads may be pinned to a CPU on which an lcore polls.

## Abstractions and what is left out

Not modelled in the components above: counters and logging, the packet burst (its
packets are processed one by one), the values of spectra, the bytes of a message and
its CRC, conversion to MJD and to text, header keywords and columns of SDFITS files
beyond window, integration and time, the payload that is special to continuum mode,
YAML syntax, the monitor socket of ZeroMQ, which only serves the log, memory orders
weaker than sequential consistency in the circular buffer, operations of it that the
program never calls (peek, pop, timed waits), the pinning of worker threads. 64-bit
packet identifiers do not wrap in the model. `CudaPipeline` has no calibration and no
invalid blocks.

Not modelled at all:

* The monitor plotter draws whatever it finds in a file that `recv2mem` rewrites
  without a lock or a version; it promises no consistency and nothing depends on it.
* Offline scripts are sequential numerical data reduction; deployment is host
  configuration.
* `readerwriterqueue.h` is included and never used.

## Plan

Modelling and proofs are complete as far as planned: every safety property that a passing
run checks has a theorem. What would come next:

* liveness, with a proof system that supports fairness and `ENABLED`;
* how far an integration can be off its noise state after losses, as a bound on the lag
  of the reference instead of the hypothesis `Lossless`;
* calibration and invalid blocks in `CudaPipeline`;
* the six hazards without a property, most of which need a decision on what the code
  should do (a restart with the same `Observation_ID`, integrations across a leap second).
