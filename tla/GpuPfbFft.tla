----------------------------- MODULE GpuPfbFft -----------------------------
(***************************************************************************)
(* The worker of one subband (GpuPfbFft in src/include/DoPFBFFT.hpp, run   *)
(* by subband_thread): it pairs the batches of the two polarisation        *)
(* streams, keeps the last NumTaps blocks for the polyphase filter bank,   *)
(* and integrates the filter outputs, one integration for each state of    *)
(* the noise source.  The streams are two instances of BatchStream, which  *)
(* PacketReceiver implements; here a batch only tells whether all of its   *)
(* frames came.                                                            *)
(*                                                                         *)
(* Samples are abstracted to the number of the block they came from, a     *)
(* filter output to the blocks in its window, an integration to the set of *)
(* outputs added up.  The GPU computes at once here; its streams and       *)
(* events are the subject of CudaPipeline, the host ring the results are   *)
(* put into that of ResultRing.                                            *)
(*                                                                         *)
(* Time is counted in units of which one block lasts BlockTime; the noise  *)
(* source switches at any unit, not only between blocks.                   *)
(***************************************************************************)
EXTENDS Integers, Sequences, FiniteSets

CONSTANTS NumTaps,        \* m_num_taps
          AccLen,         \* m_acc_len, filter outputs per integration
          QueueCapacity,  \* batches a stream may queue
          BatchIds,       \* batch identifiers the streams use (bound)
          StartIds,       \* identifiers a stream may start with
          Lossless,       \* TRUE: no packet is ever lost
          CalModes,       \* values cal_mode may be configured to
          BlockTime,      \* fft_period
          Period,         \* noise_source.period_ms
          OnTime,         \* duration of ON in a period, on_ns
          BlankTime       \* noise_source.transition_blank_ms

ASSUME TapsAssumption == NumTaps \in Nat \ {0} /\ AccLen \in Nat \ {0}
ASSUME IdsAssumption == StartIds \subseteq BatchIds /\ BatchIds \subseteq Nat \ {0}
ASSUME ModesAssumption == Lossless \in BOOLEAN /\ CalModes \subseteq BOOLEAN
ASSUME NoiseAssumption == /\ BlockTime \in Nat \ {0} /\ BlankTime \in Nat
                          /\ OnTime \in Nat \ {0} /\ Period \in Nat
                          /\ OnTime < Period

VARIABLES
  startedA, nextA, queueA, takenA,   \* stream of polarisation A
  startedB, nextB, queueB, takenB,   \* stream of polarisation B
  pc,             \* where the worker is: "A", "B" or "align"
  gap,            \* alignment_gap
  cal_mode,       \* is the noise source used? Fixed by the configuration.
  sourcePhase,    \* the noise source was switched on at this time, mod Period
  tagA,           \* noise_state[0] of readblockA
  noise,          \* m_noise_state
  cycleStart,     \* m_noise_cycle_start_ns, 0 while unknown
  window,         \* blocks in the ring m_d_input, oldest first
  invalidLeft,    \* m_pfb_invalid_blocks_remaining
  resetForGap,    \* m_accumulators_reset_for_gap
  count,          \* m_acc_id, m_acc_on_id, m_acc_off_id
  firstTime,      \* the two first timestamps, of the block that came first
  acc,            \* filter outputs in the accumulators, as windows
  result,         \* the integration published last
  \* History.
  last,           \* the block processed last, 0 before the first
  lost,           \* blocks processed as invalid input
  used,           \* blocks in the integrations before the last one
  edgeSeen        \* when the source was first seen to switch on, or 0

streamA == <<startedA, nextA, queueA, takenA>>
streamB == <<startedB, nextB, queueB, takenB>>
accVars == <<resetForGap, count, firstTime, acc, result, used>>
setting == <<cal_mode, sourcePhase>>
workerVars == <<pc, gap, setting, tagA, noise, cycleStart, window,
                invalidLeft, last, lost, edgeSeen>>
vars == <<streamA, streamB, workerVars, accVars>>

A == INSTANCE BatchStream WITH BatchSize <- 1, started <- startedA,
                               next <- nextA, queue <- queueA, taken <- takenA
B == INSTANCE BatchStream WITH BatchSize <- 1, started <- startedB,
                               next <- nextB, queue <- queueB, taken <- takenB

(***************************************************************************)
(* The noise source, and the state a batch is tagged with.                 *)
(***************************************************************************)
TruePhase(t) == (t + Period - sourcePhase) % Period
NoiseAt(t) == IF TruePhase(t) < OnTime THEN "ON" ELSE "OFF"

Time(id) == id * BlockTime

\* A complete batch is tagged by its first packet, and so is the batch that
\* starts a stream; an incomplete one by the first packet that came or, if
\* none did, like the batch before.
Tags(batch) ==
  LET t == Time(batch.id) IN
  IF batch.valid \/ takenA = <<>>
    THEN {NoiseAt(t)}
    ELSE {NoiseAt(u) : u \in t .. t + BlockTime - 1} \cup {tagA}

(***************************************************************************)
(* Initial state.                                                          *)
(***************************************************************************)
Zero == 0   \* samples set to zero, by cudaMemset or for an invalid block

NoResult == [state |-> "OFF", windows |-> {}, first |-> 0, last |-> 0]

Init == /\ A!Init /\ B!Init
        /\ pc = "A"
        /\ gap = FALSE
        /\ cal_mode \in CalModes
        /\ sourcePhase \in IF cal_mode THEN 0 .. Period - 1 ELSE {0}
        /\ tagA = "OFF"
        /\ noise = "OFF"
        /\ cycleStart = 0
        /\ window = [t \in 1 .. NumTaps |-> Zero]
        /\ invalidLeft = NumTaps - 1
        /\ resetForGap = FALSE
        /\ count = [s \in {"ON", "OFF"} |-> 0]
        /\ firstTime = [s \in {"ON", "OFF"} |-> 0]
        /\ acc = [s \in {"ON", "OFF"} |-> {}]
        /\ result = NoResult
        /\ last = 0 /\ lost = {} /\ used = {} /\ edgeSeen = 0

(***************************************************************************)
(* The receive streams.                                                    *)
(***************************************************************************)
ReceiveA == /\ \/ A!Start /\ nextA' \in StartIds
               \/ A!Publish /\ (Lossless => queueA'[Len(queueA')].valid)
            /\ UNCHANGED <<streamB, workerVars, accVars>>

ReceiveB == /\ \/ B!Start /\ nextB' \in StartIds
               \/ B!Publish /\ (Lossless => queueB'[Len(queueB')].valid)
            /\ UNCHANGED <<streamA, workerVars, accVars>>

(***************************************************************************)
(* accumulate_one_block: the pairing of batches.                           *)
(***************************************************************************)
blockA == takenA[1]
blockB == takenB[1]

TakeA == /\ A!Take
         /\ tagA' \in Tags(Head(queueA))

DequeueA == /\ pc = "A"
            /\ TakeA
            /\ pc' = "B"
            /\ gap' = FALSE
            /\ UNCHANGED <<streamB, setting, noise, cycleStart, window,
                           invalidLeft, last, lost, edgeSeen, accVars>>

DequeueB == /\ pc = "B"
            /\ B!Take
            /\ pc' = "align"
            /\ UNCHANGED <<streamA, gap, setting, tagA, noise, cycleStart,
                           window, invalidLeft, last, lost, edgeSeen, accVars>>

\* The stream that is ahead is advanced.
Align_Ahead == /\ pc = "align"
               /\ blockA.id # blockB.id
               /\ gap' = TRUE
               /\ IF blockA.id > blockB.id
                    THEN TakeA /\ UNCHANGED streamB
                    ELSE B!Take /\ UNCHANGED <<streamA, tagA>>
               /\ UNCHANGED <<pc, setting, noise, cycleStart, window,
                              invalidLeft, last, lost, edgeSeen, accVars>>

\* The stream that is behind gives its next batch.
Align == /\ pc = "align"
         /\ blockA.id # blockB.id
         /\ gap' = TRUE
         /\ IF blockA.id < blockB.id
              THEN TakeA /\ UNCHANGED streamB
              ELSE B!Take /\ UNCHANGED <<streamA, tagA>>
         /\ UNCHANGED <<pc, setting, noise, cycleStart, window,
                        invalidLeft, last, lost, edgeSeen, accVars>>

(***************************************************************************)
(* update_noise_state and is_noise_blank.                                  *)
(***************************************************************************)
\* The reference follows the first change of state and then the ON edges.
NewCycleStart(state, t) ==
  IF state = noise THEN cycleStart
  ELSE IF state = "ON" THEN t
  ELSE IF cycleStart = 0 THEN t - OnTime
  ELSE cycleStart

Abs(x) == IF x < 0 THEN -x ELSE x

\* The block on the boundary of the blanked interval is let through.
NoiseBlank_Strict(t, start) ==
  /\ start # 0
  /\ LET phase == (t - start) % Period
     IN \/ phase < BlankTime
        \/ Period - phase < BlankTime
        \/ Abs(phase - OnTime) < BlankTime

NoiseBlank(t, start) ==
  /\ start # 0
  /\ LET phase == (t - start) % Period
     IN \/ phase <= BlankTime
        \/ Period - phase <= BlankTime
        \/ Abs(phase - OnTime) <= BlankTime

(***************************************************************************)
(* StokesAcc.                                                              *)
(***************************************************************************)
\* The accumulators keep what they had before the gap.
DropIntegrations_Kept ==
  /\ resetForGap' = TRUE
  /\ UNCHANGED <<count, firstTime, acc, result, used>>

\* The output of a window with invalid samples: the accumulators are reset,
\* once per gap.
DropIntegrations ==
  /\ resetForGap' = TRUE
  /\ IF resetForGap
       THEN UNCHANGED <<count, firstTime, acc>>
       ELSE /\ count' = [s \in {"ON", "OFF"} |-> 0]
            /\ firstTime' = [s \in {"ON", "OFF"} |-> 0]
            /\ acc' = [s \in {"ON", "OFF"} |-> {}]
  /\ UNCHANGED <<result, used>>

SkipOutput == resetForGap' = FALSE /\ UNCHANGED <<count, firstTime, acc, result, used>>

Blocks(windows) == {w[NumTaps] : w \in windows}

\* The memset of the accumulator after publication is missing.
AddOutput_NoMemset(s, t, w) ==
  LET n == count[s] + 1
      sum == acc[s] \cup {w}
      start == IF count[s] = 0 THEN t ELSE firstTime[s]
  IN /\ resetForGap' = FALSE
     /\ acc' = [acc EXCEPT ![s] = sum]
     /\ IF n < AccLen
          THEN /\ count' = [count EXCEPT ![s] = n]
               /\ firstTime' = [firstTime EXCEPT ![s] = start]
               /\ UNCHANGED <<result, used>>
          ELSE /\ count' = [count EXCEPT ![s] = 0]
               /\ firstTime' = [firstTime EXCEPT ![s] = 0]
               /\ result' = [state |-> s, windows |-> sum, first |-> start, last |-> t]
               /\ used' = used \cup Blocks(result.windows)

\* Add an output to the integration of its state; publish the integration
\* and clear it when it is complete.
AddOutput(s, t, w) ==
  LET n == count[s] + 1
      sum == acc[s] \cup {w}
      start == IF count[s] = 0 THEN t ELSE firstTime[s]
  IN /\ resetForGap' = FALSE
     /\ IF n < AccLen
          THEN /\ count' = [count EXCEPT ![s] = n]
               /\ firstTime' = [firstTime EXCEPT ![s] = start]
               /\ acc' = [acc EXCEPT ![s] = sum]
               /\ UNCHANGED <<result, used>>
          ELSE /\ count' = [count EXCEPT ![s] = 0]
               /\ firstTime' = [firstTime EXCEPT ![s] = 0]
               /\ acc' = [acc EXCEPT ![s] = {}]
               /\ result' = [state |-> s, windows |-> sum, first |-> start, last |-> t]
               /\ used' = used \cup Blocks(result.windows)

(***************************************************************************)
(* One paired block: the rest of accumulate_one_block, submit_PFB_FFT and  *)
(* StokesAcc.                                                              *)
(***************************************************************************)
InputValid == ~gap /\ blockA.valid /\ blockB.valid

\* The counter is set as at the start, without this block's output.
InvalidOutputs_TapsMinusOne == IF InputValid THEN invalidLeft ELSE NumTaps - 1

\* The counter starts one too high after a gap.
InvalidOutputs_TapsPlusOne == IF InputValid THEN invalidLeft ELSE NumTaps + 1

\* Invalid outputs still to come, this block's included.
InvalidOutputs == IF InputValid THEN invalidLeft ELSE NumTaps

Process ==
  LET id == blockA.id
      t == Time(id)
      start == IF cal_mode THEN NewCycleStart(tagA, t) ELSE cycleStart
      state == IF cal_mode THEN tagA ELSE noise
      w == Append(Tail(window), IF InputValid THEN id ELSE Zero)
  IN /\ pc = "align"
     /\ blockA.id = blockB.id
     /\ pc' = "A"
     /\ noise' = state
     /\ cycleStart' = start
     /\ window' = w
     /\ invalidLeft' = IF InvalidOutputs = 0 THEN 0 ELSE InvalidOutputs - 1
     /\ IF InvalidOutputs # 0 THEN DropIntegrations
        ELSE IF cal_mode /\ NoiseBlank(t, start) THEN SkipOutput
        ELSE AddOutput(IF cal_mode THEN state ELSE "OFF", t, w)
     /\ last' = id
     /\ lost' = IF InputValid THEN lost ELSE lost \cup {id}
     /\ edgeSeen' = IF edgeSeen = 0 /\ noise = "OFF" /\ state = "ON"
                       /\ TruePhase(t) < BlockTime
                      THEN t ELSE edgeSeen
     /\ UNCHANGED <<streamA, streamB, gap, setting, tagA>>

Worker == DequeueA \/ DequeueB \/ Align \/ Process

Next == ReceiveA \/ ReceiveB \/ Worker

Spec == Init /\ [][Next]_vars

\* Both streams deliver, and the worker thread runs.
FairSpec == Spec /\ WF_vars(ReceiveA) /\ WF_vars(ReceiveB) /\ WF_vars(Worker)

(***************************************************************************)
(* Correctness.                                                            *)
(***************************************************************************)
States == {"ON", "OFF"}

\* Type invariant of the worker's members.
TypeOK == /\ pc \in {"A", "B", "align"}
          /\ gap \in BOOLEAN /\ resetForGap \in BOOLEAN
          /\ tagA \in States /\ noise \in States
          /\ cycleStart \in Int
          /\ window \in [1 .. NumTaps -> BatchIds \cup {Zero}]
          /\ invalidLeft \in 0 .. NumTaps - 1
          /\ count \in [States -> 0 .. AccLen - 1]
          /\ firstTime \in [States -> Nat]
          /\ last \in BatchIds \cup {0}

\* Streams that start at different batches are aligned once: after the first
\* block both always deliver the successor of the block before, so that no
\* block is skipped and alignment_gap is never set again.
AlignedForGood ==
  pc = "align" /\ last # 0 => blockA.id = last + 1 /\ blockB.id = last + 1

\* The window of an output: NumTaps consecutive blocks, none set to zero.
Intact(w) == \A t \in 1 .. NumTaps : w[t] # Zero /\ w[t] = w[NumTaps] - NumTaps + t

\* A published integration adds up exactly m_acc_len distinct outputs whose
\* filter windows are intact, and is dated by the first and last of them;
\* without calibration these are consecutive.
IntegrationExact ==
  result # NoResult =>
    LET blocks == Blocks(result.windows) IN
    /\ Cardinality(result.windows) = AccLen
    /\ \A w \in result.windows : Intact(w)
    /\ \A b \in blocks : Time(b) \in result.first .. result.last
    /\ \E b, c \in blocks : Time(b) = result.first /\ Time(c) = result.last
    /\ ~cal_mode => result.last - result.first = Time(AccLen - 1)

\* No integration spans a gap: between its first filter input and its last
\* block every block was valid (the reset in StokesAcc).
NoGapInside ==
  result # NoResult =>
    \A b \in lost : ~(Time(b) \in result.first - Time(NumTaps - 1) .. result.last)

\* No output is counted in two integrations, ON or OFF (the accumulators are
\* cleared with the counters).
NoOutputTwice == Blocks(result.windows) \cap used = {}

\* The configurations whose blanked interval is as long as the property below
\* needs: it covers the memory of the filter, and the two blocks by which a
\* block and the cycle reference may lag behind the source.  The code asks
\* only for transition_blank_ms >= 0.
BlankingCovers == /\ Time(NumTaps - 1) <= BlankTime + 1
                  /\ Time(2) - 2 <= BlankTime

\* With no loss, once the source has been seen to switch on, an integration
\* only holds samples taken in the state it is labelled with: the blanked
\* interval hides both the switching and the memory of the filter.
CalibrationPure ==
  edgeSeen # 0 /\ result.first >= edgeSeen =>
    \A w \in result.windows, k \in 1 .. NumTaps, u \in 0 .. BlockTime - 1 :
      NoiseAt(Time(w[k]) + u) = result.state

\* A block both streams deliver is integrated or dropped: neither stream
\* waits for ever on the other, although both are blocked by full queues.
PairsProcessed ==
  \A id \in BatchIds :
    (startedA /\ startedB /\ nextA > id /\ nextB > id) ~> last >= id

(***************************************************************************)
(* A statement of a comment in update_noise_state that does not hold.      *)
(***************************************************************************)
\* "Establish the cycle reference on the first state transition": a known
\* reference is the first block after the source really switched on.
ReferenceAtTransition == cycleStart # 0 => TruePhase(cycleStart) < BlockTime
=============================================================================
