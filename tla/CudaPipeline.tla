---------------------------- MODULE CudaPipeline ----------------------------
(***************************************************************************)
(* How the worker of a subband drives the GPU (accumulate_one_block,       *)
(* submit_PFB_FFT and StokesAcc in src/include/DoPFBFFT.hpp).  The host    *)
(* puts operations into CUDA streams.  A stream executes its operations in *)
(* order; between streams the order is that of the events, and the host    *)
(* waits for the copies to the device and for a finished integration only. *)
(* The buffers on the device are used again for every block.               *)
(*                                                                         *)
(* The nth operation of each kind is that of block n, so it is enough to   *)
(* count the operations done; what was issued follows from where the host  *)
(* is.  Samples are abstracted to the number of their block.  All blocks   *)
(* are valid here and the noise source is not used: GpuPfbFft models that. *)
(***************************************************************************)
EXTENDS Integers, FiniteSets

CONSTANTS NumTaps,    \* m_num_taps
          AccLen,     \* m_acc_len
          MaxBlocks   \* number of blocks (bound)

ASSUME PipelineAssumption == /\ NumTaps \in Nat \ {0} /\ AccLen \in Nat \ {0}
                             /\ MaxBlocks \in Nat

VARIABLES
  block,     \* the block the host works on
  hpc,       \* where it is: "copy", "wait", "submit", "stokes" or "sync"
  count,     \* m_acc_id
  done,      \* operations done, by kind and polarisation
  stokes,    \* operations done on sD2H, which serves both polarisations
  raw,       \* m_rawA and m_rawB
  ring,      \* m_d_inputA and m_d_inputB, a slot for each of NumTaps blocks
  pfbed,     \* m_d_pfbedA and m_d_pfbedB
  ffted,     \* m_ffted_bufsA and m_ffted_bufsB
  acc,       \* outputs in m_acc_stokes_OFF
  result,    \* outputs in the host slot published last
  raced      \* History: a buffer was written before its last reader was done.

hostVars == <<block, hpc, count, result>>
buffers == <<raw, ring, pfbed, ffted>>
vars == <<hostVars, done, stokes, buffers, acc, raced>>

Pols == {"A", "B"}
Kinds == {"h2d", "conv", "pfb", "fft"}
Taps == 0 .. NumTaps - 1
Zero == 0     \* what cudaMemset leaves in the buffers
Silence == [t \in Taps |-> Zero]

Init == /\ block = 1
        /\ hpc = "copy"
        /\ count = 0
        /\ done = [k \in Kinds |-> [p \in Pols |-> 0]]
        /\ stokes = 0
        /\ raw = [p \in Pols |-> Zero]
        /\ ring = [p \in Pols |-> Silence]
        /\ pfbed = [p \in Pols |-> Silence]
        /\ ffted = [p \in Pols |-> Silence]
        /\ acc = {}
        /\ result = {}
        /\ raced = FALSE

(***************************************************************************)
(* The host.                                                               *)
(***************************************************************************)
\* Blocks whose copy, whose kernels and whose accumulation were issued.
Copied == IF hpc = "copy" THEN block - 1 ELSE block
Submitted == IF hpc \in {"stokes", "sync"} THEN block ELSE block - 1
Accumulated == IF hpc = "sync" THEN block ELSE block - 1

GpuUnchanged == UNCHANGED <<done, stokes, buffers, raced>>

IssueCopy == /\ hpc = "copy" /\ block <= MaxBlocks
             /\ hpc' = "wait"
             /\ UNCHANGED <<block, count, result, acc>>
             /\ GpuUnchanged

\* cudaEventSynchronize on both evtH2D_done.
CopiesDone == /\ hpc = "wait"
              /\ \A p \in Pols : done["h2d"][p] = block
              /\ hpc' = "submit"
              /\ UNCHANGED <<block, count, result, acc>>
              /\ GpuUnchanged

SubmitPfbFft == /\ hpc = "submit"
                /\ hpc' = "stokes"
                /\ UNCHANGED <<block, count, result, acc>>
                /\ GpuUnchanged

\* The first NumTaps - 1 outputs are not accumulated; the host only stops
\* when an integration is complete.
IssueStokes ==
  LET n == IF block < NumTaps THEN count ELSE count + 1
      full == n >= AccLen
  IN /\ hpc = "stokes"
     /\ count' = n
     /\ hpc' = IF full THEN "sync" ELSE "copy"
     /\ block' = IF full THEN block ELSE block + 1
     /\ UNCHANGED <<result, acc>>
     /\ GpuUnchanged

\* The copy of the result is not waited for.
PublishResult_NoSync ==
                 /\ hpc = "sync"
                 /\ result' = acc
                 /\ acc' = {}
                 /\ count' = 0
                 /\ hpc' = "copy"
                 /\ block' = block + 1
                 /\ GpuUnchanged

\* The copy of the accumulator has reached the host; the accumulator is
\* cleared by the next operation on sD2H.
PublishResult == /\ hpc = "sync"
                 /\ stokes = block
                 /\ result' = acc
                 /\ acc' = {}
                 /\ count' = 0
                 /\ hpc' = "copy"
                 /\ block' = block + 1
                 /\ GpuUnchanged

Host == IssueCopy \/ CopiesDone \/ SubmitPfbFft \/ IssueStokes \/ PublishResult

(***************************************************************************)
(* The GPU.                                                                *)
(***************************************************************************)
Nth(k, p) == done[k][p] + 1
Finish(k, p) == done' = [done EXCEPT ![k][p] = @ + 1]

\* Stream sH2D: the block's samples replace those of the block before.
H2D(p) == /\ Nth("h2d", p) <= Copied
          /\ Finish("h2d", p)
          /\ raw' = [raw EXCEPT ![p] = Nth("h2d", p)]
          /\ raced' = (raced \/ done["conv"][p] < done["h2d"][p])
          /\ UNCHANGED <<hostVars, stokes, ring, pfbed, ffted, acc>>

\* m_pfb_head when block n is converted, in blocks.
RingSlot(n) == (n - 1) % NumTaps

\* Stream sConv, after evtH2D_done: uint8_offsetIQ_to_ring.
Conv(p) == /\ Nth("conv", p) <= Submitted
           /\ Nth("conv", p) <= done["h2d"][p]
           /\ Finish("conv", p)
           /\ ring' = [ring EXCEPT ![p][RingSlot(Nth("conv", p))] = raw[p]]
           /\ raced' = (raced \/ done["pfb"][p] < done["conv"][p])
           /\ UNCHANGED <<hostVars, stokes, raw, pfbed, ffted, acc>>

\* The wait for evtConv_done is missing.
Pfb_NoWait(p) == /\ Nth("pfb", p) <= Submitted
                 /\ Nth("pfb", p) = Nth("fft", p)
                 /\ Finish("pfb", p)
                 /\ pfbed' = [pfbed EXCEPT ![p] =
                       [t \in Taps |-> ring[p][RingSlot(Nth("pfb", p) + 1 + t)]]]
                 /\ UNCHANGED <<hostVars, stokes, raw, ring, ffted, acc, raced>>

\* Stream sPFB, after evtConv_done: kernel_pfb_sum, from the oldest block on.
Pfb(p) == /\ Nth("pfb", p) <= Submitted
          /\ Nth("pfb", p) <= done["conv"][p]
          /\ Nth("pfb", p) = Nth("fft", p)
          /\ Finish("pfb", p)
          /\ pfbed' = [pfbed EXCEPT ![p] =
                [t \in Taps |-> ring[p][RingSlot(Nth("pfb", p) + 1 + t)]]]
          /\ UNCHANGED <<hostVars, stokes, raw, ring, ffted, acc, raced>>

\* Still sPFB: cufftExecC2C and fftshift_1d.
Fft(p) == /\ Nth("fft", p) <= done["pfb"][p]
          /\ Finish("fft", p)
          /\ ffted' = [ffted EXCEPT ![p] = pfbed[p]]
          /\ raced' = (raced \/ stokes < done["fft"][p])
          /\ UNCHANGED <<hostVars, stokes, raw, ring, pfbed, acc>>

\* The wait for evtPFBB_done is missing.
Stokes_OneWait == /\ stokes + 1 <= Accumulated
                  /\ stokes + 1 <= done["fft"]["A"]
                  /\ stokes' = stokes + 1
                  /\ acc' = IF stokes + 1 < NumTaps THEN acc
                            ELSE acc \cup {[block |-> stokes + 1, input |-> ffted]}
                  /\ UNCHANGED <<hostVars, done, buffers, raced>>

\* Stream sD2H, after both evtPFB_done: stokes_IQUV_accumulate.
Stokes == /\ stokes + 1 <= Accumulated
          /\ \A p \in Pols : stokes + 1 <= done["fft"][p]
          /\ stokes' = stokes + 1
          /\ acc' = IF stokes + 1 < NumTaps THEN acc
                    ELSE acc \cup {[block |-> stokes + 1, input |-> ffted]}
          /\ UNCHANGED <<hostVars, done, buffers, raced>>

Gpu == Stokes \/ \E p \in Pols : H2D(p) \/ Conv(p) \/ Pfb(p) \/ Fft(p)

Next == Host \/ Gpu

Spec == Init /\ [][Next]_vars

(***************************************************************************)
(* Correctness.                                                            *)
(***************************************************************************)
WindowOf(n) == [t \in Taps |-> n - NumTaps + 1 + t]

\* Type invariant; no stream is ahead of the operations issued to it.
TypeOK == /\ block \in 1 .. MaxBlocks + 1
          /\ hpc \in {"copy", "wait", "submit", "stokes", "sync"}
          /\ count \in 0 .. AccLen
          /\ done \in [Kinds -> [Pols -> 0 .. MaxBlocks]]
          /\ stokes \in 0 .. Accumulated
          /\ raw \in [Pols -> 0 .. MaxBlocks]
          /\ {ring[p] : p \in Pols} \cup {pfbed[p] : p \in Pols}
               \cup {ffted[p] : p \in Pols} \subseteq [Taps -> 0 .. MaxBlocks]

\* As long as no buffer is written before its last reader is done (the raw
\* block before its conversion, a ring slot before the filter, a spectrum
\* before the accumulation), every output of block n, in both polarisations,
\* is computed from blocks n - NumTaps + 1 to n.  All other orders are
\* enforced by the events, however far the GPU is behind.
OutputsExact ==
  ~raced => \A o \in acc \cup result : \A p \in Pols : o.input[p] = WindowOf(o.block)

\* Whatever the GPU's timing, a published integration adds up AccLen
\* consecutive blocks and nothing is added twice or left behind ("launches
\* using this accumulator are serialized on sD2H").
ResultComplete ==
  result # {} => \E n \in 1 .. MaxBlocks :
    {o.block : o \in result} = n .. n + AccLen - 1 /\ Cardinality(result) = AccLen

\* When the host exposes a result, the device has nothing left to do: the
\* copy, the conversion, the filter and the FFT of every block so far are
\* done, in both polarisations, although StokesAcc waits for one event of one
\* stream.  The host waits for no kernel elsewhere, so this alone ends a
\* backlog of the device: what the events do not order (raced) never reaches
\* from one integration into the next.
DrainedWhenPublished ==
  [][result' # result => \A k \in Kinds, p \in Pols : done[k][p] = block]_vars

\* The comment on m_pfb_head, "head points to the oldest sample of current PFB
\* window": when the filter has read block n's window from the head on, it
\* starts with block n - NumTaps + 1.
HeadIsOldest ==
  \A p \in Pols : LET n == done["pfb"][p] IN
    n >= NumTaps => pfbed[p][0] = n - NumTaps + 1
=============================================================================
