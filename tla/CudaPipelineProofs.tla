------------------------- MODULE CudaPipelineProofs -------------------------
(***************************************************************************)
(* Proofs about CudaPipeline, for every number of taps, length of an       *)
(* integration and number of blocks, and for every relative speed of the   *)
(* host and of the CUDA streams.                                           *)
(***************************************************************************)
EXTENDS CudaPipeline, FiniteSetTheorems, TLAPS

USE PipelineAssumption

(***************************************************************************)
(* The inductive invariant.                                                *)
(***************************************************************************)
WindowType == [Taps -> 0 .. MaxBlocks]

Types == /\ block \in 1 .. MaxBlocks + 1
         /\ hpc \in {"copy", "wait", "submit", "stokes", "sync"}
         /\ count \in 0 .. AccLen
         /\ done \in [Kinds -> [Pols -> Nat]]
         /\ stokes \in Nat
         /\ raw \in [Pols -> 0 .. MaxBlocks]
         /\ ring \in [Pols -> WindowType]
         /\ pfbed \in [Pols -> WindowType]
         /\ ffted \in [Pols -> WindowType]
         /\ raced \in BOOLEAN

\* The host is inside a block unless it is about to start one, and waits for
\* the accumulator when the integration is complete.
HostInBlock == /\ hpc # "copy" => block <= MaxBlocks
               /\ IF hpc = "sync" THEN count = AccLen ELSE count < AccLen

\* What the streams and the events order, for one polarisation.
OrderOf(p) == /\ done["h2d"][p] <= Copied
              /\ done["conv"][p] <= done["h2d"][p] /\ done["conv"][p] <= Submitted
              /\ done["pfb"][p] <= done["conv"][p]
              /\ done["fft"][p] <= done["pfb"][p] /\ done["pfb"][p] <= done["fft"][p] + 1
              /\ stokes <= done["fft"][p]

Ordered == stokes <= Accumulated /\ \A p \in Pols : OrderOf(p)

Basic == Types /\ HostInBlock /\ Ordered

\* What nothing but speed orders, for one polarisation.
CloseOf(p) == /\ done["h2d"][p] <= done["conv"][p] + 1
              /\ done["conv"][p] <= done["pfb"][p] + 1
              /\ done["fft"][p] <= stokes + 1

\* The ring holds the last NumTaps blocks that were converted.
RingOf(p) == \A m \in 1 .. done["conv"][p] :
               m > done["conv"][p] - NumTaps => ring[p][RingSlot(m)] = m

\* The two buffers behind it hold the window of the block they were last
\* written for.
SpectraOf(p) ==
  /\ done["pfb"][p] >= NumTaps => pfbed[p] = WindowOf(done["pfb"][p])
  /\ done["fft"][p] >= NumTaps => ffted[p] = WindowOf(done["fft"][p])

BufferOf(p) == CloseOf(p) /\ RingOf(p) /\ SpectraOf(p) /\ raw[p] = done["h2d"][p]

BuffersExact == \A p \in Pols : BufferOf(p)

\* The first block of the integration the host is at.
Base == Accumulated - count + 1

\* The accumulator holds one output of every block of that integration that
\* sD2H has reached, except the first NumTaps - 1 blocks of all.
Summed == /\ \A o \in acc : o.block \in Nat /\ o.block >= NumTaps
                            /\ Base <= o.block /\ o.block <= stokes
          /\ \A b \in Nat : b >= NumTaps /\ Base <= b /\ b <= stokes =>
               \E o \in acc : o.block = b
          /\ \A o, q \in acc : o.block = q.block => o = q
          /\ count > 0 => Base >= NumTaps
          /\ Base <= NumTaps \/ Base <= stokes + 1

PipelineInv == /\ Basic
               /\ ~raced => BuffersExact
               /\ OutputsExact
               /\ Summed
               /\ ResultComplete

(***************************************************************************)
(* Arithmetic of the ring.                                                 *)
(***************************************************************************)
\* Division with remainder, in the form the prover knows, and its uniqueness.
LEMMA DivMod ==
  ASSUME NEW x \in Int, NEW d \in Int, d > 0
  PROVE  /\ x \div d \in Int /\ x % d \in 0 .. d - 1
         /\ x = (x \div d) * d + (x % d)
  OBVIOUS

\* The remainder is the only one of its kind.
LEMMA ModUnique ==
  ASSUME NEW x \in Int, NEW d \in Int, d > 0, NEW q \in Int, NEW r \in 0 .. d - 1,
         x = d * q + r
  PROVE  x % d = r
  OBVIOUS

\* A slot of the ring m_d_input is used again after NumTaps blocks ...
LEMMA SlotAgain ==
  ASSUME NEW n \in Nat \ {0}
  PROVE  RingSlot(n + NumTaps) = RingSlot(n) /\ RingSlot(n) \in Taps
<1> DEFINE x == n - 1
           q == x \div NumTaps
           r == x % NumTaps
<1>1. x \in Int /\ q \in Int /\ r \in 0 .. NumTaps - 1 /\ x = q * NumTaps + r
  BY DivMod
<1>2. n + NumTaps - 1 = NumTaps * (q + 1) + r
  <2> HIDE DEF q, r
  <2> QED
    BY <1>1
<1>3. (n + NumTaps - 1) % NumTaps = r
  <2>1. n + NumTaps - 1 \in Int /\ q + 1 \in Int
    BY <1>1
  <2> HIDE DEF q, r
  <2> QED
    BY <1>1, <1>2, <2>1, ModUnique
<1> QED
  BY <1>1, <1>3 DEF RingSlot, Taps

\* ... and not before.
LEMMA SlotsDiffer ==
  ASSUME NEW m \in Nat \ {0}, NEW n \in Nat, m < n, n < m + NumTaps
  PROVE  RingSlot(m) # RingSlot(n)
<1> SUFFICES ASSUME (m - 1) % NumTaps = (n - 1) % NumTaps PROVE FALSE
  BY DEF RingSlot
<1> DEFINE a == (m - 1) \div NumTaps
           b == (n - 1) \div NumTaps
           r == (m - 1) % NumTaps
<1>1. a \in Int /\ b \in Int /\ r \in Int /\ m - 1 = a * NumTaps + r /\ n - 1 = b * NumTaps + r
  BY DivMod
<1> HIDE DEF a, b, r
<1>2. CASE b <= a
  <2>1. b * NumTaps <= a * NumTaps
    BY <1>1, <1>2
  <2> QED
    BY <1>1, <2>1
<1>3. CASE b > a
  <2>1. b * NumTaps >= (a + 1) * NumTaps /\ (a + 1) * NumTaps = a * NumTaps + NumTaps
    BY <1>1, <1>3
  <2> QED
    BY <1>1, <2>1
<1> QED
  BY <1>1, <1>2, <1>3

(***************************************************************************)
(* Types and the order of the operations.                                  *)
(***************************************************************************)
\* The counters the invariant compares.
LEMMA Counts ==
  ASSUME Types
  PROVE  /\ \A p \in Pols : /\ done["h2d"][p] \in Nat /\ done["conv"][p] \in Nat
                            /\ done["pfb"][p] \in Nat /\ done["fft"][p] \in Nat
                            /\ raw[p] \in 0 .. MaxBlocks /\ ring[p] \in WindowType
                            /\ pfbed[p] \in WindowType /\ ffted[p] \in WindowType
         /\ stokes \in Nat /\ block \in Nat /\ block > 0 /\ count \in Nat
         /\ Copied \in Nat /\ Submitted \in Nat /\ Accumulated \in Nat
<1>1. {"h2d", "conv", "pfb", "fft"} = Kinds
  BY DEF Kinds
<1>2. \A k \in Kinds : \A p \in Pols : done[k][p] \in Nat
  BY DEF Types
<1>3. stokes \in Nat /\ block \in Nat /\ block > 0 /\ count \in Nat
  BY DEF Types
<1>4. Copied \in Nat /\ Submitted \in Nat /\ Accumulated \in Nat
  BY <1>3 DEF Copied, Submitted, Accumulated
<1> QED
  BY <1>1, <1>2, <1>3, <1>4 DEF Types

\* An operation is done.
LEMMA Finished ==
  ASSUME Types, NEW k \in Kinds, NEW p \in Pols, Finish(k, p)
  PROVE  /\ done' \in [Kinds -> [Pols -> Nat]]
         /\ done'[k][p] = done[k][p] + 1
         /\ \A j \in Kinds, q \in Pols : j # k \/ q # p => done'[j][q] = done[j][q]
<1>1. done \in [Kinds -> [Pols -> Nat]] /\ done[k] \in [Pols -> Nat]
  BY DEF Types
<1>2. done' = [done EXCEPT ![k] = [done[k] EXCEPT ![p] = done[k][p] + 1]]
  BY DEF Finish
<1>3. [done[k] EXCEPT ![p] = done[k][p] + 1] \in [Pols -> Nat]
  BY <1>1
<1> QED
  BY <1>1, <1>2, <1>3

\* The host's steps leave the GPU alone and only issue more.
LEMMA HostIssues ==
  ASSUME Basic, Host
  PROVE  /\ UNCHANGED <<done, stokes, raw, ring, pfbed, ffted, raced>>
         /\ Copied <= Copied' /\ Submitted <= Submitted' /\ Accumulated <= Accumulated'
         /\ Copied' \in Nat /\ Submitted' \in Nat /\ Accumulated' \in Nat
         /\ block' \in 1 .. MaxBlocks + 1 /\ count' \in 0 .. AccLen
         /\ hpc' \in {"copy", "wait", "submit", "stokes", "sync"}
         /\ HostInBlock'
<1>1. UNCHANGED <<done, stokes, raw, ring, pfbed, ffted, raced>>
  BY DEF Host, IssueCopy, CopiesDone, SubmitPfbFft, IssueStokes, PublishResult,
     GpuUnchanged, buffers
<1>2. /\ block \in 1 .. MaxBlocks + 1 /\ count \in 0 .. AccLen
      /\ hpc \in {"copy", "wait", "submit", "stokes", "sync"} /\ HostInBlock
  BY DEF Basic, Types
<1>3. CASE IssueCopy
  BY <1>1, <1>2, <1>3 DEF IssueCopy, HostInBlock, Copied, Submitted, Accumulated
<1>4. CASE CopiesDone
  BY <1>1, <1>2, <1>4 DEF CopiesDone, HostInBlock, Copied, Submitted, Accumulated
<1>5. CASE SubmitPfbFft
  BY <1>1, <1>2, <1>5 DEF SubmitPfbFft, HostInBlock, Copied, Submitted, Accumulated
<1>6. CASE IssueStokes
  BY <1>1, <1>2, <1>6 DEF IssueStokes, HostInBlock, Copied, Submitted, Accumulated
<1>7. CASE PublishResult
  BY <1>1, <1>2, <1>7 DEF PublishResult, HostInBlock, Copied, Submitted, Accumulated
<1> QED
  BY <1>3, <1>4, <1>5, <1>6, <1>7 DEF Host

\* What the GPU's steps leave of the host.
LEMMA HostStays ==
  ASSUME UNCHANGED <<block, hpc, count>>
  PROVE  /\ Copied' = Copied /\ Submitted' = Submitted /\ Accumulated' = Accumulated
         /\ Base' = Base /\ (HostInBlock => HostInBlock')
  BY DEF Copied, Submitted, Accumulated, Base, HostInBlock

\* Every step of the host and of a stream keeps the types and the order.
LEMMA BasicStep == Basic /\ [Next]_vars => Basic'
<1> SUFFICES ASSUME Basic, [Next]_vars PROVE Basic'
  OBVIOUS
<1>0. /\ Types /\ HostInBlock /\ stokes <= Accumulated
      /\ \A p \in Pols : OrderOf(p)
      /\ "h2d" \in Kinds /\ "conv" \in Kinds /\ "pfb" \in Kinds /\ "fft" \in Kinds
  BY DEF Basic, Ordered, Kinds
<1>00. Copied <= MaxBlocks
  BY <1>0 DEF Types, HostInBlock, Copied
<1>1. CASE Host
  <2>1. Types'
    BY <1>0, <1>1, HostIssues DEF Types
  <2>2. Copied' \in Nat /\ Submitted' \in Nat /\ Accumulated' \in Nat
    BY <1>1, HostIssues
  <2>3. ASSUME NEW p \in Pols PROVE OrderOf(p)'
    <3>1. OrderOf(p)
      BY <1>0
    <3>2. UNCHANGED <<done, stokes>> /\ Copied <= Copied' /\ Submitted <= Submitted'
      BY <1>1, HostIssues
    <3>3. /\ done["h2d"][p] \in Nat /\ done["conv"][p] \in Nat
          /\ Copied \in Nat /\ Submitted \in Nat
      BY <1>0, Counts
    <3> QED
      BY <2>2, <3>1, <3>2, <3>3 DEF OrderOf
  <2>4. stokes' <= Accumulated'
    BY <1>0, <1>1, <2>2, HostIssues, Counts
  <2> QED
    BY <1>1, <2>1, <2>3, <2>4, HostIssues DEF Basic, Ordered
<1>2. CASE Stokes
  <2>1. /\ stokes + 1 <= Accumulated /\ \A p \in Pols : stokes + 1 <= done["fft"][p]
        /\ stokes' = stokes + 1
        /\ UNCHANGED <<block, hpc, count, done, raw, ring, pfbed, ffted, raced>>
    BY <1>2 DEF Stokes, hostVars, buffers
  <2>2. Types'
    BY <1>0, <2>1 DEF Types
  <2>3. Ordered'
    BY <1>0, <2>1, HostStays, Counts DEF Ordered, OrderOf
  <2> QED
    BY <1>0, <2>1, <2>2, <2>3, HostStays DEF Basic
<1>3. ASSUME NEW p \in Pols, H2D(p) PROVE Basic'
  <2>1. /\ done["h2d"][p] + 1 <= Copied /\ Finish("h2d", p)
        /\ raw' = [raw EXCEPT ![p] = done["h2d"][p] + 1]
        /\ raced' = (raced \/ done["conv"][p] < done["h2d"][p])
        /\ UNCHANGED <<block, hpc, count, stokes, ring, pfbed, ffted>>
    BY <1>3 DEF H2D, Nth, hostVars
  <2>2. Types'
    <3>1. raced' \in BOOLEAN
      BY Zenon, <1>0, <2>1 DEF Types
    <3>2. done["h2d"][p] + 1 \in 0 .. MaxBlocks
      BY <1>0, <1>00, <2>1, Counts
    <3> QED
      BY <1>0, <2>1, <3>1, <3>2, Finished DEF Types
  <2>3. ASSUME NEW q \in Pols PROVE OrderOf(q)'
    <3>1. OrderOf(q)
      BY <1>0
    <3> QED
      BY <1>0, <2>1, <3>1, HostStays, Finished, Counts DEF OrderOf
  <2> QED
    BY <1>0, <2>1, <2>2, <2>3, HostStays DEF Basic, Ordered
<1>4. ASSUME NEW p \in Pols, Conv(p) PROVE Basic'
  <2>1. /\ done["conv"][p] + 1 <= Submitted /\ done["conv"][p] + 1 <= done["h2d"][p]
        /\ Finish("conv", p)
        /\ ring' = [ring EXCEPT ![p] = [ring[p] EXCEPT ![RingSlot(done["conv"][p] + 1)] = raw[p]]]
        /\ raced' = (raced \/ done["pfb"][p] < done["conv"][p])
        /\ UNCHANGED <<block, hpc, count, stokes, raw, pfbed, ffted>>
    BY <1>4 DEF Conv, Nth, hostVars
  <2>2. Types'
    <3>1. raced' \in BOOLEAN
      BY Zenon, <1>0, <2>1 DEF Types
    <3>2. [ring[p] EXCEPT ![RingSlot(done["conv"][p] + 1)] = raw[p]] \in WindowType
      BY <1>0, Counts DEF WindowType
    <3> QED
      BY <1>0, <2>1, <3>1, <3>2, Finished DEF Types
  <2>3. ASSUME NEW q \in Pols PROVE OrderOf(q)'
    <3>1. OrderOf(q)
      BY <1>0
    <3> QED
      BY <1>0, <2>1, <3>1, HostStays, Finished, Counts DEF OrderOf
  <2> QED
    BY <1>0, <2>1, <2>2, <2>3, HostStays DEF Basic, Ordered
<1>5. ASSUME NEW p \in Pols, Pfb(p) PROVE Basic'
  <2> DEFINE read == [t \in Taps |-> ring[p][RingSlot(done["pfb"][p] + 1 + 1 + t)]]
  <2>1. /\ done["pfb"][p] + 1 <= done["conv"][p] /\ done["pfb"][p] + 1 = done["fft"][p] + 1
        /\ Finish("pfb", p)
        /\ pfbed' = [pfbed EXCEPT ![p] = read]
        /\ UNCHANGED <<block, hpc, count, stokes, raw, ring, ffted, raced>>
    BY <1>5 DEF Pfb, Nth, hostVars
  <2>2. read \in WindowType
    <3>1. \A t \in Taps : RingSlot(done["pfb"][p] + 1 + 1 + t) \in Taps
      <4> SUFFICES ASSUME NEW t \in Taps PROVE RingSlot(done["pfb"][p] + 1 + 1 + t) \in Taps
        OBVIOUS
      <4>1. done["pfb"][p] + 1 + 1 + t \in Nat \ {0}
        BY <1>0, Counts DEF Taps
      <4> QED
        BY <4>1, SlotAgain
    <3>2. ring[p] \in [Taps -> 0 .. MaxBlocks]
      BY <1>0, Counts DEF WindowType
    <3> QED
      BY <3>1, <3>2 DEF WindowType
  <2> HIDE DEF read
  <2>3. Types'
    BY <1>0, <2>1, <2>2, Finished DEF Types
  <2>4. ASSUME NEW q \in Pols PROVE OrderOf(q)'
    <3>1. OrderOf(q)
      BY <1>0
    <3> QED
      BY <1>0, <2>1, <3>1, HostStays, Finished, Counts DEF OrderOf
  <2> QED
    BY <1>0, <2>1, <2>3, <2>4, HostStays DEF Basic, Ordered
<1>6. ASSUME NEW p \in Pols, Fft(p) PROVE Basic'
  <2>1. /\ done["fft"][p] + 1 <= done["pfb"][p] /\ Finish("fft", p)
        /\ ffted' = [ffted EXCEPT ![p] = pfbed[p]]
        /\ raced' = (raced \/ stokes < done["fft"][p])
        /\ UNCHANGED <<block, hpc, count, stokes, raw, ring, pfbed>>
    BY <1>6 DEF Fft, Nth, hostVars
  <2>2. Types'
    <3>1. raced' \in BOOLEAN
      BY Zenon, <1>0, <2>1 DEF Types
    <3> QED
      BY <1>0, <2>1, <3>1, Finished, Counts DEF Types
  <2>3. ASSUME NEW q \in Pols PROVE OrderOf(q)'
    <3>1. OrderOf(q)
      BY <1>0
    <3> QED
      BY <1>0, <2>1, <3>1, HostStays, Finished, Counts DEF OrderOf
  <2> QED
    BY <1>0, <2>1, <2>2, <2>3, HostStays DEF Basic, Ordered
<1>7. CASE UNCHANGED vars
  BY <1>0, <1>7, HostStays DEF vars, hostVars, buffers, Basic, Types, Ordered, OrderOf
<1> QED
  BY <1>1, <1>2, <1>3, <1>4, <1>5, <1>6, <1>7 DEF Next, Gpu

(***************************************************************************)
(* What is in the buffers, as long as nothing races.                       *)
(***************************************************************************)
\* A polarisation none of whose buffers or counters changes.
LEMMA OtherPol ==
  ASSUME NEW p \in Pols, BufferOf(p), Types,
         \A k \in Kinds : done'[k][p] = done[k][p],
         raw'[p] = raw[p], ring'[p] = ring[p], pfbed'[p] = pfbed[p], ffted'[p] = ffted[p],
         stokes' \in {stokes, stokes + 1}
  PROVE  BufferOf(p)'
<1>1. /\ done'["h2d"][p] = done["h2d"][p] /\ done'["conv"][p] = done["conv"][p]
      /\ done'["pfb"][p] = done["pfb"][p] /\ done'["fft"][p] = done["fft"][p]
  BY DEF Kinds
<1>2. CloseOf(p)'
  BY <1>1, Counts DEF BufferOf, CloseOf
<1> QED
  BY <1>1, <1>2 DEF BufferOf, RingOf, SpectraOf

\* The conversion of a block puts it where the oldest was.
LEMMA ConvBuffer ==
  ASSUME Basic, NEW p \in Pols, BufferOf(p), Conv(p), ~raced'
  PROVE  BufferOf(p)'
<1> DEFINE n == done["conv"][p] + 1
<1>1. /\ n <= done["h2d"][p] /\ Finish("conv", p)
      /\ ring' = [ring EXCEPT ![p] = [ring[p] EXCEPT ![RingSlot(n)] = raw[p]]]
      /\ raced' = (raced \/ done["pfb"][p] < done["conv"][p])
      /\ UNCHANGED <<stokes, raw, pfbed, ffted>>
  BY DEF Conv, Nth
<1>0. /\ Types /\ OrderOf(p) /\ CloseOf(p) /\ RingOf(p) /\ SpectraOf(p)
      /\ raw[p] = done["h2d"][p]
  BY DEF Basic, Ordered, BufferOf
<1>2. /\ done'["h2d"][p] = done["h2d"][p] /\ done'["conv"][p] = n
      /\ done'["pfb"][p] = done["pfb"][p] /\ done'["fft"][p] = done["fft"][p]
  BY <1>0, <1>1, Finished DEF Kinds
<1>3. n \in Nat \ {0} /\ raw[p] = n
  BY <1>0, <1>1, Counts DEF CloseOf
<1>4. CloseOf(p)'
  <2>1. ~(done["pfb"][p] < done["conv"][p])
    BY Zenon, <1>1
  <2> QED
    BY <1>0, <1>1, <1>2, <2>1, Counts DEF CloseOf, OrderOf
<1>5. SpectraOf(p)' /\ raw'[p] = done'["h2d"][p]
  BY <1>0, <1>1, <1>2 DEF SpectraOf
<1>6. RingOf(p)'
  <2> SUFFICES ASSUME NEW m \in 1 .. n, m > n - NumTaps
               PROVE  ring'[p][RingSlot(m)] = m
    BY <1>2 DEF RingOf
  <2>1. RingSlot(n) \in Taps /\ RingSlot(m) \in Taps
    <3>1. m \in Nat \ {0} /\ n \in Nat \ {0}
      BY <1>3
    <3> QED
      BY <3>1, SlotAgain
  <2>2. ring'[p] = [ring[p] EXCEPT ![RingSlot(n)] = raw[p]] /\ ring[p] \in [Taps -> 0 .. MaxBlocks]
    BY <1>0, <1>1 DEF Types, WindowType
  <2>3. CASE m = n
    BY <1>3, <2>1, <2>2, <2>3
  <2>4. CASE m # n
    <3>1. m \in 1 .. done["conv"][p] /\ m > done["conv"][p] - NumTaps
      BY <1>0, <1>3, <2>4, Counts
    <3>2. ring[p][RingSlot(m)] = m
      BY <1>0, <3>1 DEF RingOf
    <3>3. m \in Nat \ {0} /\ m < n /\ n < m + NumTaps /\ n \in Nat
      BY <1>3, <2>4
    <3>4. RingSlot(m) # RingSlot(n)
      BY <3>3, SlotsDiffer
    <3> QED
      BY <2>1, <2>2, <3>2, <3>4
  <2> QED
    BY <2>3, <2>4
<1> QED
  BY <1>4, <1>5, <1>6 DEF BufferOf

\* The filter reads the window of the block, from the slot after its own on.
LEMMA PfbBuffer ==
  ASSUME Basic, NEW p \in Pols, BufferOf(p), Pfb(p)
  PROVE  BufferOf(p)'
<1> DEFINE n == done["pfb"][p] + 1
           read == [t \in Taps |-> ring[p][RingSlot(n + 1 + t)]]
<1>1. /\ n <= done["conv"][p] /\ Finish("pfb", p)
      /\ pfbed' = [pfbed EXCEPT ![p] = read]
      /\ UNCHANGED <<stokes, raw, ring, ffted>>
  BY DEF Pfb, Nth
<1>0. /\ Types /\ OrderOf(p) /\ CloseOf(p) /\ RingOf(p) /\ SpectraOf(p)
      /\ raw[p] = done["h2d"][p]
  BY DEF Basic, Ordered, BufferOf
<1>2. /\ done'["h2d"][p] = done["h2d"][p] /\ done'["conv"][p] = done["conv"][p]
      /\ done'["pfb"][p] = n /\ done'["fft"][p] = done["fft"][p]
  BY <1>0, <1>1, Finished DEF Kinds
<1>3. n \in Nat /\ n = done["conv"][p]
  BY <1>0, <1>1, Counts DEF CloseOf
<1>4. ASSUME n >= NumTaps PROVE read = WindowOf(n)
  <2> SUFFICES ASSUME NEW t \in Taps PROVE ring[p][RingSlot(n + 1 + t)] = n - NumTaps + 1 + t
    BY DEF WindowOf
  <2> DEFINE m == n - NumTaps + 1 + t
  <2>1. /\ m \in Nat \ {0} /\ m \in 1 .. done["conv"][p] /\ m > done["conv"][p] - NumTaps
        /\ m + NumTaps = n + 1 + t
    BY <1>3, <1>4 DEF Taps
  <2> HIDE DEF m
  <2>2. RingSlot(n + 1 + t) = RingSlot(m)
    BY <2>1, SlotAgain
  <2>3. ring[p][RingSlot(m)] = m
    BY <1>0, <2>1 DEF RingOf
  <2> QED
    BY <2>2, <2>3 DEF m
<1> HIDE DEF read
<1>5. pfbed'[p] = read
  BY <1>0, <1>1 DEF Types
<1>6. CloseOf(p)'
  BY <1>0, <1>1, <1>2, Counts DEF CloseOf
<1>7. SpectraOf(p)'
  BY <1>0, <1>1, <1>2, <1>4, <1>5 DEF SpectraOf
<1>8. RingOf(p)' /\ raw'[p] = done'["h2d"][p]
  BY <1>0, <1>1, <1>2 DEF RingOf
<1> QED
  BY <1>6, <1>7, <1>8 DEF BufferOf

\* The spectrum is that of the window filtered last.
LEMMA FftBuffer ==
  ASSUME Basic, NEW p \in Pols, BufferOf(p), Fft(p), ~raced'
  PROVE  BufferOf(p)'
<1>1. /\ done["fft"][p] + 1 <= done["pfb"][p] /\ Finish("fft", p)
      /\ ffted' = [ffted EXCEPT ![p] = pfbed[p]]
      /\ raced' = (raced \/ stokes < done["fft"][p])
      /\ UNCHANGED <<stokes, raw, ring, pfbed>>
  BY DEF Fft, Nth
<1>0. /\ Types /\ OrderOf(p) /\ CloseOf(p) /\ RingOf(p) /\ SpectraOf(p)
      /\ raw[p] = done["h2d"][p]
  BY DEF Basic, Ordered, BufferOf
<1>2. /\ done'["h2d"][p] = done["h2d"][p] /\ done'["conv"][p] = done["conv"][p]
      /\ done'["pfb"][p] = done["pfb"][p] /\ done'["fft"][p] = done["fft"][p] + 1
  BY <1>0, <1>1, Finished DEF Kinds
<1>3. done["fft"][p] + 1 = done["pfb"][p]
  BY <1>0, <1>1, Counts DEF OrderOf
<1>4. ffted'[p] = pfbed[p]
  BY <1>0, <1>1 DEF Types
<1>5. CloseOf(p)'
  <2>1. ~(stokes < done["fft"][p])
    BY Zenon, <1>1
  <2> QED
    BY <1>0, <1>1, <1>2, <2>1, Counts DEF CloseOf
<1>6. SpectraOf(p)'
  BY <1>0, <1>1, <1>2, <1>3, <1>4 DEF SpectraOf
<1>7. RingOf(p)' /\ raw'[p] = done'["h2d"][p]
  BY <1>0, <1>1, <1>2 DEF RingOf
<1> QED
  BY <1>5, <1>6, <1>7 DEF BufferOf

\* The copy of a block to the device.
LEMMA H2DBuffer ==
  ASSUME Basic, NEW p \in Pols, BufferOf(p), H2D(p), ~raced'
  PROVE  BufferOf(p)'
<1>1. /\ Finish("h2d", p)
      /\ raw' = [raw EXCEPT ![p] = done["h2d"][p] + 1]
      /\ raced' = (raced \/ done["conv"][p] < done["h2d"][p])
      /\ UNCHANGED <<stokes, ring, pfbed, ffted>>
  BY DEF H2D, Nth
<1>0. Types /\ CloseOf(p) /\ RingOf(p) /\ SpectraOf(p)
  BY DEF Basic, BufferOf
<1>2. /\ done'["h2d"][p] = done["h2d"][p] + 1 /\ done'["conv"][p] = done["conv"][p]
      /\ done'["pfb"][p] = done["pfb"][p] /\ done'["fft"][p] = done["fft"][p]
  BY <1>0, <1>1, Finished DEF Kinds
<1>3. raw'[p] = done'["h2d"][p]
  BY <1>0, <1>1, <1>2 DEF Types
<1>4. CloseOf(p)'
  <2>1. ~(done["conv"][p] < done["h2d"][p])
    BY Zenon, <1>1
  <2> QED
    BY <1>0, <1>1, <1>2, <2>1, Counts DEF CloseOf
<1>5. RingOf(p)' /\ SpectraOf(p)'
  BY <1>0, <1>1, <1>2 DEF RingOf, SpectraOf
<1> QED
  BY <1>3, <1>4, <1>5 DEF BufferOf

\* As long as no buffer is overwritten too early, every step keeps the
\* buffers exact.
LEMMA BuffersStep ==
  ASSUME Basic, BuffersExact, ~raced', [Next]_vars
  PROVE  BuffersExact'
<1>0. Types /\ \A q \in Pols : BufferOf(q)
  BY DEF Basic, BuffersExact
<1>00. "h2d" \in Kinds /\ "conv" \in Kinds /\ "pfb" \in Kinds /\ "fft" \in Kinds
  BY DEF Kinds
<1> SUFFICES ASSUME NEW q \in Pols PROVE BufferOf(q)'
  BY DEF BuffersExact
<1>1. CASE Host \/ UNCHANGED vars
  <2>1. UNCHANGED <<done, stokes, raw, ring, pfbed, ffted>>
    BY <1>1, HostIssues DEF vars, buffers
  <2> QED
    BY <1>0, <2>1, OtherPol
<1>2. CASE Stokes
  BY <1>0, <1>2, OtherPol DEF Stokes, buffers
<1>3. ASSUME NEW p \in Pols, H2D(p) PROVE BufferOf(q)'
  <2>1. CASE q # p
    <3>1. /\ Finish("h2d", p) /\ raw'[q] = raw[q]
          /\ UNCHANGED <<stokes, ring, pfbed, ffted>>
      BY <1>0, <1>3, <2>1 DEF H2D, Types
    <3>2. \A k \in Kinds : done'[k][q] = done[k][q]
      BY <1>0, <1>00, <2>1, <3>1, Finished
    <3> QED
      BY <1>0, <3>1, <3>2, OtherPol
  <2> QED
    BY <1>0, <1>3, <2>1, H2DBuffer
<1>4. ASSUME NEW p \in Pols, Conv(p) PROVE BufferOf(q)'
  <2>1. CASE q # p
    <3>1. /\ Finish("conv", p) /\ ring'[q] = ring[q]
          /\ UNCHANGED <<stokes, raw, pfbed, ffted>>
      BY <1>0, <1>4, <2>1 DEF Conv, Types
    <3>2. \A k \in Kinds : done'[k][q] = done[k][q]
      BY <1>0, <1>00, <2>1, <3>1, Finished
    <3> QED
      BY <1>0, <3>1, <3>2, OtherPol
  <2> QED
    BY <1>0, <1>4, <2>1, ConvBuffer
<1>5. ASSUME NEW p \in Pols, Pfb(p) PROVE BufferOf(q)'
  <2>1. CASE q # p
    <3>1. /\ Finish("pfb", p) /\ pfbed'[q] = pfbed[q]
          /\ UNCHANGED <<stokes, raw, ring, ffted>>
      BY <1>0, <1>5, <2>1 DEF Pfb, Types
    <3>2. \A k \in Kinds : done'[k][q] = done[k][q]
      BY <1>0, <1>00, <2>1, <3>1, Finished
    <3> QED
      BY <1>0, <3>1, <3>2, OtherPol
  <2> QED
    BY <1>0, <1>5, <2>1, PfbBuffer
<1>6. ASSUME NEW p \in Pols, Fft(p) PROVE BufferOf(q)'
  <2>1. CASE q # p
    <3>1. /\ Finish("fft", p) /\ ffted'[q] = ffted[q]
          /\ UNCHANGED <<stokes, raw, ring, pfbed>>
      BY <1>0, <1>6, <2>1 DEF Fft, Types
    <3>2. \A k \in Kinds : done'[k][q] = done[k][q]
      BY <1>0, <1>00, <2>1, <3>1, Finished
    <3> QED
      BY <1>0, <3>1, <3>2, OtherPol
  <2> QED
    BY <1>0, <1>6, <2>1, FftBuffer
<1> QED
  BY <1>1, <1>2, <1>3, <1>4, <1>5, <1>6 DEF Next, Gpu

(***************************************************************************)
(* What is in the accumulator and in the results.                          *)
(***************************************************************************)
\* As long as nothing races, sD2H adds the spectra of the block it is at.
LEMMA OutputsStep ==
  ASSUME Basic, ~raced => BuffersExact, OutputsExact, [Next]_vars
  PROVE  OutputsExact'
<1>0. /\ Types /\ \A p \in Pols : OrderOf(p)
      /\ "h2d" \in Kinds /\ "conv" \in Kinds /\ "pfb" \in Kinds /\ "fft" \in Kinds
  BY DEF Basic, Ordered, Kinds
<1> SUFFICES ASSUME ~raced'
             PROVE  \A o \in acc' \cup result' : \A p \in Pols : o.input[p] = WindowOf(o.block)
  BY DEF OutputsExact
<1>1. ~raced
  <2>1. CASE Host \/ UNCHANGED vars
    BY <2>1, HostIssues DEF vars
  <2> QED
    BY <2>1 DEF Next, Gpu, Stokes, H2D, Conv, Pfb, Fft
<1>2. \A o \in acc \cup result : \A p \in Pols : o.input[p] = WindowOf(o.block)
  BY <1>1 DEF OutputsExact
<1>3. CASE Stokes
  <2> DEFINE n == stokes + 1
             new == [block |-> n, input |-> ffted]
  <2>1. /\ \A p \in Pols : n <= done["fft"][p]
        /\ acc' = IF n < NumTaps THEN acc ELSE acc \cup {new}
        /\ result' = result
    BY <1>3 DEF Stokes, hostVars
  <2>2. ASSUME n >= NumTaps, NEW p \in Pols PROVE new.input[p] = WindowOf(new.block)
    <3>1. BufferOf(p)
      BY <1>1 DEF BuffersExact
    <3>2. done["fft"][p] = n
      BY <1>0, <2>1, <3>1, Counts DEF BufferOf, CloseOf
    <3>3. ffted[p] = WindowOf(n)
      BY <2>2, <3>1, <3>2 DEF BufferOf, SpectraOf
    <3> QED
      BY <3>3
  <2> HIDE DEF new
  <2>3. n \in Nat
    BY <1>0, Counts
  <2> QED
    BY <1>2, <2>1, <2>2, <2>3
<1>4. CASE ~Stokes
  <2>1. acc' \cup result' \subseteq acc \cup result
    BY <1>4 DEF Next, Host, IssueCopy, CopiesDone, SubmitPfbFft, IssueStokes, PublishResult,
       Gpu, H2D, Conv, Pfb, Fft, vars, hostVars
  <2> QED
    BY <1>2, <2>1
<1> QED
  BY <1>3, <1>4

\* A set of outputs, one for each of k consecutive blocks.
LEMMA OnePerBlock ==
  ASSUME NEW S, NEW n \in Nat, NEW k \in Nat \ {0},
         \A o \in S : o.block \in n .. n + k - 1,
         \A b \in n .. n + k - 1 : \E o \in S : o.block = b,
         \A o, q \in S : o.block = q.block => o = q
  PROVE  {o.block : o \in S} = n .. n + k - 1 /\ Cardinality(S) = k
<1> DEFINE T == n .. n + k - 1
           num == [o \in S |-> o.block]
<1>1. {o.block : o \in S} = T
  OBVIOUS
<1>2. IsFiniteSet(T) /\ Cardinality(T) = k
  <2>1. n \in Int /\ n + k - 1 \in Int /\ ~(n > n + k - 1) /\ (n + k - 1) - n + 1 = k
    OBVIOUS
  <2> QED
    BY <2>1, FS_Interval
<1>3. num \in Injection(S, T)
  BY DEF Injection, IsInjective
<1>4. num \in Surjection(S, T)
  BY DEF Surjection
<1> HIDE DEF num, T
<1>5. Cardinality(S) = Cardinality(T)
  BY <1>2, <1>3, <1>4, FS_Injection
<1> QED
  BY <1>1, <1>2, <1>5 DEF T

\* The accumulator is complete when the host publishes it.
LEMMA PublishComplete ==
  ASSUME Basic, Summed, PublishResult
  PROVE  ResultComplete' /\ Summed'
<1>1. /\ hpc = "sync" /\ stokes = block /\ result' = acc /\ acc' = {} /\ count' = 0
      /\ hpc' = "copy" /\ block' = block + 1 /\ stokes' = stokes
  BY DEF PublishResult, GpuUnchanged
<1>0. Types /\ count = AccLen /\ block <= MaxBlocks
  BY <1>1 DEF Basic, HostInBlock
<1>2. Base = block - AccLen + 1 /\ Base >= NumTaps /\ Base \in Nat /\ Base \in 1 .. MaxBlocks
  BY <1>0, <1>1, Counts DEF Summed, Base, Accumulated
<1>3. Base + AccLen - 1 = block
  BY <1>0, <1>2, Counts
<1>4. /\ \A o \in acc : o.block \in Base .. Base + AccLen - 1
      /\ \A b \in Base .. Base + AccLen - 1 : \E o \in acc : o.block = b
      /\ \A o, q \in acc : o.block = q.block => o = q
  <2>1. \A o \in acc : o.block \in Nat /\ Base <= o.block /\ o.block <= block
    BY <1>1 DEF Summed
  <2>2. \A b \in Base .. block : b \in Nat /\ b >= NumTaps /\ Base <= b /\ b <= stokes
    BY <1>0, <1>1, <1>2, Counts
  <2>3. \A b \in Base .. block : \E o \in acc : o.block = b
    BY <2>2 DEF Summed
  <2>4. block \in Nat
    BY <1>0, Counts
  <2> QED
    BY <1>2, <1>3, <2>1, <2>3, <2>4 DEF Summed
<1>5. {o.block : o \in acc} = Base .. Base + AccLen - 1 /\ Cardinality(acc) = AccLen
  BY <1>2, <1>4, OnePerBlock
<1>6. ResultComplete'
  BY <1>1, <1>2, <1>5 DEF ResultComplete
<1>7. Summed'
  <2>1. Base' = stokes + 1
    BY <1>0, <1>1, Counts DEF Base, Accumulated
  <2>2. stokes \in Nat
    BY <1>0, Counts
  <2> QED
    BY <1>1, <2>1, <2>2 DEF Summed
<1> QED
  BY <1>6, <1>7

\* Issuing an accumulation leaves the integration's first block alone, or
\* moves it along the blocks before the first full filter window.
LEMMA IssueSummed ==
  ASSUME Basic, Summed, IssueStokes
  PROVE  Summed'
<1> DEFINE n == IF block < NumTaps THEN count ELSE count + 1
<1>1. /\ hpc = "stokes" /\ count' = n /\ acc' = acc /\ stokes' = stokes
      /\ hpc' = IF n >= AccLen THEN "sync" ELSE "copy"
      /\ block' = IF n >= AccLen THEN block ELSE block + 1
  BY DEF IssueStokes, GpuUnchanged
<1>0. Types /\ stokes <= Accumulated /\ Accumulated = block - 1
  BY <1>1 DEF Basic, Ordered, Accumulated
<1>2. Accumulated' = block
  BY <1>0, <1>1, Counts DEF Accumulated
<1>3. CASE block >= NumTaps
  <2>1. Base' = Base /\ Base \in Int /\ count' = count + 1
    BY <1>0, <1>1, <1>2, <1>3, Counts DEF Base
  <2>2. Base >= NumTaps
    BY <1>0, <1>3, Counts DEF Base, Summed
  <2> QED
    BY <1>1, <2>1, <2>2 DEF Summed
<1>4. CASE block < NumTaps
  <2>1. count = 0
    BY <1>0, <1>4, Counts DEF Base, Summed
  <2>2. count' = 0 /\ Base' = block + 1
    BY <1>0, <1>1, <1>2, <1>4, <2>1, Counts DEF Base
  <2>3. Base' <= NumTaps
    BY <1>0, <1>4, <2>2, Counts
  <2>4. stokes < NumTaps /\ stokes \in Nat
    BY <1>0, <1>4, Counts
  <2>5. acc = {}
    BY <2>4 DEF Summed
  <2>6. \A b \in Nat : ~(b >= NumTaps /\ b <= stokes)
    BY <2>4
  <2> QED
    BY <1>1, <2>2, <2>3, <2>5, <2>6 DEF Summed
<1> QED
  BY <1>0, <1>3, <1>4, Counts

\* sD2H adds the next block of the integration.
LEMMA StokesSummed ==
  ASSUME Basic, Summed, Stokes
  PROVE  Summed'
<1> DEFINE n == stokes + 1
           new == [block |-> n, input |-> ffted]
<1>1. /\ n <= Accumulated /\ stokes' = n
      /\ acc' = IF n < NumTaps THEN acc ELSE acc \cup {new}
      /\ UNCHANGED <<block, hpc, count>>
  BY DEF Stokes, hostVars
<1>0. Types /\ n \in Nat /\ Base' = Base /\ Base \in Int
  BY <1>1, HostStays, Counts DEF Basic, Base
<1>2. new.block = n
  OBVIOUS
<1> HIDE DEF new
<1>3. CASE n < NumTaps
  <2>1. \A b \in Nat : ~(b >= NumTaps /\ b <= n) /\ ~(b >= NumTaps /\ b <= stokes)
    BY <1>0, <1>3, Counts
  <2>2. acc = {}
    BY <2>1 DEF Summed
  <2>3. Base <= NumTaps \/ Base <= n + 1
    BY <1>0, Counts DEF Summed
  <2> QED
    BY <1>0, <1>1, <1>3, <2>1, <2>2, <2>3 DEF Summed
<1>4. CASE n >= NumTaps
  <2>1. acc' = acc \cup {new}
    BY <1>0, <1>1, <1>4
  <2>2. Base <= n
    BY <1>0, <1>4, Counts DEF Summed
  <2>3. \A o \in acc' : o.block \in Nat /\ o.block >= NumTaps /\ Base <= o.block /\ o.block <= n
    <3>1. \A o \in acc : o.block \in Nat /\ o.block >= NumTaps /\ Base <= o.block /\ o.block <= n
      BY <1>0, Counts DEF Summed
    <3> QED
      BY <1>0, <1>2, <1>4, <2>1, <2>2, <3>1
  <2>4. \A b \in Nat : b >= NumTaps /\ Base <= b /\ b <= n => \E o \in acc' : o.block = b
    <3> SUFFICES ASSUME NEW b \in Nat, b >= NumTaps, Base <= b, b <= n
                 PROVE  \E o \in acc' : o.block = b
      OBVIOUS
    <3>1. CASE b = n
      BY <1>2, <2>1, <3>1
    <3>2. CASE b # n
      <4>1. b <= stokes
        BY <1>0, <3>2, Counts
      <4> QED
        BY <2>1, <4>1 DEF Summed
    <3> QED
      BY <3>1, <3>2
  <2>5. \A o, q \in acc' : o.block = q.block => o = q
    <3>1. \A o \in acc : o.block # n
      BY <1>0, Counts DEF Summed
    <3> QED
      BY <1>2, <2>1, <3>1 DEF Summed
  <2> QED
    BY <1>0, <1>1, <2>2, <2>3, <2>4, <2>5 DEF Summed
<1> QED
  BY <1>0, <1>3, <1>4

\* Every step keeps the sums of Stokes and the results made from them.
LEMMA ResultStep ==
  ASSUME Basic, Summed, ResultComplete, [Next]_vars
  PROVE  Summed' /\ ResultComplete'
<1>1. CASE PublishResult
  BY <1>1, PublishComplete
<1>2. CASE IssueStokes
  BY <1>2, IssueSummed DEF IssueStokes, ResultComplete
<1>3. CASE Stokes
  BY <1>3, StokesSummed DEF Stokes, hostVars, ResultComplete
<1>4. CASE IssueCopy \/ CopiesDone \/ SubmitPfbFft
  <2>1. UNCHANGED <<block, count, acc, result, stokes>> /\ hpc # "sync" /\ hpc' # "sync"
    BY <1>4 DEF IssueCopy, CopiesDone, SubmitPfbFft, GpuUnchanged
  <2>2. Base' = Base
    BY <2>1 DEF Base, Accumulated
  <2> QED
    BY <2>1, <2>2 DEF Summed, ResultComplete
<1>5. CASE UNCHANGED vars \/ \E p \in Pols : H2D(p) \/ Conv(p) \/ Pfb(p) \/ Fft(p)
  <2>1. UNCHANGED <<block, hpc, count, acc, result, stokes>>
    BY <1>5 DEF vars, hostVars, H2D, Conv, Pfb, Fft
  <2>2. Base' = Base
    BY <2>1, HostStays
  <2> QED
    BY <2>1, <2>2 DEF Summed, ResultComplete
<1> QED
  BY <1>1, <1>2, <1>3, <1>4, <1>5 DEF Next, Host, Gpu

\* Every step of the host and of a stream keeps the invariant.
LEMMA PipelineStep == PipelineInv /\ [Next]_vars => PipelineInv'
<1> SUFFICES ASSUME PipelineInv, [Next]_vars PROVE PipelineInv'
  OBVIOUS
<1>1. Basic /\ OutputsExact /\ Summed /\ ResultComplete /\ (~raced => BuffersExact)
  BY DEF PipelineInv
<1>2. ASSUME ~raced' PROVE ~raced
  <2>1. CASE Host \/ UNCHANGED vars
    BY <1>1, <1>2, <2>1, HostIssues DEF vars
  <2> QED
    BY <1>2, <2>1 DEF Next, Gpu, Stokes, H2D, Conv, Pfb, Fft
<1>3. ASSUME ~raced' PROVE BuffersExact'
  BY <1>1, <1>2, <1>3, BuffersStep
<1>4. Basic'
  BY <1>1, BasicStep
<1>5. OutputsExact'
  BY <1>1, OutputsStep
<1>6. Summed' /\ ResultComplete'
  BY <1>1, ResultStep
<1> QED
  BY <1>3, <1>4, <1>5, <1>6 DEF PipelineInv

\* Nothing is issued and all buffers are zero.
LEMMA PipelineInit == Init => PipelineInv
<1> SUFFICES ASSUME Init PROVE PipelineInv
  OBVIOUS
<1>1. Types
  <2>1. Silence \in WindowType
    BY DEF Silence, WindowType, Zero
  <2>2. raced \in BOOLEAN
    BY Zenon DEF Init
  <2>3. /\ ring \in [Pols -> WindowType] /\ pfbed \in [Pols -> WindowType]
        /\ ffted \in [Pols -> WindowType]
    BY <2>1 DEF Init
  <2> QED
    BY <2>2, <2>3 DEF Init, Types, Zero
<1>2. /\ \A k \in Kinds : \A p \in Pols : done[k][p] = 0
      /\ "h2d" \in Kinds /\ "conv" \in Kinds /\ "pfb" \in Kinds /\ "fft" \in Kinds
  BY DEF Init, Kinds
<1>3. Copied = 0 /\ Submitted = 0 /\ Accumulated = 0 /\ stokes = 0 /\ count = 0
  BY DEF Init, Copied, Submitted, Accumulated
<1>4. HostInBlock
  BY DEF Init, HostInBlock
<1>5. Ordered
  BY <1>2, <1>3 DEF Ordered, OrderOf
<1>6. BuffersExact
  BY <1>2, <1>3 DEF Init, Zero, BuffersExact, BufferOf, CloseOf, RingOf, SpectraOf
<1>7. OutputsExact /\ ResultComplete
  BY DEF Init, OutputsExact, ResultComplete
<1>8. Summed
  <2>1. Base = 1 /\ acc = {}
    BY <1>3 DEF Base, Init
  <2> QED
    BY <1>3, <2>1 DEF Summed
<1> QED
  BY <1>1, <1>4, <1>5, <1>6, <1>7, <1>8 DEF PipelineInv, Basic

(***************************************************************************)
(* The results.                                                            *)
(***************************************************************************)
\* The host's counters and the buffers keep their types, and no stream gets
\* ahead of what accumulate_one_block, submit_PFB_FFT and StokesAcc issued.
THEOREM PipelineTypeCorrect == Spec => []TypeOK
<1>1. PipelineInv => TypeOK
  <2> SUFFICES ASSUME PipelineInv PROVE TypeOK
    OBVIOUS
  <2>1. Types /\ HostInBlock /\ stokes <= Accumulated /\ \A p \in Pols : OrderOf(p)
    BY DEF PipelineInv, Basic, Ordered
  <2>2. Copied <= MaxBlocks
    BY <2>1 DEF Types, HostInBlock, Copied
  <2>3. ASSUME NEW k \in Kinds, NEW p \in Pols PROVE done[k][p] \in 0 .. MaxBlocks
    <3>1. OrderOf(p)
      BY <2>1
    <3> QED
      BY <2>1, <2>2, <3>1, Counts DEF OrderOf, Kinds
  <2>4. done \in [Kinds -> [Pols -> 0 .. MaxBlocks]]
    <3>1. \A k \in Kinds : done[k] \in [Pols -> 0 .. MaxBlocks]
      BY <2>1, <2>3 DEF Types
    <3> QED
      BY <2>1, <3>1 DEF Types
  <2>5. stokes \in 0 .. Accumulated
    BY <2>1, Counts
  <2>6. {ring[p] : p \in Pols} \cup {pfbed[p] : p \in Pols}
          \cup {ffted[p] : p \in Pols} \subseteq [Taps -> 0 .. MaxBlocks]
    BY <2>1, Counts DEF WindowType
  <2> QED
    BY <2>1, <2>4, <2>5, <2>6 DEF Types, TypeOK
<1> QED
  BY <1>1, PipelineInit, PipelineStep, PTL DEF Spec

\* As long as no buffer is written before its last reader is done, every
\* output StokesAcc adds up is that of the NumTaps blocks that end with its
\* own, in both polarisations: cudaStreamWaitEvent orders all the rest.
THEOREM OutputsAreExact == Spec => []OutputsExact
<1>1. PipelineInv => OutputsExact
  BY DEF PipelineInv
<1> QED
  BY <1>1, PipelineInit, PipelineStep, PTL DEF Spec

\* However slow the GPU is, what StokesAcc publishes adds up AccLen
\* consecutive blocks, each once, because sD2H serialises the launches that
\* use the accumulator and the host waits for the copy before it clears it.
THEOREM ResultsAreComplete == Spec => []ResultComplete
<1>1. PipelineInv => ResultComplete
  BY DEF PipelineInv
<1> QED
  BY <1>1, PipelineInit, PipelineStep, PTL DEF Spec

\* When StokesAcc exposes a result, all that was issued to the device for this
\* block and those before is done, in both polarisations: the event of the
\* result is on sD2H behind both evtPFB_done, and these are behind the rest.
THEOREM DeviceDrained == Spec => DrainedWhenPublished
<1>1. PipelineInv /\ [Next]_vars
        => (result' # result => \A k \in Kinds, p \in Pols : done[k][p] = block)
  <2> SUFFICES ASSUME PipelineInv, [Next]_vars, result' # result,
                      NEW k \in Kinds, NEW p \in Pols
               PROVE  done[k][p] = block
    OBVIOUS
  <2>1. hpc = "sync" /\ stokes = block
    BY DEF Next, Host, Gpu, vars, hostVars, IssueCopy, CopiesDone, SubmitPfbFft, IssueStokes,
           PublishResult, H2D, Conv, Pfb, Fft, Stokes
  <2>2. Types /\ OrderOf(p)
    BY DEF PipelineInv, Basic, Ordered
  <2>3. Copied = block
    BY <2>1 DEF Copied
  <2> QED
    BY <2>1, <2>2, <2>3, Counts DEF OrderOf, Types, Kinds
<1> QED
  BY <1>1, PipelineInit, PipelineStep, PTL DEF Spec, DrainedWhenPublished
=============================================================================
