-------------------------- MODULE GpuPfbFftProofs --------------------------
(***************************************************************************)
(* Proofs about the worker of one subband (GpuPfbFft): the pairing of the  *)
(* two streams, the filter window and what a published integration holds.  *)
(***************************************************************************)
EXTENDS GpuPfbFft, SequenceTheorems, FiniteSetTheorems, TLAPS

(***************************************************************************)
(* The inductive invariant.                                                *)
(***************************************************************************)
Batches == [id : BatchIds, got : SUBSET (0 .. 0), valid : BOOLEAN]

\* A stream delivers consecutive batches, each once.
StreamOK(started, next, queue, taken) ==
  /\ started \in BOOLEAN /\ next \in Nat
  /\ queue \in Seq(Batches)
  /\ taken \in Seq(Batches) /\ Len(taken) <= 1
  /\ \A k \in 1 .. Len(queue) : queue[k].id = next - Len(queue) - 1 + k
  /\ taken # <<>> => taken[1].id = next - Len(queue) - 1
  /\ started = FALSE => queue = <<>> /\ taken = <<>>

Streams == /\ StreamOK(startedA, nextA, queueA, takenA)
           /\ StreamOK(startedB, nextB, queueB, takenB)

\* After the first block the worker takes one batch of each stream per block.
Pairing ==
  /\ pc # "A" => takenA # <<>>
  /\ pc = "align" => takenB # <<>>
  /\ last # 0 => /\ takenA # <<>> /\ blockA.id = IF pc = "A" THEN last ELSE last + 1
                 /\ takenB # <<>> /\ blockB.id = IF pc = "align" THEN last + 1 ELSE last
                 /\ pc # "A" => gap = FALSE

\* m_pfb_invalid_blocks_remaining tells how much of the window is usable.
WindowRight ==
  \A t \in 1 .. NumTaps :
    t > invalidLeft + 1 => window[t] # Zero /\ window[t] = last - NumTaps + t

\* Every invalid block is as far back as the counter says.
LostBehind == /\ lost \subseteq Nat
              /\ last = 0 => lost = {} /\ invalidLeft = NumTaps - 1
              /\ \A b \in lost : b <= last - (NumTaps - 1 - invalidLeft)

\* Once reset for a gap, the accumulators are empty; without calibration
\* there is one integration.
ResetEmpty == /\ resetForGap => \A s \in States : count[s] = 0
              /\ ~cal_mode => count["ON"] = 0

Windows == [1 .. NumTaps -> BatchIds]

\* w is the first output of an integration.
StartsWith(windows, first, w) ==
  /\ w \in windows
  /\ first = Time(w[NumTaps])
  /\ \A v \in windows : w[NumTaps] <= v[NumTaps]
  /\ \A b \in lost : b < w[NumTaps] - (NumTaps - 1)

\* An integration in progress.
Accumulated ==
  /\ acc \in [States -> SUBSET Windows]
  /\ \A s \in States :
       /\ IsFiniteSet(acc[s]) /\ Cardinality(acc[s]) = count[s]
       /\ \A w \in acc[s] : Intact(w) /\ w[NumTaps] <= last
       /\ count[s] # 0 => \E w \in acc[s] :
             /\ StartsWith(acc[s], firstTime[s], w)
             /\ ~cal_mode => w[NumTaps] + count[s] = last + 1

\* The outputs of all integrations are different.
Distinct ==
  /\ used \cup Blocks(result.windows) \subseteq 0 .. last
  /\ \A s \in States : Blocks(acc[s]) \cap (used \cup Blocks(result.windows)) = {}
  /\ Blocks(acc["ON"]) \cap Blocks(acc["OFF"]) = {}
  /\ NoOutputTwice

\* What is published stays before every block to come.
Published == /\ cal_mode \in BOOLEAN
             /\ result.first \in Nat /\ result.last \in Nat
             /\ result.last <= Time(last)

Integrations == /\ ResetEmpty /\ Accumulated
                /\ Distinct /\ Published
                /\ IntegrationExact /\ NoGapInside

SubbandInv == /\ TypeOK /\ Streams /\ Pairing
              /\ WindowRight /\ LostBehind
              /\ Integrations

(***************************************************************************)
(* Times.                                                                  *)
(***************************************************************************)
\* Blocks of equal length: time grows with the block number and adds up.
LEMMA TimeFacts ==
  ASSUME NEW a \in Nat, NEW b \in Nat
  PROVE  /\ Time(a) \in Nat
         /\ Time(a + b) = Time(a) + Time(b)
         /\ a <= b => Time(a) <= Time(b)
         /\ a < b => Time(a) < Time(b)
<1>0. BlockTime \in Nat \ {0}
  BY NoiseAssumption
<1>1. \A x \in Nat : Time(x) \in Nat
  BY <1>0 DEF Time
<1>2. \A x, y \in Nat : Time(x + y) = Time(x) + Time(y)
  BY <1>0 DEF Time
<1>3. \A x \in Nat : x # 0 => Time(x) > 0
  BY <1>0 DEF Time
<1>4. ASSUME a <= b PROVE b - a \in Nat /\ Time(b) = Time(a) + Time(b - a)
  <2>1. b - a \in Nat /\ b = a + (b - a)
    BY <1>4
  <2> QED
    BY <1>2, <2>1
<1>5. a <= b => Time(a) <= Time(b)
  BY <1>1, <1>4
<1>6. a < b => Time(a) < Time(b)
  <2> SUFFICES ASSUME a < b PROVE Time(a) < Time(b)
    OBVIOUS
  <2>1. b - a \in Nat /\ b - a # 0
    OBVIOUS
  <2>2. Time(b) = Time(a) + Time(b - a)
    BY <1>4
  <2> QED
    BY <1>1, <1>3, <2>1, <2>2
<1> QED
  BY <1>1, <1>2, <1>5, <1>6

(***************************************************************************)
(* The streams.                                                            *)
(***************************************************************************)
\* The number and the flag of a batch.
LEMMA BatchFacts ==
  ASSUME NEW b \in Batches
  PROVE  b.id \in BatchIds /\ b.id \in Nat \ {0} /\ b.valid \in BOOLEAN
  BY IdsAssumption DEF Batches

\* The first batch of a stream may have any number.
LEMMA StreamStart ==
  ASSUME NEW n, NEW q, NEW tk, StreamOK(FALSE, n, q, tk), NEW m \in Nat
  PROVE  StreamOK(TRUE, m, q, tk)
<1>1. q = <<>> /\ tk = <<>>
  BY DEF StreamOK
<1>2. q \in Seq(Batches) /\ tk \in Seq(Batches) /\ Len(tk) <= 1 /\ Len(q) = 0
  BY <1>1
<1> QED
  BY <1>1, <1>2 DEF StreamOK

\* Publication of the next batch.
LEMMA StreamPublish ==
  ASSUME NEW n, NEW q, NEW tk, StreamOK(TRUE, n, q, tk),
         NEW b \in Batches, b.id = n
  PROVE  StreamOK(TRUE, n + 1, Append(q, b), tk)
<1> DEFINE a == Append(q, b)
<1>0. /\ n \in Nat /\ q \in Seq(Batches) /\ tk \in Seq(Batches) /\ Len(tk) <= 1
      /\ Len(q) \in Nat
  BY DEF StreamOK
<1>1. /\ a \in Seq(Batches) /\ Len(a) = Len(q) + 1
      /\ \A k \in 1 .. Len(q) : a[k] = q[k]
      /\ a[Len(q) + 1] = b
  BY <1>0
<1> HIDE DEF a
<1>2. ASSUME NEW k \in 1 .. Len(a) PROVE a[k].id = (n + 1) - Len(a) - 1 + k
  <2>1. CASE k \in 1 .. Len(q)
    <3>1. q[k].id = n - Len(q) - 1 + k
      BY <2>1 DEF StreamOK
    <3> QED
      BY <1>0, <1>1, <2>1, <3>1
  <2>2. CASE k = Len(q) + 1
    BY <1>0, <1>1, <2>2
  <2> QED
    BY <1>0, <1>1, <1>2, <2>1, <2>2
<1>3. tk # <<>> => tk[1].id = (n + 1) - Len(a) - 1
  <2>1. tk # <<>> => tk[1].id = n - Len(q) - 1
    BY DEF StreamOK
  <2> QED
    BY <1>0, <1>1, <2>1
<1>4. StreamOK(TRUE, n + 1, a, tk)
  BY <1>0, <1>1, <1>2, <1>3 DEF StreamOK
<1> QED
  BY <1>4 DEF a

\* A consumer that takes a batch gets the successor of the one before.
LEMMA StreamTake ==
  ASSUME NEW st, NEW n, NEW q, NEW tk, StreamOK(st, n, q, tk), q # <<>>
  PROVE  /\ StreamOK(st, n, Tail(q), <<Head(q)>>)
         /\ Head(q) \in Batches
         /\ tk # <<>> => Head(q).id = tk[1].id + 1
<1> DEFINE a == Tail(q)
           h == Head(q)
<1>0. /\ n \in Nat /\ q \in Seq(Batches) /\ tk \in Seq(Batches) /\ st \in BOOLEAN
      /\ Len(q) \in Nat \ {0} /\ st # FALSE
  BY EmptySeq DEF StreamOK
<1>1. /\ a \in Seq(Batches) /\ Len(a) = Len(q) - 1
      /\ \A k \in 1 .. Len(a) : a[k] = q[k + 1]
      /\ h = q[1] /\ h \in Batches
  BY <1>0, HeadTailProperties
<1> HIDE DEF a, h
<1>2. \A k \in 1 .. Len(q) : q[k].id = n - Len(q) - 1 + k
  BY DEF StreamOK
<1>3. h.id = n - Len(q)
  BY <1>0, <1>1, <1>2
<1>4. tk # <<>> => tk[1].id = n - Len(q) - 1
  BY DEF StreamOK
<1>5. tk # <<>> => h.id = tk[1].id + 1
  BY <1>0, <1>3, <1>4
<1>6. <<h>> \in Seq(Batches) /\ Len(<<h>>) = 1 /\ <<h>>[1] = h
  BY <1>1
<1>7. ASSUME NEW k \in 1 .. Len(a) PROVE a[k].id = n - Len(a) - 1 + k
  <2>1. k + 1 \in 1 .. Len(q)
    BY <1>0, <1>1
  <2> QED
    BY <1>0, <1>1, <1>2, <2>1, SMTT(30)
<1>8. <<h>>[1].id = n - Len(a) - 1
  BY <1>0, <1>1, <1>3, <1>6
<1>9. StreamOK(st, n, a, <<h>>)
  BY <1>0, <1>1, <1>6, <1>7, <1>8 DEF StreamOK
<1> QED
  BY <1>1, <1>5, <1>9 DEF a, h

\* A batch published on the stream of polarisation A.
LEMMA PublishToA ==
  ASSUME Streams, (A!Start /\ nextA' \in StartIds) \/ A!Publish
  PROVE  StreamOK(startedA', nextA', queueA', takenA') /\ takenA' = takenA
<1>0. StreamOK(startedA, nextA, queueA, takenA) /\ startedA \in BOOLEAN
  BY DEF Streams, StreamOK
<1>1. CASE A!Start /\ nextA' \in StartIds
  <2>1. /\ startedA = FALSE /\ startedA' = TRUE /\ nextA' \in Nat
        /\ queueA' = queueA /\ takenA' = takenA
    BY <1>0, <1>1, IdsAssumption DEF A!Start
  <2> QED
    BY <1>0, <2>1, StreamStart
<1>2. CASE A!Publish
  <2>1. PICK got \in SUBSET A!Frames : queueA' = Append(queueA, A!Batch(nextA, got))
    BY <1>2 DEF A!Publish
  <2>2. /\ startedA = TRUE /\ startedA' = TRUE /\ nextA \in BatchIds /\ nextA' = nextA + 1
        /\ takenA' = takenA
    BY <1>0, <1>2 DEF A!Publish
  <2>3. A!Batch(nextA, got) \in Batches /\ A!Batch(nextA, got).id = nextA
    <3>1. A!Frames = 0 .. 0
      BY DEF A!Frames
    <3> QED
      BY <2>2, <3>1 DEF A!Batch, Batches
  <2> QED
    BY <1>0, <2>1, <2>2, <2>3, StreamPublish
<1> QED
  BY <1>1, <1>2

\* A batch published on the stream of polarisation B.
LEMMA PublishToB ==
  ASSUME Streams, (B!Start /\ nextB' \in StartIds) \/ B!Publish
  PROVE  StreamOK(startedB', nextB', queueB', takenB') /\ takenB' = takenB
<1>0. StreamOK(startedB, nextB, queueB, takenB) /\ startedB \in BOOLEAN
  BY DEF Streams, StreamOK
<1>1. CASE B!Start /\ nextB' \in StartIds
  <2>1. /\ startedB = FALSE /\ startedB' = TRUE /\ nextB' \in Nat
        /\ queueB' = queueB /\ takenB' = takenB
    BY <1>0, <1>1, IdsAssumption DEF B!Start
  <2> QED
    BY <1>0, <2>1, StreamStart
<1>2. CASE B!Publish
  <2>1. PICK got \in SUBSET B!Frames : queueB' = Append(queueB, B!Batch(nextB, got))
    BY <1>2 DEF B!Publish
  <2>2. /\ startedB = TRUE /\ startedB' = TRUE /\ nextB \in BatchIds /\ nextB' = nextB + 1
        /\ takenB' = takenB
    BY <1>0, <1>2 DEF B!Publish
  <2>3. B!Batch(nextB, got) \in Batches /\ B!Batch(nextB, got).id = nextB
    <3>1. B!Frames = 0 .. 0
      BY DEF B!Frames
    <3> QED
      BY <2>2, <3>1 DEF B!Batch, Batches
  <2> QED
    BY <1>0, <2>1, <2>2, <2>3, StreamPublish
<1> QED
  BY <1>1, <1>2

\* wait_dequeue on the queue of polarisation A.
LEMMA TakeFromA ==
  ASSUME Streams, A!Take
  PROVE  /\ StreamOK(startedA', nextA', queueA', takenA')
         /\ takenA' # <<>> /\ takenA'[1] = Head(queueA) /\ Head(queueA) \in Batches
         /\ takenA # <<>> => takenA'[1].id = takenA[1].id + 1
<1>1. /\ queueA # <<>> /\ takenA' = <<Head(queueA)>> /\ queueA' = Tail(queueA)
      /\ startedA' = startedA /\ nextA' = nextA
  BY DEF A!Take
<1>2. StreamOK(startedA, nextA, queueA, takenA)
  BY DEF Streams
<1>3. /\ StreamOK(startedA, nextA, Tail(queueA), <<Head(queueA)>>)
      /\ Head(queueA) \in Batches
      /\ takenA # <<>> => Head(queueA).id = takenA[1].id + 1
  BY <1>1, <1>2, StreamTake
<1>4. StreamOK(startedA', nextA', queueA', takenA')
  BY <1>1, <1>3
<1>5. takenA' # <<>> /\ takenA'[1] = Head(queueA)
  BY <1>1
<1> QED
  BY <1>3, <1>4, <1>5

\* wait_dequeue on the queue of polarisation B.
LEMMA TakeFromB ==
  ASSUME Streams, B!Take
  PROVE  /\ StreamOK(startedB', nextB', queueB', takenB')
         /\ takenB' # <<>> /\ takenB'[1] = Head(queueB) /\ Head(queueB) \in Batches
         /\ takenB # <<>> => takenB'[1].id = takenB[1].id + 1
<1>1. /\ queueB # <<>> /\ takenB' = <<Head(queueB)>> /\ queueB' = Tail(queueB)
      /\ startedB' = startedB /\ nextB' = nextB
  BY DEF B!Take
<1>2. StreamOK(startedB, nextB, queueB, takenB)
  BY DEF Streams
<1>3. /\ StreamOK(startedB, nextB, Tail(queueB), <<Head(queueB)>>)
      /\ Head(queueB) \in Batches
      /\ takenB # <<>> => Head(queueB).id = takenB[1].id + 1
  BY <1>1, <1>2, StreamTake
<1>4. StreamOK(startedB', nextB', queueB', takenB')
  BY <1>1, <1>3
<1>5. takenB' # <<>> /\ takenB'[1] = Head(queueB)
  BY <1>1
<1> QED
  BY <1>3, <1>4, <1>5

\* Every step keeps the streams in order, and the two batches in hand those
\* of the same block, once there has been a block.
LEMMA NextPairing ==
  ASSUME TypeOK, Streams, Pairing, [Next]_vars
  PROVE  Streams' /\ Pairing'
<1>0. /\ last \in Nat /\ pc \in {"A", "B", "align"}
  BY IdsAssumption DEF TypeOK
<1>1. CASE ReceiveA
  <2>1. UNCHANGED <<streamB, pc, gap, last>>
    BY <1>1 DEF ReceiveA, workerVars
  <2>2. StreamOK(startedA', nextA', queueA', takenA') /\ takenA' = takenA
    BY <1>1, PublishToA DEF ReceiveA
  <2>3. Streams'
    BY <2>1, <2>2 DEF Streams, streamB
  <2>4. Pairing'
    BY <2>1, <2>2 DEF Pairing, streamB, blockA, blockB
  <2> QED
    BY <2>3, <2>4
<1>2. CASE ReceiveB
  <2>1. UNCHANGED <<streamA, pc, gap, last>>
    BY <1>2 DEF ReceiveB, workerVars
  <2>2. StreamOK(startedB', nextB', queueB', takenB') /\ takenB' = takenB
    BY <1>2, PublishToB DEF ReceiveB
  <2>3. Streams'
    BY <2>1, <2>2 DEF Streams, streamA
  <2>4. Pairing'
    BY <2>1, <2>2 DEF Pairing, streamA, blockA, blockB
  <2> QED
    BY <2>3, <2>4
<1>3. CASE DequeueA
  <2>1. /\ pc = "A" /\ pc' = "B" /\ gap' = FALSE /\ UNCHANGED <<streamB, last>>
        /\ A!Take
    BY <1>3 DEF DequeueA, TakeA
  <2>2. StreamOK(startedA', nextA', queueA', takenA') /\ takenA' # <<>>
        /\ (takenA # <<>> => takenA'[1].id = takenA[1].id + 1)
    BY <2>1, TakeFromA
  <2>3. Streams'
    BY <2>1, <2>2 DEF Streams, streamB
  <2>4. Pairing'
    BY <2>1, <2>2 DEF Pairing, streamB, blockA, blockB
  <2> QED
    BY <2>3, <2>4
<1>4. CASE DequeueB
  <2>1. /\ pc = "B" /\ pc' = "align" /\ UNCHANGED <<streamA, gap, last>>
        /\ B!Take
    BY <1>4 DEF DequeueB
  <2>2. StreamOK(startedB', nextB', queueB', takenB') /\ takenB' # <<>>
        /\ (takenB # <<>> => takenB'[1].id = takenB[1].id + 1)
    BY <2>1, TakeFromB
  <2>3. Streams'
    BY <2>1, <2>2 DEF Streams, streamA
  <2>4. Pairing'
    BY <2>1, <2>2 DEF Pairing, streamA, blockA, blockB
  <2> QED
    BY <2>3, <2>4
<1>5. CASE Align
  <2>1. /\ pc = "align" /\ pc' = "align" /\ last' = last /\ last = 0
    BY <1>5 DEF Align, Pairing
  <2>2. CASE A!Take /\ UNCHANGED streamB
    <3>1. StreamOK(startedA', nextA', queueA', takenA') /\ takenA' # <<>>
      BY <2>2, TakeFromA
    <3>2. Streams'
      BY <2>2, <3>1 DEF Streams, streamB
    <3>3. Pairing'
      BY <2>1, <2>2, <3>1 DEF Pairing, streamB
    <3> QED
      BY <3>2, <3>3
  <2>3. CASE B!Take /\ UNCHANGED streamA
    <3>1. StreamOK(startedB', nextB', queueB', takenB') /\ takenB' # <<>>
      BY <2>3, TakeFromB
    <3>2. Streams'
      BY <2>3, <3>1 DEF Streams, streamA
    <3>3. Pairing'
      BY <2>1, <2>3, <3>1 DEF Pairing, streamA
    <3> QED
      BY <3>2, <3>3
  <2> QED
    BY <1>5, <2>2, <2>3 DEF Align, TakeA
<1>6. CASE Process
  <2>1. /\ pc = "align" /\ pc' = "A" /\ blockA.id = blockB.id /\ last' = blockA.id
        /\ UNCHANGED <<streamA, streamB>>
    BY <1>6 DEF Process
  <2>2. Streams'
    BY <2>1 DEF Streams, streamA, streamB
  <2>3. Pairing'
    BY <2>1 DEF Pairing, streamA, streamB, blockA, blockB
  <2> QED
    BY <2>2, <2>3
<1>7. CASE UNCHANGED vars
  <2>1. UNCHANGED <<streamA, streamB, pc, gap, last>>
    BY <1>7 DEF vars, workerVars
  <2>2. Streams'
    BY <2>1 DEF Streams, streamA, streamB
  <2>3. Pairing'
    BY <2>1 DEF Pairing, streamA, streamB, blockA, blockB
  <2> QED
    BY <2>2, <2>3
<1> QED
  BY <1>1, <1>2, <1>3, <1>4, <1>5, <1>6, <1>7 DEF Next, Worker

(***************************************************************************)
(* One paired block: the window.                                           *)
(***************************************************************************)
\* The blocks the worker is about to process.
LEMMA BlocksInHand ==
  ASSUME TypeOK, Streams, Pairing, pc = "align"
  PROVE  /\ blockA \in Batches /\ blockB \in Batches
         /\ blockA.id \in BatchIds /\ blockA.id \in Nat \ {0}
         /\ last \in Nat /\ last < blockA.id
         /\ last # 0 => blockA.id = last + 1 /\ blockB.id = last + 1
<1>1. last \in Nat
  BY IdsAssumption DEF TypeOK
<1>2. takenA # <<>> /\ takenB # <<>>
  BY DEF Pairing
<1>3. takenA \in Seq(Batches) /\ takenB \in Seq(Batches)
  BY DEF Streams, StreamOK
<1>4. blockA \in Batches /\ blockB \in Batches
  BY <1>2, <1>3 DEF blockA, blockB
<1>5. blockA.id \in BatchIds /\ blockA.id \in Nat \ {0}
  BY <1>4, BatchFacts
<1>6. last # 0 => blockA.id = last + 1 /\ blockB.id = last + 1
  BY DEF Pairing
<1> QED
  BY <1>1, <1>4, <1>5, <1>6

\* Replacing the oldest block of the window.
LEMMA ShiftedWindow ==
  ASSUME NEW w \in [1 .. NumTaps -> BatchIds \cup {Zero}], NEW x \in BatchIds \cup {Zero}
  PROVE  /\ Append(Tail(w), x) \in [1 .. NumTaps -> BatchIds \cup {Zero}]
         /\ \A t \in 1 .. NumTaps :
               Append(Tail(w), x)[t] = IF t = NumTaps THEN x ELSE w[t + 1]
<1> DEFINE v == Tail(w)
           u == Append(v, x)
           S == BatchIds \cup {Zero}
<1>0. NumTaps \in Nat \ {0} /\ w \in [1 .. NumTaps -> S] /\ x \in S
  BY TapsAssumption
<1> HIDE DEF S
<1>1. w \in Seq(S) /\ Len(w) = NumTaps
  BY <1>0
<1>2. w # <<>>
  BY <1>0, <1>1
<1>3. /\ v \in Seq(S) /\ Len(v) = NumTaps - 1
      /\ \A k \in 1 .. Len(v) : v[k] = w[k + 1]
  BY <1>1, <1>2, HeadTailProperties
<1> HIDE DEF v
<1>4. /\ u \in Seq(S) /\ Len(u) = NumTaps
      /\ \A k \in 1 .. NumTaps - 1 : u[k] = v[k]
      /\ u[NumTaps] = x
  BY <1>0, <1>3
<1> HIDE DEF u
<1>5. u \in [1 .. NumTaps -> S]
  BY <1>4, LenProperties
<1>6. \A t \in 1 .. NumTaps : u[t] = IF t = NumTaps THEN x ELSE w[t + 1]
  BY <1>0, <1>3, <1>4
<1> QED
  BY <1>5, <1>6 DEF u, v, S

\* submit_PFB_FFT: the counter of invalid outputs and the window agree, and
\* an output that is used has NumTaps consecutive valid blocks behind it.
LEMMA ProcessWindow ==
  ASSUME TypeOK, Streams, Pairing, WindowRight, LostBehind, Process
  PROVE  /\ window' \in [1 .. NumTaps -> BatchIds \cup {Zero}]
         /\ invalidLeft' \in 0 .. NumTaps - 1
         /\ WindowRight' /\ LostBehind'
         /\ lost' \subseteq lost \cup {blockA.id}
         /\ InvalidOutputs = 0 =>
              /\ lost' = lost /\ window' \in Windows /\ Intact(window')
              /\ window'[NumTaps] = blockA.id
              /\ \A b \in lost : b < blockA.id - (NumTaps - 1)
<1> DEFINE id == blockA.id
           x == IF InputValid THEN id ELSE Zero
           w == Append(Tail(window), x)
<1>0. NumTaps \in Nat \ {0} /\ invalidLeft \in 0 .. NumTaps - 1
      /\ window \in [1 .. NumTaps -> BatchIds \cup {Zero}]
  BY TapsAssumption DEF TypeOK
<1>1. /\ pc = "align" /\ last' = id /\ window' = w
      /\ invalidLeft' = IF InvalidOutputs = 0 THEN 0 ELSE InvalidOutputs - 1
      /\ lost' = IF InputValid THEN lost ELSE lost \cup {id}
  BY DEF Process
<1>2. /\ id \in BatchIds /\ id \in Nat \ {0} /\ last \in Nat /\ last < id
      /\ last # 0 => id = last + 1
  BY <1>1, BlocksInHand
<1> HIDE DEF id
<1>3. x \in BatchIds \cup {Zero}
  BY <1>2
<1>4. /\ w \in [1 .. NumTaps -> BatchIds \cup {Zero}]
      /\ \A t \in 1 .. NumTaps : w[t] = IF t = NumTaps THEN x ELSE window[t + 1]
  <2> HIDE DEF x
  <2> QED
    BY <1>0, <1>3, ShiftedWindow
<1> HIDE DEF w
<1>5. CASE InputValid
  <2>1. /\ x = id /\ lost' = lost /\ InvalidOutputs = invalidLeft
        /\ invalidLeft' = IF invalidLeft = 0 THEN 0 ELSE invalidLeft - 1
    BY <1>1, <1>5 DEF InvalidOutputs
  <2>2. ASSUME NEW t \in 1 .. NumTaps, t > invalidLeft
        PROVE  w[t] # Zero /\ w[t] = id - NumTaps + t
    <3>1. CASE t = NumTaps
      BY <1>0, <1>2, <1>4, <2>1, <3>1 DEF Zero
    <3>2. CASE t # NumTaps
      <4>1. t + 1 \in 1 .. NumTaps /\ t + 1 > invalidLeft + 1 /\ invalidLeft # NumTaps - 1
        BY <1>0, <2>2, <3>2
      <4>2. window[t + 1] # Zero /\ window[t + 1] = last - NumTaps + (t + 1) /\ last # 0
        BY <4>1 DEF WindowRight, LostBehind
      <4> QED
        BY <1>0, <1>2, <1>4, <3>2, <4>2
    <3> QED
      BY <3>1, <3>2
  <2>3. WindowRight'
    <3>1. \A t \in 1 .. NumTaps : t > invalidLeft' + 1 => w[t] # Zero /\ w[t] = id - NumTaps + t
      BY <1>0, <2>1, <2>2
    <3> QED
      BY <1>1, <3>1 DEF WindowRight
  <2>4. LostBehind'
    <3>1. \A b \in lost : b \in Nat /\ b <= last - (NumTaps - 1 - invalidLeft)
      BY DEF LostBehind
    <3>2. lost # {} => last # 0
      BY DEF LostBehind
    <3>3. \A b \in lost : b <= id - (NumTaps - 1 - invalidLeft')
      BY <1>0, <1>2, <2>1, <3>1, <3>2
    <3> QED
      BY <1>1, <1>2, <2>1, <3>1, <3>3 DEF LostBehind
  <2>5. ASSUME InvalidOutputs = 0
        PROVE  /\ w \in Windows /\ Intact(w) /\ w[NumTaps] = id
               /\ \A b \in lost : b < id - (NumTaps - 1)
    <3>1. invalidLeft = 0
      BY <2>1, <2>5
    <3>2. \A t \in 1 .. NumTaps : w[t] # Zero /\ w[t] = id - NumTaps + t
      BY <2>2, <3>1
    <3>3. w[NumTaps] = id
      BY <1>0, <1>4, <2>1
    <3>4. Intact(w)
      BY <3>2, <3>3 DEF Intact
    <3>5. w \in Windows
      BY <1>4, <3>2 DEF Windows
    <3>6. \A b \in lost : b < id - (NumTaps - 1)
      <4>1. \A b \in lost : b \in Nat /\ b <= last - (NumTaps - 1)
        BY <1>0, <3>1 DEF LostBehind
      <4> QED
        BY <1>0, <1>2, <4>1
    <3> QED
      BY <3>3, <3>4, <3>5, <3>6
  <2>6. invalidLeft' \in 0 .. NumTaps - 1
    BY <1>0, <2>1
  <2> QED
    BY <1>1, <1>4, <2>1, <2>3, <2>4, <2>5, <2>6 DEF id
<1>6. CASE ~InputValid
  <2>1. /\ lost' = lost \cup {id} /\ InvalidOutputs = NumTaps /\ InvalidOutputs # 0
        /\ invalidLeft' = NumTaps - 1
    BY <1>0, <1>1, <1>6 DEF InvalidOutputs
  <2>2. WindowRight'
    BY <1>0, <2>1 DEF WindowRight
  <2>3. LostBehind'
    <3>1. \A b \in lost : b \in Nat /\ b <= last - (NumTaps - 1 - invalidLeft)
      BY DEF LostBehind
    <3>2. \A b \in lost \cup {id} : b \in Nat /\ b <= id - (NumTaps - 1 - (NumTaps - 1))
      BY <1>0, <1>2, <3>1
    <3> QED
      BY <1>1, <1>2, <2>1, <3>2 DEF LostBehind
  <2> QED
    BY <1>0, <1>1, <1>4, <2>1, <2>2, <2>3 DEF id
<1> QED
  BY <1>5, <1>6

(***************************************************************************)
(* One paired block: the accumulators.                                     *)
(***************************************************************************)
CountTypes == /\ resetForGap \in BOOLEAN
              /\ count \in [States -> 0 .. AccLen - 1]
              /\ firstTime \in [States -> Nat]

\* A published integration stays right when a block is processed that
\* neither adds to it nor was lost before its end.
LEMMA ResultStays ==
  ASSUME Published, IntegrationExact, NoGapInside, lost \subseteq Nat,
         NEW id \in Nat \ {0}, last \in Nat, last < id, last' = id,
         lost' \subseteq lost \cup {id},
         UNCHANGED <<result, used, cal_mode>>
  PROVE  Published' /\ IntegrationExact' /\ NoGapInside'
<1>1. result.last < Time(id) /\ result.last \in Nat /\ Time(last) \in Nat /\ Time(id) \in Nat
  <2>1. Time(last) < Time(id) /\ Time(last) \in Nat /\ Time(id) \in Nat
    BY TimeFacts
  <2>2. result.last \in Nat /\ result.last <= Time(last)
    BY DEF Published
  <2> QED
    BY <2>1, <2>2
<1>2. Published'
  <2>1. result.last <= Time(id)
    BY <1>1
  <2> QED
    BY <2>1 DEF Published
<1>3. IntegrationExact'
  BY DEF IntegrationExact
<1>4. ASSUME result # NoResult, NEW b \in lost'
      PROVE  ~(Time(b) \in result.first - Time(NumTaps - 1) .. result.last)
  <2>1. CASE b \in lost
    BY <1>4, <2>1 DEF NoGapInside
  <2>2. CASE b = id
    BY <1>1, <2>2
  <2> QED
    BY <2>1, <2>2
<1>5. NoGapInside'
  BY <1>4 DEF NoGapInside
<1> QED
  BY <1>2, <1>3, <1>5

\* The newest block of a window.
LEMMA WindowEnd ==
  ASSUME NEW w \in Windows
  PROVE  w[NumTaps] \in Nat \ {0} /\ w[NumTaps] \in BatchIds
<1>1. NumTaps \in 1 .. NumTaps
  BY TapsAssumption
<1>2. w[NumTaps] \in BatchIds
  BY <1>1 DEF Windows
<1> QED
  BY <1>2, IdsAssumption

\* Blocks of the outputs of an integration.
LEMMA BlocksOf ==
  /\ Blocks({}) = {}
  /\ \A S, w : Blocks(S \cup {w}) = Blocks(S) \cup {w[NumTaps]}
  BY DEF Blocks

\* Outputs of a window with invalid samples: nothing is integrated across.
LEMMA DropKeeps ==
  ASSUME CountTypes, Integrations, lost \subseteq Nat,
         NEW id \in Nat \ {0}, last \in Nat, last < id, last' = id,
         lost' \subseteq lost \cup {id},
         UNCHANGED cal_mode, DropIntegrations
  PROVE  CountTypes' /\ Integrations'
<1>0. AccLen \in Nat \ {0}
  BY TapsAssumption
<1>1. resetForGap' = TRUE /\ UNCHANGED <<result, used>>
  BY DEF DropIntegrations
<1>2. \A s \in States : count'[s] = 0 /\ acc'[s] = {}
  <2>1. CASE resetForGap
    <3>1. \A s \in States : count[s] = 0 /\ Cardinality(acc[s]) = 0 /\ IsFiniteSet(acc[s])
      BY <2>1 DEF Integrations, ResetEmpty, Accumulated
    <3>2. \A s \in States : acc[s] = {}
      BY <3>1, FS_EmptySet
    <3> QED
      BY <2>1, <3>1, <3>2 DEF DropIntegrations
  <2>2. CASE ~resetForGap
    BY <2>2 DEF DropIntegrations, States
  <2> QED
    BY <2>1, <2>2
<1>3. /\ count' \in [States -> 0 .. AccLen - 1] /\ firstTime' \in [States -> Nat]
      /\ acc' \in [States -> SUBSET Windows]
  <2>1. CASE resetForGap
    BY <2>1 DEF DropIntegrations, CountTypes, Integrations, Accumulated
  <2>2. CASE ~resetForGap
    BY <1>0, <2>2 DEF DropIntegrations, States
  <2> QED
    BY <2>1, <2>2
<1>4. CountTypes'
  BY <1>1, <1>3 DEF CountTypes
<1>5. ResetEmpty'
  BY <1>2 DEF ResetEmpty, States
<1>6. Accumulated'
  <2>1. IsFiniteSet({}) /\ Cardinality({}) = 0
    BY FS_EmptySet
  <2> QED
    BY <1>2, <1>3, <2>1 DEF Accumulated
<1>7. Distinct'
  <2>1. Blocks(acc'["ON"]) = {} /\ Blocks(acc'["OFF"]) = {}
        /\ \A s \in States : Blocks(acc'[s]) = {}
    BY <1>2, BlocksOf DEF States
  <2>2. used \cup Blocks(result.windows) \subseteq 0 .. id
    BY DEF Integrations, Distinct
  <2> QED
    BY <1>1, <2>1, <2>2 DEF Distinct, Integrations, NoOutputTwice
<1>8. Published' /\ IntegrationExact' /\ NoGapInside'
  BY <1>1, ResultStays DEF Integrations
<1> QED
  BY <1>4, <1>5, <1>6, <1>7, <1>8 DEF Integrations

\* A blanked block leaves the integrations as they are.
LEMMA SkipKeeps ==
  ASSUME CountTypes, Integrations, lost \subseteq Nat,
         NEW id \in Nat \ {0}, last \in Nat, last < id, last' = id,
         lost' = lost, cal_mode,
         UNCHANGED cal_mode, SkipOutput
  PROVE  CountTypes' /\ Integrations'
<1>1. resetForGap' = FALSE /\ UNCHANGED <<count, firstTime, acc, result, used>>
  BY DEF SkipOutput
<1>2. CountTypes' /\ ResetEmpty'
  BY <1>1 DEF CountTypes, ResetEmpty
<1>3. Accumulated'
  <2>1. ASSUME NEW s \in States, NEW w \in acc[s] PROVE w[NumTaps] <= id
    <3>1. w \in Windows /\ w[NumTaps] <= last
      BY DEF Integrations, Accumulated
    <3>2. w[NumTaps] \in Nat
      BY <3>1, WindowEnd
    <3> QED
      BY <3>1, <3>2
  <2> QED
    BY <1>1, <2>1 DEF Integrations, Accumulated, StartsWith
<1>4. Distinct'
  <2>1. used \cup Blocks(result.windows) \subseteq 0 .. id
    BY DEF Integrations, Distinct
  <2> QED
    BY <1>1, <2>1 DEF Distinct, Integrations, NoOutputTwice
<1>5. Published' /\ IntegrationExact' /\ NoGapInside'
  BY <1>1, ResultStays DEF Integrations
<1> QED
  BY <1>2, <1>3, <1>4, <1>5 DEF Integrations

\* n outputs that may be one integration, from start to the block end.
Integral(sum, n, start, end) ==
  /\ sum \subseteq Windows /\ IsFiniteSet(sum) /\ Cardinality(sum) = n
  /\ \A v \in sum : Intact(v) /\ v[NumTaps] <= end
  /\ \E u \in sum : /\ StartsWith(sum, start, u)
                    /\ ~cal_mode => u[NumTaps] + n = end + 1
  /\ start \in Nat

\* An integration with one output more.
LEMMA Grown ==
  ASSUME CountTypes, Accumulated, cal_mode \in BOOLEAN,
         NEW id \in Nat \ {0}, last \in Nat, last < id, last # 0 => id = last + 1,
         \A b \in lost : b < id - (NumTaps - 1),
         NEW s \in States, NEW w \in Windows, Intact(w), w[NumTaps] = id
  PROVE  Integral(acc[s] \cup {w}, count[s] + 1,
                  IF count[s] = 0 THEN Time(id) ELSE firstTime[s], id)
<1> DEFINE sum == acc[s] \cup {w}
           start == IF count[s] = 0 THEN Time(id) ELSE firstTime[s]
<1>0. /\ count[s] \in Nat /\ firstTime[s] \in Nat /\ Time(id) \in Nat
  <2>1. count[s] \in 0 .. AccLen - 1 /\ firstTime[s] \in Nat /\ AccLen \in Nat
    BY TapsAssumption DEF CountTypes
  <2>2. Time(id) \in Nat
    BY TimeFacts
  <2> QED
    BY <2>1, <2>2
<1>1. /\ acc[s] \subseteq Windows /\ IsFiniteSet(acc[s]) /\ Cardinality(acc[s]) = count[s]
      /\ \A v \in acc[s] : Intact(v) /\ v[NumTaps] <= last
  BY DEF Accumulated
<1>2. \A v \in acc[s] : v[NumTaps] \in Nat \ {0} /\ v[NumTaps] < id
  <2> TAKE v \in acc[s]
  <2>1. v \in Windows /\ v[NumTaps] <= last
    BY <1>1
  <2>2. v[NumTaps] \in Nat \ {0}
    BY <2>1, WindowEnd
  <2> QED
    BY <2>1, <2>2
<1>3. w \notin acc[s]
  BY <1>2
<1>4. IsFiniteSet(sum) /\ Cardinality(sum) = count[s] + 1
  BY <1>1, <1>3, FS_AddElement
<1>5. \A v \in sum : v \in Windows /\ Intact(v) /\ v[NumTaps] <= id /\ v[NumTaps] \in Nat
  BY <1>1, <1>2
<1>6. start \in Nat
  BY <1>0
<1>7. \E u \in sum : /\ StartsWith(sum, start, u)
                     /\ ~cal_mode => u[NumTaps] + (count[s] + 1) = id + 1
  <2>1. CASE count[s] = 0
    <3>1. acc[s] = {}
      BY <1>1, <2>1, FS_EmptySet
    <3>2. StartsWith(sum, start, w)
      BY <2>1, <3>1 DEF StartsWith
    <3> QED
      BY <2>1, <3>2
  <2>2. CASE count[s] # 0
    <3>1. PICK u \in acc[s] : /\ StartsWith(acc[s], firstTime[s], u)
                              /\ ~cal_mode => u[NumTaps] + count[s] = last + 1
      BY <2>2 DEF Accumulated
    <3>2. u[NumTaps] \in Nat \ {0} /\ u[NumTaps] < id /\ u[NumTaps] <= last /\ last # 0
      BY <1>1, <1>2
    <3>3. StartsWith(sum, start, u)
      BY <2>2, <3>1, <3>2 DEF StartsWith
    <3>4. ~cal_mode => u[NumTaps] + (count[s] + 1) = id + 1
      BY <1>0, <3>1, <3>2
    <3> QED
      BY <3>3, <3>4
  <2> QED
    BY <2>1, <2>2
<1> HIDE DEF sum
<1>8. /\ sum \subseteq Windows /\ IsFiniteSet(sum) /\ Cardinality(sum) = count[s] + 1
      /\ \A v \in sum : Intact(v) /\ v[NumTaps] <= id
  BY <1>4, <1>5
<1>9. Integral(sum, count[s] + 1, start, id)
  BY <1>6, <1>7, <1>8 DEF Integral
<1> QED
  BY <1>9 DEF sum

\* An output in an integration that goes on.
LEMMA AddKeeps ==
  ASSUME CountTypes, Integrations, lost \subseteq Nat,
         NEW id \in Nat \ {0}, last \in Nat, last < id, last' = id,
         last # 0 => id = last + 1,
         \A b \in lost : b < id - (NumTaps - 1), lost' = lost,
         NEW s \in States, ~cal_mode => s = "OFF",
         NEW w \in Windows, Intact(w), w[NumTaps] = id,
         UNCHANGED cal_mode, AddOutput(s, Time(id), w), count[s] + 1 < AccLen
  PROVE  CountTypes' /\ Integrations'
<1> DEFINE sum == acc[s] \cup {w}
           start == IF count[s] = 0 THEN Time(id) ELSE firstTime[s]
<1>0. Accumulated /\ Distinct /\ ResetEmpty /\ cal_mode \in BOOLEAN /\ AccLen \in Nat
  BY TapsAssumption DEF Integrations, Published
<1>1. /\ resetForGap' = FALSE
      /\ count' = [count EXCEPT ![s] = count[s] + 1]
      /\ firstTime' = [firstTime EXCEPT ![s] = start]
      /\ acc' = [acc EXCEPT ![s] = sum]
      /\ UNCHANGED <<result, used>>
  BY DEF AddOutput
<1>2. /\ sum \subseteq Windows /\ IsFiniteSet(sum) /\ Cardinality(sum) = count[s] + 1
      /\ \A v \in sum : Intact(v) /\ v[NumTaps] <= id
      /\ \E u \in sum : /\ StartsWith(sum, start, u)
                        /\ ~cal_mode => u[NumTaps] + (count[s] + 1) = id + 1
      /\ start \in Nat
  <2>1. Integral(acc[s] \cup {w}, count[s] + 1,
                 IF count[s] = 0 THEN Time(id) ELSE firstTime[s], id)
    BY <1>0, Grown
  <2> QED
    BY <2>1 DEF Integral
<1>3. /\ Blocks(sum) = Blocks(acc[s]) \cup {id}
      /\ \A r \in States : \A v \in acc[r] : v[NumTaps] \in Nat /\ v[NumTaps] <= last
  <2>1. \A r \in States : \A v \in acc[r] : v \in Windows /\ v[NumTaps] <= last
    BY <1>0 DEF Accumulated
  <2> QED
    BY <2>1, BlocksOf, WindowEnd
<1> HIDE DEF sum, start
<1>4. /\ \A r \in States : count'[r] = IF r = s THEN count[s] + 1 ELSE count[r]
      /\ \A r \in States : firstTime'[r] = IF r = s THEN start ELSE firstTime[r]
      /\ \A r \in States : acc'[r] = IF r = s THEN sum ELSE acc[r]
  BY <1>0, <1>1 DEF CountTypes, Accumulated
<1>5. CountTypes'
  <2>1. count[s] + 1 \in 0 .. AccLen - 1
    BY <1>0 DEF CountTypes
  <2> QED
    BY <1>1, <1>2, <2>1 DEF CountTypes
<1>6. ResetEmpty'
  <2>1. ~cal_mode => count'["ON"] = count["ON"]
    BY <1>4 DEF States
  <2> QED
    BY <1>0, <1>1, <2>1 DEF ResetEmpty
<1>7. Accumulated'
  <2>1. acc' \in [States -> SUBSET Windows]
    BY <1>0, <1>1, <1>2 DEF Accumulated
  <2>2. ASSUME NEW r \in States
        PROVE  /\ IsFiniteSet(acc'[r]) /\ Cardinality(acc'[r]) = count'[r]
               /\ \A v \in acc'[r] : Intact(v) /\ v[NumTaps] <= id
               /\ count'[r] # 0 => \E u \in acc'[r] :
                     /\ StartsWith(acc'[r], firstTime'[r], u)
                     /\ ~cal_mode => u[NumTaps] + count'[r] = id + 1
    <3>1. CASE r = s
      BY <1>2, <1>4, <3>1
    <3>2. CASE r # s
      <4>1. /\ acc'[r] = acc[r] /\ count'[r] = count[r] /\ firstTime'[r] = firstTime[r]
        BY <1>4, <3>2
      <4>2. ~cal_mode => count[r] = 0
        BY <1>0, <3>2 DEF ResetEmpty, States
      <4>3. /\ IsFiniteSet(acc[r]) /\ Cardinality(acc[r]) = count[r]
            /\ \A v \in acc[r] : Intact(v)
            /\ count[r] # 0 => \E u \in acc[r] : StartsWith(acc[r], firstTime[r], u)
        BY <1>0 DEF Accumulated
      <4>4. \A v \in acc[r] : v[NumTaps] <= id
        BY <1>3
      <4> QED
        BY <4>1, <4>2, <4>3, <4>4
    <3> QED
      BY <3>1, <3>2
  <2> QED
    BY <2>1, <2>2 DEF Accumulated, StartsWith
<1>8. Distinct'
  <2>1. /\ used \cup Blocks(result.windows) \subseteq 0 .. last
        /\ \A r \in States : Blocks(acc[r]) \cap (used \cup Blocks(result.windows)) = {}
        /\ Blocks(acc["ON"]) \cap Blocks(acc["OFF"]) = {}
        /\ Blocks(result.windows) \cap used = {}
    BY <1>0 DEF Distinct, NoOutputTwice
  <2>2. id \notin used \cup Blocks(result.windows)
    BY <2>1
  <2>3. \A r \in States : id \notin Blocks(acc[r])
    BY <1>3 DEF Blocks
  <2>4. \A r \in States : Blocks(acc'[r]) = IF r = s THEN Blocks(acc[r]) \cup {id} ELSE Blocks(acc[r])
    BY <1>3, <1>4
  <2>5. \A r \in States : Blocks(acc'[r]) \cap (used \cup Blocks(result.windows)) = {}
    BY <2>1, <2>2, <2>4
  <2>6. Blocks(acc'["ON"]) \cap Blocks(acc'["OFF"]) = {}
    BY <2>1, <2>3, <2>4 DEF States
  <2>7. used \cup Blocks(result.windows) \subseteq 0 .. id
    BY <2>1
  <2> QED
    BY <1>1, <2>1, <2>5, <2>6, <2>7 DEF Distinct, NoOutputTwice
<1>9. Published' /\ IntegrationExact' /\ NoGapInside'
  BY <1>1, ResultStays DEF Integrations
<1> QED
  BY <1>5, <1>6, <1>7, <1>8, <1>9 DEF Integrations

\* The integration a last output completes: exact, and clear of every gap.
LEMMA PublishedExact ==
  ASSUME NEW id \in Nat \ {0}, NEW s \in States, NEW sum, NEW start,
         Integral(sum, AccLen, start, id), id \in Blocks(sum), lost \subseteq Nat,
         result' = [state |-> s, windows |-> sum, first |-> start, last |-> Time(id)],
         lost' = lost, last' = id, UNCHANGED cal_mode, cal_mode \in BOOLEAN
  PROVE  Published' /\ IntegrationExact' /\ NoGapInside'
<1>0. NumTaps \in Nat \ {0} /\ AccLen \in Nat \ {0} /\ Time(id) \in Nat /\ start \in Nat
  BY TapsAssumption, TimeFacts DEF Integral
<1>1. /\ result'.windows = sum /\ result'.first = start /\ result'.last = Time(id)
  OBVIOUS
<1>2. PICK u \in sum : /\ StartsWith(sum, start, u)
                       /\ ~cal_mode => u[NumTaps] + AccLen = id + 1
  BY DEF Integral
<1>3. /\ \A v \in sum : v[NumTaps] \in Nat /\ u[NumTaps] <= v[NumTaps] /\ v[NumTaps] <= id
      /\ start = Time(u[NumTaps])
      /\ \A b \in lost : b \in Nat /\ b < u[NumTaps] - (NumTaps - 1)
  <2>1. \A v \in sum : v[NumTaps] \in Nat
    BY WindowEnd DEF Integral
  <2> QED
    BY <1>2, <2>1 DEF StartsWith, Integral
<1>4. \A b \in Blocks(sum) : Time(b) \in start .. Time(id)
  <2> SUFFICES ASSUME NEW v \in sum PROVE Time(v[NumTaps]) \in start .. Time(id)
    BY DEF Blocks
  <2>1. /\ v[NumTaps] \in Nat /\ u[NumTaps] \in Nat
        /\ u[NumTaps] <= v[NumTaps] /\ v[NumTaps] <= id
    BY <1>3
  <2>2. /\ Time(u[NumTaps]) <= Time(v[NumTaps]) /\ Time(v[NumTaps]) <= Time(id)
        /\ Time(v[NumTaps]) \in Nat
    BY <2>1, TimeFacts
  <2> QED
    BY <1>0, <1>3, <2>2
<1>5. \E b, c \in Blocks(sum) : Time(b) = start /\ Time(c) = Time(id)
  <2>1. u[NumTaps] \in Blocks(sum)
    BY DEF Blocks
  <2> QED
    BY <1>3, <2>1
<1>6. ~cal_mode => Time(id) - start = Time(AccLen - 1)
  <2> SUFFICES ASSUME ~cal_mode PROVE Time(id) - start = Time(AccLen - 1)
    OBVIOUS
  <2>1. id = u[NumTaps] + (AccLen - 1) /\ AccLen - 1 \in Nat /\ u[NumTaps] \in Nat
    BY <1>0, <1>2, <1>3
  <2>2. /\ Time(id) = Time(u[NumTaps]) + Time(AccLen - 1)
        /\ Time(AccLen - 1) \in Nat /\ Time(u[NumTaps]) \in Nat
    BY <2>1, TimeFacts
  <2> QED
    BY <1>3, <2>2
<1>7. Cardinality(sum) = AccLen /\ \A v \in sum : Intact(v)
  BY DEF Integral
<1>8. IntegrationExact'
  BY <1>1, <1>4, <1>5, <1>6, <1>7 DEF IntegrationExact
<1>9. \A b \in lost : ~(Time(b) \in start - Time(NumTaps - 1) .. Time(id))
  <2> TAKE b \in lost
  <2>1. /\ b \in Nat /\ NumTaps - 1 \in Nat /\ b + (NumTaps - 1) \in Nat /\ u[NumTaps] \in Nat
        /\ b + (NumTaps - 1) < u[NumTaps]
    BY <1>0, <1>3
  <2>2. /\ Time(b + (NumTaps - 1)) = Time(b) + Time(NumTaps - 1)
        /\ Time(b + (NumTaps - 1)) < Time(u[NumTaps])
        /\ Time(b) \in Nat /\ Time(NumTaps - 1) \in Nat /\ Time(u[NumTaps]) \in Nat
    BY <2>1, TimeFacts
  <2> QED
    BY <1>0, <1>3, <2>2
<1>10. NoGapInside'
  BY <1>1, <1>9 DEF NoGapInside
<1>11. Published'
  BY <1>0, <1>1 DEF Published
<1> QED
  BY <1>8, <1>10, <1>11

\* The last output of an integration: it is published and cleared.
LEMMA CompleteKeeps ==
  ASSUME CountTypes, Integrations, lost \subseteq Nat,
         NEW id \in Nat \ {0}, last \in Nat, last < id, last' = id,
         last # 0 => id = last + 1,
         \A b \in lost : b < id - (NumTaps - 1), lost' = lost,
         NEW s \in States, ~cal_mode => s = "OFF",
         NEW w \in Windows, Intact(w), w[NumTaps] = id,
         UNCHANGED cal_mode, AddOutput(s, Time(id), w), ~(count[s] + 1 < AccLen)
  PROVE  CountTypes' /\ Integrations'
<1> DEFINE sum == acc[s] \cup {w}
           start == IF count[s] = 0 THEN Time(id) ELSE firstTime[s]
<1>0. Accumulated /\ Distinct /\ ResetEmpty /\ cal_mode \in BOOLEAN /\ AccLen \in Nat \ {0}
  BY TapsAssumption DEF Integrations, Published
<1>1. /\ resetForGap' = FALSE
      /\ count' = [count EXCEPT ![s] = 0]
      /\ firstTime' = [firstTime EXCEPT ![s] = 0]
      /\ acc' = [acc EXCEPT ![s] = {}]
      /\ result' = [state |-> s, windows |-> sum, first |-> start, last |-> Time(id)]
      /\ used' = used \cup Blocks(result.windows)
  BY DEF AddOutput
<1>2. Integral(sum, AccLen, start, id)
  <2>1. Integral(sum, count[s] + 1, start, id)
    BY <1>0, Grown
  <2>2. count[s] \in 0 .. AccLen - 1
    BY DEF CountTypes
  <2>3. count[s] + 1 = AccLen
    BY <1>0, <2>2
  <2> QED
    BY <2>1, <2>3
<1>3. /\ Blocks(sum) = Blocks(acc[s]) \cup {id}
      /\ \A r \in States : \A v \in acc[r] : v[NumTaps] \in Nat /\ v[NumTaps] <= last
  <2>1. \A r \in States : \A v \in acc[r] : v \in Windows /\ v[NumTaps] <= last
    BY <1>0 DEF Accumulated
  <2> QED
    BY <2>1, BlocksOf, WindowEnd
<1> HIDE DEF sum, start
<1>4. /\ \A r \in States : count'[r] = IF r = s THEN 0 ELSE count[r]
      /\ \A r \in States : firstTime'[r] = IF r = s THEN 0 ELSE firstTime[r]
      /\ \A r \in States : acc'[r] = IF r = s THEN {} ELSE acc[r]
  BY <1>0, <1>1 DEF CountTypes, Accumulated
<1>5. CountTypes'
  <2>1. 0 \in 0 .. AccLen - 1 /\ 0 \in Nat
    BY <1>0
  <2>2. count' \in [States -> 0 .. AccLen - 1] /\ firstTime' \in [States -> Nat]
    BY <1>1, <2>1 DEF CountTypes
  <2> QED
    BY <1>1, <2>2 DEF CountTypes
<1>6. ResetEmpty'
  <2>1. ~cal_mode => count'["ON"] = count["ON"]
    BY <1>4 DEF States
  <2> QED
    BY <1>0, <1>1, <2>1 DEF ResetEmpty
<1>7. Accumulated'
  <2>1. acc' \in [States -> SUBSET Windows]
    BY <1>0, <1>1 DEF Accumulated
  <2>2. ASSUME NEW r \in States
        PROVE  /\ IsFiniteSet(acc'[r]) /\ Cardinality(acc'[r]) = count'[r]
               /\ \A v \in acc'[r] : Intact(v) /\ v[NumTaps] <= id
               /\ count'[r] # 0 => \E u \in acc'[r] :
                     /\ StartsWith(acc'[r], firstTime'[r], u)
                     /\ ~cal_mode => u[NumTaps] + count'[r] = id + 1
    <3>1. CASE r = s
      BY <1>4, <3>1, FS_EmptySet
    <3>2. CASE r # s
      <4>1. /\ acc'[r] = acc[r] /\ count'[r] = count[r] /\ firstTime'[r] = firstTime[r]
        BY <1>4, <3>2
      <4>2. ~cal_mode => count[r] = 0
        BY <1>0, <3>2 DEF ResetEmpty, States
      <4>3. /\ IsFiniteSet(acc[r]) /\ Cardinality(acc[r]) = count[r]
            /\ \A v \in acc[r] : Intact(v)
            /\ count[r] # 0 => \E u \in acc[r] : StartsWith(acc[r], firstTime[r], u)
        BY <1>0 DEF Accumulated
      <4>4. \A v \in acc[r] : v[NumTaps] <= id
        BY <1>3
      <4> QED
        BY <4>1, <4>2, <4>3, <4>4
    <3> QED
      BY <3>1, <3>2
  <2> QED
    BY <2>1, <2>2 DEF Accumulated, StartsWith
<1>8. Distinct'
  <2>1. /\ used \cup Blocks(result.windows) \subseteq 0 .. last
        /\ \A r \in States : Blocks(acc[r]) \cap (used \cup Blocks(result.windows)) = {}
        /\ Blocks(acc["ON"]) \cap Blocks(acc["OFF"]) = {}
    BY <1>0 DEF Distinct
  <2>2. id \notin used \cup Blocks(result.windows)
    BY <2>1
  <2>3. \A r \in States : id \notin Blocks(acc[r]) /\ Blocks(acc[r]) \subseteq 0 .. last
    BY <1>3 DEF Blocks
  <2>4. \A r \in States : Blocks(acc'[r]) = IF r = s THEN {} ELSE Blocks(acc[r])
    BY <1>4, BlocksOf
  <2>5. Blocks(result'.windows) = Blocks(acc[s]) \cup {id}
    BY <1>1, <1>3
  <2>6. \A r \in States : Blocks(acc'[r]) \cap (used' \cup Blocks(result'.windows)) = {}
    BY <1>1, <2>1, <2>3, <2>4, <2>5 DEF States
  <2>7. Blocks(acc'["ON"]) \cap Blocks(acc'["OFF"]) = {}
    BY <2>1, <2>4 DEF States
  <2>8. used' \cup Blocks(result'.windows) \subseteq 0 .. id
    BY <1>1, <2>1, <2>3, <2>5
  <2>9. Blocks(result'.windows) \cap used' = {}
    BY <1>1, <2>1, <2>2, <2>5
  <2> QED
    BY <2>6, <2>7, <2>8, <2>9 DEF Distinct, NoOutputTwice
<1>9. Published' /\ IntegrationExact' /\ NoGapInside'
  <2>1. id \in Blocks(sum)
    BY <1>3
  <2> QED
    BY <1>0, <1>1, <1>2, <2>1, PublishedExact
<1> QED
  BY <1>5, <1>6, <1>7, <1>8, <1>9 DEF Integrations

(***************************************************************************)
(* Every step keeps the invariant.                                         *)
(***************************************************************************)
\* Processing a pair of blocks.
LEMMA ProcessKeeps ==
  ASSUME SubbandInv, Process
  PROVE  CountTypes' /\ Integrations'
<1> DEFINE id == blockA.id
           start == IF cal_mode THEN NewCycleStart(tagA, Time(id)) ELSE cycleStart
           state == IF cal_mode THEN tagA ELSE noise
           s == IF cal_mode THEN state ELSE "OFF"
<1>0. /\ TypeOK /\ Streams /\ Pairing /\ WindowRight /\ LostBehind /\ Integrations
      /\ CountTypes /\ lost \subseteq Nat
  BY DEF SubbandInv, TypeOK, CountTypes, LostBehind
<1>1. /\ pc = "align" /\ last' = id /\ cal_mode' = cal_mode
      /\ window' = Append(Tail(window), IF InputValid THEN id ELSE Zero)
      /\ IF InvalidOutputs # 0 THEN DropIntegrations
         ELSE IF cal_mode /\ NoiseBlank(Time(id), start) THEN SkipOutput
         ELSE AddOutput(s, Time(id), window')
  BY DEF Process, setting
<1>2. /\ id \in Nat \ {0} /\ last \in Nat /\ last < id
      /\ last # 0 => id = last + 1
  BY <1>0, <1>1, BlocksInHand
<1>3. /\ lost' \subseteq lost \cup {id}
      /\ InvalidOutputs = 0 =>
           /\ lost' = lost /\ window' \in Windows /\ Intact(window') /\ window'[NumTaps] = id
           /\ \A b \in lost : b < id - (NumTaps - 1)
  BY <1>0, ProcessWindow
<1>4. s \in States /\ (~cal_mode => s = "OFF")
  BY <1>0 DEF TypeOK, States
<1> HIDE DEF id, s, start
<1>5. CASE InvalidOutputs # 0
  BY <1>0, <1>1, <1>2, <1>3, <1>5, DropKeeps
<1>6. CASE InvalidOutputs = 0 /\ cal_mode /\ NoiseBlank(Time(id), start)
  BY <1>0, <1>1, <1>2, <1>3, <1>6, SkipKeeps
<1>7. CASE InvalidOutputs = 0 /\ ~(cal_mode /\ NoiseBlank(Time(id), start))
  <2>1. AddOutput(s, Time(id), window')
    BY <1>1, <1>7
  <2>2. CASE count[s] + 1 < AccLen
    BY <1>0, <1>1, <1>2, <1>3, <1>4, <1>7, <2>1, <2>2, AddKeeps
  <2>3. CASE ~(count[s] + 1 < AccLen)
    BY <1>0, <1>1, <1>2, <1>3, <1>4, <1>7, <2>1, <2>3, CompleteKeeps
  <2> QED
    BY <2>2, <2>3
<1> QED
  BY <1>5, <1>6, <1>7

\* The steps of the streams and of the pairing leave the rest alone.
LEMMA OthersKeep ==
  ASSUME SubbandInv,
         UNCHANGED <<cal_mode, window, invalidLeft, last, lost, accVars>>
  PROVE  WindowRight' /\ LostBehind' /\ Integrations'
<1>1. WindowRight' /\ LostBehind'
  BY DEF SubbandInv, WindowRight, LostBehind
<1>2. ResetEmpty' /\ Published'
  BY DEF SubbandInv, Integrations, accVars, ResetEmpty, Published
<1>3. Accumulated'
  BY DEF SubbandInv, Integrations, accVars, Accumulated, StartsWith
<1>4. Distinct'
  BY DEF SubbandInv, Integrations, accVars, Distinct, NoOutputTwice
<1>5. IntegrationExact'
  BY DEF SubbandInv, Integrations, accVars, IntegrationExact
<1>6. NoGapInside'
  BY DEF SubbandInv, Integrations, accVars, NoGapInside
<1> QED
  BY <1>1, <1>2, <1>3, <1>4, <1>5, <1>6 DEF Integrations

\* The state a batch of polarisation A is tagged with.
LEMMA TagType ==
  ASSUME tagA \in States, TakeA
  PROVE  tagA' \in States
<1>1. \A t : NoiseAt(t) \in States
  BY DEF NoiseAt, States
<1>2. \A batch : Tags(batch) \subseteq States
  BY <1>1 DEF Tags
<1> QED
  BY <1>2 DEF TakeA

\* Every step keeps the types of the worker's members.
LEMMA NextTypes ==
  ASSUME SubbandInv, [Next]_vars
  PROVE  TypeOK'
<1>0. TypeOK
  BY DEF SubbandInv
<1>1. CASE ReceiveA \/ ReceiveB \/ UNCHANGED vars
  BY <1>0, <1>1 DEF ReceiveA, ReceiveB, vars, workerVars, accVars, setting, TypeOK
<1>2. CASE DequeueA
  <2>1. tagA' \in States
    BY <1>0, <1>2, TagType DEF DequeueA, TypeOK
  <2> QED
    BY <1>0, <1>2, <2>1 DEF DequeueA, accVars, setting, TypeOK
<1>3. CASE DequeueB
  BY <1>0, <1>3 DEF DequeueB, accVars, setting, TypeOK
<1>4. CASE Align
  <2>1. tagA' \in States
    BY <1>0, <1>4, TagType DEF Align, TypeOK
  <2> QED
    BY <1>0, <1>4, <2>1 DEF Align, accVars, setting, TypeOK
<1>5. CASE Process
  <2>1. CountTypes'
    BY <1>5, ProcessKeeps
  <2>2. /\ window' \in [1 .. NumTaps -> BatchIds \cup {Zero}]
        /\ invalidLeft' \in 0 .. NumTaps - 1
    BY <1>5, ProcessWindow DEF SubbandInv
  <2>3. blockA.id \in BatchIds /\ blockA.id \in Nat
    BY <1>5, BlocksInHand DEF SubbandInv, Process
  <2>4. Time(blockA.id) \in Int
    BY <2>3, TimeFacts
  <2>5. last' \in BatchIds \cup {0}
    BY <1>5, <2>3 DEF Process
  <2>6. noise' \in States
    BY <1>0, <1>5 DEF Process, TypeOK
  <2>7. cycleStart' \in Int
    <3>1. NewCycleStart(tagA, Time(blockA.id)) \in Int
      BY <1>0, <2>4, NoiseAssumption DEF NewCycleStart, TypeOK
    <3> QED
      BY <1>0, <1>5, <3>1 DEF Process, TypeOK
  <2>8. pc' \in {"A", "B", "align"} /\ gap' \in BOOLEAN /\ tagA' \in States
    BY <1>0, <1>5 DEF Process, TypeOK
  <2> QED
    BY <2>1, <2>2, <2>5, <2>6, <2>7, <2>8 DEF TypeOK, CountTypes
<1> QED
  BY <1>1, <1>2, <1>3, <1>4, <1>5 DEF Next, Worker

\* The invariant is inductive.
LEMMA NextSubband == SubbandInv /\ [Next]_vars => SubbandInv'
<1> SUFFICES ASSUME SubbandInv, [Next]_vars PROVE SubbandInv'
  OBVIOUS
<1>1. TypeOK' /\ Streams' /\ Pairing'
  BY NextTypes, NextPairing DEF SubbandInv
<1>2. CASE Process
  <2>1. WindowRight' /\ LostBehind'
    BY <1>2, ProcessWindow DEF SubbandInv
  <2>2. Integrations'
    BY <1>2, ProcessKeeps
  <2> QED
    BY <1>1, <2>1, <2>2 DEF SubbandInv
<1>3. CASE ~Process
  <2>1. UNCHANGED <<cal_mode, window, invalidLeft, last, lost, accVars>>
    BY <1>3 DEF Next, Worker, ReceiveA, ReceiveB, DequeueA, DequeueB, Align, vars,
                workerVars, setting
  <2>2. WindowRight' /\ LostBehind' /\ Integrations'
    BY <2>1, OthersKeep
  <2> QED
    BY <1>1, <2>2 DEF SubbandInv
<1> QED
  BY <1>2, <1>3

\* The worker starts with empty streams, a window of zeros and no result.
LEMMA InitSubband == Init => SubbandInv
<1> SUFFICES ASSUME Init PROVE SubbandInv
  OBVIOUS
<1>0. NumTaps \in Nat \ {0} /\ AccLen \in Nat \ {0}
  BY TapsAssumption
<1>1. TypeOK
  <2>1. window \in [1 .. NumTaps -> BatchIds \cup {Zero}]
    BY DEF Init
  <2>2. count \in [States -> 0 .. AccLen - 1] /\ firstTime \in [States -> Nat]
    BY <1>0 DEF Init, States
  <2>3. invalidLeft \in 0 .. NumTaps - 1
    BY <1>0 DEF Init
  <2>4. gap \in BOOLEAN /\ resetForGap \in BOOLEAN
    BY Zenon DEF Init
  <2>5. /\ pc \in {"A", "B", "align"} /\ tagA \in States /\ noise \in States
        /\ cycleStart \in Int /\ last \in BatchIds \cup {0}
    BY DEF Init, States
  <2> QED
    BY <2>1, <2>2, <2>3, <2>4, <2>5 DEF TypeOK
<1>2. Streams
  <2>1. StreamOK(FALSE, 0, <<>>, <<>>)
    BY DEF StreamOK
  <2> QED
    BY <2>1 DEF Init, A!Init, B!Init, Streams
<1>3. Pairing
  BY DEF Init, Pairing
<1>4. WindowRight /\ LostBehind
  BY <1>0 DEF Init, WindowRight, LostBehind
<1>5. ResetEmpty
  BY DEF Init, ResetEmpty, States
<1>6. Accumulated
  <2>1. IsFiniteSet({}) /\ Cardinality({}) = 0
    BY FS_EmptySet
  <2>2. \A s \in States : acc[s] = {} /\ count[s] = 0
    BY DEF Init, States
  <2>3. acc \in [States -> SUBSET Windows]
    BY DEF Init, States
  <2> QED
    BY <2>1, <2>2, <2>3 DEF Accumulated
<1>7. Distinct
  <2>1. result.windows = {} /\ used = {} /\ acc["ON"] = {} /\ acc["OFF"] = {}
    BY DEF Init, NoResult
  <2>2. \A s \in States : Blocks(acc[s]) = {}
    BY <2>1, BlocksOf DEF States
  <2> QED
    BY <2>1, <2>2, BlocksOf DEF Distinct, NoOutputTwice
<1>8. Published
  <2>1. cal_mode \in BOOLEAN /\ result.first = 0 /\ result.last = 0 /\ last = 0
    BY ModesAssumption DEF Init, NoResult
  <2>2. Time(0) \in Nat
    BY TimeFacts
  <2> QED
    BY <2>1, <2>2 DEF Published
<1>9. IntegrationExact /\ NoGapInside
  BY DEF Init, IntegrationExact, NoGapInside
<1> QED
  BY <1>1, <1>2, <1>3, <1>4, <1>5, <1>6, <1>7, <1>8, <1>9 DEF SubbandInv, Integrations

\* The invariant holds in every reachable state.
LEMMA SubbandInvariant == Spec => []SubbandInv
  BY InitSubband, NextSubband, PTL DEF Spec

(***************************************************************************)
(* The noise source: the phase of a time.                                  *)
(***************************************************************************)
\* Division with remainder.
LEMMA DivMod ==
  ASSUME NEW x \in Int, NEW d \in Int, d > 0
  PROVE  /\ x \div d \in Int /\ x % d \in 0 .. d - 1
         /\ x = (x \div d) * d + (x % d)
  OBVIOUS

\* The remainder is unique.
LEMMA ModUnique ==
  ASSUME NEW x \in Int, NEW d \in Int, d > 0, NEW q \in Int, NEW r \in 0 .. d - 1,
         x = d * q + r
  PROVE  x % d = r
  OBVIOUS

\* The phase of the source is a remainder.
LEMMA PhaseRange ==
  ASSUME sourcePhase \in Int, NEW t \in Int
  PROVE  /\ TruePhase(t) \in 0 .. Period - 1 /\ Period \in Int /\ Period > 0
         /\ \E q \in Int : t + Period - sourcePhase = Period * q + TruePhase(t)
<1>0. Period \in Int /\ Period > 0
  BY NoiseAssumption
<1> DEFINE x == t + Period - sourcePhase
<1>1. x \in Int
  BY <1>0
<1> HIDE DEF x
<1>2. x \div Period \in Int /\ x % Period \in 0 .. Period - 1
      /\ x = (x \div Period) * Period + (x % Period)
  BY <1>0, <1>1, DivMod
<1>3. TruePhase(t) = x % Period
  BY DEF TruePhase, x
<1>4. x = Period * (x \div Period) + TruePhase(t)
  BY <1>0, <1>2, <1>3
<1>5. t + Period - sourcePhase = Period * (x \div Period) + TruePhase(t)
  BY <1>4 DEF x
<1> QED
  BY <1>0, <1>2, <1>3, <1>5

\* While it does not wrap round, the phase grows with the time.
LEMMA PhaseMoves ==
  ASSUME sourcePhase \in Int, NEW t \in Int, NEW d \in Int,
         TruePhase(t) + d \in 0 .. Period - 1
  PROVE  TruePhase(t + d) = TruePhase(t) + d
<1>0. Period \in Int /\ Period > 0 /\ TruePhase(t) \in Int
  BY PhaseRange
<1>1. PICK q \in Int : t + Period - sourcePhase = Period * q + TruePhase(t)
  BY PhaseRange
<1> DEFINE x == (t + d) + Period - sourcePhase
           r == TruePhase(t) + d
<1>2. x \in Int /\ x = Period * q + r
  <2>1. Period * q \in Int
    BY <1>0
  <2> QED
    BY <1>0, <1>1, <2>1, SMTT(30)
<1> HIDE DEF x, r
<1>3. r \in 0 .. Period - 1
  BY DEF r
<1>4. \A n \in Int : x = Period * n + r => x % Period = r
  BY <1>0, <1>2, <1>3, ModUnique
<1>5. x % Period = r
  BY <1>2, <1>4
<1> QED
  BY <1>5 DEF TruePhase, x, r

\* At the end of a period it starts again.
LEMMA PhaseWraps ==
  ASSUME sourcePhase \in Int, NEW t \in Int, NEW d \in Int,
         TruePhase(t) + d - Period \in 0 .. Period - 1
  PROVE  TruePhase(t + d) = TruePhase(t) + d - Period
<1>0. Period \in Int /\ Period > 0 /\ TruePhase(t) \in Int
  BY PhaseRange
<1>1. PICK q \in Int : t + Period - sourcePhase = Period * q + TruePhase(t)
  BY PhaseRange
<1> DEFINE x == (t + d) + Period - sourcePhase
           r == TruePhase(t) + d - Period
<1>2. x \in Int /\ x = Period * (q + 1) + r
  BY <1>0, <1>1
<1> HIDE DEF x, r
<1>3. r \in 0 .. Period - 1
  BY DEF r
<1>4. q + 1 \in Int /\ x % Period = r
  BY <1>0, <1>2, <1>3, ModUnique
<1> QED
  BY <1>4 DEF TruePhase, x, r

\* The phase of a time counted from a reference.
LEMMA PhaseFromStart ==
  ASSUME sourcePhase \in Int, NEW start \in Int, NEW t \in Int, NEW x \in Int,
         ((t - start) % Period) + TruePhase(start) + x \in 0 .. Period - 1
  PROVE  TruePhase(t + x) = ((t - start) % Period) + TruePhase(start) + x
<1>0. Period \in Int /\ Period > 0 /\ TruePhase(start) \in Int
  BY PhaseRange
<1>1. PICK q \in Int : start + Period - sourcePhase = Period * q + TruePhase(start)
  BY PhaseRange
<1> DEFINE y == t - start
           p == (t - start) % Period
           r == p + TruePhase(start) + x
           z == (t + x) + Period - sourcePhase
<1>2. y \in Int /\ t = start + y
  OBVIOUS
<1>3. p \in 0 .. Period - 1 /\ \E k \in Int : y = Period * k + p
  <2>1. y \div Period \in Int /\ p \in 0 .. Period - 1 /\ y = (y \div Period) * Period + p
    BY <1>0, <1>2, DivMod
  <2> HIDE DEF p, y
  <2>2. y = Period * (y \div Period) + p
    BY <1>0, <2>1
  <2> QED
    BY <2>1, <2>2
<1> HIDE DEF p, y
<1>4. PICK k \in Int : y = Period * k + p
  BY <1>3
<1>5. z = start + Period - sourcePhase + y + x
  BY <1>0, <1>2
<1>6. q + k \in Int /\ Period * (q + k) = Period * q + Period * k
  BY <1>0
<1>7. z \in Int /\ z = Period * (q + k) + r
  BY <1>0, <1>1, <1>2, <1>3, <1>4, <1>5, <1>6
<1>8. r \in 0 .. Period - 1
  BY DEF p
<1> HIDE DEF z, r
<1>9. z % Period = r
  BY <1>0, <1>6, <1>7, <1>8, ModUnique
<1> QED
  BY <1>9 DEF TruePhase, z, r, p

\* The first block after the source switches on starts within a block of it.
LEMMA EdgeWithinBlock ==
  ASSUME sourcePhase \in Int, NEW t \in Int,
         NoiseAt(t - BlockTime) = "OFF", NoiseAt(t) = "ON"
  PROVE  TruePhase(t) < BlockTime
<1>0. /\ BlockTime \in Nat \ {0} /\ OnTime \in Nat /\ OnTime < Period /\ Period \in Nat
  BY NoiseAssumption
<1> DEFINE s == t - BlockTime
<1>1. s \in Int /\ t = s + BlockTime
  BY <1>0
<1>2. ~(TruePhase(s) < OnTime) /\ TruePhase(t) < OnTime
  BY DEF NoiseAt
<1> HIDE DEF s
<1>3. TruePhase(s) \in 0 .. Period - 1 /\ TruePhase(t) \in 0 .. Period - 1
  BY <1>1, PhaseRange
<1>4. CASE TruePhase(s) + BlockTime < Period
  <2>1. TruePhase(s + BlockTime) = TruePhase(s) + BlockTime
    BY <1>0, <1>1, <1>3, <1>4, PhaseMoves
  <2> QED
    BY <1>0, <1>1, <1>2, <1>3, <2>1
<1>5. CASE ~(TruePhase(s) + BlockTime < Period) /\ BlockTime <= Period
  <2>1. TruePhase(s + BlockTime) = TruePhase(s) + BlockTime - Period
    BY <1>0, <1>1, <1>3, <1>5, PhaseWraps
  <2> QED
    BY <1>0, <1>1, <1>2, <1>3, <2>1
<1>6. CASE BlockTime > Period
  BY <1>0, <1>3, <1>6
<1> QED
  BY <1>0, <1>3, <1>4, <1>5, <1>6

\* is_noise_blank lets an output pass only if the source was in one state
\* from the oldest sample of the filter to the newest.
LEMMA OutputPure ==
  ASSUME BlankingCovers, sourcePhase \in Int,
         NEW start \in Int, start # 0, TruePhase(start) < BlockTime,
         NEW t \in Int, ~NoiseBlank(t, start),
         NEW k \in 1 .. NumTaps, NEW u \in 0 .. BlockTime - 1
  PROVE  NoiseAt(t - (NumTaps - k) * BlockTime + u) = NoiseAt(t)
<1>0. /\ BlockTime \in Nat \ {0} /\ OnTime \in Nat \ {0} /\ OnTime < Period /\ Period \in Nat
      /\ BlankTime \in Nat /\ NumTaps \in Nat \ {0}
  BY NoiseAssumption, TapsAssumption
<1> DEFINE p == (t - start) % Period
           d == TruePhase(start)
           m == (NumTaps - k) * BlockTime
           x == u - m
<1>1. (NumTaps - 1) * BlockTime <= BlankTime + 1 /\ 2 * BlockTime - 2 <= BlankTime
  BY DEF BlankingCovers, Time
<1>2. d \in 0 .. BlockTime - 1
  BY <1>0, PhaseRange
<1>3. p \in 0 .. Period - 1
  <2>1. t - start \in Int
    OBVIOUS
  <2> QED
    BY <1>0, <2>1, DivMod
<1>4. m \in Nat /\ m <= (NumTaps - 1) * BlockTime
  <2>1. NumTaps - k \in Nat /\ NumTaps - k <= NumTaps - 1
    BY <1>0
  <2>2. \A a, b \in Nat : a <= b => a * BlockTime <= b * BlockTime /\ a * BlockTime \in Nat
    BY <1>0
  <2>3. NumTaps - 1 \in Nat
    BY <1>0
  <2> QED
    BY <2>1, <2>2, <2>3
<1>5. /\ ~(p <= BlankTime) /\ ~(Period - p <= BlankTime)
      /\ ~(Abs(p - OnTime) <= BlankTime)
  BY DEF NoiseBlank
<1> HIDE DEF p, d, m
<1>6. x \in Int /\ x <= BlockTime - 1 /\ x >= 0 - (BlankTime + 1) /\ m <= BlankTime + 1
  BY <1>0, <1>1, <1>4
<1>7. p < OnTime - BlankTime \/ p > OnTime + BlankTime
  BY <1>0, <1>3, <1>5 DEF Abs
<1>8. /\ p + d + x \in 0 .. Period - 1 /\ p + d \in 0 .. Period - 1
      /\ p + d + x < OnTime <=> p + d < OnTime
  <2>1. p + d + x >= 0 /\ p + d >= 0
    BY <1>0, <1>2, <1>3, <1>5, <1>6
  <2>2. CASE p < OnTime - BlankTime
    BY <1>0, <1>1, <1>2, <1>3, <1>6, <2>1, <2>2
  <2>3. CASE p > OnTime + BlankTime
    <3>1. p < Period - BlankTime
      BY <1>0, <1>3, <1>5
    <3>2. p + d + x < Period /\ p + d < Period
      BY <1>0, <1>1, <1>2, <1>3, <1>6, <3>1
    <3>3. p + d + x >= OnTime /\ p + d >= OnTime
      BY <1>0, <1>1, <1>2, <1>3, <1>6, <2>3
    <3> QED
      BY <1>0, <1>2, <1>3, <1>6, <2>1, <3>2, <3>3
  <2> QED
    BY <1>7, <2>2, <2>3
<1>9. TruePhase(t + x) = p + d + x
  <2>1. ((t - start) % Period) + TruePhase(start) + x \in 0 .. Period - 1
    BY <1>8 DEF p, d
  <2> QED
    BY <1>6, <2>1, PhaseFromStart DEF p, d
<1>10. TruePhase(t + 0) = p + d + 0
  <2>1. ((t - start) % Period) + TruePhase(start) + 0 \in 0 .. Period - 1
    BY <1>2, <1>3, <1>8 DEF p, d
  <2> QED
    BY <2>1, PhaseFromStart DEF p, d
<1>11. t + 0 = t /\ p + d + 0 = p + d
  BY <1>2, <1>3, <1>0
<1>12. NoiseAt(t + x) = NoiseAt(t)
  BY <1>8, <1>9, <1>10, <1>11 DEF NoiseAt
<1>13. t + x = t - m + u
  BY <1>0, <1>4
<1> QED
  BY <1>12, <1>13 DEF m

(***************************************************************************)
(* The invariant of the noise source, for streams without loss.            *)
(***************************************************************************)
\* Every sample in the window of an output was taken in the state s.
PureOutput(w, s) ==
  \A k \in 1 .. NumTaps, u \in 0 .. BlockTime - 1 : NoiseAt(Time(w[k]) + u) = s

\* With no loss a batch is tagged with the state of the source at its start.
TagsRight ==
  /\ \A i \in 1 .. Len(queueA) : queueA[i].valid
  /\ pc # "A" => tagA = NoiseAt(Time(blockA.id))
  /\ IF cal_mode THEN last # 0 => noise = NoiseAt(Time(last)) ELSE noise = "OFF"

\* Once an edge has been seen, the reference follows the source.
ReferenceRight ==
  /\ sourcePhase \in Int /\ edgeSeen \in Nat /\ edgeSeen <= Time(last)
  /\ edgeSeen # 0 => /\ cal_mode /\ cycleStart # 0
                     /\ TruePhase(cycleStart) < BlockTime

\* What was integrated since is pure.
IntegrationsPure ==
  /\ \A s \in States :
       edgeSeen # 0 /\ count[s] # 0 /\ firstTime[s] >= edgeSeen =>
         \A w \in acc[s] : PureOutput(w, s)
  /\ CalibrationPure

NoiseInv == TagsRight /\ ReferenceRight /\ IntegrationsPure

\* The next batch of polarisation A is tagged as the source is.
LEMMA TakeTagged ==
  ASSUME Streams, TagsRight, TakeA, UNCHANGED setting
  PROVE  /\ \A i \in 1 .. Len(queueA') : queueA'[i].valid
         /\ tagA' = (NoiseAt(Time(blockA.id)))'
<1>1. /\ queueA # <<>> /\ takenA' = <<Head(queueA)>> /\ queueA' = Tail(queueA)
      /\ tagA' \in Tags(Head(queueA)) /\ sourcePhase' = sourcePhase
  BY DEF TakeA, A!Take, setting
<1>2. queueA \in Seq(Batches)
  BY DEF Streams, StreamOK
<1>3. /\ Head(queueA) = queueA[1] /\ 1 \in 1 .. Len(queueA)
      /\ Len(queueA') = Len(queueA) - 1 /\ Len(queueA) \in Nat
      /\ \A i \in 1 .. Len(queueA') : queueA'[i] = queueA[i + 1]
  BY <1>1, <1>2, HeadTailProperties, EmptySeq
<1>4. \A i \in 1 .. Len(queueA) : queueA[i].valid
  BY DEF TagsRight
<1>5. \A i \in 1 .. Len(queueA') : queueA'[i].valid
  BY <1>3, <1>4
<1>6. Head(queueA).valid
  BY <1>3, <1>4
<1>7. tagA' = NoiseAt(Time(Head(queueA).id))
  BY <1>1, <1>6 DEF Tags
<1>8. (NoiseAt(Time(blockA.id)))' = NoiseAt(Time(Head(queueA).id))
  BY <1>1 DEF NoiseAt, TruePhase, Time, blockA
<1> QED
  BY <1>5, <1>7, <1>8

\* Without loss every batch that is queued is complete.
LEMMA QueuedValid ==
  ASSUME Lossless, Streams, TagsRight, ReceiveA
  PROVE  \A i \in 1 .. Len(queueA') : queueA'[i].valid
<1>0. queueA \in Seq(Batches) /\ \A i \in 1 .. Len(queueA) : queueA[i].valid
  BY DEF Streams, StreamOK, TagsRight
<1>1. CASE A!Start
  BY <1>0, <1>1 DEF A!Start
<1>2. CASE A!Publish /\ (Lossless => queueA'[Len(queueA')].valid)
  <2>1. PICK got \in SUBSET A!Frames : queueA' = Append(queueA, A!Batch(nextA, got))
    BY <1>2 DEF A!Publish
  <2> DEFINE b == A!Batch(nextA, got)
  <2>2. nextA \in BatchIds
    BY <1>2 DEF A!Publish
  <2>3. b \in Batches
    <3>1. A!Frames = 0 .. 0
      BY DEF A!Frames
    <3> QED
      BY <2>2, <3>1 DEF A!Batch, Batches
  <2> HIDE DEF b
  <2>4. /\ Len(queueA') = Len(queueA) + 1 /\ Len(queueA) \in Nat
        /\ \A i \in 1 .. Len(queueA) : queueA'[i] = queueA[i]
    BY <1>0, <2>1, <2>3, AppendProperties DEF b
  <2>5. queueA'[Len(queueA) + 1].valid
    BY <1>2, <2>4
  <2> QED
    BY <1>0, <2>4, <2>5
<1> QED
  BY <1>1, <1>2 DEF ReceiveA

\* The steps that process no block keep it.
LEMMA OthersPure ==
  ASSUME Lossless, SubbandInv, NoiseInv, [Next]_vars, ~Process
  PROVE  NoiseInv'
<1>0. Streams /\ TagsRight /\ ReferenceRight /\ IntegrationsPure
  BY DEF SubbandInv, NoiseInv
<1>1. UNCHANGED <<setting, noise, cycleStart, last, edgeSeen, accVars>>
  BY DEF Next, Worker, ReceiveA, ReceiveB, DequeueA, DequeueB, Align, vars, workerVars
<1>2. ReferenceRight'
  BY <1>0, <1>1 DEF ReferenceRight, setting, TruePhase, Time
<1>3. IntegrationsPure'
  BY <1>0, <1>1 DEF IntegrationsPure, CalibrationPure, PureOutput, NoiseAt, TruePhase,
                    Time, setting, accVars
<1>4. (IF cal_mode THEN last # 0 => noise = NoiseAt(Time(last)) ELSE noise = "OFF")'
  BY <1>0, <1>1 DEF TagsRight, NoiseAt, TruePhase, Time, setting
<1>5. /\ \A i \in 1 .. Len(queueA') : queueA'[i].valid
      /\ (pc # "A" => tagA = NoiseAt(Time(blockA.id)))'
  <2>1. CASE ReceiveA
    <3>1. \A i \in 1 .. Len(queueA') : queueA'[i].valid
      BY <1>0, <2>1, QueuedValid
    <3>2. UNCHANGED <<pc, tagA, takenA>>
      BY <2>1 DEF ReceiveA, A!Start, A!Publish, workerVars
    <3> QED
      BY <1>0, <1>1, <3>1, <3>2 DEF TagsRight, NoiseAt, TruePhase, Time, setting, blockA
  <2>2. CASE TakeA
    BY <1>0, <1>1, <2>2, TakeTagged
  <2>3. CASE UNCHANGED <<streamA, tagA>> /\ (pc' = "A" => pc = "A") /\ (pc' # "A" => pc # "A")
    BY <1>0, <1>1, <2>3 DEF TagsRight, NoiseAt, TruePhase, Time, setting, blockA, streamA
  <2>4. ReceiveA \/ TakeA \/ (UNCHANGED <<streamA, tagA>> /\ (pc' = "A" => pc = "A") /\ (pc' # "A" => pc # "A"))
    BY DEF Next, Worker, ReceiveB, DequeueA, DequeueB, Align, vars, workerVars
  <2> QED
    BY <2>1, <2>2, <2>3, <2>4
<1>6. TagsRight'
  BY <1>4, <1>5 DEF TagsRight
<1> QED
  BY <1>2, <1>3, <1>6 DEF NoiseInv

\* update_noise_state: the tag of the block becomes the state, and a change
\* to ON the reference.
LEMMA ProcessReference ==
  ASSUME SubbandInv, TagsRight, ReferenceRight, Process
  PROVE  /\ TagsRight' /\ ReferenceRight'
         /\ edgeSeen' = edgeSeen \/ (edgeSeen = 0 /\ edgeSeen' = Time(blockA.id)
                                     /\ cal_mode /\ cycleStart' = edgeSeen')
<1> DEFINE id == blockA.id
           t == Time(id)
<1>0. /\ TypeOK /\ Streams /\ Pairing
  BY DEF SubbandInv
<1>1. /\ id \in Nat \ {0} /\ last \in Nat /\ last < id
      /\ last # 0 => id = last + 1
  BY <1>0, BlocksInHand DEF Process
<1>2. t \in Nat /\ Time(last) < t /\ Time(last) \in Nat
  BY <1>1, TimeFacts
<1>3. cal_mode \in BOOLEAN /\ sourcePhase \in Int /\ edgeSeen \in Nat
  BY DEF SubbandInv, Integrations, Published, ReferenceRight
<1>4. /\ pc = "align" /\ pc' = "A" /\ last' = id /\ queueA' = queueA
      /\ cal_mode' = cal_mode /\ sourcePhase' = sourcePhase
      /\ noise' = IF cal_mode THEN tagA ELSE noise
      /\ cycleStart' = IF cal_mode THEN NewCycleStart(tagA, t) ELSE cycleStart
      /\ edgeSeen' = IF edgeSeen = 0 /\ noise = "OFF" /\ noise' = "ON"
                        /\ TruePhase(t) < BlockTime
                       THEN t ELSE edgeSeen
  BY DEF Process, setting, streamA
<1>5. tagA = NoiseAt(t)
  BY <1>4 DEF TagsRight
<1>6. TagsRight'
  <2>1. (IF cal_mode THEN last # 0 => noise = NoiseAt(Time(last)) ELSE noise = "OFF")'
    BY <1>4, <1>5 DEF TagsRight, NoiseAt, TruePhase, Time
  <2> QED
    BY <1>4, <2>1 DEF TagsRight
<1>7. ~cal_mode => noise = "OFF"
  BY DEF TagsRight
<1>8. CASE edgeSeen' # edgeSeen
  <2>1. /\ edgeSeen = 0 /\ noise = "OFF" /\ noise' = "ON" /\ TruePhase(t) < BlockTime
        /\ edgeSeen' = t
    BY <1>4, <1>8
  <2>2. cal_mode /\ tagA = "ON"
    BY <1>3, <1>4, <1>7, <2>1
  <2>3. cycleStart' = t
    BY <1>4, <2>1, <2>2 DEF NewCycleStart
  <2>4. t # 0
    BY <1>2
  <2>5. (edgeSeen <= Time(last))'
    BY <1>2, <1>4, <2>1 DEF Time
  <2>6. (TruePhase(cycleStart) < BlockTime)'
    BY <1>4, <2>1, <2>3 DEF TruePhase
  <2>7. ReferenceRight'
    BY <1>2, <1>3, <1>4, <2>1, <2>2, <2>3, <2>4, <2>5, <2>6 DEF ReferenceRight
  <2> QED
    BY <1>6, <2>1, <2>2, <2>3, <2>7
<1>9. CASE edgeSeen' = edgeSeen
  <2>1. edgeSeen <= Time(last) /\ (edgeSeen # 0 => cal_mode /\ cycleStart # 0
                     /\ TruePhase(cycleStart) < BlockTime)
    BY DEF ReferenceRight
  <2>2. (edgeSeen <= Time(last))'
    <3>1. edgeSeen <= t
      BY <1>2, <1>3, <2>1
    <3> QED
      BY <1>4, <1>9, <3>1 DEF Time
  <2>3. ASSUME edgeSeen # 0
        PROVE  cycleStart' # 0 /\ TruePhase(cycleStart') < BlockTime
    <3>1. last # 0
      <4>1. Time(0) = 0
        BY NoiseAssumption DEF Time
      <4> QED
        BY <1>3, <2>1, <2>3, <4>1
    <3>2. cal_mode /\ noise = NoiseAt(Time(last)) /\ cycleStart # 0
      BY <2>1, <2>3, <3>1 DEF TagsRight
    <3>3. CASE tagA = "ON" /\ tagA # noise
      <4>1. cycleStart' = t
        BY <1>4, <3>2, <3>3 DEF NewCycleStart
      <4>2. Time(last) = t - BlockTime
        <5>1. BlockTime \in Nat /\ Time(1) = BlockTime
          BY NoiseAssumption DEF Time
        <5>2. t = Time(last) + Time(1)
          BY <1>1, <3>1, TimeFacts
        <5> QED
          BY <1>2, <5>1, <5>2
      <4>3. NoiseAt(t - BlockTime) = "OFF" /\ NoiseAt(t) = "ON"
        <5>1. noise = "OFF"
          BY <1>0, <3>3 DEF TypeOK, States
        <5> QED
          BY <1>5, <3>2, <3>3, <4>2, <5>1
      <4>4. TruePhase(t) < BlockTime
        BY <1>2, <1>3, <4>3, EdgeWithinBlock
      <4> QED
        BY <1>2, <4>1, <4>4
    <3>4. CASE ~(tagA = "ON" /\ tagA # noise)
      <4>1. cycleStart' = cycleStart
        BY <1>4, <3>2, <3>4 DEF NewCycleStart
      <4> QED
        BY <2>1, <2>3, <4>1
    <3> QED
      BY <3>3, <3>4
  <2>4. (TruePhase(cycleStart) < BlockTime)' <=> TruePhase(cycleStart') < BlockTime
    BY <1>4 DEF TruePhase
  <2>5. ReferenceRight'
    BY <1>3, <1>4, <1>9, <2>1, <2>2, <2>3, <2>4 DEF ReferenceRight
  <2> QED
    BY <1>6, <1>9, <2>5
<1> QED
  BY <1>8, <1>9

\* The step that makes an edge known adds no output: its block is blanked.
LEMMA EdgeBlanked ==
  ASSUME NEW t \in Int, t # 0
  PROVE  NoiseBlank(t, t)
<1>1. Period \in Int /\ Period > 0 /\ BlankTime \in Nat
  BY NoiseAssumption
<1>2. (t - t) % Period = 0
  BY <1>1
<1> QED
  BY <1>1, <1>2 DEF NoiseBlank

\* An output added since the edge is pure.
LEMMA AddedPure ==
  ASSUME BlankingCovers, sourcePhase \in Int,
         NEW start \in Int, start # 0, TruePhase(start) < BlockTime,
         NEW w \in Windows, Intact(w), ~NoiseBlank(Time(w[NumTaps]), start)
  PROVE  PureOutput(w, NoiseAt(Time(w[NumTaps])))
<1> DEFINE id == w[NumTaps]
<1>0. id \in Nat \ {0} /\ NumTaps \in Nat \ {0} /\ BlockTime \in Nat \ {0}
  BY WindowEnd, TapsAssumption, NoiseAssumption
<1>1. Time(id) \in Int
  <2>1. id \in Nat
    BY <1>0
  <2> HIDE DEF id
  <2>2. Time(id) \in Nat
    BY <2>1, TimeFacts
  <2> QED
    BY <2>2
<1> SUFFICES ASSUME NEW k \in 1 .. NumTaps, NEW u \in 0 .. BlockTime - 1
             PROVE  NoiseAt(Time(w[k]) + u) = NoiseAt(Time(id))
  BY DEF PureOutput
<1>2. w[k] = id - NumTaps + k
  BY DEF Intact
<1> HIDE DEF id
<1>3. Time(w[k]) = Time(id) - (NumTaps - k) * BlockTime
  BY <1>0, <1>2 DEF Time
<1>4. ~NoiseBlank(Time(id), start)
  BY DEF id
<1>5. NoiseAt(Time(id) - (NumTaps - k) * BlockTime + u) = NoiseAt(Time(id))
  BY <1>1, <1>4, OutputPure
<1> QED
  BY <1>3, <1>5

\* What was integrated stays pure while an output is skipped or dropped.
LEMMA KeptPure ==
  ASSUME SubbandInv, IntegrationsPure, edgeSeen \in Nat, UNCHANGED <<setting, result>>,
         NEW e \in Nat, edgeSeen' = e, e = edgeSeen \/ e > Time(last),
         \A s \in States : (count'[s] = count[s] /\ firstTime'[s] = firstTime[s]
                              /\ acc'[s] = acc[s]) \/ count'[s] = 0
  PROVE  IntegrationsPure'
<1>0. Accumulated /\ Published /\ IntegrationExact /\ TypeOK /\ last \in Nat
  BY IdsAssumption DEF SubbandInv, Integrations, TypeOK
<1>1. Time(last) \in Nat
  BY <1>0, TimeFacts
<1>2. ASSUME NEW s \in States, e # 0, count'[s] # 0, firstTime'[s] >= e, NEW w \in acc'[s]
      PROVE  PureOutput(w, s)
  <2>1. count'[s] = count[s] /\ firstTime'[s] = firstTime[s] /\ acc'[s] = acc[s]
    BY <1>2
  <2>2. CASE e = edgeSeen
    BY <1>2, <2>1, <2>2 DEF IntegrationsPure
  <2>3. CASE e > Time(last)
    <3>1. PICK v \in acc[s] : StartsWith(acc[s], firstTime[s], v)
      BY <1>0, <1>2, <2>1 DEF Accumulated
    <3>2. v \in Windows /\ v[NumTaps] <= last
      BY <1>0 DEF Accumulated
    <3>3. v[NumTaps] \in Nat
      BY <3>2, WindowEnd
    <3>4. firstTime[s] <= Time(last) /\ firstTime[s] \in Nat
      BY <1>0, <3>1, <3>2, <3>3, TimeFacts DEF StartsWith
    <3> QED
      BY <1>1, <1>2, <2>1, <2>3, <3>4
  <2> QED
    BY <2>2, <2>3
<1>3. ASSUME e # 0, result.first >= e, NEW w \in result.windows
      PROVE  PureOutput(w, result.state)
  <2>1. CASE e = edgeSeen
    BY <1>3, <2>1 DEF IntegrationsPure, CalibrationPure, PureOutput
  <2>2. CASE e > Time(last)
    <3>1. result # NoResult
      BY <1>3 DEF NoResult
    <3>2. PICK b \in Blocks(result.windows) : Time(b) = result.first
      BY <1>0, <3>1 DEF IntegrationExact
    <3>3. Time(b) \in result.first .. result.last
      BY <1>0, <3>1 DEF IntegrationExact
    <3>4. result.first \in Nat /\ result.last \in Nat /\ result.last <= Time(last)
      BY <1>0 DEF Published
    <3> QED
      BY <1>1, <1>3, <2>2, <3>3, <3>4
  <2> QED
    BY <2>1, <2>2
<1>4. \A w, s : PureOutput(w, s)' <=> PureOutput(w, s)
  BY DEF PureOutput, NoiseAt, TruePhase, setting
<1>5. CalibrationPure'
  BY <1>3 DEF CalibrationPure, PureOutput, NoiseAt, TruePhase, setting
<1> QED
  BY <1>2, <1>4, <1>5 DEF IntegrationsPure

\* A pure output joins its integration, which may be published.
LEMMA GrownPure ==
  ASSUME SubbandInv, IntegrationsPure, UNCHANGED <<setting, edgeSeen>>,
         NEW s \in States, NEW t \in Nat, NEW w,
         edgeSeen # 0 => PureOutput(w, s), AddOutput(s, t, w)
  PROVE  IntegrationsPure'
<1> DEFINE sum == acc[s] \cup {w}
           start == IF count[s] = 0 THEN t ELSE firstTime[s]
<1>0. Accumulated /\ TypeOK
  BY DEF SubbandInv, Integrations
<1>1. acc \in [States -> SUBSET Windows] /\ count \in [States -> 0 .. AccLen - 1]
      /\ firstTime \in [States -> Nat]
  BY <1>0 DEF Accumulated, TypeOK
<1>2. \A x, r : PureOutput(x, r)' <=> PureOutput(x, r)
  BY DEF PureOutput, NoiseAt, TruePhase, setting
<1>3. ASSUME edgeSeen # 0, start >= edgeSeen
      PROVE  \A x \in sum : PureOutput(x, s)
  <2>1. CASE count[s] = 0
    <3>1. acc[s] = {}
      BY <1>0, <2>1, FS_EmptySet DEF Accumulated
    <3> QED
      BY <1>3, <3>1
  <2>2. CASE count[s] # 0
    BY <1>3, <2>2 DEF IntegrationsPure
  <2> QED
    BY <2>1, <2>2
<1>4. \A r \in States : edgeSeen # 0 /\ count[r] # 0 /\ firstTime[r] >= edgeSeen =>
         \A x \in acc[r] : PureOutput(x, r)
  BY DEF IntegrationsPure
<1>5. CASE count[s] + 1 < AccLen
  <2>1. /\ count' = [count EXCEPT ![s] = count[s] + 1]
        /\ firstTime' = [firstTime EXCEPT ![s] = start]
        /\ acc' = [acc EXCEPT ![s] = sum]
        /\ result' = result
    BY <1>5 DEF AddOutput
  <2> HIDE DEF sum, start
  <2>2. ASSUME NEW r \in States, edgeSeen # 0, count'[r] # 0, firstTime'[r] >= edgeSeen,
               NEW x \in acc'[r]
        PROVE  PureOutput(x, r)
    <3>1. CASE r = s
      <4>1. x \in sum /\ start >= edgeSeen
        BY <1>1, <2>1, <2>2, <3>1
      <4> QED
        BY <1>3, <2>2, <3>1, <4>1
    <3>2. CASE r # s
      <4>1. x \in acc[r] /\ firstTime[r] >= edgeSeen /\ count[r] # 0
        BY <1>1, <2>1, <2>2, <3>2
      <4> QED
        BY <1>4, <2>2, <4>1
    <3> QED
      BY <3>1, <3>2
  <2>3. CalibrationPure'
    BY <2>1 DEF IntegrationsPure, CalibrationPure, NoiseAt, TruePhase, setting
  <2> QED
    BY <1>2, <2>2, <2>3 DEF IntegrationsPure
<1>6. CASE ~(count[s] + 1 < AccLen)
  <2>1. /\ count' = [count EXCEPT ![s] = 0]
        /\ firstTime' = [firstTime EXCEPT ![s] = 0]
        /\ acc' = [acc EXCEPT ![s] = {}]
        /\ result' = [state |-> s, windows |-> sum, first |-> start, last |-> t]
    BY <1>6 DEF AddOutput
  <2> HIDE DEF sum, start
  <2>2. ASSUME NEW r \in States, edgeSeen # 0, count'[r] # 0, firstTime'[r] >= edgeSeen,
               NEW x \in acc'[r]
        PROVE  PureOutput(x, r)
    <3>1. r # s
      BY <1>1, <2>1, <2>2
    <3>2. x \in acc[r] /\ firstTime[r] >= edgeSeen /\ count[r] # 0
      BY <1>1, <2>1, <2>2, <3>1
    <3> QED
      BY <1>4, <2>2, <3>2
  <2>3. result'.state = s /\ result'.windows = sum /\ result'.first = start
    BY <2>1
  <2>4. edgeSeen # 0 /\ result'.first >= edgeSeen =>
          \A x \in result'.windows : PureOutput(x, result'.state)
    BY <1>3, <2>3
  <2>5. CalibrationPure'
    BY <2>4 DEF CalibrationPure, PureOutput, NoiseAt, TruePhase, setting
  <2> QED
    BY <1>2, <2>2, <2>5 DEF IntegrationsPure
<1> QED
  BY <1>5, <1>6

\* A block that is processed.
LEMMA ProcessPure ==
  ASSUME Lossless, BlankingCovers, SubbandInv, NoiseInv, Process
  PROVE  NoiseInv'
<1> DEFINE id == blockA.id
           t == Time(id)
           state == IF cal_mode THEN tagA ELSE noise
           s == IF cal_mode THEN state ELSE "OFF"
<1>0. /\ TypeOK /\ Streams /\ Pairing /\ WindowRight /\ LostBehind
      /\ TagsRight /\ ReferenceRight /\ IntegrationsPure
  BY DEF SubbandInv, NoiseInv
<1>1. /\ TagsRight' /\ ReferenceRight'
      /\ edgeSeen' = edgeSeen \/ (edgeSeen = 0 /\ edgeSeen' = t /\ cal_mode
                                  /\ cycleStart' = edgeSeen')
  BY <1>0, ProcessReference
<1>2. /\ pc = "align" /\ UNCHANGED setting
      /\ window' = Append(Tail(window), IF InputValid THEN id ELSE Zero)
      /\ cycleStart' = IF cal_mode THEN NewCycleStart(tagA, t) ELSE cycleStart
      /\ IF InvalidOutputs # 0 THEN DropIntegrations
         ELSE IF cal_mode /\ NoiseBlank(t, cycleStart') THEN SkipOutput
         ELSE AddOutput(s, t, window')
  BY DEF Process, setting
<1>3. id \in Nat \ {0} /\ last \in Nat /\ last < id
  BY <1>0, <1>2, BlocksInHand
<1>4. t \in Nat /\ t > Time(last) /\ t # 0 /\ Time(last) \in Nat
  <2>1. t \in Nat /\ Time(last) < t /\ Time(last) \in Nat
    BY <1>3, TimeFacts
  <2> QED
    BY <2>1
<1>5. edgeSeen \in Nat /\ cal_mode \in BOOLEAN /\ s \in States /\ sourcePhase \in Int
  BY <1>0 DEF ReferenceRight, SubbandInv, Integrations, Published, TypeOK, States
<1>6. edgeSeen' \in Nat /\ (edgeSeen' = edgeSeen \/ edgeSeen' > Time(last))
  BY <1>1, <1>4, <1>5
<1>7. CASE InvalidOutputs # 0 \/ (cal_mode /\ NoiseBlank(t, cycleStart'))
  <2>1. DropIntegrations \/ SkipOutput
    BY <1>2, <1>7
  <2>2. UNCHANGED result /\ \A r \in States : (count'[r] = count[r] /\ firstTime'[r] = firstTime[r]
                              /\ acc'[r] = acc[r]) \/ count'[r] = 0
    BY <2>1 DEF DropIntegrations, SkipOutput, States
  <2>3. IntegrationsPure'
    BY <1>0, <1>2, <1>5, <1>6, <2>2, KeptPure
  <2> QED
    BY <1>1, <2>3 DEF NoiseInv
<1>8. CASE InvalidOutputs = 0 /\ ~(cal_mode /\ NoiseBlank(t, cycleStart'))
  <2>1. AddOutput(s, t, window')
    BY <1>2, <1>8
  <2>2. window' \in Windows /\ Intact(window') /\ window'[NumTaps] = id
    BY <1>0, <1>8, ProcessWindow
  <2>3. edgeSeen' = edgeSeen
    <3>1. ASSUME edgeSeen' = t /\ cal_mode /\ cycleStart' = edgeSeen' PROVE FALSE
      <4>1. NoiseBlank(t, t)
        BY <1>4, EdgeBlanked
      <4> QED
        BY <1>8, <3>1, <4>1
    <3> QED
      BY <1>1, <3>1
  <2>4. ASSUME edgeSeen # 0 PROVE PureOutput(window', s)
    <3>1. cal_mode /\ cycleStart' # 0 /\ (TruePhase(cycleStart) < BlockTime)'
      BY <1>1, <1>2, <2>3, <2>4 DEF ReferenceRight, setting
    <3>2. TruePhase(cycleStart') < BlockTime
      BY <1>2, <3>1 DEF TruePhase, setting
    <3>3. cycleStart' \in Int
      <4>1. NewCycleStart(tagA, t) \in Int
        BY <1>0, <1>4, NoiseAssumption DEF NewCycleStart, TypeOK
      <4> QED
        BY <1>0, <1>2, <4>1 DEF TypeOK
    <3>4. s = NoiseAt(t)
      BY <1>0, <1>2, <3>1 DEF TagsRight
    <3>5. ~NoiseBlank(t, cycleStart')
      BY <1>8, <3>1
    <3> HIDE DEF t, s, id
    <3>6. t = Time(window'[NumTaps])
      BY <2>2 DEF t
    <3>7. ~NoiseBlank(Time(window'[NumTaps]), cycleStart')
      BY <3>5, <3>6
    <3>8. PureOutput(window', NoiseAt(Time(window'[NumTaps])))
      BY <1>5, <2>2, <3>1, <3>2, <3>3, <3>7, AddedPure
    <3> QED
      BY <3>4, <3>6, <3>8
  <2> HIDE DEF t, s
  <2>5. IntegrationsPure'
    BY <1>0, <1>2, <1>4, <1>5, <2>1, <2>3, <2>4, GrownPure
  <2> QED
    BY <1>1, <2>5 DEF NoiseInv
<1> QED
  BY <1>7, <1>8

\* Nothing has been integrated and no edge seen at the start.
LEMMA InitNoise == Init => NoiseInv
<1> SUFFICES ASSUME Init PROVE NoiseInv
  OBVIOUS
<1>1. TagsRight
  BY DEF Init, A!Init, TagsRight
<1>2. ReferenceRight
  <2>1. Time(0) = 0 /\ Period \in Int
    BY NoiseAssumption DEF Time
  <2>2. sourcePhase \in Int
    BY <2>1 DEF Init
  <2> QED
    BY <2>1, <2>2 DEF Init, ReferenceRight
<1>3. IntegrationsPure
  BY DEF Init, IntegrationsPure, CalibrationPure
<1> QED
  BY <1>1, <1>2, <1>3 DEF NoiseInv

\* With no loss and a long enough blanked interval the invariant of the
\* noise source holds in every reachable state.
LEMMA NoiseInvariant ==
  ASSUME Lossless, BlankingCovers
  PROVE  Spec => []NoiseInv
<1>1. SubbandInv /\ NoiseInv /\ [Next]_vars => NoiseInv'
  <2> SUFFICES ASSUME SubbandInv, NoiseInv, [Next]_vars PROVE NoiseInv'
    OBVIOUS
  <2>1. CASE Process
    BY <2>1, ProcessPure
  <2>2. CASE ~Process
    BY <2>2, OthersPure
  <2> QED
    BY <2>1, <2>2
<1> QED
  BY <1>1, InitNoise, SubbandInvariant, PTL DEF Spec

(***************************************************************************)
(* The theorems.                                                           *)
(***************************************************************************)
\* The members of the worker keep their types: m_acc_id stays below
\* m_acc_len and m_pfb_invalid_blocks_remaining below the number of taps.
THEOREM WorkerTypeCorrect == Spec => []TypeOK
<1>1. SubbandInv => TypeOK
  BY DEF SubbandInv
<1> QED
  BY <1>1, SubbandInvariant, PTL

\* accumulate_one_block aligns streams that start at different batches once:
\* after the first block no block is ever skipped again.
THEOREM AlignedOnce == Spec => []AlignedForGood
<1>1. SubbandInv => AlignedForGood
  BY DEF SubbandInv, Pairing, AlignedForGood
<1> QED
  BY <1>1, SubbandInvariant, PTL

\* A spectrum StokesAcc publishes is the sum of exactly m_acc_len filter
\* outputs, each of m_num_taps consecutive valid blocks, and is dated by the
\* first and the last of them.
THEOREM SpectraAreExact == Spec => []IntegrationExact
<1>1. SubbandInv => IntegrationExact
  BY DEF SubbandInv, Integrations
<1> QED
  BY <1>1, SubbandInvariant, PTL

\* No spectrum is integrated over a lost block, in its own blocks or in the
\* filter input before them.
THEOREM NoSpectrumSpansAGap == Spec => []NoGapInside
<1>1. SubbandInv => NoGapInside
  BY DEF SubbandInv, Integrations
<1> QED
  BY <1>1, SubbandInvariant, PTL

\* No filter output is part of two spectra, ON or OFF.
THEOREM OutputsCountedOnce == Spec => []NoOutputTwice
<1>1. SubbandInv => NoOutputTwice
  BY DEF SubbandInv, Integrations, Distinct
<1> QED
  BY <1>1, SubbandInvariant, PTL

\* With no loss and a blanked interval that covers the memory of the filter,
\* a spectrum that update_noise_state and is_noise_blank let StokesAcc
\* integrate after the first ON edge holds no sample of the other state.
THEOREM CalibrationIsPure ==
  ASSUME Lossless, BlankingCovers
  PROVE  Spec => []CalibrationPure
<1>1. NoiseInv => CalibrationPure
  BY DEF NoiseInv, IntegrationsPure
<1> QED
  BY <1>1, NoiseInvariant, PTL
=============================================================================
