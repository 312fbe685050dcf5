-------------------------- MODULE ResultRingProofs --------------------------
(***************************************************************************)
(* Proofs about ResultRing, for every number of slots, windows and blocks, *)
(* and for integrations of any length.                                     *)
(*                                                                         *)
(* The two threads share nothing but the flags of the slots.  What makes   *)
(* them agree is that the slots in use are an interval of the ring that    *)
(* starts at the sender's slot and ends before the worker's, so that the   *)
(* age of a slot tells which integration it holds.                         *)
(***************************************************************************)
EXTENDS ResultRing, SequenceTheorems, TLAPS

USE RingAssumption, AccAssumption, CalAssumption

(***************************************************************************)
(* The inductive invariant.                                                *)
(***************************************************************************)
SlotType == [used : BOOLEAN, first : 0 .. MaxTime, last : 0 .. MaxTime,
             noise : States, data : IntegrationType]
CentreType == [first : 0 .. MaxTime, last : 0 .. MaxTime]
RowType == [centre : CentreType, start : 0 .. MaxTime, noise : States,
            data : IntegrationType]

\* TypeOK, and the types of the rest.
Types == /\ ring \in [Slots -> SlotType] /\ hhead \in Slots /\ idx \in Slots
         /\ time \in 0 .. MaxTime /\ count \in [States -> 0 .. AccLen]
         /\ acc \in [States -> IntegrationType] /\ state \in States
         /\ wpc \in {"idle", "copy", "expose"}
         /\ spc \in {"poll", "send"} /\ window \in 1 .. NumWindows + 1
         /\ cal_mode \in BOOLEAN /\ overrun \in BOOLEAN
         /\ centre \in CentreType /\ published \in Seq(IntegrationType)
         /\ sent \in [Windows -> Seq(RowType)]

\* The integration being published is complete, the others are not.
Counting == \A s \in States :
              IF wpc # "idle" /\ s = state THEN count[s] = AccLen
                                           ELSE count[s] < AccLen

\* An accumulator in use belongs to its state; only OFF is used without
\* calibration.
Accumulators == /\ \A s \in States : count[s] > 0 => acc[s].state = s
                /\ ~cal_mode => count["ON"] = 0

\* No slot and no integration is dated in the future.
Dated == /\ \A x \in Slots : ring[x].first <= time /\ ring[x].last <= time
         /\ \A s \in States : acc[s].first <= time

\* Results given back by the sender, and results in the ring.
Released == IF spc = "send" /\ window > 1 THEN Len(sent[1]) - 1 ELSE Len(sent[1])
Pending == Len(published) - Released

\* How far a slot is from the sender's.
Age(x) == IF x >= idx THEN x - idx ELSE x - idx + NumSlots

\* Every window has sent the results given back, and those before the
\* sender's window the one in hand too.
Rows == /\ Released \in Nat
        /\ \A w \in Windows :
             Len(sent[w]) = IF spc = "send" /\ w < window THEN Released + 1 ELSE Released

\* The slots in use are those between the sender's and the worker's.
UsedInterval ==
  /\ Pending \in 0 .. NumSlots
  /\ hhead = IF idx + Pending >= NumSlots THEN idx + Pending - NumSlots ELSE idx + Pending
  /\ \A x \in Slots : ring[x].used <=> Age(x) < Pending

Describes(slot) == /\ slot.first = slot.data.first
                   /\ slot.last = slot.data.last
                   /\ slot.noise = slot.data.state

\* A slot in use holds the integration its age says, with its header.
Contents == \A x \in Slots : ring[x].used =>
              /\ ring[x].data = published[Released + Age(x) + 1]
              /\ Describes(ring[x])

\* What the worker has written to the slot it will expose.
Preparing ==
  LET slot == ring[hhead]
      a == acc[state]
  IN /\ wpc # "idle" => /\ ~slot.used
                        /\ slot.first = a.first /\ slot.last = a.last
                        /\ slot.noise = a.state
     /\ wpc = "expose" => slot.data = a
     /\ ~cal_mode /\ wpc = "idle" /\ count["OFF"] > 0 =>
          ~slot.used /\ slot.first = acc["OFF"].first

\* What the sender has read of the slot in its hands still holds.
Reading == spc = "send" => /\ ring[idx].used
                           /\ centre = [first |-> ring[idx].first, last |-> ring[idx].last]

Basic == Types /\ Counting /\ Accumulators /\ Dated
Exact == /\ Rows /\ UsedInterval /\ Contents /\ Preparing /\ Reading
         /\ RowsDescribeData /\ SentInOrder

RingInv == Basic /\ (~overrun => Exact)

(***************************************************************************)
(* The operators.                                                          *)
(***************************************************************************)
\* The ring goes on at its start (idx = (idx + 1) % NUM_SLOTS).
LEMMA NextSlotWraps ==
  ASSUME NEW x \in Slots
  PROVE  /\ NextSlot(x) \in Slots
         /\ NextSlot(x) = IF x = NumSlots - 1 THEN 0 ELSE x + 1
<1>1. CASE x = NumSlots - 1
  <2>1. x + 1 = NumSlots
    BY <1>1
  <2>2. NumSlots % NumSlots = 0
    OBVIOUS
  <2> QED
    BY <1>1, <2>1, <2>2 DEF NextSlot, Slots
<1>2. CASE x # NumSlots - 1
  <2>1. x + 1 \in 0 .. NumSlots - 1
    BY <1>2 DEF Slots
  <2>2. (x + 1) % NumSlots = x + 1
    BY <2>1
  <2> QED
    BY <1>2, <2>1, <2>2 DEF NextSlot, Slots
<1> QED
  BY <1>1, <1>2

\* The fields StokesAcc writes before the copy, and those it leaves alone.
LEMMA StampedFields ==
  ASSUME NEW slot \in SlotType, NEW s \in States, NEW t \in 0 .. MaxTime,
         FirstTime(s, t) \in 0 .. MaxTime
  PROVE  LET full == count[s] + 1 >= AccLen
             new == Stamped(slot, s, t)
         IN /\ new \in SlotType
            /\ new.used = slot.used /\ new.data = slot.data
            /\ new.last = IF full THEN t ELSE slot.last
            /\ new.noise = IF full THEN s ELSE slot.noise
            /\ new.first = IF (cal_mode /\ full) \/ (~cal_mode /\ count[s] = 0)
                             THEN FirstTime(s, t) ELSE slot.first
<1> DEFINE f == IF (cal_mode /\ count[s] + 1 >= AccLen) \/ (~cal_mode /\ count[s] = 0)
                  THEN FirstTime(s, t) ELSE slot.first
           l == IF count[s] + 1 >= AccLen THEN t ELSE slot.last
           n == IF count[s] + 1 >= AccLen THEN s ELSE slot.noise
           new == [slot EXCEPT !.first = f, !.last = l, !.noise = n]
<1>1. Stamped(slot, s, t) = new
  BY Zenon DEF Stamped
<1>2. f \in 0 .. MaxTime /\ l \in 0 .. MaxTime /\ n \in States
  BY DEF SlotType
<1> HIDE DEF f, l, n
<1>3. /\ new \in SlotType
      /\ new.used = slot.used /\ new.data = slot.data
      /\ new.last = l /\ new.noise = n /\ new.first = f
  BY <1>2 DEF SlotType
<1> QED
  BY Zenon, <1>1, <1>3 DEF f, l, n

(***************************************************************************)
(* Types, counters and dates, overrun or not.                              *)
(***************************************************************************)
\* The worker's variables, one by one.
LEMMA FieldTypes ==
  ASSUME Types
  PROVE  /\ \A x \in Slots : /\ ring[x] \in SlotType /\ ring[x].used \in BOOLEAN
                             /\ ring[x].first \in 0 .. MaxTime
                             /\ ring[x].last \in 0 .. MaxTime
                             /\ ring[x].noise \in States
                             /\ ring[x].data \in IntegrationType
         /\ \A s \in States : /\ acc[s] \in IntegrationType
                              /\ acc[s].first \in 0 .. MaxTime
                              /\ acc[s].last \in 0 .. MaxTime
                              /\ count[s] \in 0 .. AccLen
         /\ MaxTime \in Nat /\ time \in 0 .. MaxTime
<1>1. \A x \in Slots : ring[x] \in SlotType
  BY DEF Types
<1>2. \A s \in States : acc[s] \in IntegrationType /\ count[s] \in 0 .. AccLen
  BY DEF Types
<1>3. \A y \in SlotType : /\ y.used \in BOOLEAN /\ y.first \in 0 .. MaxTime
                          /\ y.last \in 0 .. MaxTime /\ y.noise \in States
                          /\ y.data \in IntegrationType
  BY DEF SlotType
<1>4. \A a \in IntegrationType : a.first \in 0 .. MaxTime /\ a.last \in 0 .. MaxTime
  BY DEF IntegrationType
<1> QED
  BY <1>1, <1>2, <1>3, <1>4 DEF Types

\* The copy to the host writes the data of a slot.
LEMMA DataUpdate ==
  ASSUME NEW y \in SlotType, NEW a \in IntegrationType
  PROVE  LET z == [y EXCEPT !.data = a] IN
         /\ z \in SlotType /\ z.data = a /\ z.used = y.used
         /\ z.first = y.first /\ z.last = y.last /\ z.noise = y.noise
  BY DEF SlotType

\* The flag of a slot is set or cleared.
LEMMA UsedUpdate ==
  ASSUME NEW y \in SlotType, NEW b \in BOOLEAN
  PROVE  LET z == [y EXCEPT !.used = b] IN
         /\ z \in SlotType /\ z.used = b /\ z.data = y.data
         /\ z.first = y.first /\ z.last = y.last /\ z.noise = y.noise
  BY DEF SlotType

\* The empty integration, which the worker starts with.
LEMMA NothingTyped == Nothing \in IntegrationType /\ Nothing.first = 0
  BY DEF Nothing, Integration, IntegrationType, States

\* A block that is added.
LEMMA AddBlockBasic ==
  ASSUME Basic, NEW s \in States, AddBlock(s)
  PROVE  Basic'
<1> DEFINE t == time + 1
           slot == Stamped(ring[hhead], s, t)
           first == FirstTime(s, t)
           sum == Integration(s, first, t)
<1>1. /\ wpc = "idle" /\ time < MaxTime /\ (s = "ON" => cal_mode)
      /\ time' = t
      /\ count' = [count EXCEPT ![s] = @ + 1]
      /\ acc' = [acc EXCEPT ![s] = sum]
      /\ ring' = [ring EXCEPT ![hhead] = slot]
      /\ overrun' = (overrun \/ (ring[hhead].used /\ slot # ring[hhead]))
      /\ state' = s
      /\ wpc' = IF count[s] + 1 >= AccLen THEN "copy" ELSE "idle"
      /\ UNCHANGED <<cal_mode, hhead, idx, spc, window, centre, sent, published>>
  BY DEF AddBlock, senderVars
<1>0. Types /\ Counting /\ Accumulators /\ Dated
  BY DEF Basic
<1>2. t \in 0 .. MaxTime /\ first \in 0 .. MaxTime /\ first <= t
  BY <1>0, <1>1, FieldTypes DEF FirstTime, Dated
<1>3. /\ slot \in SlotType
      /\ slot.first \in {ring[hhead].first, first}
      /\ slot.last \in {ring[hhead].last, t}
  <2>1. ring[hhead] \in SlotType
    BY <1>0 DEF Types
  <2> QED
    BY <1>2, <2>1, StampedFields
<1>4. sum \in IntegrationType /\ sum.first = first /\ sum.state = s
  BY <1>2 DEF Integration, IntegrationType
<1> HIDE DEF slot, first, sum
<1>5. Types'
  <2>1. overrun' \in BOOLEAN
    BY <1>0, <1>1, Zenon DEF Types
  <2>2. count[s] + 1 \in 0 .. AccLen
    BY <1>0, <1>1, FieldTypes DEF Counting
  <2> QED
    BY <1>0, <1>1, <1>2, <1>3, <1>4, <2>1, <2>2 DEF Types
<1>6. Counting' /\ Accumulators'
  <2>1. \A q \in States : count'[q] = IF q = s THEN count[q] + 1 ELSE count[q]
    BY <1>0, <1>1 DEF Types
  <2>2. \A q \in States : acc'[q] = IF q = s THEN sum ELSE acc[q]
    BY <1>0, <1>1 DEF Types
  <2>3. Counting'
    BY <1>0, <1>1, <2>1, FieldTypes DEF Counting
  <2>4. Accumulators'
    BY <1>0, <1>1, <1>4, <2>1, <2>2, FieldTypes DEF Accumulators, States
  <2> QED
    BY <2>3, <2>4
<1>7. Dated'
  <2>1. \A x \in Slots : ring'[x] = IF x = hhead THEN slot ELSE ring[x]
    BY <1>0, <1>1 DEF Types
  <2>2. \A q \in States : acc'[q] = IF q = s THEN sum ELSE acc[q]
    BY <1>0, <1>1 DEF Types
  <2>3. \A x \in Slots : ring'[x].first <= t /\ ring'[x].last <= t
    <3>1. \A x \in Slots : ring[x].first <= t /\ ring[x].last <= t
      BY <1>0, FieldTypes DEF Dated
    <3>2. slot.first <= t /\ slot.last <= t
      BY <1>0, <1>2, <1>3, <3>1 DEF Types
    <3> QED
      BY <2>1, <3>1, <3>2
  <2>4. \A q \in States : acc'[q].first <= t
    BY <1>0, <1>2, <1>4, <2>2, FieldTypes DEF Dated
  <2> QED
    BY <1>1, <2>3, <2>4 DEF Dated
<1> QED
  BY <1>5, <1>6, <1>7 DEF Basic

\* The row of a slot of the ring.
LEMMA RowTyped ==
  ASSUME Types
  PROVE  Row \in RowType
<1>1. ring[idx] \in SlotType /\ centre \in CentreType
  BY DEF Types
<1> QED
  BY <1>1 DEF Row, RowType, SlotType

\* Every step of the two threads keeps the types, the counters and the dates.
LEMMA BasicStep == Basic /\ [Next]_vars => Basic'
<1> SUFFICES ASSUME Basic, [Next]_vars PROVE Basic'
  OBVIOUS
<1>0. Types /\ Counting /\ Accumulators /\ Dated
  BY DEF Basic
<1>1. CASE BlankBlock
  <2>1. /\ time < MaxTime /\ time' = time + 1
        /\ UNCHANGED <<cal_mode, ring, hhead, count, acc, wpc, state, idx, spc,
                       window, centre, sent, published, overrun>>
    BY <1>1 DEF BlankBlock, senderVars
  <2>2. Types'
    BY <1>0, <2>1 DEF Types
  <2>3. Counting' /\ Accumulators'
    BY <1>0, <2>1 DEF Counting, Accumulators
  <2>4. Dated'
    BY <1>0, <2>1, FieldTypes DEF Dated
  <2> QED
    BY <2>2, <2>3, <2>4 DEF Basic
<1>2. CASE LostBlock
  <2>1. /\ wpc = "idle" /\ time < MaxTime /\ time' = time + 1
        /\ count' = [s \in States |-> 0] /\ acc' = [s \in States |-> Nothing]
        /\ UNCHANGED <<cal_mode, ring, hhead, wpc, state, idx, spc,
                       window, centre, sent, published, overrun>>
    BY <1>2 DEF LostBlock, senderVars
  <2>2. Types'
    BY <1>0, <2>1, NothingTyped DEF Types
  <2>3. \A s \in States : count'[s] = 0 /\ acc'[s] = Nothing
    BY <2>1
  <2>4. Counting' /\ Accumulators'
    BY <2>1, <2>3 DEF Counting, Accumulators, States
  <2>5. Dated'
    BY <1>0, <2>1, <2>3, FieldTypes, NothingTyped DEF Dated
  <2> QED
    BY <2>2, <2>4, <2>5 DEF Basic
<1>3. ASSUME NEW s \in States, AddBlock(s) PROVE Basic'
  BY <1>3, AddBlockBasic
<1>4. CASE CopyToHost
  <2> DEFINE slot == [ring[hhead] EXCEPT !.data = acc[state]]
  <2>1. /\ wpc = "copy" /\ wpc' = "expose"
        /\ ring' = [ring EXCEPT ![hhead] = slot]
        /\ overrun' = (overrun \/ ring[hhead].used)
        /\ UNCHANGED <<cal_mode, hhead, time, count, acc, state, idx, spc,
                       window, centre, sent, published>>
    BY <1>4 DEF CopyToHost, senderVars
  <2>2. /\ slot \in SlotType /\ slot.first = ring[hhead].first
        /\ slot.last = ring[hhead].last
    <3>1. ring[hhead] \in SlotType /\ acc[state] \in IntegrationType
      BY <1>0 DEF Types
    <3> QED
      BY <3>1, DataUpdate
  <2> HIDE DEF slot
  <2>3. \A x \in Slots : ring'[x] = IF x = hhead THEN slot ELSE ring[x]
    BY <1>0, <2>1 DEF Types
  <2>4. Types'
    <3>1. overrun' \in BOOLEAN
      BY <1>0, <2>1, FieldTypes DEF Types
    <3> QED
      BY <1>0, <2>1, <2>2, <3>1 DEF Types
  <2>5. Counting' /\ Accumulators'
    BY <1>0, <2>1 DEF Counting, Accumulators
  <2>6. Dated'
    BY <1>0, <2>1, <2>2, <2>3 DEF Dated
  <2> QED
    BY <2>4, <2>5, <2>6 DEF Basic
<1>5. CASE Expose
  <2> DEFINE slot == [ring[hhead] EXCEPT !.used = TRUE]
  <2>1. /\ wpc = "expose" /\ wpc' = "idle"
        /\ ring' = [ring EXCEPT ![hhead] = slot]
        /\ count' = [count EXCEPT ![state] = 0] /\ acc' = [acc EXCEPT ![state] = Nothing]
        /\ hhead' = NextSlot(hhead)
        /\ published' = Append(published, acc[state])
        /\ UNCHANGED <<cal_mode, time, state, idx, spc, window, centre, sent, overrun>>
    BY <1>5 DEF Expose, senderVars
  <2>2. /\ slot \in SlotType /\ slot.first = ring[hhead].first
        /\ slot.last = ring[hhead].last
    <3>1. ring[hhead] \in SlotType /\ acc[state] \in IntegrationType
      BY <1>0 DEF Types
    <3> QED
      BY <3>1, UsedUpdate
  <2> HIDE DEF slot
  <2>3. \A x \in Slots : ring'[x] = IF x = hhead THEN slot ELSE ring[x]
    BY <1>0, <2>1 DEF Types
  <2>4. \A s \in States : /\ count'[s] = IF s = state THEN 0 ELSE count[s]
                          /\ acc'[s] = IF s = state THEN Nothing ELSE acc[s]
    BY <1>0, <2>1 DEF Types
  <2>5. Types'
    BY <1>0, <2>1, <2>2, NextSlotWraps, NothingTyped DEF Types
  <2>6. Counting' /\ Accumulators'
    BY <1>0, <2>1, <2>4, FieldTypes DEF Counting, Accumulators, States
  <2>7. Dated'
    BY <1>0, <2>1, <2>2, <2>3, <2>4, NothingTyped, FieldTypes DEF Dated
  <2> QED
    BY <2>5, <2>6, <2>7 DEF Basic
<1>6. CASE FindResult
  <2>1. /\ spc' = "send" /\ window' = 1
        /\ centre' = [first |-> ring[idx].first, last |-> ring[idx].last]
        /\ UNCHANGED <<ring, cal_mode, hhead, time, count, acc, wpc, state, idx, sent,
                       published, overrun>>
    BY <1>6 DEF FindResult, workerVars
  <2>2. centre' \in CentreType
    BY <1>0, <2>1, FieldTypes DEF CentreType, Types
  <2>3. Types'
    BY <1>0, <2>1, <2>2 DEF Types
  <2>4. Counting' /\ Accumulators' /\ Dated'
    BY <1>0, <2>1 DEF Counting, Accumulators, Dated
  <2> QED
    BY <2>3, <2>4 DEF Basic
<1>7. CASE SendWindow
  <2>1. /\ window <= NumWindows /\ window' = window + 1
        /\ sent' = [sent EXCEPT ![window] = Append(@, Row)]
        /\ UNCHANGED <<ring, cal_mode, hhead, time, count, acc, wpc, state, idx, spc,
                       centre, published, overrun>>
    BY <1>7 DEF SendWindow, workerVars
  <2>2. Append(sent[window], Row) \in Seq(RowType)
    BY <1>0, <2>1, RowTyped, AppendProperties DEF Types, Windows
  <2>3. Types'
    <3>1. sent' \in [Windows -> Seq(RowType)]
      BY <1>0, <2>1, <2>2 DEF Types
    <3>2. window' \in 1 .. NumWindows + 1
      BY <1>0, <2>1 DEF Types
    <3> QED
      BY <1>0, <2>1, <3>1, <3>2 DEF Types
  <2>4. Counting' /\ Accumulators' /\ Dated'
    BY <1>0, <2>1 DEF Counting, Accumulators, Dated
  <2> QED
    BY <2>3, <2>4 DEF Basic
<1>8. CASE ReleaseSlot
  <2> DEFINE slot == [ring[idx] EXCEPT !.used = FALSE]
  <2>1. /\ spc' = "poll" /\ idx' = NextSlot(idx)
        /\ ring' = [ring EXCEPT ![idx] = slot]
        /\ UNCHANGED <<cal_mode, hhead, time, count, acc, wpc, state, window, centre,
                       sent, published, overrun>>
    BY <1>8 DEF ReleaseSlot, workerVars
  <2>2. /\ slot \in SlotType /\ slot.first = ring[idx].first
        /\ slot.last = ring[idx].last
    <3>1. ring[idx] \in SlotType
      BY <1>0 DEF Types
    <3> QED
      BY <3>1, UsedUpdate
  <2> HIDE DEF slot
  <2>3. \A x \in Slots : ring'[x] = IF x = idx THEN slot ELSE ring[x]
    BY <1>0, <2>1 DEF Types
  <2>4. Types'
    BY <1>0, <2>1, <2>2, NextSlotWraps DEF Types
  <2>5. Counting' /\ Accumulators'
    BY <1>0, <2>1 DEF Counting, Accumulators
  <2>6. Dated'
    BY <1>0, <2>1, <2>2, <2>3 DEF Dated
  <2> QED
    BY <2>4, <2>5, <2>6 DEF Basic
<1>9. CASE UNCHANGED vars
  BY <1>0, <1>9 DEF vars, workerVars, senderVars, Basic, Types, Counting, Accumulators, Dated
<1> QED
  BY <1>1, <1>2, <1>3, <1>4, <1>5, <1>6, <1>7, <1>8, <1>9 DEF Next, Block, Sender

(***************************************************************************)
(* The ring as long as it is not overrun.                                  *)
(***************************************************************************)
\* The numbers the invariant speaks of.
LEMMA Numbers ==
  ASSUME Types, Rows
  PROVE  /\ Released \in Nat /\ Len(published) \in Nat
         /\ \A w \in Windows : Len(sent[w]) \in Nat
         /\ NumSlots \in Nat /\ NumSlots > 0 /\ 1 \in Windows
         /\ \A x \in Slots : x \in 0 .. NumSlots - 1 /\ Age(x) \in 0 .. NumSlots - 1
         /\ idx \in 0 .. NumSlots - 1 /\ hhead \in 0 .. NumSlots - 1
<1>1. 1 \in Windows
  BY DEF Windows
<1>2. \A w \in Windows : Len(sent[w]) \in Nat
  BY LenProperties DEF Types
<1>3. Len(published) \in Nat
  BY LenProperties DEF Types
<1>4. Released \in Nat
  BY <1>1, <1>2 DEF Rows, Released
<1>5. idx \in 0 .. NumSlots - 1 /\ hhead \in 0 .. NumSlots - 1
  BY DEF Types, Slots
<1> QED
  BY <1>1, <1>2, <1>3, <1>4, <1>5 DEF Age, Slots

\* A worker's step that leaves the flags alone and changes no slot in use
\* keeps all that is said of used slots.
LEMMA WorkerWrites ==
  ASSUME Types, Exact, ~overrun, ~overrun',
         UNCHANGED <<hhead, idx, spc, window, centre, sent, published>>,
         \A x \in Slots : /\ ring'[x].used = ring[x].used
                          /\ ring[x].used => ring'[x] = ring[x]
  PROVE  /\ Rows' /\ UsedInterval' /\ Contents' /\ Reading'
         /\ RowsDescribeData' /\ SentInOrder'
<1>1. Released' = Released /\ Pending' = Pending /\ \A x \in Slots : Age(x)' = Age(x)
  BY DEF Released, Pending, Age
<1>2. Rows' /\ UsedInterval'
  BY <1>1 DEF Exact, Rows, UsedInterval
<1>3. Contents'
  BY <1>1 DEF Exact, Contents, Describes
<1>4. Reading'
  <2>1. idx \in Slots
    BY DEF Types
  <2>2. spc = "send" => ring[idx].used /\ ring'[idx] = ring[idx]
    BY <2>1 DEF Exact, Reading
  <2> QED
    BY <2>2 DEF Exact, Reading
<1>5. RowsDescribeData' /\ SentInOrder'
  BY DEF Exact, RowsDescribeData, SentInOrder
<1> QED
  BY <1>2, <1>3, <1>4, <1>5

\* A block is added: what is stamped now will be the header of its result.
LEMMA AddBlockExact ==
  ASSUME Basic, Basic', ~overrun, ~overrun', Exact, NEW s \in States, AddBlock(s)
  PROVE  Exact'
<1> DEFINE t == time + 1
           old == ring[hhead]
           slot == Stamped(old, s, t)
           first == FirstTime(s, t)
           full == count[s] + 1 >= AccLen
           sum == Integration(s, first, t)
<1>1. /\ wpc = "idle" /\ time < MaxTime /\ (s = "ON" => cal_mode)
      /\ count' = [count EXCEPT ![s] = @ + 1]
      /\ acc' = [acc EXCEPT ![s] = sum]
      /\ ring' = [ring EXCEPT ![hhead] = slot]
      /\ overrun' = (overrun \/ (old.used /\ slot # old))
      /\ state' = s
      /\ wpc' = IF full THEN "copy" ELSE "idle"
      /\ UNCHANGED <<cal_mode, hhead, idx, spc, window, centre, sent, published>>
  BY DEF AddBlock, senderVars
<1>0. /\ Types /\ Counting /\ Accumulators /\ Dated /\ Types'
      /\ hhead \in Slots /\ old \in SlotType
  BY DEF Basic, Types
<1>2. t \in 0 .. MaxTime /\ first \in 0 .. MaxTime
  BY <1>0, <1>1, FieldTypes DEF FirstTime
<1>3. /\ slot.used = old.used
      /\ slot.last = IF full THEN t ELSE old.last
      /\ slot.noise = IF full THEN s ELSE old.noise
      /\ slot.first = IF (cal_mode /\ full) \/ (~cal_mode /\ count[s] = 0)
                        THEN first ELSE old.first
  BY <1>0, <1>2, StampedFields
<1>4. sum.state = s /\ sum.first = first /\ sum.last = t
  BY DEF Integration
<1>5. old.first < t /\ old.last < t
  BY <1>0, FieldTypes DEF Dated
<1>6. old.used => slot = old
  BY <1>1
<1>7. first = IF count[s] = 0 THEN t ELSE acc[s].first
  BY DEF FirstTime
<1> HIDE DEF slot, first, sum, old
<1>8. \A x \in Slots : ring'[x] = IF x = hhead THEN slot ELSE ring[x]
  BY <1>0, <1>1 DEF Types
<1>9. \A x \in Slots : /\ ring'[x].used = ring[x].used
                       /\ ring[x].used => ring'[x] = ring[x]
  BY <1>3, <1>6, <1>8 DEF old
<1>10. full => ~old.used
  BY <1>0, <1>2, <1>3, <1>5, <1>6, FieldTypes DEF old
<1>11. ~cal_mode => s = "OFF" /\ (count["OFF"] > 0 => ~old.used /\ old.first = acc["OFF"].first)
  BY <1>1 DEF Exact, Preparing, States, old
<1>12. count[s] \in 0 .. AccLen /\ count'[s] = count[s] + 1 /\ acc'[s] = sum /\ ring'[hhead'] = slot
  BY <1>0, <1>1, <1>8, FieldTypes DEF Types
<1>13. ~cal_mode /\ count[s] = 0 => ~old.used
  BY <1>0, <1>2, <1>3, <1>5, <1>6, <1>7, FieldTypes DEF old
<1>14. ~cal_mode => slot.first = first /\ ~old.used
  BY <1>3, <1>7, <1>11, <1>12, <1>13
<1>15. Preparing'
  <2>1. wpc' # "idle" => /\ ~slot.used /\ slot.first = sum.first /\ slot.last = sum.last
                         /\ slot.noise = sum.state
    BY <1>0, <1>1, <1>3, <1>4, <1>10, <1>14
  <2>2. ~cal_mode' => ~slot.used /\ slot.first = acc'["OFF"].first
    BY <1>1, <1>3, <1>4, <1>11, <1>12, <1>14
  <2> QED
    BY <1>1, <1>12, <2>1, <2>2 DEF Preparing
<1>20. /\ Rows' /\ UsedInterval' /\ Contents' /\ Reading'
       /\ RowsDescribeData' /\ SentInOrder'
  BY <1>0, <1>1, <1>9, WorkerWrites
<1> QED
  BY <1>15, <1>20 DEF Exact

\* The copy to the host fills the slot the worker will expose.
LEMMA CopyExact ==
  ASSUME Basic, Basic', ~overrun, ~overrun', Exact, CopyToHost
  PROVE  Exact'
<1> DEFINE slot == [ring[hhead] EXCEPT !.data = acc[state]]
<1>1. /\ wpc = "copy" /\ wpc' = "expose"
      /\ ring' = [ring EXCEPT ![hhead] = slot]
      /\ overrun' = (overrun \/ ring[hhead].used)
      /\ UNCHANGED <<cal_mode, hhead, time, count, acc, state, idx, spc,
                     window, centre, sent, published>>
  BY DEF CopyToHost, senderVars
<1>0. /\ Types /\ Types' /\ hhead \in Slots
      /\ ring[hhead] \in SlotType /\ acc[state] \in IntegrationType
  BY DEF Basic, Types
<1>2. /\ slot.used = ring[hhead].used /\ slot.data = acc[state]
      /\ slot.first = ring[hhead].first /\ slot.last = ring[hhead].last
      /\ slot.noise = ring[hhead].noise
  BY <1>0, DataUpdate
<1> HIDE DEF slot
<1>3. \A x \in Slots : ring'[x] = IF x = hhead THEN slot ELSE ring[x]
  BY <1>0, <1>1 DEF Types
<1>4. ~ring[hhead].used
  BY <1>1
<1>5. \A x \in Slots : /\ ring'[x].used = ring[x].used
                       /\ ring[x].used => ring'[x] = ring[x]
  BY <1>2, <1>3, <1>4
<1>6. Preparing'
  BY <1>0, <1>1, <1>2, <1>3, <1>4 DEF Exact, Preparing
<1>20. /\ Rows' /\ UsedInterval' /\ Contents' /\ Reading'
       /\ RowsDescribeData' /\ SentInOrder'
  BY <1>0, <1>1, <1>5, WorkerWrites
<1> QED
  BY <1>6, <1>20 DEF Exact

\* A block that writes no slot: it is blanked, or it ends both integrations.
LEMMA IdleBlockExact ==
  ASSUME Basic, Basic', ~overrun, ~overrun', Exact, BlankBlock \/ LostBlock
  PROVE  Exact'
<1>1. /\ wpc = "idle" /\ wpc' = "idle"
      /\ cal_mode \/ count' = [s \in States |-> 0]
      /\ UNCHANGED <<cal_mode, ring, hhead, state, idx, spc, window, centre, sent,
                     published, overrun>>
  BY DEF BlankBlock, LostBlock, senderVars
<1>0. Types
  BY DEF Basic
<1>2. /\ Rows' /\ UsedInterval' /\ Contents' /\ Reading'
      /\ RowsDescribeData' /\ SentInOrder'
  BY <1>0, <1>1, WorkerWrites
<1>3. cal_mode \/ count'["OFF"] = 0
  BY <1>1 DEF States
<1>4. Preparing'
  BY <1>1, <1>3 DEF Preparing
<1> QED
  BY <1>2, <1>4 DEF Exact

\* The slot is exposed: it becomes the youngest of those in use.
LEMMA ExposeExact ==
  ASSUME Basic, Basic', ~overrun, ~overrun', Exact, Expose
  PROVE  Exact'
<1> DEFINE slot == [ring[hhead] EXCEPT !.used = TRUE]
           a == acc[state]
<1>1. /\ wpc = "expose" /\ wpc' = "idle"
      /\ ring' = [ring EXCEPT ![hhead] = slot]
      /\ count' = [count EXCEPT ![state] = 0]
      /\ hhead' = NextSlot(hhead)
      /\ published' = Append(published, a)
      /\ UNCHANGED <<cal_mode, state, idx, spc, window, centre, sent>>
  BY DEF Expose, senderVars
<1>0. /\ Types /\ Counting /\ Accumulators /\ Types' /\ hhead \in Slots /\ idx \in Slots
      /\ ring[hhead] \in SlotType /\ a \in IntegrationType
      /\ published \in Seq(IntegrationType)
      /\ state \in States
  BY DEF Basic, Types
<1>00. Rows /\ UsedInterval /\ Contents /\ Preparing /\ Reading
  BY DEF Exact
<1>2. /\ slot.used /\ slot.data = ring[hhead].data
      /\ slot.first = ring[hhead].first /\ slot.last = ring[hhead].last
      /\ slot.noise = ring[hhead].noise
  BY <1>0, UsedUpdate
<1>3. /\ ~ring[hhead].used /\ slot.data = a
      /\ slot.first = a.first /\ slot.last = a.last /\ slot.noise = a.state
  BY <1>00, <1>1, <1>2 DEF Preparing
<1>4. hhead' = IF hhead = NumSlots - 1 THEN 0 ELSE hhead + 1
  BY <1>0, <1>1, NextSlotWraps
<1> HIDE DEF slot, a
<1>5. \A x \in Slots : ring'[x] = IF x = hhead THEN slot ELSE ring[x]
  BY <1>0, <1>1 DEF Types
<1>6. /\ Released' = Released /\ \A x \in Slots : Age(x)' = Age(x)
      /\ Len(published') = Len(published) + 1 /\ Pending' = Pending + 1
  <2>1. Released' = Released /\ \A x \in Slots : Age(x)' = Age(x)
    BY <1>1 DEF Released, Age
  <2>2. Len(published') = Len(published) + 1
    BY <1>0, <1>1, AppendProperties
  <2> QED
    BY <1>0, <1>00, <2>1, <2>2, Numbers DEF Pending
<1>7. Age(hhead) = Pending /\ Pending < NumSlots
  <2>1. ~(Age(hhead) < Pending)
    BY <1>0, <1>00, <1>3 DEF UsedInterval
  <2> QED
    BY <1>0, <1>00, <2>1, Numbers DEF UsedInterval, Age
<1>8. \A x \in Slots : Age(x) = Pending => x = hhead
  BY <1>0, <1>00, <1>7, Numbers DEF Age
<1>9. Rows'
  BY <1>00, <1>1, <1>6 DEF Rows
<1>10. UsedInterval'
  <2>1. Pending' \in 0 .. NumSlots
    BY <1>00, <1>6, <1>7, Numbers DEF UsedInterval
  <2>2. hhead' = IF idx + Pending' >= NumSlots THEN idx + Pending' - NumSlots ELSE idx + Pending'
    BY <1>0, <1>00, <1>4, <1>6, <1>7, Numbers DEF UsedInterval
  <2>3. ASSUME NEW x \in Slots PROVE ring'[x].used <=> Age(x)' < Pending'
    BY <1>0, <1>00, <1>2, <1>5, <1>6, <1>7, <1>8, <2>3, Numbers DEF UsedInterval
  <2> QED
    BY <1>1, <2>1, <2>2, <2>3 DEF UsedInterval
<1>11. Contents'
  <2> SUFFICES ASSUME NEW x \in Slots, ring'[x].used
               PROVE  /\ ring'[x].data = published'[Released + Age(x) + 1]
                      /\ Describes(ring'[x])
    BY <1>6 DEF Contents, Describes
  <2>1. CASE x = hhead
    <3>1. Released + Age(x) + 1 = Len(published) + 1
      BY <1>0, <1>00, <1>7, <2>1, Numbers DEF Pending
    <3>2. published'[Len(published) + 1] = a
      BY <1>0, <1>1, AppendProperties
    <3> QED
      BY <1>3, <1>5, <2>1, <3>1, <3>2 DEF Describes
  <2>2. CASE x # hhead
    <3>1. ring'[x] = ring[x] /\ ring[x].used /\ Age(x) < Pending
      BY <1>5, <1>00, <2>2 DEF UsedInterval
    <3>2. Released + Age(x) + 1 \in 1 .. Len(published)
      BY <1>0, <1>00, <3>1, Numbers DEF Pending
    <3>3. published'[Released + Age(x) + 1] = published[Released + Age(x) + 1]
      BY <1>0, <1>1, <3>2, AppendProperties
    <3> QED
      BY <1>00, <3>1, <3>3 DEF Contents
  <2> QED
    BY <2>1, <2>2
<1>12. Preparing'
  <2>1. ~cal_mode => state = "OFF"
    BY <1>0, <1>1 DEF Accumulators, Counting, States
  <2>2. ~cal_mode => count'["OFF"] = 0
    BY <1>0, <1>1, <2>1 DEF Types, States
  <2> QED
    BY <1>1, <2>2 DEF Preparing
<1>13. Reading'
  <2>1. spc = "send" => ring'[idx] = ring[idx]
    BY <1>0, <1>00, <1>3, <1>5 DEF Reading
  <2> QED
    BY <1>00, <1>1, <2>1 DEF Reading
<1>14. RowsDescribeData'
  BY <1>1 DEF Exact, RowsDescribeData
<1>15. SentInOrder'
  <2>1. \A n \in DOMAIN published : n \in DOMAIN published' /\ published'[n] = published[n]
    BY <1>0, <1>1, AppendProperties
  <2> QED
    BY <1>1, <2>1 DEF Exact, SentInOrder
<1> QED
  BY <1>9, <1>10, <1>11, <1>12, <1>13, <1>14, <1>15 DEF Exact

\* The sender finds the oldest result.
LEMMA FindExact ==
  ASSUME Basic, ~overrun, ~overrun', Exact, FindResult
  PROVE  Exact'
<1>1. /\ spc = "poll" /\ ring[idx].used /\ spc' = "send" /\ window' = 1
      /\ centre' = [first |-> ring[idx].first, last |-> ring[idx].last]
      /\ UNCHANGED <<ring, cal_mode, hhead, count, acc, wpc, state, idx, sent, published>>
  BY DEF FindResult, workerVars
<1>0. Types /\ Rows /\ UsedInterval /\ Contents /\ Preparing
  BY DEF Basic, Exact
<1>2. Released' = Released /\ Pending' = Pending /\ \A x \in Slots : Age(x)' = Age(x)
  BY <1>1 DEF Released, Pending, Age
<1>3. Rows'
  BY <1>0, <1>1, <1>2 DEF Rows, Windows
<1>4. UsedInterval' /\ Contents'
  BY <1>0, <1>1, <1>2 DEF UsedInterval, Contents, Describes
<1>5. Preparing' /\ Reading'
  BY <1>0, <1>1 DEF Preparing, Reading
<1>6. RowsDescribeData' /\ SentInOrder'
  BY <1>1 DEF Exact, RowsDescribeData, SentInOrder
<1> QED
  BY <1>3, <1>4, <1>5, <1>6 DEF Exact

\* A window's row is read from the slot in hand, the oldest result.
LEMMA SendExact ==
  ASSUME Basic, ~overrun, ~overrun', Exact, SendWindow
  PROVE  Exact'
<1> DEFINE grown == Append(sent[window], Row)
<1>1. /\ spc = "send" /\ window <= NumWindows /\ window' = window + 1
      /\ sent' = [sent EXCEPT ![window] = Append(@, Row)]
      /\ UNCHANGED <<ring, cal_mode, hhead, count, acc, wpc, state, idx, spc, centre,
                     published>>
  BY DEF SendWindow, workerVars
<1>0. Types /\ Rows /\ UsedInterval /\ Contents /\ Preparing /\ Reading
  BY DEF Basic, Exact
<1>2. window \in Windows /\ idx \in Slots /\ sent[window] \in Seq(RowType)
  BY <1>0, <1>1 DEF Types, Windows
<1>3. Row \in RowType
  BY <1>0, RowTyped
<1>4. \A w \in Windows : sent'[w] = IF w = window THEN grown ELSE sent[w]
  BY <1>0, <1>1 DEF Types
<1>5. /\ Len(sent[window]) = Released /\ Released \in Nat
      /\ grown \in Seq(RowType)
      /\ Len(grown) = Released + 1
      /\ DOMAIN grown = 1 .. Released + 1
      /\ grown[Released + 1] = Row
      /\ DOMAIN sent[window] = 1 .. Released
      /\ \A n \in 1 .. Released : grown[n] = sent[window][n]
  <2>1. Len(sent[window]) = Released /\ Released \in Nat
    BY <1>0, <1>1, <1>2 DEF Rows, Windows
  <2> QED
    BY <1>2, <1>3, <2>1, AppendProperties, LenProperties
<1> HIDE DEF grown
<1>6. Released' = Released
  <2>1. CASE window = 1
    <3>1. sent'[1] = grown
      BY <1>2, <1>4, <2>1
    <3>2. Released' = Len(sent'[1]) - 1
      BY <1>1, <2>1 DEF Released
    <3> QED
      BY <1>5, <3>1, <3>2
  <2>2. CASE window # 1
    <3>1. sent'[1] = sent[1] /\ window > 1 /\ window' > 1
      BY <1>1, <1>2, <1>4, <2>2 DEF Windows
    <3> QED
      BY <1>1, <3>1 DEF Released
  <2> QED
    BY <2>1, <2>2
<1>7. Pending' = Pending /\ \A x \in Slots : Age(x)' = Age(x)
  BY <1>1, <1>6 DEF Pending, Age
<1>8. Rows'
  <2> SUFFICES ASSUME NEW w \in Windows
               PROVE  Len(sent'[w]) = IF w < window + 1 THEN Released + 1 ELSE Released
    BY <1>1, <1>5, <1>6 DEF Rows
  <2>1. CASE w = window
    BY <1>2, <1>4, <1>5, <2>1 DEF Windows
  <2>2. CASE w # window
    <3>1. w < window + 1 <=> w < window
      BY <1>2, <2>2 DEF Windows
    <3> QED
      BY <1>0, <1>1, <1>4, <2>2, <3>1 DEF Rows
  <2> QED
    BY <2>1, <2>2
<1>9. UsedInterval' /\ Contents'
  BY <1>0, <1>1, <1>6, <1>7 DEF UsedInterval, Contents, Describes
<1>10. Preparing' /\ Reading'
  BY <1>0, <1>1 DEF Preparing, Reading
<1>11. /\ ring[idx].data = published[Released + 1] /\ Released + 1 \in DOMAIN published
       /\ Describes(ring[idx]) /\ centre = [first |-> ring[idx].first, last |-> ring[idx].last]
  <2>1. Age(idx) = 0 /\ ring[idx].used
    BY <1>0, <1>1, <1>2, Numbers DEF Reading, Age
  <2>2. Released + 1 \in 1 .. Len(published)
    BY <1>0, <1>2, <2>1, Numbers DEF UsedInterval, Pending
  <2>3. DOMAIN published = 1 .. Len(published)
    BY <1>0, LenProperties DEF Types
  <2>4. Released + Age(idx) + 1 = Released + 1
    BY <1>5, <2>1
  <2> QED
    BY <1>0, <1>1, <1>2, <2>1, <2>2, <2>3, <2>4 DEF Contents, Reading
<1>12. /\ Row.data = ring[idx].data /\ Row.start = ring[idx].first
       /\ Row.noise = ring[idx].noise /\ Row.centre = centre
  BY DEF Row
<1>13. ASSUME NEW w \in Windows, NEW n \in DOMAIN sent'[w]
       PROVE  \/ w = window /\ n = Released + 1 /\ sent'[w][n] = Row
              \/ n \in DOMAIN sent[w] /\ sent'[w][n] = sent[w][n]
  <2>1. CASE w = window
    BY <1>4, <1>5, <1>13, <2>1
  <2>2. CASE w # window
    BY <1>4, <1>13, <2>2
  <2> QED
    BY <2>1, <2>2
<1>14. RowsDescribeData'
  <2> SUFFICES ASSUME NEW w \in Windows, NEW n \in DOMAIN sent'[w]
               PROVE  LET row == sent'[w][n] IN
                      /\ row.centre = [first |-> row.data.first, last |-> row.data.last]
                      /\ row.start = row.data.first
                      /\ row.noise = row.data.state
    BY DEF RowsDescribeData
  <2>1. CASE sent'[w][n] = Row
    BY <1>11, <1>12, <2>1 DEF Describes
  <2>2. CASE n \in DOMAIN sent[w] /\ sent'[w][n] = sent[w][n]
    BY <2>2 DEF Exact, RowsDescribeData
  <2> QED
    BY <1>13, <2>1, <2>2
<1>15. SentInOrder'
  <2> SUFFICES ASSUME NEW w \in Windows, NEW n \in DOMAIN sent'[w]
               PROVE  n \in DOMAIN published /\ sent'[w][n].data = published[n]
    BY <1>1 DEF SentInOrder
  <2> QED
    BY <1>11, <1>12, <1>13 DEF Exact, SentInOrder
<1> QED
  BY <1>8, <1>9, <1>10, <1>14, <1>15 DEF Exact

\* The slot is given back, and every other is one closer to the sender.
LEMMA ReleaseExact ==
  ASSUME Basic, ~overrun, ~overrun', Exact, ReleaseSlot
  PROVE  Exact'
<1> DEFINE slot == [ring[idx] EXCEPT !.used = FALSE]
<1>1. /\ spc = "send" /\ window > NumWindows /\ spc' = "poll" /\ idx' = NextSlot(idx)
      /\ ring' = [ring EXCEPT ![idx] = slot]
      /\ UNCHANGED <<cal_mode, hhead, count, acc, wpc, state, window, centre,
                     sent, published>>
  BY DEF ReleaseSlot, workerVars
<1>0. /\ Types /\ Rows /\ UsedInterval /\ Contents /\ Preparing /\ Reading
      /\ idx \in Slots /\ hhead \in Slots /\ window \in 1 .. NumWindows + 1
  BY DEF Basic, Exact, Types
<1>2. ~slot.used
  BY <1>0, UsedUpdate DEF Types
<1> HIDE DEF slot
<1>3. \A x \in Slots : ring'[x] = IF x = idx THEN slot ELSE ring[x]
  BY <1>0, <1>1 DEF Types
<1>4. ring[idx].used /\ Age(idx) = 0 /\ Pending > 0
  BY <1>0, <1>1, Numbers DEF Reading, UsedInterval, Age
<1>5. Released' = Released + 1 /\ Pending' = Pending - 1
  <2>1. Len(sent[1]) \in Nat /\ Len(published) \in Nat
    BY <1>0, Numbers
  <2>2. window > 1
    BY <1>0, <1>1
  <2>3. Released = Len(sent[1]) - 1
    BY <1>1, <2>2 DEF Released
  <2>4. Released' = Len(sent[1])
    BY <1>1 DEF Released
  <2>5. Pending' = Len(published) - Released'
    BY <1>1 DEF Pending
  <2> QED
    BY <2>1, <2>3, <2>4, <2>5 DEF Pending
<1>6. idx' = IF idx = NumSlots - 1 THEN 0 ELSE idx + 1
  BY <1>0, <1>1, NextSlotWraps
<1>7. \A x \in Slots : Age(x)' = IF x = idx THEN NumSlots - 1 ELSE Age(x) - 1
  <2>1. \A x \in Slots : Age(x)' = IF x >= idx' THEN x - idx' ELSE x - idx' + NumSlots
    BY DEF Age
  <2> QED
    BY <1>0, <1>6, <2>1 DEF Age, Slots
<1>8. Rows'
  BY <1>0, <1>1, <1>5, Numbers DEF Rows, Windows
<1>9. UsedInterval'
  <2>1. Pending' \in 0 .. NumSlots
    BY <1>0, <1>4, <1>5, Numbers DEF UsedInterval
  <2>2. hhead = IF idx' + Pending' >= NumSlots THEN idx' + Pending' - NumSlots ELSE idx' + Pending'
    BY <1>0, <1>4, <1>5, <1>6, Numbers DEF UsedInterval
  <2>3. ASSUME NEW x \in Slots PROVE ring'[x].used <=> Age(x)' < Pending'
    BY <1>0, <1>2, <1>3, <1>4, <1>5, <1>7, <2>1, <2>3, Numbers DEF UsedInterval
  <2> QED
    BY <1>1, <2>1, <2>2, <2>3 DEF UsedInterval
<1>10. Contents'
  <2> SUFFICES ASSUME NEW x \in Slots, ring'[x].used
               PROVE  /\ ring'[x].data = published[Released' + Age(x)' + 1]
                      /\ Describes(ring'[x])
    BY <1>1 DEF Contents, Describes
  <2>1. x # idx /\ ring'[x] = ring[x] /\ ring[x].used
    BY <1>2, <1>3
  <2>2. Released' + Age(x)' + 1 = Released + Age(x) + 1
    BY <1>0, <1>5, <1>7, <2>1, Numbers
  <2> QED
    BY <1>0, <2>1, <2>2 DEF Contents
<1>11. Preparing'
  <2>1. ~ring[hhead].used => ring'[hhead] = ring[hhead]
    BY <1>0, <1>3, <1>4
  <2> QED
    BY <1>0, <1>1, <2>1 DEF Preparing
<1>12. Reading'
  BY <1>1 DEF Reading
<1>13. RowsDescribeData' /\ SentInOrder'
  BY <1>1 DEF Exact, RowsDescribeData, SentInOrder
<1> QED
  BY <1>8, <1>9, <1>10, <1>11, <1>12, <1>13 DEF Exact

\* Every step of the two threads keeps the invariant.
LEMMA RingStep == RingInv /\ [Next]_vars => RingInv'
<1> SUFFICES ASSUME RingInv, [Next]_vars PROVE RingInv'
  OBVIOUS
<1>1. Basic /\ Basic'
  BY BasicStep DEF RingInv
<1>2. ASSUME ~overrun' PROVE ~overrun
  BY <1>1, <1>2 DEF Basic, Types, Next, vars, workerVars, senderVars, Block, Sender,
     BlankBlock, LostBlock, AddBlock, CopyToHost, Expose, FindResult, SendWindow, ReleaseSlot
<1>3. ASSUME ~overrun' PROVE Exact'
  <2>0. Exact /\ ~overrun
    BY <1>2, <1>3 DEF RingInv
  <2>1. CASE UNCHANGED vars
    BY <2>0, <2>1 DEF vars, workerVars, senderVars, Exact, Rows, UsedInterval, Contents,
       Describes, Preparing, Reading, RowsDescribeData, SentInOrder, Released, Pending, Age
  <2> QED
    BY <1>1, <1>3, <2>0, <2>1, IdleBlockExact, AddBlockExact, CopyExact, ExposeExact,
       FindExact, SendExact, ReleaseExact DEF Next, Block, Sender
<1> QED
  BY <1>1, <1>3 DEF RingInv

\* The ring starts empty.
LEMMA RingInit == Init => RingInv
<1> SUFFICES ASSUME Init PROVE RingInv
  OBVIOUS
<1>1. Types
  <2>1. [used |-> FALSE, first |-> 0, last |-> 0, noise |-> "OFF", data |-> Nothing] \in SlotType
    BY NothingTyped DEF SlotType, States
  <2>2. centre \in CentreType
    BY DEF Init, CentreType
  <2>3. sent \in [Windows -> Seq(RowType)] /\ published \in Seq(IntegrationType)
    BY DEF Init
  <2>4. cal_mode \in BOOLEAN
    BY DEF Init
  <2>5. ring \in [Slots -> SlotType] /\ hhead \in Slots /\ idx \in Slots
    BY <2>1 DEF Init, Slots
  <2>6. count \in [States -> 0 .. AccLen] /\ acc \in [States -> IntegrationType]
    BY NothingTyped DEF Init
  <2>7. /\ time \in 0 .. MaxTime /\ state \in States /\ wpc \in {"idle", "copy", "expose"}
        /\ spc \in {"poll", "send"} /\ window \in 1 .. NumWindows + 1
    BY DEF Init, States
  <2>8. overrun \in BOOLEAN
    BY Zenon DEF Init
  <2> QED
    BY <2>2, <2>3, <2>4, <2>5, <2>6, <2>7, <2>8 DEF Types
<1>2. Counting /\ Accumulators
  BY DEF Init, Counting, Accumulators, States
<1>3. Dated
  BY NothingTyped DEF Init, Dated
<1>4. Released = 0 /\ Pending = 0
  BY DEF Init, Released, Pending, Windows
<1>5. Rows /\ Reading /\ RowsDescribeData /\ SentInOrder
  BY <1>4 DEF Init, Rows, Reading, RowsDescribeData, SentInOrder
<1>6. \A x \in Slots : ~ring[x].used
  BY DEF Init
<1>7. UsedInterval /\ Contents /\ Preparing
  <2>1. \A x \in Slots : ~(Age(x) < 0)
    BY DEF Init, Age, Slots
  <2>2. UsedInterval
    BY <1>4, <1>6, <2>1 DEF Init, UsedInterval
  <2>3. Contents /\ Preparing
    BY <1>6 DEF Init, Contents, Preparing, States
  <2> QED
    BY <2>2, <2>3
<1> QED
  BY <1>1, <1>2, <1>3, <1>5, <1>7 DEF RingInv, Basic, Exact

(***************************************************************************)
(* The results.                                                            *)
(***************************************************************************)
\* The ring, its indices, the accumulators and the places of the two threads
\* keep their types in every run of StokesAcc against send_data.
THEOREM RingTypeCorrect == Spec => []TypeOK
<1>1. RingInv => TypeOK
  BY DEF RingInv, Basic, Types, SlotType, TypeOK
<1> QED
  BY <1>1, RingInit, RingStep, PTL DEF Spec

\* Until the ring is overrun, what send_data says of a row (the time of its
\* centre, its start, its noise state) is what is in it, although the
\* worker stamps and fills slots without waiting for the sender.
THEOREM RowsDescribe == Spec => []RowsDescribeData
<1>1. RingInv => RowsDescribeData
  BY DEF RingInv, Exact, RowsDescribeData
<1> QED
  BY <1>1, RingInit, RingStep, PTL DEF Spec

\* Until the ring is overrun, send_data's row n is the integration that
\* StokesAcc exposed as its nth, in every window.
THEOREM RowsInTurn == Spec => []SentInOrder
<1>1. RingInv => SentInOrder
  BY DEF RingInv, Exact, SentInOrder
<1> QED
  BY <1>1, RingInit, RingStep, PTL DEF Spec

\* The worker first writes into a slot in use when all NUM_SLOTS results
\* wait for send_data: the warning in StokesAcc means a full ring.
THEOREM OverrunMeansFull == Spec => OverrunOnlyWhenFull
<1>1. ASSUME RingInv, Next, ~overrun, overrun' PROVE \A x \in Slots : ring[x].used
  <2>1. ring[hhead].used
    BY <1>1 DEF Next, workerVars, senderVars, Block, Sender, BlankBlock,
       LostBlock, AddBlock, CopyToHost, Expose, FindResult, SendWindow, ReleaseSlot
  <2>2. Types /\ Rows /\ UsedInterval /\ hhead \in Slots /\ idx \in Slots
    BY <1>1 DEF RingInv, Basic, Exact, Types
  <2>3. Pending = NumSlots
    <3>1. Age(hhead) < Pending
      BY <2>1, <2>2 DEF UsedInterval
    <3> QED
      BY <2>2, <3>1, Numbers DEF UsedInterval, Age
  <2> QED
    BY <2>2, <2>3, Numbers DEF UsedInterval
<1>2. RingInv /\ [Next]_vars => [~overrun /\ overrun' => \A x \in Slots : ring[x].used]_vars
  BY <1>1
<1> QED
  BY <1>2, RingInit, RingStep, PTL DEF Spec, OverrunOnlyWhenFull
=============================================================================
