------------------------- MODULE ResultOutputsProofs -------------------------
(***************************************************************************)
(* Proofs about what becomes of the results (ResultOutputs): the files of  *)
(* the local writer across crashes and restarts, the sequence numbers of   *)
(* the messages to the Writer, the times of the rows, and the order of the *)
(* rows from enqueue() to the disk.                                        *)
(***************************************************************************)
EXTENDS ResultOutputs, SequenceTheorems, FiniteSetTheorems, NaturalsInduction, TLAPS

(***************************************************************************)
(* The files.                                                              *)
(***************************************************************************)
IsSeq(s) == \E T : s \in Seq(T)

\* Rows are flushed only when they are in the file.  A window whose file was
\* never created has no rows, and a window with an sdfits object has a file.
OnDisk ==
  /\ file = [w \in Bands |-> file[w]] /\ flushed = [w \in Bands |-> flushed[w]]
  /\ \A w \in Bands : /\ IsSeq(file[w]) /\ flushed[w] \in 0 .. Len(file[w])
                      /\ w \notin present => file[w] = <<>>
  /\ writers \subseteq present

\* No row that was flushed is lost or changed in a step.
Keeps == \A w \in Windows : /\ flushed'[w] >= flushed[w]
                            /\ SubSeq(file'[w], 1, flushed[w])
                                 = SubSeq(file[w], 1, flushed[w])

\* What is known about a sequence.
LEMMA SeqFacts ==
  ASSUME NEW s, IsSeq(s), NEW x, NEW n \in 0 .. Len(s)
  PROVE  /\ Len(s) \in Nat
         /\ IsSeq(Append(s, x)) /\ Len(Append(s, x)) = Len(s) + 1
         /\ SubSeq(Append(s, x), 1, n) = SubSeq(s, 1, n)
         /\ IsSeq(SubSeq(s, 1, n)) /\ Len(SubSeq(s, 1, n)) = n
         /\ \A k \in 0 .. n : SubSeq(SubSeq(s, 1, n), 1, k) = SubSeq(s, 1, k)
         /\ s = <<>> => SubSeq(s, 1, n) = <<>>
<1>1. PICK S : s \in Seq(S)
  BY DEF IsSeq
<1>2. Len(s) \in Nat
  BY <1>1
<1>3. Append(s, x) \in Seq(S \cup {x}) /\ Len(Append(s, x)) = Len(s) + 1
      /\ \A i \in 1 .. Len(s) : Append(s, x)[i] = s[i]
  BY <1>1
<1>4. SubSeq(Append(s, x), 1, n) = SubSeq(s, 1, n)
  BY <1>2, <1>3
<1>5. SubSeq(s, 1, n) \in Seq(S) /\ Len(SubSeq(s, 1, n)) = n
  BY <1>1, <1>2
<1>6. ASSUME NEW k \in 0 .. n
      PROVE  SubSeq(SubSeq(s, 1, n), 1, k) = SubSeq(s, 1, k)
  BY <1>1, <1>2
<1>7. s = <<>> => SubSeq(s, 1, n) = <<>>
  BY <1>5, <1>2
<1> QED
  BY <1>2, <1>3, <1>4, <1>5, <1>6, <1>7 DEF IsSeq

\* A step that leaves the files alone.
LEMMA DiskAlone ==
  ASSUME OnDisk, file' = file, flushed' = flushed, present \subseteq present',
         writers' \subseteq present
  PROVE  OnDisk' /\ Keeps
<1>1. Bands = Windows
  BY OutputsAssumption
<1>2. ASSUME NEW w \in Bands
      PROVE  flushed[w] \in Int
  BY DEF OnDisk, IsSeq
<1> QED
  BY <1>1, <1>2 DEF OnDisk, Keeps

\* get_or_create_writer
LEMMA DiskCreate ==
  ASSUME OnDisk, Create
  PROVE  OnDisk' /\ Keeps
<1> DEFINE v == job.window
<1>1. /\ v \notin present /\ present' = present \cup {v} /\ writers' = writers \cup {v}
      /\ file' = [file EXCEPT ![v] = <<>>] /\ flushed' = [flushed EXCEPT ![v] = 0]
  BY DEF Create, MayCreate
<1> HIDE DEF v
<1>2. ASSUME NEW w \in Bands
      PROVE  /\ file'[w] = file[w] /\ flushed'[w] = flushed[w] /\ flushed[w] \in Int
             /\ IsSeq(file[w]) /\ flushed[w] \in 0 .. Len(file[w])
             /\ w \notin present => file[w] = <<>>
  <2>1. /\ IsSeq(file[w]) /\ flushed[w] \in 0 .. Len(file[w])
        /\ w \notin present => file[w] = <<>>
    BY DEF OnDisk
  <2>2. CASE w = v
    <3>1. file[w] = <<>>
      BY <1>1, <2>1, <2>2
    <3>2. flushed[w] = 0
      BY <2>1, <3>1
    <3>3. file'[w] = <<>> /\ flushed'[w] = 0
      BY <1>1, <2>2 DEF OnDisk
    <3> QED
      BY <2>1, <3>1, <3>2, <3>3
  <2>3. CASE w # v
    <3>1. file'[w] = file[w] /\ flushed'[w] = flushed[w]
      BY <1>1, <2>3 DEF OnDisk
    <3>2. Len(file[w]) \in Nat
      BY <2>1, SeqFacts
    <3> QED
      BY <2>1, <3>1, <3>2
  <2> QED
    BY <2>2, <2>3
<1>3. file' = [w \in Bands |-> file'[w]] /\ flushed' = [w \in Bands |-> flushed'[w]]
  BY <1>1 DEF OnDisk
<1>4. OnDisk'
  BY <1>1, <1>2, <1>3 DEF OnDisk
<1>5. Keeps
  BY <1>2, OutputsAssumption DEF Keeps
<1> QED
  BY <1>4, <1>5

\* A row is put behind the others of its file.
LEMMA DiskAppend ==
  ASSUME OnDisk, NEW v \in writers, NEW x, file' = [file EXCEPT ![v] = Append(@, x)],
         \/ flushed' = flushed
         \/ flushed' = [flushed EXCEPT ![v] = Len(file[v]) + 1],
         present' = present, writers' = writers
  PROVE  OnDisk' /\ Keeps
<1>1. ASSUME NEW w \in Bands
      PROVE  /\ IsSeq(file'[w]) /\ flushed'[w] \in 0 .. Len(file'[w])
             /\ flushed'[w] >= flushed[w]
             /\ SubSeq(file'[w], 1, flushed[w]) = SubSeq(file[w], 1, flushed[w])
             /\ w \notin present => file'[w] = <<>>
  <2>1. /\ IsSeq(file[w]) /\ flushed[w] \in 0 .. Len(file[w])
        /\ w \notin present => file[w] = <<>>
    BY DEF OnDisk
  <2>2. /\ Len(file[w]) \in Nat
        /\ IsSeq(Append(file[w], x)) /\ Len(Append(file[w], x)) = Len(file[w]) + 1
        /\ SubSeq(Append(file[w], x), 1, flushed[w]) = SubSeq(file[w], 1, flushed[w])
    BY <2>1, SeqFacts
  <2>3. CASE w = v
    <3>1. file'[w] = Append(file[w], x)
      BY <2>3 DEF OnDisk
    <3>2. flushed'[w] \in {flushed[w], Len(file[w]) + 1}
      <4>1. CASE flushed' = flushed
        BY <4>1
      <4>2. CASE flushed' = [flushed EXCEPT ![v] = Len(file[v]) + 1]
        BY <2>3, <4>2 DEF OnDisk
      <4> QED
        BY <4>1, <4>2
    <3>3. w \in present
      BY <2>3 DEF OnDisk
    <3> QED
      BY <2>1, <2>2, <3>1, <3>2, <3>3
  <2>4. CASE w # v
    <3>1. file'[w] = file[w]
      BY <2>4 DEF OnDisk
    <3>2. flushed'[w] = flushed[w]
      <4>1. CASE flushed' = flushed
        BY <4>1
      <4>2. CASE flushed' = [flushed EXCEPT ![v] = Len(file[v]) + 1]
        BY <2>4, <4>2 DEF OnDisk
      <4> QED
        BY <4>1, <4>2
    <3> QED
      BY ONLY <2>1, <2>2, <3>1, <3>2
  <2> QED
    BY <2>3, <2>4
<1>2. file' = [w \in Bands |-> file'[w]] /\ flushed' = [w \in Bands |-> flushed'[w]]
  BY DEF OnDisk
<1>3. OnDisk'
  BY <1>1, <1>2 DEF OnDisk
<1>4. Keeps
  BY <1>1, OutputsAssumption DEF Keeps
<1> QED
  BY <1>3, <1>4

\* The files are closed, and with that flushed.
LEMMA DiskClose ==
  ASSUME OnDisk, NEW bad, Finish(bad)
  PROVE  OnDisk' /\ Keeps
<1>1. /\ file' = file /\ present' = present /\ writers' = {}
      /\ flushed' = [w \in Bands |-> IF w \in writers \ bad THEN Len(file[w]) ELSE flushed[w]]
  BY DEF Finish, CloseFiles
<1>2. ASSUME NEW w \in Bands
      PROVE  /\ IsSeq(file[w]) /\ Len(file[w]) \in Nat /\ flushed[w] \in 0 .. Len(file[w])
             /\ w \notin present => file[w] = <<>>
             /\ flushed'[w] \in {flushed[w], Len(file[w])}
  <2>1. /\ IsSeq(file[w]) /\ flushed[w] \in 0 .. Len(file[w])
        /\ w \notin present => file[w] = <<>>
    BY DEF OnDisk
  <2>2. Len(file[w]) \in Nat
    BY <2>1, SeqFacts
  <2> QED
    BY <1>1, <2>1, <2>2
<1>3. flushed' = [w \in Bands |-> flushed'[w]]
  BY <1>1
<1>4. OnDisk'
  BY <1>1, <1>2, <1>3 DEF OnDisk
<1>5. Keeps
  <2>1. Bands = Windows
    BY OutputsAssumption
  <2>2. ASSUME NEW w \in Bands
        PROVE  flushed'[w] >= flushed[w]
    BY <1>2
  <2> QED
    BY <1>1, <2>1, <2>2 DEF Keeps
<1> QED
  BY <1>4, <1>5

\* The process dies.
LEMMA DiskCrash ==
  ASSUME OnDisk, DiskAfterCrash, writers' = {}
  PROVE  OnDisk' /\ Keeps
<1>1. PICK kept \in BOOLEAN :
        LET left == [w \in Bands |-> IF kept THEN Len(file[w]) ELSE flushed[w]]
        IN /\ file' = [w \in Bands |-> SubSeq(file[w], 1, left[w])]
           /\ flushed' = left
           /\ UNCHANGED present
  BY DEF DiskAfterCrash
<1> DEFINE left == [w \in Bands |-> IF kept THEN Len(file[w]) ELSE flushed[w]]
<1>2. /\ file' = [w \in Bands |-> SubSeq(file[w], 1, left[w])] /\ flushed' = left
      /\ present' = present
  BY <1>1
<1>3. ASSUME NEW w \in Bands
      PROVE  left[w] \in {flushed[w], Len(file[w])}
  OBVIOUS
<1>4. left = [w \in Bands |-> left[w]]
  OBVIOUS
<1> HIDE DEF left
<1>5. ASSUME NEW w \in Bands
      PROVE  /\ IsSeq(file'[w]) /\ flushed'[w] \in 0 .. Len(file'[w])
             /\ flushed'[w] >= flushed[w]
             /\ SubSeq(file'[w], 1, flushed[w]) = SubSeq(file[w], 1, flushed[w])
             /\ w \notin present => file'[w] = <<>>
  <2>1. /\ IsSeq(file[w]) /\ flushed[w] \in 0 .. Len(file[w])
        /\ w \notin present => file[w] = <<>>
    BY DEF OnDisk
  <2>2. Len(file[w]) \in Nat
    BY <2>1, SeqFacts
  <2>3. left[w] \in 0 .. Len(file[w]) /\ flushed[w] \in 0 .. left[w]
    BY <1>3, <2>1, <2>2
  <2>4. /\ IsSeq(SubSeq(file[w], 1, left[w])) /\ Len(SubSeq(file[w], 1, left[w])) = left[w]
        /\ \A k \in 0 .. left[w] :
             SubSeq(SubSeq(file[w], 1, left[w]), 1, k) = SubSeq(file[w], 1, k)
        /\ file[w] = <<>> => SubSeq(file[w], 1, left[w]) = <<>>
    BY <2>1, <2>3, SeqFacts
  <2>5. file'[w] = SubSeq(file[w], 1, left[w]) /\ flushed'[w] = left[w]
    BY <1>2
  <2> QED
    BY <2>1, <2>2, <2>3, <2>4, <2>5
<1>6. file' = [w \in Bands |-> file'[w]] /\ flushed' = [w \in Bands |-> flushed'[w]]
  BY <1>2, <1>4
<1>7. OnDisk'
  BY <1>2, <1>5, <1>6 DEF OnDisk
<1>8. Keeps
  BY <1>5, OutputsAssumption DEF Keeps
<1> QED
  BY <1>7, <1>8

\* A step of the writer thread.
LEMMA DiskWorker ==
  ASSUME OnDisk, Worker
  PROVE  OnDisk' /\ Keeps
<1>1. CASE Wait \/ Pop
  <2>1. file' = file /\ flushed' = flushed /\ present' = present /\ writers' = writers
    BY <1>1 DEF Wait, Pop, diskVars
  <2> QED
    BY <2>1, DiskAlone DEF OnDisk
<1>2. CASE Create
  BY <1>2, DiskCreate
<1>3. CASE CreateRefused
  <2>1. file' = file /\ flushed' = flushed /\ present \subseteq present' /\ writers' = writers
    BY <1>3 DEF CreateRefused
  <2> QED
    BY <2>1, DiskAlone DEF OnDisk
<1>4. CASE WriteRow
  <2> DEFINE v == job.window
             n == Len(file[v]) + 1
  <2>1. /\ v \in writers /\ file' = [file EXCEPT ![v] = Append(@, job)]
        /\ flushed' = [flushed EXCEPT ![v] = IF n % FlushRows = 0 THEN n ELSE @]
        /\ present' = present /\ writers' = writers
    BY <1>4 DEF WriteRow
  <2> HIDE DEF v
  <2>2. \/ flushed' = flushed
        \/ flushed' = [flushed EXCEPT ![v] = Len(file[v]) + 1]
    <3>1. CASE n % FlushRows = 0
      BY <2>1, <3>1
    <3>2. CASE ~(n % FlushRows = 0)
      <4>1. flushed' = [flushed EXCEPT ![v] = flushed[v]]
        BY <2>1, <3>2
      <4>2. flushed' = flushed
        BY <4>1 DEF OnDisk
      <4> QED
        BY <4>2
    <3> QED
      BY <3>1, <3>2
  <2> QED
    BY <2>1, <2>2, DiskAppend
<1>5. CASE WriteRowFails
  <2> DEFINE v == job.window
  <2>1. /\ v \in writers /\ present' = present /\ writers' = writers /\ flushed' = flushed
        /\ \/ file' = file
           \/ \E r \in {Torn, job} : file' = [file EXCEPT ![v] = Append(@, r)]
    BY <1>5 DEF WriteRowFails
  <2> HIDE DEF v
  <2>2. CASE file' = file
    BY <2>1, <2>2, DiskAlone DEF OnDisk
  <2>3. ASSUME NEW r, file' = [file EXCEPT ![v] = Append(@, r)]
        PROVE  OnDisk' /\ Keeps
    BY <2>1, <2>3, DiskAppend
  <2> QED
    BY <2>1, <2>2, <2>3
<1>6. ASSUME NEW bad \in SUBSET writers, Finish(bad)
      PROVE  OnDisk' /\ Keeps
  BY <1>6, DiskClose
<1> QED
  BY <1>1, <1>2, <1>3, <1>4, <1>5, <1>6 DEF Worker

\* Every step.
LEMMA DiskNext ==
  ASSUME OnDisk, [Next]_vars
  PROVE  OnDisk' /\ Keeps
<1>1. ASSUME UNCHANGED diskVars
      PROVE  OnDisk' /\ Keeps
  <2>1. file' = file /\ flushed' = flushed /\ present' = present /\ writers' = writers
    BY <1>1 DEF diskVars
  <2> QED
    BY <2>1, DiskAlone DEF OnDisk
<1>2. ASSUME UNCHANGED writerVars
      PROVE  OnDisk' /\ Keeps
  BY <1>1, <1>2 DEF writerVars
<1>3. ASSUME SendData
      PROVE  OnDisk' /\ Keeps
  <2>1. ASSUME NEW good \in SUBSET Windows, Prepare(good)
        PROVE  OnDisk' /\ Keeps
    BY <1>2, <2>1 DEF Prepare
  <2>2. CASE EnqueueRow
    <3>1. Enqueue(Row)
      BY <2>2 DEF EnqueueRow
    <3>2. UNCHANGED diskVars
      BY <3>1 DEF Enqueue, writerVars
    <3> QED
      BY <1>1, <3>2
  <2>3. CASE StartSend \/ FinishSend
    BY <1>2, <2>3 DEF StartSend, FinishSend
  <2> QED
    BY <1>3, <2>1, <2>2, <2>3 DEF SendData
<1>4. CASE WriterThread
  BY <1>4, DiskWorker DEF WriterThread
<1>5. CASE MainEnds
  BY <1>1, <1>5 DEF MainEnds, Shutdown, Join
<1>6. CASE Kill
  BY <1>6, DiskCrash DEF Kill, Configure
<1>7. CASE Network /\ UNCHANGED <<writerVars, sendVars, processVars, history, faults>>
  BY <1>2, <1>7
<1>8. CASE Restart
  <2>1. file' = file /\ flushed' = flushed /\ present' = present /\ writers' = {}
    BY <1>8 DEF Restart, Configure
  <2> QED
    BY <2>1, DiskAlone
<1>9. CASE UNCHANGED vars
  BY <1>2, <1>9 DEF vars
<1> QED
  BY <1>3, <1>4, <1>5, <1>6, <1>7, <1>8, <1>9 DEF Next, Running

\* An empty folder.
LEMMA DiskInit ==
  ASSUME Init
  PROVE  OnDisk
<1>1. IsSeq(<<>>) /\ Len(<<>>) = 0
  BY DEF IsSeq
<1> QED
  BY <1>1 DEF Init, WriterInit, OnDisk

\* For every number of windows, limit of the queue and interval of flushes:
\* no failure of the disk, no crash and no start with files of an earlier
\* session removes or changes a row that was flushed.
THEOREM FlushedForGood == Spec => FlushedRowsStay
<1>1. Init => OnDisk
  BY DiskInit
<1>2. OnDisk /\ [Next]_vars => OnDisk' /\ Keeps
  BY DiskNext
<1>3. FlushedRowsStay <=> [][Keeps]_vars
  BY DEF FlushedRowsStay, Keeps
<1> QED
  BY <1>1, <1>2, <1>3, PTL DEF Spec

(***************************************************************************)
(* The messages.                                                           *)
(***************************************************************************)
Messages == [sequence : Int, integration_id : Int]

\* A number of window w is taken and its result not done with yet.
Pending(w) == IF step = "send" /\ Window = w THEN 1 ELSE 0

\* The messages of window w that are under way or have come last.
InPipe(w) == {pipe[w][i] : i \in 1 .. Len(pipe[w])}
Arrived(w) == {received[w][i] : i \in 1 .. Len(received[w])}

SenderTypes ==
  /\ next_sequence \in [Windows -> Int] /\ integration_id \in [Windows -> Int]
  /\ pipe \in [Windows -> Seq(Messages)] /\ received \in [Windows -> Seq(Messages)]
  /\ connected \subseteq socket

\* A window that has sent something has its socket, so that from then on each
\* result takes a number: numbers and integrations advance together.
Fits(m, w) ==
  /\ w \in socket
  /\ next_sequence[w] - m.sequence = integration_id[w] + Pending(w) - m.integration_id
  /\ m.sequence < next_sequence[w] - Pending(w)

InStep(w) == \A m \in InPipe(w) \cup Arrived(w) : Fits(m, w)

\* Messages are in order, the one that has come last before those in the pipe.
InTurn(w) ==
  /\ \A i, j \in 1 .. Len(pipe[w]) : i < j => pipe[w][i].sequence < pipe[w][j].sequence
  /\ \A m \in Arrived(w) : \A n \in InPipe(w) : m.sequence < n.sequence

SenderInv == SenderTypes /\ \A w \in Windows : InStep(w) /\ InTurn(w)

\* A process that has died sends nothing.
Idle == ~alive => step = "none"

\* What a step may do to the messages the Writer has got.
Counted == \A w \in Windows :
  received[w] # <<>> /\ received'[w] \notin {<<>>, received[w]} =>
    LET a == received[w][1]
        b == received'[w][1]
    IN /\ a.sequence < b.sequence
       /\ b.sequence - a.sequence = b.integration_id - a.integration_id

\* Numbers and integrations of window w advance together in a step.
Together(w) ==
  /\ next_sequence'[w] - integration_id'[w] - Pending(w)'
       = next_sequence[w] - integration_id[w] - Pending(w)
  /\ next_sequence'[w] - Pending(w)' >= next_sequence[w] - Pending(w)

\* What that means for a message of the window.
LEMMA StillFits ==
  ASSUME SenderTypes, SenderTypes', NEW w \in Windows, NEW m \in Messages, Fits(m, w),
         Together(w), socket \subseteq socket'
  PROVE  /\ w \in socket'
         /\ next_sequence'[w] - m.sequence = integration_id'[w] + Pending(w)' - m.integration_id
         /\ m.sequence < next_sequence'[w] - Pending(w)'
<1> DEFINE p == Pending(w)
           pp == Pending(w)'
<1>1. /\ next_sequence[w] \in Int /\ integration_id[w] \in Int
      /\ next_sequence'[w] \in Int /\ integration_id'[w] \in Int /\ p \in Int /\ pp \in Int
  BY DEF SenderTypes, Pending
<1> HIDE DEF p, pp
<1>2. /\ next_sequence'[w] - integration_id'[w] - pp = next_sequence[w] - integration_id[w] - p
      /\ next_sequence'[w] - pp >= next_sequence[w] - p
  BY DEF Together, p, pp
<1>3. m.sequence \in Int /\ m.integration_id \in Int
  BY DEF Messages
<1>4. /\ w \in socket
      /\ next_sequence[w] - m.sequence = integration_id[w] + p - m.integration_id
      /\ m.sequence < next_sequence[w] - p
  BY DEF Fits, p
<1> QED
  BY <1>1, <1>2, <1>3, <1>4 DEF pp

\* Messages are messages.
LEMMA MessagesTyped ==
  ASSUME SenderTypes, NEW w \in Windows
  PROVE  InPipe(w) \cup Arrived(w) \subseteq Messages
  BY DEF SenderTypes, InPipe, Arrived

\* And for all of them, when there is no new one.
LEMMA StaysInStep ==
  ASSUME SenderTypes, SenderTypes', NEW w \in Windows, InStep(w), Together(w),
         socket \subseteq socket',
         (InPipe(w) \cup Arrived(w))' \subseteq InPipe(w) \cup Arrived(w)
  PROVE  InStep(w)'
<1> SUFFICES ASSUME NEW m \in (InPipe(w) \cup Arrived(w))'
             PROVE  /\ w \in socket'
                    /\ next_sequence'[w] - m.sequence
                         = integration_id'[w] + Pending(w)' - m.integration_id
                    /\ m.sequence < next_sequence'[w] - Pending(w)'
  BY DEF InStep, Fits
<1>1. m \in InPipe(w) \cup Arrived(w) /\ m \in Messages
  BY MessagesTyped
<1>2. Fits(m, w)
  BY <1>1 DEF InStep
<1> QED
  BY <1>1, <1>2, StillFits

\* A window without a socket has sent nothing.
LEMMA NothingSent ==
  ASSUME SenderTypes, NEW w \in Windows, InStep(w), w \notin socket
  PROVE  InPipe(w) \cup Arrived(w) = {}
  BY DEF InStep, Fits

\* Steps that send and deliver nothing.
LEMMA Advances ==
  ASSUME SenderInv, SenderTypes', pipe' = pipe, received' = received, socket \subseteq socket',
         \A w \in Windows : w \in socket => Together(w)
  PROVE  SenderInv' /\ Counted
<1>1. ASSUME NEW w \in Windows
      PROVE  InStep(w)' /\ InTurn(w)'
  <2>1. InPipe(w)' = InPipe(w) /\ Arrived(w)' = Arrived(w)
    BY DEF InPipe, Arrived
  <2>2. SenderTypes /\ InStep(w) /\ InTurn(w)
    BY DEF SenderInv
  <2>3. InTurn(w)'
    BY <2>1, <2>2 DEF InTurn
  <2>4. CASE w \in socket
    <3>1. (InPipe(w) \cup Arrived(w))' \subseteq InPipe(w) \cup Arrived(w)
      BY <2>1
    <3> QED
      BY <2>2, <2>3, <2>4, <3>1, StaysInStep
  <2>5. CASE w \notin socket
    <3>1. (InPipe(w) \cup Arrived(w))' = {}
      BY <2>1, <2>2, <2>5, NothingSent
    <3> QED
      BY <2>3, <3>1 DEF InStep
  <2> QED
    BY <2>4, <2>5
<1>2. Counted
  BY DEF Counted
<1> QED
  BY <1>1, <1>2 DEF SenderInv

\* A step that leaves the senders and their numbers alone.
LEMMA SenderAlone ==
  ASSUME SenderInv, UNCHANGED <<senderVars, integration_id>>, step # "send", step' # "send"
  PROVE  SenderInv' /\ Counted
<1>1. /\ pipe' = pipe /\ received' = received /\ socket' = socket /\ connected' = connected
      /\ next_sequence' = next_sequence /\ integration_id' = integration_id
  BY DEF senderVars
<1>2. SenderTypes'
  BY <1>1 DEF SenderInv, SenderTypes
<1>3. ASSUME NEW w \in Windows
      PROVE  Together(w)
  <2>1. Pending(w) = 0 /\ Pending(w)' = 0
    BY DEF Pending
  <2>2. next_sequence[w] \in Int /\ integration_id[w] \in Int
    BY DEF SenderInv, SenderTypes
  <2> QED
    BY <1>1, <2>1, <2>2 DEF Together
<1> QED
  BY <1>1, <1>2, <1>3, Advances

\* The same while send_data() is between number and message.
LEMMA SenderAside ==
  ASSUME SenderInv, UNCHANGED <<senderVars, sendVars>>
  PROVE  SenderInv' /\ Counted
<1>1. /\ pipe' = pipe /\ received' = received /\ socket' = socket /\ connected' = connected
      /\ next_sequence' = next_sequence /\ integration_id' = integration_id
      /\ step' = step /\ win' = win
  BY DEF senderVars, sendVars
<1>2. SenderTypes'
  BY <1>1 DEF SenderInv, SenderTypes
<1>3. ASSUME NEW w \in Windows
      PROVE  Together(w)
  <2>1. Pending(w)' = Pending(w) /\ Pending(w) \in Int
    BY <1>1 DEF Pending, Window
  <2>2. next_sequence[w] \in Int /\ integration_id[w] \in Int
    BY DEF SenderInv, SenderTypes
  <2> QED
    BY <1>1, <2>1, <2>2 DEF Together
<1> QED
  BY <1>1, <1>2, <1>3, Advances

\* A counter per window, one of which is advanced.
LEMMA Counting ==
  ASSUME NEW f \in [Windows -> Int], NEW v
  PROVE  [f EXCEPT ![v] = @ + 1] \in [Windows -> Int]
<1>1. CASE v \in Windows
  <2>1. f[v] + 1 \in Int
    BY <1>1
  <2> QED
    BY <2>1
<1>2. CASE v \notin Windows
  BY <1>2
<1> QED
  BY <1>1, <1>2

\* send_spectrum up to the poll.
LEMMA SenderStarts ==
  ASSUME SenderInv, StartSend
  PROVE  SenderInv' /\ Counted
<1>1. ASSUME NEW w \in Windows
      PROVE  Pending(w) = 0 /\ next_sequence[w] \in Int /\ integration_id[w] \in Int
  BY DEF StartSend, Pending, SenderInv, SenderTypes
<1>2. CASE NoSocket(Window) /\ NextWindow
  <2>1. /\ Window \notin socket /\ pipe' = pipe /\ received' = received /\ socket' = socket
        /\ connected' = connected /\ next_sequence' = next_sequence
        /\ integration_id' = [integration_id EXCEPT ![Window] = @ + 1] /\ step' = "enqueue"
    BY <1>2 DEF NoSocket, senderVars, NextWindow
  <2>2. SenderTypes'
    BY <2>1, Counting DEF SenderInv, SenderTypes
  <2>3. ASSUME NEW w \in Windows, w \in socket
        PROVE  Together(w)
    <3>1. integration_id'[w] = integration_id[w] /\ Pending(w)' = 0
      BY <2>1, <2>3 DEF SenderInv, SenderTypes, Pending
    <3> QED
      BY <1>1, <2>1, <3>1 DEF Together
  <2> QED
    BY <2>1, <2>2, <2>3, Advances
<1>3. CASE Number(Window) /\ NextWindow
  <2>1. /\ pipe' = pipe /\ received' = received /\ socket' = socket \cup {Window}
        /\ connected' = connected
        /\ next_sequence' = [next_sequence EXCEPT ![Window] = @ + 1]
        /\ integration_id' = [integration_id EXCEPT ![Window] = @ + 1] /\ step' = "enqueue"
    BY <1>3 DEF Number, NextWindow
  <2>2. SenderTypes'
    BY <2>1, Counting DEF SenderInv, SenderTypes
  <2>3. ASSUME NEW w \in Windows
        PROVE  Together(w)
    <3>1. /\ Pending(w)' = 0
          /\ IF w = Window
               THEN /\ integration_id'[w] = integration_id[w] + 1
                    /\ next_sequence'[w] = next_sequence[w] + 1
               ELSE /\ integration_id'[w] = integration_id[w]
                    /\ next_sequence'[w] = next_sequence[w]
      BY <2>1 DEF SenderInv, SenderTypes, Pending
    <3> QED
      BY <1>1, <3>1 DEF Together
  <2> QED
    BY <2>1, <2>2, <2>3, Advances
<1>4. CASE Number(Window) /\ step' = "send" /\ UNCHANGED <<win, integration_id>>
  <2>1. /\ pipe' = pipe /\ received' = received /\ socket' = socket \cup {Window}
        /\ connected' = connected
        /\ next_sequence' = [next_sequence EXCEPT ![Window] = @ + 1]
        /\ integration_id' = integration_id /\ step' = "send" /\ Window' = Window
    BY <1>4 DEF Number, Window
  <2>2. SenderTypes'
    BY <2>1, Counting DEF SenderInv, SenderTypes
  <2>3. ASSUME NEW w \in Windows
        PROVE  Together(w)
    <3>1. /\ integration_id'[w] = integration_id[w]
          /\ IF w = Window
               THEN next_sequence'[w] = next_sequence[w] + 1 /\ Pending(w)' = 1
               ELSE next_sequence'[w] = next_sequence[w] /\ Pending(w)' = 0
      BY <2>1 DEF SenderInv, SenderTypes, Pending
    <3> QED
      BY <1>1, <3>1 DEF Together
  <2> QED
    BY <2>1, <2>2, <2>3, Advances
<1> QED
  BY <1>2, <1>3, <1>4 DEF StartSend

\* The end of send_spectrum without a message in the pipe: out of memory, or
\* the peer has gone since the poll.
LEMMA SenderEnds ==
  ASSUME SenderInv, step = "send", NextWindow, pipe' = pipe, received' = received,
         socket' = socket, connected' = connected, next_sequence' = next_sequence
  PROVE  SenderInv' /\ Counted
<1>1. step' = "enqueue" /\ integration_id' = [integration_id EXCEPT ![Window] = @ + 1]
  BY DEF NextWindow
<1>2. SenderTypes'
  BY <1>1, Counting DEF SenderInv, SenderTypes
<1>3. ASSUME NEW w \in Windows
      PROVE  Together(w)
  <2>1. /\ Pending(w)' = 0
        /\ IF w = Window THEN Pending(w) = 1 /\ integration_id'[w] = integration_id[w] + 1
                         ELSE Pending(w) = 0 /\ integration_id'[w] = integration_id[w]
    BY <1>1 DEF SenderInv, SenderTypes, Pending
  <2>2. next_sequence[w] \in Int /\ integration_id[w] \in Int
    BY DEF SenderInv, SenderTypes
  <2> QED
    BY <2>1, <2>2 DEF Together
<1> QED
  BY <1>2, <1>3, Advances

\* The message goes into the pipe.
LEMMA SenderSends ==
  ASSUME SenderInv, step = "send", NextWindow, Window \in Windows, Writable(Window),
         pipe' = [pipe EXCEPT ![Window] = Append(@, Message)], received' = received,
         socket' = socket, connected' = connected, next_sequence' = next_sequence
  PROVE  SenderInv' /\ Counted
<1>a. PICK v \in Windows : v = Window
  OBVIOUS
<1>b. PICK new : new = Message
  OBVIOUS
<1>1. step' = "enqueue" /\ integration_id' = [integration_id EXCEPT ![v] = @ + 1]
  BY <1>a DEF NextWindow
<1>2. /\ next_sequence[v] \in Int /\ integration_id[v] \in Int /\ v \in socket
      /\ pipe[v] \in Seq(Messages) /\ received[v] \in Seq(Messages) /\ SenderTypes
  BY <1>a DEF SenderInv, SenderTypes, Writable
<1>3. /\ new \in Messages /\ new.sequence = next_sequence[v] - 1
      /\ new.integration_id = integration_id[v]
  BY <1>2, <1>a, <1>b DEF Message, Messages
<1>4. pipe' = [pipe EXCEPT ![v] = Append(pipe[v], new)] /\ v \in Windows
  BY <1>a, <1>b
<1>5. /\ Append(pipe[v], new) \in Seq(Messages) /\ Len(Append(pipe[v], new)) = Len(pipe[v]) + 1
      /\ \A i \in 1 .. Len(pipe[v]) : Append(pipe[v], new)[i] = pipe[v][i]
      /\ Append(pipe[v], new)[Len(pipe[v]) + 1] = new
      /\ Len(pipe[v]) \in Nat
  BY <1>2, <1>3
<1>6. SenderTypes'
  <2>1. pipe' \in [Windows -> Seq(Messages)]
    BY <1>2, <1>4, <1>5 DEF SenderTypes
  <2> QED
    BY <1>1, <1>2, <2>1, Counting DEF SenderTypes
<1>7. ASSUME NEW w \in Windows
      PROVE  Together(w)
  <2>1. /\ Pending(w)' = 0
        /\ IF w = v THEN Pending(w) = 1 /\ integration_id'[w] = integration_id[w] + 1
                    ELSE Pending(w) = 0 /\ integration_id'[w] = integration_id[w]
    BY <1>1, <1>2, <1>a DEF SenderTypes, Pending
  <2>2. next_sequence[w] \in Int /\ integration_id[w] \in Int
    BY <1>2 DEF SenderTypes
  <2> QED
    BY <2>1, <2>2 DEF Together
<1>8. ASSUME NEW w \in Windows, w # v
      PROVE  InStep(w)' /\ InTurn(w)'
  <2>1. pipe'[w] = pipe[w]
    BY <1>2, <1>4, <1>8 DEF SenderTypes
  <2>2. InPipe(w)' = InPipe(w) /\ Arrived(w)' = Arrived(w)
    BY <2>1 DEF InPipe, Arrived
  <2>3. (InPipe(w) \cup Arrived(w))' \subseteq InPipe(w) \cup Arrived(w)
    BY <2>2
  <2>4. InStep(w) /\ InTurn(w)
    BY DEF SenderInv
  <2>5. InTurn(w)'
    BY <2>1, <2>2, <2>4 DEF InTurn
  <2> QED
    BY <1>2, <1>6, <1>7, <2>3, <2>4, <2>5, StaysInStep
<1>9. InStep(v) /\ InTurn(v) /\ Pending(v) = 1 /\ Pending(v)' = 0
  BY <1>1, <1>4, <1>a DEF SenderInv, Pending
<1>10. pipe'[v] = Append(pipe[v], new)
  BY <1>2, <1>4 DEF SenderTypes
<1>11. Arrived(v)' = Arrived(v) /\ InPipe(v)' \subseteq InPipe(v) \cup {new}
  <2>1. ASSUME NEW m \in InPipe(v)'
        PROVE  m \in InPipe(v) \cup {new}
    <3>1. PICK i \in 1 .. Len(pipe[v]) + 1 : m = Append(pipe[v], new)[i]
      BY <1>5, <1>10, <2>1 DEF InPipe
    <3>2. CASE i = Len(pipe[v]) + 1
      BY <1>5, <3>1, <3>2
    <3>3. CASE i # Len(pipe[v]) + 1
      <4>1. i \in 1 .. Len(pipe[v])
        BY <1>5, <3>3
      <4> QED
        BY <1>5, <3>1, <4>1 DEF InPipe
    <3> QED
      BY <3>2, <3>3
  <2> QED
    BY <2>1 DEF Arrived
<1>12. InStep(v)'
  <2> SUFFICES ASSUME NEW m \in (InPipe(v) \cup Arrived(v))'
               PROVE  /\ v \in socket'
                      /\ next_sequence'[v] - m.sequence
                           = integration_id'[v] + Pending(v)' - m.integration_id
                      /\ m.sequence < next_sequence'[v] - Pending(v)'
    BY DEF InStep, Fits
  <2>1. CASE m \in InPipe(v) \cup Arrived(v)
    <3>1. m \in Messages
      BY <1>2, <1>4, <2>1, MessagesTyped
    <3>2. Fits(m, v)
      BY <1>9, <2>1 DEF InStep
    <3> QED
      BY <1>2, <1>4, <1>6, <1>7, <3>1, <3>2, StillFits
  <2>2. CASE m = new
    <3>1. integration_id'[v] = integration_id[v] + 1
      BY <1>1, <1>2, <1>4 DEF SenderTypes
    <3> QED
      BY <1>2, <1>3, <1>9, <2>2, <3>1
  <2> QED
    BY <1>11, <2>1, <2>2
<1>13. ASSUME NEW m \in InPipe(v) \cup Arrived(v)
       PROVE  m.sequence < new.sequence /\ m \in Messages
  <2>1. m \in Messages
    BY <1>2, <1>4, MessagesTyped
  <2>2. m.sequence < next_sequence[v] - 1
    BY <1>9 DEF InStep, Fits
  <2> QED
    BY <1>3, <2>1, <2>2
<1>14. InTurn(v)'
  <2>1. ASSUME NEW i \in 1 .. Len(pipe'[v]), NEW j \in 1 .. Len(pipe'[v]), i < j
        PROVE  pipe'[v][i].sequence < pipe'[v][j].sequence
    <3>1. i \in 1 .. Len(pipe[v]) /\ pipe'[v][i] = pipe[v][i] /\ pipe[v][i] \in InPipe(v)
      <4>1. i \in 1 .. Len(pipe[v])
        BY <1>5, <1>10, <2>1
      <4> QED
        BY <1>5, <1>10, <4>1 DEF InPipe
    <3>2. CASE j = Len(pipe[v]) + 1
      <4>1. pipe'[v][j] = new
        BY <1>5, <1>10, <3>2
      <4> QED
        BY <1>13, <3>1, <4>1
    <3>3. CASE j # Len(pipe[v]) + 1
      <4>1. j \in 1 .. Len(pipe[v])
        BY <1>5, <1>10, <3>3
      <4>2. pipe'[v][j] = pipe[v][j]
        BY <1>5, <1>10, <4>1
      <4> QED
        BY <1>9, <2>1, <3>1, <4>1, <4>2 DEF InTurn
    <3> QED
      BY <3>2, <3>3
  <2>2. ASSUME NEW m \in Arrived(v), NEW n \in InPipe(v) \cup {new}
        PROVE  m.sequence < n.sequence
    <3>1. CASE n \in InPipe(v)
      BY <1>9, <3>1 DEF InTurn
    <3>2. CASE n = new
      BY <1>13, <3>2
    <3> QED
      BY <3>1, <3>2
  <2>3. \A m \in Arrived(v)' : \A n \in InPipe(v)' : m.sequence < n.sequence
    BY <1>11, <2>2
  <2> QED
    BY <2>1, <2>3 DEF InTurn
<1>15. ASSUME NEW w \in Windows
       PROVE  InStep(w)' /\ InTurn(w)'
  BY <1>8, <1>12, <1>14
<1>16. Counted
  BY DEF Counted
<1> QED
  BY <1>6, <1>15, <1>16 DEF SenderInv

\* ZeroMQ loses what is in the pipe of window v.
LEMMA SenderDisconnects ==
  ASSUME SenderInv, NEW v \in Windows, Disconnect(v), UNCHANGED sendVars
  PROVE  SenderInv' /\ Counted
<1>1. /\ pipe' = [pipe EXCEPT ![v] = <<>>] /\ received' = received /\ socket' = socket
      /\ connected' \subseteq connected /\ next_sequence' = next_sequence
      /\ integration_id' = integration_id /\ step' = step /\ win' = win
  BY DEF Disconnect, sendVars
<1>2. SenderTypes /\ SenderTypes'
  BY <1>1 DEF SenderInv, SenderTypes
<1>3. ASSUME NEW w \in Windows
      PROVE  InStep(w)' /\ InTurn(w)'
  <2>1. InStep(w) /\ InTurn(w)
    BY DEF SenderInv
  <2>2. Together(w)
    <3>1. Pending(w)' = Pending(w) /\ Pending(w) \in Int
      BY <1>1 DEF Pending, Window
    <3>2. next_sequence[w] \in Int /\ integration_id[w] \in Int
      BY <1>2 DEF SenderTypes
    <3> QED
      BY <1>1, <3>1, <3>2 DEF Together
  <2>3. Arrived(w)' = Arrived(w)
    BY <1>1 DEF Arrived
  <2>4. CASE w = v
    <3>1. pipe'[w] = <<>>
      BY <1>1, <1>2, <2>4 DEF SenderTypes
    <3>2. InPipe(w)' = {}
      BY <3>1 DEF InPipe
    <3>3. InTurn(w)'
      BY <3>1, <3>2 DEF InTurn
    <3>4. (InPipe(w) \cup Arrived(w))' \subseteq InPipe(w) \cup Arrived(w)
      BY <2>3, <3>2
    <3> QED
      BY <1>1, <1>2, <2>1, <2>2, <3>3, <3>4, StaysInStep
  <2>5. CASE w # v
    <3>1. pipe'[w] = pipe[w]
      BY <1>1, <1>2, <2>5 DEF SenderTypes
    <3>2. InPipe(w)' = InPipe(w)
      BY <3>1 DEF InPipe
    <3>3. InTurn(w)'
      BY <2>1, <2>3, <3>1, <3>2 DEF InTurn
    <3>4. (InPipe(w) \cup Arrived(w))' \subseteq InPipe(w) \cup Arrived(w)
      BY <2>3, <3>2
    <3> QED
      BY <1>1, <1>2, <2>1, <2>2, <3>3, <3>4, StaysInStep
  <2> QED
    BY <2>4, <2>5
<1>4. Counted
  BY <1>1 DEF Counted
<1> QED
  BY <1>2, <1>3, <1>4 DEF SenderInv

\* A message of window v reaches the Writer.
LEMMA SenderDelivers ==
  ASSUME SenderInv, NEW v \in Windows, Deliver(v), UNCHANGED sendVars
  PROVE  SenderInv' /\ Counted
<1>1. /\ pipe[v] # <<>> /\ pipe' = [pipe EXCEPT ![v] = Tail(pipe[v])]
      /\ received' = [received EXCEPT ![v] = <<Head(pipe[v])>>] /\ socket' = socket
      /\ connected' = connected /\ next_sequence' = next_sequence
      /\ integration_id' = integration_id /\ step' = step /\ win' = win
  BY DEF Deliver, sendVars
<1>2. SenderTypes /\ pipe[v] \in Seq(Messages) /\ received[v] \in Seq(Messages)
  BY DEF SenderInv, SenderTypes
<1>3. /\ Len(pipe[v]) \in Nat \ {0} /\ Head(pipe[v]) = pipe[v][1] /\ pipe[v][1] \in Messages
      /\ Tail(pipe[v]) \in Seq(Messages) /\ Len(Tail(pipe[v])) = Len(pipe[v]) - 1
      /\ \A i \in 1 .. Len(pipe[v]) - 1 : Tail(pipe[v])[i] = pipe[v][i + 1]
  BY <1>1, <1>2
<1>4. /\ pipe'[v] = Tail(pipe[v]) /\ received'[v] = <<pipe[v][1]>>
      /\ \A w \in Windows \ {v} : pipe'[w] = pipe[w] /\ received'[w] = received[w]
  BY <1>1, <1>2, <1>3 DEF SenderTypes
<1>5. SenderTypes'
  <2>1. pipe' \in [Windows -> Seq(Messages)]
    BY <1>1, <1>2, <1>3 DEF SenderTypes
  <2>2. <<pipe[v][1]>> \in Seq(Messages)
    BY <1>3
  <2>3. received' \in [Windows -> Seq(Messages)]
    BY <1>1, <1>2, <1>3, <2>2 DEF SenderTypes
  <2> QED
    BY <1>1, <1>2, <2>1, <2>3 DEF SenderTypes
<1>6. ASSUME NEW w \in Windows
      PROVE  Together(w) /\ InStep(w) /\ InTurn(w)
  <2>1. Pending(w)' = Pending(w) /\ Pending(w) \in Int
    BY <1>1 DEF Pending, Window
  <2>2. next_sequence[w] \in Int /\ integration_id[w] \in Int
    BY <1>2 DEF SenderTypes
  <2> QED
    BY <1>1, <2>1, <2>2 DEF Together, SenderInv
<1>7. /\ pipe[v][1] \in InPipe(v) /\ Arrived(v)' = {pipe[v][1]}
      /\ \A i \in 1 .. Len(pipe[v]) - 1 : pipe[v][i + 1] \in InPipe(v)
  <2>1. Len(<<pipe[v][1]>>) = 1 /\ <<pipe[v][1]>>[1] = pipe[v][1]
    OBVIOUS
  <2>2. Arrived(v)' = {pipe[v][1]}
    BY <1>4, <2>1 DEF Arrived
  <2> QED
    BY <1>3, <2>2 DEF InPipe
<1>8. ASSUME NEW n \in InPipe(v)'
      PROVE  n \in InPipe(v) /\ pipe[v][1].sequence < n.sequence
  <2>1. PICK i \in 1 .. Len(pipe[v]) - 1 : n = Tail(pipe[v])[i]
    BY <1>3, <1>4, <1>8 DEF InPipe
  <2>2. n = pipe[v][i + 1] /\ 1 \in 1 .. Len(pipe[v]) /\ i + 1 \in 1 .. Len(pipe[v]) /\ 1 < i + 1
    BY <1>3, <2>1
  <2>3. pipe[v][1].sequence < pipe[v][i + 1].sequence
    BY <1>6, <2>2 DEF InTurn
  <2> QED
    BY <1>7, <2>1, <2>2, <2>3
<1>9. InStep(v)'
  <2>1. (InPipe(v) \cup Arrived(v))' \subseteq InPipe(v) \cup Arrived(v)
    BY <1>7, <1>8
  <2> QED
    BY <1>1, <1>2, <1>5, <1>6, <2>1, StaysInStep
<1>10. InTurn(v)'
  <2>1. ASSUME NEW i \in 1 .. Len(pipe'[v]), NEW j \in 1 .. Len(pipe'[v]), i < j
        PROVE  pipe'[v][i].sequence < pipe'[v][j].sequence
    <3>1. /\ i \in 1 .. Len(pipe[v]) - 1 /\ j \in 1 .. Len(pipe[v]) - 1
          /\ pipe'[v][i] = pipe[v][i + 1] /\ pipe'[v][j] = pipe[v][j + 1]
      BY <1>3, <1>4
    <3>2. i + 1 \in 1 .. Len(pipe[v]) /\ j + 1 \in 1 .. Len(pipe[v]) /\ i + 1 < j + 1
      BY <1>3, <2>1, <3>1
    <3> QED
      BY <1>6, <3>1, <3>2 DEF InTurn
  <2>2. \A m \in Arrived(v)' : \A n \in InPipe(v)' : m.sequence < n.sequence
    BY <1>7, <1>8
  <2> QED
    BY <2>1, <2>2 DEF InTurn
<1>11. ASSUME NEW w \in Windows, w # v
       PROVE  InStep(w)' /\ InTurn(w)'
  <2>1. pipe'[w] = pipe[w] /\ received'[w] = received[w]
    BY <1>4, <1>11
  <2>2. InPipe(w)' = InPipe(w) /\ Arrived(w)' = Arrived(w)
    BY <2>1 DEF InPipe, Arrived
  <2>3. (InPipe(w) \cup Arrived(w))' \subseteq InPipe(w) \cup Arrived(w)
    BY <2>2
  <2>4. InTurn(w)'
    BY <1>6, <2>1, <2>2 DEF InTurn
  <2> QED
    BY <1>1, <1>2, <1>5, <1>6, <2>3, <2>4, StaysInStep
<1>12. Counted
  <2> SUFFICES ASSUME NEW w \in Windows, received[w] # <<>>,
                      received'[w] \notin {<<>>, received[w]}
               PROVE  /\ received[w][1].sequence < received'[w][1].sequence
                      /\ received'[w][1].sequence - received[w][1].sequence
                           = received'[w][1].integration_id - received[w][1].integration_id
    BY DEF Counted
  <2>1. w = v
    BY <1>4
  <2> DEFINE a == received[v][1]
             b == pipe[v][1]
  <2>2. received'[v][1] = b
    BY <1>4
  <2>3. a \in Arrived(v) /\ b \in InPipe(v)
    <3>1. Len(received[v]) \in Nat \ {0}
      BY <1>2, <2>1
    <3> QED
      BY <1>7, <3>1 DEF Arrived
  <2>4. a \in Messages /\ b \in Messages
    BY <1>2, <2>3, MessagesTyped
  <2>5. Fits(a, v) /\ Fits(b, v)
    BY <1>6, <2>3 DEF InStep
  <2>6. a.sequence < b.sequence
    BY <1>6, <2>3 DEF InTurn
  <2> HIDE DEF a, b
  <2>7. /\ a.sequence \in Int /\ b.sequence \in Int
        /\ a.integration_id \in Int /\ b.integration_id \in Int
    BY <2>4 DEF Messages
  <2>8. next_sequence[v] \in Int /\ integration_id[v] \in Int /\ Pending(v) \in Int
    BY <1>2 DEF SenderTypes, Pending
  <2>9. b.sequence - a.sequence = b.integration_id - a.integration_id
    <3>1. /\ next_sequence[v] - a.sequence = integration_id[v] + Pending(v) - a.integration_id
          /\ next_sequence[v] - b.sequence = integration_id[v] + Pending(v) - b.integration_id
      BY <2>5 DEF Fits
    <3>2. ASSUME NEW n \in Int, NEW i \in Int, NEW p \in Int, NEW x \in Int, NEW xi \in Int,
                 NEW y \in Int, NEW yi \in Int, n - x = i + p - xi, n - y = i + p - yi
          PROVE  y - x = yi - xi
      BY ONLY <3>2
    <3> QED
      BY ONLY <2>7, <2>8, <3>1, <3>2
  <2> QED
    BY <2>1, <2>2, <2>6, <2>9 DEF a
<1>13. ASSUME NEW w \in Windows
       PROVE  InStep(w)' /\ InTurn(w)'
  BY <1>9, <1>10, <1>11
<1> QED
  BY <1>5, <1>12, <1>13 DEF SenderInv

\* Senders that have sent nothing.
LEMMA SenderFresh ==
  ASSUME next_sequence = [w \in Windows |-> 0], integration_id = [w \in Windows |-> 0],
         pipe = [w \in Windows |-> <<>>], received = [w \in Windows |-> <<>>], connected = {}
  PROVE  SenderInv
<1>1. SenderTypes
  BY DEF SenderTypes
<1>2. ASSUME NEW w \in Windows
      PROVE  InStep(w) /\ InTurn(w)
  <2>1. pipe[w] = <<>> /\ received[w] = <<>>
    OBVIOUS
  <2>2. Len(pipe[w]) = 0 /\ Len(received[w]) = 0
    BY <2>1
  <2>3. InPipe(w) = {} /\ Arrived(w) = {}
    BY <2>2 DEF InPipe, Arrived
  <2>4. InStep(w)
    BY <2>3 DEF InStep
  <2>5. InTurn(w)
    BY <2>2, <2>3 DEF InTurn
  <2> QED
    BY <2>4, <2>5
<1> QED
  BY <1>1, <1>2 DEF SenderInv

\* The same in the next state.
LEMMA SenderFreshNext ==
  ( /\ next_sequence = [w \in Windows |-> 0] /\ integration_id = [w \in Windows |-> 0]
    /\ pipe = [w \in Windows |-> <<>>] /\ received = [w \in Windows |-> <<>>] /\ connected = {}
    => SenderInv )'
<1>1. /\ next_sequence = [w \in Windows |-> 0] /\ integration_id = [w \in Windows |-> 0]
      /\ pipe = [w \in Windows |-> <<>>] /\ received = [w \in Windows |-> <<>>] /\ connected = {}
      => SenderInv
  BY SenderFresh
<1> QED
  BY <1>1, PTL

\* Every step.
LEMMA SenderNext ==
  ASSUME SenderInv, Idle, [Next]_vars
  PROVE  SenderInv' /\ Counted
<1>1. ASSUME NEW good \in SUBSET Windows, Prepare(good)
      PROVE  SenderInv' /\ Counted
  <2>1. /\ pipe' = pipe /\ received' = received /\ socket' = socket \cup good
        /\ connected' = connected /\ next_sequence' = next_sequence
        /\ integration_id' = integration_id /\ step = "prepare" /\ step' = "enqueue"
    BY <1>1 DEF Prepare, PrepareSockets
  <2>2. SenderTypes'
    BY <2>1 DEF SenderInv, SenderTypes
  <2>3. ASSUME NEW w \in Windows
        PROVE  Together(w)
    <3>1. Pending(w) = 0 /\ Pending(w)' = 0
      BY <2>1 DEF Pending
    <3>2. next_sequence[w] \in Int /\ integration_id[w] \in Int
      BY DEF SenderInv, SenderTypes
    <3> QED
      BY <2>1, <3>1, <3>2 DEF Together
  <2> QED
    BY <2>1, <2>2, <2>3, Advances
<1>2. CASE EnqueueRow
  BY <1>2, SenderAlone DEF EnqueueRow
<1>3. CASE StartSend
  BY <1>3, SenderStarts
<1>4. CASE FinishSend
  <2>1. /\ step = "send" /\ NextWindow
        /\ \/ Transmit(Window, Message)
           \/ UNCHANGED senderVars
    BY <1>4 DEF FinishSend
  <2>2. CASE UNCHANGED senderVars
    BY <2>1, <2>2, SenderEnds DEF senderVars
  <2>3. CASE Transmit(Window, Message)
    <3>1. /\ pipe' = [pipe EXCEPT ![Window] = IF Writable(Window) THEN Append(@, Message) ELSE @]
          /\ received' = received /\ socket' = socket /\ connected' = connected
          /\ next_sequence' = next_sequence
      BY <2>3 DEF Transmit
    <3>2. CASE Window \in Windows /\ Writable(Window)
      <4>1. pipe' = [pipe EXCEPT ![Window] = Append(@, Message)]
        BY <3>1, <3>2
      <4> QED
        BY <2>1, <3>1, <3>2, <4>1, SenderSends
    <3>3. CASE ~(Window \in Windows /\ Writable(Window))
      <4>1. pipe' = pipe
        <5>1. CASE Window \notin Windows
          BY <3>1, <5>1 DEF SenderInv, SenderTypes
        <5>2. CASE Window \in Windows /\ ~Writable(Window)
          <6>1. pipe' = [pipe EXCEPT ![Window] = pipe[Window]]
            BY <3>1, <5>2
          <6> QED
            BY <6>1, <5>2 DEF SenderInv, SenderTypes
        <5> QED
          BY <3>3, <5>1, <5>2
      <4> QED
        BY <2>1, <3>1, <4>1, SenderEnds
    <3> QED
      BY <3>2, <3>3
  <2> QED
    BY <2>1, <2>2, <2>3
<1>5. CASE WriterThread \/ MainEnds
  BY <1>5, SenderAside DEF WriterThread, MainEnds
<1>6. CASE Kill
  <2>1. /\ next_sequence' = [w \in Windows |-> 0] /\ integration_id' = [w \in Windows |-> 0]
        /\ pipe' = [w \in Windows |-> <<>>] /\ received' = [w \in Windows |-> <<>>]
        /\ connected' = {}
    BY <1>6 DEF Kill, SenderStart
  <2>2. SenderInv'
    BY <2>1, SenderFreshNext
  <2>3. Counted
    BY <2>1 DEF Counted
  <2> QED
    BY <2>2, <2>3
<1>7. ASSUME NEW w \in Windows, UNCHANGED sendVars, Connect(w) \/ Disconnect(w) \/ Deliver(w)
      PROVE  SenderInv' /\ Counted
  <2>1. CASE Connect(w)
    <3>1. /\ pipe' = pipe /\ received' = received /\ socket' = socket
          /\ connected' = connected \cup {w} /\ w \in socket /\ next_sequence' = next_sequence
          /\ integration_id' = integration_id /\ step' = step /\ win' = win
      BY <1>7, <2>1 DEF Connect, sendVars
    <3>2. SenderTypes'
      BY <3>1 DEF SenderInv, SenderTypes
    <3>3. ASSUME NEW x \in Windows
          PROVE  Together(x)
      <4>1. Pending(x)' = Pending(x) /\ Pending(x) \in Int
        BY <3>1 DEF Pending, Window
      <4>2. next_sequence[x] \in Int /\ integration_id[x] \in Int
        BY DEF SenderInv, SenderTypes
      <4> QED
        BY <3>1, <4>1, <4>2 DEF Together
    <3> QED
      BY <3>1, <3>2, <3>3, Advances
  <2> QED
    BY <1>7, <2>1, SenderDisconnects, SenderDelivers
<1>8. CASE Network /\ UNCHANGED <<writerVars, sendVars, processVars, history, faults>>
  BY <1>7, <1>8 DEF Network
<1>9. CASE Restart
  <2>1. /\ UNCHANGED <<senderVars, integration_id, win>> /\ step' = "prepare"
    BY <1>9 DEF Restart
  <2>2. step # "send"
    BY <1>9 DEF Restart, Idle
  <2> QED
    BY <2>1, <2>2, SenderAlone
<1>10. CASE UNCHANGED vars
  BY <1>10, SenderAside DEF vars
<1> QED
  BY <1>1, <1>2, <1>3, <1>4, <1>5, <1>6, <1>8, <1>9, <1>10 DEF Next, Running, SendData

\* Only Kill ends the process, and Restart brings it back.
LEMMA IdleNext ==
  ASSUME Idle, [Next]_vars
  PROVE  Idle'
<1>1. CASE alive /\ (SendData \/ WriterThread \/ MainEnds)
  <2>1. alive' = alive
    BY <1>1 DEF SendData, Prepare, EnqueueRow, StartSend, FinishSend, WriterThread, MainEnds,
       processVars
  <2> QED
    BY <1>1, <2>1 DEF Idle
<1>2. CASE Kill
  BY <1>2 DEF Kill, Idle
<1>3. CASE alive /\ Network /\ UNCHANGED <<writerVars, sendVars, processVars, history, faults>>
  BY <1>3 DEF Idle, processVars
<1>4. CASE Restart
  BY <1>4 DEF Restart, Idle
<1>5. CASE UNCHANGED vars
  BY <1>5 DEF vars, processVars, sendVars, Idle
<1> QED
  BY <1>1, <1>2, <1>3, <1>4, <1>5 DEF Next, Running

\* For every depth of the pipes, and however ZeroMQ connects, disconnects and
\* delivers: the numbers of the messages the Writer gets tell exactly how many
\* integrations it has missed since the one before.
THEOREM GapsTellLosses == Spec => GapsCountLosses
<1>1. Init => SenderInv /\ Idle
  BY SenderFresh DEF Init, SenderInit, Idle
<1>2. SenderInv /\ Idle /\ [Next]_vars => SenderInv' /\ Idle' /\ Counted
  BY SenderNext, IdleNext
<1>3. GapsCountLosses <=> [][Counted]_vars
  BY DEF GapsCountLosses, Counted
<1> QED
  BY <1>1, <1>2, <1>3, PTL DEF Spec

(***************************************************************************)
(* The times.                                                              *)
(***************************************************************************)
\* A set of natural numbers that is not empty has a least element.
LEMMA LeastElement ==
  ASSUME NEW S, S \subseteq Nat, S # {}
  PROVE  \E x \in S : \A y \in S : x <= y
<1> DEFINE less == {ss \in Nat \X Nat : ss[1] < ss[2]}
<1>1. IsWellFoundedOn(less, Nat)
  BY NatLessThanWellFounded DEF OpToRel
<1>2. PICK x \in S : \A y \in S : ~(<<y, x>> \in less)
  <2> HIDE DEF less
  <2> QED
    BY <1>1, WFMin
<1>3. \A y \in S : x <= y
  <2> TAKE y \in S
  <2>1. x \in Nat /\ y \in Nat /\ <<y, x>> \notin less
    BY <1>2
  <2> QED
    BY <2>1
<1> QED
  BY <1>2, <1>3

\* A set of numbers from a + 1 to n that contains with each of them the smaller
\* ones consists of the first ones, as many as is its cardinality.
LEMMA InitialPart ==
  ASSUME NEW a \in Nat, NEW n \in Nat, a <= n, NEW S, S \subseteq (a + 1) .. n,
         \A i \in S : \A j \in (a + 1) .. i : j \in S
  PROVE  /\ Cardinality(S) \in 0 .. n - a
         /\ \A i \in (a + 1) .. n : i \in S <=> i <= a + Cardinality(S)
<1> DEFINE Out == {i \in (a + 1) .. (n + 1) : i \notin S}
<1>1. n + 1 \in Out /\ Out \subseteq Nat
  OBVIOUS
<1>2. PICK k \in Out : \A y \in Out : k <= y
  <2> HIDE DEF Out
  <2> QED
    BY <1>1, LeastElement
<1>3. k \in (a + 1) .. (n + 1) /\ k \notin S
  BY <1>2
<1>4. ASSUME NEW i \in (a + 1) .. n
      PROVE  i \in S <=> i <= k - 1
  <2>1. CASE i \in S
    <3>1. ~(k <= i)
      BY <1>3, <2>1
    <3> QED
      BY <1>3, <2>1, <3>1
  <2>2. CASE i \notin S
    <3>1. k <= i
      BY <1>2, <2>2
    <3> QED
      BY <1>3, <2>2, <3>1
  <2> QED
    BY <2>1, <2>2
<1>5. S = (a + 1) .. (k - 1)
  <2>1. ASSUME NEW i \in (a + 1) .. (k - 1)
        PROVE  i \in S
    BY <1>3, <1>4
  <2>2. ASSUME NEW i \in S
        PROVE  i \in (a + 1) .. (k - 1)
    <3>1. i \in (a + 1) .. n
      OBVIOUS
    <3> QED
      BY <1>3, <1>4, <3>1
  <2> QED
    BY <2>1, <2>2
<1>6. Cardinality(S) = k - 1 - a
  <2>1. k - 1 \in Int /\ a + 1 \in Int
    BY <1>3
  <2>2. Cardinality((a + 1) .. (k - 1)) = IF a + 1 > k - 1 THEN 0 ELSE k - 1 - (a + 1) + 1
    BY <2>1, FS_Interval
  <2> QED
    BY <1>3, <1>5, <2>2
<1> QED
  BY <1>3, <1>4, <1>6

Leaps == Len(LeapEffective)

\* The leap seconds up to POSIX second u.
Passed(u) == Cardinality({i \in DOMAIN LeapEffective : LeapEffective[i] <= u})

\* The table is in order.
LEMMA TableInOrder ==
  /\ Leaps \in Nat /\ DOMAIN LeapEffective = 1 .. Leaps
  /\ \A i \in 1 .. Leaps : LeapEffective[i] \in Nat
  /\ \A i, j \in 1 .. Leaps : i < j => LeapEffective[i] < LeapEffective[j]
<1>1. Leaps \in Nat /\ DOMAIN LeapEffective = 1 .. Leaps
      /\ \A i \in 1 .. Leaps : LeapEffective[i] \in Nat
  BY TimeAssumption DEF Leaps
<1>2. \A i, j \in 1 .. Leaps : i < j => LeapEffective[i] < LeapEffective[j]
  BY <1>1, TimeAssumption
<1> QED
  BY <1>1, <1>2

\* So the ones passed are the first ones of it.
LEMMA PassedFirst ==
  ASSUME NEW u \in Int
  PROVE  /\ Leaps \in Nat /\ DOMAIN LeapEffective = 1 .. Leaps
         /\ Passed(u) \in 0 .. Leaps
         /\ \A i \in 1 .. Leaps : /\ LeapEffective[i] \in Nat
                                  /\ LeapEffective[i] <= u <=> i <= Passed(u)
<1> DEFINE S == {i \in DOMAIN LeapEffective : LeapEffective[i] <= u}
<1>1. Leaps \in Nat /\ DOMAIN LeapEffective = 1 .. Leaps
      /\ \A i \in 1 .. Leaps : LeapEffective[i] \in Nat
  BY TableInOrder
<1>2. S \subseteq 1 .. Leaps
  BY <1>1
<1>3. ASSUME NEW i \in S, NEW j \in 1 .. i
      PROVE  j \in S
  <2>1. i \in 1 .. Leaps /\ j \in 1 .. Leaps /\ LeapEffective[i] <= u
    BY <1>1
  <2>2. j < i => LeapEffective[j] < LeapEffective[i]
    BY <2>1, TableInOrder
  <2>3. LeapEffective[j] <= u
    BY <1>1, <2>1, <2>2
  <2> QED
    BY <1>1, <2>1, <2>3
<1>4. /\ Cardinality(S) \in 0 .. Leaps
      /\ \A i \in 1 .. Leaps : i \in S <=> i <= Cardinality(S)
  <2>1. /\ Cardinality(S) \in 0 .. Leaps - 0
        /\ \A i \in (0 + 1) .. Leaps : i \in S <=> i <= 0 + Cardinality(S)
    <3> HIDE DEF S
    <3>1. 0 \in Nat /\ 0 <= Leaps /\ 0 + 1 = 1
      BY <1>1
    <3> QED
      BY <1>1, <1>2, <1>3, <3>1, InitialPart
  <2> HIDE DEF S
  <2> QED
    BY <1>1, <2>1
<1>5. Passed(u) = Cardinality(S)
  BY DEF Passed
<1> QED
  BY <1>1, <1>4, <1>5

\* Seconds of UTC go with those of POSIX.
LEMMA CountGrows ==
  ASSUME NEW u \in Int, NEW v \in Int, u <= v
  PROVE  UtcCount(u) \in Int /\ UtcCount(v) - UtcCount(u) >= v - u
<1>1. Passed(u) \in 0 .. Leaps /\ Passed(v) \in 0 .. Leaps /\ Leaps \in Nat
  BY PassedFirst
<1>2. Passed(u) <= Passed(v)
  <2>1. CASE Passed(u) = 0
    BY <1>1, <2>1
  <2>2. CASE Passed(u) # 0
    <3> DEFINE p == Passed(u)
    <3>1. p \in 1 .. Leaps
      BY <1>1, <2>2
    <3>2. LeapEffective[p] \in Nat /\ LeapEffective[p] <= u
      BY <3>1, PassedFirst, SMTT(30)
    <3>3. LeapEffective[p] <= v
      BY <3>2
    <3> QED
      BY <3>1, <3>3, PassedFirst
  <2> QED
    BY <2>1, <2>2
<1>3. UtcCount(u) = u + Passed(u) /\ UtcCount(v) = v + Passed(v)
  BY DEF UtcCount, Passed
<1> QED
  BY <1>1, <1>2, <1>3

\* A second has one label only.
LEMMA LabelUnique ==
  ASSUME NEW n \in Nat, NEW u \in 0 .. n, UtcCount(u) <= n, n < UtcCount(u + 1)
  PROVE  PosixLabel(n) = u
<1>1. ASSUME NEW v \in 0 .. n, UtcCount(v) <= n, n < UtcCount(v + 1)
      PROVE  v = u
  <2>1. CASE v < u
    <3>1. UtcCount(v + 1) \in Int /\ UtcCount(u) - UtcCount(v + 1) >= u - (v + 1)
      <4>1. v + 1 \in Int /\ u \in Int /\ v + 1 <= u
        BY <2>1
      <4> QED
        BY <4>1, CountGrows
    <3>2. UtcCount(u) \in Int
      <4>1. u \in Int /\ u <= u
        OBVIOUS
      <4> QED
        BY <4>1, CountGrows
    <3> QED
      BY <1>1, <2>1, <3>1, <3>2
  <2>2. CASE u < v
    <3>1. UtcCount(u + 1) \in Int /\ UtcCount(v) - UtcCount(u + 1) >= v - (u + 1)
      <4>1. u + 1 \in Int /\ v \in Int /\ u + 1 <= v
        BY <2>2
      <4> QED
        BY <4>1, CountGrows
    <3>2. UtcCount(v) \in Int
      <4>1. v \in Int /\ v <= v
        OBVIOUS
      <4> QED
        BY <4>1, CountGrows
    <3> QED
      BY <1>1, <2>2, <3>1, <3>2
  <2> QED
    BY <2>1, <2>2
<1>2. UtcCount(u) <= n /\ n < UtcCount(u + 1)
  OBVIOUS
<1>3. PosixLabel(n) \in 0 .. n /\ UtcCount(PosixLabel(n)) <= n
      /\ n < UtcCount(PosixLabel(n) + 1)
  BY <1>2 DEF PosixLabel
<1> QED
  BY <1>1, <1>3

\* vdif_to_timestamp_ns is the POSIX time, leap seconds and all.
LEMMA TimestampCorrect ==
  ASSUME NEW e \in Epochs, NEW s \in Nat, NEW frame
  PROVE  /\ VdifToTimestamp(e, s, frame) = ReferenceTime(e, s, frame)
         /\ \E u \in Nat : /\ u >= EpochUnixSec[e]
                          /\ ReferenceTime(e, s, frame) = u * FramesPerSecond + frame
<1>0. PICK E : E = EpochUnixSec[e]
  OBVIOUS
<1> DEFINE m == Passed(E)
           L == LeapsSince(e)
           P == {i \in L : LeapValue(e, i) < s}
           passed == Cardinality(P)
           folded == IF \E i \in L : LeapValue(e, i) = s THEN 1 ELSE 0
           n == UtcCount(E) + s
           u == E + s - passed - folded
<1>1. E \in Nat /\ E \in Int
  BY <1>0, TimeAssumption
<1>2. /\ Leaps \in Nat /\ DOMAIN LeapEffective = 1 .. Leaps /\ m \in 0 .. Leaps
      /\ \A i \in 1 .. Leaps : LeapEffective[i] \in Nat /\ (LeapEffective[i] <= E <=> i <= m)
  BY <1>1, PassedFirst
<1>3. L = (m + 1) .. Leaps
  <2>1. ASSUME NEW i \in 1 .. Leaps
        PROVE  LeapEffective[i] > E <=> i >= m + 1
    BY <1>1, <1>2
  <2> QED
    BY <1>0, <1>2, <2>1 DEF LeapsSince
<1>4. ASSUME NEW i \in L
      PROVE  /\ LeapEffective[i] \in Nat /\ LeapEffective[i] > E
             /\ LeapValue(e, i) = LeapEffective[i] - E + (i - m - 1)
  <2>1. i \in (m + 1) .. Leaps /\ i \in 1 .. Leaps
    BY <1>2, <1>3
  <2>2. {j \in L : j < i} = (m + 1) .. (i - 1)
    BY <1>2, <1>3, <2>1
  <2>3. Cardinality((m + 1) .. (i - 1)) = i - m - 1
    <3>1. m + 1 \in Int /\ i - 1 \in Int
      BY <1>2, <2>1
    <3>2. Cardinality((m + 1) .. (i - 1)) = IF m + 1 > i - 1 THEN 0 ELSE i - 1 - (m + 1) + 1
      BY <3>1, FS_Interval
    <3> QED
      BY <1>2, <2>1, <3>2
  <2>4. LeapValue(e, i) = LeapEffective[i] - E + Cardinality({j \in L : j < i})
    BY <1>0 DEF LeapValue
  <2>5. LeapEffective[i] \in Nat /\ LeapEffective[i] > E
    BY <1>1, <1>2, <2>1
  <2> QED
    BY <2>2, <2>3, <2>4, <2>5
<1>5. ASSUME NEW i \in L, NEW j \in L, i < j
      PROVE  LeapEffective[i] < LeapEffective[j]
  <2>1. i \in 1 .. Leaps /\ j \in 1 .. Leaps
    BY <1>2, <1>3
  <2> QED
    BY <1>5, <2>1, TableInOrder
<1> HIDE DEF L
<1>6. /\ passed \in 0 .. Leaps - m
      /\ \A i \in L : LeapValue(e, i) < s <=> i <= m + passed
  <2>1. P \subseteq (m + 1) .. Leaps
    BY <1>3
  <2>2. ASSUME NEW i \in P, NEW j \in (m + 1) .. i
        PROVE  j \in P
    <3>1. i \in L /\ j \in L /\ i \in Int /\ j \in Int /\ LeapValue(e, i) < s
      BY <1>2, <1>3
    <3>2. j < i => LeapEffective[j] < LeapEffective[i]
      BY <1>5, <3>1
    <3>3. /\ LeapEffective[i] \in Nat /\ LeapEffective[j] \in Nat
          /\ LeapValue(e, i) = LeapEffective[i] - E + (i - m - 1)
          /\ LeapValue(e, j) = LeapEffective[j] - E + (j - m - 1)
      BY <1>4, <3>1
    <3>4. LeapValue(e, j) < s
      <4>1. m \in Int /\ j <= i
        BY <1>2
      <4> HIDE DEF m
      <4> QED
        BY <1>1, <3>1, <3>2, <3>3, <4>1
    <3> QED
      BY <3>1, <3>4
  <2>3. m \in Nat /\ m <= Leaps
    BY <1>2
  <2>4. /\ passed \in 0 .. Leaps - m
        /\ \A i \in (m + 1) .. Leaps : i \in P <=> i <= m + passed
    <3> HIDE DEF P, m
    <3> QED
      BY <1>2, <2>1, <2>2, <2>3, InitialPart
  <2> QED
    BY <1>3, <2>4
<1> HIDE DEF m, passed
<1>7. /\ u \in Int /\ u >= E
      /\ Passed(u) = m + passed
      /\ folded = 1 => Passed(u + 1) = m + passed + 1
  <2>1. m \in Nat /\ passed \in Nat /\ m + passed <= Leaps /\ Leaps \in Nat
    BY <1>2, <1>6
  <2> DEFINE c == m + passed
  \* What is before and after the c leap seconds.
  <2>2. ASSUME c > m
        PROVE  c \in L /\ LeapEffective[c] \in Nat /\ LeapEffective[c] <= E + s - passed
    <3>1. c \in L /\ c <= m + passed
      BY <1>3, <2>1, <2>2
    <3>2. LeapValue(e, c) < s
      BY <1>6, <3>1
    <3>3. LeapEffective[c] \in Nat /\ LeapValue(e, c) = LeapEffective[c] - E + (c - m - 1)
      BY <1>4, <3>1
    <3> QED
      BY <1>1, <2>1, <3>1, <3>2, <3>3
  <2>3. ASSUME NEW k \in Int, k = c + 1, c < Leaps
        PROVE  /\ k \in L /\ LeapEffective[k] \in Nat /\ LeapEffective[k] > E
               /\ LeapEffective[k] >= E + s - passed
               /\ LeapEffective[k] = E + s - passed <=> LeapValue(e, k) = s
               /\ LeapValue(e, k) \in Int /\ LeapValue(e, k) >= s
    <3>1. k \in L /\ ~(k <= m + passed)
      BY <1>3, <2>1, <2>3
    <3>2. ~(LeapValue(e, k) < s)
      BY <1>6, <3>1
    <3>3. /\ LeapEffective[k] \in Nat /\ LeapEffective[k] > E
          /\ LeapValue(e, k) = LeapEffective[k] - E + (k - m - 1)
      BY <1>4, <3>1
    <3> QED
      BY <1>1, <2>1, <2>3, <3>1, <3>2, <3>3
  <2>4. folded = 1 <=> c < Leaps /\ LeapEffective[c + 1] = E + s - passed
    <3>1. ASSUME NEW i \in L, LeapValue(e, i) = s
          PROVE  c < Leaps /\ LeapEffective[c + 1] = E + s - passed
      <4>1. i \in Int /\ i <= Leaps /\ ~(i <= c)
        BY <1>2, <1>3, <1>6, <3>1
      <4>2. PICK k \in Int : k = c + 1
        BY <2>1
      <4>3. c < Leaps /\ k <= i
        BY <2>1, <4>1, <4>2
      <4>4. k \in L /\ LeapValue(e, k) \in Int /\ LeapValue(e, k) >= s
        BY <2>3, <4>2, <4>3
      <4>5. ~(k < i)
        <5>1. SUFFICES ASSUME k < i PROVE FALSE
          OBVIOUS
        <5>2. LeapEffective[k] < LeapEffective[i]
          BY <1>5, <4>4, <5>1
        <5>3. /\ LeapEffective[k] \in Nat /\ LeapEffective[i] \in Nat
              /\ LeapValue(e, i) = LeapEffective[i] - E + (i - m - 1)
              /\ LeapValue(e, k) = LeapEffective[k] - E + (k - m - 1)
          BY <1>4, <4>4
        <5> QED
          BY <1>1, <2>1, <3>1, <4>1, <4>2, <4>4, <5>1, <5>2, <5>3
      <4>6. k = i
        BY <4>1, <4>3, <4>5
      <4>7. LeapEffective[k] = E + s - passed
        BY <2>3, <3>1, <4>2, <4>3, <4>6
      <4> QED
        BY <4>2, <4>3, <4>7
    <3>2. ASSUME c < Leaps, LeapEffective[c + 1] = E + s - passed
          PROVE  \E i \in L : LeapValue(e, i) = s
      <4>1. PICK k \in Int : k = c + 1
        BY <2>1
      <4> QED
        BY <2>3, <3>2, <4>1
    <3> QED
      BY <3>1, <3>2
  <2>5. ASSUME NEW v \in Int, NEW d \in 0 .. Leaps,
               d > 0 => LeapEffective[d] <= v,
               d < Leaps => LeapEffective[d + 1] > v
        PROVE  Passed(v) = d
    <3>1. /\ Passed(v) \in 0 .. Leaps
          /\ \A i \in 1 .. Leaps : /\ LeapEffective[i] \in Nat
                                   /\ LeapEffective[i] <= v <=> i <= Passed(v)
      BY PassedFirst
    <3>2. d > 0 => d <= Passed(v)
      BY <2>5, <3>1
    <3>3. d < Leaps => ~(d + 1 <= Passed(v))
      <4>1. SUFFICES ASSUME d < Leaps PROVE ~(d + 1 <= Passed(v))
        OBVIOUS
      <4>2. d + 1 \in 1 .. Leaps
        BY <2>1, <4>1
      <4> QED
        BY <2>5, <3>1, <4>1, <4>2
    <3> QED
      BY <2>1, <3>1, <3>2, <3>3
  <2>6. c > 0 /\ c = m => LeapEffective[c] \in Nat /\ LeapEffective[c] <= E
    BY <1>2, <2>1
  <2> HIDE DEF c, folded, L
  <2> QED
    <3>1. PICK k \in Int : k = c + 1
      BY <2>1 DEF c
    <3>2. c \in 0 .. Leaps /\ c \in Int /\ c >= m
      BY <2>1 DEF c
    <3>3. CASE folded # 1
      <4>1. u = E + s - passed /\ u \in Int
        BY <1>1, <2>1, <3>3 DEF folded
      <4>2. u >= E
        <5>1. CASE passed = 0
          BY <1>1, <4>1, <5>1
        <5>2. CASE passed # 0
          <6>1. c > m
            BY <2>1, <5>2 DEF c
          <6> QED
            BY <1>1, <1>4, <2>2, <4>1, <6>1
        <5> QED
          BY <5>1, <5>2
      <4>3. c > 0 => LeapEffective[c] <= u
        <5>1. CASE c > m
          BY <2>2, <4>1, <5>1
        <5>2. CASE c = m
          BY <1>1, <2>6, <4>1, <4>2, <5>2
        <5> QED
          BY <2>1, <3>2, <5>1, <5>2
      <4>4. c < Leaps => LeapEffective[c + 1] > u
        BY <1>1, <2>1, <2>3, <2>4, <3>1, <3>3, <4>1
      <4>5. Passed(u) = c
        <5> HIDE DEF u
        <5> QED
          BY <2>5, <3>2, <4>1, <4>3, <4>4
      <4> QED
        BY <3>3, <4>1, <4>2, <4>5 DEF c
    <3>4. CASE folded = 1
      <4>1. /\ c < Leaps /\ LeapEffective[k] = E + s - passed
            /\ k \in L /\ LeapEffective[k] \in Nat /\ LeapEffective[k] > E
        BY <2>3, <2>4, <3>1, <3>4
      <4>2. u = LeapEffective[k] - 1 /\ u \in Int /\ u >= E
        BY <1>1, <2>1, <3>4, <4>1
      <4> HIDE DEF u
      <4>3. c > 0 => LeapEffective[c] <= u
        <5>1. CASE c > m
          <6>1. c \in L /\ LeapEffective[c] \in Nat
            BY <2>2, <5>1
          <6>2. LeapEffective[c] < LeapEffective[k]
            BY <1>5, <3>1, <3>2, <4>1, <6>1
          <6> QED
            BY <4>1, <4>2, <6>1, <6>2
        <5>2. CASE c = m
          BY <1>1, <2>6, <4>2, <5>2
        <5> QED
          BY <2>1, <3>2, <5>1, <5>2
      <4>4. LeapEffective[c + 1] > u
        BY <3>1, <4>1, <4>2
      <4>5. Passed(u) = c
        BY <2>5, <3>2, <4>2, <4>3, <4>4
      <4>6. Passed(u + 1) = k
        <5>1. u + 1 \in Int /\ k \in 0 .. Leaps
          BY <2>1, <3>1, <3>2, <4>1, <4>2
        <5>2. LeapEffective[k] <= u + 1
          BY <4>1, <4>2
        <5>3. k < Leaps => LeapEffective[k + 1] > u + 1
          <6>1. SUFFICES ASSUME k < Leaps PROVE LeapEffective[k + 1] > u + 1
            OBVIOUS
          <6>2. PICK l \in 1 .. Leaps : l = k + 1 /\ k < l /\ k \in 1 .. Leaps
            BY <2>1, <3>1, <3>2, <6>1
          <6>3. LeapEffective[k] < LeapEffective[k + 1] /\ LeapEffective[k + 1] \in Nat
            BY <6>2, TableInOrder
          <6> QED
            BY <4>1, <4>2, <6>3
        <5> QED
          BY <2>5, <5>1, <5>2, <5>3
      <4> QED
        BY <3>1, <4>2, <4>5, <4>6 DEF c
    <3> QED
      BY <3>3, <3>4
<1> HIDE DEF folded
<1>8. UtcCount(E) = E + m /\ UtcCount(u) = u + Passed(u) /\ UtcCount(u + 1) = u + 1 + Passed(u + 1)
  BY DEF UtcCount, Passed, m
<1>9. folded \in {0, 1}
  BY DEF folded
<1>10. UtcCount(u) <= n /\ n < UtcCount(u + 1) /\ u \in 0 .. n /\ n \in Nat
  <2>1. UtcCount(u + 1) - UtcCount(u) >= 1 /\ UtcCount(u) \in Int /\ UtcCount(u + 1) \in Int
    <3>1. u + 1 \in Int /\ u <= u + 1 /\ u + 1 <= u + 1
      BY <1>7
    <3>2. UtcCount(u + 1) \in Int
      BY <3>1, CountGrows
    <3>3. UtcCount(u) \in Int /\ UtcCount(u + 1) - UtcCount(u) >= u + 1 - u
      BY <1>7, <3>1, CountGrows
    <3> QED
      BY <1>7, <3>2, <3>3
  <2>2. passed \in Nat /\ m \in Nat
    BY <1>2, <1>6
  <2>3. UtcCount(u) = n - folded /\ n \in Nat
    BY <1>1, <1>7, <1>8, <1>9, <2>2
  <2>4. n < UtcCount(u + 1)
    <3>1. CASE folded = 0
      BY <2>1, <2>3, <3>1
    <3>2. CASE folded = 1
      <4>1. UtcCount(u + 1) = u + 1 + (m + passed + 1)
        BY <1>7, <1>8, <3>2
      <4>2. n = E + m + s
        BY <1>8
      <4> QED
        BY <1>1, <2>2, <3>2, <4>1, <4>2
    <3> QED
      BY <1>9, <3>1, <3>2
  <2>5. u \in 0 .. n
    <3>1. n = E + m + s
      BY <1>8
    <3> QED
      BY <1>1, <1>7, <1>9, <2>2, <3>1
  <2> QED
    BY <1>9, <2>3, <2>4, <2>5
<1>11. PosixLabel(n) = u
  BY <1>10, LabelUnique
<1>12. /\ VdifToTimestamp(e, s, frame) = u * FramesPerSecond + frame
       /\ ReferenceTime(e, s, frame) = PosixLabel(n) * FramesPerSecond + frame
  BY <1>0 DEF VdifToTimestamp, ReferenceTime, passed, folded, L
<1> HIDE DEF u
<1> QED
  BY <1>0, <1>1, <1>7, <1>11, <1>12


\* The time of a row is that of its first packet, less the delay of the filter.
Timed(row) ==
  LET packet == FirstPacket[row.session][row.result] IN
  row.time + PfbGroupDelay
    = ReferenceTime(ArmedEpoch[row.session], packet \div FramesPerSecond,
                    packet % FramesPerSecond)

\* The times the program can get are not so early that they are cut off at 0.
LEMMA StartTimed ==
  ASSUME session \in 1 .. MaxSessions, result \in 1 .. MaxResults
  PROVE  /\ IntegrationStart(result) \in Int
         /\ LET packet == FirstPacket[session][result]
            IN IntegrationStart(result) + PfbGroupDelay
                 = ReferenceTime(ArmedEpoch[session], packet \div FramesPerSecond,
                                 packet % FramesPerSecond)
<1>1. PICK packet : packet = FirstPacket[session][result]
  OBVIOUS
<1>2. PICK e : e = ArmedEpoch[session]
  OBVIOUS
<1>3. packet \in Nat /\ e \in Epochs /\ FramesPerSecond \in Nat \ {0}
  BY <1>1, <1>2, OutputsAssumption, TimeAssumption
<1> DEFINE s == packet \div FramesPerSecond
           f == packet % FramesPerSecond
           time == VdifToTimestamp(e, s, f)
<1>4. s \in Nat /\ f \in Nat
  BY <1>3
<1>5. /\ time = ReferenceTime(e, s, f)
      /\ \E u \in Nat : u >= EpochUnixSec[e] /\ time = u * FramesPerSecond + f
  BY <1>3, <1>4, TimestampCorrect
<1>6. PICK u \in Nat : u >= EpochUnixSec[e] /\ time = u * FramesPerSecond + f
  BY <1>5
<1>7. EpochUnixSec[e] \in Nat
  BY <1>3, TimeAssumption
<1>8. PfbGroupDelay \in Int
  <2>1. ASSUME NEW a \in Nat, NEW b \in Nat \ {0}
        PROVE  (a + b) \div (2 * b) \in Int
    OBVIOUS
  <2>2. (NumTaps - 1) * FftSize * FramesPerSecond \in Nat /\ SamplingRate \in Nat \ {0}
    <3>1. ASSUME NEW a \in Nat \ {0}, NEW b \in Nat \ {0}, NEW c \in Nat \ {0}
          PROVE  (a - 1) * b * c \in Nat
      <4>1. a - 1 \in Nat
        OBVIOUS
      <4>2. ASSUME NEW x \in Nat, NEW y \in Nat
            PROVE  x * y \in Nat
        OBVIOUS
      <4>3. (a - 1) * b \in Nat
        BY <4>1, <4>2
      <4> QED
        BY <4>2, <4>3
    <3> QED
      BY <3>1, TimeAssumption
  <2> QED
    BY <2>1, <2>2 DEF PfbGroupDelay
<1>9. PfbGroupDelay <= u * FramesPerSecond
  <2>1. PfbGroupDelay <= EpochUnixSec[e] * FramesPerSecond
    BY <1>3, DelayAssumption
  <2>2. ASSUME NEW a \in Nat, NEW b \in Nat, NEW c \in Nat, a >= b
        PROVE  a * c >= b * c
    <3>1. a * c = b * c + (a - b) * c
      OBVIOUS
    <3>2. ASSUME NEW x \in Nat, NEW y \in Nat
          PROVE  x * y \in Nat
      OBVIOUS
    <3>3. (a - b) * c \in Nat /\ b * c \in Nat
      <4>1. a - b \in Nat
        BY <2>2
      <4> QED
        BY <3>2, <4>1
    <3> QED
      BY <3>1, <3>3
  <2>3. u * FramesPerSecond >= EpochUnixSec[e] * FramesPerSecond
    BY <1>3, <1>6, <1>7, <2>2
  <2>4. u * FramesPerSecond \in Int /\ EpochUnixSec[e] * FramesPerSecond \in Int
    BY <1>3, <1>6, <1>7
  <2> QED
    BY <1>8, <2>1, <2>3, <2>4
<1>10. time \in Int /\ ~(PfbGroupDelay > time)
  <2>1. u * FramesPerSecond \in Int
    BY <1>3
  <2> HIDE DEF f, time
  <2> QED
    BY <1>4, <1>6, <1>8, <1>9, <2>1
<1>11. IntegrationStart(result) = time - PfbGroupDelay
  <2>1. IntegrationStart(result) = CompensateDelay(time, PfbGroupDelay)
    BY <1>1, <1>2 DEF IntegrationStart
  <2> QED
    BY <1>10, <2>1 DEF CompensateDelay
<1> HIDE DEF time
<1> QED
  BY <1>1, <1>2, <1>5, <1>8, <1>10, <1>11

(***************************************************************************)
(* The rows of a window.                                                   *)
(***************************************************************************)
\* A row behind those of window w.
Added(rows, row, w) == IF row.window = w THEN Append(rows, row) ELSE rows

\* f[n]: the rows of window w among the first n, up to m.
IsFirst(f, rows, w, m) ==
  f = [n \in 0 .. m |-> IF n = 0 THEN <<>> ELSE Added(f[n - 1], rows[n], w)]

\* The function of OfWindow exists, by induction on its domain.
LEMMA FirstDefined ==
  ASSUME NEW rows, NEW w, NEW n \in Nat
  PROVE  \E f : IsFirst(f, rows, w, n)
<1> DEFINE S == {m \in Nat : ~\E f : IsFirst(f, rows, w, m)}
<1>1. ASSUME S # {} PROVE FALSE
  <2>1. PICK m \in S : \A y \in S : m <= y
    <3>1. S \subseteq Nat
      OBVIOUS
    <3> HIDE DEF S
    <3> QED
      BY <1>1, <3>1, LeastElement
  <2>2. m \in Nat /\ ~\E f : IsFirst(f, rows, w, m)
    BY <2>1
  <2>3. CASE m = 0
    <3> DEFINE f == [i \in 0 .. 0 |-> <<>>]
    <3>1. IsFirst(f, rows, w, 0)
      BY DEF IsFirst
    <3> QED
      BY <2>2, <2>3, <3>1
  <2>4. CASE m # 0
    <3>1. PICK k \in Nat : m = k + 1
      <4>1. m - 1 \in Nat /\ m = (m - 1) + 1
        BY <2>2, <2>4
      <4> QED
        BY <4>1
    <3>2. k \notin S
      BY <2>1, <3>1
    <3>3. PICK h : IsFirst(h, rows, w, k)
      BY <3>2
    <3> DEFINE f == [i \in 0 .. k + 1 |-> IF i = k + 1 THEN Added(h[k], rows[k + 1], w)
                                                       ELSE h[i]]
    <3>4. \A i \in 0 .. k : f[i] = h[i]
      OBVIOUS
    <3>5. f[k + 1] = Added(h[k], rows[k + 1], w)
      OBVIOUS
    <3>6. \A i \in 0 .. k : h[i] = IF i = 0 THEN <<>> ELSE Added(h[i - 1], rows[i], w)
      BY <3>3 DEF IsFirst
    <3>7. ASSUME NEW i \in 0 .. k + 1
          PROVE  f[i] = IF i = 0 THEN <<>> ELSE Added(f[i - 1], rows[i], w)
      <4>1. CASE i = k + 1
        <5>1. i # 0 /\ i - 1 = k /\ k \in 0 .. k
          BY <4>1
        <5>2. f[k] = h[k]
          BY <3>4, <5>1
        <5> HIDE DEF f
        <5> QED
          BY <4>1, <5>1, <5>2, <3>5
      <4>2. CASE i # k + 1
        <5>1. i \in 0 .. k /\ (i # 0 => i - 1 \in 0 .. k)
          BY <4>2
        <5>2. f[i] = h[i] /\ (i # 0 => f[i - 1] = h[i - 1])
          BY <3>4, <5>1
        <5> HIDE DEF f
        <5> QED
          BY <3>6, <5>1, <5>2
      <4> QED
        BY <4>1, <4>2
    <3>8. f = [i \in 0 .. k + 1 |-> f[i]]
      OBVIOUS
    <3> HIDE DEF f
    <3>9. IsFirst(f, rows, w, k + 1)
      BY <3>7, <3>8 DEF IsFirst
    <3> QED
      BY <2>2, <3>1, <3>9
  <2> QED
    BY <2>3, <2>4
<1> QED
  BY <1>1

\* OfWindow is what that function says of all the rows.
LEMMA OfWindowByFirst ==
  ASSUME NEW rows, Len(rows) \in Nat, NEW w
  PROVE  \E f : IsFirst(f, rows, w, Len(rows)) /\ OfWindow(rows, w) = f[Len(rows)]
<1> DEFINE is(f) == f = [n \in 0 .. Len(rows) |->
                           IF n = 0 THEN <<>> ELSE
                           IF rows[n].window = w THEN Append(f[n - 1], rows[n]) ELSE f[n - 1]]
           f == CHOOSE g : is(g)
<1>1. PICK g : IsFirst(g, rows, w, Len(rows))
  BY FirstDefined
<1>2. is(g)
  BY <1>1 DEF IsFirst, Added
<1>3. is(f)
  <2> HIDE DEF is
  <2> QED
    BY <1>2
<1>4. OfWindow(rows, w) = f[Len(rows)]
  BY DEF OfWindow
<1>5. IsFirst(f, rows, w, Len(rows))
  <2> HIDE DEF f
  <2> QED
    BY <1>3 DEF IsFirst, Added
<1> HIDE DEF f
<1> QED
  BY <1>4, <1>5

\* To append to the second of two sequences is to append to both together.
LEMMA AppendConcat ==
  ASSUME NEW R, NEW s \in Seq(R), NEW t \in Seq(R), NEW x \in R
  PROVE  Append(s \o t, x) = s \o Append(t, x) /\ Append(t, x) \in Seq(R)
<1>1. Append(t, x) = t \o <<x>> /\ <<x>> \in Seq(R) /\ Append(t, x) \in Seq(R)
  BY AppendIsConcat
<1>2. s \o t \in Seq(R)
  BY ConcatProperties
<1>3. Append(s \o t, x) = (s \o t) \o <<x>>
  BY <1>2, AppendIsConcat
<1>4. (s \o t) \o <<x>> = s \o (t \o <<x>>)
  BY <1>1, ConcatAssociative
<1> QED
  BY <1>1, <1>3, <1>4

\* What a recursion step of a selection says.
LEMMA FirstStep ==
  ASSUME NEW f, NEW rows, NEW w, NEW m \in Nat, IsFirst(f, rows, w, m)
  PROVE  f[0] = <<>> /\ \A n \in 0 .. m - 1 : f[n + 1] = Added(f[n], rows[n + 1], w)
<1>1. \A i \in 0 .. m : f[i] = IF i = 0 THEN <<>> ELSE Added(f[i - 1], rows[i], w)
  BY DEF IsFirst
<1>2. ASSUME NEW n \in 0 .. m - 1
      PROVE  f[n + 1] = Added(f[n], rows[n + 1], w)
  <2>1. PICK i : i = n + 1
    OBVIOUS
  <2>2. i \in 0 .. m /\ i # 0 /\ i - 1 = n
    BY <2>1
  <2> QED
    BY <1>1, <2>1, <2>2
<1> QED
  BY <1>1, <1>2

Joined(a, b) == a \o b

\* The selection from two queues, one behind the other.
LEMMA OfWindowJoined ==
  ASSUME NEW R, NEW a \in Seq(R), NEW b \in Seq(R), NEW w
  PROVE  /\ OfWindow(a, w) \in Seq(R)
         /\ OfWindow(Joined(a, b), w) = Joined(OfWindow(a, w), OfWindow(b, w))
<1>1. PICK c : c = a \o b
  OBVIOUS
<1>2. PICK d : d = Len(a)
  OBVIOUS
<1>3. PICK l : l = Len(b)
  OBVIOUS
<1>4. PICK m : m = Len(c)
  OBVIOUS
<1>5. /\ d \in Nat /\ l \in Nat /\ m \in Nat /\ m = d + l
      /\ \A n \in 1 .. d : c[n] = a[n] /\ a[n] \in R
      /\ \A n \in 1 .. l : c[d + n] = b[n] /\ b[n] \in R
  <2>1. /\ Len(c) = Len(a) + Len(b)
        /\ \A i \in 1 .. Len(a) + Len(b) : c[i] = IF i <= Len(a) THEN a[i] ELSE b[i - Len(a)]
    BY <1>1, ConcatProperties
  <2>2. d \in Nat /\ l \in Nat /\ m \in Nat /\ m = d + l
    BY <1>2, <1>3, <1>4, <2>1
  <2>3. ASSUME NEW n \in 1 .. d
        PROVE  c[n] = a[n] /\ a[n] \in R
    BY <1>2, <1>3, <2>1, <2>2
  <2>4. ASSUME NEW n \in 1 .. l
        PROVE  c[d + n] = b[n] /\ b[n] \in R
    <3>1. PICK i : i = d + n
      OBVIOUS
    <3>2. i \in 1 .. Len(a) + Len(b) /\ ~(i <= Len(a)) /\ i - Len(a) = n
      BY <1>2, <1>3, <2>2, <3>1
    <3>3. b[n] \in R
      BY <1>3, <2>2
    <3> QED
      BY <2>1, <3>1, <3>2, <3>3
  <2> QED
    BY <2>2, <2>3, <2>4
<1>6. PICK h : IsFirst(h, a, w, d) /\ OfWindow(a, w) = h[d]
  BY <1>2, <1>5, OfWindowByFirst
<1>7. PICK f : IsFirst(f, b, w, l) /\ OfWindow(b, w) = f[l]
  BY <1>3, <1>5, OfWindowByFirst
<1>8. PICK g : IsFirst(g, c, w, m) /\ OfWindow(c, w) = g[m]
  BY <1>4, <1>5, OfWindowByFirst, ZenonT(30)
<1>9. h[0] = <<>> /\ \A n \in 0 .. d - 1 : h[n + 1] = Added(h[n], a[n + 1], w)
  BY <1>5, <1>6, FirstStep
<1>10. f[0] = <<>> /\ \A n \in 0 .. l - 1 : f[n + 1] = Added(f[n], b[n + 1], w)
  BY <1>5, <1>7, FirstStep
<1>11. g[0] = <<>> /\ \A n \in 0 .. m - 1 : g[n + 1] = Added(g[n], c[n + 1], w)
  BY <1>5, <1>8, FirstStep
\* Up to the end of the first queue.
<1>12. h[d] \in Seq(R) /\ g[d] = h[d]
  <2> DEFINE ok(n) == h[n] \in Seq(R) /\ g[n] = h[n]
             S == {n \in 0 .. d : ~ok(n)}
  <2>1. ASSUME S # {} PROVE FALSE
    <3>1. PICK n \in S : \A y \in S : n <= y
      <4>1. S \subseteq Nat
        <5> HIDE DEF ok
        <5> QED
          BY <1>5
      <4> HIDE DEF S
      <4> QED
        BY <2>1, <4>1, LeastElement
    <3>2. n \in 0 .. d /\ ~ok(n)
      BY <3>1
    <3>3. n # 0
      <4>1. ok(0)
        BY <1>9, <1>11
      <4> HIDE DEF ok
      <4> QED
        BY <3>2, <4>1
    <3>4. PICK k \in Nat : n = k + 1
      <4>1. n - 1 \in Nat /\ n = (n - 1) + 1
        BY <1>5, <3>2, <3>3
      <4> QED
        BY <4>1
    <3>5. k \in 0 .. d /\ k \in 0 .. d - 1 /\ k \in 0 .. m - 1 /\ n \in 1 .. d
      BY <1>5, <3>2, <3>4
    <3>6. k \notin S
      <4> HIDE DEF S
      <4> QED
        BY <3>1, <3>4
    <3>7. ok(k)
      <4> HIDE DEF ok
      <4> QED
        BY <3>5, <3>6
    <3>8. h[n] = Added(h[k], a[n], w) /\ g[n] = Added(g[k], c[n], w)
      BY <1>9, <1>11, <3>4, <3>5
    <3>9. c[n] = a[n] /\ a[n] \in R
      BY <1>5, <3>5
    <3>10. Added(h[k], a[n], w) \in Seq(R)
      BY <3>7, <3>9 DEF Added
    <3>11. ok(n)
      BY <3>7, <3>8, <3>9, <3>10
    <3> QED
      BY <3>2, <3>11
  <2>2. ok(d)
    <3> HIDE DEF ok
    <3> QED
      BY <1>5, <2>1
  <2> QED
    BY <2>2
\* From there on.
<1>13. g[m] = h[d] \o f[l]
  <2> DEFINE ok(n) == f[n] \in Seq(R) /\ g[d + n] = h[d] \o f[n]
             S == {n \in 0 .. l : ~ok(n)}
  <2>1. ASSUME S # {} PROVE FALSE
    <3>1. PICK n \in S : \A y \in S : n <= y
      <4>1. S \subseteq Nat
        <5> HIDE DEF ok
        <5> QED
          BY <1>5
      <4> HIDE DEF S
      <4> QED
        BY <2>1, <4>1, LeastElement
    <3>2. n \in 0 .. l /\ ~ok(n)
      BY <3>1
    <3>3. n # 0
      <4>1. d + 0 = d
        BY <1>5
      <4>2. h[d] = h[d] \o <<>> /\ <<>> \in Seq(R)
        BY <1>12
      <4>3. ok(0)
        BY <1>10, <1>12, <4>1, <4>2
      <4> HIDE DEF ok
      <4> QED
        BY <3>2, <4>3
    <3>4. PICK k \in Nat : n = k + 1
      <4>1. n - 1 \in Nat /\ n = (n - 1) + 1
        BY <1>5, <3>2, <3>3
      <4> QED
        BY <4>1
    <3>5. k \in 0 .. l /\ k \in 0 .. l - 1 /\ d + k \in 0 .. m - 1 /\ n \in 1 .. l
          /\ (d + k) + 1 = d + n
      BY <1>5, <3>2, <3>4
    <3>6. k \notin S
      <4> HIDE DEF S
      <4> QED
        BY <3>1, <3>4
    <3>7. ok(k)
      <4> HIDE DEF ok
      <4> QED
        BY <3>5, <3>6
    <3>8. f[n] = Added(f[k], b[n], w) /\ g[d + n] = Added(g[d + k], c[d + n], w)
      <4>1. f[n] = Added(f[k], b[n], w)
        BY <1>10, <3>4, <3>5
      <4>2. PICK i : i = d + k
        OBVIOUS
      <4>3. i \in 0 .. m - 1 /\ i + 1 = d + n
        BY <3>5, <4>2
      <4>4. g[i + 1] = Added(g[i], c[i + 1], w)
        BY <1>11, <4>3
      <4> QED
        BY <4>1, <4>2, <4>3, <4>4
    <3>9. c[d + n] = b[n] /\ b[n] \in R
      BY <1>5, <3>5
    <3>10. PICK q : q = f[k]
      OBVIOUS
    <3>11. PICK p : p = h[d]
      OBVIOUS
    <3>12. PICK x : x = b[n]
      OBVIOUS
    <3>13. q \in Seq(R) /\ p \in Seq(R) /\ x \in R /\ g[d + k] = p \o q
      BY <1>12, <3>7, <3>9, <3>10, <3>11, <3>12
    <3>14. Added(p \o q, x, w) = p \o Added(q, x, w) /\ Added(q, x, w) \in Seq(R)
      <4>1. Append(p \o q, x) = p \o Append(q, x) /\ Append(q, x) \in Seq(R)
        BY <3>13, AppendConcat
      <4> QED
        BY <3>13, <4>1 DEF Added
    <3>15. ok(n)
      BY <3>8, <3>9, <3>10, <3>11, <3>12, <3>13, <3>14
    <3> QED
      BY <3>2, <3>15
  <2>2. ok(l)
    <3> HIDE DEF ok
    <3> QED
      BY <1>5, <2>1
  <2> QED
    BY <1>5, <2>2
<1> QED
  BY <1>1, <1>6, <1>7, <1>8, <1>12, <1>13 DEF Joined

\* There is nothing to select in an empty queue.
LEMMA OfWindowEmpty ==
  ASSUME NEW w
  PROVE  OfWindow(<<>>, w) = <<>>
<1>1. Len(<<>>) = 0
  OBVIOUS
<1>2. PICK f : IsFirst(f, <<>>, w, 0) /\ OfWindow(<<>>, w) = f[0]
  BY <1>1, OfWindowByFirst
<1> QED
  BY <1>2 DEF IsFirst

\* A queue of one row.
LEMMA OfWindowOne ==
  ASSUME NEW row, NEW w
  PROVE  OfWindow(<<row>>, w) = Added(<<>>, row, w)
<1>1. PICK q : q = <<row>>
  OBVIOUS
<1>2. Len(q) = 1 /\ q[1] = row /\ Len(q) \in Nat
  BY <1>1
<1>3. PICK f : IsFirst(f, q, w, 1) /\ OfWindow(q, w) = f[1]
  <2>1. PICK f : IsFirst(f, q, w, Len(q)) /\ OfWindow(q, w) = f[Len(q)]
    BY <1>2, OfWindowByFirst
  <2> QED
    BY <1>2, <2>1
<1>4. f[0] = <<>> /\ \A n \in 0 .. 1 - 1 : f[n + 1] = Added(f[n], q[n + 1], w)
  BY <1>3, FirstStep
<1>5. f[1] = Added(f[0], q[1], w)
  BY <1>4
<1> QED
  BY <1>1, <1>2, <1>3, <1>4, <1>5

\* The selection from a queue with one more row, and without its first row.
LEMMA OfWindowAppend ==
  ASSUME NEW R, NEW rows \in Seq(R), NEW row \in R, NEW w
  PROVE  /\ OfWindow(rows, w) \in Seq(R)
         /\ OfWindow(Append(rows, row), w) = OfWindow(rows, w) \o Added(<<>>, row, w)
<1>1. PICK q : q = <<row>>
  OBVIOUS
<1>2. q \in Seq(R) /\ Append(rows, row) = rows \o q
  BY <1>1, AppendIsConcat
<1>3. /\ OfWindow(rows, w) \in Seq(R)
      /\ OfWindow(Joined(rows, q), w) = Joined(OfWindow(rows, w), OfWindow(q, w))
  BY <1>2, OfWindowJoined
<1>4. OfWindow(q, w) = Added(<<>>, row, w)
  BY <1>1, OfWindowOne
<1> QED
  BY <1>2, <1>3, <1>4 DEF Joined

\* The selection without the first row of the queue.
LEMMA OfWindowTail ==
  ASSUME NEW R, NEW rows \in Seq(R), rows # <<>>, NEW w
  PROVE  /\ OfWindow(rows, w) = Added(<<>>, Head(rows), w) \o OfWindow(Tail(rows), w)
         /\ OfWindow(Tail(rows), w) \in Seq(R)
<1>1. PICK t : t = Tail(rows)
  OBVIOUS
<1>2. PICK row : row = Head(rows)
  OBVIOUS
<1>3. PICK q : q = <<row>>
  OBVIOUS
<1>4. row \in R /\ t \in Seq(R) /\ q \in Seq(R)
  BY <1>1, <1>2, <1>3
<1>5. rows = q \o t
  BY <1>1, <1>2, <1>3
<1>6. OfWindow(Joined(q, t), w) = Joined(OfWindow(q, w), OfWindow(t, w))
  BY <1>4, OfWindowJoined
<1>7. OfWindow(t, w) \in Seq(R)
  BY <1>4, OfWindowJoined
<1>8. OfWindow(q, w) = Added(<<>>, row, w)
  BY <1>3, OfWindowOne
<1> QED
  BY <1>1, <1>2, <1>5, <1>6, <1>7, <1>8 DEF Joined


(***************************************************************************)
(* The rows that were accepted.                                            *)
(***************************************************************************)
Rows == [window : Windows, session : Int, result : Int, integration_id : Int, time : Int]

\* The result that window w gets a row of next, or whose row is being sent.
NextResult(w) == result + IF \E i \in 1 .. win - 1 : WindowOrder[i] = w THEN 1 ELSE 0

\* The row of that result has been offered already.
Offered(w) == IF step \in {"number", "send"} /\ Window = w THEN 1 ELSE 0

\* integration_id starts at 0 in every session: by this it differs from the
\* number of the result.
Offset(w) == NextResult(w) - integration_id[w]

Limit(w) == NextResult(w) + Offered(w)

SendTypes ==
  /\ integration_id \in [Windows -> Int] /\ accepted \in [Windows -> Seq(Rows)]
  /\ result \in Nat \ {0} /\ session \in 1 .. MaxSessions
  /\ win \in 1 .. Len(WindowOrder)

\* A row as send_data() makes it in this session.
Proper(row, w) ==
  /\ row.window = w /\ row.session = session
  /\ row.result - row.integration_id = Offset(w)
  /\ row.result < Limit(w)
  /\ Timed(row)

InSequence(w) ==
  /\ \A i \in 1 .. Len(accepted[w]) : Proper(accepted[w][i], w)
  /\ \A i, j \in 1 .. Len(accepted[w]) :
       i < j => accepted[w][i].result < accepted[w][j].result

AcceptedInv ==
  /\ SendTypes
  /\ \A w \in Windows : InSequence(w)
  /\ ~alive => accepted = [w \in Windows |-> <<>>] /\ win = 1

\* What the assumption says of the order of the windows.
LEMMA OrderFacts ==
  /\ WindowOrder \in Seq(Windows) /\ Len(WindowOrder) \in Nat \ {0}
  /\ \A i \in 1 .. Len(WindowOrder) : WindowOrder[i] \in Windows
  /\ \A w \in Windows : \E i \in 1 .. Len(WindowOrder) : WindowOrder[i] = w
  /\ \A i, j \in 1 .. Len(WindowOrder) : WindowOrder[i] = WindowOrder[j] => i = j
<1>1. WindowOrder \in Seq(Windows) /\ WindowOrder # <<>>
  BY OutputsAssumption
<1>2. DOMAIN WindowOrder = 1 .. Len(WindowOrder) /\ Len(WindowOrder) \in Nat \ {0}
  BY <1>1
<1>3. \A i \in 1 .. Len(WindowOrder) : WindowOrder[i] \in Windows
  BY <1>1
<1>4. \A w \in Windows : \E i \in 1 .. Len(WindowOrder) : WindowOrder[i] = w
  BY <1>2, OutputsAssumption
<1>5. \A i, j \in 1 .. Len(WindowOrder) : WindowOrder[i] = WindowOrder[j] => i = j
  BY <1>2, OutputsAssumption
<1> QED
  BY <1>1, <1>2, <1>3, <1>4, <1>5

\* The numbers of the next row of a window are numbers.
LEMMA NumbersTyped ==
  SendTypes => /\ Window \in Windows
               /\ \A w \in Windows : /\ NextResult(w) \in Int /\ Offset(w) \in Int
                                     /\ Offered(w) \in {0, 1} /\ Limit(w) \in Int
<1> SUFFICES ASSUME SendTypes
             PROVE  /\ Window \in Windows
                    /\ \A w \in Windows : /\ NextResult(w) \in Int /\ Offset(w) \in Int
                                          /\ Offered(w) \in {0, 1} /\ Limit(w) \in Int
  OBVIOUS
<1>1. Window \in Windows
  BY OrderFacts DEF SendTypes, Window
<1>2. ASSUME NEW w \in Windows
      PROVE  /\ NextResult(w) \in Int /\ Offset(w) \in Int
             /\ Offered(w) \in {0, 1} /\ Limit(w) \in Int
  <2>1. NextResult(w) \in Int
    BY DEF SendTypes, NextResult
  <2>2. integration_id[w] \in Int
    BY DEF SendTypes
  <2>3. Offered(w) \in {0, 1}
    BY DEF Offered
  <2> QED
    BY <2>1, <2>2, <2>3 DEF Offset, Limit
<1> QED
  BY <1>1, <1>2

\* The same in the next state.
LEMMA NumbersTypedNext ==
  ( SendTypes => /\ Window \in Windows
                 /\ \A w \in Windows : /\ NextResult(w) \in Int /\ Offset(w) \in Int
                                       /\ Offered(w) \in {0, 1} /\ Limit(w) \in Int )'
  BY NumbersTyped, PTL

\* A step that accepts nothing and takes no number back.
LEMMA AcceptedAlone ==
  ASSUME AcceptedInv, SendTypes', accepted' = accepted, session' = session,
         \A w \in Windows : Offset(w)' = Offset(w) /\ Limit(w)' >= Limit(w),
         alive', NEW w \in Windows
  PROVE  InSequence(w)'
<1>1. SendTypes /\ InSequence(w)
  BY DEF AcceptedInv
<1>2. Offset(w) \in Int /\ Limit(w) \in Int /\ Limit(w)' \in Int
  <2>1. Offset(w) \in Int /\ Limit(w) \in Int
    BY <1>1, NumbersTyped
  <2>2. Limit(w)' \in Int
    BY NumbersTypedNext
  <2> QED
    BY <2>1, <2>2
<1>3. ASSUME NEW i \in 1 .. Len(accepted[w])
      PROVE  Proper(accepted[w][i], w)'
  <2>1. PICK row : row = accepted[w][i]
    OBVIOUS
  <2>2. row \in Rows
    BY <1>1, <2>1 DEF SendTypes
  <2>3. Proper(row, w)
    BY <1>1, <2>1 DEF InSequence
  <2>4. row.result \in Int
    BY <2>2 DEF Rows
  <2>5. /\ row.window = w /\ row.session = session'
        /\ row.result - row.integration_id = Offset(w)' /\ row.result < Limit(w)'
        /\ Timed(row)
    BY <1>2, <2>3, <2>4 DEF Proper
  <2>6. accepted'[w][i] = row
    BY <2>1
  <2> QED
    BY <2>5, <2>6 DEF Proper, Timed
<1>4. \A i, j \in 1 .. Len(accepted[w]) :
        i < j => accepted[w][i].result < accepted[w][j].result
  BY <1>1 DEF InSequence
<1> QED
  BY <1>3, <1>4 DEF InSequence

\* On to the next window, or to the first one of the next result.
LEMMA WindowDone ==
  ASSUME SendTypes, NextWindow, step \in {"number", "send"}, accepted' = accepted,
         session' = session
  PROVE  /\ SendTypes'
         /\ \A w \in Windows : Offset(w)' = Offset(w) /\ Limit(w)' >= Limit(w)
<1> DEFINE v == Window
           l == Len(WindowOrder)
<1>1. /\ integration_id' = [integration_id EXCEPT ![v] = @ + 1] /\ step' = "enqueue"
      /\ \/ win < l /\ win' = win + 1 /\ result' = result
         \/ ~(win < l) /\ win' = 1 /\ result' = result + 1
  BY DEF NextWindow
<1>2. v \in Windows /\ win \in 1 .. l /\ l \in Nat \ {0} /\ v = WindowOrder[win]
      /\ result \in Nat \ {0}
  BY NumbersTyped, OrderFacts DEF SendTypes, Window
<1>3. SendTypes'
  <2>1. integration_id' \in [Windows -> Int]
    BY <1>1, <1>2 DEF SendTypes
  <2>2. win' \in 1 .. l /\ result' \in Nat \ {0}
    BY <1>1, <1>2
  <2> QED
    BY <2>1, <2>2 DEF SendTypes
<1> HIDE DEF v
<1>4. ASSUME NEW w \in Windows
      PROVE  Offset(w)' = Offset(w) /\ Limit(w)' >= Limit(w)
  <2>1. /\ NextResult(w) \in Int /\ Offered(w) \in {0, 1} /\ integration_id[w] \in Int
        /\ NextResult(w)' \in Int
    BY <1>3, NumbersTyped, NumbersTypedNext DEF SendTypes
  <2>2. Offered(w)' = 0 /\ Offered(w) = IF w = v THEN 1 ELSE 0
    BY <1>1 DEF Offered, v
  <2>3. integration_id'[w] = IF w = v THEN integration_id[w] + 1 ELSE integration_id[w]
    BY <1>1 DEF SendTypes
  <2>4. NextResult(w)' = IF w = v THEN NextResult(w) + 1 ELSE NextResult(w)
    <3> DEFINE done == \E i \in 1 .. win - 1 : WindowOrder[i] = w
               done1 == \E i \in 1 .. win' - 1 : WindowOrder[i] = w
    <3>1. /\ NextResult(w) = result + IF done THEN 1 ELSE 0
          /\ NextResult(w)' = result' + IF done1 THEN 1 ELSE 0
      BY DEF NextResult
    <3>2. w = v => ~done
      <4>1. SUFFICES ASSUME w = v, NEW i \in 1 .. win - 1, WindowOrder[i] = w PROVE FALSE
        OBVIOUS
      <4>2. i \in 1 .. l /\ win \in 1 .. l /\ i # win
        BY <1>2
      <4> QED
        BY <1>2, <4>1, <4>2, OrderFacts
    <3>3. CASE win < l
      <4>1. win' = win + 1 /\ result' = result
        BY <1>1, <3>3
      <4>2. done1 <=> done \/ w = v
        <5>1. 1 .. win' - 1 = (1 .. win - 1) \cup {win}
          BY <1>2, <4>1
        <5> QED
          BY <1>2, <5>1
      <4> HIDE DEF done, done1
      <4> QED
        BY <1>2, <3>1, <3>2, <4>1, <4>2
    <3>4. CASE ~(win < l)
      <4>1. win' = 1 /\ result' = result + 1 /\ win = l
        BY <1>1, <1>2, <3>4
      <4>2. ~done1
        BY <4>1
      <4>3. w # v => done
        <5>1. PICK i \in 1 .. l : WindowOrder[i] = w
          BY OrderFacts
        <5>2. w # v => i # win
          BY <1>2, <5>1
        <5>3. w # v => i \in 1 .. win - 1
          BY <1>2, <4>1, <5>2
        <5> QED
          BY <5>1, <5>3
      <4> HIDE DEF done, done1
      <4> QED
        BY <1>2, <3>1, <3>2, <4>1, <4>2, <4>3
    <3> QED
      BY <3>3, <3>4
  <2>5. Offset(w)' = Offset(w)
    <3>1. /\ Offset(w)' = NextResult(w)' - integration_id'[w]
          /\ Offset(w) = NextResult(w) - integration_id[w]
      BY DEF Offset
    <3> QED
      BY <2>1, <2>3, <2>4, <3>1
  <2>6. Limit(w)' >= Limit(w)
    <3>1. Limit(w)' = NextResult(w)' + Offered(w)' /\ Limit(w) = NextResult(w) + Offered(w)
      BY DEF Limit
    <3> QED
      BY <2>1, <2>2, <2>4, <3>1
  <2> QED
    BY <2>5, <2>6
<1> QED
  BY <1>3, <1>4

\* enqueue() is called for a window and accepts the row.
LEMMA RowAccepted ==
  ASSUME AcceptedInv, alive, step = "enqueue", result <= MaxResults, step' = "number",
         accepted' = [accepted EXCEPT ![Window] = Append(@, Row)],
         UNCHANGED <<result, win, integration_id, session, alive>>
  PROVE  AcceptedInv' /\ Row \in Rows
<1> DEFINE v == Window
<1>1. SendTypes /\ v \in Windows /\ result \in Nat \ {0}
  BY NumbersTyped DEF AcceptedInv, SendTypes
<1>2. result \in 1 .. MaxResults /\ session \in 1 .. MaxSessions
  BY <1>1, OutputsAssumption DEF SendTypes
<1>3. PICK time : time = IntegrationStart(result)
  OBVIOUS
<1>4. time \in Int
  BY <1>2, <1>3, StartTimed
<1>5. PICK row : row = Row
  OBVIOUS
<1>6. row = [window |-> v, session |-> session, result |-> result,
             integration_id |-> integration_id[v], time |-> time]
  BY <1>3, <1>5 DEF Row
<1>7. integration_id[v] \in Int /\ session \in Int
  BY <1>1 DEF SendTypes
<1>8. row \in Rows
  BY <1>1, <1>4, <1>6, <1>7 DEF Rows
<1>9. Timed(row)
  <2>1. row.session = session /\ row.result = result /\ row.time = IntegrationStart(result)
    BY <1>3, <1>6
  <2>2. LET packet == FirstPacket[session][result]
        IN IntegrationStart(result) + PfbGroupDelay
             = ReferenceTime(ArmedEpoch[session], packet \div FramesPerSecond,
                             packet % FramesPerSecond)
    BY <1>2, StartTimed
  <2> QED
    BY <2>1, <2>2 DEF Timed
<1>10. accepted' = [accepted EXCEPT ![v] = Append(@, row)]
  BY <1>5
<1> HIDE DEF v
<1>11. SendTypes'
  BY <1>1, <1>8, <1>10 DEF SendTypes
<1>12. NextResult(v) = result
  <2>1. SUFFICES ASSUME NEW i \in 1 .. win - 1, WindowOrder[i] = v PROVE FALSE
    BY <1>1 DEF NextResult
  <2>2. win \in 1 .. Len(WindowOrder)
    BY <1>1 DEF SendTypes
  <2>3. i \in 1 .. Len(WindowOrder) /\ i # win
    BY <2>2, OrderFacts
  <2> QED
    BY <2>1, <2>2, <2>3, OrderFacts DEF v, Window
<1>13. ASSUME NEW w \in Windows
       PROVE  /\ Offset(w)' = Offset(w) /\ Offset(w) \in Int
              /\ Limit(w) = NextResult(w) /\ NextResult(w) \in Int
              /\ Limit(w)' = NextResult(w) + IF w = v THEN 1 ELSE 0
  <2>1. NextResult(w)' = NextResult(w) /\ NextResult(w) \in Int /\ Offset(w) \in Int
    BY <1>1, NumbersTyped DEF NextResult
  <2>2. Offered(w) = 0 /\ Offered(w)' = IF w = v THEN 1 ELSE 0
    BY DEF Offered, v, Window
  <2> QED
    BY <2>1, <2>2 DEF Offset, Limit
<1>14. ASSUME NEW w \in Windows
       PROVE  InSequence(w)'
  <2>1. CASE w # v
    <3>1. accepted'[w] = accepted[w]
      BY <1>1, <1>10, <2>1 DEF SendTypes
    <3>2. InSequence(w)
      BY DEF AcceptedInv
    <3>3. ASSUME NEW i \in 1 .. Len(accepted[w])
          PROVE  Proper(accepted[w][i], w)'
      <4>1. PICK r : r = accepted[w][i]
        OBVIOUS
      <4>2. Proper(r, w)
        BY <3>2, <4>1 DEF InSequence
      <4>3. Proper(r, w)'
        <5>1. Limit(w)' = Limit(w) /\ Offset(w)' = Offset(w)
          BY <1>13, <2>1
        <5> QED
          BY <4>2, <5>1 DEF Proper, Timed
      <4>4. accepted'[w][i] = r
        BY <3>1, <4>1
      <4> QED
        BY <4>3, <4>4 DEF Proper, Timed
    <3>4. \A i, j \in 1 .. Len(accepted[w]) :
            i < j => accepted[w][i].result < accepted[w][j].result
      BY <3>2 DEF InSequence
    <3> QED
      BY <3>1, <3>3, <3>4 DEF InSequence
  <2>2. CASE w = v
    <3>1. accepted[w] \in Seq(Rows) /\ InSequence(w)
      BY <1>1 DEF AcceptedInv, SendTypes
    <3>2. PICK n : n = Len(accepted[w])
      OBVIOUS
    <3>3. /\ n \in Nat /\ Len(accepted'[w]) = n + 1 /\ accepted'[w][n + 1] = row
          /\ \A i \in 1 .. n : accepted'[w][i] = accepted[w][i] /\ accepted[w][i] \in Rows
      <4>1. accepted'[w] = Append(accepted[w], row)
        BY <1>1, <1>10, <2>2 DEF SendTypes
      <4> QED
        BY <1>8, <3>1, <3>2, <4>1
    <3>4. ASSUME NEW i \in 1 .. n
          PROVE  /\ accepted'[w][i].result < result /\ accepted'[w][i].result \in Int
                 /\ Proper(accepted[w][i], w)'
      <4>1. PICK r : r = accepted[w][i]
        OBVIOUS
      <4>2. Proper(r, w)
        BY <3>1, <3>2, <4>1 DEF InSequence
      <4>3. r \in Rows /\ r.result \in Int
        BY <3>3, <4>1 DEF Rows
      <4>4. r.result < result
        BY <1>12, <1>13, <2>2, <4>2 DEF Proper
      <4>5. Proper(r, w)'
        <5>1. r.result < Limit(w)' /\ Offset(w)' = Offset(w)
          BY <1>1, <1>12, <1>13, <2>2, <4>3, <4>4
        <5> QED
          BY <4>2, <5>1 DEF Proper, Timed
      <4>6. accepted'[w][i] = r
        BY <3>3, <4>1
      <4> QED
        BY <4>3, <4>4, <4>5, <4>6 DEF Proper, Timed
    <3>5. Proper(accepted[w][n + 1], w)'
      <4>1. /\ row.window = w /\ row.session = session' /\ row.result = result
            /\ row.integration_id = integration_id[w]
        BY <1>6, <2>2
      <4>2. Offset(w)' = result - integration_id[w] /\ Limit(w)' = result + 1
        <5>1. Offset(w) = result - integration_id[w]
          BY <1>12, <2>2 DEF Offset
        <5> QED
          BY <1>12, <1>13, <2>2, <5>1
      <4>3. row.result - row.integration_id = Offset(w)' /\ row.result < Limit(w)'
        BY <1>1, <4>1, <4>2
      <4>4. accepted'[w][n + 1] = row
        BY <3>3
      <4> QED
        BY <1>9, <4>1, <4>3, <4>4 DEF Proper, Timed
    <3>6. ASSUME NEW i \in 1 .. n + 1, NEW j \in 1 .. n + 1, i < j
          PROVE  accepted'[w][i].result < accepted'[w][j].result
      <4>1. i \in 1 .. n
        BY <3>3, <3>6
      <4>2. CASE j = n + 1
        <5>1. accepted'[w][j].result = result
          BY <1>6, <3>3, <4>2
        <5> QED
          BY <3>4, <4>1, <5>1
      <4>3. CASE j # n + 1
        <5>1. j \in 1 .. n
          BY <3>3, <4>3
        <5>2. accepted[w][i].result < accepted[w][j].result
          BY <3>1, <3>2, <3>6, <4>1, <5>1 DEF InSequence
        <5> QED
          BY <3>3, <4>1, <5>1, <5>2
      <4> QED
        BY <4>2, <4>3
    <3>7. ASSUME NEW i \in 1 .. n + 1
          PROVE  Proper(accepted[w][i], w)'
      <4>1. i \in 1 .. n \/ i = n + 1
        BY <3>3
      <4> QED
        BY <3>4, <3>5, <4>1
    <3> QED
      BY <3>3, <3>6, <3>7 DEF InSequence
  <2> QED
    BY <2>1, <2>2
<1> QED
  BY <1>5, <1>8, <1>11, <1>14 DEF AcceptedInv

\* A step that leaves the rows and numbers alone.
LEMMA AcceptedAside ==
  ASSUME AcceptedInv, alive, alive',
         UNCHANGED <<accepted, session, result, win, integration_id>>,
         step' = step \/ {step, step'} \subseteq {"prepare", "enqueue"}
                      \/ {step, step'} \subseteq {"number", "send"}
  PROVE  AcceptedInv'
<1>1. SendTypes /\ SendTypes'
  BY DEF AcceptedInv, SendTypes
<1>2. ASSUME NEW w \in Windows
      PROVE  Offset(w)' = Offset(w) /\ Limit(w)' >= Limit(w)
  <2>1. Limit(w) \in Int
    BY <1>1, NumbersTyped
  <2>2. NextResult(w)' = NextResult(w) /\ Offset(w)' = Offset(w)
    BY DEF NextResult, Offset
  <2>3. Offered(w)' = Offered(w)
    BY DEF Offered, Window
  <2> QED
    BY <2>1, <2>2, <2>3 DEF Limit
<1>3. \A w \in Windows : InSequence(w)'
  BY <1>1, <1>2, AcceptedAlone
<1> QED
  BY <1>1, <1>3 DEF AcceptedInv

\* Every step.
LEMMA AcceptedNext ==
  ASSUME AcceptedInv, [Next]_vars
  PROVE  AcceptedInv'
<1>1. ASSUME alive, NEW good \in SUBSET Windows, Prepare(good)
      PROVE  AcceptedInv'
  <2>1. /\ step = "prepare" /\ step' = "enqueue"
        /\ UNCHANGED <<accepted, session, result, win, integration_id>> /\ alive'
    BY <1>1 DEF Prepare, processVars, history
  <2> QED
    BY <1>1, <2>1, AcceptedAside
<1>2. CASE alive /\ EnqueueRow
  <2>1. /\ step = "enqueue" /\ result <= MaxResults /\ step' = "number"
        /\ accepted' = [accepted EXCEPT ![Window] = IF Accepts THEN Append(@, Row) ELSE @]
        /\ UNCHANGED <<result, win, integration_id, session, alive>>
    BY <1>2 DEF EnqueueRow, processVars
  <2>2. CASE Accepts
    <3>1. accepted' = [accepted EXCEPT ![Window] = Append(@, Row)]
      BY <2>1, <2>2
    <3> QED
      BY <1>2, <2>1, <3>1, RowAccepted
  <2>3. CASE ~Accepts
    <3>1. accepted' = accepted
      <4>1. accepted' = [accepted EXCEPT ![Window] = accepted[Window]]
        BY <2>1, <2>3
      <4> QED
        BY <4>1 DEF AcceptedInv, SendTypes
    <3>2. SendTypes /\ SendTypes' /\ alive'
      BY <1>2, <2>1, <3>1 DEF AcceptedInv, SendTypes
    <3>3. ASSUME NEW w \in Windows
          PROVE  Offset(w)' = Offset(w) /\ Limit(w)' >= Limit(w)
      <4>1. NextResult(w)' = NextResult(w) /\ NextResult(w) \in Int
        BY <2>1, <3>2, NumbersTyped DEF NextResult
      <4>2. Offered(w) = 0 /\ Offered(w)' \in {0, 1}
        BY <2>1 DEF Offered
      <4> QED
        BY <2>1, <4>1, <4>2 DEF Offset, Limit
    <3>4. \A w \in Windows : InSequence(w)'
      BY <2>1, <3>1, <3>2, <3>3, AcceptedAlone
    <3> QED
      BY <3>2, <3>4 DEF AcceptedInv
  <2> QED
    BY <2>2, <2>3
<1>3. CASE alive /\ (StartSend \/ FinishSend)
  <2>1. step \in {"number", "send"} /\ accepted' = accepted /\ session' = session /\ alive'
    BY <1>3 DEF StartSend, FinishSend, processVars, history
  <2>2. \/ NextWindow
        \/ step = "number" /\ step' = "send" /\ UNCHANGED <<result, win, integration_id>>
    BY <1>3 DEF StartSend, FinishSend
  <2>3. CASE NextWindow
    <3>1. /\ SendTypes'
          /\ \A w \in Windows : Offset(w)' = Offset(w) /\ Limit(w)' >= Limit(w)
      BY <2>1, <2>3, WindowDone DEF AcceptedInv
    <3>2. \A w \in Windows : InSequence(w)'
      BY <2>1, <3>1, AcceptedAlone
    <3> QED
      BY <2>1, <3>1, <3>2 DEF AcceptedInv
  <2>4. CASE step = "number" /\ step' = "send" /\ UNCHANGED <<result, win, integration_id>>
    BY <1>3, <2>1, <2>4, AcceptedAside
  <2> QED
    BY <2>2, <2>3, <2>4
<1>4. CASE alive /\ (WriterThread \/ MainEnds)
  <2>1. UNCHANGED <<accepted, session, result, win, integration_id, step>> /\ alive'
    BY <1>4 DEF WriterThread, MainEnds, sendVars, processVars, history
  <2> QED
    BY <1>4, <2>1, AcceptedAside
<1>5. CASE Kill
  <2>1. /\ accepted' = [w \in Windows |-> <<>>] /\ win' = 1 /\ result' = result
        /\ session' = session /\ integration_id' = [w \in Windows |-> 0]
    BY <1>5 DEF Kill
  <2>2. SendTypes'
    BY <2>1, OrderFacts DEF AcceptedInv, SendTypes
  <2>3. ASSUME NEW w \in Windows
        PROVE  InSequence(w)'
    <3>1. Len(accepted'[w]) = 0
      BY <2>1
    <3> QED
      BY <3>1 DEF InSequence
  <2> QED
    BY <2>1, <2>2, <2>3 DEF AcceptedInv
<1>6. CASE alive /\ Network /\ UNCHANGED <<writerVars, sendVars, processVars, history, faults>>
  <2>1. UNCHANGED <<accepted, session, result, win, integration_id, step>> /\ alive'
    BY <1>6 DEF sendVars, processVars, history
  <2> QED
    BY <1>6, <2>1, AcceptedAside
<1>7. CASE Restart
  <2>1. /\ ~alive /\ session < MaxSessions /\ session' = session + 1 /\ result' = result + 1
        /\ alive' /\ UNCHANGED <<win, integration_id, accepted>>
    BY <1>7 DEF Restart, history
  <2>2. accepted' = [w \in Windows |-> <<>>]
    BY <2>1 DEF AcceptedInv
  <2>3. SendTypes'
    <3>1. session' \in 1 .. MaxSessions /\ result' \in Nat \ {0}
      BY <2>1, OutputsAssumption DEF AcceptedInv, SendTypes
    <3> QED
      BY <2>1, <3>1 DEF AcceptedInv, SendTypes
  <2>4. ASSUME NEW w \in Windows
        PROVE  InSequence(w)'
    <3>1. Len(accepted'[w]) = 0
      BY <2>2
    <3> QED
      BY <3>1 DEF InSequence
  <2> QED
    BY <2>1, <2>3, <2>4 DEF AcceptedInv
<1>8. CASE UNCHANGED vars
  <2>1. UNCHANGED <<accepted, session, result, win, integration_id, step, alive>>
    BY <1>8 DEF vars, sendVars, processVars, history
  <2>2. CASE alive
    BY <2>1, <2>2, AcceptedAside
  <2>3. CASE ~alive
    <3>1. SendTypes'
      BY <2>1 DEF AcceptedInv, SendTypes
    <3>2. ASSUME NEW w \in Windows
          PROVE  InSequence(w)'
      <4>1. Len(accepted'[w]) = 0
        BY <2>1, <2>3 DEF AcceptedInv
      <4> QED
        BY <4>1 DEF InSequence
    <3> QED
      BY <2>1, <3>1, <3>2 DEF AcceptedInv
  <2> QED
    BY <2>2, <2>3
<1> QED
  BY <1>1, <1>2, <1>3, <1>4, <1>5, <1>6, <1>7, <1>8 DEF Next, Running, SendData


(***************************************************************************)
(* The queue, the thread and the files.                                    *)
(***************************************************************************)
FileRows == Rows \cup {Torn}

QueueTypes ==
  /\ queue \in Seq(Rows) /\ (worker = "write" => job \in Rows)
  /\ skipped \in [Windows -> Nat] /\ status \in [Windows -> BOOLEAN]
  /\ file \in [Windows -> Seq(FileRows)] /\ flushed \in [Windows -> Nat]

\* queued_bytes_ is exact.
BytesCounted == queued_bytes = RowBytes * Len(queue) /\ queued_bytes <= MaxQueueBytes

\* The thread ends with an empty queue and its files closed; what is not open
\* has been flushed, unless it could not be closed.
Closing ==
  /\ worker = "ended" => writers = {} /\ (enabled => stopping /\ queue = <<>>)
  /\ worker # "ended" => \A w \in Windows : status[w] => w \in writers
  /\ \A w \in Windows : w \notin writers /\ ~status[w] => flushed[w] = Len(file[w])
  /\ ~alive => /\ worker = "ended" /\ queue = <<>> /\ queued_bytes = 0
               /\ \A w \in Windows : ~status[w] /\ skipped[w] = 0

ThreadInv == QueueTypes /\ BytesCounted /\ Closing

\* A row and what is left of one can be told apart.
LEMMA RowNotTorn ==
  ASSUME NEW r \in Rows
  PROVE  r # Torn
<1>1. DOMAIN r = {"window", "session", "result", "integration_id", "time"}
  BY DEF Rows
<1>2. DOMAIN Torn = {"window"}
  BY DEF Torn
<1>3. "session" # "window"
  OBVIOUS
<1> QED
  BY <1>1, <1>2, <1>3

\* The number of bytes of one row more or less.
LEMMA BytesOfRows ==
  ASSUME NEW q \in Seq(Rows), NEW r \in Rows
  PROVE  /\ RowBytes * Len(Append(q, r)) = RowBytes * Len(q) + RowBytes
         /\ q # <<>> => RowBytes * Len(Tail(q)) = RowBytes * Len(q) - RowBytes
         /\ RowBytes * Len(q) \in Nat
<1>1. RowBytes \in Nat /\ Len(q) \in Nat
  BY WriterAssumption
<1>2. ASSUME NEW n \in Int, NEW b \in Int
      PROVE  b * (n + 1) = b * n + b /\ b * (n - 1) = b * n - b
  OBVIOUS
<1>3. ASSUME NEW n \in Nat, NEW b \in Nat
      PROVE  b * n \in Nat
  OBVIOUS
<1>4. Len(Append(q, r)) = Len(q) + 1 /\ (q # <<>> => Len(Tail(q)) = Len(q) - 1)
  OBVIOUS
<1> QED
  BY <1>1, <1>2, <1>3, <1>4

\* A step of the caller.
LEMMA ThreadEnqueue ==
  ASSUME ThreadInv, AcceptedInv, alive, EnqueueRow
  PROVE  ThreadInv'
<1>1. /\ Enqueue(Row) /\ alive' = alive /\ skipped' = skipped
  BY DEF EnqueueRow, processVars
<1>2. CASE ~Accepts
  <2>1. UNCHANGED <<queue, queued_bytes, worker, job, enabled, stopping, writers, status, file,
                    flushed>>
    BY <1>1, <1>2 DEF Enqueue, writerVars, queueVars, diskVars
  <2> QED
    BY <1>1, <2>1 DEF ThreadInv, QueueTypes, BytesCounted, Closing
<1>3. CASE Accepts
  <2>1. /\ queue' = Append(queue, Row) /\ queued_bytes' = queued_bytes + RowBytes
        /\ worker' = Awake
        /\ UNCHANGED <<job, enabled, stopping, writers, status, file, flushed>>
    BY <1>1, <1>3 DEF Enqueue, diskVars
  <2>2. Row \in Rows
    <3>1. /\ step = "enqueue" /\ result <= MaxResults /\ step' = "number"
          /\ accepted' = [accepted EXCEPT ![Window] = Append(@, Row)]
          /\ UNCHANGED <<result, win, integration_id, session, alive>>
      BY <1>3 DEF EnqueueRow, processVars
    <3> QED
      BY <3>1, RowAccepted
  <2>3. PICK r : r = Row
    OBVIOUS
  <2>4. enabled /\ ~stopping /\ queued_bytes + RowBytes <= MaxQueueBytes
    BY <1>3 DEF Accepts
  <2>5. worker # "ended"
    BY <2>4 DEF ThreadInv, Closing
  <2>6. worker' # "ended" /\ (worker' = "write" => worker = "write")
    BY <2>1, <2>5 DEF Awake
  <2>7. QueueTypes'
    BY <1>1, <2>1, <2>2, <2>6 DEF ThreadInv, QueueTypes
  <2>8. BytesCounted'
    <3>1. RowBytes * Len(Append(queue, r)) = RowBytes * Len(queue) + RowBytes
      BY <2>2, <2>3, BytesOfRows DEF ThreadInv, QueueTypes
    <3> QED
      BY <2>1, <2>3, <2>4, <3>1 DEF ThreadInv, BytesCounted
  <2>9. Closing'
    BY <1>1, <2>1, <2>5, <2>6 DEF ThreadInv, Closing
  <2> QED
    BY <2>7, <2>8, <2>9 DEF ThreadInv
<1> QED
  BY <1>2, <1>3

\* Steps of the thread that leave the files alone.
LEMMA ThreadTakes ==
  ASSUME ThreadInv, alive, alive' = alive, skipped' = skipped, Wait \/ Pop
  PROVE  ThreadInv'
<1>1. CASE Wait
  <2>1. /\ worker = "check" /\ worker' = "asleep"
        /\ UNCHANGED <<queue, queued_bytes, enabled, stopping, job, writers, status, file, flushed>>
    BY <1>1 DEF Wait, queueVars, diskVars
  <2> QED
    BY <2>1 DEF ThreadInv, QueueTypes, BytesCounted, Closing
<1>2. CASE Pop
  <2>1. /\ worker = "check" /\ worker' = "write" /\ queue # <<>> /\ job' = Head(queue)
        /\ queue' = Tail(queue) /\ queued_bytes' = queued_bytes - RowBytes
        /\ UNCHANGED <<enabled, stopping, writers, status, file, flushed>>
    BY <1>2 DEF Pop, diskVars
  <2>2. queue \in Seq(Rows)
    BY DEF ThreadInv, QueueTypes
  <2>3. queue' \in Seq(Rows) /\ job' \in Rows
    BY <2>1, <2>2
  <2>4. QueueTypes'
    BY <2>1, <2>3 DEF ThreadInv, QueueTypes
  <2>5. BytesCounted'
    <3>1. RowBytes * Len(Tail(queue)) = RowBytes * Len(queue) - RowBytes
          /\ RowBytes * Len(queue) \in Nat
      BY <2>1, <2>2, <2>3, BytesOfRows
    <3> QED
      BY <2>1, <3>1, WriterAssumption DEF ThreadInv, BytesCounted
  <2>6. Closing'
    BY <2>1 DEF ThreadInv, Closing
  <2> QED
    BY <2>4, <2>5, <2>6 DEF ThreadInv
<1> QED
  BY <1>1, <1>2


\* A row, or part of one, goes to its file or nowhere.
LEMMA ThreadWrites ==
  ASSUME ThreadInv, alive, alive' = alive, worker = "write", JobDone, writers' = writers,
         NEW v \in Windows, v \in writers, file' = file \/
           \E x \in FileRows : file' = [file EXCEPT ![v] = Append(@, x)],
         flushed' = flushed \/ \E n \in Nat : flushed' = [flushed EXCEPT ![v] = n],
         status' = status \/ status' = [status EXCEPT ![v] = TRUE],
         skipped' = skipped
  PROVE  ThreadInv'
<1>1. /\ worker' = "check"
      /\ UNCHANGED <<enabled, stopping, queue, queued_bytes>>
  BY DEF JobDone, queueVars
<1>2. /\ queue \in Seq(Rows) /\ skipped \in [Windows -> Nat] /\ status \in [Windows -> BOOLEAN]
      /\ file \in [Windows -> Seq(FileRows)] /\ flushed \in [Windows -> Nat]
  BY DEF ThreadInv, QueueTypes
<1>3. file' \in [Windows -> Seq(FileRows)]
  <2>1. ASSUME NEW x \in FileRows, file' = [file EXCEPT ![v] = Append(@, x)]
        PROVE  file' \in [Windows -> Seq(FileRows)]
    <3>1. Append(file[v], x) \in Seq(FileRows)
      BY <1>2
    <3> QED
      BY <1>2, <2>1, <3>1
  <2> QED
    BY <1>2, <2>1
<1>4. flushed' \in [Windows -> Nat] /\ status' \in [Windows -> BOOLEAN]
  BY <1>2
<1>5. QueueTypes'
  BY <1>1, <1>2, <1>3, <1>4 DEF QueueTypes
<1>6. BytesCounted'
  BY <1>1 DEF ThreadInv, BytesCounted
<1>7. ASSUME NEW w \in Windows
      PROVE  /\ status'[w] => w \in writers
             /\ w \notin writers /\ ~status'[w] => flushed'[w] = Len(file'[w])
  <2>1. /\ status[w] => w \in writers
        /\ w \notin writers /\ ~status[w] => flushed[w] = Len(file[w])
    BY DEF ThreadInv, Closing
  <2>2. w # v => file'[w] = file[w] /\ flushed'[w] = flushed[w] /\ status'[w] = status[w]
    BY <1>2
  <2>3. CASE w = v
    BY <2>3
  <2>4. CASE w # v
    BY <2>1, <2>2, <2>4
  <2> QED
    BY <2>3, <2>4
<1>8. Closing'
  BY <1>1, <1>7 DEF Closing
<1> QED
  BY <1>5, <1>6, <1>8 DEF ThreadInv

\* A new file, or none.
LEMMA ThreadCreates ==
  ASSUME ThreadInv, alive, alive' = alive,
         \/ Create /\ skipped' = skipped
         \/ CreateRefused /\ skipped' = [skipped EXCEPT ![job.window] = @ + 1]
  PROVE  ThreadInv'
<1>1. job \in Rows /\ worker = "write"
  BY DEF ThreadInv, QueueTypes, Create, CreateRefused
<1>2. PICK v \in Windows : v = job.window
  BY <1>1 DEF Rows
<1>3. /\ queue \in Seq(Rows) /\ skipped \in [Windows -> Nat] /\ status \in [Windows -> BOOLEAN]
      /\ file \in [Windows -> Seq(FileRows)] /\ flushed \in [Windows -> Nat]
  BY DEF ThreadInv, QueueTypes
<1>4. CASE Create /\ skipped' = skipped
  <2>1. /\ file' = [file EXCEPT ![v] = <<>>] /\ flushed' = [flushed EXCEPT ![v] = 0]
        /\ writers' = writers \cup {v}
        /\ UNCHANGED <<enabled, stopping, queue, queued_bytes, worker, job, status>>
    BY <1>2, <1>4 DEF Create, queueVars
  <2>2. QueueTypes'
    <3>1. <<>> \in Seq(FileRows)
      OBVIOUS
    <3>2. file' \in [Windows -> Seq(FileRows)] /\ flushed' \in [Windows -> Nat]
      BY <1>3, <2>1, <3>1
    <3> QED
      BY <1>1, <1>3, <1>4, <2>1, <3>2 DEF QueueTypes
  <2>3. BytesCounted'
    BY <2>1 DEF ThreadInv, BytesCounted
  <2>4. ASSUME NEW w \in Windows
        PROVE  /\ status'[w] => w \in writers'
               /\ w \notin writers' /\ ~status'[w] => flushed'[w] = Len(file'[w])
    <3>1. /\ status[w] => w \in writers
          /\ w \notin writers /\ ~status[w] => flushed[w] = Len(file[w])
      BY <1>1 DEF ThreadInv, Closing
    <3>2. w # v => file'[w] = file[w] /\ flushed'[w] = flushed[w]
      BY <1>3, <2>1
    <3> QED
      BY <2>1, <3>1, <3>2
  <2>5. Closing'
    BY <1>1, <2>1, <2>4 DEF Closing
  <2> QED
    BY <2>2, <2>3, <2>5 DEF ThreadInv
<1>5. CASE CreateRefused /\ skipped' = [skipped EXCEPT ![job.window] = @ + 1]
  <2>1. /\ worker' = "check" /\ skipped' \in [Windows -> Nat]
        /\ UNCHANGED <<enabled, stopping, queue, queued_bytes, writers, status, file, flushed>>
    <3>1. skipped' = [skipped EXCEPT ![v] = @ + 1]
      BY <1>2, <1>5
    <3>2. skipped' \in [Windows -> Nat]
      BY <1>3, <3>1
    <3> QED
      BY <1>5, <3>2 DEF CreateRefused, JobDone, queueVars
  <2>2. QueueTypes'
    BY <1>3, <2>1 DEF QueueTypes
  <2>3. BytesCounted'
    BY <2>1 DEF ThreadInv, BytesCounted
  <2>4. ASSUME NEW w \in Windows
        PROVE  /\ status[w] => w \in writers
               /\ w \notin writers /\ ~status[w] => flushed[w] = Len(file[w])
    BY <1>1 DEF ThreadInv, Closing
  <2>5. Closing'
    BY <2>1, <2>4 DEF Closing
  <2> QED
    BY <2>2, <2>3, <2>5 DEF ThreadInv
<1> QED
  BY <1>4, <1>5

\* The thread closes its files and ends.
LEMMA ThreadEnds ==
  ASSUME ThreadInv, alive, alive' = alive, skipped' = skipped, NEW bad, Finish(bad), OnDisk
  PROVE  ThreadInv'
<1>1. /\ worker = "check" /\ stopping /\ queue = <<>> /\ writers' = {} /\ worker' = "ended"
      /\ bad \subseteq writers
      /\ flushed' = [w \in Windows |-> IF w \in writers \ bad THEN Len(file[w])
                                                              ELSE flushed[w]]
      /\ status' = [w \in Windows |-> w \in bad]
      /\ UNCHANGED <<enabled, stopping, queue, queued_bytes, job, file>>
  BY OutputsAssumption DEF Finish, MayEnd, CloseFiles, queueVars
<1>2. /\ queue \in Seq(Rows) /\ skipped \in [Windows -> Nat]
      /\ file \in [Windows -> Seq(FileRows)] /\ flushed \in [Windows -> Nat]
  BY DEF ThreadInv, QueueTypes
<1>3. \A w \in Windows : Len(file[w]) \in Nat
  BY <1>2
<1>4. QueueTypes'
  <2>1. flushed' \in [Windows -> Nat] /\ status' \in [Windows -> BOOLEAN]
    BY <1>1, <1>2, <1>3
  <2> QED
    BY <1>1, <1>2, <2>1 DEF QueueTypes
<1>5. BytesCounted'
  BY <1>1 DEF ThreadInv, BytesCounted
<1>6. ASSUME NEW w \in Windows, ~status'[w]
      PROVE  flushed'[w] = Len(file[w])
  <2>1. w \notin bad
    BY <1>1, <1>6
  <2>2. CASE w \in writers
    BY <1>1, <2>1, <2>2
  <2>3. CASE w \notin writers
    <3>1. flushed'[w] = flushed[w]
      BY <1>1, <2>3
    <3>2. ~status[w]
      BY <1>1, <2>3 DEF ThreadInv, Closing
    <3> QED
      BY <2>3, <3>1, <3>2 DEF ThreadInv, Closing
  <2> QED
    BY <2>2, <2>3
<1>7. Closing'
  BY <1>1, <1>6 DEF Closing
<1> QED
  BY <1>4, <1>5, <1>7 DEF ThreadInv

\* The process dies, or is started again.
LEMMA ThreadConfigured ==
  ASSUME ThreadInv, OnDisk, OnDisk', NEW on \in BOOLEAN, Configure(on), alive' = on \/ alive',
         skipped' = [w \in Windows |-> 0],
         \/ DiskAfterCrash
         \/ ~alive /\ UNCHANGED <<file, flushed>>
  PROVE  ThreadInv'
<1>1. /\ enabled' = on /\ stopping' = FALSE /\ queue' = <<>> /\ queued_bytes' = 0
      /\ worker' = (IF on THEN "check" ELSE "ended") /\ writers' = {}
      /\ status' = [w \in Windows |-> FALSE]
  BY OutputsAssumption DEF Configure
<1>2. /\ file \in [Windows -> Seq(FileRows)] /\ flushed \in [Windows -> Nat]
  BY DEF ThreadInv, QueueTypes
<1>3. /\ file' \in [Windows -> Seq(FileRows)] /\ flushed' \in [Windows -> Nat]
      /\ \A w \in Windows : flushed'[w] = Len(file'[w])
  <2>1. CASE ~alive /\ UNCHANGED <<file, flushed>>
    <3>1. worker = "ended" /\ writers = {}
      BY <2>1 DEF ThreadInv, Closing
    <3>2. ASSUME NEW w \in Windows
          PROVE  flushed[w] = Len(file[w])
      <4>1. ~status[w]
        BY <2>1 DEF ThreadInv, Closing
      <4> QED
        BY <3>1, <4>1 DEF ThreadInv, Closing
    <3> QED
      BY <1>2, <2>1, <3>2
  <2>2. CASE DiskAfterCrash
    <3>1. PICK kept \in BOOLEAN :
            LET left == [w \in Windows |-> IF kept THEN Len(file[w]) ELSE flushed[w]]
            IN /\ file' = [w \in Windows |-> SubSeq(file[w], 1, left[w])]
               /\ flushed' = left
      BY <2>2, OutputsAssumption DEF DiskAfterCrash
    <3>2. ASSUME NEW w \in Windows
          PROVE  /\ file'[w] = SubSeq(file[w], 1, flushed'[w]) /\ flushed'[w] \in 0 .. Len(file[w])
                 /\ file[w] \in Seq(FileRows)
      <4>1. w \in Bands /\ file[w] \in Seq(FileRows)
        BY <1>2, OutputsAssumption
      <4>2. flushed[w] \in 0 .. Len(file[w])
        BY <4>1 DEF OnDisk
      <4>3. Len(file[w]) \in Nat
        BY <4>1
      <4> QED
        BY <3>1, <4>1, <4>2, <4>3
    <3>3. ASSUME NEW w \in Windows
          PROVE  file'[w] \in Seq(FileRows) /\ Len(file'[w]) = flushed'[w] /\ flushed'[w] \in Nat
      <4>1. PICK s : s = file[w]
        OBVIOUS
      <4>2. PICK n : n = flushed'[w]
        OBVIOUS
      <4>3. s \in Seq(FileRows) /\ n \in 0 .. Len(s) /\ file'[w] = SubSeq(s, 1, n)
        BY <3>2, <4>1, <4>2
      <4>4. SubSeq(s, 1, n) \in Seq(FileRows) /\ Len(SubSeq(s, 1, n)) = n /\ n \in Nat
        BY <4>3
      <4> QED
        BY <4>2, <4>3, <4>4
    <3>4. file' = [w \in Windows |-> file'[w]] /\ flushed' = [w \in Windows |-> flushed'[w]]
      BY <3>1
    <3> QED
      BY <3>3, <3>4
  <2> QED
    BY <2>1, <2>2
<1>4. QueueTypes'
  <2>1. worker' # "write" /\ <<>> \in Seq(Rows)
    BY <1>1
  <2> QED
    BY <1>1, <1>3, <2>1 DEF QueueTypes
<1>5. BytesCounted'
  <2>1. RowBytes * Len(<<>>) = 0 /\ 0 <= MaxQueueBytes
    BY WriterAssumption
  <2> QED
    BY <1>1, <2>1 DEF BytesCounted
<1>6. Closing'
  BY <1>1, <1>3 DEF Closing
<1> QED
  BY <1>4, <1>5, <1>6 DEF ThreadInv


(***************************************************************************)
(* Where the accepted rows are.                                            *)
(***************************************************************************)
\* The rows in the file of window w that are rows of this session.
Mine(w) == IF w \in writers THEN file[w] ELSE <<>>

\* What the writer has of window w, and what it should have.
Held(w) == Joined(Joined(Mine(w), InHand(w)), OfWindow(queue, w))
Owed(w) == SubSeq(accepted[w], skipped[w] + 1, Len(accepted[w]))

Placed(w) ==
  /\ skipped[w] <= Len(accepted[w])
  /\ alive /\ worker # "ended" /\ ~status[w] => Held(w) = Owed(w)

\* Sequences one behind the other.
LEMMA JoinFacts ==
  ASSUME NEW R, NEW a \in Seq(R), NEW b \in Seq(R), NEW c \in Seq(R)
  PROVE  /\ Joined(a, b) \in Seq(R) /\ Joined(Joined(a, b), c) = Joined(a, Joined(b, c))
         /\ Joined(a, <<>>) = a /\ Joined(<<>>, a) = a
  BY DEF Joined

\* One row behind a sequence.
LEMMA JoinOne ==
  ASSUME NEW R, NEW a \in Seq(R), NEW x \in R
  PROVE  Joined(a, <<x>>) = Append(a, x)
<1>1. Append(a, x) = a \o <<x>>
  BY AppendIsConcat
<1> QED
  BY <1>1 DEF Joined

\* The rows of a sequence after the first k.
LEMMA LastRows ==
  ASSUME NEW R, NEW s \in Seq(R), NEW k \in 0 .. Len(s)
  PROVE  /\ SubSeq(s, k + 1, Len(s)) \in Seq(R)
         /\ Len(SubSeq(s, k + 1, Len(s))) = Len(s) - k
         /\ \A i \in 1 .. Len(s) - k : SubSeq(s, k + 1, Len(s))[i] = s[k + i]
<1>1. PICK n \in Nat : n = Len(s)
  OBVIOUS
<1>2. PICK m \in Int : m = k + 1 /\ m <= n + 1 /\ 1 <= m
  BY <1>1
<1>3. \A i \in m .. n : s[i] \in R
  BY <1>1, <1>2
<1>4. /\ SubSeq(s, m, n) \in Seq(R)
      /\ Len(SubSeq(s, m, n)) = IF m <= n THEN n - m + 1 ELSE 0
      /\ \A i \in 1 .. n - m + 1 : SubSeq(s, m, n)[i] = s[m + i - 1]
  BY <1>3, SubSeqProperties
<1>5. PICK t : t = SubSeq(s, m, n)
  OBVIOUS
<1>6. /\ t \in Seq(R) /\ Len(t) = n - k /\ \A i \in 1 .. n - k : t[i] = s[k + i]
  <2>1. Len(t) = n - k /\ n - m + 1 = n - k
    BY <1>1, <1>2, <1>4, <1>5
  <2>2. ASSUME NEW i \in 1 .. n - k
        PROVE  t[i] = s[k + i]
    <3>1. m + i - 1 = k + i
      BY <1>1, <1>2
    <3> QED
      BY <1>4, <1>5, <2>1, <3>1
  <2> QED
    BY <1>4, <1>5, <2>1, <2>2
<1> QED
  BY <1>1, <1>2, <1>5, <1>6

\* The last rows of a sequence that grows at its end.
LEMMA LastAppend ==
  ASSUME NEW R, NEW s \in Seq(R), NEW k \in 0 .. Len(s), NEW x \in R
  PROVE  SubSeq(Append(s, x), k + 1, Len(Append(s, x))) = Append(SubSeq(s, k + 1, Len(s)), x)
<1>1. PICK n \in Nat : n = Len(s)
  OBVIOUS
<1>2. PICK a : a = Append(s, x)
  OBVIOUS
<1>3. a \in Seq(R) /\ Len(a) = n + 1 /\ a[n + 1] = x /\ \A i \in 1 .. n : a[i] = s[i]
  BY <1>1, <1>2, AppendProperties
<1>4. PICK t : t = SubSeq(s, k + 1, n)
  OBVIOUS
<1>5. t \in Seq(R) /\ Len(t) = n - k /\ \A i \in 1 .. n - k : t[i] = s[k + i]
  BY <1>1, <1>4, LastRows
<1>6. PICK u : u = SubSeq(a, k + 1, Len(a))
  OBVIOUS
<1>7. u \in Seq(R) /\ Len(u) = n + 1 - k /\ \A i \in 1 .. n + 1 - k : u[i] = a[k + i]
  <2>1. k \in 0 .. Len(a)
    BY <1>1, <1>3
  <2>2. u \in Seq(R) /\ Len(u) = Len(a) - k /\ \A i \in 1 .. Len(a) - k : u[i] = a[k + i]
    BY <1>3, <1>6, <2>1, LastRows
  <2> QED
    BY <1>3, <2>2
<1>8. PICK v : v = Append(t, x)
  OBVIOUS
<1>9. v \in Seq(R) /\ Len(v) = n + 1 - k /\ v[n + 1 - k] = x /\ \A i \in 1 .. n - k : v[i] = t[i]
  <2>1. /\ v \in Seq(R) /\ Len(v) = Len(t) + 1 /\ v[Len(t) + 1] = x
        /\ \A i \in 1 .. Len(t) : v[i] = t[i]
    BY <1>5, <1>8, AppendProperties
  <2>2. Len(t) + 1 = n + 1 - k
    BY <1>1, <1>5
  <2> QED
    BY <1>5, <2>1, <2>2
<1>10. ASSUME NEW i \in 1 .. n + 1 - k
       PROVE  u[i] = v[i]
  <2>1. CASE i = n + 1 - k
    <3>1. k + i = n + 1
      BY <1>1, <2>1
    <3> QED
      BY <1>3, <1>7, <1>9, <2>1, <3>1
  <2>2. CASE i # n + 1 - k
    <3>1. i \in 1 .. n - k /\ k + i \in 1 .. n
      BY <1>1, <2>2
    <3> QED
      BY <1>3, <1>5, <1>7, <1>9, <3>1
  <2> QED
    BY <2>1, <2>2
<1>11. u = v
  BY <1>7, <1>9, <1>10, SeqEqual
<1> QED
  BY <1>1, <1>2, <1>3, <1>4, <1>6, <1>8, <1>11

\* The last rows of a sequence but for the first of them.
LEMMA LastTail ==
  ASSUME NEW R, NEW s \in Seq(R), NEW k \in 0 .. Len(s), NEW x \in R, NEW t \in Seq(R),
         SubSeq(s, k + 1, Len(s)) = Joined(<<x>>, t)
  PROVE  k < Len(s) /\ SubSeq(s, k + 1 + 1, Len(s)) = t
<1>1. PICK n \in Nat : n = Len(s)
  OBVIOUS
<1>2. PICK u : u = SubSeq(s, k + 1, n)
  OBVIOUS
<1>3. u \in Seq(R) /\ Len(u) = n - k /\ \A i \in 1 .. n - k : u[i] = s[k + i]
  BY <1>1, <1>2, LastRows
<1>4. u = <<x>> \o t
  BY <1>1, <1>2 DEF Joined
<1>5. Len(u) = Len(t) + 1 /\ Len(t) \in Nat /\ \A i \in 1 .. Len(t) : u[i + 1] = t[i]
  <2>1. PICK o : o = <<x>>
    OBVIOUS
  <2>2. o \in Seq(R) /\ Len(o) = 1
    BY <2>1
  <2>3. /\ Len(o \o t) = Len(o) + Len(t)
        /\ \A i \in 1 .. Len(o) + Len(t) : (o \o t)[i] = IF i <= Len(o) THEN o[i] ELSE t[i - Len(o)]
    BY <2>2, ConcatProperties
  <2>4. Len(t) \in Nat /\ Len(u) = Len(t) + 1
        /\ \A i \in 1 .. 1 + Len(t) : u[i] = IF i <= 1 THEN o[i] ELSE t[i - 1]
    BY <1>4, <2>1, <2>2, <2>3
  <2>5. ASSUME NEW i \in 1 .. Len(t)
        PROVE  u[i + 1] = t[i]
    <3>1. PICK j \in 1 .. 1 + Len(t) : j = i + 1
      BY <2>4
    <3>2. ~(j <= 1) /\ j - 1 = i
      BY <2>4, <3>1
    <3> QED
      BY <2>4, <3>1, <3>2
  <2> QED
    BY <2>4, <2>5
<1>6. k < n /\ Len(t) = n - k - 1
  <2>1. k \in Int /\ n \in Int
    BY <1>1
  <2>2. PICK m \in Nat : m = Len(t) /\ n - k = m + 1
    BY ONLY <1>3, <1>5
  <2>3. k < n /\ m = n - k - 1
    BY ONLY <2>1, <2>2
  <2> QED
    BY <2>2, <2>3
<1>7. PICK v : v = SubSeq(s, k + 1 + 1, n)
  OBVIOUS
<1>8. v \in Seq(R) /\ Len(v) = n - k - 1 /\ \A i \in 1 .. n - k - 1 : v[i] = s[k + 1 + i]
  <2>1. PICK l \in 0 .. n : l = k + 1
    BY <1>1, <1>6
  <2>2. v \in Seq(R) /\ Len(v) = n - l /\ \A i \in 1 .. n - l : v[i] = s[l + i]
    BY <1>1, <1>7, <2>1, LastRows
  <2>3. n - l = n - k - 1
    BY <1>1, <2>1
  <2> QED
    BY <2>1, <2>2, <2>3
<1>9. ASSUME NEW i \in 1 .. n - k - 1
      PROVE  v[i] = t[i]
  <2>1. i + 1 \in 1 .. n - k /\ k + (i + 1) = k + 1 + i
    BY <1>1
  <2> QED
    BY <1>3, <1>5, <1>6, <1>8, <2>1
<1>10. v = t
  <2>1. Len(v) = Len(t) /\ \A i \in 1 .. Len(v) : v[i] = t[i]
    BY <1>6, <1>8, <1>9
  <2> QED
    BY <1>8, <2>1, SeqEqual
<1> QED
  BY <1>1, <1>6, <1>7, <1>10

\* A step that moves no row of window w.
LEMMA PlacedAside ==
  ASSUME NEW w \in Windows, Placed(w), accepted'[w] = accepted[w], skipped'[w] = skipped[w],
         \/ ~(alive' /\ worker' # "ended" /\ ~status'[w])
         \/ /\ alive /\ worker # "ended" /\ ~status[w]
            /\ Mine(w)' = Mine(w) /\ InHand(w)' = InHand(w)
            /\ OfWindow(queue, w)' = OfWindow(queue, w)
  PROVE  Placed(w)'
<1>1. Owed(w)' = Owed(w) /\ skipped'[w] <= Len(accepted'[w])
  BY DEF Owed, Placed
<1>2. CASE ~(alive' /\ worker' # "ended" /\ ~status'[w])
  BY <1>1, <1>2 DEF Placed
<1>3. CASE /\ alive /\ worker # "ended" /\ ~status[w]
           /\ Mine(w)' = Mine(w) /\ InHand(w)' = InHand(w)
           /\ OfWindow(queue, w)' = OfWindow(queue, w)
  <2>1. Held(w)' = Held(w)
    BY <1>3 DEF Held
  <2> QED
    BY <1>1, <1>3, <2>1 DEF Placed
<1> QED
  BY <1>2, <1>3

\* The types of what the writer has.
LEMMA HeldTypes ==
  ASSUME ThreadInv, AcceptedInv, NEW w \in Windows
  PROVE  /\ Mine(w) \in Seq(FileRows) /\ InHand(w) \in Seq(FileRows)
         /\ OfWindow(queue, w) \in Seq(FileRows) /\ accepted[w] \in Seq(FileRows)
         /\ queue \in Seq(FileRows) /\ skipped[w] \in Nat /\ Len(accepted[w]) \in Nat
<1>1. Rows \subseteq FileRows /\ <<>> \in Seq(FileRows)
  BY DEF FileRows
<1>2. queue \in Seq(Rows) /\ accepted[w] \in Seq(Rows)
  BY DEF ThreadInv, QueueTypes, AcceptedInv, SendTypes
<1>3. queue \in Seq(FileRows) /\ accepted[w] \in Seq(FileRows)
  BY <1>1, <1>2
<1>4. Mine(w) \in Seq(FileRows)
  <2>1. file[w] \in Seq(FileRows)
    BY DEF ThreadInv, QueueTypes
  <2> QED
    BY <1>1, <2>1 DEF Mine
<1>5. InHand(w) \in Seq(FileRows)
  <2>1. worker = "write" => job \in FileRows
    BY <1>1 DEF ThreadInv, QueueTypes
  <2>2. worker = "write" => <<job>> \in Seq(FileRows)
    BY <2>1
  <2> QED
    BY <1>1, <2>2 DEF InHand
<1>6. OfWindow(queue, w) \in Seq(FileRows)
  BY <1>3, OfWindowJoined
<1>7. skipped[w] \in Nat
  BY DEF ThreadInv, QueueTypes
<1> QED
  BY <1>3, <1>4, <1>5, <1>6, <1>7


\* The row that was accepted is the last one of its window.
LEMMA PlacedEnqueue ==
  ASSUME ThreadInv, AcceptedInv, alive, EnqueueRow, Accepts, NEW w \in Windows, Placed(w)
  PROVE  Placed(w)'
<1>1. /\ queue' = Append(queue, Row) /\ worker' = Awake /\ skipped' = skipped /\ alive'
      /\ accepted' = [accepted EXCEPT ![Window] = Append(@, Row)]
      /\ UNCHANGED <<job, writers, status, file>>
  BY DEF EnqueueRow, Enqueue, diskVars, processVars
<1>2. Row \in Rows
  <2>1. /\ step = "enqueue" /\ result <= MaxResults /\ step' = "number"
        /\ UNCHANGED <<result, win, integration_id, session, alive>>
    BY DEF EnqueueRow, processVars
  <2> QED
    BY <1>1, <2>1, RowAccepted
<1>3. PICK r \in FileRows : r = Row /\ r.window = Window
  BY <1>2 DEF FileRows, Row
<1>4. /\ Mine(w) \in Seq(FileRows) /\ InHand(w) \in Seq(FileRows)
      /\ OfWindow(queue, w) \in Seq(FileRows) /\ accepted[w] \in Seq(FileRows)
      /\ queue \in Seq(FileRows) /\ skipped[w] \in Nat /\ Len(accepted[w]) \in Nat
  BY HeldTypes
<1>5. worker # "ended" /\ Mine(w)' = Mine(w) /\ InHand(w)' = InHand(w)
  <2>1. worker # "ended"
    BY DEF Accepts, ThreadInv, Closing
  <2>2. worker' = "write" <=> worker = "write"
    BY <1>1 DEF Awake
  <2> QED
    BY <1>1, <2>1, <2>2 DEF Mine, InHand
<1>6. OfWindow(queue, w)' = Joined(OfWindow(queue, w), Added(<<>>, r, w))
  <2>1. OfWindow(Append(queue, r), w) = OfWindow(queue, w) \o Added(<<>>, r, w)
    BY <1>4, OfWindowAppend, ZenonT(30)
  <2>2. OfWindow(queue, w)' = OfWindow(Append(queue, r), w)
    BY <1>1, <1>3
  <2> QED
    BY <2>1, <2>2 DEF Joined
<1>7. CASE w # Window
  <2>1. accepted'[w] = accepted[w]
    BY <1>1, <1>7 DEF AcceptedInv, SendTypes
  <2>2. Added(<<>>, r, w) = <<>>
    BY <1>3, <1>7 DEF Added
  <2>3. OfWindow(queue, w)' = OfWindow(queue, w)
    BY <1>4, <1>6, <2>2, JoinFacts
  <2> QED
    BY <1>1, <1>5, <2>1, <2>3, PlacedAside
<1>8. CASE w = Window
  <2>1. PICK a : a = accepted[w]
    OBVIOUS
  <2>2. accepted'[w] = Append(a, r) /\ a \in Seq(FileRows) /\ Len(a) \in Nat
    BY <1>1, <1>3, <1>4, <1>8, <2>1 DEF AcceptedInv, SendTypes
  <2>3. PICK k \in 0 .. Len(a) : k = skipped[w] /\ k = skipped'[w]
    BY <1>1, <1>4, <2>1 DEF Placed
  <2>4. Len(Append(a, r)) = Len(a) + 1
    BY <2>2, AppendProperties
  <2>5. skipped'[w] <= Len(accepted'[w])
    BY <2>2, <2>3, <2>4
  <2>6. ASSUME ~status[w]
        PROVE  Held(w)' = Owed(w)'
    <3>1. Held(w) = Owed(w)
      BY <1>5, <2>6 DEF Placed
    <3>2. /\ Owed(w) = SubSeq(a, k + 1, Len(a))
          /\ Owed(w)' = SubSeq(Append(a, r), k + 1, Len(Append(a, r)))
      BY <2>1, <2>2, <2>3 DEF Owed
    <3>3. Owed(w)' = Append(Owed(w), r)
      BY <2>2, <3>2, LastAppend
    <3>4. Added(<<>>, r, w) = <<r>> /\ <<r>> \in Seq(FileRows)
      BY <1>3, <1>8 DEF Added
    <3>5. PICK h : h = Joined(Mine(w), InHand(w))
      OBVIOUS
    <3>6. h \in Seq(FileRows)
      BY <1>4, <3>5, JoinFacts
    <3>7. Held(w) = Joined(h, OfWindow(queue, w))
      BY <3>5 DEF Held
    <3>8. Held(w)' = Joined(h, Joined(OfWindow(queue, w), <<r>>))
      BY <1>5, <1>6, <3>4, <3>5 DEF Held
    <3>9. Held(w)' = Joined(Held(w), <<r>>) /\ Held(w) \in Seq(FileRows)
      <4>1. PICK o : o = OfWindow(queue, w)
        OBVIOUS
      <4>2. PICK q : q = <<r>>
        OBVIOUS
      <4>3. o \in Seq(FileRows) /\ q \in Seq(FileRows)
        BY <1>4, <3>4, <4>1, <4>2
      <4>4. Joined(h, o) \in Seq(FileRows) /\ Joined(Joined(h, o), q) = Joined(h, Joined(o, q))
        BY <3>6, <4>3, JoinFacts
      <4> QED
        BY <3>7, <3>8, <4>1, <4>2, <4>4
    <3>10. Held(w)' = Append(Held(w), r)
      BY <3>9, JoinOne
    <3> QED
      BY <3>1, <3>3, <3>10
  <2> QED
    BY <1>1, <2>5, <2>6 DEF Placed
<1> QED
  BY <1>7, <1>8

\* The thread takes a row from the queue.
LEMMA PlacedPop ==
  ASSUME ThreadInv, AcceptedInv, Pop, NEW w \in Windows, Placed(w), skipped' = skipped,
         accepted' = accepted, alive' = alive
  PROVE  Placed(w)'
<1>1. /\ worker = "check" /\ queue # <<>> /\ job' = Head(queue) /\ queue' = Tail(queue)
      /\ worker' = "write" /\ UNCHANGED <<writers, status, file>>
  BY DEF Pop, diskVars
<1>2. /\ Mine(w) \in Seq(FileRows) /\ OfWindow(queue, w) \in Seq(FileRows)
      /\ queue \in Seq(FileRows)
  BY HeldTypes
<1>3. InHand(w) = <<>> /\ Mine(w)' = Mine(w)
  BY <1>1 DEF InHand, Mine
<1>4. InHand(w)' = Added(<<>>, Head(queue), w)
  BY <1>1 DEF InHand, Added
<1>5. InHand(w)' \in Seq(FileRows)
  <2>1. Head(queue) \in FileRows
    BY <1>1, <1>2
  <2>2. <<Head(queue)>> \in Seq(FileRows) /\ <<>> \in Seq(FileRows)
    BY <2>1
  <2> QED
    BY <1>1, <2>2 DEF InHand
<1>6. /\ OfWindow(queue, w) = Joined(InHand(w)', OfWindow(queue, w)')
      /\ OfWindow(queue, w)' \in Seq(FileRows)
  <2>1. /\ OfWindow(queue, w) = Added(<<>>, Head(queue), w) \o OfWindow(Tail(queue), w)
        /\ OfWindow(Tail(queue), w) \in Seq(FileRows)
    BY <1>1, <1>2, OfWindowTail
  <2>2. OfWindow(queue, w)' = OfWindow(Tail(queue), w)
    BY <1>1
  <2> QED
    BY <1>4, <2>1, <2>2 DEF Joined
<1>7. Held(w)' = Held(w)
  <2>1. Held(w) = Joined(Mine(w), Joined(InHand(w)', OfWindow(queue, w)'))
    BY <1>2, <1>3, <1>6, JoinFacts DEF Held
  <2>2. Held(w)' = Joined(Joined(Mine(w), InHand(w)'), OfWindow(queue, w)')
    BY <1>3 DEF Held
  <2> QED
    BY <1>2, <1>5, <1>6, <2>1, <2>2, JoinFacts
<1>8. Owed(w)' = Owed(w) /\ skipped'[w] <= Len(accepted'[w])
  BY DEF Owed, Placed
<1> QED
  BY <1>1, <1>7, <1>8 DEF Placed

\* The row goes from the hand of the thread to the file.
LEMMA PlacedWrite ==
  ASSUME ThreadInv, AcceptedInv, WriteRow \/ WriteRowFails, NEW w \in Windows, Placed(w),
         skipped' = skipped, accepted' = accepted, alive' = alive
  PROVE  Placed(w)'
<1>1. /\ worker = "write" /\ worker' = "check" /\ queue' = queue /\ writers' = writers
      /\ job.window \in writers
  BY DEF WriteRow, WriteRowFails, JobDone, queueVars
<1>2. job \in FileRows /\ file \in [Windows -> Seq(FileRows)] /\ status \in [Windows -> BOOLEAN]
      /\ job.window \in Windows
  BY <1>1 DEF ThreadInv, QueueTypes, FileRows, Rows
<1>3. InHand(w)' = <<>> /\ OfWindow(queue, w)' = OfWindow(queue, w)
  BY <1>1 DEF InHand
<1>4. /\ Mine(w) \in Seq(FileRows) /\ InHand(w) \in Seq(FileRows)
      /\ OfWindow(queue, w) \in Seq(FileRows) /\ <<>> \in Seq(FileRows)
  BY HeldTypes
<1>5. CASE w # job.window
  <2>1. file'[w] = file[w] /\ status'[w] = status[w]
    BY <1>2, <1>5 DEF WriteRow, WriteRowFails
  <2>2. Mine(w)' = Mine(w) /\ InHand(w) = <<>>
    BY <1>1, <1>5, <2>1 DEF Mine, InHand
  <2> QED
    BY <1>1, <1>3, <2>1, <2>2, PlacedAside
<1>6. CASE w = job.window /\ WriteRowFails
  <2>1. status'[w]
    BY <1>2, <1>6 DEF WriteRowFails
  <2> QED
    BY <2>1, PlacedAside
<1>7. CASE w = job.window /\ WriteRow
  <2>1. ~status[w] /\ status' = status /\ file'[w] = Append(file[w], job)
    BY <1>2, <1>7 DEF WriteRow
  <2>2. Mine(w) = file[w] /\ Mine(w)' = Append(Mine(w), job) /\ InHand(w) = <<job>>
    BY <1>1, <1>7, <2>1 DEF Mine, InHand
  <2>3. Mine(w)' = Joined(Mine(w), InHand(w))
    BY <1>2, <1>4, <2>2, JoinOne
  <2>4. Mine(w)' \in Seq(FileRows)
    BY <1>4, <2>3, JoinFacts
  <2>5. Held(w)' = Joined(Joined(Mine(w)', <<>>), OfWindow(queue, w))
    BY <1>3 DEF Held
  <2>6. Joined(Mine(w)', <<>>) = Mine(w)'
    BY <2>4, JoinFacts
  <2>7. Held(w)' = Held(w)
    BY <2>3, <2>5, <2>6 DEF Held
  <2>8. Owed(w)' = Owed(w) /\ skipped'[w] <= Len(accepted'[w])
    BY DEF Owed, Placed
  <2> QED
    BY <1>1, <2>1, <2>7, <2>8 DEF Placed
<1> QED
  BY <1>5, <1>6, <1>7

\* A file is created, or the row is lost for want of one.
LEMMA PlacedCreate ==
  ASSUME ThreadInv, AcceptedInv, NEW w \in Windows, Placed(w), accepted' = accepted, alive,
         alive' = alive,
         \/ Create /\ skipped' = skipped
         \/ CreateRefused /\ skipped' = [skipped EXCEPT ![job.window] = @ + 1]
  PROVE  Placed(w)'
<1>1. worker = "write" /\ job \in FileRows /\ job.window \in Windows
  BY DEF Create, CreateRefused, ThreadInv, QueueTypes, FileRows, Rows
<1>2. /\ Mine(w) \in Seq(FileRows) /\ InHand(w) \in Seq(FileRows)
      /\ OfWindow(queue, w) \in Seq(FileRows) /\ <<>> \in Seq(FileRows)
      /\ accepted[w] \in Seq(FileRows) /\ skipped[w] \in Nat /\ Len(accepted[w]) \in Nat
  BY HeldTypes
<1>3. CASE Create /\ skipped' = skipped
  <2>1. /\ job.window \notin writers /\ writers' = writers \cup {job.window}
        /\ file' = [file EXCEPT ![job.window] = <<>>]
        /\ UNCHANGED <<queue, worker, job, status>>
    BY <1>3 DEF Create, MayCreate, queueVars
  <2>2. Mine(w)' = Mine(w)
    BY <2>1 DEF Mine, ThreadInv, QueueTypes
  <2>3. InHand(w)' = InHand(w) /\ OfWindow(queue, w)' = OfWindow(queue, w)
    BY <2>1 DEF InHand
  <2> QED
    BY <1>1, <1>3, <2>1, <2>2, <2>3, PlacedAside
<1>4. CASE CreateRefused /\ skipped' = [skipped EXCEPT ![job.window] = @ + 1]
  <2>1. /\ job.window \notin writers /\ worker' = "check"
        /\ UNCHANGED <<queue, writers, status, file>>
    BY <1>4 DEF CreateRefused, JobDone, queueVars
  <2>2. InHand(w)' = <<>> /\ OfWindow(queue, w)' = OfWindow(queue, w) /\ Mine(w)' = Mine(w)
    BY <2>1 DEF InHand, Mine
  <2>3. skipped \in [Windows -> Nat]
    BY DEF ThreadInv, QueueTypes
  <2>4. CASE w # job.window
    <3>1. skipped'[w] = skipped[w] /\ InHand(w) = <<>>
      BY <1>4, <2>3, <2>4 DEF InHand
    <3> QED
      BY <1>1, <2>1, <2>2, <3>1, PlacedAside
  <2>5. CASE w = job.window
    <3>1. Mine(w) = <<>> /\ InHand(w) = <<job>> /\ ~status[w]
      BY <1>1, <2>1, <2>5 DEF Mine, InHand, ThreadInv, Closing
    <3>2. PICK t \in Seq(FileRows) : t = OfWindow(queue, w)
      BY <1>2
    <3>3. PICK x \in FileRows : x = job
      BY <1>1
    <3>4. Held(w) = Joined(<<x>>, t)
      <4>1. <<x>> \in Seq(FileRows)
        BY <3>3
      <4>2. Joined(<<>>, <<x>>) = <<x>>
        BY <4>1, JoinFacts
      <4> QED
        BY <3>1, <3>2, <3>3, <4>2 DEF Held
    <3>5. Held(w) = Owed(w)
      BY <1>1, <3>1 DEF Placed
    <3>6. PICK k : k = skipped[w]
      OBVIOUS
    <3>7. PICK a : a = accepted[w]
      OBVIOUS
    <3>8. a \in Seq(FileRows) /\ Len(a) \in Nat /\ k \in 0 .. Len(a)
      BY <1>2, <3>6, <3>7 DEF Placed
    <3>9. SubSeq(a, k + 1, Len(a)) = Joined(<<x>>, t)
      BY <3>4, <3>5, <3>6, <3>7 DEF Owed
    <3>10. k < Len(a) /\ SubSeq(a, k + 1 + 1, Len(a)) = t
      BY <3>8, <3>9, LastTail
    <3>11. skipped'[w] = k + 1 /\ accepted'[w] = a
      BY <1>4, <2>3, <2>5, <3>6, <3>7
    <3>12. Owed(w)' = t
      BY <3>10, <3>11 DEF Owed
    <3>13. Held(w)' = Joined(Joined(<<>>, <<>>), t)
      BY <2>2, <3>1, <3>2 DEF Held
    <3>14. Held(w)' = t
      BY <1>2, <3>13, JoinFacts
    <3>15. skipped'[w] <= Len(accepted'[w])
      BY <3>8, <3>10, <3>11
    <3> QED
      BY <3>12, <3>14, <3>15 DEF Placed
  <2> QED
    BY <2>4, <2>5
<1> QED
  BY <1>3, <1>4


(***************************************************************************)
(* The rows of a file.                                                     *)
(***************************************************************************)
\* Two rows of one session, with the numbers of their results, in order.
OneSession(a, b, before) ==
  /\ a.session = b.session
  /\ a.result - a.integration_id = b.result - b.integration_id
  /\ before => a.result < b.result

RowsFine(rows) ==
  /\ \A i \in 1 .. Len(rows) : rows[i] # Torn => Timed(rows[i])
  /\ \A i, j \in 1 .. Len(rows) :
       rows[i] # Torn /\ rows[j] # Torn => OneSession(rows[i], rows[j], i < j)

\* A row that is being written is the next of those that were accepted.
LEMMA FineWritten ==
  ASSUME ThreadInv, AcceptedInv, alive, worker = "write", NEW w \in Windows, Placed(w),
         job.window = w, w \in writers, ~status[w]
  PROVE  RowsFine(Append(file[w], job))
<1>1. /\ Mine(w) \in Seq(FileRows) /\ InHand(w) \in Seq(FileRows)
      /\ OfWindow(queue, w) \in Seq(FileRows) /\ accepted[w] \in Seq(FileRows)
      /\ skipped[w] \in Nat /\ Len(accepted[w]) \in Nat
  BY HeldTypes
<1>2. PICK a : a = accepted[w]
  OBVIOUS
<1>3. PICK k : k = skipped[w]
  OBVIOUS
<1>4. PICK o : o = OfWindow(queue, w)
  OBVIOUS
<1>5. PICK g : g = Append(file[w], job)
  OBVIOUS
<1>6. a \in Seq(FileRows) /\ Len(a) \in Nat /\ k \in 0 .. Len(a) /\ o \in Seq(FileRows)
  BY <1>1, <1>2, <1>3, <1>4 DEF Placed
<1>7. g \in Seq(FileRows) /\ g = Joined(Mine(w), InHand(w))
  <2>1. Mine(w) = file[w] /\ InHand(w) = <<job>> /\ job \in FileRows
    BY DEF Mine, InHand, ThreadInv, QueueTypes, FileRows
  <2>2. g = Joined(Mine(w), InHand(w))
    BY <1>1, <1>5, <2>1, JoinOne
  <2> QED
    BY <1>1, <2>2, JoinFacts
<1>8. g \o o = SubSeq(a, k + 1, Len(a))
  <2>1. Held(w) = Owed(w)
    BY DEF Placed
  <2>2. Held(w) = g \o o
    BY <1>4, <1>7 DEF Held, Joined
  <2> QED
    BY <1>2, <1>3, <2>1, <2>2 DEF Owed
<1>9. PICK n : n = Len(g)
  OBVIOUS
<1>10. n \in Nat /\ Len(o) \in Nat
  BY <1>6, <1>7, <1>9
<1>11. /\ n + Len(o) = Len(a) - k
       /\ \A i \in 1 .. n + Len(o) : (IF i <= n THEN g[i] ELSE o[i - n]) = a[k + i]
  <2>1. PICK u : u = g \o o
    OBVIOUS
  <2>2. /\ Len(u) = n + Len(o)
        /\ \A i \in 1 .. n + Len(o) : u[i] = IF i <= n THEN g[i] ELSE o[i - n]
    BY <1>6, <1>7, <1>9, <2>1, ConcatProperties
  <2>3. Len(u) = Len(a) - k /\ \A i \in 1 .. Len(a) - k : u[i] = a[k + i]
    BY <1>6, <1>8, <2>1, LastRows
  <2> QED
    BY <2>2, <2>3
<1>12. ASSUME NEW i \in 1 .. n
       PROVE  k + i \in 1 .. Len(a) /\ g[i] = a[k + i]
  <2>1. i \in 1 .. n + Len(o) /\ i <= n
    BY <1>10
  <2>2. g[i] = a[k + i]
    BY <1>11, <2>1
  <2>3. k + i \in 1 .. Len(a)
    BY <1>6, <1>10, <1>11
  <2> QED
    BY <2>2, <2>3
<1>13. InSequence(w)
  BY DEF AcceptedInv
<1>14. ASSUME NEW i \in 1 .. n
       PROVE  /\ Timed(g[i]) /\ g[i].session = session
              /\ g[i].result - g[i].integration_id = Offset(w)
  <2>1. PICK l \in 1 .. Len(a) : l = k + i /\ g[i] = a[l]
    BY <1>12
  <2>2. Proper(a[l], w)
    BY <1>2, <1>13 DEF InSequence
  <2> QED
    BY <2>1, <2>2 DEF Proper
<1>15. ASSUME NEW i \in 1 .. n, NEW j \in 1 .. n, i < j
       PROVE  g[i].result < g[j].result
  <2>1. PICK l \in 1 .. Len(a) : l = k + i /\ g[i] = a[l]
    BY <1>12
  <2>2. PICK m \in 1 .. Len(a) : m = k + j /\ g[j] = a[m]
    BY <1>12
  <2>3. l < m
    BY <1>6, <1>10, <1>15, <2>1, <2>2
  <2>4. a[l].result < a[m].result
    BY <1>2, <1>13, <2>3 DEF InSequence
  <2> QED
    BY <2>1, <2>2, <2>4
<1>16. RowsFine(g)
  BY <1>9, <1>14, <1>15 DEF RowsFine, OneSession
<1> QED
  BY <1>5, <1>16

\* A row that was written in part takes nothing from the others.
LEMMA FineTorn ==
  ASSUME NEW f \in Seq(FileRows), RowsFine(f)
  PROVE  RowsFine(Append(f, Torn))
<1>1. PICK g : g = Append(f, Torn)
  OBVIOUS
<1>2. PICK n \in Nat : n = Len(f)
  OBVIOUS
<1>3. Len(g) = n + 1 /\ g[n + 1] = Torn /\ \A i \in 1 .. n : g[i] = f[i]
  <2>1. Torn \in FileRows
    BY DEF FileRows
  <2> QED
    BY <1>1, <1>2, <2>1, AppendProperties
<1>4. ASSUME NEW i \in 1 .. n + 1, g[i] # Torn
      PROVE  i \in 1 .. n
  BY <1>2, <1>3, <1>4
<1>5. RowsFine(g)
  BY <1>2, <1>3, <1>4 DEF RowsFine
<1> QED
  BY <1>1, <1>5

\* Nor does the loss of rows at the end.
LEMMA FinePrefix ==
  ASSUME NEW f \in Seq(FileRows), RowsFine(f), NEW n \in 0 .. Len(f)
  PROVE  RowsFine(SubSeq(f, 1, n))
<1>1. PICK g : g = SubSeq(f, 1, n)
  OBVIOUS
<1>2. Len(f) \in Nat
  OBVIOUS
<1>3. Len(g) = n /\ \A i \in 1 .. n : g[i] = f[i]
  <2>1. \A i \in 1 .. n : f[i] \in FileRows
    BY <1>2
  <2>2. /\ Len(g) = IF 1 <= n THEN n - 1 + 1 ELSE 0
        /\ \A i \in 1 .. n - 1 + 1 : g[i] = f[1 + i - 1]
    BY <1>1, <1>2, <2>1, SubSeqProperties
  <2>3. Len(g) = n /\ n - 1 + 1 = n
    BY <1>2, <2>2
  <2>4. \A i \in 1 .. n : 1 + i - 1 = i
    OBVIOUS
  <2> QED
    BY <2>2, <2>3, <2>4
<1>4. \A i \in 1 .. n : i \in 1 .. Len(f)
  BY <1>2
<1>5. RowsFine(g)
  BY <1>3, <1>4 DEF RowsFine
<1> QED
  BY <1>1, <1>5

\* A file without rows.
LEMMA FineEmpty == RowsFine(<<>>)
<1>1. Len(<<>>) = 0
  OBVIOUS
<1> QED
  BY <1>1 DEF RowsFine

\* A step of the thread.
LEMMA FineWorker ==
  ASSUME ThreadInv, AcceptedInv, alive, Worker, NEW w \in Windows, Placed(w), RowsFine(file[w])
  PROVE  RowsFine(file[w])'
<1>1. file \in [Windows -> Seq(FileRows)] /\ (worker = "write" => job.window \in Windows)
  BY DEF ThreadInv, QueueTypes, Rows
<1>2. CASE file'[w] = file[w]
  BY <1>2
<1>3. CASE Create
  <2>1. file' = [file EXCEPT ![job.window] = <<>>]
    BY <1>3 DEF Create
  <2>2. file'[w] = file[w] \/ file'[w] = <<>>
    BY <1>1, <2>1
  <2> QED
    BY <1>2, <2>2, FineEmpty
<1>4. CASE WriteRow \/ WriteRowFails
  <2>1. worker = "write" /\ job.window \in writers
    BY <1>4 DEF WriteRow, WriteRowFails
  <2>2. \/ file' = file
        \/ /\ ~status[job.window]
           /\ \E r \in {Torn, job} : file' = [file EXCEPT ![job.window] = Append(@, r)]
    BY <1>4 DEF WriteRow, WriteRowFails
  <2>3. ASSUME ~status[job.window], NEW r \in {Torn, job},
               file' = [file EXCEPT ![job.window] = Append(@, r)]
        PROVE  RowsFine(file[w])'
    <3>1. CASE w # job.window
      <4>1. file'[w] = file[w]
        BY <1>1, <2>3, <3>1
      <4> QED
        BY <1>2, <4>1
    <3>2. CASE w = job.window
      <4>1. file'[w] = Append(file[w], r) /\ file[w] \in Seq(FileRows)
        BY <1>1, <2>3, <3>2
      <4>2. RowsFine(Append(file[w], job))
        BY <2>1, <2>3, <3>2, FineWritten
      <4>3. RowsFine(Append(file[w], Torn))
        BY <4>1, FineTorn
      <4>4. RowsFine(Append(file[w], r))
        BY <2>3, <4>2, <4>3
      <4> QED
        BY <4>1, <4>4
    <3> QED
      BY <3>1, <3>2
  <2> QED
    BY <1>2, <2>2, <2>3
<1>5. CASE Wait \/ Pop \/ CreateRefused \/ \E bad \in SUBSET writers : Finish(bad)
  <2>1. file' = file
    BY <1>5 DEF Wait, Pop, CreateRefused, Finish, diskVars
  <2> QED
    BY <1>2, <2>1
<1> QED
  BY <1>3, <1>4, <1>5 DEF Worker


\* The invariant: what was accepted, where it is, and what is in the files.
OutputsInv ==
  /\ AcceptedInv /\ ThreadInv /\ OnDisk /\ local_sdfits \in BOOLEAN
  /\ \A w \in Windows : Placed(w) /\ RowsFine(file[w])

\* A step that leaves the writer alone.
LEMMA OutputsAside ==
  ASSUME ThreadInv, AcceptedInv, \A w \in Windows : Placed(w) /\ RowsFine(file[w]),
         UNCHANGED <<writerVars, alive, accepted, skipped>>
  PROVE  ThreadInv' /\ \A w \in Windows : Placed(w)' /\ RowsFine(file[w])'
<1>1. UNCHANGED <<enabled, stopping, queue, queued_bytes, worker, job, writers, status, file,
                  flushed>>
  BY DEF writerVars, queueVars, diskVars
<1>2. ThreadInv'
  BY <1>1 DEF ThreadInv, QueueTypes, BytesCounted, Closing
<1>3. ASSUME NEW w \in Windows
      PROVE  Placed(w)' /\ RowsFine(file[w])'
  <2>1. /\ Mine(w)' = Mine(w) /\ InHand(w)' = InHand(w) /\ OfWindow(queue, w)' = OfWindow(queue, w)
    BY <1>1 DEF Mine, InHand
  <2> QED
    BY <1>1, <2>1, PlacedAside
<1> QED
  BY <1>2, <1>3

\* A step of the thread.
LEMMA OutputsWorker ==
  ASSUME OutputsInv, alive, WriterThread
  PROVE  ThreadInv' /\ \A w \in Windows : Placed(w)' /\ RowsFine(file[w])'
<1>1. /\ Worker /\ accepted' = accepted /\ alive' = alive
      /\ skipped' = IF worker = "write" /\ job.window \notin writers /\ worker' = "check"
                      THEN [skipped EXCEPT ![job.window] = @ + 1] ELSE skipped
  BY DEF WriterThread, processVars
<1>2. ThreadInv /\ AcceptedInv /\ OnDisk /\ \A w \in Windows : Placed(w) /\ RowsFine(file[w])
  BY DEF OutputsInv
<1>3. \A w \in Windows : RowsFine(file[w])'
  BY <1>1, <1>2, FineWorker
<1>4. CASE Wait
  <2>1. /\ worker = "check" /\ worker' = "asleep"
        /\ UNCHANGED <<queue, job, writers, status, file>>
    BY <1>4 DEF Wait, queueVars, diskVars
  <2>2. skipped' = skipped
    BY <1>1, <2>1
  <2>3. ThreadInv'
    BY <1>1, <1>2, <1>4, <2>2, ThreadTakes
  <2>4. ASSUME NEW w \in Windows
        PROVE  Placed(w)'
    <3>1. /\ Mine(w)' = Mine(w) /\ InHand(w)' = InHand(w)
          /\ OfWindow(queue, w)' = OfWindow(queue, w)
      BY <2>1 DEF Mine, InHand
    <3> QED
      BY <1>1, <1>2, <2>1, <2>2, <3>1, PlacedAside
  <2> QED
    BY <1>3, <2>3, <2>4
<1>5. CASE Pop
  <2>1. skipped' = skipped
    BY <1>1, <1>5 DEF Pop
  <2> QED
    BY <1>1, <1>2, <1>3, <1>5, <2>1, ThreadTakes, PlacedPop
<1>6. CASE Create
  <2>1. skipped' = skipped
    BY <1>1, <1>6 DEF Create
  <2> QED
    BY <1>1, <1>2, <1>3, <1>6, <2>1, ThreadCreates, PlacedCreate
<1>7. CASE CreateRefused
  <2>1. skipped' = [skipped EXCEPT ![job.window] = @ + 1]
    BY <1>1, <1>7 DEF CreateRefused, JobDone
  <2> QED
    BY <1>1, <1>2, <1>3, <1>7, <2>1, ThreadCreates, PlacedCreate
<1>8. CASE WriteRow \/ WriteRowFails
  <2>1. worker = "write" /\ job.window \in writers /\ JobDone /\ writers' = writers
    BY <1>8 DEF WriteRow, WriteRowFails
  <2>2. skipped' = skipped
    BY <1>1, <2>1
  <2>3. \A w \in Windows : Placed(w)'
    BY <1>1, <1>2, <1>8, <2>2, PlacedWrite
  <2>4. job \in FileRows /\ Torn \in FileRows
    BY <1>2, <2>1 DEF ThreadInv, QueueTypes, FileRows
  <2>5. PICK v : v = job.window
    OBVIOUS
  <2>6. v \in Windows
    BY <1>2, <2>1, <2>5 DEF ThreadInv, QueueTypes, Rows
  <2>7. file' = file \/ \E x \in FileRows : file' = [file EXCEPT ![v] = Append(@, x)]
    BY <1>8, <2>4, <2>5 DEF WriteRow, WriteRowFails
  <2>8. flushed' = flushed \/ \E n \in Nat : flushed' = [flushed EXCEPT ![v] = n]
    <3>1. CASE WriteRow
      <4>1. PICK n : n = Len(file[v]) + 1
        OBVIOUS
      <4>2. n \in Nat /\ flushed[v] \in Nat
        BY <1>2, <2>6, <4>1 DEF ThreadInv, QueueTypes
      <4>3. flushed' = [flushed EXCEPT ![v] = IF n % FlushRows = 0 THEN n ELSE flushed[v]]
        BY <2>5, <3>1, <4>1 DEF WriteRow
      <4> QED
        BY <4>2, <4>3
    <3>2. CASE WriteRowFails
      BY <3>2 DEF WriteRowFails
    <3> QED
      BY <1>8, <3>1, <3>2
  <2>9. status' = status \/ status' = [status EXCEPT ![v] = TRUE]
    BY <1>8, <2>5 DEF WriteRow, WriteRowFails
  <2>10. ThreadInv'
    BY <1>1, <1>2, <2>1, <2>2, <2>5, <2>6, <2>7, <2>8, <2>9, ThreadWrites
  <2> QED
    BY <1>3, <2>3, <2>10
<1>9. ASSUME NEW bad, Finish(bad)
      PROVE  ThreadInv' /\ \A w \in Windows : Placed(w)'
  <2>1. worker = "check" /\ worker' = "ended"
    BY <1>9 DEF Finish
  <2>2. skipped' = skipped
    BY <1>1, <2>1
  <2>3. ThreadInv'
    BY <1>1, <1>2, <1>9, <2>2, ThreadEnds
  <2>4. \A w \in Windows : Placed(w)'
    BY <1>1, <1>2, <2>1, <2>2, PlacedAside
  <2> QED
    BY <2>3, <2>4
<1> QED
  BY <1>1, <1>3, <1>4, <1>5, <1>6, <1>7, <1>8, <1>9 DEF Worker

\* main() ends, up to the end of the process.
LEMMA OutputsMainEnds ==
  ASSUME OutputsInv, alive, MainEnds
  PROVE  ThreadInv' /\ \A w \in Windows : Placed(w)' /\ RowsFine(file[w])'
<1>1. /\ UNCHANGED <<queue, queued_bytes, job, writers, status, file, flushed, accepted, skipped,
                     alive>>
  BY DEF MainEnds, Shutdown, Join, diskVars, processVars, history
<1>2. ThreadInv /\ AcceptedInv /\ \A w \in Windows : Placed(w) /\ RowsFine(file[w])
  BY DEF OutputsInv
<1>3. \/ enabled /\ ~stopping /\ worker' = Awake /\ enabled' = enabled /\ stopping'
      \/ worker' = worker /\ worker = "ended" /\ enabled' = FALSE /\ stopping' = stopping
  BY DEF MainEnds, Shutdown, Join
<1>4. /\ worker' = "write" <=> worker = "write"
      /\ worker' = "ended" <=> worker = "ended"
  BY <1>3 DEF Awake
<1>5. QueueTypes'
  BY <1>1, <1>2, <1>4 DEF ThreadInv, QueueTypes
<1>6. BytesCounted'
  BY <1>1, <1>2 DEF ThreadInv, BytesCounted
<1>7. Closing'
  <2>1. Closing
    BY <1>2 DEF ThreadInv
  <2>2. worker' = "ended" => writers' = {} /\ (enabled' => stopping' /\ queue' = <<>>)
    BY <1>1, <1>3, <1>4, <2>1 DEF Closing
  <2> QED
    BY <1>1, <1>4, <2>1, <2>2 DEF Closing
<1>8. ASSUME NEW w \in Windows
      PROVE  Placed(w)' /\ RowsFine(file[w])'
  <2>1. Mine(w)' = Mine(w) /\ InHand(w)' = InHand(w) /\ OfWindow(queue, w)' = OfWindow(queue, w)
    BY <1>1, <1>4 DEF Mine, InHand
  <2> QED
    BY <1>1, <1>2, <1>4, <2>1, PlacedAside
<1> QED
  BY <1>5, <1>6, <1>7, <1>8 DEF ThreadInv

\* Rows that nobody has accepted yet.
LEMMA PlacedFresh ==
  ASSUME accepted = [w \in Windows |-> <<>>], skipped = [w \in Windows |-> 0], queue = <<>>,
         writers = {}, worker # "write", NEW w \in Windows
  PROVE  Placed(w)
<1>1. accepted[w] = <<>> /\ skipped[w] = 0 /\ Len(<<>>) = 0
  OBVIOUS
<1>2. Mine(w) = <<>> /\ InHand(w) = <<>> /\ OfWindow(queue, w) = <<>>
  BY OfWindowEmpty DEF Mine, InHand
<1>3. Held(w) = <<>>
  BY <1>2 DEF Held, Joined
<1>4. Owed(w) = <<>>
  BY <1>1 DEF Owed
<1> QED
  BY <1>1, <1>3, <1>4 DEF Placed

\* The same in the next state.
LEMMA PlacedFreshNext ==
  ( accepted = [w \in Windows |-> <<>>] /\ skipped = [w \in Windows |-> 0] /\ queue = <<>>
    /\ writers = {} /\ worker # "write" => \A w \in Windows : Placed(w) )'
<1>1. accepted = [w \in Windows |-> <<>>] /\ skipped = [w \in Windows |-> 0] /\ queue = <<>>
      /\ writers = {} /\ worker # "write" => \A w \in Windows : Placed(w)
  BY PlacedFresh
<1> QED
  BY <1>1, PTL

\* The process is killed, or started again.
LEMMA OutputsProcess ==
  ASSUME OutputsInv, OnDisk', Kill \/ Restart
  PROVE  ThreadInv' /\ \A w \in Windows : Placed(w)' /\ RowsFine(file[w])'
<1>1. ThreadInv /\ AcceptedInv /\ OnDisk /\ \A w \in Windows : Placed(w) /\ RowsFine(file[w])
  BY DEF OutputsInv
<1>2. PICK on \in BOOLEAN : Configure(on) /\ (alive' = on \/ alive')
  BY DEF Kill, Restart, OutputsInv
<1>3. \/ DiskAfterCrash
      \/ ~alive /\ UNCHANGED <<file, flushed>>
  BY DEF Kill, Restart
<1>4. skipped' = [w \in Windows |-> 0] /\ accepted' = [w \in Windows |-> <<>>]
  <2>1. CASE Kill
    BY <2>1 DEF Kill
  <2>2. CASE Restart
    <3>1. ~alive /\ skipped' = skipped /\ accepted' = accepted
      BY <2>2 DEF Restart, history
    <3>2. skipped \in [Windows -> Nat] /\ \A w \in Windows : skipped[w] = 0
      BY <1>1, <3>1 DEF ThreadInv, QueueTypes, Closing
    <3>3. skipped = [w \in Windows |-> 0]
      BY <3>2
    <3> QED
      BY <1>1, <3>1, <3>3 DEF AcceptedInv
  <2> QED
    BY <2>1, <2>2
<1>5. ThreadInv'
  BY <1>1, <1>2, <1>3, <1>4, ThreadConfigured
<1>6. \A w \in Windows : Placed(w)'
  <2>1. queue' = <<>> /\ writers' = {} /\ worker' # "write"
    BY <1>2 DEF Configure
  <2> QED
    BY <1>4, <2>1, PlacedFreshNext
<1>7. ASSUME NEW w \in Windows
      PROVE  RowsFine(file[w])'
  <2>1. CASE UNCHANGED <<file, flushed>>
    BY <1>1, <2>1
  <2>2. CASE DiskAfterCrash
    <3>1. w \in Bands /\ file[w] \in Seq(FileRows)
      BY <1>1, OutputsAssumption DEF ThreadInv, QueueTypes
    <3>2. flushed[w] \in 0 .. Len(file[w]) /\ Len(file[w]) \in 0 .. Len(file[w])
      <4>1. flushed[w] \in 0 .. Len(file[w])
        BY <1>1, <3>1 DEF OnDisk
      <4>2. Len(file[w]) \in 0 .. Len(file[w])
        BY <3>1
      <4> QED
        BY <4>1, <4>2
    <3>3. PICK n \in 0 .. Len(file[w]) : file'[w] = SubSeq(file[w], 1, n)
      BY <2>2, <3>1, <3>2 DEF DiskAfterCrash
    <3>4. RowsFine(SubSeq(file[w], 1, n))
      BY <1>1, <3>1, FinePrefix
    <3> QED
      BY <3>3, <3>4
  <2> QED
    BY <1>3, <2>1, <2>2
<1> QED
  BY <1>5, <1>6, <1>7

\* Every step.
LEMMA OutputsNext ==
  ASSUME OutputsInv, [Next]_vars
  PROVE  OutputsInv'
<1>1. AcceptedInv' /\ OnDisk'
  BY AcceptedNext, DiskNext DEF OutputsInv
<1>2. local_sdfits' = local_sdfits
  BY DEF Next, Running, SendData, Prepare, EnqueueRow, StartSend, FinishSend, WriterThread,
     MainEnds, Kill, Restart, vars, processVars
<1>3. ThreadInv /\ AcceptedInv /\ \A w \in Windows : Placed(w) /\ RowsFine(file[w])
  BY DEF OutputsInv
<1> DEFINE goal == ThreadInv' /\ \A w \in Windows : Placed(w)' /\ RowsFine(file[w])'
<1> SUFFICES goal
  BY <1>1, <1>2 DEF OutputsInv
<1>4. ASSUME alive, NEW good \in SUBSET Windows, Prepare(good)
      PROVE  goal
  BY <1>3, <1>4, OutputsAside DEF Prepare, processVars, history
<1>5. CASE alive /\ EnqueueRow
  <2>1. ThreadInv'
    BY <1>3, <1>5, ThreadEnqueue
  <2>2. CASE Accepts
    <3>1. file' = file
      BY <1>5, <2>2 DEF EnqueueRow, Enqueue, diskVars
    <3> QED
      BY <1>3, <1>5, <2>1, <2>2, <3>1, PlacedEnqueue
  <2>3. CASE ~Accepts
    <3>1. accepted' = [accepted EXCEPT ![Window] = accepted[Window]]
      BY <1>5, <2>3 DEF EnqueueRow
    <3>2. accepted' = accepted
      BY <1>3, <3>1 DEF AcceptedInv, SendTypes
    <3> QED
      BY <1>3, <1>5, <2>3, <3>2, OutputsAside DEF EnqueueRow, Enqueue, processVars
  <2> QED
    BY <2>2, <2>3
<1>6. CASE alive /\ (StartSend \/ FinishSend)
  BY <1>3, <1>6, OutputsAside DEF StartSend, FinishSend, processVars, history
<1>7. CASE alive /\ WriterThread
  BY <1>7, OutputsWorker
<1>8. CASE alive /\ MainEnds
  BY <1>8, OutputsMainEnds
<1>9. CASE Kill \/ Restart
  BY <1>1, <1>9, OutputsProcess
<1>10. CASE Network /\ UNCHANGED <<writerVars, sendVars, processVars, history, faults>>
  BY <1>3, <1>10, OutputsAside DEF processVars, history
<1>11. CASE UNCHANGED vars
  BY <1>3, <1>11, OutputsAside DEF vars, processVars, history
<1> QED
  BY <1>4, <1>5, <1>6, <1>7, <1>8, <1>9, <1>10, <1>11 DEF Next, Running, SendData

\* The first state.
LEMMA OutputsInit ==
  ASSUME Init
  PROVE  OutputsInv
<1>1. /\ enabled \in BOOLEAN /\ stopping = FALSE /\ queue = <<>> /\ queued_bytes = 0
      /\ worker = (IF enabled THEN "check" ELSE "ended") /\ writers = {}
      /\ status = [w \in Windows |-> FALSE] /\ file = [w \in Windows |-> <<>>]
      /\ flushed = [w \in Windows |-> 0] /\ local_sdfits = enabled /\ alive = TRUE
      /\ session = 1 /\ result = 1 /\ win = 1 /\ integration_id = [w \in Windows |-> 0]
      /\ accepted = [w \in Windows |-> <<>>] /\ skipped = [w \in Windows |-> 0]
  BY OutputsAssumption DEF Init, WriterInit
<1>2. <<>> \in Seq(Rows) /\ <<>> \in Seq(FileRows) /\ Len(<<>>) = 0
  OBVIOUS
<1>3. AcceptedInv
  <2>1. accepted \in [Windows -> Seq(Rows)] /\ integration_id \in [Windows -> Int]
    BY <1>1, <1>2
  <2>2. session \in 1 .. MaxSessions /\ result \in Nat \ {0} /\ win \in 1 .. Len(WindowOrder)
    BY <1>1, OutputsAssumption, OrderFacts
  <2>3. SendTypes
    BY <2>1, <2>2 DEF SendTypes
  <2>4. ASSUME NEW w \in Windows
        PROVE  InSequence(w)
    <3>1. Len(accepted[w]) = 0
      BY <1>1, <1>2
    <3> QED
      BY <3>1 DEF InSequence
  <2> QED
    BY <1>1, <2>3, <2>4 DEF AcceptedInv
<1>4. ThreadInv
  <2>1. QueueTypes
    BY <1>1, <1>2 DEF QueueTypes
  <2>2. BytesCounted
    BY <1>1, <1>2, WriterAssumption DEF BytesCounted
  <2>3. Closing
    BY <1>1, <1>2 DEF Closing
  <2> QED
    BY <2>1, <2>2, <2>3 DEF ThreadInv
<1>5. ASSUME NEW w \in Windows
      PROVE  Placed(w) /\ RowsFine(file[w])
  BY <1>1, PlacedFresh, FineEmpty
<1> QED
  BY <1>1, <1>3, <1>4, <1>5, DiskInit DEF OutputsInv

\* In every file the rows are of one session, in order and with the numbers of
\* their results; while nothing has failed, every row that enqueue() took is in
\* the file, in hand or in the queue; queued_bytes_ is exact; and the thread
\* ends with everything on the disk.  For all sizes of the queue, any number of
\* windows and of restarts.
THEOREM RowsKept == Spec => []RowsInOrder
<1>1. Init => OutputsInv
  BY OutputsInit
<1>2. OutputsInv /\ [Next]_vars => OutputsInv'
  BY OutputsNext
<1>3. OutputsInv => RowsInOrder
  <2> SUFFICES ASSUME OutputsInv
               PROVE  RowsInOrder
    OBVIOUS
  <2>1. ThreadInv /\ AcceptedInv /\ \A w \in Windows : Placed(w) /\ RowsFine(file[w])
    BY DEF OutputsInv
  <2>2. queued_bytes = RowBytes * Len(queue) /\ queued_bytes <= MaxQueueBytes
    BY <2>1 DEF ThreadInv, BytesCounted
  <2>3. ASSUME NEW w \in Windows
        PROVE  \A i, j \in Whole(w) :
                 LET a == file[w][i]
                     b == file[w][j]
                 IN /\ a.session = b.session
                    /\ a.result - a.integration_id = b.result - b.integration_id
                    /\ i < j => a.result < b.result
    <3>1. DOMAIN file[w] = 1 .. Len(file[w])
      BY <2>1 DEF ThreadInv, QueueTypes
    <3> QED
      BY <2>1, <3>1 DEF Whole, RowsFine, OneSession
  <2>4. ASSUME NEW w \in Windows, alive, w \in writers, ~status[w]
        PROVE  file[w] \o InHand(w) \o OfWindow(queue, w)
                 = SubSeq(accepted[w], skipped[w] + 1, Len(accepted[w]))
    <3>1. worker # "ended"
      BY <2>1, <2>4 DEF ThreadInv, Closing
    <3>2. Held(w) = Owed(w)
      BY <2>1, <2>4, <3>1 DEF Placed
    <3> QED
      BY <2>4, <3>2 DEF Held, Owed, Mine, Joined
  <2>5. ASSUME NEW w \in Windows, enabled, worker = "ended", ~status[w]
        PROVE  queue = <<>> /\ flushed[w] = Len(file[w])
    BY <2>1, <2>5 DEF ThreadInv, Closing
  <2> QED
    BY <2>2, <2>3, <2>4, <2>5 DEF RowsInOrder
<1> QED
  BY <1>1, <1>2, <1>3, PTL DEF Spec

\* The TIME of every whole row of every file is right, for every table of leap
\* seconds and of reference epochs.
THEOREM TimesRight == Spec => []RowTimesCorrect
<1>1. Init => OutputsInv
  BY OutputsInit
<1>2. OutputsInv /\ [Next]_vars => OutputsInv'
  BY OutputsNext
<1>3. OutputsInv => RowTimesCorrect
  <2> SUFFICES ASSUME OutputsInv, NEW w \in Windows, NEW i \in Whole(w)
               PROVE  Timed(file[w][i])
    BY DEF RowTimesCorrect, Timed
  <2>1. DOMAIN file[w] = 1 .. Len(file[w])
    BY DEF OutputsInv, ThreadInv, QueueTypes
  <2> QED
    BY <2>1 DEF OutputsInv, Whole, RowsFine
<1> QED
  BY <1>1, <1>2, <1>3, PTL DEF Spec
=============================================================================
