--------------------------- MODULE ResultOutputs ----------------------------
(***************************************************************************)
(* What becomes of a result: the thread send_data() of a subband           *)
(* (src/include/DoPFBFFT.hpp) gives every window of every result to the    *)
(* local SDFITS writer and then to the sender of the window.  The process  *)
(* may end at any time, by a signal or because dpdk() returned, and may be *)
(* started again with the same configuration and output folder.            *)
(*                                                                         *)
(* The ring the results come from is the subject of ResultRing.            *)
(***************************************************************************)
EXTENDS LocalSdfitsWriter, SpectrumSender, VdifTime

CONSTANTS
  WindowOrder,         \* the windows of the subband, in their order
  ArmedEpoch,          \* reference epoch of the packets in each session
  FirstPacket,         \* first packet id of a result in each session
  MaxResults,          \* results (bound)
  MaxSessions          \* times the process is started (bound)

ASSUME OutputsAssumption ==
  /\ WindowOrder \in Seq(Windows) /\ WindowOrder # <<>>
  /\ Windows = {WindowOrder[i] : i \in DOMAIN WindowOrder}
  /\ \A i, j \in DOMAIN WindowOrder : WindowOrder[i] = WindowOrder[j] => i = j
  /\ Bands = Windows
  /\ MaxResults \in Nat /\ MaxSessions \in Nat \ {0}
  /\ \A s \in 1 .. MaxSessions :
       /\ ArmedEpoch[s] \in Epochs
       /\ \A n \in 1 .. MaxResults : FirstPacket[s][n] \in Nat

VARIABLES
  local_sdfits,     \* local_sdfits_enabled of the configuration
  alive,            \* the process runs
  session,          \* how many times it was started
  step,             \* send_data(): "prepare", "enqueue", "number", "send"
  result,           \* the result it is at
  win,              \* index of the window it is at
  integration_id,   \* of the header of each window
  \* History.
  accepted,         \* rows the local writer took in this session
  skipped           \* how many of them were lost for want of a file

sendVars == <<step, result, win, integration_id>>
processVars == <<local_sdfits, alive, session>>
history == <<accepted, skipped>>
vars == <<writerVars, senderVars, sendVars, processVars, history, faults>>

Window == WindowOrder[win]

Init ==
  /\ WriterInit /\ SenderInit
  /\ local_sdfits = enabled
  /\ faults = 0
  /\ alive = TRUE
  /\ session = 1
  /\ step = "prepare"
  /\ result = 1
  /\ win = 1
  /\ integration_id = [w \in Windows |-> 0]
  /\ accepted = [w \in Windows |-> <<>>]
  /\ skipped = [w \in Windows |-> 0]

\* integration_start_ns of result n: the time of its first packet, less the
\* group delay of the filter.
IntegrationStart(n) ==
  LET packet == FirstPacket[session][n] IN
  CompensateDelay(VdifToTimestamp(ArmedEpoch[session], packet \div FramesPerSecond,
                                  packet % FramesPerSecond),
                  PfbGroupDelay)

Row == [window |-> Window, session |-> session, result |-> result,
        integration_id |-> integration_id[Window], time |-> IntegrationStart(result)]

Message == [sequence |-> next_sequence[Window] - 1,
            integration_id |-> integration_id[Window]]

(***************************************************************************)
(* send_data().                                                            *)
(***************************************************************************)
\* prepare() for every window; the wait for the peers decides nothing.
Prepare(good) ==
  /\ step = "prepare"
  /\ good # Windows => faults < MaxFaults
  /\ faults' = IF good = Windows THEN faults ELSE faults + 1
  /\ PrepareSockets(good)
  /\ step' = "enqueue"
  /\ UNCHANGED <<writerVars, result, win, integration_id, processVars, history>>

\* The slot of the ring is in use: enqueue() for one of its windows.
EnqueueRow ==
  /\ step = "enqueue" /\ result <= MaxResults
  /\ Enqueue(Row)
  /\ accepted' = [accepted EXCEPT ![Window] = IF Accepts THEN Append(@, Row) ELSE @]
  /\ step' = "number"
  /\ UNCHANGED <<senderVars, result, win, integration_id, processVars, skipped, faults>>

\* ++integration_id, whether the result was sent or not, and the next window
\* or the next slot of the ring.
NextWindow ==
  /\ integration_id' = [integration_id EXCEPT ![Window] = @ + 1]
  /\ step' = "enqueue"
  /\ IF win < Len(WindowOrder) THEN win' = win + 1 /\ UNCHANGED result
                               ELSE win' = 1 /\ result' = result + 1

\* send_spectrum: no socket, no writable peer, or on to the message.
StartSend ==
  /\ step = "number"
  /\ \/ NoSocket(Window) /\ faults < MaxFaults /\ faults' = faults + 1 /\ NextWindow
     \/ Number(Window) /\ ~Writable(Window) /\ UNCHANGED faults /\ NextWindow
     \/ /\ Number(Window) /\ Writable(Window)
        /\ step' = "send"
        /\ UNCHANGED <<faults, result, win, integration_id>>
  /\ UNCHANGED <<writerVars, processVars, history>>

\* The message is sent, or there is no memory for it.
FinishSend ==
  /\ step = "send"
  /\ \/ Transmit(Window, Message) /\ UNCHANGED faults
     \/ UNCHANGED senderVars /\ faults < MaxFaults /\ faults' = faults + 1
  /\ NextWindow
  /\ UNCHANGED <<writerVars, processVars, history>>

SendData == (\E good \in SUBSET Windows : Prepare(good))
              \/ EnqueueRow \/ StartSend \/ FinishSend

(***************************************************************************)
(* The other threads and the process.                                      *)
(***************************************************************************)
\* A step of the writer thread; rows that find no file are counted.
WriterThread ==
  /\ Worker
  /\ skipped' = IF worker = "write" /\ job.window \notin writers /\ worker' = "check"
                  THEN [skipped EXCEPT ![job.window] = @ + 1] ELSE skipped
  /\ UNCHANGED <<senderVars, sendVars, processVars, accepted>>

\* dpdk() has returned and main() ends: the destructor of the local writer.
MainEnds == /\ Shutdown \/ Join
            /\ UNCHANGED <<senderVars, sendVars, processVars, history>>

\* A signal, or the end of main(): the memory of the process is gone.
Kill ==
  /\ alive' = FALSE
  /\ DiskAfterCrash
  /\ Configure(FALSE) /\ SenderStart
  /\ step' = "none" /\ win' = 1
  /\ integration_id' = [w \in Windows |-> 0]
  /\ accepted' = [w \in Windows |-> <<>>]
  /\ skipped' = [w \in Windows |-> 0]
  /\ UNCHANGED <<local_sdfits, session, result, faults>>

Running == \/ SendData \/ WriterThread \/ MainEnds \/ Kill
           \/ Network /\ UNCHANGED <<writerVars, sendVars, processVars, history, faults>>

\* The program is started again, with the folder and the files it finds; a
\* result is lost in the meantime.
Restart ==
  /\ ~alive /\ session < MaxSessions
  /\ alive' = TRUE
  /\ session' = session + 1
  /\ Configure(local_sdfits)
  /\ step' = "prepare"
  /\ result' = result + 1
  /\ UNCHANGED <<present, file, flushed, faults, senderVars, win, integration_id,
                 local_sdfits, history>>

Next == (alive /\ Running) \/ Restart

\* The writer thread runs as long as the process does.
Fairness == WF_vars(alive /\ WriterThread)

Spec == Init /\ [][Next]_vars /\ Fairness

(***************************************************************************)
(* Correctness.                                                            *)
(***************************************************************************)
\* The rows of window w among rows, in their order.
OfWindow(rows, w) ==
  LET first[n \in 0 .. Len(rows)] ==
        IF n = 0 THEN <<>> ELSE
        IF rows[n].window = w THEN Append(first[n - 1], rows[n]) ELSE first[n - 1]
  IN first[Len(rows)]

\* The row the thread has in hand, if it is one of window w.
InHand(w) == IF worker = "write" /\ job.window = w THEN <<job>> ELSE <<>>

\* The rows of a file that were written completely, by their index.
Whole(w) == {i \in DOMAIN file[w] : file[w][i] # Torn}

\* A file holds rows of one session only, each with the integration_id of its
\* result, in order.  While no error has occurred on it, the rows enqueue()
\* accepted are all in the file, in hand or in the queue: none twice, none
\* overtaken, none missing.  queued_bytes_ is exact, so that the limit of the
\* queue holds.  When the thread has ended every accepted row is on the disk.
RowsInOrder ==
  /\ queued_bytes = RowBytes * Len(queue) /\ queued_bytes <= MaxQueueBytes
  /\ \A w \in Windows :
       /\ \A i, j \in Whole(w) :
            LET a == file[w][i]
                b == file[w][j]
            IN /\ a.session = b.session
               /\ a.result - a.integration_id = b.result - b.integration_id
               /\ i < j => a.result < b.result
       /\ alive /\ w \in writers /\ ~status[w] =>
            file[w] \o InHand(w) \o OfWindow(queue, w)
              = SubSeq(accepted[w], skipped[w] + 1, Len(accepted[w]))
       /\ alive /\ enabled /\ worker = "ended" /\ ~status[w] =>
            queue = <<>> /\ flushed[w] = Len(file[w])

\* TIME of every row is the UTC of the first packet of its integration less
\* the group delay of the filter, whichever reference epoch the packets have,
\* across leap seconds.
RowTimesCorrect ==
  \A w \in Windows : \A i \in Whole(w) :
    LET row == file[w][i]
        packet == FirstPacket[row.session][row.result]
    IN row.time + PfbGroupDelay
         = ReferenceTime(ArmedEpoch[row.session], packet \div FramesPerSecond,
                         packet % FramesPerSecond)

\* The Writer sees every loss after the first message: from a message it
\* gets to the next one of the process, as many sequence numbers are missing
\* as integrations, whether they were lost in a disconnection, for want of a
\* peer or of memory; and no message comes twice or late.
GapsCountLosses ==
  [][\A w \in Windows : received[w] # <<>> /\ received'[w] \notin {<<>>, received[w]} =>
       LET a == received[w][1]
           b == received'[w][1]
       IN /\ a.sequence < b.sequence
          /\ b.sequence - a.sequence = b.integration_id - a.integration_id]_vars

\* No step, a crash and a restart included, changes or removes a row that was
\* flushed.
FlushedRowsStay ==
  [][\A w \in Windows : /\ flushed'[w] >= flushed[w]
                        /\ SubSeq(file'[w], 1, flushed[w])
                             = SubSeq(file[w], 1, flushed[w])]_vars

\* Every row in the queue is taken care of, and shutdown() ends, unless the
\* process is killed first.
QueueIsServed == /\ queue # <<>> ~> queue = <<>>
                 /\ stopping ~> (~stopping \/ worker = "ended")
=============================================================================
