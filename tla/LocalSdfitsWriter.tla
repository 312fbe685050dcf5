------------------------- MODULE LocalSdfitsWriter --------------------------
(***************************************************************************)
(* The local sink of spectra: LocalSdfitsWriter (a bounded queue of rows   *)
(* behind a mutex and a condition variable, and a thread that empties it)  *)
(* and the sdfits class, one file per window, that it writes with CFITSIO. *)
(*                                                                         *)
(* CFITSIO is modelled from its use: an error status stays set, and a call *)
(* with an error status does nothing; rows are on the disk for certain     *)
(* once the file is flushed.  An action holds the mutex or belongs to the  *)
(* thread alone.                                                           *)
(***************************************************************************)
EXTENDS Integers, Sequences

CONSTANTS
  Bands,           \* the BandKeys: the windows, one file each
  RowBytes,        \* bytes of a row
  MaxQueueBytes,   \* max_queue_bytes_
  FlushRows,       \* rows between two flushes: 8
  MaxFaults        \* failures of the disk and of ZeroMQ (bound)

ASSUME WriterAssumption ==
  /\ RowBytes \in Nat \ {0} /\ MaxQueueBytes \in Nat \ {0}
  /\ FlushRows \in Nat \ {0} /\ MaxFaults \in Nat

VARIABLES
  enabled,        \* enabled_
  stopping,       \* stopping_
  queue,          \* queue_: rows, each with its window
  queued_bytes,   \* queued_bytes_
  worker,         \* run(): "check", "asleep", "write" or "ended"
  job,            \* the row taken from the queue, while worker = "write"
  writers,        \* windows with an sdfits object in writers_
  status,         \* CFITSIO error in the object of a window
  present,        \* the directory: windows that have a file
  file,           \* rows of these files
  flushed,        \* rows of it that are on the disk for certain
  faults

queueVars == <<enabled, stopping, queue, queued_bytes>>
diskVars == <<writers, status, present, file, flushed>>
writerVars == <<queueVars, worker, job, diskVars>>

NoJob == [window |-> "none"]
Torn == [window |-> "torn"]   \* a row that was written in part

\* A process that has just been started and calls configure(on).
Configure(on) ==
  /\ enabled' = on
  /\ stopping' = FALSE
  /\ queue' = <<>> /\ queued_bytes' = 0
  /\ worker' = IF on THEN "check" ELSE "ended"
  /\ job' = NoJob
  /\ writers' = {}
  /\ status' = [w \in Bands |-> FALSE]

WriterInit ==
  /\ enabled \in BOOLEAN
  /\ stopping = FALSE
  /\ queue = <<>> /\ queued_bytes = 0
  /\ worker = IF enabled THEN "check" ELSE "ended"
  /\ job = NoJob
  /\ writers = {}
  /\ status = [w \in Bands |-> FALSE]
  /\ present = {}
  /\ file = [w \in Bands |-> <<>>]
  /\ flushed = [w \in Bands |-> 0]

(***************************************************************************)
(* Callers.                                                                *)
(***************************************************************************)
\* notify_one, notify_all
Awake == IF worker = "asleep" THEN "check" ELSE worker

Accepts == enabled /\ ~stopping /\ queued_bytes + RowBytes <= MaxQueueBytes

\* Without notify_one.
Enqueue_NoNotify(row) ==
  IF Accepts
    THEN /\ queue' = Append(queue, row)
         /\ queued_bytes' = queued_bytes + RowBytes
         /\ UNCHANGED <<enabled, stopping, worker, job, diskVars>>
    ELSE UNCHANGED writerVars

\* enqueue: the row is queued, or dropped when the queue is full or closing.
Enqueue(row) ==
  IF Accepts
    THEN /\ queue' = Append(queue, row)
         /\ queued_bytes' = queued_bytes + RowBytes
         /\ worker' = Awake
         /\ UNCHANGED <<enabled, stopping, job, diskVars>>
    ELSE UNCHANGED writerVars

\* shutdown(), up to its join.
Shutdown ==
  /\ enabled /\ ~stopping
  /\ stopping' = TRUE
  /\ worker' = Awake
  /\ UNCHANGED <<enabled, queue, queued_bytes, job, diskVars, faults>>

\* The rest of it.
Join ==
  /\ enabled /\ stopping /\ worker = "ended"
  /\ enabled' = FALSE
  /\ UNCHANGED <<stopping, queue, queued_bytes, worker, job, diskVars, faults>>

(***************************************************************************)
(* run().                                                                  *)
(***************************************************************************)
Wait ==
  /\ worker = "check"
  /\ queue = <<>> /\ ~stopping
  /\ worker' = "asleep"
  /\ UNCHANGED <<queueVars, job, diskVars, faults>>

Pop ==
  /\ worker = "check"
  /\ queue # <<>>
  /\ job' = Head(queue)
  /\ queue' = Tail(queue)
  /\ queued_bytes' = queued_bytes - RowBytes
  /\ worker' = "write"
  /\ UNCHANGED <<enabled, stopping, diskVars, faults>>

\* The thread ends without emptying the queue.
MayEnd_AtOnce == stopping

MayEnd == stopping /\ queue = <<>>

\* sdfits_close of every file, which flushes it unless the close fails, as it
\* does for those in bad.
CloseFiles(bad) ==
  /\ bad \subseteq writers
  /\ bad # {} => faults < MaxFaults
  /\ faults' = IF bad = {} THEN faults ELSE faults + 1
  /\ flushed' = [w \in Bands |-> IF w \in writers \ bad THEN Len(file[w])
                                                         ELSE flushed[w]]
  /\ status' = [w \in Bands |-> w \in bad]

\* The loop ends.
Finish(bad) ==
  /\ worker = "check" /\ MayEnd
  /\ CloseFiles(bad)
  /\ writers' = {}
  /\ worker' = "ended"
  /\ UNCHANGED <<queueVars, job, present, file>>

\* The row of the job is settled: the thread looks at the queue again.
JobDone == worker' = "check" /\ job' = NoJob /\ UNCHANGED queueVars

\* A file that is there is opened anew.
MayCreate_Overwrites(w) == w \notin writers

\* access(filename) finds no file.
MayCreate(w) == w \notin writers /\ w \notin present

\* get_or_create_writer and sdfits_create: a new, flushed file.
Create ==
  /\ worker = "write" /\ MayCreate(job.window)
  /\ present' = present \cup {job.window}
  /\ file' = [file EXCEPT ![job.window] = <<>>]
  /\ flushed' = [flushed EXCEPT ![job.window] = 0]
  /\ writers' = writers \cup {job.window}
  /\ UNCHANGED <<queueVars, worker, job, status, faults>>

\* sdfits_create refuses to overwrite a file, or fails with a file left
\* behind or none: the row is lost, and the next one tries again.
CreateRefused ==
  LET w == job.window IN
  /\ worker = "write" /\ w \notin writers
  /\ \/ w \in present /\ UNCHANGED <<present, faults>>
     \/ /\ w \notin present /\ faults < MaxFaults
        /\ faults' = faults + 1
        /\ present' \in {present, present \cup {w}}
  /\ JobDone
  /\ UNCHANGED <<writers, status, file, flushed>>

\* sdfits_write_subint with no error.
WriteRow ==
  LET w == job.window
      n == Len(file[w]) + 1
  IN /\ worker = "write" /\ w \in writers /\ ~status[w]
     /\ file' = [file EXCEPT ![w] = Append(@, job)]
     /\ flushed' = [flushed EXCEPT ![w] = IF n % FlushRows = 0 THEN n ELSE @]
     /\ JobDone
     /\ UNCHANGED <<writers, status, present, faults>>

\* sdfits_write_subint fails, with none or part of the row in the file, or all
\* of it when the flush fails; the status stays, so that no later row is written.
WriteRowFails ==
  LET w == job.window IN
  /\ worker = "write" /\ w \in writers
  /\ \/ status[w] /\ UNCHANGED <<file, status, faults>>
     \/ /\ ~status[w] /\ faults < MaxFaults
        /\ faults' = faults + 1
        /\ status' = [status EXCEPT ![w] = TRUE]
        /\ file' \in {file} \cup {[file EXCEPT ![w] = Append(@, r)] : r \in {Torn, job}}
  /\ JobDone
  /\ UNCHANGED <<writers, present, flushed>>

Worker == \/ Wait \/ Pop \/ Create \/ CreateRefused \/ WriteRow \/ WriteRowFails
          \/ \E bad \in SUBSET writers : Finish(bad)

\* The process dies: the rows that were flushed are found afterwards, and
\* all of the others or none.
DiskAfterCrash ==
  \E kept \in BOOLEAN :
    LET left == [w \in Bands |-> IF kept THEN Len(file[w]) ELSE flushed[w]]
    IN /\ file' = [w \in Bands |-> SubSeq(file[w], 1, left[w])]
       /\ flushed' = left
       /\ UNCHANGED present
=============================================================================
