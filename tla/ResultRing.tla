----------------------------- MODULE ResultRing -----------------------------
(***************************************************************************)
(* The ring of host result slots m_hring between the worker of a subband   *)
(* (StokesAcc in src/include/DoPFBFFT.hpp) and the thread that sends the   *)
(* results (send_data).  The only synchronisation between the two is the   *)
(* flag `used' of a slot; the worker looks at it to warn, not to wait.     *)
(*                                                                         *)
(* An integration is abstracted to its state of the noise source and to    *)
(* the times of its first and last block, which are both what is in the    *)
(* accumulator on the GPU and what the slot's header fields must say.      *)
(***************************************************************************)
EXTENDS Integers, Sequences

CONSTANTS NumSlots,   \* NUM_SLOTS
          AccLen,     \* m_acc_len, blocks per integration
          NumWindows, \* frequency windows of the subband; 1 for continuum
          CalModes,   \* values cal_mode may be configured to
          MaxTime     \* number of blocks (bound)

ASSUME RingAssumption == NumSlots \in Nat \ {0} /\ NumWindows \in Nat \ {0}
ASSUME AccAssumption == AccLen \in Nat \ {0} /\ MaxTime \in Nat
ASSUME CalAssumption == CalModes \subseteq BOOLEAN

VARIABLES
  cal_mode,  \* fixed by the configuration
  ring,      \* m_hring
  hhead,     \* m_hhead
  time,      \* m_timestamp_ns, in blocks
  count,     \* m_acc_id, m_acc_on_id, m_acc_off_id
  acc,       \* the integrations in m_acc_stokes_ON and m_acc_stokes_OFF
  wpc,       \* where the worker is: "idle", "copy" or "expose"
  state,     \* the state of the integration being published
  idx,       \* send_data's slot
  spc,       \* where the sender is: "poll" or "send"
  window,    \* the window send_data is at
  centre,    \* the two times it computed the centre of the integration from
  \* History.
  published, \* integrations whose slot was exposed, in order
  sent,      \* rows each window has sent, in order
  overrun    \* the worker has written a slot that was in use

workerVars == <<cal_mode, hhead, time, count, acc, wpc, state>>
senderVars == <<idx, spc, window, centre, sent>>
vars == <<ring, workerVars, senderVars, published, overrun>>

Slots == 0 .. NumSlots - 1
Windows == 1 .. NumWindows
States == {"ON", "OFF"}

Integration(s, first, last) == [state |-> s, first |-> first, last |-> last]

Nothing == Integration("OFF", 0, 0)

\* The ring is one slot longer than its array.
NextSlot_OffByOne(x) == (x + 1) % (NumSlots + 1)

NextSlot(x) == (x + 1) % NumSlots

Init == /\ ring = [x \in Slots |-> [used |-> FALSE, first |-> 0, last |-> 0,
                                    noise |-> "OFF", data |-> Nothing]]
        /\ cal_mode \in CalModes
        /\ hhead = 0
        /\ time = 0
        /\ count = [s \in States |-> 0]
        /\ acc = [s \in States |-> Nothing]
        /\ wpc = "idle"
        /\ state = "OFF"
        /\ idx = 0
        /\ spc = "poll"
        /\ window = 1
        /\ centre = [first |-> 0, last |-> 0]
        /\ published = <<>>
        /\ sent = [w \in Windows |-> <<>>]
        /\ overrun = FALSE

(***************************************************************************)
(* The worker: StokesAcc.                                                  *)
(***************************************************************************)
\* A block in the blanked interval adds nothing.
BlankBlock == /\ cal_mode
              /\ wpc = "idle" /\ time < MaxTime
              /\ time' = time + 1
              /\ UNCHANGED <<cal_mode, ring, hhead, count, acc, wpc, state, senderVars,
                             published, overrun>>

\* The filter window holds lost samples: both integrations start again.
LostBlock == /\ wpc = "idle" /\ time < MaxTime
             /\ time' = time + 1
             /\ count' = [s \in States |-> 0]
             /\ acc' = [s \in States |-> Nothing]
             /\ UNCHANGED <<cal_mode, ring, hhead, wpc, state, senderVars, published, overrun>>

FirstTime(s, t) == IF count[s] = 0 THEN t ELSE acc[s].first

\* Slot fields the worker writes on the host before the copy.  Without
\* calibration the first timestamp goes straight into the slot.
Stamped(slot, s, t) ==
  LET full == count[s] + 1 >= AccLen
      dated == (cal_mode /\ full) \/ (~cal_mode /\ count[s] = 0)
  IN [slot EXCEPT !.first = IF dated THEN FirstTime(s, t) ELSE @,
                  !.last = IF full THEN t ELSE @,
                  !.noise = IF full THEN s ELSE @]

\* A block is added to the integration of its state; the last one stamps the
\* slot and starts the copy to it.
AddBlock(s) ==
  LET t == time + 1
      slot == Stamped(ring[hhead], s, t)
  IN /\ wpc = "idle" /\ time < MaxTime
     /\ s = "ON" => cal_mode
     /\ time' = t
     /\ count' = [count EXCEPT ![s] = @ + 1]
     /\ acc' = [acc EXCEPT ![s] = Integration(s, FirstTime(s, t), t)]
     /\ ring' = [ring EXCEPT ![hhead] = slot]
     /\ overrun' = (overrun \/ (ring[hhead].used /\ slot # ring[hhead]))
     /\ state' = s
     /\ wpc' = IF count[s] + 1 >= AccLen THEN "copy" ELSE "idle"
     /\ UNCHANGED <<cal_mode, hhead, senderVars, published>>

\* cudaMemcpyAsync, until the slot's event is reached.
CopyToHost == /\ wpc = "copy"
              /\ ring' = [ring EXCEPT ![hhead].data = acc[state]]
              /\ overrun' = (overrun \/ ring[hhead].used)
              /\ wpc' = "expose"
              /\ UNCHANGED <<cal_mode, hhead, time, count, acc, state, senderVars, published>>

\* m_hhead stays at the slot.
Expose_HeadStays ==
          /\ wpc = "expose"
          /\ ring' = [ring EXCEPT ![hhead].used = TRUE]
          /\ count' = [count EXCEPT ![state] = 0]
          /\ acc' = [acc EXCEPT ![state] = Nothing]
          /\ wpc' = "idle"
          /\ published' = Append(published, acc[state])
          /\ UNCHANGED <<cal_mode, hhead, time, state, senderVars, overrun>>

\* The slot is marked used and the accumulator cleared.
Expose == /\ wpc = "expose"
          /\ ring' = [ring EXCEPT ![hhead].used = TRUE]
          /\ count' = [count EXCEPT ![state] = 0]
          /\ acc' = [acc EXCEPT ![state] = Nothing]
          /\ hhead' = NextSlot(hhead)
          /\ wpc' = "idle"
          /\ published' = Append(published, acc[state])
          /\ UNCHANGED <<cal_mode, time, state, senderVars, overrun>>

Block == BlankBlock \/ LostBlock \/ \E s \in States : AddBlock(s)

(***************************************************************************)
(* The sender: send_data.                                                  *)
(***************************************************************************)
\* A used slot is found; the centre of the integration is computed.
FindResult == /\ spc = "poll"
              /\ ring[idx].used
              /\ spc' = "send"
              /\ window' = 1
              /\ centre' = [first |-> ring[idx].first, last |-> ring[idx].last]
              /\ UNCHANGED <<ring, workerVars, idx, sent, published, overrun>>

Row == [centre |-> centre, start |-> ring[idx].first,
        noise |-> ring[idx].noise, data |-> ring[idx].data]

\* The slot is given back after the first window.
SendWindow_ReleasesEarly ==
              /\ spc = "send" /\ window <= NumWindows
              /\ sent' = [sent EXCEPT ![window] = Append(@, Row)]
              /\ ring' = [ring EXCEPT ![idx].used = FALSE]
              /\ window' = window + 1
              /\ UNCHANGED <<workerVars, idx, spc, centre, published, overrun>>

\* A window's part is handed to the local writer and to the network sender;
\* integration_id, the number of rows so far, grows even if both refuse it.
SendWindow == /\ spc = "send" /\ window <= NumWindows
              /\ sent' = [sent EXCEPT ![window] = Append(@, Row)]
              /\ window' = window + 1
              /\ UNCHANGED <<ring, workerVars, idx, spc, centre, published, overrun>>

\* The slot stays marked as used.
ReleaseSlot_StillUsed ==
               /\ spc = "send" /\ window > NumWindows
               /\ idx' = NextSlot(idx)
               /\ spc' = "poll"
               /\ UNCHANGED <<ring, workerVars, window, centre, sent, published, overrun>>

\* The sender stays at the slot it has sent.
ReleaseSlot_Stays ==
               /\ spc = "send" /\ window > NumWindows
               /\ ring' = [ring EXCEPT ![idx].used = FALSE]
               /\ spc' = "poll"
               /\ UNCHANGED <<workerVars, idx, window, centre, sent, published, overrun>>

ReleaseSlot == /\ spc = "send" /\ window > NumWindows
               /\ ring' = [ring EXCEPT ![idx].used = FALSE]
               /\ idx' = NextSlot(idx)
               /\ spc' = "poll"
               /\ UNCHANGED <<workerVars, window, centre, sent, published, overrun>>

Sender == FindResult \/ SendWindow \/ ReleaseSlot

Next == Block \/ CopyToHost \/ Expose \/ Sender

Spec == Init /\ [][Next]_vars

\* The sender polls for ever, and a copy once started completes.
FairSpec == Spec /\ WF_vars(CopyToHost \/ Expose) /\ WF_vars(Sender)

(***************************************************************************)
(* Correctness.                                                            *)
(***************************************************************************)
IntegrationType == [state : States, first : 0 .. MaxTime, last : 0 .. MaxTime]

\* Type invariant of the ring and of the members the two threads use.
TypeOK == /\ ring \in [Slots -> [used : BOOLEAN, first : 0 .. MaxTime,
                                 last : 0 .. MaxTime, noise : States,
                                 data : IntegrationType]]
          /\ hhead \in Slots /\ idx \in Slots
          /\ time \in 0 .. MaxTime
          /\ count \in [States -> 0 .. AccLen]
          /\ acc \in [States -> IntegrationType]
          /\ wpc \in {"idle", "copy", "expose"} /\ state \in States
          /\ spc \in {"poll", "send"} /\ window \in 1 .. NumWindows + 1

\* Until the ring is overrun, every row send_data has sent describes its data:
\* time of the centre, start and noise state belong to the integration whose
\* spectrum is in the row, in every window.
RowsDescribeData ==
  ~overrun => \A w \in Windows : \A n \in DOMAIN sent[w] :
      LET row == sent[w][n] IN
      /\ row.centre = [first |-> row.data.first, last |-> row.data.last]
      /\ row.start = row.data.first
      /\ row.noise = row.data.state

\* Until the ring is overrun, the row number n of every window is the nth
\* integration published: none is lost, repeated or overtaken.
SentInOrder ==
  ~overrun => \A w \in Windows : \A n \in DOMAIN sent[w] :
    n \in DOMAIN published /\ sent[w][n].data = published[n]

\* The ring is only overrun when all its NUM_SLOTS results are unsent.
OverrunOnlyWhenFull ==
  [][~overrun /\ overrun' => \A x \in Slots : ring[x].used]_vars

\* Until the ring is overrun, a published integration is sent by every window.
PublishedIsSent ==
  \A n \in 1 .. MaxTime :
    n \in DOMAIN published ~> (overrun \/ \A w \in Windows : n \in DOMAIN sent[w])

\* The comment in StokesAcc, "only consumes immutable host memory": no step
\* changes the slot send_data has found and not yet released.
SenderReadsImmutable ==
  [][spc = "send" => [ring'[idx] EXCEPT !.used = TRUE] = [ring[idx] EXCEPT !.used = TRUE]]_vars
=============================================================================
