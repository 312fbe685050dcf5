------------------------------ MODULE Startup -------------------------------
(***************************************************************************)
(* From config.yaml to reception: main() (src/src/main.cu), init() and the *)
(* worker threads (src/src/init.cu), and dpdk() (src/src/dpdk.cpp), which  *)
(* sets up the two network ports and launches one polling lcore per        *)
(* receive queue.  Packets may arrive as soon as a port is started.        *)
(*                                                                         *)
(* Any call into the system, CUDA or DPDK whose result is checked may      *)
(* fail; main() then returns, or the process exits.  What a polling lcore  *)
(* does with the packets of its stream is the subject of PacketReceiver.   *)
(***************************************************************************)
EXTENDS GlobalConfig, FiniteSetsExt, SequencesExt

CONSTANTS
  Cases,            \* configurations and hosts to start with
  QueuesPerPort,    \* queues_per_port
  StartDestPort,    \* start_dest_port
  OtherDest,        \* a UDP port that is not used
  MaxLcore,         \* RTE_MAX_LCORE
  MaxArrivals       \* packets that arrive (bound)

Ports == {0, 1}
Queues == 0 .. QueuesPerPort - 1
Dests == {StartDestPort + q : q \in Queues} \cup {OtherDest}

ASSUME StartupAssumption ==
  /\ QueuesPerPort \in Nat /\ 2 * QueuesPerPort = 4 * Pairs
  /\ OtherDest \notin StartDestPort .. StartDestPort + QueuesPerPort - 1
  /\ MaxLcore \in Nat \ {0} /\ MaxArrivals \in Nat
  /\ \A x \in Cases : Parsed(x.config) /\ IsFiniteSet(x.host.allowed)

VARIABLES
  config,     \* the file
  host,       \* the CPUs this process may use and the sockets of CPUs and ports
  phase,      \* where main() or dpdk() is
  worker,     \* state of each worker thread
  ready_threads,
  nic,        \* what is set up on each port
  rx,         \* UDP ports of the packets in each receive queue
  launched,   \* polling lcores launched so far
  stored,     \* packets that recv2mem took: stream, port and UDP port
  arrivals

inputs == <<config, host>>
portVars == <<nic, rx, arrivals>>
vars == <<inputs, phase, worker, ready_threads, portVars, launched, stored>>

\* Worker threads: one per stream in baseband mode, else one per subband.
Workers == IF config.mode = BASEBAND THEN {s \in Streams : Enabled(config, s)}
                                     ELSE {i \in Subbands : Subband(config, i).enable}

EnabledSubbands == {i \in Subbands : Subband(config, i).enable}

\* One thread per subband in every mode.
TotalThreads_PerSubband == Cardinality(EnabledSubbands)

\* total_threads
TotalThreads == IF config.mode = BASEBAND THEN 2 * Cardinality(EnabledSubbands)
                                          ELSE Cardinality(EnabledSubbands)

\* The worker that takes the batches of stream s.
Consumer(s) == IF config.mode = BASEBAND THEN s ELSE s \div 2

Init ==
  /\ \E c \in Cases : config = c.config /\ host = c.host
  /\ phase = "config"
  /\ worker = [k \in Streams |-> "none"]
  /\ ready_threads = 0
  /\ nic = [p \in Ports |-> [started |-> FALSE, isolated |-> FALSE, rules |-> 0,
                             drops |-> FALSE]]
  /\ rx = [x \in Ports \X Queues |-> <<>>]
  /\ launched = 0
  /\ stored = {}
  /\ arrivals = 0

(***************************************************************************)
(* main() and init().                                                      *)
(***************************************************************************)
Exit == /\ phase' = "exited"
        /\ UNCHANGED <<inputs, worker, ready_threads, portVars, launched, stored>>

\* initFromYaml and LocalSdfitsWriter::configure; directories are created.
LoadConfig ==
  /\ phase = "config"
  /\ \/ /\ ConfigOK(config)
        /\ phase' = "init"
        /\ UNCHANGED <<inputs, worker, ready_threads, portVars, launched, stored>>
     \/ Exit

\* init() up to the threads: the packets of all batches are allocated.
Allocate ==
  /\ phase = "init"
  /\ \/ /\ phase' = "threads"
        /\ UNCHANGED <<inputs, worker, ready_threads, portVars, launched, stored>>
     \/ Exit

\* The threads are started one after the other.
StartWorkers ==
  LET waiting == {k \in Workers : worker[k] = "none"} IN
  /\ phase = "threads"
  /\ \/ /\ waiting # {}
        /\ worker' = [worker EXCEPT ![Min(waiting)] = "started"]
        /\ UNCHANGED <<inputs, phase, ready_threads, portVars, launched, stored>>
     \/ /\ waiting = {}
        /\ phase' = "wait"
        /\ UNCHANGED <<inputs, worker, ready_threads, portVars, launched, stored>>
     \/ waiting # {} /\ Exit

\* main() goes on to dpdk() when all threads have announced themselves.
AllReady ==
  /\ phase = "wait" /\ ready_threads = TotalThreads
  /\ phase' = "eal"
  /\ UNCHANGED <<inputs, worker, ready_threads, portVars, launched, stored>>

(***************************************************************************)
(* The worker threads.  baseband_thread announces itself when its object   *)
(* is there, subband_thread before it makes it.                            *)
(***************************************************************************)
\* The state in which a thread announces itself.
BeforeAnnounce == IF config.mode = BASEBAND THEN "made" ELSE "started"

Announce(k) ==
  /\ worker[k] = BeforeAnnounce
  /\ worker' = [worker EXCEPT ![k] = IF config.mode = BASEBAND THEN "loop" ELSE "ready"]
  /\ ready_threads' = ready_threads + 1
  /\ UNCHANGED <<inputs, phase, portVars, launched, stored>>

\* The constructor of baseband or GpuPfbFft; an exception ends the process.
Construct(k) ==
  /\ worker[k] = IF config.mode = BASEBAND THEN "started" ELSE "ready"
  /\ \/ /\ worker' = [worker EXCEPT ![k] = IF config.mode = BASEBAND THEN "made" ELSE "loop"]
        /\ UNCHANGED <<inputs, phase, ready_threads, portVars, launched, stored>>
     \/ Exit

(***************************************************************************)
(* dpdk().                                                                 *)
(***************************************************************************)
\* build_eal_lcore_mapping: lcore n is the n-th of the CPUs allowed; the
\* first one is the main lcore.
LcoreCpu(l) == CHOOSE cpu \in host.allowed : Cardinality({o \in host.allowed : o < cpu}) = l
Lcores == 0 .. Min({Cardinality(host.allowed), MaxLcore}) - 1
WorkerLcores == Lcores \ {0}
LcoreSocket(l) == host.socket[LcoreCpu(l)]

\* generate_lcore_params: for each queue of port 0 and then of port 1, the
\* first free lcore on the socket of the port, or else the first free one.
AssignedLcores ==
  LET assigned[i \in 0 .. 2 * QueuesPerPort] ==
        IF i = 0 THEN <<>> ELSE
        LET before == assigned[i - 1]
            free == WorkerLcores \ Range(before)
            port == (i - 1) \div QueuesPerPort
            near == {l \in free : LcoreSocket(l) = host.port_socket[port]}
        IN Append(before, Min(IF near # {} THEN near ELSE free))
  IN assigned[2 * QueuesPerPort]

\* Its other results: ring_id, which is the stream, is the index.
PortOf(s) == s \div QueuesPerPort
QueueOf(s) == s % QueuesPerPort
DestOf(s) == StartDestPort + QueueOf(s)

\* EAL, the lcores and the packet buffers.
InitEal ==
  /\ phase = "eal"
  /\ \/ /\ Cardinality(WorkerLcores) >= 2 * QueuesPerPort
        /\ phase' = "port0"
        /\ UNCHANGED <<inputs, worker, ready_threads, portVars, launched, stored>>
     \/ Exit

SetupPort == IF phase = "port0" THEN 0 ELSE 1

\* port_init up to rte_eth_dev_start; flow isolation may not be available.
StartPort(isolated) ==
  /\ phase \in {"port0", "port1"} /\ ~nic[SetupPort].started
  /\ nic' = [nic EXCEPT ![SetupPort].started = TRUE, ![SetupPort].isolated = isolated]
  /\ UNCHANGED <<inputs, phase, worker, ready_threads, rx, arrivals, launched, stored>>

\* create_udp_dst_flow for the next queue.
AddRule ==
  /\ phase \in {"port0", "port1"}
  /\ nic[SetupPort].started /\ nic[SetupPort].rules < QueuesPerPort
  /\ nic' = [nic EXCEPT ![SetupPort].rules = @ + 1]
  /\ UNCHANGED <<inputs, phase, worker, ready_threads, rx, arrivals, launched, stored>>

\* create_catch_all_drop where there is no isolation; the port is ready.
FinishPort ==
  /\ phase \in {"port0", "port1"} /\ nic[SetupPort].rules = QueuesPerPort
  /\ nic' = [nic EXCEPT ![SetupPort].drops = ~nic[SetupPort].isolated]
  /\ phase' = IF phase = "port0" THEN "port1" ELSE "launch"
  /\ UNCHANGED <<inputs, worker, ready_threads, rx, arrivals, launched, stored>>

PortFails == phase \in {"port0", "port1"} /\ Exit

\* rte_eal_remote_launch of recv2mem or locre_drop for the next stream.
Launch ==
  /\ phase = "launch"
  /\ \/ /\ launched' = launched + 1
        /\ phase' = IF launched' = Cardinality(Streams) THEN "running" ELSE phase
        /\ UNCHANGED <<inputs, worker, ready_threads, portVars, stored>>
     \/ Exit

(***************************************************************************)
(* Packets.                                                                *)
(***************************************************************************)
\* The queue a packet for UDP port d goes to, or none.  Without isolation, what
\* no rule matches goes to queue 0 until the catch-all rule is there.
Route(p, d) ==
  LET rule == d - StartDestPort IN
  IF rule \in 0 .. nic[p].rules - 1 THEN {rule}
  ELSE IF nic[p].isolated \/ nic[p].drops THEN {} ELSE {0}

Arrive(p, d) ==
  /\ nic[p].started /\ arrivals < MaxArrivals
  /\ arrivals' = arrivals + 1
  /\ rx' = [x \in DOMAIN rx |-> IF x[1] = p /\ x[2] \in Route(p, d) THEN Append(rx[x], d)
                                                                ELSE rx[x]]
  /\ UNCHANGED <<inputs, phase, worker, ready_threads, nic, launched, stored>>

\* recv2mem trusts the flow rules.
Accepts_AnyDest(s, d) == Enabled(config, s)

\* recv2mem takes packets for its UDP port only, locre_drop none.
Accepts(s, d) == Enabled(config, s) /\ d = DestOf(s)

\* One packet of the burst of the lcore of stream s.
Poll(s) ==
  LET x == <<PortOf(s), QueueOf(s)>> IN
  /\ s < launched /\ rx[x] # <<>>
  /\ rx' = [rx EXCEPT ![x] = Tail(@)]
  /\ stored' = IF Accepts(s, Head(rx[x]))
                 THEN stored \cup {[stream |-> s, port |-> x[1], dest |-> Head(rx[x])]}
                 ELSE stored
  /\ UNCHANGED <<inputs, phase, worker, ready_threads, nic, arrivals, launched>>

Main == \/ LoadConfig \/ Allocate \/ StartWorkers \/ AllReady \/ InitEal
        \/ (\E isolated \in BOOLEAN : StartPort(isolated))
        \/ AddRule \/ FinishPort \/ PortFails \/ Launch

WorkerStep(k) == Announce(k) \/ Construct(k)

Packets == \/ \E p \in Ports, d \in Dests : Arrive(p, d)
           \/ \E s \in Streams : Poll(s)

Next == /\ phase # "exited"
        /\ Main \/ (\E k \in Streams : WorkerStep(k)) \/ Packets

\* Every thread of the process is scheduled; packets come or not.
Spec == /\ Init /\ [][Next]_vars
        /\ WF_vars(phase # "exited" /\ Main)
        /\ \A k \in Streams : WF_vars(phase # "exited" /\ WorkerStep(k))

(***************************************************************************)
(* Correctness.                                                            *)
(***************************************************************************)
\* A stream gets only what the FPGA sends for it: packets from its port of
\* the host for its UDP port, also those that came while the flow rules were
\* not complete.
StreamRouting ==
  \A x \in stored :
    /\ x.port = x.stream \div QueuesPerPort
    /\ x.dest = StartDestPort + (x.stream % QueuesPerPort)
    /\ Enabled(config, x.stream)

\* No packet is taken before the thread that consumes its batches has
\* announced itself: in baseband mode its recorder exists by then.  In the
\* other modes the thread has been started and no more: its GpuPfbFft may not
\* exist yet (see ReceptionAfterInitialization).
ConsumerAnnounced ==
  \A x \in stored :
    worker[Consumer(x.stream)] \in IF config.mode = BASEBAND THEN {"loop"}
                                                            ELSE {"ready", "loop"}

\* init() counts "workers that must complete initialization" and main() logs
\* that all of them are ready before it calls dpdk(): when the first lcore
\* polls, each worker has its object and is in its loop.
ReceptionAfterInitialization ==
  launched > 0 => \A k \in Workers : worker[k] = "loop"

Distinct(f) == Cardinality({f[x] : x \in DOMAIN f}) = Cardinality(DOMAIN f)

\* With a configuration that is accepted no two parts of the program use the
\* same thing: the batches have disjoint storage inside of the allocation, at
\* least one batch can be queued, every window lies inside of the FFT, no two
\* recorders or windows write under the same name, and the polling lcores are
\* different and leave the main one alone.
NothingClashes ==
  /\ phase \notin {"config", "exited"} =>
       LET c == config
           used == {s \in Streams : Enabled(c, s)}
           batches == used \X (0 .. PoolCapacity(c) - 1)
           storage == UNION {Storage(c, x[1], x[2]) : x \in batches}
           windows == UNION {{i} \X DOMAIN Subband(c, i).windows : i \in EnabledSubbands}
       IN /\ BatchSize(c) >= 1 /\ PoolCapacity(c) - 2 >= 1
          /\ storage \subseteq 0 .. TotalPackets(c) - 1
          /\ Cardinality(storage) = Cardinality(batches) * BatchSize(c)
          /\ c.mode # BASEBAND => \A x \in windows :
               LET first == StartIdx(c, Subband(c, x[1]), Subband(c, x[1]).windows[x[2]])
               IN first >= 0 /\ first + c.win_channels <= TotalNfft(c)
          /\ Distinct([x \in windows |-> WindowName(c, x[1], x[2])])
          /\ c.mode = BASEBAND => Distinct([s \in used |-> BasebandName(c, s)])
  /\ phase \in {"port0", "port1", "launch", "running"} =>
       LET lcores == AssignedLcores
       IN Distinct(lcores) /\ Range(lcores) \subseteq WorkerLcores

\* The program comes to reception or ends: main() never waits for a thread
\* that will not announce itself.
StartupEnds == <>(phase \in {"running", "exited"})
=============================================================================
