---------------------------- MODULE StartupProofs ---------------------------
(***************************************************************************)
(* Theorems about Startup: a stream takes only its own packets, and only   *)
(* after the consumer of its batches has announced itself.  The latter is  *)
(* the barrier of main(): ready_threads is the number of threads that have *)
(* announced themselves, only threads that init() wants are started, and   *)
(* total_threads is the number of those, so that the count is reached only *)
(* when all of them have.  The second part is about what an accepted       *)
(* configuration leads to: neither storage nor files nor windows nor       *)
(* lcores clash.                                                           *)
(***************************************************************************)
EXTENDS Startup, FunctionTheorems, FiniteSetTheorems, TLAPS

(***************************************************************************)
(* The invariant.                                                          *)
(***************************************************************************)
\* The thread has incremented ready_threads.
Announced(k) == worker[k] \in IF config.mode = BASEBAND THEN {"loop"} ELSE {"ready", "loop"}

AnnouncedThreads == {k \in Streams : Announced(k)}

StartupTypes ==
  /\ worker \in [Streams -> {"none", "started", "made", "ready", "loop"}]
  /\ launched \in Nat

\* ready_threads counts the threads that have announced themselves, and no
\* thread runs that is not wanted.
Counted == /\ ready_threads = Cardinality(AnnouncedThreads)
           /\ \A k \in Streams : worker[k] # "none" => k \in Workers

\* main() has passed the barrier.
Passed == launched > 0 \/ phase \in {"eal", "port0", "port1", "launch", "running"}

Barrier == Passed => Workers \subseteq AnnouncedThreads

\* What recv2mem has taken.
Taken == \A x \in stored : /\ x.stream \in Streams
                           /\ x.port = PortOf(x.stream)
                           /\ x.dest = DestOf(x.stream)
                           /\ Enabled(config, x.stream)
                           /\ Consumer(x.stream) \in AnnouncedThreads

StartupInv == StartupTypes /\ Counted /\ Barrier /\ Taken

(***************************************************************************)
(* Lemmas about the sets of threads.                                       *)
(***************************************************************************)
\* A set of natural numbers that is not empty has a least element.
LEMMA LeastElement ==
  ASSUME NEW S, S \subseteq Nat, S # {}
  PROVE  \E x \in S : \A y \in S : x <= y
<1> DEFINE less == {ss \in Nat \X Nat : ss[1] < ss[2]}
<1>1. IsWellFoundedOn(less, Nat)
  BY NatLessThanWellFounded DEF OpToRel
<1>2. PICK x \in S : \A y \in S : ~(<<y, x>> \in less)
  <2>. HIDE DEF less
  <2>. QED
    BY <1>1, WFMin
<1>3. \A y \in S : x <= y
  <2> TAKE y \in S
  <2>1. x \in Nat /\ y \in Nat /\ <<y, x>> \notin less
    BY <1>2
  <2>. QED
    BY <2>1
<1>. QED
  BY <1>2, <1>3

\* A set of natural numbers that is not empty contains its minimum.
LEMMA MinIsElement ==
  ASSUME NEW S, S \subseteq Nat, S # {}
  PROVE  Min(S) \in S
<1>1. PICK x \in S : \A y \in S : x <= y
  BY LeastElement
<1>. QED
  BY <1>1 DEF Min

\* The threads wanted are numbered like streams, and there are total_threads
\* of them: in baseband mode two for each enabled subband.
LEMMA ThreadsWanted ==
  /\ Workers \subseteq Streams
  /\ IsFiniteSet(Streams) /\ IsFiniteSet(Workers)
  /\ Cardinality(Workers) = TotalThreads
<1>1. Pairs \in Nat \ {0}
  BY ConfigAssumption
<1>2. Workers \subseteq Streams
  BY <1>1 DEF Workers, Streams, Subbands
<1>3. IsFiniteSet(Streams) /\ IsFiniteSet(Subbands)
  BY <1>1, FS_Interval DEF Streams, Subbands
<1>4. IsFiniteSet(Workers)
  BY <1>2, <1>3, FS_Subset
<1>5. CASE config.mode # BASEBAND
  BY <1>2, <1>3, <1>4, <1>5 DEF Workers, TotalThreads, EnabledSubbands
<1>6. CASE config.mode = BASEBAND
  <2> DEFINE P == EnabledSubbands \X {0, 1}
             f == [x \in P |-> 2 * x[1] + x[2]]
  <2>1. IsFiniteSet(EnabledSubbands)
    <3>1. EnabledSubbands \in SUBSET Subbands
      BY DEF EnabledSubbands
    <3>. QED
      BY <3>1, <1>3, FS_Subset
  <2>2. IsFiniteSet({0, 1}) /\ Cardinality({0, 1}) = 2
    <3>1. {0, 1} = 0 .. 1
      OBVIOUS
    <3>. QED
      BY ONLY <3>1, FS_Interval, 0 \in Int, 1 \in Int, ~(0 > 1), 1 - 0 + 1 = 2
  <2>3. IsFiniteSet(P) /\ Cardinality(P) = Cardinality(EnabledSubbands) * 2
    BY <2>1, <2>2, FS_Product
  <2>4. Workers = {s \in Streams : Enabled(config, s)}
    BY <1>6 DEF Workers
  <2>5. \A i \in Subbands, b \in {0, 1} : 2 * i + b \in Streams /\ (2 * i + b) \div 2 = i
    BY <1>1 DEF Subbands, Streams
  <2>6. \A i \in EnabledSubbands, b \in {0, 1} : 2 * i + b \in Workers
    BY <2>4, <2>5 DEF EnabledSubbands, Enabled
  <2>7. f \in [P -> Workers]
    BY <2>6
  <2>8. \A a, b \in P : f[a] = f[b] => a = b
    BY <1>1 DEF EnabledSubbands, Subbands
  <2>9. \A t \in Workers : \E a \in P : f[a] = t
    <3> TAKE t \in Workers
    <3>1. t \in Streams /\ Enabled(config, t)
      BY <2>4
    <3>2. t \div 2 \in Subbands /\ t % 2 \in {0, 1} /\ 2 * (t \div 2) + (t % 2) = t
      <4>1. ASSUME NEW n \in Nat \ {0}, NEW u \in 0 .. 4 * n - 1
            PROVE  /\ u \div 2 \in 0 .. 2 * n - 1
                   /\ u % 2 \in {0, 1}
                   /\ 2 * (u \div 2) + (u % 2) = u
        BY ONLY <4>1
      <4>. QED
        BY <1>1, <3>1, <4>1 DEF Streams, Subbands
    <3>3. <<t \div 2, t % 2>> \in P
      BY <3>1, <3>2 DEF EnabledSubbands, Enabled
    <3>. QED
      BY <3>2, <3>3
  <2>10. ExistsBijection(P, Workers)
    <3>. HIDE DEF f
    <3>1. f \in Bijection(P, Workers)
      BY <2>7, <2>8, <2>9, Fun_IsBij
    <3>. QED
      BY <3>1 DEF ExistsBijection
  <2>11. Cardinality(Workers) = Cardinality(P)
    <3>. HIDE DEF P
    <3>. QED
      BY <2>3, <2>10, FS_Bijection
  <2>12. Cardinality(EnabledSubbands) \in Nat
    BY <2>1, FS_CardinalityType
  <2>. QED
    BY <1>2, <1>3, <1>4, <1>6, <2>3, <2>11, <2>12 DEF TotalThreads
<1>. QED
  BY <1>5, <1>6

\* Only threads that are wanted have announced themselves.
LEMMA AnnouncedWanted ==
  ASSUME StartupTypes, Counted
  PROVE  AnnouncedThreads \subseteq Workers /\ IsFiniteSet(AnnouncedThreads)
<1>1. AnnouncedThreads \subseteq Workers
  BY DEF StartupTypes, Counted, AnnouncedThreads, Announced
<1>. QED
  BY <1>1, ThreadsWanted, FS_Subset

\* The thread that takes the batches of an enabled stream is wanted.
LEMMA ConsumerWanted ==
  ASSUME NEW s \in Streams, Enabled(config, s)
  PROVE  Consumer(s) \in Workers
<1>1. Pairs \in Nat \ {0}
  BY ConfigAssumption
<1>2. s \div 2 \in Subbands
  <2>1. ASSUME NEW n \in Nat \ {0}, NEW u \in 0 .. 4 * n - 1
        PROVE  u \div 2 \in 0 .. 2 * n - 1
    BY ONLY <2>1
  <2>. QED
    BY <1>1, <2>1 DEF Streams, Subbands
<1>. QED
  BY <1>2 DEF Consumer, Workers, Enabled

(***************************************************************************)
(* Init and the steps.                                                     *)
(***************************************************************************)
\* Nothing is started yet.
LEMMA StartupInitial == Init => StartupInv
<1> SUFFICES ASSUME Init PROVE StartupInv
  OBVIOUS
<1>1. StartupTypes /\ \A k \in Streams : worker[k] = "none"
  BY DEF Init, StartupTypes
<1>2. AnnouncedThreads = {}
  BY <1>1 DEF AnnouncedThreads, Announced
<1>3. Counted
  BY <1>1, <1>2, FS_EmptySet DEF Counted, Init
<1>4. Barrier /\ Taken
  BY DEF Init, Barrier, Passed, Taken
<1>. QED
  BY <1>1, <1>3, <1>4 DEF StartupInv

\* A step in which no thread announces itself, nothing is taken and the
\* barrier is not passed.
LEMMA NobodyAnnounces ==
  ASSUME StartupInv, StartupTypes', config' = config,
         ready_threads' = ready_threads, stored' = stored,
         AnnouncedThreads' = AnnouncedThreads,
         \A k \in Streams : worker'[k] # "none" => k \in Workers,
         Passed' => Passed
  PROVE  StartupInv'
<1>1. Workers' = Workers
  BY DEF Workers
<1>2. Counted'
  BY <1>1 DEF Counted, StartupInv
<1>3. Barrier'
  BY <1>1 DEF Barrier, StartupInv
<1>4. Taken'
  <2>1. Taken
    BY DEF StartupInv
  <2>2. \A s \in Streams : Consumer(s)' = Consumer(s)
    BY DEF Consumer
  <2>. QED
    BY <2>1, <2>2 DEF Taken, PortOf, DestOf
<1>. QED
  BY <1>2, <1>3, <1>4 DEF StartupInv

\* The same when the threads and the lcores stay as they are.
LEMMA NothingStarts ==
  ASSUME StartupInv, config' = config, worker' = worker,
         ready_threads' = ready_threads, stored' = stored, launched' = launched,
         Passed' => Passed
  PROVE  StartupInv'
<1>1. StartupTypes'
  BY DEF StartupInv, StartupTypes
<1>2. AnnouncedThreads' = AnnouncedThreads
  BY DEF AnnouncedThreads, Announced
<1>3. \A k \in Streams : worker'[k] # "none" => k \in Workers
  BY DEF StartupInv, Counted
<1>. QED
  BY <1>1, <1>2, <1>3, NobodyAnnounces

\* The process ends.
LEMMA ExitStep ==
  ASSUME StartupInv, Exit
  PROVE  StartupInv'
<1>1. Passed' => Passed
  BY DEF Exit, Passed
<1>. QED
  BY <1>1, NothingStarts DEF Exit, inputs

\* init() starts the next thread, or has started all of them.
LEMMA StartWorkersStep ==
  ASSUME StartupInv, StartWorkers
  PROVE  StartupInv'
<1> DEFINE waiting == {k \in Workers : worker[k] = "none"}
<1>1. CASE waiting # {} /\ worker' = [worker EXCEPT ![Min(waiting)] = "started"]
           /\ UNCHANGED <<inputs, phase, ready_threads, portVars, launched, stored>>
  <2>1. PICK k : k = Min(waiting)
    OBVIOUS
  <2>2. waiting \subseteq Nat
    <3>1. Streams \subseteq Nat
      BY DEF Streams
    <3>. QED
      BY <3>1, ThreadsWanted
  <2>3. k \in waiting
    <3>. HIDE DEF waiting
    <3>. QED
      BY <1>1, <2>1, <2>2, MinIsElement
  <2>4. k \in Workers /\ k \in Streams /\ worker[k] = "none"
    BY <2>3, ThreadsWanted
  <2>5. worker' = [worker EXCEPT ![k] = "started"]
    BY <1>1, <2>1
  <2>6. StartupTypes'
    BY <1>1, <2>4, <2>5 DEF StartupInv, StartupTypes
  <2>7. \A j \in Streams : worker'[j] = IF j = k THEN "started" ELSE worker[j]
    BY <2>4, <2>5 DEF StartupInv, StartupTypes
  <2>8. config' = config
    BY <1>1 DEF inputs
  <2>9. AnnouncedThreads' = AnnouncedThreads
    BY <2>4, <2>7, <2>8 DEF AnnouncedThreads, Announced
  <2>10. \A j \in Streams : worker'[j] # "none" => j \in Workers
    BY <2>4, <2>7 DEF StartupInv, Counted
  <2>11. Passed' => Passed
    BY <1>1 DEF Passed
  <2>. QED
    BY <1>1, <2>6, <2>8, <2>9, <2>10, <2>11, NobodyAnnounces
<1>2. CASE phase' = "wait"
           /\ UNCHANGED <<inputs, worker, ready_threads, portVars, launched, stored>>
  <2>1. Passed' => Passed
    BY <1>2 DEF Passed
  <2>. QED
    BY <1>2, <2>1, NothingStarts DEF inputs
<1>3. CASE Exit
  BY <1>3, ExitStep
<1>. QED
  BY <1>1, <1>2, <1>3 DEF StartWorkers

\* The barrier: as many threads have announced themselves as are wanted, and
\* only those that are wanted, hence all of them.
LEMMA AllReadyStep ==
  ASSUME StartupInv, AllReady
  PROVE  StartupInv'
<1>1. /\ config' = config /\ worker' = worker /\ ready_threads' = ready_threads
      /\ stored' = stored /\ launched' = launched
  BY DEF AllReady, inputs
<1>2. AnnouncedThreads \subseteq Workers /\ IsFiniteSet(AnnouncedThreads)
  BY AnnouncedWanted DEF StartupInv
<1>3. Cardinality(AnnouncedThreads) = Cardinality(Workers)
  BY ThreadsWanted DEF AllReady, StartupInv, Counted
<1>4. AnnouncedThreads = Workers
  <2>1. AnnouncedThreads \in SUBSET Workers
    BY <1>2
  <2>. QED
    BY <1>3, <2>1, ThreadsWanted, FS_Subset
<1>5. AnnouncedThreads' = AnnouncedThreads /\ Workers' = Workers
  BY <1>1 DEF AnnouncedThreads, Announced, Workers
<1>6. StartupTypes' /\ Counted'
  BY <1>1, <1>5 DEF StartupInv, StartupTypes, Counted
<1>7. Barrier'
  BY <1>4, <1>5 DEF Barrier
<1>8. Taken'
  <2>1. Taken
    BY DEF StartupInv
  <2>2. \A s \in Streams : Consumer(s)' = Consumer(s)
    BY <1>1 DEF Consumer
  <2>. QED
    BY <1>1, <1>5, <2>1, <2>2 DEF Taken, PortOf, DestOf
<1>. QED
  BY <1>6, <1>7, <1>8 DEF StartupInv

\* A thread announces itself.
LEMMA AnnounceStep ==
  ASSUME StartupInv, NEW k \in Streams, Announce(k)
  PROVE  StartupInv'
<1>1. /\ config' = config /\ phase' = phase /\ stored' = stored /\ launched' = launched
      /\ ready_threads' = ready_threads + 1
  BY DEF Announce, inputs
<1>2. worker[k] = (IF config.mode = BASEBAND THEN "made" ELSE "started")
  BY DEF Announce, BeforeAnnounce
<1>3. \A j \in Streams : worker'[j] = IF j = k THEN IF config.mode = BASEBAND THEN "loop"
                                                                             ELSE "ready"
                                              ELSE worker[j]
  BY DEF Announce, StartupInv, StartupTypes
<1>4. StartupTypes'
  BY <1>1 DEF Announce, StartupInv, StartupTypes
<1>5. k \in Workers
  BY <1>2 DEF StartupInv, Counted
<1>6. k \notin AnnouncedThreads
  BY <1>2 DEF AnnouncedThreads, Announced
<1>7. AnnouncedThreads' = AnnouncedThreads \cup {k}
  BY <1>1, <1>3 DEF AnnouncedThreads, Announced
<1>8. Workers' = Workers
  BY <1>1 DEF Workers
<1>9. Counted'
  <2>1. ready_threads' = Cardinality(AnnouncedThreads)'
    <3>1. IsFiniteSet(AnnouncedThreads)
      BY AnnouncedWanted DEF StartupInv
    <3>2. Cardinality(AnnouncedThreads \cup {k}) = Cardinality(AnnouncedThreads) + 1
      BY <1>6, <3>1, FS_AddElement
    <3>. QED
      BY <1>1, <1>7, <3>2 DEF StartupInv, Counted
  <2>2. \A j \in Streams : worker'[j] # "none" => j \in Workers'
    BY <1>3, <1>5, <1>8 DEF StartupInv, Counted
  <2>. QED
    BY <2>1, <2>2 DEF Counted
<1>10. Barrier'
  BY <1>1, <1>7, <1>8 DEF StartupInv, Barrier, Passed
<1>11. Taken'
  <2>1. Taken
    BY DEF StartupInv
  <2>2. \A s \in Streams : Consumer(s)' = Consumer(s)
    BY <1>1 DEF Consumer
  <2>. QED
    BY <1>1, <1>7, <2>1, <2>2 DEF Taken, PortOf, DestOf
<1>. QED
  BY <1>4, <1>9, <1>10, <1>11 DEF StartupInv

\* A thread makes its object, before it announces itself in baseband mode and
\* after it otherwise, or the process ends.
LEMMA ConstructStep ==
  ASSUME StartupInv, NEW k \in Streams, Construct(k)
  PROVE  StartupInv'
<1>1. CASE Exit
  BY <1>1, ExitStep
<1>2. CASE /\ worker' = [worker EXCEPT ![k] = IF config.mode = BASEBAND THEN "made"
                                                                      ELSE "loop"]
           /\ UNCHANGED <<inputs, phase, ready_threads, portVars, launched, stored>>
  <2>1. /\ config' = config /\ phase' = phase /\ stored' = stored /\ launched' = launched
        /\ ready_threads' = ready_threads
    BY <1>2 DEF inputs
  <2>2. worker[k] = (IF config.mode = BASEBAND THEN "started" ELSE "ready")
    BY DEF Construct
  <2>3. \A j \in Streams : worker'[j] = IF j = k THEN IF config.mode = BASEBAND THEN "made"
                                                                               ELSE "loop"
                                                ELSE worker[j]
    BY <1>2 DEF StartupInv, StartupTypes
  <2>4. StartupTypes'
    BY <1>2 DEF StartupInv, StartupTypes
  <2>5. AnnouncedThreads' = AnnouncedThreads
    BY <2>1, <2>2, <2>3 DEF AnnouncedThreads, Announced
  <2>6. \A j \in Streams : worker'[j] # "none" => j \in Workers
    BY <2>2, <2>3 DEF StartupInv, Counted
  <2>7. Passed' => Passed
    BY <2>1 DEF Passed
  <2>. QED
    BY <2>1, <2>4, <2>5, <2>6, <2>7, NobodyAnnounces
<1>. QED
  BY <1>1, <1>2 DEF Construct

\* An lcore is launched, which is after the barrier.
LEMMA LaunchStep ==
  ASSUME StartupInv, Launch
  PROVE  StartupInv'
<1>1. CASE Exit
  BY <1>1, ExitStep
<1>2. CASE /\ launched' = launched + 1
           /\ UNCHANGED <<inputs, worker, ready_threads, portVars, stored>>
  <2>1. /\ config' = config /\ worker' = worker /\ stored' = stored
        /\ ready_threads' = ready_threads
    BY <1>2 DEF inputs
  <2>2. StartupTypes'
    BY <1>2, <2>1 DEF StartupInv, StartupTypes
  <2>3. AnnouncedThreads' = AnnouncedThreads
    BY <2>1 DEF AnnouncedThreads, Announced
  <2>4. \A j \in Streams : worker'[j] # "none" => j \in Workers
    BY <2>1 DEF StartupInv, Counted
  <2>5. Passed' => Passed
    BY DEF Launch, Passed
  <2>. QED
    BY <2>1, <2>2, <2>3, <2>4, <2>5, NobodyAnnounces
<1>. QED
  BY <1>1, <1>2 DEF Launch

\* A packet of stream s is taken or dropped.  Its lcore was launched after the
\* barrier, so the consumer of the stream has announced itself.
LEMMA PollStep ==
  ASSUME StartupInv, NEW s \in Streams, Poll(s)
  PROVE  StartupInv'
<1>1. /\ config' = config /\ worker' = worker /\ ready_threads' = ready_threads
      /\ phase' = phase /\ launched' = launched
  BY DEF Poll, inputs
<1>2. AnnouncedThreads' = AnnouncedThreads /\ Workers' = Workers
  BY <1>1 DEF AnnouncedThreads, Announced, Workers
<1>3. StartupTypes' /\ Counted' /\ Barrier'
  BY <1>1, <1>2 DEF StartupInv, StartupTypes, Counted, Barrier, Passed
<1>4. Passed
  <2>1. s \in Nat /\ s < launched
    BY ConfigAssumption DEF Poll, Streams
  <2>. QED
    BY <2>1 DEF StartupInv, StartupTypes, Passed
<1>5. Enabled(config, s) => Consumer(s) \in AnnouncedThreads
  BY <1>4, ConsumerWanted DEF StartupInv, Barrier
<1>6. Taken'
  <2> SUFFICES ASSUME NEW x \in stored'
               PROVE  /\ x.stream \in Streams
                      /\ x.port = PortOf(x.stream)
                      /\ x.dest = DestOf(x.stream)
                      /\ Enabled(config, x.stream)
                      /\ Consumer(x.stream) \in AnnouncedThreads
    <3>1. \A t \in Streams : Consumer(t)' = Consumer(t)
      BY <1>1 DEF Consumer
    <3>. QED
      BY <1>1, <1>2, <3>1 DEF Taken, PortOf, DestOf
  <2>1. CASE x \in stored
    BY <2>1 DEF StartupInv, Taken
  <2>2. CASE x \notin stored
    <3>1. PICK d : /\ Accepts(s, d)
                   /\ x = [stream |-> s, port |-> PortOf(s), dest |-> d]
      BY <2>2 DEF Poll
    <3>2. Enabled(config, s) /\ d = DestOf(s)
      BY <3>1 DEF Accepts
    <3>. QED
      BY <1>5, <3>1, <3>2
  <2>. QED
    BY <2>1, <2>2
<1>. QED
  BY <1>3, <1>6 DEF StartupInv

\* Every step preserves the invariant.
LEMMA StartupStep == StartupInv /\ [Next]_vars => StartupInv'
<1> SUFFICES ASSUME StartupInv, [Next]_vars PROVE StartupInv'
  OBVIOUS
<1>1. CASE LoadConfig \/ Allocate \/ InitEal \/ AddRule \/ FinishPort \/ PortFails
  <2>1. CASE Exit
    BY <2>1, ExitStep
  <2>2. CASE ~Exit
    <3>1. /\ config' = config /\ worker' = worker /\ ready_threads' = ready_threads
          /\ stored' = stored /\ launched' = launched
      BY <1>1, <2>2 DEF LoadConfig, Allocate, InitEal, AddRule, FinishPort, PortFails, inputs
    <3>2. Passed' => Passed
      BY <1>1, <2>2 DEF LoadConfig, Allocate, InitEal, AddRule, FinishPort, PortFails, Passed
    <3>. QED
      BY <3>1, <3>2, NothingStarts
  <2>. QED
    BY <2>1, <2>2
<1>2. ASSUME NEW isolated \in BOOLEAN, StartPort(isolated) PROVE StartupInv'
  <2>1. Passed' => Passed
    BY <1>2 DEF StartPort, Passed
  <2>. QED
    BY <1>2, <2>1, NothingStarts DEF StartPort, inputs
<1>3. ASSUME NEW p \in Ports, NEW d \in Dests, Arrive(p, d) PROVE StartupInv'
  <2>1. Passed' => Passed
    BY <1>3 DEF Arrive, Passed
  <2>. QED
    BY <1>3, <2>1, NothingStarts DEF Arrive, inputs
<1>4. CASE UNCHANGED vars
  <2>1. Passed' => Passed
    BY <1>4 DEF vars, Passed
  <2>. QED
    BY <1>4, <2>1, NothingStarts DEF vars, inputs
<1>5. CASE StartWorkers
  BY <1>5, StartWorkersStep
<1>6. CASE AllReady
  BY <1>6, AllReadyStep
<1>7. CASE Launch
  BY <1>7, LaunchStep
<1>8. ASSUME NEW k \in Streams, WorkerStep(k) PROVE StartupInv'
  BY <1>8, AnnounceStep, ConstructStep DEF WorkerStep
<1>9. ASSUME NEW s \in Streams, Poll(s) PROVE StartupInv'
  BY <1>9, PollStep
<1>. QED
  BY <1>1, <1>2, <1>3, <1>4, <1>5, <1>6, <1>7, <1>8, <1>9 DEF Next, Main, Packets

\* A stream takes packets of its network port and UDP port only: recv2mem
\* compares the UDP port also while flow rules are missing.
THEOREM Routing == Spec => []StreamRouting
<1>1. StartupInv => StreamRouting
  <2> SUFFICES ASSUME Taken PROVE StreamRouting
    BY DEF StartupInv
  <2>. QED
    BY DEF Taken, StreamRouting, PortOf, QueueOf, DestOf
<1>. QED
  BY <1>1, StartupInitial, StartupStep, PTL DEF Spec

\* No packet is taken before the thread that takes its batches has announced
\* itself, in baseband mode with its recorder made: main() calls dpdk() after
\* the barrier, where the count of threads is the number that init() starts.
THEOREM ConsumersFirst == Spec => []ConsumerAnnounced
<1>1. StartupInv => ConsumerAnnounced
  <2> SUFFICES ASSUME Taken PROVE ConsumerAnnounced
    BY DEF StartupInv
  <2>. QED
    BY DEF Taken, ConsumerAnnounced, AnnouncedThreads, Announced
<1>. QED
  BY <1>1, StartupInitial, StartupStep, PTL DEF Spec

(***************************************************************************)
(* What an accepted configuration leads to.                                *)
(***************************************************************************)
\* A quotient of positive numbers without a remainder is positive.
LEMMA WholeQuotient ==
  ASSUME NEW a \in Nat \ {0}, NEW d \in Nat \ {0}, a % d = 0
  PROVE  a \div d \in Nat \ {0}
<1>1. a = (a \div d) * d + (a % d) /\ a \div d \in Int
  OBVIOUS
<1>2. a = (a \div d) * d
  BY <1>1
<1>3. ASSUME NEW q \in Int, a = q * d PROVE q > 0
  <2>1. CASE q <= 0
    <3>1. q * d <= 0
      BY <2>1
    <3>. QED
      BY <1>3, <3>1
  <2>. QED
    BY <2>1
<1>. QED
  BY <1>1, <1>2, <1>3

\* batchsize() is positive and calc_pool_size returns at least 3.
LEMMA SizesPositive ==
  ASSUME NEW c, Parsed(c), ConfigOK(c)
  PROVE  /\ RequestedNfft(c) \in Nat \ {0}
         /\ BatchSize(c) \in Nat \ {0}
         /\ PoolCapacity(c) \in Nat /\ PoolCapacity(c) >= 3
<1>1. /\ SamplingRate \in Nat \ {0} /\ SamplesPerPacket \in Nat \ {0}
      /\ MinNfft \in Nat \ {0} /\ PacketBytes \in Nat \ {0}
  BY ConfigAssumption
<1>2. c.win_bw \in Nat \ {0} /\ c.win_channels \in Nat \ {0} /\ c.memory \in Nat
  BY DEF Parsed, ConfigOK, ResolutionOK
<1>3. RequestedNfft(c) \in Int
  <2>1. ASSUME NEW a \in Nat \ {0}, NEW b \in Nat \ {0}
        PROVE  RoundDiv(a, b) \in Int
    BY DEF RoundDiv
  <2>2. SamplingRate * c.win_channels \in Nat \ {0}
    BY <1>1, <1>2
  <2>. QED
    BY <1>2, <2>1, <2>2 DEF RequestedNfft
<1>4. RequestedNfft(c) \in Nat \ {0} /\ RequestedNfft(c) % SamplesPerPacket = 0
  BY <1>1, <1>3 DEF ConfigOK, CheckConfig
<1>5. TotalNfft(c) \in Nat \ {0} /\ TotalNfft(c) % SamplesPerPacket = 0
  <2>1. CASE c.mode = BASEBAND
    <3>1. c.bits \in DOMAIN BasebandNfft
      BY <2>1, ConfigAssumption DEF ConfigOK, ObservationOK
    <3>. QED
      BY <2>1, <3>1, ConfigAssumption DEF TotalNfft
  <2>2. CASE c.mode # BASEBAND
    BY <1>4, <2>2 DEF TotalNfft
  <2>. QED
    BY <2>1, <2>2
<1>6. BatchSize(c) \in Nat \ {0}
  BY <1>1, <1>5, WholeQuotient DEF BatchSize
<1>7. PoolCapacity(c) \in Nat /\ PoolCapacity(c) >= 3
  <2>1. PacketBytes * BatchSize(c) \in Nat \ {0}
    BY <1>1, <1>6
  <2>2. ASSUME NEW m \in Nat, NEW d \in Nat \ {0}
        PROVE  m \div d \in Int
    BY <2>2
  <2>3. c.memory \div (PacketBytes * BatchSize(c)) \in Int
    BY <1>2, <2>1, <2>2
  <2>. QED
    BY <2>3 DEF PoolCapacity
<1>. QED
  BY <1>4, <1>6, <1>7

\* The windows of an enabled subband lie inside of the FFT.
LEMMA WindowsInside ==
  ASSUME NEW c, Parsed(c), ConfigOK(c), c.mode # BASEBAND,
         NEW i \in Subbands, Subband(c, i).enable,
         NEW k \in DOMAIN Subband(c, i).windows
  PROVE  LET first == StartIdx(c, Subband(c, i), Subband(c, i).windows[k])
         IN first >= 0 /\ first + c.win_channels <= TotalNfft(c)
<1> DEFINE sb == Subband(c, i)
           centre == sb.windows[k]
<1>1. Pairs \in Nat \ {0} /\ SamplingRate \in Nat \ {0}
  BY ConfigAssumption
<1>2. i + 1 \in 1 .. Len(c.subbands)
  BY <1>1 DEF Subbands, ConfigOK, SubbandsOK
<1>3. SubbandOK(c, sb)
  BY <1>2 DEF Subband, ConfigOK, SubbandsOK
<1>4. WindowOK(c, sb, centre)
  BY <1>3 DEF SubbandOK
<1>5. sb.start_freq \in Int /\ centre \in Int /\ c.win_bw \in Int
  <2>1. sb.start_freq \in Int /\ sb.windows \in Seq(Int) /\ c.win_bw \in Int
    BY <1>2 DEF Parsed, Subband
  <2>. QED
    BY <2>1
<1>6. RequestedNfft(c) \in Nat
  BY SizesPositive
<1>7. StartIdx(c, sb, centre) >= 0
  <2>1. 2 * (centre - sb.start_freq) - c.win_bw \in Nat
    BY <1>4, <1>5 DEF WindowOK
  <2>2. (2 * (centre - sb.start_freq) - c.win_bw) * RequestedNfft(c) \in Nat
    BY <1>6, <2>1
  <2>3. ASSUME NEW a \in Nat, NEW b \in Nat \ {0}
        PROVE  RoundDiv(a, b) >= 0
    <3>1. 2 * a + b \in Nat /\ 2 * b \in Nat \ {0}
      OBVIOUS
    <3>2. ASSUME NEW m \in Nat, NEW d \in Nat \ {0}
          PROVE  m \div d >= 0
      OBVIOUS
    <3>. QED
      BY <3>1, <3>2 DEF RoundDiv
  <2>4. 2 * SamplingRate \in Nat \ {0}
    BY <1>1
  <2>. QED
    BY <2>2, <2>3, <2>4 DEF StartIdx
<1>. QED
  BY <1>4, <1>7 DEF WindowOK, TotalNfft

\* The index of a stream in the pools: enabled streams are numbered from 0
\* without a gap.
LEMMA PoolIndexOrder ==
  ASSUME NEW c
  PROVE  LET used == {s \in Streams : Enabled(c, s)} IN
         /\ IsFiniteSet(used) /\ Cardinality(used) \in Nat
         /\ \A s \in used : PoolIndex(c, s) \in 0 .. Cardinality(used) - 1
         /\ \A s, t \in used : s < t => PoolIndex(c, s) + 1 <= PoolIndex(c, t)
<1> DEFINE used == {s \in Streams : Enabled(c, s)}
           before(s) == {t \in Streams : t < s /\ Enabled(c, t)}
<1>1. Streams \subseteq Nat /\ IsFiniteSet(Streams)
  BY ThreadsWanted DEF Streams
<1>2. IsFiniteSet(used) /\ Cardinality(used) \in Nat
  <2>1. used \in SUBSET Streams
    OBVIOUS
  <2>. HIDE DEF used
  <2>. QED
    BY <1>1, <2>1, FS_Subset, FS_CardinalityType
<1>3. ASSUME NEW s
      PROVE  /\ IsFiniteSet(before(s)) /\ Cardinality(before(s)) \in Nat
             /\ PoolIndex(c, s) = Cardinality(before(s))
  <2>1. before(s) \in SUBSET Streams
    OBVIOUS
  <2>2. PoolIndex(c, s) = Cardinality(before(s))
    BY DEF PoolIndex
  <2>. HIDE DEF before
  <2>. QED
    BY <1>1, <2>1, <2>2, FS_Subset, FS_CardinalityType
<1>4. ASSUME NEW s \in used, NEW T, before(s) \cup {s} \subseteq T, IsFiniteSet(T)
      PROVE  PoolIndex(c, s) + 1 <= Cardinality(T)
  <2>1. s \notin before(s)
    BY <1>1
  <2>2. IsFiniteSet(before(s)) /\ PoolIndex(c, s) = Cardinality(before(s))
    BY <1>3
  <2>. HIDE DEF before
  <2>3. Cardinality(before(s) \cup {s}) = PoolIndex(c, s) + 1
    BY <2>1, <2>2, FS_AddElement
  <2>4. before(s) \cup {s} \in SUBSET T
    BY <1>4
  <2>. QED
    BY <1>4, <2>3, <2>4, FS_Subset
<1>5. ASSUME NEW s \in used
      PROVE  PoolIndex(c, s) \in 0 .. Cardinality(used) - 1
  <2>1. before(s) \cup {s} \subseteq used
    OBVIOUS
  <2>2. PoolIndex(c, s) + 1 <= Cardinality(used)
    BY <1>2, <1>4, <2>1
  <2>3. PoolIndex(c, s) \in Nat
    BY <1>3
  <2>. QED
    BY <1>2, <2>2, <2>3
<1>6. ASSUME NEW s \in used, NEW t \in used, s < t
      PROVE  PoolIndex(c, s) + 1 <= PoolIndex(c, t)
  <2>1. before(s) \cup {s} \subseteq before(t)
    <3>1. s \in Nat /\ t \in Nat /\ s \in before(t)
      BY <1>1, <1>6
    <3>2. ASSUME NEW u \in before(s) PROVE u \in before(t)
      <4>1. u \in Nat /\ u < s
        BY <1>1
      <4>. QED
        BY <1>6, <3>1, <4>1
    <3>. QED
      BY <3>1, <3>2
  <2>2. IsFiniteSet(before(t)) /\ PoolIndex(c, t) = Cardinality(before(t))
    BY <1>3
  <2>. QED
    BY <1>4, <2>1, <2>2
<1>. QED
  BY <1>2, <1>5, <1>6

\* Two numbers with their digits in a mixed radix are different when a digit is,
\* and the number is inside of its range.
LEMMA Digits ==
  ASSUME NEW n \in Nat, NEW p \in Nat,
         NEW a \in 0 .. p - 1, NEW b \in 0 .. n - 1
  PROVE  /\ a * n + b \in 0 .. p * n - 1
         /\ \A x \in 0 .. p - 1, y \in 0 .. n - 1 :
              a * n + b = x * n + y => a = x /\ b = y
<1>1. a * n + b \in 0 .. p * n - 1
  <2>1. PICK d \in Nat : p = a + 1 + d
    <3>1. p - a - 1 \in Nat /\ p = a + 1 + (p - a - 1)
      OBVIOUS
    <3>. QED
      BY <3>1
  <2>2. p * n = a * n + n + d * n /\ d * n \in Nat /\ a * n \in Nat
    BY <2>1
  <2>. QED
    BY <2>2
<1>2. ASSUME NEW u \in Nat, NEW v \in Nat, NEW y \in 0 .. n - 1, NEW z \in 0 .. n - 1,
             u < v
      PROVE  u * n + y # v * n + z
  <2>1. PICK d \in Nat : v = u + 1 + d
    <3>1. v - u - 1 \in Nat /\ v = u + 1 + (v - u - 1)
      BY <1>2
    <3>. QED
      BY <3>1
  <2>2. v * n = u * n + n + d * n /\ d * n \in Nat /\ u * n \in Nat
    BY <2>1
  <2>. QED
    BY <2>2
<1>3. ASSUME NEW x \in 0 .. p - 1, NEW y \in 0 .. n - 1, a * n + b = x * n + y
      PROVE  a = x /\ b = y
  <2>1. ~(a < x) /\ ~(x < a)
    BY <1>2, <1>3
  <2>2. a = x
    BY <2>1
  <2>3. a * n \in Int
    OBVIOUS
  <2>. QED
    BY <1>3, <2>2, <2>3
<1>. QED
  BY <1>1, <1>3

\* The storage of the batches, in units of packets: each batch of each enabled
\* stream has its own packets inside of the allocation.
LEMMA StorageApart ==
  ASSUME NEW c, Parsed(c), ConfigOK(c)
  PROVE  LET used == {s \in Streams : Enabled(c, s)}
             batches == used \X (0 .. PoolCapacity(c) - 1)
             storage == UNION {Storage(c, x[1], x[2]) : x \in batches}
         IN /\ storage \subseteq 0 .. TotalPackets(c) - 1
            /\ Cardinality(storage) = Cardinality(batches) * BatchSize(c)
<1> DEFINE used == {s \in Streams : Enabled(c, s)}
           cap == PoolCapacity(c)
           size == BatchSize(c)
           batches == used \X (0 .. cap - 1)
           storage == UNION {Storage(c, x[1], x[2]) : x \in batches}
           packets == batches \X (0 .. size - 1)
           number(s, b) == PoolIndex(c, s) * cap + b
           f == [x \in packets |-> number(x[1][1], x[1][2]) * size + x[2]]
<1>1. cap \in Nat /\ size \in Nat
  BY SizesPositive
<1>2. /\ IsFiniteSet(used) /\ Cardinality(used) \in Nat
      /\ \A s \in used : PoolIndex(c, s) \in 0 .. Cardinality(used) - 1
      /\ \A s, t \in used : s < t => PoolIndex(c, s) + 1 <= PoolIndex(c, t)
  BY PoolIndexOrder
<1>3. \A s, t \in used : PoolIndex(c, s) = PoolIndex(c, t) => s = t
  <2> SUFFICES ASSUME NEW s \in used, NEW t \in used, PoolIndex(c, s) = PoolIndex(c, t)
               PROVE  s = t
    OBVIOUS
  <2>1. s \in Int /\ t \in Int
    BY DEF Streams
  <2>2. PoolIndex(c, s) \in Int
    BY <1>2
  <2>3. ~(s < t) /\ ~(t < s)
    BY <1>2, <2>2
  <2>. QED
    BY <2>1, <2>3
<1> DEFINE total == Cardinality(used) * cap
<1>4. total \in Nat /\ TotalPackets(c) = total * size
  BY <1>1, <1>2 DEF TotalPackets
<1>5. \A s \in used, b \in 0 .. cap - 1 : number(s, b) \in 0 .. total - 1
  BY <1>1, <1>2, Digits
<1>6. \A s, t \in used, b, d \in 0 .. cap - 1 :
        number(s, b) = number(t, d) => s = t /\ b = d
  <2> SUFFICES ASSUME NEW s \in used, NEW t \in used, NEW b \in 0 .. cap - 1,
                      NEW d \in 0 .. cap - 1, number(s, b) = number(t, d)
               PROVE  s = t /\ b = d
    OBVIOUS
  <2>1. PoolIndex(c, s) = PoolIndex(c, t) /\ b = d
    BY <1>1, <1>2, Digits, SMTT(30)
  <2>. QED
    BY <1>3, <2>1
<1>7. \A s \in used, b \in 0 .. cap - 1 :
        Storage(c, s, b) = {number(s, b) * size + r : r \in 0 .. size - 1}
  <2> SUFFICES ASSUME NEW s \in used, NEW b \in 0 .. cap - 1
               PROVE  Storage(c, s, b) = {number(s, b) * size + r : r \in 0 .. size - 1}
    OBVIOUS
  <2>1. PICK o \in Int : o = number(s, b) * size
    <3>. HIDE DEF number, size, total, cap, used
    <3>1. number(s, b) \in Int
      BY <1>5
    <3>. QED
      BY <1>1, <3>1
  <2>2. Storage(c, s, b) = o .. o + size - 1
    BY <2>1 DEF Storage
  <2>3. ASSUME NEW y \in o .. o + size - 1
        PROVE  y - o \in 0 .. size - 1 /\ y = o + (y - o)
    BY <1>1
  <2>4. ASSUME NEW r \in 0 .. size - 1
        PROVE  o + r \in o .. o + size - 1
    BY <1>1
  <2>. QED
    BY <2>1, <2>2, <2>3, <2>4
<1>8. \A s \in used, b \in 0 .. cap - 1, r \in 0 .. size - 1 :
        <<<<s, b>>, r>> \in packets /\ f[<<<<s, b>>, r>>] = number(s, b) * size + r
  OBVIOUS
<1>9. \A x \in packets : \E s \in used, b \in 0 .. cap - 1, r \in 0 .. size - 1 :
        x = <<<<s, b>>, r>>
  OBVIOUS
<1>10. \A y \in storage : \E s \in used, b \in 0 .. cap - 1, r \in 0 .. size - 1 :
         y = number(s, b) * size + r
  <2> TAKE y \in storage
  <2>1. PICK x \in batches : y \in Storage(c, x[1], x[2])
    OBVIOUS
  <2>2. x[1] \in used /\ x[2] \in 0 .. cap - 1
    OBVIOUS
  <2>3. y \in {number(x[1], x[2]) * size + r : r \in 0 .. size - 1}
    BY <1>7, <2>1, <2>2
  <2>. QED
    BY <2>2, <2>3
<1>11. \A s \in used, b \in 0 .. cap - 1, r \in 0 .. size - 1 :
         number(s, b) * size + r \in storage
  <2> TAKE s \in used, b \in 0 .. cap - 1, r \in 0 .. size - 1
  <2>1. <<s, b>> \in batches
    OBVIOUS
  <2>2. number(s, b) * size + r \in Storage(c, s, b)
    BY <1>7
  <2>. QED
    BY <2>1, <2>2
<1>12. storage \subseteq 0 .. TotalPackets(c) - 1
  <2> SUFFICES ASSUME NEW y \in storage PROVE y \in 0 .. TotalPackets(c) - 1
    OBVIOUS
  <2>1. PICK s \in used, b \in 0 .. cap - 1, r \in 0 .. size - 1 :
          y = number(s, b) * size + r
    BY <1>10
  <2>2. number(s, b) \in 0 .. total - 1
    BY <1>5
  <2>. HIDE DEF number, total, cap, size
  <2>3. number(s, b) * size + r \in 0 .. total * size - 1
    BY <1>1, <1>4, <2>2, Digits
  <2>. QED
    BY <1>4, <2>1, <2>3
<1>13. \A u, v \in packets : f[u] = f[v] => u = v
  <2> TAKE u, v \in packets
  <2> HAVE f[u] = f[v]
  <2>1. PICK s \in used, b \in 0 .. cap - 1, r \in 0 .. size - 1 : u = <<<<s, b>>, r>>
    BY <1>9
  <2>2. PICK t \in used, d \in 0 .. cap - 1, q \in 0 .. size - 1 : v = <<<<t, d>>, q>>
    BY <1>9
  <2>3. number(s, b) * size + r = number(t, d) * size + q
    BY <1>8, <2>1, <2>2
  <2>4. number(s, b) \in 0 .. total - 1 /\ number(t, d) \in 0 .. total - 1
    BY <1>5
  <2>5. number(s, b) = number(t, d) /\ r = q
    <3>. HIDE DEF number, total, cap, size, f
    <3>1. ASSUME NEW g \in 0 .. total - 1, NEW h \in 0 .. total - 1,
                 g * size + r = h * size + q
          PROVE  g = h /\ r = q
      BY <1>1, <1>4, <3>1, Digits
    <3>. QED
      BY <2>3, <2>4, <3>1
  <2>. QED
    BY <1>6, <2>1, <2>2, <2>5
<1>14. f \in Bijection(packets, storage)
  <2>1. f = [x \in packets |-> f[x]] /\ \A x \in packets : f[x] \in storage
    <3>1. \A x \in packets : f[x] \in storage
      BY <1>8, <1>9, <1>11
    <3>. QED
      BY <3>1
  <2>2. \A y \in storage : \E x \in packets : f[x] = y
    <3> TAKE y \in storage
    <3>1. PICK s \in used, b \in 0 .. cap - 1, r \in 0 .. size - 1 :
            y = number(s, b) * size + r
      BY <1>10
    <3>2. <<<<s, b>>, r>> \in packets /\ f[<<<<s, b>>, r>>] = y
      BY <1>8, <3>1
    <3>. QED
      BY <3>2
  <2>. HIDE DEF f, packets, storage
  <2>3. f \in [packets -> storage]
    BY <2>1
  <2>. QED
    BY <1>13, <2>2, <2>3, Fun_IsBij
<1>15. IsFiniteSet(batches) /\ Cardinality(batches) \in Nat
  <2>1. IsFiniteSet(0 .. cap - 1)
    BY <1>1, FS_Interval
  <2>. HIDE DEF used, cap
  <2>. QED
    BY <1>2, <2>1, FS_Product, FS_CardinalityType
<1>16. IsFiniteSet(packets) /\ Cardinality(packets) = Cardinality(batches) * size
  <2>1. IsFiniteSet(0 .. size - 1) /\ Cardinality(0 .. size - 1) = size
    <3>1. 0 \in Int /\ size - 1 \in Int /\ (0 > size - 1 => size = 0)
          /\ (size - 1) - 0 + 1 = size
      BY <1>1
    <3>. HIDE DEF size
    <3>. QED
      BY <3>1, FS_Interval
  <2>. HIDE DEF batches, size
  <2>. QED
    BY <1>15, <2>1, FS_Product
<1>17. Cardinality(storage) = Cardinality(batches) * size
  <2>. HIDE DEF f, packets, storage, batches, size
  <2>1. ExistsBijection(packets, storage)
    BY <1>14 DEF ExistsBijection
  <2>. QED
    BY <1>16, <2>1, FS_Bijection
<1>. QED
  BY <1>12, <1>17

\* A function that maps a finite set one to one.
LEMMA OneToOne ==
  ASSUME NEW D, IsFiniteSet(D), NEW f, f = [x \in D |-> f[x]],
         \A x, y \in D : f[x] = f[y] => x = y
  PROVE  Distinct(f)
<1> DEFINE T == {f[x] : x \in D}
<1>1. f \in [D -> T] /\ DOMAIN f = D
  BY Zenon
<1>2. f \in Bijection(D, T)
  <2>1. \A t \in T : \E x \in D : f[x] = t
    OBVIOUS
  <2>. HIDE DEF T
  <2>. QED
    BY <1>1, <2>1, Fun_IsBij
<1>3. Cardinality(T) = Cardinality(D)
  <2>. HIDE DEF T
  <2>1. ExistsBijection(D, T)
    BY <1>2 DEF ExistsBijection
  <2>. QED
    BY <2>1, FS_Bijection
<1>. QED
  BY <1>1, <1>3 DEF Distinct

\* Server, physical subband and beam tell the subbands apart.
LEMMA SubbandNames ==
  ASSUME NEW c, ConfigOK(c), NEW i \in Subbands, NEW j \in Subbands,
         GlobalSubband(c, i) = GlobalSubband(c, j),
         Subband(c, i).beam = Subband(c, j).beam
  PROVE  i = j
<1>1. Pairs \in Nat \ {0} /\ Servers \in Nat \ {0}
  BY ConfigAssumption
<1>2. c.server \in Int
  <2>1. c.server \in 0 .. Servers - 1
    BY Zenon DEF ConfigOK, ObservationOK
  <2>. QED
    BY <2>1
<1>3. ASSUME NEW k \in Subbands
      PROVE  /\ k \in Nat /\ k \div 2 \in Nat /\ k % 2 \in {0, 1}
             /\ k = 2 * (k \div 2) + (k % 2)
             /\ Subband(c, k).beam = IF k % 2 = 0 THEN "A" ELSE "B"
  <2>1. k \in Nat /\ k < 2 * Pairs
    BY <1>1 DEF Subbands
  <2>2. ASSUME NEW n \in Nat, NEW u \in Nat, u < 2 * n
        PROVE  /\ u \div 2 \in Nat /\ u % 2 \in {0, 1} /\ u \div 2 + 1 \in 1 .. n
               /\ u = 2 * (u \div 2) + (u % 2)
    BY ONLY <2>2
  <2>3. /\ k \div 2 \in Nat /\ k % 2 \in {0, 1} /\ k \div 2 + 1 \in 1 .. Pairs
        /\ k = 2 * (k \div 2) + (k % 2)
    BY <1>1, <2>1, <2>2
  <2>4. PICK p \in 1 .. Pairs : p = k \div 2 + 1
    BY <2>3
  <2>5. c.subbands[2 * p - 1].beam = "A" /\ c.subbands[2 * p].beam = "B"
    BY DEF ConfigOK, SubbandsOK, PairOK
  <2>6. k + 1 = IF k % 2 = 0 THEN 2 * p - 1 ELSE 2 * p
    <3>1. ASSUME NEW q \in Nat, NEW r \in {0, 1}
          PROVE  2 * q + r + 1 = IF r = 0 THEN 2 * (q + 1) - 1 ELSE 2 * (q + 1)
      OBVIOUS
    <3>. QED
      BY <2>3, <2>4, <3>1
  <2>. QED
    BY <2>1, <2>3, <2>5, <2>6 DEF Subband
<1>4. i \div 2 = j \div 2
  <2>1. i \div 2 \in Nat /\ j \div 2 \in Nat
    BY <1>3
  <2>2. c.server * 4 \in Int
    BY <1>2
  <2>3. c.server * 4 + (i \div 2) = c.server * 4 + (j \div 2)
    BY DEF GlobalSubband
  <2>. QED
    BY <2>1, <2>2, <2>3
<1>5. i % 2 = j % 2
  BY <1>3
<1>. QED
  BY <1>3, <1>4, <1>5

\* No two windows have the same name.
LEMMA WindowNames ==
  ASSUME NEW c, Parsed(c), ConfigOK(c)
  PROVE  LET windows == UNION {{i} \X DOMAIN Subband(c, i).windows :
                                 i \in {j \in Subbands : Subband(c, j).enable}}
         IN Distinct([x \in windows |-> WindowName(c, x[1], x[2])])
<1> DEFINE enabled == {j \in Subbands : Subband(c, j).enable}
           windows == UNION {{i} \X DOMAIN Subband(c, i).windows : i \in enabled}
           f == [x \in windows |-> WindowName(c, x[1], x[2])]
<1>1. Pairs \in Nat \ {0}
  BY ConfigAssumption
<1>2. ASSUME NEW i \in enabled
      PROVE  DOMAIN Subband(c, i).windows \subseteq 1 .. 4
  <2>1. i + 1 \in 1 .. Len(c.subbands)
    BY <1>1 DEF Subbands, ConfigOK, SubbandsOK
  <2>2. SubbandOK(c, Subband(c, i)) /\ Subband(c, i).windows \in Seq(Int)
    BY <2>1 DEF Subband, ConfigOK, SubbandsOK, Parsed
  <2>3. Len(Subband(c, i).windows) \in 1 .. 4
    BY <2>2 DEF SubbandOK
  <2>. QED
    BY <2>2, <2>3
<1>3. ASSUME NEW x \in windows
      PROVE  x[1] \in Subbands /\ x[2] \in 1 .. 4 /\ x = <<x[1], x[2]>>
  <2>1. PICK i \in enabled : x \in {i} \X DOMAIN Subband(c, i).windows
    OBVIOUS
  <2>2. x[1] = i /\ x[2] \in DOMAIN Subband(c, i).windows /\ x = <<x[1], x[2]>>
    BY <2>1
  <2>. QED
    BY <1>2, <2>2
<1>4. IsFiniteSet(windows)
  <2>1. IsFiniteSet(Subbands) /\ IsFiniteSet(1 .. 4)
    <3>1. 0 \in Int /\ 1 \in Int /\ 4 \in Int /\ 2 * Pairs - 1 \in Int
      BY <1>1
    <3>. QED
      BY ONLY <3>1, FS_Interval DEF Subbands
  <2>2. IsFiniteSet(Subbands \X (1 .. 4))
    BY <2>1, FS_Product
  <2>3. windows \in SUBSET (Subbands \X (1 .. 4))
    <3>1. \A x \in windows : x \in Subbands \X (1 .. 4)
      BY <1>3
    <3>. HIDE DEF windows
    <3>. QED
      BY <3>1
  <2>. HIDE DEF windows
  <2>. QED
    BY <2>2, <2>3, FS_Subset
<1>5. ASSUME NEW x \in windows, NEW y \in windows, f[x] = f[y]
      PROVE  x = y
  <2>1. WindowName(c, x[1], x[2]) = WindowName(c, y[1], y[2])
    <3>. HIDE DEF windows
    <3>. QED
      BY <1>5
  <2>2. /\ GlobalSubband(c, x[1]) = GlobalSubband(c, y[1]) /\ x[2] = y[2]
        /\ Subband(c, x[1]).beam = Subband(c, y[1]).beam
    BY <2>1 DEF WindowName
  <2>3. x[1] = y[1]
    BY <1>3, <2>2, SubbandNames
  <2>. QED
    BY <1>3, <2>2, <2>3
<1>6. f = [x \in windows |-> f[x]]
  <2>. HIDE DEF windows
  <2>. QED
    OBVIOUS
<1>. HIDE DEF windows, f
<1>7. Distinct(f)
  BY <1>4, <1>5, <1>6, OneToOne
<1>. QED
  BY <1>7 DEF windows, f

\* No two recorders write to the same part file.
LEMMA RecorderNames ==
  ASSUME NEW c, ConfigOK(c)
  PROVE  Distinct([s \in {t \in Streams : Enabled(c, t)} |-> BasebandName(c, s)])
<1> DEFINE used == {t \in Streams : Enabled(c, t)}
           f == [s \in used |-> BasebandName(c, s)]
<1>1. Pairs \in Nat \ {0}
  BY ConfigAssumption
<1>2. IsFiniteSet(used)
  BY PoolIndexOrder
<1>3. ASSUME NEW s \in Streams
      PROVE  s \div 2 \in Subbands /\ s % 2 \in {0, 1} /\ s = 2 * (s \div 2) + (s % 2)
  <2>1. ASSUME NEW n \in Nat \ {0}, NEW u \in 0 .. 4 * n - 1
        PROVE  /\ u \div 2 \in 0 .. 2 * n - 1
               /\ u % 2 \in {0, 1}
               /\ u = 2 * (u \div 2) + (u % 2)
    BY ONLY <2>1
  <2>. QED
    BY <1>1, <2>1 DEF Streams, Subbands
<1>4. ASSUME NEW s \in used, NEW t \in used, f[s] = f[t]
      PROVE  s = t
  <2>1. BasebandName(c, s) = BasebandName(c, t)
    BY <1>4
  <2>2. /\ GlobalSubband(c, s \div 2) = GlobalSubband(c, t \div 2)
        /\ Subband(c, s \div 2).beam = Subband(c, t \div 2).beam
        /\ (s % 2 = 0) <=> (t % 2 = 0)
    BY <2>1 DEF BasebandName
  <2>3. s \div 2 = t \div 2
    BY <1>3, <2>2, SubbandNames
  <2>4. s % 2 = t % 2
    BY <1>3, <2>2
  <2>. QED
    BY <1>3, <2>3, <2>4
<1>. HIDE DEF used
<1>5. f = [s \in used |-> f[s]]
  OBVIOUS
<1>. HIDE DEF f
<1>6. Distinct(f)
  BY <1>2, <1>4, <1>5, OneToOne
<1>. QED
  BY <1>6 DEF f, used

(***************************************************************************)
(* The polling lcores.                                                     *)
(***************************************************************************)
\* What generate_lcore_params does for queue number i when the lcores before
\* were given to the queues before it.
NextLcore(before, i) ==
  LET free == WorkerLcores \ Range(before)
      port == (i - 1) \div QueuesPerPort
      near == {l \in free : LcoreSocket(l) = host.port_socket[port]}
  IN Append(before, Min(IF near # {} THEN near ELSE free))

\* g is the result of its loop after 0 to n rounds.
IsLoop(g, n) == g = [i \in 0 .. n |-> IF i = 0 THEN <<>> ELSE NextLcore(g[i - 1], i)]

\* The loop is well-defined.
LEMMA LoopDefined ==
  ASSUME NEW n \in Nat
  PROVE  \E g : IsLoop(g, n)
<1> DEFINE S == {m \in Nat : ~\E g : IsLoop(g, m)}
<1>1. ASSUME S # {} PROVE FALSE
  <2>1. PICK m \in S : \A y \in S : m <= y
    <3>1. S \subseteq Nat
      OBVIOUS
    <3>. HIDE DEF S
    <3>. QED
      BY <1>1, <3>1, LeastElement
  <2>2. m \in Nat /\ ~\E g : IsLoop(g, m)
    BY <2>1
  <2>3. CASE m = 0
    <3> DEFINE g == [i \in 0 .. 0 |-> <<>>]
    <3>1. IsLoop(g, 0)
      BY DEF IsLoop
    <3>. QED
      BY <2>2, <2>3, <3>1
  <2>4. CASE m # 0
    <3>1. PICK k \in Nat : m = k + 1
      <4>1. m - 1 \in Nat /\ m = (m - 1) + 1
        BY <2>2, <2>4
      <4>. QED
        BY <4>1
    <3>2. k \notin S
      BY <2>1, <3>1
    <3>3. PICK h : IsLoop(h, k)
      BY <3>2
    <3> DEFINE g == [i \in 0 .. k + 1 |-> IF i = k + 1 THEN NextLcore(h[k], k + 1) ELSE h[i]]
    <3>4. \A i \in 0 .. k : g[i] = h[i]
      OBVIOUS
    <3>5. g[k + 1] = NextLcore(h[k], k + 1)
      OBVIOUS
    <3>6. \A i \in 0 .. k : h[i] = IF i = 0 THEN <<>> ELSE NextLcore(h[i - 1], i)
      BY <3>3 DEF IsLoop
    <3>7. ASSUME NEW i \in 0 .. k + 1
          PROVE  g[i] = IF i = 0 THEN <<>> ELSE NextLcore(g[i - 1], i)
      <4>1. CASE i = k + 1
        <5>1. i # 0 /\ i - 1 = k /\ k \in 0 .. k
          BY <4>1
        <5>2. g[k] = h[k]
          BY <3>4, <5>1
        <5>. HIDE DEF g
        <5>. QED
          BY <4>1, <5>1, <5>2, <3>5
      <4>2. CASE i # k + 1
        <5>1. i \in 0 .. k /\ (i # 0 => i - 1 \in 0 .. k)
          BY <4>2
        <5>2. g[i] = h[i] /\ (i # 0 => g[i - 1] = h[i - 1])
          BY <3>4, <5>1
        <5>. HIDE DEF g
        <5>. QED
          BY <3>6, <5>1, <5>2
      <4>. QED
        BY <4>1, <4>2
    <3>8. g = [i \in 0 .. k + 1 |-> g[i]]
      OBVIOUS
    <3>. HIDE DEF g
    <3>9. IsLoop(g, k + 1)
      BY <3>7, <3>8 DEF IsLoop
    <3>. QED
      BY <2>2, <3>1, <3>9
  <2>. QED
    BY <2>3, <2>4
<1>. QED
  BY <1>1

\* AssignedLcores is what the loop has made in the end.
LEMMA AssignedByLoop ==
  \E g : IsLoop(g, 2 * QueuesPerPort) /\ AssignedLcores = g[2 * QueuesPerPort]
<1>1. 2 * QueuesPerPort \in Nat
  BY StartupAssumption
<1>2. \E g : IsLoop(g, 2 * QueuesPerPort)
  BY <1>1, LoopDefined
<1> DEFINE g == CHOOSE a : IsLoop(a, 2 * QueuesPerPort)
<1>3. IsLoop(g, 2 * QueuesPerPort)
  BY <1>2
<1>4. AssignedLcores = g[2 * QueuesPerPort]
  BY Zenon DEF AssignedLcores, IsLoop, NextLcore
<1>. QED
  BY <1>3, <1>4

\* A set with more than m elements is not within the range of a sequence of m.
LEMMA SomethingFree ==
  ASSUME NEW W, IsFiniteSet(W), NEW m \in Nat, m < Cardinality(W),
         NEW s, DOMAIN s = 1 .. m
  PROVE  W \ Range(s) # {}
<1> SUFFICES ASSUME W \subseteq Range(s) PROVE FALSE
  OBVIOUS
<1> DEFINE R == Range(s)
           f == [k \in 1 .. m |-> s[k]]
<1>1. IsFiniteSet(1 .. m) /\ Cardinality(1 .. m) = m
  BY FS_Interval
<1>2. f \in Surjection(1 .. m, R)
  <2>1. f \in [1 .. m -> R]
    BY DEF Range
  <2>2. \A t \in R : \E k \in 1 .. m : f[k] = t
    BY DEF Range
  <2>. HIDE DEF f, R
  <2>. QED
    BY <2>1, <2>2, Fun_IsSurj
<1>3. IsFiniteSet(R) /\ Cardinality(R) <= m
  <2>. HIDE DEF f, R
  <2>. QED
    BY <1>1, <1>2, FS_Surjection
<1>4. W \in SUBSET R
  OBVIOUS
<1>5. Cardinality(W) <= Cardinality(R) /\ Cardinality(W) \in Nat /\ Cardinality(R) \in Nat
  <2>. HIDE DEF R
  <2>. QED
    BY <1>3, <1>4, FS_Subset, FS_CardinalityType
<1>. QED
  BY <1>3, <1>5

\* The worker lcores are natural numbers, and finitely many.
LEMMA LcoresFinite ==
  ASSUME IsFiniteSet(host.allowed)
  PROVE  WorkerLcores \subseteq Nat /\ IsFiniteSet(WorkerLcores)
         /\ Cardinality(WorkerLcores) \in Nat
<1> DEFINE S == {Cardinality(host.allowed), MaxLcore}
<1>1. Cardinality(host.allowed) \in Nat /\ MaxLcore \in Nat
  BY FS_CardinalityType, StartupAssumption
<1>2. S \subseteq Nat /\ S # {}
  BY <1>1
<1>3. Min(S) \in Nat
  <2>. HIDE DEF S
  <2>. QED
    BY <1>2, MinIsElement
<1>4. Min(S) - 1 \in Int /\ 0 \in Int
  <2>. HIDE DEF S
  <2>. QED
    BY <1>3
<1>5. Lcores = 0 .. Min(S) - 1
  BY DEF Lcores
<1>6. IsFiniteSet(Lcores) /\ Lcores \subseteq Nat
  <2>. HIDE DEF S
  <2>. QED
    BY <1>4, <1>5, FS_Interval
<1>7. WorkerLcores \in SUBSET Lcores
  BY DEF WorkerLcores
<1>. QED
  BY <1>6, <1>7, FS_Subset, FS_CardinalityType

\* A round gives an lcore to the queue that no queue before it has, as long as
\* there are more lcores than rounds so far.
LEMMA NextLcoreNew ==
  ASSUME WorkerLcores \subseteq Nat, IsFiniteSet(WorkerLcores),
         NEW k \in Nat, k < Cardinality(WorkerLcores),
         NEW before \in Seq(WorkerLcores), Len(before) = k
  PROVE  \E l \in WorkerLcores : /\ NextLcore(before, k + 1) = Append(before, l)
                                 /\ \A a \in 1 .. k : before[a] # l
<1> DEFINE free == WorkerLcores \ Range(before)
           near == {l \in free : LcoreSocket(l) = host.port_socket[k \div QueuesPerPort]}
           choice == IF near # {} THEN near ELSE free
<1>1. DOMAIN before = 1 .. k
  OBVIOUS
<1>2. free # {}
  BY <1>1, SomethingFree
<1>3. choice \subseteq free /\ choice # {} /\ choice \subseteq Nat
  BY <1>2
<1>4. Min(choice) \in choice
  <2>. HIDE DEF choice
  <2>. QED
    BY <1>3, MinIsElement
<1>5. PICK l \in free : l = Min(choice)
  BY <1>3, <1>4
<1>6. NextLcore(before, k + 1) = Append(before, l)
  <2>1. (k + 1) - 1 = k
    OBVIOUS
  <2>. QED
    BY <1>5, <2>1 DEF NextLcore
<1>7. \A a \in 1 .. k : before[a] # l
  BY <1>1 DEF Range
<1>. QED
  BY <1>6, <1>7

\* After n rounds n different lcores have been given away.
LcoresApart(s, n) == /\ s \in Seq(WorkerLcores) /\ Len(s) = n
                     /\ \A a, b \in 1 .. n : s[a] = s[b] => a = b

\* So it is after every round.
LEMMA LoopApart ==
  ASSUME WorkerLcores \subseteq Nat, IsFiniteSet(WorkerLcores),
         NEW N \in Nat, N <= Cardinality(WorkerLcores), Cardinality(WorkerLcores) \in Nat,
         NEW g, IsLoop(g, N)
  PROVE  LcoresApart(g[N], N)
<1> DEFINE S == {m \in 0 .. N : ~LcoresApart(g[m], m)}
<1>0. \A i \in 0 .. N : g[i] = IF i = 0 THEN <<>> ELSE NextLcore(g[i - 1], i)
  BY DEF IsLoop
<1>1. ASSUME S # {} PROVE FALSE
  <2>1. PICK m \in S : \A y \in S : m <= y
    <3>1. S \subseteq Nat
      OBVIOUS
    <3>. HIDE DEF S
    <3>. QED
      BY <1>1, <3>1, LeastElement
  <2>2. m \in 0 .. N /\ ~LcoresApart(g[m], m)
    BY <2>1
  <2>3. m # 0
    <3>1. ASSUME m = 0 PROVE FALSE
      <4>1. g[m] = <<>>
        BY <1>0, <2>2, <3>1
      <4>2. LcoresApart(<<>>, 0)
        BY DEF LcoresApart
      <4>. QED
        BY <2>2, <3>1, <4>1, <4>2
    <3>. QED
      BY <3>1
  <2>4. PICK k \in Nat : m = k + 1
    <3>1. m - 1 \in Nat /\ m = (m - 1) + 1
      BY <2>2, <2>3
    <3>. QED
      BY <3>1
  <2>5. k \in 0 .. N /\ k + 1 - 1 = k /\ k < Cardinality(WorkerLcores)
    BY <2>2, <2>4
  <2>6. LcoresApart(g[k], k)
    <3>1. k \notin S
      BY <2>1, <2>4
    <3>. QED
      BY <2>5, <3>1
  <2>7. g[k + 1] = NextLcore(g[k], k + 1)
    BY <1>0, <2>2, <2>3, <2>4, <2>5
  <2>8. PICK s \in Seq(WorkerLcores) : s = g[k] /\ Len(s) = k
    BY <2>6 DEF LcoresApart
  <2>9. PICK l \in WorkerLcores : /\ g[k + 1] = Append(s, l)
                                  /\ \A a \in 1 .. k : s[a] # l
    BY <2>5, <2>7, <2>8, NextLcoreNew
  <2>10. /\ Append(s, l) \in Seq(WorkerLcores) /\ Len(Append(s, l)) = k + 1
         /\ Append(s, l)[k + 1] = l
         /\ \A a \in 1 .. k : Append(s, l)[a] = s[a]
    BY <2>8
  <2>11. \A a, b \in 1 .. k : s[a] = s[b] => a = b
    BY <2>6, <2>8 DEF LcoresApart
  <2>12. ASSUME NEW a \in 1 .. k + 1, NEW b \in 1 .. k + 1,
                Append(s, l)[a] = Append(s, l)[b]
         PROVE  a = b
    <3>1. (a \in 1 .. k \/ a = k + 1) /\ (b \in 1 .. k \/ b = k + 1)
      OBVIOUS
    <3>. QED
      BY <2>9, <2>10, <2>11, <2>12, <3>1
  <2>13. LcoresApart(Append(s, l), k + 1)
    BY <2>10, <2>12 DEF LcoresApart
  <2>. QED
    BY <2>2, <2>4, <2>9, <2>13
<1>2. N \in 0 .. N /\ N \notin S
  BY <1>1
<1>. QED
  BY <1>2

\* generate_lcore_params gives every queue a worker lcore of its own when there
\* are enough of them, whatever the sockets of CPUs and ports.
LEMMA LcoresDistinct ==
  ASSUME IsFiniteSet(host.allowed), Cardinality(WorkerLcores) >= 2 * QueuesPerPort
  PROVE  Distinct(AssignedLcores) /\ Range(AssignedLcores) \subseteq WorkerLcores
<1> DEFINE N == 2 * QueuesPerPort
<1>1. N \in Nat
  BY StartupAssumption
<1>2. PICK g : IsLoop(g, N) /\ AssignedLcores = g[N]
  BY AssignedByLoop
<1>3. /\ WorkerLcores \subseteq Nat /\ IsFiniteSet(WorkerLcores)
      /\ Cardinality(WorkerLcores) \in Nat /\ N <= Cardinality(WorkerLcores)
  BY <1>1, LcoresFinite
<1>. HIDE DEF N
<1>4. LcoresApart(AssignedLcores, N)
  BY <1>1, <1>2, <1>3, LoopApart
<1>5. PICK s \in Seq(WorkerLcores) : s = AssignedLcores /\ Len(s) = N
  BY <1>4 DEF LcoresApart
<1>6. Distinct(s)
  <2>1. IsFiniteSet(1 .. N)
    BY <1>1, FS_Interval
  <2>2. s = [i \in 1 .. N |-> s[i]]
    BY <1>5
  <2>3. \A a, b \in 1 .. N : s[a] = s[b] => a = b
    BY <1>4, <1>5 DEF LcoresApart
  <2>. QED
    BY <2>1, <2>2, <2>3, OneToOne
<1>7. Range(s) \subseteq WorkerLcores
  BY DEF Range
<1>. QED
  BY <1>5, <1>6, <1>7

(***************************************************************************)
(* The invariant behind NothingClashes: configuration and host are one of  *)
(* the cases, and main() and dpdk() go on only with an accepted one and    *)
(* enough lcores.                                                          *)
(***************************************************************************)
ChecksDone ==
  /\ Parsed(config) /\ IsFiniteSet(host.allowed)
  /\ phase \notin {"config", "exited"} => ConfigOK(config)
  /\ phase \in {"port0", "port1", "launch", "running"} =>
       Cardinality(WorkerLcores) >= 2 * QueuesPerPort

\* No step changes configuration or host, and none skips a check.
LEMMA ChecksStep == ChecksDone /\ [Next]_vars => ChecksDone'
<1> SUFFICES ASSUME ChecksDone, [Next]_vars PROVE ChecksDone'
  OBVIOUS
<1>1. config' = config /\ host' = host
  BY DEF Next, Main, LoadConfig, Allocate, StartWorkers, AllReady, InitEal, StartPort, AddRule,
     FinishPort, PortFails, Launch, Exit, WorkerStep, Announce, Construct, Packets, Arrive,
     Poll, vars, inputs
<1>2. Parsed(config)' /\ IsFiniteSet(host.allowed)' /\ ConfigOK(config)' = ConfigOK(config)
  BY <1>1 DEF ChecksDone
<1>3. WorkerLcores' = WorkerLcores
  BY <1>1 DEF WorkerLcores, Lcores
<1>4. \/ phase' = phase
      \/ phase' = "exited"
      \/ phase' \in {"init", "threads", "wait", "eal"}
         /\ (phase # "config" \/ ConfigOK(config)) /\ phase # "exited"
      \/ phase' = "port0" /\ phase = "eal" /\ Cardinality(WorkerLcores) >= 2 * QueuesPerPort
      \/ phase' \in {"port1", "launch", "running"} /\ phase \in {"port0", "port1", "launch"}
  BY DEF Next, Main, LoadConfig, Allocate, StartWorkers, AllReady, InitEal, StartPort, AddRule,
     FinishPort, PortFails, Launch, Exit, WorkerStep, Announce, Construct, Packets, Arrive,
     Poll, vars
<1>5. phase' \notin {"config", "exited"} => ConfigOK(config)
  BY <1>4 DEF ChecksDone
<1>6. phase' \in {"port0", "port1", "launch", "running"} =>
        Cardinality(WorkerLcores) >= 2 * QueuesPerPort
  BY <1>4 DEF ChecksDone
<1>. QED
  BY <1>2, <1>3, <1>5, <1>6 DEF ChecksDone

\* An accepted configuration gives every batch storage of its own, every window
\* a place inside of the FFT and a name of its own, every recorder a file of its
\* own; and every receive queue gets an lcore of its own.
THEOREM NoClashes == Spec => []NothingClashes
<1>1. Init => ChecksDone
  BY StartupAssumption DEF Init, ChecksDone
<1>2. ChecksDone => NothingClashes
  <2> SUFFICES ASSUME ChecksDone PROVE NothingClashes
    OBVIOUS
  <2> DEFINE used == {s \in Streams : Enabled(config, s)}
             batches == used \X (0 .. PoolCapacity(config) - 1)
             storage == UNION {Storage(config, x[1], x[2]) : x \in batches}
             windows == UNION {{i} \X DOMAIN Subband(config, i).windows :
                                 i \in EnabledSubbands}
             Part ==
               /\ BatchSize(config) >= 1 /\ PoolCapacity(config) - 2 >= 1
               /\ storage \subseteq 0 .. TotalPackets(config) - 1
               /\ Cardinality(storage) = Cardinality(batches) * BatchSize(config)
               /\ config.mode # BASEBAND => \A x \in windows :
                    LET first == StartIdx(config, Subband(config, x[1]),
                                          Subband(config, x[1]).windows[x[2]])
                    IN first >= 0 /\ first + config.win_channels <= TotalNfft(config)
               /\ Distinct([x \in windows |-> WindowName(config, x[1], x[2])])
               /\ config.mode = BASEBAND =>
                    Distinct([s \in used |-> BasebandName(config, s)])
  <2>1. ASSUME phase \notin {"config", "exited"} PROVE Part
    <3>1. Parsed(config) /\ ConfigOK(config)
      BY <2>1 DEF ChecksDone
    <3>2. BatchSize(config) >= 1 /\ PoolCapacity(config) - 2 >= 1
      <4>1. /\ BatchSize(config) \in Nat \ {0}
            /\ PoolCapacity(config) \in Nat /\ PoolCapacity(config) >= 3
        BY <3>1, SizesPositive
      <4>. QED
        BY <4>1
    <3>3. /\ storage \subseteq 0 .. TotalPackets(config) - 1
          /\ Cardinality(storage) = Cardinality(batches) * BatchSize(config)
      BY <3>1, StorageApart
    <3>4. ASSUME config.mode # BASEBAND, NEW x \in windows
          PROVE  LET first == StartIdx(config, Subband(config, x[1]),
                                       Subband(config, x[1]).windows[x[2]])
                 IN first >= 0 /\ first + config.win_channels <= TotalNfft(config)
      <4>1. PICK i \in EnabledSubbands : x \in {i} \X DOMAIN Subband(config, i).windows
        OBVIOUS
      <4>2. x[1] \in Subbands /\ Subband(config, x[1]).enable
            /\ x[2] \in DOMAIN Subband(config, x[1]).windows
        BY <4>1 DEF EnabledSubbands
      <4>. QED
        BY <3>1, <3>4, <4>2, WindowsInside
    <3>5. Distinct([x \in windows |-> WindowName(config, x[1], x[2])])
      BY <3>1, WindowNames DEF EnabledSubbands
    <3>6. Distinct([s \in used |-> BasebandName(config, s)])
      BY <3>1, RecorderNames
    <3>. QED
      BY <3>2, <3>3, <3>4, <3>5, <3>6
  <2>2. ASSUME phase \in {"port0", "port1", "launch", "running"}
        PROVE  Distinct(AssignedLcores) /\ Range(AssignedLcores) \subseteq WorkerLcores
    BY <2>2, LcoresDistinct DEF ChecksDone
  <2>. QED
    BY <2>1, <2>2 DEF NothingClashes
<1>. QED
  BY <1>1, <1>2, ChecksStep, PTL DEF Spec

=============================================================================
