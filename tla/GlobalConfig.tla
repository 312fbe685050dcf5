---------------------------- MODULE GlobalConfig ----------------------------
(***************************************************************************)
(* The configuration (src/include/Globalcfg.hpp): which config.yaml are    *)
(* accepted by initFromYaml and checkConfig, and what init() and main()    *)
(* derive from an accepted one.  A configuration is a record of the values *)
(* of the file, with the defaults in place of keys that are not given.     *)
(*                                                                         *)
(* Frequencies are integers in the unit in which SamplingRate is given; a  *)
(* rounding (llround) is to the nearest integer, halves up.                *)
(***************************************************************************)
EXTENDS Integers, Sequences, FiniteSets

CONSTANTS
  Pairs,             \* physical subbands of a server: 4
  Servers,           \* number of servers: 8
  SamplingRate,      \* 256 MHz
  SamplesPerPacket,  \* 4096
  MinNfft, MaxNfft,  \* 65536, Max_nfft
  BasebandNfft,      \* FFT length that main() sets, for each value of Baseband_bits
  PacketBytes,       \* sizeof(Packet)
  MaxQueueMb         \* 16384

ASSUME ConfigAssumption ==
  /\ {Pairs, Servers, SamplingRate, SamplesPerPacket, MinNfft, MaxNfft,
      PacketBytes, MaxQueueMb} \subseteq Nat \ {0}
  /\ DOMAIN BasebandNfft = {8, 4, 2}
  /\ \A b \in DOMAIN BasebandNfft : /\ BasebandNfft[b] \in Nat \ {0}
                                    /\ BasebandNfft[b] % SamplesPerPacket = 0

BASEBAND == 0
SPECTRAL == 1
CONTINUUM == 2

\* What the numbers of the file are parsed as; those of a subband that is not
\* enabled are not read.
Parsed(c) ==
  /\ c.win_bw \in Int /\ c.win_channels \in Int /\ c.memory \in Nat
  /\ \A i \in 1 .. Len(c.subbands) :
       LET sb == c.subbands[i] IN
       sb.enable => /\ sb.start_freq \in Int /\ sb.end_freq \in Int
                    /\ sb.windows \in Seq(Int)

RoundDiv(a, b) == (2 * a + b) \div (2 * b)

(***************************************************************************)
(* initFromYaml.                                                           *)
(***************************************************************************)
\* The observation, its mode and its output folders.
ObservationOK(c) ==
  /\ c.server \in 0 .. Servers - 1
  /\ c.observation # "invalid"
  /\ c.mode \in {BASEBAND, SPECTRAL, CONTINUUM}
  /\ c.local => /\ c.mode = SPECTRAL
                /\ c.local_folder # ""
                /\ c.queue_mb \in 1 .. MaxQueueMb
  /\ c.mode = BASEBAND => "missing" \notin {c.folder0, c.folder1} /\ c.bits \in {8, 4, 2}

\* total_nfft, from the width of a window and its number of channels.
RequestedNfft(c) == RoundDiv(SamplingRate * c.win_channels, c.win_bw)

ResolutionOK(c) ==
  /\ c.win_bw > 0
  /\ c.win_channels > 0
  /\ SamplingRate * c.win_channels >= c.win_bw
  /\ SamplingRate * c.win_channels <= MaxNfft * c.win_bw

NoiseSourceOK(c) == c.period > 0 /\ c.duty > 0 /\ c.duty < 100 /\ c.blank >= 0

\* start_idx of a window: its first bin.  Twice the frequencies, so that the
\* half of win_bw is exact.
StartIdx(c, sb, centre) ==
  RoundDiv((2 * (centre - sb.start_freq) - c.win_bw) * RequestedNfft(c),
           2 * SamplingRate)

WindowOK(c, sb, centre) ==
  /\ 2 * centre - c.win_bw >= 2 * sb.start_freq
  /\ 2 * centre + c.win_bw <= 2 * sb.end_freq
  /\ StartIdx(c, sb, centre) + c.win_channels <= RequestedNfft(c)

MaxUdpPort == 65535

\* One entry of subbands; one that is disabled needs no more than its beam.
SubbandOK(c, sb) ==
  /\ sb.beam \in {"A", "B"}
  /\ sb.enable =>
       /\ sb.port \in 1 .. MaxUdpPort
       /\ sb.end_freq - sb.start_freq = SamplingRate
       /\ Len(sb.windows) \in 1 .. 4
       /\ \A i \in DOMAIN sb.windows : WindowOK(c, sb, sb.windows[i])

\* The bins of the windows, which is what the two beams are compared by.
WindowBins(c, sb) == [i \in DOMAIN sb.windows |-> StartIdx(c, sb, sb.windows[i])]

\* The order of the beams is not looked at.
PairOK_AnyBeams(c, a, b) ==
  /\ a.enable = b.enable
  /\ a.enable => /\ a.start_freq = b.start_freq /\ a.end_freq = b.end_freq
                 /\ WindowBins(c, a) = WindowBins(c, b)

\* The two entries of a physical subband: beams A and B, alike.
PairOK(c, a, b) ==
  /\ a.beam = "A" /\ b.beam = "B"
  /\ a.enable = b.enable
  /\ a.enable => /\ a.start_freq = b.start_freq /\ a.end_freq = b.end_freq
                 /\ WindowBins(c, a) = WindowBins(c, b)

SubbandsOK(c) ==
  /\ Len(c.subbands) = 2 * Pairs
  /\ \A i \in 1 .. Len(c.subbands) : SubbandOK(c, c.subbands[i])
  /\ \A p \in 1 .. Pairs : PairOK(c, c.subbands[2 * p - 1], c.subbands[2 * p])

\* checkConfig
CheckConfig(c) == RequestedNfft(c) % SamplesPerPacket = 0 /\ RequestedNfft(c) >= MinNfft

ConfigOK(c) == /\ ObservationOK(c) /\ ResolutionOK(c) /\ NoiseSourceOK(c)
               /\ SubbandsOK(c) /\ CheckConfig(c)

(***************************************************************************)
(* What is derived from it.  Streams and subbands are numbered from 0.     *)
(***************************************************************************)
Subbands == 0 .. 2 * Pairs - 1
Streams == 0 .. 4 * Pairs - 1

Subband(c, i) == c.subbands[i + 1]
Enabled(c, s) == Subband(c, s \div 2).enable

\* total_nfft once main() has replaced it in baseband mode, and batchsize().
TotalNfft(c) == IF c.mode = BASEBAND THEN BasebandNfft[c.bits] ELSE RequestedNfft(c)
BatchSize(c) == TotalNfft(c) \div SamplesPerPacket

\* calc_pool_size
PoolCapacity(c) == LET n == c.memory \div (PacketBytes * BatchSize(c))
                   IN IF n < 3 THEN 3 ELSE n

\* pool_index: enabled streams are numbered in their order.
PoolIndex(c, s) == Cardinality({t \in Streams : t < s /\ Enabled(c, t)})

\* The packets allocated, and those that are the storage of a batch.
TotalPackets(c) ==
  Cardinality({s \in Streams : Enabled(c, s)}) * PoolCapacity(c) * BatchSize(c)

Storage(c, s, b) ==
  LET offset == (PoolIndex(c, s) * PoolCapacity(c) + b) * BatchSize(c)
  IN offset .. offset + BatchSize(c) - 1

\* The subband a result or a file is labelled with.
GlobalSubband(c, i) == c.server * 4 + (i \div 2)

\* What tells the outputs of a stream or a window apart: the path of the
\* first baseband part, or the key of a window in files and messages.
BasebandName(c, s) ==
  LET i == s \div 2 IN
  <<IF i < Pairs THEN c.folder0 ELSE c.folder1, GlobalSubband(c, i),
    Subband(c, i).beam, IF s % 2 = 0 THEN "X" ELSE "Y">>

WindowName(c, i, w) == <<GlobalSubband(c, i), w, Subband(c, i).beam>>
=============================================================================
