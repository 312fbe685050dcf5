------------------------------ MODULE VdifTime ------------------------------
(***************************************************************************)
(* From the VDIF clock to the times in the results: vdif_to_timestamp_ns   *)
(* (src/include/vdif.hpp), pfb_group_delay_ns and compensate_delay_ns      *)
(* (src/include/timing.hpp).                                               *)
(*                                                                         *)
(* A VDIF time is a number of seconds since a reference epoch, leap        *)
(* seconds counted, and a frame in that second; a result carries POSIX     *)
(* time, which has no leap seconds.  The unit of POSIX time is the         *)
(* duration of a frame, FRAME_NS: a second has FramesPerSecond of them.    *)
(***************************************************************************)
EXTENDS Integers, Sequences, FiniteSets

CONSTANTS
  FramesPerSecond,
  EpochUnixSec,    \* vdif_epoch_unix_sec: POSIX second at which an epoch starts
  LeapEffective,   \* utc_positive_leap_effective_unix_sec, increasing
  NumTaps,         \* m_num_taps
  FftSize,         \* m_Nfft, samples
  SamplingRate     \* samples per second

Epochs == DOMAIN EpochUnixSec

ASSUME TimeAssumption ==
  /\ FramesPerSecond \in Nat \ {0}
  /\ NumTaps \in Nat \ {0} /\ FftSize \in Nat \ {0} /\ SamplingRate \in Nat \ {0}
  /\ \A e \in Epochs : EpochUnixSec[e] \in Nat
  /\ LeapEffective \in Seq(Nat)
  /\ \A i, j \in DOMAIN LeapEffective : i < j => LeapEffective[i] < LeapEffective[j]

\* The leap seconds after the start of an epoch, by their index in the table.
LeapsSince(epoch) == {i \in DOMAIN LeapEffective : LeapEffective[i] > EpochUnixSec[epoch]}

\* leap_second_vdif_value: the VDIF second that is leap second i; those of the
\* epoch before it are elapsed_leap_seconds.
LeapValue(epoch, i) == LeapEffective[i] - EpochUnixSec[epoch]
                         + Cardinality({j \in LeapsSince(epoch) : j < i})

\* The seconds are taken for POSIX seconds.
VdifToTimestamp_NoLeaps(epoch, seconds, frame) ==
  (EpochUnixSec[epoch] + seconds) * FramesPerSecond + frame

\* vdif_to_timestamp_ns: 23:59:60 is folded onto the second before it, and
\* the leap seconds that have passed are taken off.
VdifToTimestamp(epoch, seconds, frame) ==
  LET leaps == LeapsSince(epoch)
      passed == Cardinality({i \in leaps : LeapValue(epoch, i) < seconds})
      folded == IF \E i \in leaps : LeapValue(epoch, i) = seconds THEN 1 ELSE 0
  IN (EpochUnixSec[epoch] + seconds - passed - folded) * FramesPerSecond + frame

\* pfb_group_delay_ns: (NumTaps * FftSize - FftSize) / 2 samples, to the
\* nearest unit.
PfbGroupDelay ==
  LET units == (NumTaps - 1) * FftSize * FramesPerSecond
  IN (units + SamplingRate) \div (2 * SamplingRate)

\* The first epoch is decades after the origin of POSIX time, the delay some
\* milliseconds.
ASSUME DelayAssumption ==
  \A e \in Epochs : PfbGroupDelay <= EpochUnixSec[e] * FramesPerSecond

\* compensate_delay_ns
CompensateDelay(time, delay) == IF delay > time THEN 0 ELSE time - delay

(***************************************************************************)
(* Reference: count the seconds of UTC one by one.                         *)
(***************************************************************************)
\* Seconds of UTC from the POSIX origin to the start of POSIX second u.
UtcCount(u) == u + Cardinality({i \in DOMAIN LeapEffective : LeapEffective[i] <= u})

\* The last POSIX second that has started when n seconds of UTC are over.
PosixLabel(n) == CHOOSE u \in 0 .. n : UtcCount(u) <= n /\ n < UtcCount(u + 1)

\* The POSIX time of a VDIF time.
ReferenceTime(epoch, seconds, frame) ==
  PosixLabel(UtcCount(EpochUnixSec[epoch]) + seconds) * FramesPerSecond + frame
=============================================================================
