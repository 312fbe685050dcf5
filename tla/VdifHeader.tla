----------------------------- MODULE VdifHeader -----------------------------
(***************************************************************************)
(* The 32-byte VDIF frame header (class VDIF in src/include/vdif.hpp):     *)
(* eight little-endian words of 32 bits, and the fields packed into them   *)
(* that this program reads or sets in a recorded frame.                    *)
(* A word is the set of its bits that are one.                             *)
(***************************************************************************)
EXTENDS Integers

CONSTANTS HeaderSize,       \* HEADER_SIZE, bytes
          LengthUnit,       \* the frame length is counted in units of 8 bytes
          FramesPerSecond   \* FRAMES_PER_SECOND

ASSUME HeaderAssumption ==
  /\ HeaderSize \in Nat \ {0} /\ LengthUnit \in Nat \ {0}
  /\ FramesPerSecond \in Nat \ {0}

Word == SUBSET (0 .. 31)
Header == [0 .. 7 -> Word]

\* A field: the word it is in, its lowest bit and its width.
Field(word, low, width) == [word |-> word, low |-> low, width |-> width]

SecondsFromEpoch == Field(0, 0, 30)
Invalid          == Field(0, 30, 1)
FrameNumber      == Field(1, 0, 24)
FrameLength      == Field(2, 0, 24)
Log2Channels     == Field(2, 24, 5)
VDIFVersion      == Field(2, 29, 3)
ThreadID         == Field(3, 16, 10)
BitsPerSample    == Field(3, 26, 5)    \* bits per sample, less one
Complex          == Field(3, 31, 1)
EDV              == Field(4, 24, 8)

BitsOf(v, width) == {i \in 0 .. width - 1 : (v \div 2^i) % 2 = 1}

\* What the bits from bit n on are worth, in units of 2^n.
BitsFrom(bits) ==
  LET from[n \in 0 .. 32] ==
        IF bits \subseteq 0 .. n - 1 THEN 0
        ELSE (IF n \in bits THEN 1 ELSE 0) + 2 * from[n + 1]
  IN from

ValueOf(bits) == BitsFrom(bits)[0]

Get(h, f) == ValueOf({i \in 0 .. f.width - 1 : f.low + i \in h[f.word]})

\* The new value is ORed into the old one.
Put_OrOnly(h, f, v) ==
  [h EXCEPT ![f.word] = @ \cup {f.low + i : i \in BitsOf(v, f.width)}]

\* A setter clears the field and ORs the new value in.
Put(h, f, v) ==
  [h EXCEPT ![f.word] = (@ \ (f.low .. f.low + f.width - 1))
                          \cup {f.low + i : i \in BitsOf(v, f.width)}]

\* setPacketId
SetPacketId(h, id) ==
  Put(Put(h, SecondsFromEpoch, id \div FramesPerSecond),
      FrameNumber, id % FramesPerSecond)

\* readMetadata and Metadata::packet_id
PacketId(h) == Get(h, SecondsFromEpoch) * FramesPerSecond + Get(h, FrameNumber)

\* The arguments configureBaseband does not throw on.
FormatOK(bits, payload) ==
  /\ bits \in 1 .. 32
  /\ (payload * bits) % 8 = 0
  /\ (HeaderSize + (payload * bits) \div 8) % LengthUnit = 0

\* configureBaseband
ConfigureBaseband(h, bits, thread, payload) ==
  LET length == HeaderSize + (payload * bits) \div 8
      a == Put(Put(h, EDV, 1), FrameLength, length \div LengthUnit)
      b == Put(Put(a, Complex, 1), BitsPerSample, bits - 1)
  IN Put(Put(Put(b, Log2Channels, 0), VDIFVersion, 1), ThreadID, thread)
=============================================================================
