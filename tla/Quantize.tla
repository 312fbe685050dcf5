------------------------------ MODULE Quantize ------------------------------
(***************************************************************************)
(* The conversion of FPGA samples for baseband files                       *)
(* (src/include/baseband_quantize.hpp).  The FPGA sends offset-binary      *)
(* bytes, Q before I; a file has two's complement, I before Q, of 8, 4 or  *)
(* 2 bits, the first component in the low bits of a byte.  Buffers are     *)
(* sequences of bytes; the conversion is done in place, so that what is    *)
(* behind the bytes written keeps its old value.                           *)
(***************************************************************************)
EXTENDS Integers, Sequences, SequencesExt

CONSTANT VectorBytes   \* bytes in a vector register: 64

ASSUME VectorAssumption == VectorBytes \in Nat \ {0} /\ VectorBytes % 2 = 0

\* x ^ 0x80
FlipSign(x) == (x + 128) % 256

\* out over the start of buf
Overwrite(buf, out) == out \o SubSeq(buf, Len(out) + 1, Len(buf))

\* quantize8_scalar; the last byte of an odd buffer has no partner.
Quantize8Scalar(buf) ==
  [i \in 1 .. Len(buf) |->
     LET partner == IF i % 2 = 1 THEN i + 1 ELSE i - 1
     IN FlipSign(buf[IF partner <= Len(buf) THEN partner ELSE i])]

\* One byte of 4-bit output from a pair: I in the low half, Q in the high one.
Nibbles(q, i) == (FlipSign(i) \div 16) + 16 * (FlipSign(q) \div 16)

\* quantize4_scalar
Quantize4Scalar(buf) ==
  Overwrite(buf, [n \in 1 .. Len(buf) \div 2 |-> Nibbles(buf[2 * n - 1], buf[2 * n])])

\* quantize2
Quantize2(buf) ==
  LET field(x) == FlipSign(x) \div 64 IN
  Overwrite(buf, [n \in 1 .. Len(buf) \div 4 |->
     field(buf[4 * n - 2]) + 4 * field(buf[4 * n - 3])
       + 16 * field(buf[4 * n]) + 64 * field(buf[4 * n - 1])])

(***************************************************************************)
(* The AVX-512 versions: whole vectors of 16-bit lanes, then the tail.     *)
(***************************************************************************)
Lane(buf, n) == buf[2 * n - 1] + 256 * buf[2 * n]
Vectors(buf) == Len(buf) \div VectorBytes
VectorPart(buf) == SubSeq(buf, 1, Vectors(buf) * VectorBytes)
Rest(buf) == SubSeq(buf, Vectors(buf) * VectorBytes + 1, Len(buf))

\* quantize8_avx512: the lane shifted left by 8, ORed with it shifted right.
Quantize8Avx512(buf) ==
  LET v == VectorPart(buf)
      swapped(n) == ((Lane(v, n) * 256) % 65536) + (Lane(v, n) \div 256)
  IN [i \in 1 .. Len(v) |->
        LET lane == swapped((i + 1) \div 2)
        IN FlipSign(IF i % 2 = 1 THEN lane % 256 ELSE lane \div 256)]
     \o Quantize8Scalar(Rest(buf))

\* The nibbles of a pair are packed Q first.
Quantize4Avx512_QFirst(buf) ==
  LET v == VectorPart(buf)
      t == Rest(buf)
      shifted(n) == (FlipSign(v[2 * n - 1]) + 256 * FlipSign(v[2 * n])) \div 16
      packed(n) == 16 * ((shifted(n) \div 256) % 16) + (shifted(n) % 16)
  IN Overwrite(buf, [n \in 1 .. Len(v) \div 2 |-> packed(n)]
                      \o SubSeq(Quantize4Scalar(t), 1, Len(t) \div 2))

\* quantize4_avx512: lanes shifted right by 4, then masked by 0x0f.  The
\* copies of the sign that srai_epi16 shifts in are masked away.
Quantize4Avx512(buf) ==
  LET v == VectorPart(buf)
      t == Rest(buf)
      shifted(n) == (FlipSign(v[2 * n - 1]) + 256 * FlipSign(v[2 * n])) \div 16
      packed(n) == ((shifted(n) \div 256) % 16) + 16 * (shifted(n) % 16)
  IN Overwrite(buf, [n \in 1 .. Len(v) \div 2 |-> packed(n)]
                      \o SubSeq(Quantize4Scalar(t), 1, Len(t) \div 2))

\* quantize8, quantize4 and quantize2, on a processor with AVX-512 or without.
Quantized(buf, bits, avx) ==
  CASE bits = 8 -> IF avx THEN Quantize8Avx512(buf) ELSE Quantize8Scalar(buf)
    [] bits = 4 -> IF avx THEN Quantize4Avx512(buf) ELSE Quantize4Scalar(buf)
    [] bits = 2 -> Quantize2(buf)

(***************************************************************************)
(* Reference: the voltages a reader must find.                             *)
(***************************************************************************)
\* Most significant bits of the voltages of a payload of the FPGA, I first.
Voltages(buf, bits) ==
  [i \in 1 .. Len(buf) |->
     (buf[IF i % 2 = 1 THEN i + 1 ELSE i - 1] - 128) \div 2^(8 - bits)]

\* The components a reader of the file takes from its bytes.
Decoded(bytes, bits) ==
  LET perByte == 8 \div bits
      field(i) == (bytes[(i - 1) \div perByte + 1]
                     \div 2^(bits * ((i - 1) % perByte))) % 2^bits
  IN [i \in 1 .. Len(bytes) * perByte |->
        IF field(i) >= 2^(bits - 1) THEN field(i) - 2^bits ELSE field(i)]
=============================================================================
