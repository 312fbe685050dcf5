----------------------- MODULE BasebandRecorderProofs -----------------------
(***************************************************************************)
(* Proofs about the buffer between recv2mem and the recorder               *)
(* (CircularBuffer), the batches that go through it and the files          *)
(* (BasebandRecorder).                                                     *)
(***************************************************************************)
EXTENDS BasebandRecorder, SequenceTheorems, FunctionTheorems, FiniteSetTheorems, TLAPS

(***************************************************************************)
(* The size of the ring.  The provers know nothing about powers but that   *)
(* 2^k is the number of subsets of a set of k elements.                    *)
(***************************************************************************)
\* A set of natural numbers that is not empty has a least element.
LEMMA LeastElement ==
  ASSUME NEW S, S \subseteq Nat, S # {}
  PROVE  \E x \in S : \A y \in S : x <= y
<1> DEFINE less == {ss \in Nat \X Nat : ss[1] < ss[2]}
<1>1. IsWellFoundedOn(less, Nat)
  BY NatLessThanWellFounded DEF OpToRel
<1>2. PICK x \in S : \A y \in S : ~(<<y, x>> \in less)
  <2>. HIDE DEF less
  <2>. QED
    BY <1>1, WFMin
<1>3. \A y \in S : x <= y
  <2> TAKE y \in S
  <2>1. x \in Nat /\ y \in Nat /\ <<y, x>> \notin less
    BY <1>2
  <2>. QED
    BY <2>1
<1>. QED
  BY <1>2, <1>3

\* Subsets of 1 .. k + 1 either contain k + 1 or not.
LEMMA PowerStep ==
  ASSUME NEW k \in Nat
  PROVE  2^k \in Nat /\ 2^(k + 1) = 2 * 2^k /\ 2^0 = 1
<1> DEFINE N(n) == SUBSET (1 .. n)
           P == N(k) \X {0, 1}
           f == [x \in P |-> IF x[2] = 0 THEN x[1] ELSE x[1] \cup {k + 1}]
<1>1. ASSUME NEW n \in Nat
      PROVE  IsFiniteSet(N(n)) /\ Cardinality(N(n)) = 2^n /\ 2^n \in Nat
  <2>1. IsFiniteSet(1 .. n) /\ Cardinality(1 .. n) = n
    BY FS_Interval
  <2>2. IsFiniteSet(N(n)) /\ Cardinality(N(n)) = 2^n
    BY <2>1, FS_SUBSET
  <2>. QED
    BY <2>2, FS_CardinalityType
<1>2. 2^0 = 1
  <2>1. N(0) = {{}}
    OBVIOUS
  <2>2. Cardinality({{}}) = 1
    BY FS_Singleton
  <2>. QED
    BY <1>1, <2>1, <2>2
<1>3. IsFiniteSet(P) /\ Cardinality(P) = 2^k * 2
  <2>1. IsFiniteSet({0, 1}) /\ Cardinality({0, 1}) = 2
    <3>1. {0, 1} = 0 .. 1
      OBVIOUS
    <3>. QED
      BY ONLY <3>1, FS_Interval, 0 \in Int, 1 \in Int, ~(0 > 1), 1 - 0 + 1 = 2
  <2>2. IsFiniteSet(N(k)) /\ Cardinality(N(k)) = 2^k
    BY <1>1
  <2>. HIDE DEF N
  <2>. QED
    BY <2>1, <2>2, FS_Product, ZenonT(30)
<1>4. f \in [P -> N(k + 1)]
  OBVIOUS
<1>5. \A a, b \in P : f[a] = f[b] => a = b
  <2> TAKE a, b \in P
  <2> HAVE f[a] = f[b]
  <2>1. /\ a = <<a[1], a[2]>> /\ b = <<b[1], b[2]>>
        /\ a[2] \in {0, 1} /\ b[2] \in {0, 1}
        /\ k + 1 \notin a[1] /\ k + 1 \notin b[1]
    OBVIOUS
  <2>2. f[a] = (IF a[2] = 0 THEN a[1] ELSE a[1] \cup {k + 1})
        /\ f[b] = (IF b[2] = 0 THEN b[1] ELSE b[1] \cup {k + 1})
    OBVIOUS
  <2>3. a[2] = b[2]
    BY <2>1, <2>2
  <2>4. a[1] = b[1]
    BY <2>1, <2>2, <2>3
  <2>. QED
    BY <2>1, <2>3, <2>4
<1>6. \A t \in N(k + 1) : \E a \in P : f[a] = t
  <2> TAKE t \in N(k + 1)
  <2>1. CASE k + 1 \in t
    <3>1. t \ {k + 1} \subseteq 1 .. k
      <4>1. \A j \in 1 .. k + 1 : j # k + 1 => j \in 1 .. k
        OBVIOUS
      <4>. QED
        BY <4>1
    <3>2. <<t \ {k + 1}, 1>> \in P
      BY <3>1
    <3>3. f[<<t \ {k + 1}, 1>>] = (t \ {k + 1}) \cup {k + 1}
      BY <3>2
    <3>4. (t \ {k + 1}) \cup {k + 1} = t
      BY <2>1
    <3>. QED
      BY <3>2, <3>3, <3>4
  <2>2. CASE k + 1 \notin t
    <3>1. t \subseteq 1 .. k
      <4>1. \A j \in 1 .. k + 1 : j # k + 1 => j \in 1 .. k
        OBVIOUS
      <4>. QED
        BY <2>2, <4>1
    <3>2. <<t, 0>> \in P
      BY <3>1
    <3>3. f[<<t, 0>>] = t
      BY <3>2
    <3>. QED
      BY <3>2, <3>3
  <2>. QED
    BY <2>1, <2>2
<1>7. Cardinality(N(k + 1)) = Cardinality(P)
  <2>. HIDE DEF f
  <2>1. f \in Bijection(P, N(k + 1))
    BY <1>4, <1>5, <1>6, Fun_IsBij, ZenonT(30)
  <2>2. ExistsBijection(P, N(k + 1))
    BY <2>1 DEF ExistsBijection
  <2>. HIDE DEF P, N
  <2>. QED
    BY <1>3, <2>2, FS_Bijection
<1>8. 2^(k + 1) = 2^k * 2 /\ 2^k \in Nat
  <2>1. k + 1 \in Nat
    OBVIOUS
  <2>. QED
    BY <1>1, <1>3, <1>7, <2>1
<1>. QED
  BY <1>2, <1>8

\* 2^k grows faster than k.
LEMMA PowerGrows ==
  ASSUME NEW n \in Nat
  PROVE  2^n > n
<1> DEFINE S == {k \in Nat : ~(2^k > k)}
<1>1. ASSUME S # {} PROVE FALSE
  <2>1. PICK x \in S : \A y \in S : x <= y
    <3>1. S \subseteq Nat
      OBVIOUS
    <3>. HIDE DEF S
    <3>. QED
      BY <1>1, <3>1, LeastElement
  <2>2. x \in Nat /\ ~(2^x > x)
    BY <2>1
  <2>3. 2^x \in Nat /\ 2^0 = 1
    BY <2>2, PowerStep
  <2>4. x # 0
    <3>1. x = 0 => 2^x = 1
      BY <2>3
    <3>. QED
      BY <2>2, <3>1
  <2>5. PICK y \in Nat : x = y + 1
    <3>1. x - 1 \in Nat /\ x = (x - 1) + 1
      BY <2>2, <2>4
    <3>. QED
      BY <3>1
  <2>6. 2^y > y
    <3>1. y \notin S
      BY <2>1, <2>5
    <3>. QED
      BY <3>1
  <2>7. 2^x = 2 * 2^y /\ 2^y \in Nat
    BY <2>5, PowerStep
  <2>8. ASSUME NEW p \in Nat, p > y PROVE 2 * p > y + 1
    BY <2>8
  <2>. QED
    BY <2>2, <2>5, <2>6, <2>7, <2>8
<1>. QED
  BY <1>1

\* ceilToPow2: the ring has a slot for each item the buffer may hold.
LEMMA SizeFits == Size \in Nat \ {0} /\ Size >= Capacity
<1> DEFINE S == {k \in Nat : 2^k >= Capacity}
<1>1. Capacity \in S
  <2>1. 2^Capacity \in Nat /\ 2^Capacity > Capacity
    BY CapacityAssumption, PowerStep, PowerGrows
  <2>. QED
    BY <2>1, CapacityAssumption
<1>2. PICK x \in S : \A y \in S : x <= y
  <2>1. S \subseteq Nat
    OBVIOUS
  <2>. HIDE DEF S
  <2>. QED
    BY <1>1, <2>1, LeastElement
<1>3. x \in 0 .. Capacity /\ 2^x >= Capacity /\ 2^x \in Nat
  BY <1>1, <1>2, PowerStep, CapacityAssumption
<1>4. 2^x < 2 * Capacity
  <2>1. CASE x = 0
    BY <2>1, <1>3, CapacityAssumption, PowerStep
  <2>2. CASE x # 0
    <3>1. PICK y \in Nat : x = y + 1
      <4>1. x - 1 \in Nat /\ x = (x - 1) + 1
        BY <1>3, <2>2
      <4>. QED
        BY <4>1
    <3>2. y \notin S
      BY <1>2, <3>1
    <3>3. 2^y \in Nat /\ 2^x = 2 * 2^y
      BY <3>1, PowerStep
    <3>4. 2^y < Capacity
      BY <3>2, <3>3, CapacityAssumption
    <3>. QED
      BY <3>3, <3>4, CapacityAssumption
  <2>. QED
    BY <2>1, <2>2
<1>5. 2^x \in PowersOfTwo
  BY <1>3 DEF PowersOfTwo
<1>6. Size \in PowersOfTwo /\ Size >= Capacity
  BY <1>3, <1>4, <1>5 DEF Size
<1>7. Size \in Nat
  BY <1>6, PowerStep DEF PowersOfTwo
<1>. QED
  BY <1>6, <1>7, CapacityAssumption

\* Division with remainder.
LEMMA DivMod ==
  ASSUME NEW x \in Int, NEW d \in Int, d > 0
  PROVE  /\ x \div d \in Int /\ x % d \in 0 .. d - 1
         /\ x = (x \div d) * d + (x % d)
  OBVIOUS

\* The remainder is unique.
LEMMA ModUnique ==
  ASSUME NEW x \in Int, NEW d \in Int, d > 0, NEW q \in Int, NEW r \in 0 .. d - 1,
         x = d * q + r
  PROVE  x % d = r
  OBVIOUS

(***************************************************************************)
(* The fields of a header: what is put into a field is read from it, and   *)
(* the other fields keep their values.                                     *)
(***************************************************************************)
\* A field lies inside of a word.
IsField(f) == /\ f.word \in 0 .. 7 /\ f.low \in Nat /\ f.width \in Nat
              /\ f.low + f.width <= 32

\* The setters of a header.
LEMMA PutTyped ==
  ASSUME NEW h \in Header, NEW f, IsField(f), NEW v
  PROVE  Put(h, f, v) \in Header
<1> DEFINE old == h[f.word] \ (f.low .. f.low + f.width - 1)
           new == {f.low + i : i \in BitsOf(v, f.width)}
<1>1. BitsOf(v, f.width) \subseteq 0 .. f.width - 1
  BY DEF BitsOf
<1>2. new \subseteq 0 .. 31
  BY <1>1 DEF IsField
<1>3. old \subseteq 0 .. 31
  BY DEF IsField, Header, Word
<1> HIDE DEF old, new
<1>4. old \cup new \in Word
  BY <1>2, <1>3 DEF Word
<1>5. Put(h, f, v) = [h EXCEPT ![f.word] = old \cup new]
  BY DEF Put, old, new
<1> QED
  BY <1>4, <1>5 DEF Header, IsField

\* The bit fields of vdif.hpp lie inside of their words.
LEMMA FieldsInside ==
  /\ IsField(SecondsFromEpoch) /\ IsField(Invalid) /\ IsField(FrameNumber)
  /\ IsField(FrameLength) /\ IsField(Log2Channels) /\ IsField(VDIFVersion)
  /\ IsField(ThreadID) /\ IsField(BitsPerSample) /\ IsField(Complex) /\ IsField(EDV)
  BY DEF IsField, Field, SecondsFromEpoch, Invalid, FrameNumber, FrameLength, Log2Channels,
     VDIFVersion, ThreadID, BitsPerSample, Complex, EDV

\* setPacketId and configureBaseband
LEMMA HeadersTyped ==
  ASSUME NEW h \in Header
  PROVE  /\ \A id : SetPacketId(h, id) \in Header
         /\ \A depth, thread, payload : ConfigureBaseband(h, depth, thread, payload) \in Header
<1>1. ASSUME NEW id PROVE SetPacketId(h, id) \in Header
  BY PutTyped, FieldsInside DEF SetPacketId
<1>2. ASSUME NEW depth, NEW thread, NEW payload
      PROVE  ConfigureBaseband(h, depth, thread, payload) \in Header
  <2> DEFINE length == HeaderSize + (payload * depth) \div 8
             a == Put(Put(h, EDV, 1), FrameLength, length \div LengthUnit)
             b == Put(Put(a, Complex, 1), BitsPerSample, depth - 1)
  <2>1. a \in Header
    BY PutTyped, FieldsInside
  <2>2. ConfigureBaseband(h, depth, thread, payload)
          = Put(Put(Put(b, Log2Channels, 0), VDIFVersion, 1), ThreadID, thread)
    BY DEF ConfigureBaseband
  <2> HIDE DEF a
  <2>3. b \in Header
    BY <2>1, PutTyped, FieldsInside
  <2> HIDE DEF b
  <2> QED
    BY <2>2, <2>3, PutTyped, FieldsInside
<1> QED
  BY <1>1, <1>2

\* Quotients are unique, too.
LEMMA DivUnique ==
  ASSUME NEW x \in Int, NEW d \in Int, d > 0, NEW q \in Int, NEW r \in 0 .. d - 1,
         x = d * q + r
  PROVE  x \div d = q
  OBVIOUS

\* Powers of two are positive.
LEMMA PowerPositive ==
  ASSUME NEW n \in Nat
  PROVE  2^n \in Nat /\ 2^n > 0 /\ 2^n \in Int
<1>1. 2^n \in Nat /\ 2^n > n
  BY PowerStep, PowerGrows
<1> QED
  BY <1>1

\* Dividing by a power of two, bit by bit.
LEMMA HalfStep ==
  ASSUME NEW v \in Nat, NEW p \in Nat, p > 0
  PROVE  /\ v \div p \in Nat
         /\ v \div p = ((v \div p) % 2) + 2 * (v \div (2 * p))
         /\ (v \div p) % 2 \in {0, 1}
<1> DEFINE q == v \div p
           r == v % p
           a == q \div 2
           b == q % 2
<1>1. q \in Int /\ r \in 0 .. p - 1 /\ v = q * p + r
  BY DivMod
<1>2. q \in Nat
  OBVIOUS
<1> HIDE DEF q, r
<1>3. a \in Nat /\ b \in {0, 1} /\ q = 2 * a + b
  BY <1>2
<1> HIDE DEF a, b
<1>4. v = (2 * p) * a + (b * p + r)
  <2>1. q * p = (2 * p) * a + b * p
    BY <1>2, <1>3
  <2>2. (2 * p) * a \in Int /\ b * p \in Int
    BY <1>3
  <2> QED
    BY <1>1, <2>1, <2>2
<1>5. b * p + r \in 0 .. (2 * p) - 1
  <2>1. b * p = 0 \/ b * p = p
    BY <1>3
  <2> QED
    BY <1>1, <2>1
<1>6. v \div (2 * p) = a
  <2> DEFINE d == 2 * p
             s == b * p + r
  <2>1. d \in Int /\ d > 0 /\ s \in 0 .. d - 1 /\ v = d * a + s
    BY <1>4, <1>5
  <2> HIDE DEF d, s
  <2>2. v \div d = a
    BY <1>3, <2>1, DivUnique
  <2> QED
    BY <2>2 DEF d
<1>7. q = b + 2 * a
  BY <1>3
<1> QED
  BY <1>2, <1>3, <1>6, <1>7 DEF q, b

\* The same for the bits of a number: bit k, and what is above it.
LEMMA BitStep ==
  ASSUME NEW v \in Nat, NEW k \in Nat
  PROVE  /\ v \div 2^k \in Nat
         /\ v \div 2^k = ((v \div 2^k) % 2) + 2 * (v \div 2^(k + 1))
         /\ (v \div 2^k) % 2 \in {0, 1}
         /\ v \div 2^0 = v
<1> DEFINE p == 2^k
<1>1. p \in Nat /\ p > 0 /\ 2^(k + 1) = 2 * p /\ 2^0 = 1
  BY PowerStep, PowerPositive
<1>2. v \div 1 = v
  OBVIOUS
<1> HIDE DEF p
<1>3. /\ v \div p \in Nat /\ v \div p = ((v \div p) % 2) + 2 * (v \div (2 * p))
      /\ (v \div p) % 2 \in {0, 1}
  BY <1>1, HalfStep
<1> QED
  BY <1>1, <1>2, <1>3 DEF p

\* Nothing is left above the width of a number.
LEMMA NothingAbove ==
  ASSUME NEW w \in Nat, NEW v \in Nat, v < 2^w, NEW n \in Nat, n >= w
  PROVE  v \div 2^n = 0
<1> DEFINE S == {k \in Nat : k >= w /\ ~(v < 2^k)}
<1>1. ASSUME S # {} PROVE FALSE
  <2>1. PICK x \in S : \A y \in S : x <= y
    <3>1. S \subseteq Nat
      OBVIOUS
    <3> HIDE DEF S
    <3> QED
      BY <1>1, <3>1, LeastElement
  <2>2. x \in Nat /\ x >= w /\ ~(v < 2^x) /\ x # w
    BY <2>1
  <2>3. PICK y \in Nat : x = y + 1 /\ y >= w
    <3>1. x - 1 \in Nat /\ x = (x - 1) + 1 /\ x - 1 >= w
      BY <2>2
    <3> QED
      BY <3>1
  <2>4. v < 2^y
    <3>1. y \notin S
      BY <2>1, <2>3
    <3> QED
      BY <2>3, <3>1
  <2>5. 2^x = 2 * 2^y /\ 2^y \in Nat
    BY <2>3, PowerStep
  <2>6. ASSUME NEW p \in Nat, v < p PROVE v < 2 * p
    BY <2>6
  <2> QED
    BY <2>2, <2>4, <2>5, <2>6
<1>2. v < 2^n
  BY <1>1
<1> DEFINE p == 2^n
<1>3. p \in Nat /\ p > 0 /\ v < p
  BY <1>2, PowerPositive
<1> HIDE DEF p
<1>4. p \in Int /\ v = p * 0 + v /\ v \in 0 .. p - 1 /\ 0 \in Int
  BY <1>3
<1>5. v \div p = 0
  BY <1>3, <1>4, DivUnique
<1> QED
  BY <1>5 DEF p

\* A number without a bit from bit n on is zero from there on.
LEMMA HighestBit ==
  ASSUME NEW w \in Nat, NEW v \in Nat, v < 2^w, NEW n \in Nat,
         BitsOf(v, w) \subseteq 0 .. n - 1
  PROVE  v \div 2^n = 0
<1> SUFFICES ASSUME v \div 2^n # 0 PROVE FALSE
  OBVIOUS
<1> DEFINE S == {k \in Nat : k >= n /\ v \div 2^k = 0}
<1>1. n < w
  BY NothingAbove
<1>2. w \in S
  BY <1>1, NothingAbove
<1>3. PICK x \in S : \A y \in S : x <= y
  <2>1. S \subseteq Nat
    OBVIOUS
  <2> HIDE DEF S
  <2> QED
    BY <1>2, <2>1, LeastElement
<1>4. x \in Nat /\ x >= n /\ v \div 2^x = 0 /\ x # n /\ x <= w
  BY <1>2, <1>3
<1>5. PICK y \in Nat : x = y + 1 /\ y >= n /\ y \in 0 .. w - 1
  <2>1. x - 1 \in Nat /\ x = (x - 1) + 1 /\ x - 1 >= n /\ x - 1 \in 0 .. w - 1
    BY <1>4
  <2> QED
    BY <2>1
<1>6. v \div 2^y # 0
  <2>1. y \notin S
    BY <1>3, <1>5
  <2> QED
    BY <1>5, <2>1
<1>7. v \div 2^y = ((v \div 2^y) % 2) + 2 * (v \div 2^(y + 1)) /\ (v \div 2^y) % 2 \in {0, 1}
  BY <1>5, BitStep
<1>8. (v \div 2^y) % 2 = 1
  <2> DEFINE a == v \div 2^y
             b == v \div 2^(y + 1)
  <2>1. b = 0 /\ a # 0 /\ a = (a % 2) + 2 * b /\ a % 2 \in {0, 1}
    BY <1>4, <1>5, <1>6, <1>7
  <2> HIDE DEF a, b
  <2>2. a % 2 = 1
    BY <2>1
  <2> QED
    BY <2>2 DEF a
<1>9. y \in BitsOf(v, w)
  BY <1>5, <1>8 DEF BitsOf
<1> QED
  BY <1>5, <1>9

\* What the recursive definition of BitsFrom says.
IsFrom(bs, f) == f = [n \in 0 .. 32 |-> IF bs \subseteq 0 .. n - 1 THEN 0
                                        ELSE (IF n \in bs THEN 1 ELSE 0) + 2 * f[n + 1]]

\* BitsFrom satisfies its recursive definition when something does.
LEMMA BitsFromIs ==
  ASSUME NEW bs, NEW f, IsFrom(bs, f)
  PROVE  IsFrom(bs, BitsFrom(bs))
<1>1. BitsFrom(bs) = CHOOSE g : IsFrom(bs, g)
  BY DEF BitsFrom, IsFrom
<1> QED
  BY <1>1

\* A number is the value of its bits.
LEMMA ValueOfBits ==
  ASSUME NEW w \in 0 .. 32, NEW v \in Nat, v < 2^w
  PROVE  ValueOf(BitsOf(v, w)) = v
<1> DEFINE bs == BitsOf(v, w)
           f == [n \in 0 .. 32 |-> v \div 2^n]
<1>0. bs \subseteq 0 .. w - 1 /\ \A n \in 0 .. w - 1 : n \in bs <=> (v \div 2^n) % 2 = 1
  BY DEF BitsOf
<1>1. ASSUME NEW n \in 0 .. 32, ~(bs \subseteq 0 .. n - 1)
      PROVE  /\ n + 1 \in 0 .. 32
             /\ v \div 2^n = (IF n \in bs THEN 1 ELSE 0) + 2 * (v \div 2^(n + 1))
  <2>1. n < w
    BY <1>0, <1>1
  <2> DEFINE a == v \div 2^n
             b == v \div 2^(n + 1)
  <2>2. n \in Nat
    OBVIOUS
  <2>3. a = (a % 2) + 2 * b /\ a % 2 \in {0, 1}
    BY <2>2, BitStep
  <2> HIDE DEF bs
  <2>4. n \in bs <=> a % 2 = 1
    BY <1>0, <2>1
  <2> HIDE DEF a, b
  <2>5. a = (IF n \in bs THEN 1 ELSE 0) + 2 * b
    BY <2>3, <2>4
  <2>6. n + 1 \in 0 .. 32
    BY <2>1
  <2> QED
    BY <2>5, <2>6 DEF a, b
<1>2. ASSUME NEW n \in 0 .. 32, bs \subseteq 0 .. n - 1
      PROVE  v \div 2^n = 0
  BY <1>2, HighestBit
<1> HIDE DEF bs
<1>3. ASSUME NEW n \in 0 .. 32
      PROVE  f[n] = IF bs \subseteq 0 .. n - 1 THEN 0
                    ELSE (IF n \in bs THEN 1 ELSE 0) + 2 * f[n + 1]
  BY <1>1, <1>2
<1>4. IsFrom(bs, f)
  BY <1>3 DEF IsFrom
<1> DEFINE g == BitsFrom(bs)
<1>5. \A n \in 0 .. 32 : g[n] = IF bs \subseteq 0 .. n - 1 THEN 0
                                ELSE (IF n \in bs THEN 1 ELSE 0) + 2 * g[n + 1]
  <2> HIDE DEF f, g
  <2>1. IsFrom(bs, g)
    BY <1>4, BitsFromIs DEF g
  <2> QED
    BY <2>1 DEF IsFrom
<1> HIDE DEF g
<1> DEFINE S == {k \in Nat : k <= 32 /\ g[32 - k] # v \div 2^(32 - k)}
<1>6. ASSUME S # {} PROVE FALSE
  <2>1. PICK x \in S : \A y \in S : x <= y
    <3>1. S \subseteq Nat
      OBVIOUS
    <3> HIDE DEF S
    <3> QED
      BY <1>6, <3>1, LeastElement
  <2> DEFINE n == 32 - x
  <2>2. n \in 0 .. 32 /\ g[n] # v \div 2^n /\ x \in Nat /\ x = 32 - n
    BY <2>1
  <2> HIDE DEF n
  <2>3. ~(bs \subseteq 0 .. n - 1)
    BY <1>2, <1>5, <2>2
  <2>4. n + 1 \in 0 .. 32 /\ v \div 2^n = (IF n \in bs THEN 1 ELSE 0) + 2 * (v \div 2^(n + 1))
    BY <1>1, <2>2, <2>3
  <2>5. g[n + 1] = v \div 2^(n + 1)
    <3>1. x - 1 \in Nat /\ x - 1 <= 32 /\ 32 - (x - 1) = n + 1 /\ ~(x <= x - 1)
      BY <2>2, <2>4
    <3>2. x - 1 \notin S
      BY <2>1, <3>1
    <3> QED
      BY <3>1, <3>2
  <2> DEFINE a == v \div 2^n
             b == v \div 2^(n + 1)
  <2>6. /\ a = (IF n \in bs THEN 1 ELSE 0) + 2 * b /\ g[n + 1] = b /\ g[n] # a
        /\ g[n] = (IF n \in bs THEN 1 ELSE 0) + 2 * g[n + 1]
    BY <1>5, <2>2, <2>3, <2>4, <2>5
  <2> HIDE DEF a, b
  <2> QED
    BY <2>6
<1>7. g[0] = v \div 2^0
  <2>1. 32 \notin S
    <3> HIDE DEF S
    <3> QED
      BY <1>6
  <2>2. g[32 - 32] = v \div 2^(32 - 32)
    BY <2>1
  <2> QED
    BY <2>2
<1> QED
  BY <1>7, BitStep DEF ValueOf, g, bs

\* A field that was set is read back.
LEMMA GetPut ==
  ASSUME NEW h \in Header, NEW f, IsField(f), NEW v \in Nat, v < 2^f.width
  PROVE  Get(Put(h, f, v), f) = v
<1> DEFINE w == f.width
           low == f.low
           bs == BitsOf(v, w)
           old == h[f.word] \ (low .. low + w - 1)
           new == {low + i : i \in bs}
<1>1. w \in 0 .. 32 /\ low \in Nat /\ f.word \in 0 .. 7
  BY DEF IsField
<1>2. bs \subseteq 0 .. w - 1
  BY DEF BitsOf
<1>3. ValueOf(bs) = v
  BY <1>1, ValueOfBits
<1>4. Put(h, f, v)[f.word] = old \cup new
  BY <1>1 DEF Put, Header
<1> HIDE DEF bs, w, low
<1>5. ASSUME NEW i \in 0 .. w - 1
      PROVE  low + i \in old \cup new <=> i \in bs
  <2>1. low + i \in low .. low + w - 1
    BY <1>1
  <2>2. low + i \notin old
    BY <2>1
  <2>3. \A j \in bs : low + i = low + j => i = j
    BY <1>1, <1>2
  <2> QED
    BY <2>2, <2>3
<1>6. {i \in 0 .. w - 1 : low + i \in old \cup new} = bs
  BY <1>2, <1>5
<1>7. Get(Put(h, f, v), f) = ValueOf({i \in 0 .. w - 1 : low + i \in old \cup new})
  BY <1>4 DEF Get, w, low
<1> QED
  BY <1>3, <1>6, <1>7

\* Two fields that share no bit.
Apart(f, g) == f.word # g.word \/ f.low + f.width <= g.low \/ g.low + g.width <= f.low

\* A setter leaves the other fields alone.
LEMMA GetOther ==
  ASSUME NEW h \in Header, NEW f, NEW g, IsField(f), IsField(g), Apart(f, g), NEW v
  PROVE  Get(Put(h, g, v), f) = Get(h, f)
<1> DEFINE old == h[g.word] \ (g.low .. g.low + g.width - 1)
           new == {g.low + i : i \in BitsOf(v, g.width)}
           p == Put(h, g, v)
<1>1. /\ f.word \in 0 .. 7 /\ f.low \in Nat /\ f.width \in Nat
      /\ g.word \in 0 .. 7 /\ g.low \in Nat /\ g.width \in Nat
  BY DEF IsField
<1>2. \A n \in 0 .. 7 : p[n] = IF n = g.word THEN old \cup new ELSE h[n]
  BY DEF Put, Header
<1>3. new \subseteq g.low .. g.low + g.width - 1
  BY <1>1 DEF BitsOf
<1>4. ASSUME NEW i \in 0 .. f.width - 1
      PROVE  f.low + i \in p[f.word] <=> f.low + i \in h[f.word]
  <2>1. CASE f.word # g.word
    BY <1>1, <1>2, <2>1
  <2>2. CASE f.word = g.word
    <3>1. f.low + i \notin g.low .. g.low + g.width - 1
      BY <1>1, <2>2 DEF Apart
    <3>2. p[f.word] = old \cup new
      BY <1>1, <1>2, <2>2
    <3> HIDE DEF new, p
    <3> QED
      BY <1>3, <2>2, <3>1, <3>2
  <2> QED
    BY <2>1, <2>2
<1>5. {i \in 0 .. f.width - 1 : f.low + i \in p[f.word]}
        = {i \in 0 .. f.width - 1 : f.low + i \in h[f.word]}
  BY <1>4
<1> QED
  BY <1>5 DEF Get

\* The fields of the time and of the length share no bit with the others.
LEMMA FieldsApart ==
  /\ Apart(SecondsFromEpoch, FrameNumber)
  /\ \A g \in {EDV, FrameLength, Complex, BitsPerSample, Log2Channels, VDIFVersion,
               ThreadID, Invalid} :
       Apart(SecondsFromEpoch, g) /\ Apart(FrameNumber, g)
  /\ \A g \in {SecondsFromEpoch, FrameNumber, Complex, BitsPerSample, Log2Channels,
               VDIFVersion, ThreadID, Invalid} : Apart(FrameLength, g)
  BY DEF Apart, Field, SecondsFromEpoch, Invalid, FrameNumber, FrameLength, Log2Channels,
     VDIFVersion, ThreadID, BitsPerSample, Complex, EDV

\* setPacketId and Metadata::packet_id agree.
LEMMA PacketIdSet ==
  ASSUME NEW h \in Header, NEW id \in Nat, id \div FramesPerSecond < 2^30
  PROVE  /\ PacketId(SetPacketId(h, id)) = id
         /\ Get(SetPacketId(h, id), FrameLength) = Get(h, FrameLength)
<1> DEFINE s == id \div FramesPerSecond
           n == id % FramesPerSecond
           a == Put(h, SecondsFromEpoch, s)
           b == Put(a, FrameNumber, n)
<1>0. FramesPerSecond \in Nat /\ FramesPerSecond > 0 /\ FramesPerSecond <= 2^24
  BY HeaderAssumption, FieldsAssumption
<1>1. /\ s \in Nat /\ n \in 0 .. FramesPerSecond - 1 /\ id = s * FramesPerSecond + n
  BY <1>0, DivMod
<1>2. s < 2^30 /\ n \in Nat /\ n < 2^24
  <2>1. 2^24 \in Nat
    BY PowerPositive
  <2> DEFINE top == 2^24
  <2>2. top \in Nat /\ FramesPerSecond <= top
    BY <1>0, <2>1
  <2> HIDE DEF top, n
  <2>3. n \in Nat /\ n < top
    BY <1>0, <1>1, <2>2
  <2> QED
    BY <2>3 DEF top
<1>3. SecondsFromEpoch.width = 30 /\ FrameNumber.width = 24
  BY DEF SecondsFromEpoch, FrameNumber, Field
<1> HIDE DEF s, n
<1>4. a \in Header /\ b \in Header
  BY PutTyped, FieldsInside
<1>5. Get(a, SecondsFromEpoch) = s
  BY <1>1, <1>2, <1>3, GetPut, FieldsInside
<1> HIDE DEF a
<1>6. Get(b, FrameNumber) = n
  BY <1>1, <1>2, <1>3, <1>4, GetPut, FieldsInside
<1>7. Get(b, SecondsFromEpoch) = s
  BY <1>4, <1>5, GetOther, FieldsInside, FieldsApart
<1>8. Get(b, FrameLength) = Get(a, FrameLength)
  BY <1>4, GetOther, FieldsInside, FieldsApart
<1>9. Get(a, FrameLength) = Get(h, FrameLength)
  BY GetOther, FieldsInside, FieldsApart DEF a
<1>10. SetPacketId(h, id) = b
  BY DEF SetPacketId, a, s, n
<1> HIDE DEF b
<1>11. PacketId(b) = id
  BY <1>1, <1>6, <1>7 DEF PacketId
<1> QED
  BY <1>8, <1>9, <1>10, <1>11

\* A setter of a field that is neither the time nor the length.
LEMMA PutAside ==
  ASSUME NEW h \in Header, NEW v,
         NEW g \in {EDV, Complex, BitsPerSample, Log2Channels, VDIFVersion, ThreadID, Invalid}
  PROVE  /\ Put(h, g, v) \in Header
         /\ PacketId(Put(h, g, v)) = PacketId(h)
         /\ g # EDV => Get(Put(h, g, v), FrameLength) = Get(h, FrameLength)
<1>1. /\ IsField(g) /\ IsField(SecondsFromEpoch) /\ IsField(FrameNumber) /\ IsField(FrameLength)
      /\ Apart(SecondsFromEpoch, g) /\ Apart(FrameNumber, g)
      /\ g # EDV => Apart(FrameLength, g)
  BY FieldsInside, FieldsApart
<1>2. Get(Put(h, g, v), SecondsFromEpoch) = Get(h, SecondsFromEpoch)
  BY <1>1, GetOther
<1>3. Get(Put(h, g, v), FrameNumber) = Get(h, FrameNumber)
  BY <1>1, GetOther
<1>4. g # EDV => Get(Put(h, g, v), FrameLength) = Get(h, FrameLength)
  BY <1>1, GetOther
<1>5. Put(h, g, v) \in Header
  BY <1>1, PutTyped
<1> QED
  BY <1>2, <1>3, <1>4, <1>5 DEF PacketId

\* configureBaseband keeps the time and sets the length.
LEMMA Configured ==
  ASSUME NEW h \in Header, NEW depth, NEW thread, NEW payload,
         NEW n \in Nat, n = (HeaderSize + (payload * depth) \div 8) \div LengthUnit, n < 2^24
  PROVE  /\ ConfigureBaseband(h, depth, thread, payload) \in Header
         /\ PacketId(ConfigureBaseband(h, depth, thread, payload)) = PacketId(h)
         /\ Get(ConfigureBaseband(h, depth, thread, payload), FrameLength) = n
<1> DEFINE h1 == Put(h, EDV, 1)
           h2 == Put(h1, FrameLength, n)
           h3 == Put(h2, Complex, 1)
           h4 == Put(h3, BitsPerSample, depth - 1)
           h5 == Put(h4, Log2Channels, 0)
           h6 == Put(h5, VDIFVersion, 1)
           h7 == Put(h6, ThreadID, thread)
<1>0. ConfigureBaseband(h, depth, thread, payload) = h7
  BY DEF ConfigureBaseband
<1>1. h1 \in Header /\ PacketId(h1) = PacketId(h)
  BY PutAside
<1> HIDE DEF h1
<1>2. h2 \in Header /\ PacketId(h2) = PacketId(h) /\ Get(h2, FrameLength) = n
  <2>1. FrameLength.width = 24
    BY DEF FrameLength, Field
  <2>2. Get(h2, FrameLength) = n
    BY <1>1, <2>1, GetPut, FieldsInside
  <2>3. Get(h2, SecondsFromEpoch) = Get(h1, SecondsFromEpoch)
    BY <1>1, GetOther, FieldsInside, FieldsApart
  <2>4. Get(h2, FrameNumber) = Get(h1, FrameNumber)
    BY <1>1, GetOther, FieldsInside, FieldsApart
  <2>5. h2 \in Header
    BY <1>1, PutTyped, FieldsInside
  <2> QED
    BY <1>1, <2>2, <2>3, <2>4, <2>5 DEF PacketId
<1> HIDE DEF h2
<1>d. /\ Complex # EDV /\ BitsPerSample # EDV /\ Log2Channels # EDV
      /\ VDIFVersion # EDV /\ ThreadID # EDV
  BY DEF Complex, BitsPerSample, Log2Channels, VDIFVersion, ThreadID, EDV, Field
<1>3. h3 \in Header /\ PacketId(h3) = PacketId(h) /\ Get(h3, FrameLength) = n
  BY <1>2, <1>d, PutAside
<1> HIDE DEF h3
<1>4. h4 \in Header /\ PacketId(h4) = PacketId(h) /\ Get(h4, FrameLength) = n
  BY <1>3, <1>d, PutAside
<1> HIDE DEF h4
<1>5. h5 \in Header /\ PacketId(h5) = PacketId(h) /\ Get(h5, FrameLength) = n
  BY <1>4, <1>d, PutAside
<1> HIDE DEF h5
<1>6. h6 \in Header /\ PacketId(h6) = PacketId(h) /\ Get(h6, FrameLength) = n
  BY <1>5, <1>d, PutAside
<1> HIDE DEF h6
<1>7. h7 \in Header /\ PacketId(h7) = PacketId(h) /\ Get(h7, FrameLength) = n
  BY <1>6, <1>d, PutAside
<1> HIDE DEF h7
<1> QED
  BY <1>0, <1>7

\* The bytes of a frame: a header and the payload after the conversion, a
\* whole number of the units the length field counts in.
LEMMA FrameBytesFacts ==
  ASSUME bits \in BitDepths
  PROVE  /\ FrameBytes \in Nat \ {0} /\ HeaderSize \in Nat \ {0} /\ FrameBytes >= HeaderSize
         /\ FrameBytes \div LengthUnit \in Nat /\ FrameBytes \div LengthUnit < 2^24
         /\ (FrameBytes \div LengthUnit) * LengthUnit = FrameBytes
         /\ BatchSize \in Nat \ {0} /\ BatchBytes \in Nat \ {0}
         /\ BatchBytes = BatchSize * FrameBytes
<1>1. /\ bits \in Nat /\ HeaderSize \in Nat \ {0} /\ FramePayload \in Nat
      /\ LengthUnit \in Nat \ {0}
      /\ BatchSize \in Nat \ {0}
  BY RecorderAssumption, HeaderAssumption
<1>2. FramePayload * bits \in Nat
  BY <1>1
<1>3. (FramePayload * bits) \div 8 \in Nat
  BY <1>2
<1>4. FrameBytes \in Nat \ {0} /\ FrameBytes >= HeaderSize
  BY <1>1, <1>3 DEF FrameBytes
<1>5. FrameBytes % LengthUnit = 0
  BY RecorderAssumption DEF FormatOK, FrameBytes
<1>6. FrameBytes \div LengthUnit < 2^24
  BY FieldsAssumption DEF FrameBytes
<1> DEFINE F == FrameBytes
           q == F \div LengthUnit
<1>7. F \in Nat \ {0} /\ F % LengthUnit = 0
  BY <1>4, <1>5
<1> HIDE DEF F
<1>8. q \in Nat /\ F = q * LengthUnit + (F % LengthUnit)
  BY <1>1, <1>7, DivMod
<1>9. q * LengthUnit \in Nat
  BY <1>1, <1>8
<1>10. q * LengthUnit = F
  BY <1>7, <1>8, <1>9
<1>11. BatchSize * F \in Nat \ {0}
  BY <1>1, <1>7
<1> QED
  BY <1>1, <1>4, <1>6, <1>8, <1>10, <1>11 DEF F, BatchBytes

\* The number of a frame, and the bounds it is in.
LEMMA FrameIds ==
  ASSUME NEW b \in 0 .. MaxBatches - 1, NEW i \in Frames
  PROVE  /\ b * BatchSize + i - 1 \in Nat
         /\ (b * BatchSize + i - 1) \div FramesPerSecond < 2^30
<1> DEFINE id == b * BatchSize + i - 1
           top == MaxBatches * BatchSize
<1>0. /\ BatchSize \in Nat \ {0} /\ MaxBatches \in Nat /\ FramesPerSecond \in Nat \ {0}
      /\ b \in Nat /\ b + 1 <= MaxBatches /\ i \in 1 .. BatchSize
  BY RecorderAssumption, HeaderAssumption DEF Frames
<1>1. /\ b * BatchSize \in Nat /\ (b + 1) * BatchSize = b * BatchSize + BatchSize
      /\ (b + 1) * BatchSize <= top /\ top \in Nat
  BY <1>0
<1> DEFINE m == b * BatchSize
<1>2. m \in Nat /\ m + BatchSize <= top /\ id = m + i - 1
  BY <1>1
<1> HIDE DEF m, top
<1>3. id \in Nat /\ id <= top /\ top \in Nat
  BY <1>0, <1>1, <1>2
<1>4. top \div FramesPerSecond < 2^30
  BY FieldsAssumption DEF top
<1> HIDE DEF id
<1> DEFINE x == id \div FramesPerSecond
           y == top \div FramesPerSecond
<1>5. x <= y /\ x \in Nat /\ y \in Nat
  BY <1>0, <1>3
<1> DEFINE z == 2^30
<1>6. z \in Nat
  BY PowerPositive
<1>7. y < z
  BY <1>4
<1> HIDE DEF x, y, z
<1>8. x < z
  BY <1>5, <1>6, <1>7
<1> QED
  BY <1>3, <1>8 DEF id, x, z

\* What recv2mem and finalize_batch put into frame i of batch b: a header
\* with the time and the length of the frame, and its samples.
LEMMA ReceivedFrame ==
  ASSUME bits \in BitDepths, NEW b \in 0 .. MaxBatches - 1, NEW i \in Frames
  PROVE  /\ PacketId(ReceivedBatches[bits][b][i].hdr) = b * BatchSize + i - 1
         /\ Get(ReceivedBatches[bits][b][i].hdr, FrameLength) * LengthUnit = FrameBytes
         /\ ReceivedBatches[bits][b][i].payload = Samples(b * BatchSize + i - 1)
<1> DEFINE id(k) == b * BatchSize + k - 1
           configured(k) == ConfigureBaseband(FpgaHeader(id(k)), bits, StreamThread,
                                              FramePayload)
           filler == SetPacketId(configured(1), id(i))
           hdr == IF id(i) \in LostIds THEN Put(filler, Invalid, 1) ELSE configured(i)
           n == FrameBytes \div LengthUnit
<1>1. ReceivedBatches[bits][b][i] = [hdr |-> hdr, payload |-> Samples(id(i))]
  BY DEF ReceivedBatches, Received
<1>2. /\ n \in Nat /\ n < 2^24 /\ n * LengthUnit = FrameBytes
      /\ n = (HeaderSize + (FramePayload * bits) \div 8) \div LengthUnit
  BY FrameBytesFacts DEF FrameBytes
<1>3. 1 \in Frames
  BY RecorderAssumption DEF Frames
<1> HIDE DEF n
<1>4. ASSUME NEW k \in Frames
      PROVE  /\ configured(k) \in Header /\ PacketId(configured(k)) = id(k)
             /\ Get(configured(k), FrameLength) = n
  <2> DEFINE raw == [w \in 0 .. 7 |-> IF w < 2 THEN {} ELSE 0 .. 31]
             f == FpgaHeader(id(k))
             x == id(k)
  <2>1. raw \in Header
    BY DEF Header, Word
  <2>2. x \in Nat /\ x \div FramesPerSecond < 2^30
    BY FrameIds
  <2>3. f = SetPacketId(raw, x)
    BY DEF FpgaHeader
  <2> HIDE DEF raw, x, f
  <2>4. f \in Header /\ PacketId(f) = x
    BY <2>1, <2>2, <2>3, HeadersTyped, PacketIdSet
  <2> DEFINE c == ConfigureBaseband(f, bits, StreamThread, FramePayload)
  <2>5. c \in Header /\ PacketId(c) = PacketId(f) /\ Get(c, FrameLength) = n
    BY <1>2, <2>4, Configured
  <2> QED
    BY <2>4, <2>5 DEF x, f
<1> HIDE DEF configured
<1>5. id(i) \in Nat /\ id(i) \div FramesPerSecond < 2^30
  BY FrameIds
<1> DEFINE x == id(i)
<1>6. filler \in Header /\ PacketId(filler) = x /\ Get(filler, FrameLength) = n
  <2> DEFINE c == configured(1)
  <2>1. c \in Header /\ Get(c, FrameLength) = n
    BY <1>3, <1>4
  <2> HIDE DEF c, x
  <2>2. x \in Nat /\ x \div FramesPerSecond < 2^30
    BY <1>5 DEF x
  <2>3. /\ SetPacketId(c, x) \in Header /\ PacketId(SetPacketId(c, x)) = x
        /\ Get(SetPacketId(c, x), FrameLength) = n
    BY <2>1, <2>2, HeadersTyped, PacketIdSet
  <2> QED
    BY <2>3 DEF c, x
<1> HIDE DEF filler
<1>7. Invalid # EDV
  BY DEF Invalid, EDV, Field
<1>8. /\ PacketId(Put(filler, Invalid, 1)) = x
      /\ Get(Put(filler, Invalid, 1), FrameLength) = n
  BY <1>6, <1>7, PutAside
<1>9. PacketId(hdr) = x /\ Get(hdr, FrameLength) = n
  BY <1>4, <1>8
<1> HIDE DEF hdr, x
<1>10. ReceivedBatches[bits][b][i].hdr = hdr /\ ReceivedBatches[bits][b][i].payload = Samples(id(i))
  BY <1>1
<1> QED
  BY <1>2, <1>9, <1>10 DEF x

(***************************************************************************)
(* The conversion of the samples: with AVX-512 and without, and what a     *)
(* reader decodes.                                                         *)
(***************************************************************************)
\* Bytes.
Byte == 0 .. 255

\* The powers of two that occur in a byte.
LEMMA SmallPowers ==
  /\ 2^0 = 1 /\ 2^1 = 2 /\ 2^2 = 4 /\ 2^3 = 8 /\ 2^4 = 16 /\ 2^5 = 32 /\ 2^6 = 64
  /\ 2^7 = 128 /\ 2^8 = 256
<1>1. \A k \in Nat : 2^(k + 1) = 2 * 2^k /\ 2^0 = 1
  BY PowerStep
<1>2. 2^0 = 1 /\ 2^(0 + 1) = 2 * 2^0 /\ 0 + 1 = 1
  BY <1>1
<1>3. 2^(1 + 1) = 2 * 2^1 /\ 1 + 1 = 2
  BY <1>1
<1>4. 2^(2 + 1) = 2 * 2^2 /\ 2 + 1 = 3
  BY <1>1
<1>5. 2^(3 + 1) = 2 * 2^3 /\ 3 + 1 = 4
  BY <1>1
<1>6. 2^(4 + 1) = 2 * 2^4 /\ 4 + 1 = 5
  BY <1>1
<1>7. 2^(5 + 1) = 2 * 2^5 /\ 5 + 1 = 6
  BY <1>1
<1>8. 2^(6 + 1) = 2 * 2^6 /\ 6 + 1 = 7
  BY <1>1
<1>9. 2^(7 + 1) = 2 * 2^7 /\ 7 + 1 = 8
  BY <1>1
<1> QED
  BY <1>2, <1>3, <1>4, <1>5, <1>6, <1>7, <1>8, <1>9

\* From offset binary to two's complement.
LEMMA Flipped ==
  ASSUME NEW x \in Byte
  PROVE  FlipSign(x) \in Byte /\ FlipSign(x) = IF x >= 128 THEN x - 128 ELSE x + 128
  BY DEF FlipSign, Byte

\* The lane of two bytes with its bytes exchanged.
LEMMA SwappedLane ==
  ASSUME NEW a \in Byte, NEW b \in Byte
  PROVE  /\ ((((a + 256 * b) * 256) % 65536) + ((a + 256 * b) \div 256)) % 256 = b
         /\ ((((a + 256 * b) * 256) % 65536) + ((a + 256 * b) \div 256)) \div 256 = a
<1>1. (a + 256 * b) \div 256 = b
  BY DEF Byte
<1>2. ((a + 256 * b) * 256) % 65536 = 256 * a
  BY DEF Byte
<1>3. (256 * a + b) % 256 = b /\ (256 * a + b) \div 256 = a
  BY DEF Byte
<1> QED
  BY <1>1, <1>2, <1>3

\* The lane shifted right by 4 and masked.
LEMMA ShiftedLane ==
  ASSUME NEW a \in Byte, NEW b \in Byte
  PROVE  ((((a + 256 * b) \div 16) \div 256) % 16) + 16 * (((a + 256 * b) \div 16) % 16)
           = (b \div 16) + 16 * (a \div 16)
<1>1. (a + 256 * b) \div 16 = (a \div 16) + 16 * b /\ a \div 16 \in 0 .. 15 /\ b \div 16 \in 0 .. 15
  BY DEF Byte
<1> DEFINE m == a \div 16
           x == (a + 256 * b) \div 16
<1>2. x = m + 16 * b /\ m \in 0 .. 15
  BY <1>1
<1> HIDE DEF m, x
<1>3. x % 16 = m /\ (x \div 256) % 16 = b \div 16
  BY <1>2 DEF Byte
<1>4. ((x \div 256) % 16) + 16 * (x % 16) = (b \div 16) + 16 * m
  BY <1>3
<1> QED
  BY <1>4 DEF x, m

\* out over the start of a buffer
LEMMA OverwriteAt ==
  ASSUME NEW buf \in Seq(Byte), NEW out \in Seq(Byte), Len(out) <= Len(buf),
         NEW j \in 1 .. Len(out)
  PROVE  Overwrite(buf, out)[j] = out[j]
<1> DEFINE tail == SubSeq(buf, Len(out) + 1, Len(buf))
<1>1. Len(buf) \in Nat /\ Len(out) \in Nat
  OBVIOUS
<1>2. tail \in Seq(Byte)
  BY <1>1, SubSeqProperties
<1> HIDE DEF tail
<1>3. (out \o tail)[j] = out[j]
  BY <1>2, ConcatProperties
<1> QED
  BY <1>3 DEF Overwrite, tail

\* The whole vectors of a buffer, and the tail.
LEMMA VectorSplit ==
  ASSUME NEW buf \in Seq(Byte)
  PROVE  LET V == Vectors(buf) * VectorBytes IN
         /\ V \in 0 .. Len(buf) /\ V % 2 = 0 /\ V = 2 * (V \div 2)
         /\ VectorPart(buf) \in Seq(Byte) /\ Len(VectorPart(buf)) = V
         /\ \A k \in 1 .. V : VectorPart(buf)[k] = buf[k]
         /\ Rest(buf) \in Seq(Byte) /\ Len(Rest(buf)) = Len(buf) - V
         /\ \A k \in 1 .. Len(buf) - V : Rest(buf)[k] = buf[V + k]
<1> DEFINE n == Len(buf) \div VectorBytes
           V == Vectors(buf) * VectorBytes
           L == Len(buf)
<1>0. VectorBytes \in Nat \ {0} /\ VectorBytes % 2 = 0 /\ L \in Nat
  BY VectorAssumption
<1> HIDE DEF L
<1>1. (L \div VectorBytes) \in Nat /\ L % VectorBytes \in Nat
      /\ L = (L \div VectorBytes) * VectorBytes + (L % VectorBytes)
  BY <1>0, DivMod
<1>2. V = (L \div VectorBytes) * VectorBytes
  BY DEF Vectors, L
<1>3. V \in 0 .. L
  <2> HIDE DEF V
  <2> DEFINE q == L \div VectorBytes
             r == L % VectorBytes
             m == q * VectorBytes
  <2>1. q \in Nat /\ r \in Nat /\ L = m + r /\ V = m
    BY <1>1, <1>2
  <2> HIDE DEF q, r
  <2>2. m \in Nat
    BY <1>0, <2>1
  <2> HIDE DEF m
  <2> QED
    BY <1>0, <2>1, <2>2
<1>4. V % 2 = 0 /\ V = 2 * (V \div 2)
  <2> DEFINE q == L \div VectorBytes
             h == VectorBytes \div 2
  <2>1. VectorBytes = 2 * h /\ h \in Nat /\ q \in Nat
    BY <1>0, <1>1
  <2> HIDE DEF q, h
  <2>2. q * (2 * h) = 2 * (q * h) /\ q * h \in Nat
    BY <2>1
  <2>3. V = 2 * (q * h)
    BY <1>2, <2>1, <2>2 DEF q
  <2> DEFINE z == q * h
  <2> HIDE DEF z, V
  <2>4. V = 2 * z /\ z \in Nat
    BY <2>2, <2>3 DEF z
  <2> QED
    BY <2>4
<1> HIDE DEF V
<1>5. /\ VectorPart(buf) = SubSeq(buf, 1, V) /\ Rest(buf) = SubSeq(buf, V + 1, L)
  BY DEF VectorPart, Rest, V, L
<1>6. \A i \in 1 .. L : buf[i] \in Byte
  BY DEF L
<1>7. /\ SubSeq(buf, 1, V) \in Seq(Byte) /\ Len(SubSeq(buf, 1, V)) = V
      /\ \A k \in 1 .. V : SubSeq(buf, 1, V)[k] = buf[k]
  BY <1>0, <1>3, <1>6, SubSeqProperties
<1>8. /\ SubSeq(buf, V + 1, L) \in Seq(Byte) /\ Len(SubSeq(buf, V + 1, L)) = L - V
      /\ \A k \in 1 .. L - V : SubSeq(buf, V + 1, L)[k] = buf[V + k]
  BY <1>0, <1>3, <1>6, SubSeqProperties
<1> QED
  BY <1>3, <1>4, <1>5, <1>7, <1>8 DEF V, L

\* Two components of a pair are exchanged.
Partner(i) == IF i % 2 = 1 THEN i + 1 ELSE i - 1

\* An even number is twice a number.
LEMMA EvenHalf ==
  ASSUME NEW x \in Nat, x % 2 = 0
  PROVE  \E h \in Nat : x = 2 * h
<1>1. x = 2 * (x \div 2) /\ x \div 2 \in Nat
  OBVIOUS
<1> QED
  BY <1>1

\* Adding an even number keeps the parity.
LEMMA EvenShift ==
  ASSUME NEW m \in Nat, NEW k \in Nat
  PROVE  (2 * m + k) % 2 = k % 2
  OBVIOUS

\* The pair a byte belongs to.
LEMMA PairOf ==
  ASSUME NEW m \in Nat, NEW k \in 1 .. 2 * m
  PROVE  LET n == (k + 1) \div 2 IN
         /\ n \in 1 .. m /\ Partner(k) \in 1 .. 2 * m
         /\ k % 2 = 1 => k = 2 * n - 1 /\ Partner(k) = 2 * n
         /\ k % 2 # 1 => k = 2 * n /\ Partner(k) = 2 * n - 1
<1> DEFINE n == (k + 1) \div 2
<1>1. n \in Nat /\ (k + 1 = 2 * n \/ k + 1 = 2 * n + 1)
  OBVIOUS
<1>2. (k % 2 = 1 => k + 1 = 2 * n) /\ (k % 2 # 1 => k + 1 = 2 * n + 1)
  BY <1>1
<1> HIDE DEF n
<1>3. /\ n \in 1 .. m
      /\ k % 2 = 1 => k = 2 * n - 1 /\ Partner(k) = 2 * n
      /\ k % 2 # 1 => k = 2 * n /\ Partner(k) = 2 * n - 1
  BY <1>1, <1>2 DEF Partner
<1>4. Partner(k) \in 1 .. 2 * m
  <2>1. CASE k % 2 = 1
    BY <1>3, <2>1
  <2>2. CASE k % 2 # 1
    BY <1>3, <2>2
  <2> QED
    BY <2>1, <2>2
<1> QED
  BY <1>3, <1>4 DEF n

\* quantize8_scalar on pairs
LEMMA Scalar8At ==
  ASSUME NEW buf \in Seq(Byte), Len(buf) % 2 = 0, NEW i \in 1 .. Len(buf)
  PROVE  /\ Partner(i) \in 1 .. Len(buf)
         /\ Quantize8Scalar(buf)[i] = FlipSign(buf[Partner(i)])
<1>1. Len(buf) \in Nat
  OBVIOUS
<1>2. Partner(i) \in 1 .. Len(buf)
  BY <1>1 DEF Partner
<1> QED
  BY <1>2 DEF Quantize8Scalar, Partner

\* quantize8_avx512 computes the same.
LEMMA Avx8At ==
  ASSUME NEW buf \in Seq(Byte), Len(buf) % 2 = 0, NEW i \in 1 .. Len(buf)
  PROVE  Quantize8Avx512(buf)[i] = Quantize8Scalar(buf)[i]
<1> DEFINE V == Vectors(buf) * VectorBytes
           v == VectorPart(buf)
           t == Rest(buf)
           L == Len(buf)
           swapped(n) == ((Lane(v, n) * 256) % 65536) + (Lane(v, n) \div 256)
           head == [k \in 1 .. Len(v) |->
                      LET lane == swapped((k + 1) \div 2)
                      IN FlipSign(IF k % 2 = 1 THEN lane % 256 ELSE lane \div 256)]
           last == Quantize8Scalar(t)
<1>0. /\ V \in 0 .. L /\ V % 2 = 0 /\ v \in Seq(Byte) /\ Len(v) = V
      /\ \A k \in 1 .. V : v[k] = buf[k]
      /\ t \in Seq(Byte) /\ Len(t) = L - V
      /\ \A k \in 1 .. L - V : t[k] = buf[V + k]
  BY VectorSplit
<1>1. L \in Nat /\ L % 2 = 0 /\ \A k \in 1 .. L : buf[k] \in Byte
  OBVIOUS
<1>2. Quantize8Avx512(buf) = head \o last
  BY DEF Quantize8Avx512
<1> HIDE DEF V, v, t, L
<1>20. PICK m \in Nat : V = 2 * m
  <2>1. V \in Nat /\ V % 2 = 0
    BY <1>0, <1>1
  <2> QED
    BY <2>1, EvenHalf
<1>21. PICK l \in Nat : L = 2 * l
  BY <1>1, EvenHalf
<1>3. Quantize8Scalar(buf)[i] = FlipSign(buf[Partner(i)]) /\ Partner(i) \in 1 .. L
  BY Scalar8At DEF L
<1>4. ASSUME NEW k \in 1 .. V
      PROVE  head[k] = FlipSign(buf[Partner(k)]) /\ Partner(k) \in 1 .. V
  <2> DEFINE n == (k + 1) \div 2
             a == v[2 * n - 1]
             b == v[2 * n]
  <2>1. /\ n \in Nat /\ 2 * n - 1 \in 1 .. V /\ 2 * n \in 1 .. V
        /\ k % 2 = 1 => k + 1 = 2 * n
        /\ k % 2 # 1 => k - 1 = 2 * n - 1
    <3>1. k \in 1 .. 2 * m
      BY <1>20
    <3>2. /\ n \in 1 .. m /\ (k % 2 = 1 => k = 2 * n - 1) /\ (k % 2 # 1 => k = 2 * n)
      BY <3>1, PairOf
    <3> HIDE DEF n
    <3> QED
      BY <1>20, <3>2
  <2>2. a \in Byte /\ b \in Byte /\ a = buf[2 * n - 1] /\ b = buf[2 * n]
    BY <1>0, <1>1, <2>1
  <2>3. swapped(n) = (((a + 256 * b) * 256) % 65536) + ((a + 256 * b) \div 256)
    BY DEF Lane
  <2>4. head[k] = FlipSign(IF k % 2 = 1 THEN swapped(n) % 256 ELSE swapped(n) \div 256)
    BY <1>0
  <2> DEFINE s == swapped(n)
  <2> HIDE DEF swapped, head, a, b
  <2>5. s % 256 = b /\ s \div 256 = a
    BY <2>2, <2>3, SwappedLane
  <2>6. Partner(k) = IF k % 2 = 1 THEN 2 * n ELSE 2 * n - 1
    BY <2>1 DEF Partner
  <2>7. head[k] = FlipSign(IF k % 2 = 1 THEN b ELSE a)
    BY <2>4, <2>5
  <2> QED
    BY <2>1, <2>2, <2>6, <2>7
<1>5. head = [k \in 1 .. V |-> head[k]] /\ DOMAIN head = 1 .. V
  BY <1>0
<1> HIDE DEF head
<1>6. head \in Seq(Byte) /\ Len(head) = V
  <2>1. \A k \in 1 .. V : head[k] \in Byte
    <3> TAKE k \in 1 .. V
    <3>1. head[k] = FlipSign(buf[Partner(k)]) /\ buf[Partner(k)] \in Byte
      <4>1. head[k] = FlipSign(buf[Partner(k)]) /\ Partner(k) \in 1 .. V
        BY <1>4
      <4> DEFINE p == Partner(k)
      <4>3. p \in 1 .. V /\ V \in 0 .. L /\ L \in Nat
        BY <1>0, <1>1, <4>1
      <4> HIDE DEF p
      <4>4. p \in 1 .. L
        BY <4>3
      <4>2. Partner(k) \in 1 .. L
        BY <4>4 DEF p
      <4> QED
        BY <1>1, <4>1, <4>2
    <3> QED
      BY <3>1, Flipped
  <2>2. head \in [1 .. V -> Byte]
    BY <1>5, <2>1
  <2> QED
    BY <1>0, <2>2
<1>7. \A k \in 1 .. L - V : last[k] = FlipSign(t[Partner(k)]) /\ Partner(k) \in 1 .. L - V
  <2>1. Len(t) % 2 = 0
    <3>1. Len(t) = 2 * (l - m) /\ l - m \in Nat
      BY <1>0, <1>20, <1>21
    <3> QED
      BY <3>1
  <2> QED
    BY <1>0, <2>1, Scalar8At
<1>8. last \in Seq(Byte) /\ Len(last) = L - V
  <2>1. DOMAIN last = 1 .. L - V /\ last = [k \in 1 .. L - V |-> last[k]]
    BY <1>0 DEF Quantize8Scalar
  <2> HIDE DEF last
  <2>2. \A k \in 1 .. L - V : last[k] \in Byte
    <3> TAKE k \in 1 .. L - V
    <3>1. last[k] = FlipSign(t[Partner(k)]) /\ t[Partner(k)] \in Byte
      BY <1>0, <1>7
    <3> QED
      BY <3>1, Flipped
  <2>3. last \in [1 .. L - V -> Byte] /\ L - V \in Nat
    BY <1>0, <1>1, <2>1, <2>2
  <2> QED
    BY <2>3
<1> HIDE DEF last
<1>9. i \in 1 .. L
  BY DEF L
<1>10. CASE i <= V
  <2>1. i \in 1 .. V
    BY <1>0, <1>9, <1>10
  <2>2. (head \o last)[i] = head[i]
    BY <1>6, <1>8, <2>1, ConcatProperties
  <2> QED
    BY <1>2, <1>3, <1>4, <2>1, <2>2
<1>11. CASE i > V
  <2> DEFINE k == i - V
  <2>1. k \in 1 .. L - V /\ i = V + k /\ i \in 1 .. Len(head) + Len(last) /\ i > Len(head)
        /\ i - Len(head) = k
    BY <1>0, <1>1, <1>6, <1>8, <1>9, <1>11
  <2>2. (head \o last)[i] = last[k]
    BY <1>6, <1>8, <2>1, ConcatProperties
  <2> HIDE DEF k
  <2>3. Partner(k) \in 1 .. L - V /\ Partner(i) = V + Partner(k)
    <3>1. i % 2 = k % 2
      BY <1>0, <1>20, <2>1, EvenShift
    <3> QED
      BY <1>0, <1>7, <2>1, <3>1 DEF Partner
  <2>4. t[Partner(k)] = buf[Partner(i)]
    BY <1>0, <2>3
  <2> QED
    BY <1>2, <1>3, <1>7, <2>1, <2>2, <2>4
<1> QED
  BY <1>0, <1>9, <1>10, <1>11

\* A byte of two nibbles.
LEMMA NibblesByte ==
  ASSUME NEW q \in Byte, NEW i \in Byte
  PROVE  Nibbles(q, i) \in Byte
<1>1. FlipSign(q) \in Byte /\ FlipSign(i) \in Byte
  BY Flipped
<1>2. FlipSign(q) \div 16 \in 0 .. 15 /\ FlipSign(i) \div 16 \in 0 .. 15
  BY <1>1 DEF Byte
<1> QED
  BY <1>2 DEF Nibbles, Byte

\* quantize4_scalar on pairs.
LEMMA Scalar4At ==
  ASSUME NEW buf \in Seq(Byte), NEW h \in Nat, Len(buf) = 2 * h
  PROVE  /\ Quantize4Scalar(buf) \in Seq(Byte) /\ Len(Quantize4Scalar(buf)) = Len(buf)
         /\ \A j \in 1 .. h : /\ Quantize4Scalar(buf)[j] = Nibbles(buf[2 * j - 1], buf[2 * j])
                              /\ Nibbles(buf[2 * j - 1], buf[2 * j]) \in Byte
<1> DEFINE out == [n \in 1 .. Len(buf) \div 2 |-> Nibbles(buf[2 * n - 1], buf[2 * n])]
           tail == SubSeq(buf, Len(out) + 1, Len(buf))
<1>1. Len(buf) \div 2 = h /\ Len(buf) \in Nat /\ h <= Len(buf)
  OBVIOUS
<1>2. \A j \in 1 .. h : Nibbles(buf[2 * j - 1], buf[2 * j]) \in Byte
  <2> TAKE j \in 1 .. h
  <2>1. 2 * j - 1 \in 1 .. Len(buf) /\ 2 * j \in 1 .. Len(buf)
    OBVIOUS
  <2>2. buf[2 * j - 1] \in Byte /\ buf[2 * j] \in Byte
    BY <2>1
  <2> QED
    BY <2>2, NibblesByte
<1>3. out \in [1 .. h -> Byte]
  BY <1>1, <1>2
<1>4. out \in Seq(Byte) /\ Len(out) = h
  BY <1>3
<1>5. \A i \in 1 .. Len(buf) : buf[i] \in Byte
  OBVIOUS
<1>6. \A j \in 1 .. h : out[j] = Nibbles(buf[2 * j - 1], buf[2 * j])
  BY <1>1
<1>7. Quantize4Scalar(buf) = Overwrite(buf, out)
  BY DEF Quantize4Scalar
<1> HIDE DEF out
<1>8. tail \in Seq(Byte) /\ Len(tail) = Len(buf) - h
  BY <1>1, <1>4, <1>5, SubSeqProperties
<1>9. Overwrite(buf, out) = out \o tail
  BY DEF Overwrite
<1> HIDE DEF tail
<1>10. (out \o tail) \in Seq(Byte) /\ Len(out \o tail) = Len(buf)
  <2>1. (out \o tail) \in Seq(Byte) /\ Len(out \o tail) = Len(out) + Len(tail)
    BY <1>4, <1>8, ConcatProperties
  <2> QED
    BY <1>1, <1>4, <1>8, <2>1
<1>11. \A j \in 1 .. h : (out \o tail)[j] = out[j]
  BY <1>4, <1>8, ConcatProperties
<1> QED
  BY <1>2, <1>6, <1>7, <1>9, <1>10, <1>11

\* quantize4_avx512 computes the same nibbles as quantize4_scalar.
LEMMA Avx4At ==
  ASSUME NEW buf \in Seq(Byte), NEW l \in Nat, Len(buf) = 2 * l, NEW j \in 1 .. l
  PROVE  Quantize4Avx512(buf)[j] = Quantize4Scalar(buf)[j]
<1> DEFINE V == Vectors(buf) * VectorBytes
           v == VectorPart(buf)
           t == Rest(buf)
           L == Len(buf)
           shifted(n) == (FlipSign(v[2 * n - 1]) + 256 * FlipSign(v[2 * n])) \div 16
           packed(n) == ((shifted(n) \div 256) % 16) + 16 * (shifted(n) % 16)
           head == [n \in 1 .. Len(v) \div 2 |-> packed(n)]
           last == SubSeq(Quantize4Scalar(t), 1, Len(t) \div 2)
<1>0. /\ V \in 0 .. L /\ V % 2 = 0 /\ v \in Seq(Byte) /\ Len(v) = V
      /\ \A k \in 1 .. V : v[k] = buf[k]
      /\ t \in Seq(Byte) /\ Len(t) = L - V
      /\ \A k \in 1 .. L - V : t[k] = buf[V + k]
  BY VectorSplit
<1>1. L \in Nat /\ L = 2 * l /\ \A k \in 1 .. L : buf[k] \in Byte
  OBVIOUS
<1>2. Quantize4Avx512(buf) = Overwrite(buf, head \o last)
  BY DEF Quantize4Avx512
<1> HIDE DEF V, v, t, L
<1>3. PICK m \in Nat : V = 2 * m
  <2>1. V \in Nat /\ V % 2 = 0
    BY <1>0, <1>1
  <2> QED
    BY <2>1, EvenHalf
<1>4. m <= l /\ l - m \in Nat /\ Len(v) \div 2 = m /\ Len(t) = 2 * (l - m) /\ Len(t) \div 2 = l - m
  BY <1>0, <1>1, <1>3
<1>5. /\ \A k \in 1 .. l : /\ Quantize4Scalar(buf)[k] = Nibbles(buf[2 * k - 1], buf[2 * k])
                           /\ Nibbles(buf[2 * k - 1], buf[2 * k]) \in Byte
  BY <1>1, Scalar4At DEF L
<1>6. ASSUME NEW k \in 1 .. m
      PROVE  packed(k) = Nibbles(buf[2 * k - 1], buf[2 * k])
  <2> DEFINE a == FlipSign(v[2 * k - 1])
             b == FlipSign(v[2 * k])
  <2>1. 2 * k - 1 \in 1 .. V /\ 2 * k \in 1 .. V
    BY <1>3
  <2>2. v[2 * k - 1] \in Byte /\ v[2 * k] \in Byte
    <3>1. \A x \in 1 .. Len(v) : v[x] \in Byte
      <4>1. v \in Seq(Byte)
        BY <1>0
      <4> QED
        BY <4>1
    <3> QED
      BY <1>0, <2>1, <3>1
  <2>3. a \in Byte /\ b \in Byte
    BY <2>2, Flipped
  <2>4. packed(k) = ((((a + 256 * b) \div 16) \div 256) % 16) + 16 * (((a + 256 * b) \div 16) % 16)
    OBVIOUS
  <2>5. a = FlipSign(buf[2 * k - 1]) /\ b = FlipSign(buf[2 * k])
    BY <1>0, <2>1
  <2> HIDE DEF a, b, packed
  <2>6. packed(k) = (b \div 16) + 16 * (a \div 16)
    BY <2>3, <2>4, ShiftedLane
  <2> QED
    BY <2>5, <2>6 DEF Nibbles
<1> HIDE DEF packed
<1>7. head \in Seq(Byte) /\ Len(head) = m /\ \A k \in 1 .. m : head[k] = packed(k)
  <2>1. \A k \in 1 .. m : packed(k) \in Byte
    <3> TAKE k \in 1 .. m
    <3>1. k \in 1 .. l
      BY <1>4
    <3> QED
      BY <1>5, <1>6, <3>1
  <2>2. head = [n \in 1 .. m |-> packed(n)]
    BY <1>4
  <2>3. head \in [1 .. m -> Byte]
    BY <2>1, <2>2
  <2> QED
    BY <2>2, <2>3
<1> HIDE DEF head
<1>8. /\ Quantize4Scalar(t) \in Seq(Byte) /\ Len(Quantize4Scalar(t)) = Len(t)
      /\ \A k \in 1 .. l - m : Quantize4Scalar(t)[k] = Nibbles(t[2 * k - 1], t[2 * k])
  BY <1>0, <1>4, Scalar4At
<1>9. last \in Seq(Byte) /\ Len(last) = l - m /\ \A k \in 1 .. l - m : last[k] = Quantize4Scalar(t)[k]
  <2> DEFINE s == Quantize4Scalar(t)
             d == l - m
  <2>1. s \in Seq(Byte) /\ Len(s) = 2 * d /\ d \in Nat /\ d <= Len(s)
    BY <1>4, <1>8
  <2>2. last = SubSeq(s, 1, d)
    BY <1>4
  <2> HIDE DEF s, d, last
  <2>3. \A i \in 1 .. d : s[i] \in Byte
    BY <2>1
  <2>4. /\ SubSeq(s, 1, d) \in Seq(Byte) /\ Len(SubSeq(s, 1, d)) = d
        /\ \A k \in 1 .. d : SubSeq(s, 1, d)[k] = s[k]
    BY <2>1, <2>3, SubSeqProperties
  <2> QED
    BY <2>2, <2>4 DEF s, d
<1> HIDE DEF last
<1>10. /\ (head \o last) \in Seq(Byte) /\ Len(head \o last) = l
       /\ (j <= m => (head \o last)[j] = head[j])
       /\ (j > m => (head \o last)[j] = last[j - m])
  <2>1. (head \o last) \in Seq(Byte) /\ Len(head \o last) = Len(head) + Len(last)
    BY <1>7, <1>9, ConcatProperties
  <2>2. \A k \in 1 .. Len(head) + Len(last) :
          (head \o last)[k] = IF k <= Len(head) THEN head[k] ELSE last[k - Len(head)]
    BY <1>7, <1>9, ConcatProperties
  <2>3. Len(head) + Len(last) = l /\ j \in 1 .. Len(head) + Len(last)
    BY <1>4, <1>7, <1>9
  <2> QED
    BY <1>7, <2>1, <2>2, <2>3
<1>11. Overwrite(buf, head \o last)[j] = (head \o last)[j]
  <2> DEFINE o == head \o last
  <2>1. o \in Seq(Byte) /\ Len(o) = l
    BY <1>10
  <2>2. buf \in Seq(Byte)
    OBVIOUS
  <2>3. Len(o) <= Len(buf) /\ j \in 1 .. Len(o)
    BY <1>1, <2>1 DEF L
  <2> HIDE DEF o
  <2>4. Overwrite(buf, o)[j] = o[j]
    BY <2>1, <2>2, <2>3, OverwriteAt
  <2> QED
    BY <2>4 DEF o
<1>12. CASE j <= m
  <2>1. j \in 1 .. m
    BY <1>12
  <2> QED
    BY <1>2, <1>5, <1>6, <1>7, <1>10, <1>11, <1>12, <2>1
<1>13. CASE j > m
  <2> DEFINE k == j - m
  <2>1. k \in 1 .. l - m /\ 2 * k - 1 \in 1 .. L - V /\ 2 * k \in 1 .. L - V
        /\ V + (2 * k - 1) = 2 * j - 1 /\ V + 2 * k = 2 * j
    BY <1>1, <1>3, <1>4, <1>13
  <2>2. (head \o last)[j] = Nibbles(t[2 * k - 1], t[2 * k])
    BY <1>8, <1>9, <1>10, <1>13, <2>1
  <2> HIDE DEF k
  <2>3. t[2 * k - 1] = buf[V + (2 * k - 1)] /\ t[2 * k] = buf[V + 2 * k]
    BY <1>0, <2>1
  <2>4. t[2 * k - 1] = buf[2 * j - 1] /\ t[2 * k] = buf[2 * j]
    BY <2>1, <2>3
  <2> QED
    BY <1>2, <1>5, <1>11, <2>2, <2>4
<1> QED
  BY <1>12, <1>13

\* The two most significant bits of a component.
TopBits(x) == FlipSign(x) \div 64

\* quantize2 on two pairs.
LEMMA Scalar2At ==
  ASSUME NEW buf \in Seq(Byte), NEW h \in Nat, Len(buf) = 4 * h, NEW j \in 1 .. h
  PROVE  Quantize2(buf)[j] = TopBits(buf[4 * j - 2]) + 4 * TopBits(buf[4 * j - 3])
                               + 16 * TopBits(buf[4 * j]) + 64 * TopBits(buf[4 * j - 1])
<1> DEFINE out == [n \in 1 .. Len(buf) \div 4 |->
                     TopBits(buf[4 * n - 2]) + 4 * TopBits(buf[4 * n - 3])
                       + 16 * TopBits(buf[4 * n]) + 64 * TopBits(buf[4 * n - 1])]
<1>1. Len(buf) \div 4 = h /\ h <= Len(buf)
  OBVIOUS
<1>2. ASSUME NEW n \in 1 .. h
      PROVE  out[n] \in Byte
  <2>1. /\ 4 * n - 3 \in 1 .. Len(buf) /\ 4 * n - 2 \in 1 .. Len(buf)
        /\ 4 * n - 1 \in 1 .. Len(buf) /\ 4 * n \in 1 .. Len(buf)
    OBVIOUS
  <2>2. \A x \in Byte : TopBits(x) \in 0 .. 3
    <3> TAKE x \in Byte
    <3>1. FlipSign(x) \in Byte
      BY Flipped
    <3> DEFINE y == FlipSign(x)
    <3>2. y \in 0 .. 255
      BY <3>1 DEF Byte
    <3> HIDE DEF y
    <3>3. y \div 64 \in 0 .. 3
      BY <3>2
    <3> QED
      BY <3>3 DEF TopBits, y
  <2>3. /\ TopBits(buf[4 * n - 3]) \in 0 .. 3 /\ TopBits(buf[4 * n - 2]) \in 0 .. 3
        /\ TopBits(buf[4 * n - 1]) \in 0 .. 3 /\ TopBits(buf[4 * n]) \in 0 .. 3
    BY <2>1, <2>2
  <2>4. out[n] = TopBits(buf[4 * n - 2]) + 4 * TopBits(buf[4 * n - 3])
                   + 16 * TopBits(buf[4 * n]) + 64 * TopBits(buf[4 * n - 1])
    BY <1>1
  <2> DEFINE a == TopBits(buf[4 * n - 2])
             b == TopBits(buf[4 * n - 3])
             c == TopBits(buf[4 * n])
             d == TopBits(buf[4 * n - 1])
  <2>5. /\ a \in 0 .. 3 /\ b \in 0 .. 3 /\ c \in 0 .. 3 /\ d \in 0 .. 3
        /\ out[n] = a + 4 * b + 16 * c + 64 * d
    BY <2>3, <2>4
  <2> HIDE DEF out, a, b, c, d
  <2> QED
    BY <2>5 DEF Byte
<1>3. out \in [1 .. h -> Byte]
  BY <1>1, <1>2
<1>4. out \in Seq(Byte) /\ Len(out) = h
  BY <1>3
<1>5. out[j] = TopBits(buf[4 * j - 2]) + 4 * TopBits(buf[4 * j - 3])
                 + 16 * TopBits(buf[4 * j]) + 64 * TopBits(buf[4 * j - 1])
  BY <1>1
<1>6. Quantize2(buf) = Overwrite(buf, out)
  BY DEF Quantize2, TopBits
<1> HIDE DEF out
<1>7. Overwrite(buf, out)[j] = out[j]
  BY <1>1, <1>4, OverwriteAt
<1> QED
  BY <1>5, <1>6, <1>7

\* A payload has whole pairs, and fills whole bytes after the conversion.
LEMMA PayloadParts ==
  ASSUME NEW d \in BitDepths
  PROVE  /\ d \in {8, 4, 2} /\ FramePayload \in Nat
         /\ \E l \in Nat : FramePayload = 2 * l
         /\ d = 8 => (FramePayload * d) \div 8 = FramePayload
         /\ d = 4 => (FramePayload * d) \div 8 = FramePayload \div 2
         /\ d = 2 => \E h \in Nat : FramePayload = 4 * h /\ (FramePayload * d) \div 8 = h
<1>1. d \in {8, 4, 2} /\ FramePayload \in Nat /\ FramePayload % 2 = 0 /\ (FramePayload * d) % 8 = 0
  BY RecorderAssumption, FieldsAssumption DEF FormatOK
<1>2. \E l \in Nat : FramePayload = 2 * l
  BY <1>1, EvenHalf
<1>3. ASSUME d = 2
      PROVE  \E h \in Nat : FramePayload = 4 * h /\ (FramePayload * d) \div 8 = h
  <2>1. (FramePayload * 2) % 8 = 0
    BY <1>1, <1>3
  <2> DEFINE h == FramePayload \div 4
  <2>2. h \in Nat /\ FramePayload = 4 * h
    BY <1>1, <2>1
  <2>3. (FramePayload * d) \div 8 = h
    BY <1>1, <1>3, <2>2
  <2> QED
    BY <2>2, <2>3
<1>4. /\ d = 8 => (FramePayload * d) \div 8 = FramePayload
      /\ d = 4 => (FramePayload * d) \div 8 = FramePayload \div 2
  BY <1>1
<1> QED
  BY <1>1, <1>2, <1>3, <1>4

\* The payload bytes that go to the file are the same with AVX-512 and
\* without.
LEMMA QuantizedSame ==
  ASSUME NEW d \in BitDepths, NEW buf \in Seq(Byte), Len(buf) = FramePayload,
         NEW avx \in BOOLEAN, NEW j \in 1 .. (FramePayload * d) \div 8
  PROVE  Quantized(buf, d, avx)[j] = Quantized(buf, d, FALSE)[j]
<1>1. /\ d \in {8, 4, 2} /\ FramePayload \in Nat
      /\ d = 8 => (FramePayload * d) \div 8 = FramePayload
      /\ d = 4 => (FramePayload * d) \div 8 = FramePayload \div 2
  BY PayloadParts
<1>2. PICK l \in Nat : FramePayload = 2 * l
  BY PayloadParts
<1>3. CASE d = 8
  <2>1. Len(buf) % 2 = 0 /\ j \in 1 .. Len(buf)
    BY <1>1, <1>2, <1>3
  <2>2. Quantize8Avx512(buf)[j] = Quantize8Scalar(buf)[j]
    BY <2>1, Avx8At
  <2> QED
    BY <1>3, <2>2 DEF Quantized
<1>4. CASE d = 4
  <2>1. j \in 1 .. l
    BY <1>1, <1>2, <1>4
  <2>2. Quantize4Avx512(buf)[j] = Quantize4Scalar(buf)[j]
    BY <1>2, <2>1, Avx4At
  <2> QED
    BY <1>4, <2>2 DEF Quantized
<1>5. CASE d = 2
  BY <1>5 DEF Quantized
<1> QED
  BY <1>1, <1>3, <1>4, <1>5

\* The bytes of a converted payload in the file.
FileBytes(buf, d) == [j \in 1 .. (Len(buf) * d) \div 8 |-> Quantized(buf, d, FALSE)[j]]

\* One component: from the bits the conversion keeps a reader gets the most
\* significant bits of the voltage.
LEMMA Component8 ==
  ASSUME NEW x \in Byte
  PROVE  LET f == FlipSign(x) % 256
         IN (IF f >= 128 THEN f - 256 ELSE f) = (x - 128) \div 1
<1>1. FlipSign(x) \in Byte /\ FlipSign(x) = IF x >= 128 THEN x - 128 ELSE x + 128
  BY Flipped
<1> QED
  BY <1>1 DEF Byte

\* The same with the upper four bits of it.
LEMMA Component4 ==
  ASSUME NEW x \in Byte
  PROVE  LET f == FlipSign(x) \div 16
         IN /\ f \in 0 .. 15
            /\ (IF f >= 8 THEN f - 16 ELSE f) = (x - 128) \div 16
<1>1. FlipSign(x) \in Byte /\ FlipSign(x) = IF x >= 128 THEN x - 128 ELSE x + 128
  BY Flipped
<1> QED
  BY <1>1 DEF Byte

\* The same with the upper two bits of it.
LEMMA Component2 ==
  ASSUME NEW x \in Byte
  PROVE  /\ TopBits(x) \in 0 .. 3
         /\ (IF TopBits(x) >= 2 THEN TopBits(x) - 4 ELSE TopBits(x)) = (x - 128) \div 64
<1>1. FlipSign(x) \in Byte /\ FlipSign(x) = IF x >= 128 THEN x - 128 ELSE x + 128
  BY Flipped
<1> QED
  BY <1>1 DEF Byte, TopBits

\* 8 bits per component.
LEMMA Decoded8 ==
  ASSUME NEW buf \in Seq(Byte), NEW l \in Nat, Len(buf) = 2 * l
  PROVE  Decoded(FileBytes(buf, 8), 8) = Voltages(buf, 8)
<1> DEFINE bytes == FileBytes(buf, 8)
           perByte == 8 \div 8
           field(i) == (bytes[(i - 1) \div perByte + 1]
                          \div 2^(8 * ((i - 1) % perByte))) % 2^8
<1>1. /\ Len(buf) \in Nat /\ (Len(buf) * 8) \div 8 = Len(buf) /\ Len(buf) % 2 = 0
      /\ 8 \div 8 = 1 /\ 8 - 8 = 0 /\ 8 - 1 = 7 /\ 8 * 0 = 0
  OBVIOUS
<1>2. bytes = [j \in 1 .. Len(buf) |-> Quantize8Scalar(buf)[j]] /\ Len(bytes) = Len(buf)
  BY <1>1 DEF FileBytes, Quantized
<1>3. Decoded(bytes, 8) = [i \in 1 .. Len(bytes) * perByte |->
                             IF field(i) >= 2^(8 - 1) THEN field(i) - 2^8 ELSE field(i)]
  BY DEF Decoded
<1>4. Len(bytes) * perByte = Len(buf)
  BY <1>1, <1>2
<1> HIDE DEF bytes
<1>5. ASSUME NEW i \in 1 .. Len(buf)
      PROVE  /\ Partner(i) = IF i % 2 = 1 THEN i + 1 ELSE i - 1
             /\ (IF field(i) >= 2^(8 - 1) THEN field(i) - 2^8 ELSE field(i))
                  = (buf[Partner(i)] - 128) \div 2^(8 - 8)
  <2> DEFINE x == buf[Partner(i)]
  <2>1. Partner(i) \in 1 .. Len(buf) /\ bytes[i] = FlipSign(x)
    BY <1>1, <1>2, Scalar8At
  <2>2. x \in Byte
    BY <2>1
  <2>3. (i - 1) \div perByte + 1 = i /\ (i - 1) % perByte = 0
    BY <1>1
  <2>4. field(i) = (FlipSign(x) \div 1) % 256
    BY <1>1, <2>1, <2>3, SmallPowers
  <2>5. FlipSign(x) \in Byte
    BY <2>2, Flipped
  <2> HIDE DEF x, field
  <2> DEFINE y == FlipSign(x)
  <2>8. y \in 0 .. 255 /\ field(i) = (y \div 1) % 256
    BY <2>4, <2>5 DEF Byte
  <2> HIDE DEF y
  <2>9. field(i) = y % 256
    BY <2>8
  <2>6. field(i) = FlipSign(x) % 256
    BY <2>9 DEF y
  <2>7. (IF field(i) >= 128 THEN field(i) - 256 ELSE field(i)) = (x - 128) \div 1
    BY <2>2, <2>6, Component8
  <2> QED
    BY <1>1, <2>7, SmallPowers DEF x, Partner
<1> HIDE DEF field
<1>6. Voltages(buf, 8) = [i \in 1 .. Len(buf) |-> (buf[Partner(i)] - 128) \div 2^(8 - 8)]
  BY DEF Voltages, Partner
<1>7. Decoded(bytes, 8) = [i \in 1 .. Len(buf) |-> (buf[Partner(i)] - 128) \div 2^(8 - 8)]
  BY <1>3, <1>4, <1>5
<1> QED
  BY <1>6, <1>7 DEF bytes

\* 4 bits per component.
LEMMA Decoded4 ==
  ASSUME NEW buf \in Seq(Byte), NEW l \in Nat, Len(buf) = 2 * l
  PROVE  Decoded(FileBytes(buf, 4), 4) = Voltages(buf, 4)
<1> DEFINE bytes == FileBytes(buf, 4)
           perByte == 8 \div 4
           field(i) == (bytes[(i - 1) \div perByte + 1]
                          \div 2^(4 * ((i - 1) % perByte))) % 2^4
<1>1. /\ Len(buf) \in Nat /\ (Len(buf) * 4) \div 8 = l
      /\ 8 \div 4 = 2 /\ 8 - 4 = 4 /\ 4 - 1 = 3 /\ 4 * 0 = 0 /\ 4 * 1 = 4
  OBVIOUS
<1>2. bytes = [j \in 1 .. l |-> Quantize4Scalar(buf)[j]] /\ Len(bytes) = l
  BY <1>1 DEF FileBytes, Quantized
<1>3. Decoded(bytes, 4) = [i \in 1 .. Len(bytes) * perByte |->
                             IF field(i) >= 2^(4 - 1) THEN field(i) - 2^4 ELSE field(i)]
  BY DEF Decoded
<1>4. Len(bytes) * perByte = Len(buf)
  BY <1>1, <1>2
<1> HIDE DEF bytes
<1>5. ASSUME NEW i \in 1 .. Len(buf)
      PROVE  /\ Partner(i) = IF i % 2 = 1 THEN i + 1 ELSE i - 1
             /\ (IF field(i) >= 2^(4 - 1) THEN field(i) - 2^4 ELSE field(i))
                  = (buf[Partner(i)] - 128) \div 2^(8 - 4)
  <2> DEFINE n == (i + 1) \div 2
             x == buf[Partner(i)]
             q == FlipSign(buf[2 * n - 1]) \div 16
             p == FlipSign(buf[2 * n]) \div 16
             f == FlipSign(x) \div 16
  <2>1. /\ n \in 1 .. l /\ Partner(i) \in 1 .. 2 * l
        /\ i % 2 = 1 => i = 2 * n - 1 /\ Partner(i) = 2 * n
        /\ i % 2 # 1 => i = 2 * n /\ Partner(i) = 2 * n - 1
    BY PairOf
  <2> HIDE DEF n
  <2>2. (i - 1) \div perByte + 1 = n /\ (i - 1) % perByte = IF i % 2 = 1 THEN 0 ELSE 1
    BY <1>1, <2>1
  <2>3. bytes[n] = p + 16 * q
    BY <1>2, <2>1, Scalar4At DEF Nibbles
  <2>4. 2 * n - 1 \in 1 .. Len(buf) /\ 2 * n \in 1 .. Len(buf)
    BY <2>1
  <2>5. buf[2 * n - 1] \in Byte /\ buf[2 * n] \in Byte /\ x \in Byte
    BY <2>1, <2>4
  <2>6. p \in 0 .. 15 /\ q \in 0 .. 15
    BY <2>5, Component4
  <2>7. f = IF i % 2 = 1 THEN p ELSE q
    BY <2>1
  <2>8. field(i) = (bytes[n] \div (IF i % 2 = 1 THEN 1 ELSE 16)) % 16
    <3>1. 2^4 = 16 /\ 2^0 = 1
      BY SmallPowers
    <3>2. CASE i % 2 = 1
      <4>1. 4 * ((i - 1) % perByte) = 0
        BY <2>2, <3>2
      <4> QED
        BY <2>2, <3>1, <3>2, <4>1
    <3>3. CASE i % 2 # 1
      <4>1. 4 * ((i - 1) % perByte) = 4
        BY <2>2, <3>3
      <4> QED
        BY <2>2, <3>1, <3>3, <4>1
    <3> QED
      BY <3>2, <3>3
  <2> HIDE DEF x, q, p, f, field
  <2>9. field(i) = f
    <3>1. (p + 16 * q) % 16 = p /\ ((p + 16 * q) \div 16) % 16 = q /\ (p + 16 * q) \div 1 = p + 16 * q
      BY <2>6
    <3> QED
      BY <2>3, <2>7, <2>8, <3>1
  <2>10. (IF f >= 8 THEN f - 16 ELSE f) = (x - 128) \div 16
    BY <2>5, Component4 DEF f
  <2> QED
    BY <1>1, <2>9, <2>10, SmallPowers DEF x, Partner
<1> HIDE DEF field
<1>6. Voltages(buf, 4) = [i \in 1 .. Len(buf) |-> (buf[Partner(i)] - 128) \div 2^(8 - 4)]
  BY DEF Voltages, Partner
<1>7. Decoded(bytes, 4) = [i \in 1 .. Len(buf) |-> (buf[Partner(i)] - 128) \div 2^(8 - 4)]
  BY <1>3, <1>4, <1>5
<1> QED
  BY <1>6, <1>7 DEF bytes

\* Where component i is among the four of a byte.
LEMMA FourOf ==
  ASSUME NEW h \in Nat, NEW i \in 1 .. 4 * h
  PROVE  LET n == (i - 1) \div 4 + 1
             r == (i - 1) % 4
         IN /\ n \in 1 .. h /\ r \in 0 .. 3 /\ i = 4 * n - 3 + r
            /\ Partner(i) = IF r = 0 THEN 4 * n - 2 ELSE IF r = 1 THEN 4 * n - 3
                            ELSE IF r = 2 THEN 4 * n ELSE 4 * n - 1
<1> DEFINE n == (i - 1) \div 4 + 1
           r == (i - 1) % 4
<1>1. n \in Nat /\ r \in 0 .. 3 /\ i = 4 * n - 3 + r
  OBVIOUS
<1> HIDE DEF n, r
<1>2. n \in 1 .. h
  BY <1>1
<1>3. i % 2 = IF r = 0 \/ r = 2 THEN 1 ELSE 0
  BY <1>1
<1>4. Partner(i) = IF r = 0 THEN 4 * n - 2 ELSE IF r = 1 THEN 4 * n - 3
                   ELSE IF r = 2 THEN 4 * n ELSE 4 * n - 1
  BY <1>1, <1>3 DEF Partner
<1> QED
  BY <1>1, <1>2, <1>4 DEF n, r

\* 2 bits per component.
LEMMA Decoded2 ==
  ASSUME NEW buf \in Seq(Byte), NEW h \in Nat, Len(buf) = 4 * h
  PROVE  Decoded(FileBytes(buf, 2), 2) = Voltages(buf, 2)
<1> DEFINE bytes == FileBytes(buf, 2)
           perByte == 8 \div 2
           field(i) == (bytes[(i - 1) \div perByte + 1]
                          \div 2^(2 * ((i - 1) % perByte))) % 2^2
<1>1. /\ Len(buf) \in Nat /\ (Len(buf) * 2) \div 8 = h
      /\ 8 \div 2 = 4 /\ 8 - 2 = 6 /\ 2 - 1 = 1 /\ 2 * 0 = 0 /\ 2 * 1 = 2 /\ 2 * 2 = 4 /\ 2 * 3 = 6
  OBVIOUS
<1>2. bytes = [j \in 1 .. h |-> Quantize2(buf)[j]] /\ Len(bytes) = h
  BY <1>1 DEF FileBytes, Quantized
<1>3. Decoded(bytes, 2) = [i \in 1 .. Len(bytes) * perByte |->
                             IF field(i) >= 2^(2 - 1) THEN field(i) - 2^2 ELSE field(i)]
  BY DEF Decoded
<1>4. Len(bytes) * perByte = Len(buf)
  BY <1>1, <1>2
<1> HIDE DEF bytes
<1>5. ASSUME NEW i \in 1 .. Len(buf)
      PROVE  /\ Partner(i) = IF i % 2 = 1 THEN i + 1 ELSE i - 1
             /\ (IF field(i) >= 2^(2 - 1) THEN field(i) - 2^2 ELSE field(i))
                  = (buf[Partner(i)] - 128) \div 2^(8 - 2)
  <2> DEFINE n == (i - 1) \div 4 + 1
             r == (i - 1) % 4
             x == buf[Partner(i)]
             a == TopBits(buf[4 * n - 2])
             b == TopBits(buf[4 * n - 3])
             c == TopBits(buf[4 * n])
             d == TopBits(buf[4 * n - 1])
             f == TopBits(x)
  <2>1. /\ n \in 1 .. h /\ r \in 0 .. 3
        /\ Partner(i) = IF r = 0 THEN 4 * n - 2 ELSE IF r = 1 THEN 4 * n - 3
                        ELSE IF r = 2 THEN 4 * n ELSE 4 * n - 1
    BY FourOf
  <2>2. field(i) = (bytes[n] \div 2^(2 * r)) % 2^2
    BY <1>1
  <2> HIDE DEF n, r
  <2>3. bytes[n] = a + 4 * b + 16 * c + 64 * d
    BY <1>2, <2>1, Scalar2At
  <2>4. /\ 4 * n - 3 \in 1 .. Len(buf) /\ 4 * n - 2 \in 1 .. Len(buf)
        /\ 4 * n - 1 \in 1 .. Len(buf) /\ 4 * n \in 1 .. Len(buf)
    BY <2>1
  <2>5. /\ buf[4 * n - 3] \in Byte /\ buf[4 * n - 2] \in Byte
        /\ buf[4 * n - 1] \in Byte /\ buf[4 * n] \in Byte /\ x \in Byte
    BY <2>1, <2>4
  <2>6. a \in 0 .. 3 /\ b \in 0 .. 3 /\ c \in 0 .. 3 /\ d \in 0 .. 3
    BY <2>5, Component2
  <2>7. f = IF r = 0 THEN a ELSE IF r = 1 THEN b ELSE IF r = 2 THEN c ELSE d
    BY <2>1
  <2>8. field(i) = (bytes[n] \div (IF r = 0 THEN 1 ELSE IF r = 1 THEN 4 ELSE IF r = 2 THEN 16 ELSE 64)) % 4
    <3>1. 2^2 = 4 /\ 2^0 = 1 /\ 2^4 = 16 /\ 2^6 = 64
      BY SmallPowers
    <3> DEFINE e == 2 * r
    <3>2. /\ r = 0 => e = 0
          /\ r = 1 => e = 2
          /\ r = 2 => e = 4
          /\ r = 3 => e = 6
      OBVIOUS
    <3>3. field(i) = (bytes[n] \div 2^e) % 2^2
      BY <2>2
    <3> HIDE DEF e, field
    <3>4. 2^e = IF r = 0 THEN 1 ELSE IF r = 1 THEN 4 ELSE IF r = 2 THEN 16 ELSE 64
      <4>1. CASE r = 0
        BY <3>1, <3>2, <4>1
      <4>2. CASE r = 1
        BY <3>1, <3>2, <4>2
      <4>3. CASE r = 2
        BY <3>1, <3>2, <4>3
      <4>4. CASE r = 3
        BY <3>1, <3>2, <4>4
      <4> QED
        BY <2>1, <4>1, <4>2, <4>3, <4>4
    <3> QED
      BY <3>1, <3>3, <3>4
  <2> HIDE DEF x, a, b, c, d, f, field
  <2>9. field(i) = f
    <3> DEFINE y == a + 4 * b + 16 * c + 64 * d
    <3>1. (y \div 1) % 4 = a
      BY <2>6
    <3>2. (y \div 4) % 4 = b
      BY <2>6
    <3>3. (y \div 16) % 4 = c
      BY <2>6
    <3>4. (y \div 64) % 4 = d
      BY <2>6
    <3>5. bytes[n] = y
      BY <2>3
    <3> HIDE DEF y
    <3> QED
      BY <2>1, <2>7, <2>8, <3>1, <3>2, <3>3, <3>4, <3>5
  <2>10. (IF f >= 2 THEN f - 4 ELSE f) = (x - 128) \div 64
    BY <2>5, Component2 DEF f
  <2> QED
    BY <1>1, <2>9, <2>10, SmallPowers DEF x, Partner
<1> HIDE DEF field
<1>6. Voltages(buf, 2) = [i \in 1 .. Len(buf) |-> (buf[Partner(i)] - 128) \div 2^(8 - 2)]
  BY DEF Voltages, Partner
<1>7. Decoded(bytes, 2) = [i \in 1 .. Len(buf) |-> (buf[Partner(i)] - 128) \div 2^(8 - 2)]
  BY <1>3, <1>4, <1>5
<1> QED
  BY <1>6, <1>7 DEF bytes

\* A reader gets the most significant bits of the voltages back.
LEMMA DecodedRight ==
  ASSUME NEW d \in BitDepths, NEW buf \in Seq(Byte), Len(buf) = FramePayload
  PROVE  Decoded(FileBytes(buf, d), d) = Voltages(buf, d)
<1>1. d \in {8, 4, 2}
  BY PayloadParts
<1>2. PICK l \in Nat : FramePayload = 2 * l
  BY PayloadParts
<1>3. CASE d = 8
  BY <1>2, <1>3, Decoded8
<1>4. CASE d = 4
  BY <1>2, <1>4, Decoded4
<1>5. CASE d = 2
  <2>1. PICK h \in Nat : FramePayload = 4 * h
    BY <1>5, PayloadParts
  <2> QED
    BY <1>5, <2>1, Decoded2
<1> QED
  BY <1>1, <1>3, <1>4, <1>5

USE CapacityAssumption, SizeFits, IndexAssumption

(***************************************************************************)
(* The inductive invariant.                                                *)
(***************************************************************************)
\* Items stored and not fetched: the distance of two counters that wrap.
Stored == IF nextSlot >= nextItem THEN nextSlot - nextItem
                                  ELSE nextSlot - nextItem + IndexRange

\* Has the thread copied its item and not told the other one yet?  Has it a
\* claim on an item or a slot that it has not used?  Is it about to wake the
\* other one?
Unsignalled(t) == IF pc[t] = "signal" THEN 1 ELSE 0
Claimed(t) == IF pc[t] \in {"sleep", "copy"} THEN 1 ELSE 0
Waking(t) == IF pc[t] = "wake" THEN 1 ELSE 0

Labels == {"work", "try", "take", "block", "sleep", "copy", "signal", "wake"}

BufferTypes ==
  /\ count \in [Semaphores -> Int] /\ sema \in [Semaphores -> Nat]
  /\ pc \in [Threads -> Labels]
  /\ nextSlot \in 0 .. IndexRange - 1 /\ nextItem \in 0 .. IndexRange - 1
  /\ Stored \in 0 .. Capacity

\* The counts tell the items and the free slots that no thread has claimed.
Counts ==
  /\ count["items"] = Stored - Unsignalled("producer") - Claimed("consumer")
  /\ count["slots"] = Capacity - Stored - Unsignalled("consumer") - Claimed("producer")

\* A thread t on its semaphore, which the thread o signals: a count seen
\* positive stays so, and there is a wake-up under way for a sleeper exactly
\* when the count is not negative.
Waiting(t, o) ==
  LET c == count[Waits(t)]
      tokens == sema[Waits(t)] + Waking(o)
  IN /\ pc[t] = "take" => c > 0
     /\ pc[t] # "sleep" => tokens = 0 /\ c >= 0
     /\ pc[t] = "sleep" => \/ c = -1 /\ tokens = 0
                           \/ c >= 0 /\ tokens = 1

BufferInv == /\ BufferTypes
             /\ Counts
             /\ Waiting("producer", "consumer")
             /\ Waiting("consumer", "producer")

\* The batch the producer filled a batches before it came to batch i.
Back(i, a) == IF a <= i THEN i - a ELSE i - a + PoolSize

\* The buffer holds the last batches in order, and the recorder the one
\* before them.
Contents ==
  /\ data \in [0 .. Size - 1 -> PoolIdx \cup {NoItem}]
  /\ pool_idx \in PoolIdx
  /\ \A k \in 0 .. Stored - 1 : data[(nextItem + k) % Size] = Back(pool_idx, Stored - k)
  /\ held # NoItem => held = Back(pool_idx, Stored + 1)

\* Parts that were not created yet are empty.
PartsLater ==
  /\ file_index \in Nat /\ fd \in Nat /\ fd < file_index
  /\ \A p \in Parts : p >= file_index => part[p] = <<>>

\* What the files are made of; how long a write is.
IsSeq(s) == \E T : s \in Seq(T)

Files == /\ part = [p \in Parts |-> part[p]]
         /\ \A p \in Parts : IsSeq(part[p])
         /\ bits \in BitDepths /\ done \in Int

RecorderInv == BufferInv /\ Contents /\ PartsLater /\ Files

(***************************************************************************)
(* Counters modulo IndexRange and slots modulo Size.                       *)
(***************************************************************************)
\* A counter of type std::size_t.
LEMMA AdvanceFacts ==
  ASSUME NEW i \in 0 .. IndexRange - 1
  PROVE  Advance(i) = IF i + 1 = IndexRange THEN 0 ELSE i + 1
<1>1. CASE i + 1 = IndexRange
  <2>1. i + 1 = IndexRange * 1 + 0 /\ i + 1 \in Int /\ 0 \in 0 .. IndexRange - 1
    BY <1>1
  <2>2. (i + 1) % IndexRange = 0
    BY <2>1, ModUnique
  <2> QED
    BY <1>1, <2>2 DEF Advance
<1>2. CASE i + 1 # IndexRange
  <2>1. i + 1 = IndexRange * 0 + (i + 1) /\ i + 1 \in 0 .. IndexRange - 1
    BY <1>2
  <2>2. (i + 1) % IndexRange = i + 1
    BY <2>1, ModUnique
  <2> QED
    BY <1>2, <2>2 DEF Advance
<1> QED
  BY <1>1, <1>2

\* The slot of a counter does not change when the counter wraps.
LEMMA SlotWraps ==
  ASSUME NEW x \in Int
  PROVE  /\ x % Size \in 0 .. Size - 1
         /\ (x + IndexRange) % Size = x % Size
<1> DEFINE q == x \div Size
           r == x % Size
           k == IndexRange \div Size
<1>1. q \in Int /\ r \in 0 .. Size - 1 /\ x = q * Size + r
  BY DivMod
<1>2. k \in Int /\ IndexRange = k * Size
  <2>1. IndexRange \in Int /\ Size \in Int /\ Size > 0 /\ IndexRange % Size = 0
    OBVIOUS
  <2>2. k \in Int /\ IndexRange = k * Size + (IndexRange % Size)
    BY ONLY <2>1, DivMod DEF k
  <2> HIDE DEF k
  <2> DEFINE m == k * Size
  <2>3. m \in Int
    BY <2>1, <2>2
  <2>4. IndexRange = m + (IndexRange % Size)
    BY <2>2
  <2> HIDE DEF m
  <2>5. IndexRange = m
    BY ONLY <2>1, <2>3, <2>4
  <2> QED
    BY ONLY <2>2, <2>5 DEF m
<1> HIDE DEF q, r, k
<1>3. x + IndexRange = Size * (q + k) + r /\ q + k \in Int
  BY <1>1, <1>2
<1>4. (x + IndexRange) % Size = r
  <2>1. x + IndexRange \in Int /\ Size \in Int /\ Size > 0
    OBVIOUS
  <2> QED
    BY ONLY <1>1, <1>3, <2>1, ModUnique
<1> QED
  BY <1>1, <1>4 DEF r

\* Fewer than Size counters in a row have different slots.
LEMMA SlotsDiffer ==
  ASSUME NEW x \in Int, NEW y \in Int, x < y, y < x + Size
  PROVE  x % Size # y % Size
<1> SUFFICES ASSUME x % Size = y % Size PROVE FALSE
  OBVIOUS
<1> DEFINE a == x \div Size
           b == y \div Size
           r == x % Size
<1>1. a \in Int /\ b \in Int /\ r \in Int /\ x = a * Size + r /\ y = b * Size + r
  BY DivMod
<1> HIDE DEF a, b, r
<1>2. CASE b <= a
  <2>1. b * Size <= a * Size
    BY <1>1, <1>2
  <2> QED
    BY <1>1, <2>1
<1>3. CASE b > a
  <2>1. b * Size >= (a + 1) * Size /\ (a + 1) * Size = a * Size + Size
    BY <1>1, <1>3
  <2> QED
    BY <1>1, <2>1
<1> QED
  BY <1>1, <1>2, <1>3

\* The slot behind the last item stored.
LEMMA NextSlotFollows ==
  ASSUME BufferTypes
  PROVE  nextSlot % Size = (nextItem + Stored) % Size
<1>1. nextSlot \in Int /\ nextItem \in Int
  BY DEF BufferTypes
<1>2. CASE nextSlot >= nextItem
  <2>1. nextItem + Stored = nextSlot
    BY <1>1, <1>2 DEF Stored
  <2> QED
    BY <2>1
<1>3. CASE ~(nextSlot >= nextItem)
  <2>1. nextItem + Stored = nextSlot + IndexRange
    BY <1>1, <1>3 DEF Stored
  <2> QED
    BY <1>1, <2>1, SlotWraps
<1> QED
  BY <1>2, <1>3

\* Storing and fetching move the distance by one.
LEMMA StoredMoves ==
  ASSUME BufferTypes
  PROVE  /\ nextSlot' = Advance(nextSlot) /\ nextItem' = nextItem /\ Stored < Capacity =>
              Stored' = Stored + 1 /\ nextSlot' \in 0 .. IndexRange - 1
         /\ nextItem' = Advance(nextItem) /\ nextSlot' = nextSlot /\ Stored > 0 =>
              Stored' = Stored - 1 /\ nextItem' \in 0 .. IndexRange - 1
         /\ nextItem' = nextItem /\ nextSlot' = nextSlot => Stored' = Stored
<1>1. /\ nextSlot \in 0 .. IndexRange - 1 /\ nextItem \in 0 .. IndexRange - 1
      /\ Advance(nextSlot) = IF nextSlot + 1 = IndexRange THEN 0 ELSE nextSlot + 1
      /\ Advance(nextItem) = IF nextItem + 1 = IndexRange THEN 0 ELSE nextItem + 1
  BY AdvanceFacts DEF BufferTypes
<1> QED
  BY <1>1 DEF Stored

(***************************************************************************)
(* The semaphores.                                                         *)
(***************************************************************************)

\* Reading the count.
LEMMA LoadStep ==
  ASSUME BufferInv, NEW t \in Threads, Load(t)
  PROVE  BufferInv'
<1>1. Stored' = Stored /\ nextSlot' = nextSlot /\ nextItem' = nextItem
  BY StoredMoves DEF BufferInv, Load
<1>2. BufferTypes'
  BY <1>1 DEF BufferInv, BufferTypes, Load, semVars, Threads, Semaphores, Waits, Signals, Labels
<1>3. CASE t = "producer"
  <2>1. Counts'
    BY <1>1, <1>3 DEF BufferInv, BufferTypes, Counts, Load, semVars, Threads, Semaphores, Waits,
       Signals, Labels, Unsignalled, Claimed, Waiting, Waking
  <2>2. Waiting("producer", "consumer")' /\ Waiting("consumer", "producer")'
    BY <1>1, <1>3 DEF BufferInv, BufferTypes, Counts, Load, semVars, Threads, Semaphores, Waits,
       Signals, Labels, Unsignalled, Claimed, Waiting, Waking
  <2> QED
    BY <1>2, <2>1, <2>2 DEF BufferInv
<1>4. CASE t = "consumer"
  <2>1. Counts'
    BY <1>1, <1>4 DEF BufferInv, BufferTypes, Counts, Load, semVars, Threads, Semaphores, Waits,
       Signals, Labels, Unsignalled, Claimed, Waiting, Waking
  <2>2. Waiting("producer", "consumer")' /\ Waiting("consumer", "producer")'
    BY <1>1, <1>4 DEF BufferInv, BufferTypes, Counts, Load, semVars, Threads, Semaphores, Waits,
       Signals, Labels, Unsignalled, Claimed, Waiting, Waking
  <2> QED
    BY <1>2, <2>1, <2>2 DEF BufferInv
<1> QED
  BY <1>3, <1>4 DEF Threads

\* Claiming an item or a slot.
LEMMA DecrementStep ==
  ASSUME BufferInv, NEW t \in Threads, Decrement(t)
  PROVE  BufferInv'
<1>1. Stored' = Stored /\ nextSlot' = nextSlot /\ nextItem' = nextItem
  BY StoredMoves DEF BufferInv, Decrement
<1>2. BufferTypes'
  BY <1>1 DEF BufferInv, BufferTypes, Decrement, semVars, Threads, Semaphores, Waits, Signals, Labels
<1>3. CASE t = "producer"
  <2>1. Counts'
    <3>1. /\ count'["slots"] = count["slots"] - 1 /\ count'["items"] = count["items"]
          /\ pc'["producer"] \in {"copy", "sleep"} /\ pc["producer"] \in {"take", "block"}
          /\ pc'["consumer"] = pc["consumer"]
      BY <1>3 DEF BufferInv, BufferTypes, Decrement, Threads, Semaphores, Waits
    <3> QED
      BY <1>1, <3>1 DEF BufferInv, BufferTypes, Counts, Threads, Semaphores, Unsignalled, Claimed
  <2>2. Waiting("producer", "consumer")' /\ Waiting("consumer", "producer")'
    BY <1>1, <1>3 DEF BufferInv, BufferTypes, Counts, Decrement, semVars, Threads, Semaphores, Waits,
       Signals, Labels, Unsignalled, Claimed, Waiting, Waking
  <2> QED
    BY <1>2, <2>1, <2>2 DEF BufferInv
<1>4. CASE t = "consumer"
  <2>1. Counts'
    BY <1>1, <1>4 DEF BufferInv, BufferTypes, Counts, Decrement, semVars, Threads, Semaphores, Waits,
       Signals, Labels, Unsignalled, Claimed, Waiting, Waking
  <2>2. Waiting("producer", "consumer")' /\ Waiting("consumer", "producer")'
    BY <1>1, <1>4 DEF BufferInv, BufferTypes, Counts, Decrement, semVars, Threads, Semaphores, Waits,
       Signals, Labels, Unsignalled, Claimed, Waiting, Waking
  <2> QED
    BY <1>2, <2>1, <2>2 DEF BufferInv
<1> QED
  BY <1>3, <1>4 DEF Threads

\* Waking up.
LEMMA SleepStep ==
  ASSUME BufferInv, NEW t \in Threads, Sleep(t)
  PROVE  BufferInv'
<1>1. Stored' = Stored /\ nextSlot' = nextSlot /\ nextItem' = nextItem
  BY StoredMoves DEF BufferInv, Sleep
<1>2. BufferTypes'
  BY <1>1 DEF BufferInv, BufferTypes, Sleep, semVars, Threads, Semaphores, Waits, Signals, Labels
<1>3. CASE t = "producer"
  <2>1. Counts'
    BY <1>1, <1>3 DEF BufferInv, BufferTypes, Counts, Sleep, semVars, Threads, Semaphores, Waits,
       Signals, Labels, Unsignalled, Claimed, Waiting, Waking
  <2>2. Waiting("producer", "consumer")' /\ Waiting("consumer", "producer")'
    BY <1>1, <1>3 DEF BufferInv, BufferTypes, Counts, Sleep, semVars, Threads, Semaphores, Waits,
       Signals, Labels, Unsignalled, Claimed, Waiting, Waking
  <2> QED
    BY <1>2, <2>1, <2>2 DEF BufferInv
<1>4. CASE t = "consumer"
  <2>1. Counts'
    BY <1>1, <1>4 DEF BufferInv, BufferTypes, Counts, Sleep, semVars, Threads, Semaphores, Waits,
       Signals, Labels, Unsignalled, Claimed, Waiting, Waking
  <2>2. Waiting("producer", "consumer")' /\ Waiting("consumer", "producer")'
    BY <1>1, <1>4 DEF BufferInv, BufferTypes, Counts, Sleep, semVars, Threads, Semaphores, Waits,
       Signals, Labels, Unsignalled, Claimed, Waiting, Waking
  <2> QED
    BY <1>2, <2>1, <2>2 DEF BufferInv
<1> QED
  BY <1>3, <1>4 DEF Threads

\* Telling the other thread.
LEMMA SignalStep ==
  ASSUME BufferInv, NEW t \in Threads, Signal(t)
  PROVE  BufferInv'
<1>1. Stored' = Stored /\ nextSlot' = nextSlot /\ nextItem' = nextItem
  BY StoredMoves DEF BufferInv, Signal
<1>2. BufferTypes'
  BY <1>1 DEF BufferInv, BufferTypes, Signal, semVars, Threads, Semaphores, Waits, Signals, Labels
<1>3. CASE t = "producer"
  <2>1. Counts'
    BY <1>1, <1>3 DEF BufferInv, BufferTypes, Counts, Signal, semVars, Threads, Semaphores, Waits,
       Signals, Labels, Unsignalled, Claimed, Waiting, Waking
  <2>2. Waiting("producer", "consumer")' /\ Waiting("consumer", "producer")'
    BY <1>1, <1>3 DEF BufferInv, BufferTypes, Counts, Signal, semVars, Threads, Semaphores, Waits,
       Signals, Labels, Unsignalled, Claimed, Waiting, Waking
  <2> QED
    BY <1>2, <2>1, <2>2 DEF BufferInv
<1>4. CASE t = "consumer"
  <2>1. Counts'
    BY <1>1, <1>4 DEF BufferInv, BufferTypes, Counts, Signal, semVars, Threads, Semaphores, Waits,
       Signals, Labels, Unsignalled, Claimed, Waiting, Waking
  <2>2. Waiting("producer", "consumer")' /\ Waiting("consumer", "producer")'
    BY <1>1, <1>4 DEF BufferInv, BufferTypes, Counts, Signal, semVars, Threads, Semaphores, Waits,
       Signals, Labels, Unsignalled, Claimed, Waiting, Waking
  <2> QED
    BY <1>2, <2>1, <2>2 DEF BufferInv
<1> QED
  BY <1>3, <1>4 DEF Threads

\* Waking the other thread.
LEMMA WakeStep ==
  ASSUME BufferInv, NEW t \in Threads, Wake(t)
  PROVE  BufferInv'
<1>1. Stored' = Stored /\ nextSlot' = nextSlot /\ nextItem' = nextItem
  BY StoredMoves DEF BufferInv, Wake
<1>2. BufferTypes'
  BY <1>1 DEF BufferInv, BufferTypes, Wake, semVars, Threads, Semaphores, Waits, Signals, Labels
<1>3. CASE t = "producer"
  <2>1. Counts'
    BY <1>1, <1>3 DEF BufferInv, BufferTypes, Counts, Wake, semVars, Threads, Semaphores, Waits,
       Signals, Labels, Unsignalled, Claimed, Waiting, Waking
  <2>2. Waiting("producer", "consumer")' /\ Waiting("consumer", "producer")'
    BY <1>1, <1>3 DEF BufferInv, BufferTypes, Counts, Wake, semVars, Threads, Semaphores, Waits,
       Signals, Labels, Unsignalled, Claimed, Waiting, Waking
  <2> QED
    BY <1>2, <2>1, <2>2 DEF BufferInv
<1>4. CASE t = "consumer"
  <2>1. Counts'
    BY <1>1, <1>4 DEF BufferInv, BufferTypes, Counts, Wake, semVars, Threads, Semaphores, Waits,
       Signals, Labels, Unsignalled, Claimed, Waiting, Waking
  <2>2. Waiting("producer", "consumer")' /\ Waiting("consumer", "producer")'
    BY <1>1, <1>4 DEF BufferInv, BufferTypes, Counts, Wake, semVars, Threads, Semaphores, Waits,
       Signals, Labels, Unsignalled, Claimed, Waiting, Waking
  <2> QED
    BY <1>2, <2>1, <2>2 DEF BufferInv
<1> QED
  BY <1>3, <1>4 DEF Threads

\* Calling the buffer.
LEMMA EnterStep ==
  ASSUME BufferInv, NEW t \in Threads, Enter(t)
  PROVE  BufferInv'
<1>1. Stored' = Stored /\ nextSlot' = nextSlot /\ nextItem' = nextItem
  BY StoredMoves DEF BufferInv, Enter
<1>2. BufferTypes'
  BY <1>1 DEF BufferInv, BufferTypes, Enter, semVars, Threads, Semaphores, Waits, Signals, Labels
<1>3. CASE t = "producer"
  <2>1. Counts'
    BY <1>1, <1>3 DEF BufferInv, BufferTypes, Counts, Enter, semVars, Threads, Semaphores, Waits,
       Signals, Labels, Unsignalled, Claimed, Waiting, Waking
  <2>2. Waiting("producer", "consumer")' /\ Waiting("consumer", "producer")'
    BY <1>1, <1>3 DEF BufferInv, BufferTypes, Counts, Enter, semVars, Threads, Semaphores, Waits,
       Signals, Labels, Unsignalled, Claimed, Waiting, Waking
  <2> QED
    BY <1>2, <2>1, <2>2 DEF BufferInv
<1>4. CASE t = "consumer"
  <2>1. Counts'
    BY <1>1, <1>4 DEF BufferInv, BufferTypes, Counts, Enter, semVars, Threads, Semaphores, Waits,
       Signals, Labels, Unsignalled, Claimed, Waiting, Waking
  <2>2. Waiting("producer", "consumer")' /\ Waiting("consumer", "producer")'
    BY <1>1, <1>4 DEF BufferInv, BufferTypes, Counts, Enter, semVars, Threads, Semaphores, Waits,
       Signals, Labels, Unsignalled, Claimed, Waiting, Waking
  <2> QED
    BY <1>2, <2>1, <2>2 DEF BufferInv
<1> QED
  BY <1>3, <1>4 DEF Threads

\* A thread that copies has room for the item, or an item to take.
LEMMA Room ==
  ASSUME BufferInv
  PROVE  /\ pc["producer"] = "copy" => Stored < Capacity
         /\ pc["consumer"] = "copy" => Stored > 0
         /\ pc["producer"] = "signal" => Stored > 0
  BY DEF BufferInv, BufferTypes, Counts, Threads, Semaphores, Waits, Unsignalled, Claimed,
     Waiting, Waking

\* Storing an item.
LEMMA StoreStep ==
  ASSUME BufferInv, NEW x, Store(x)
  PROVE  BufferInv' /\ Stored' = Stored + 1
<1>1. /\ Stored' = Stored + 1 /\ nextSlot' \in 0 .. IndexRange - 1 /\ nextItem' = nextItem
      /\ Stored < Capacity
  BY StoredMoves, Room DEF BufferInv, Store
<1>2. /\ count' = count /\ sema' = sema
      /\ pc["producer"] = "copy" /\ pc'["producer"] = "signal"
      /\ pc'["consumer"] = pc["consumer"]
  BY DEF BufferInv, BufferTypes, Store, semVars, Threads
<1>3. BufferTypes'
  BY <1>1 DEF BufferInv, BufferTypes, Store, semVars, Threads, Labels
<1>4. Counts'
  BY <1>1, <1>2 DEF BufferInv, BufferTypes, Counts, Semaphores, Unsignalled, Claimed
<1>5. Waiting("producer", "consumer")' /\ Waiting("consumer", "producer")'
  BY <1>2 DEF BufferInv, BufferTypes, Semaphores, Waits, Waiting, Waking
<1> QED
  BY <1>1, <1>3, <1>4, <1>5 DEF BufferInv

\* Fetching an item.
LEMMA FetchStep ==
  ASSUME BufferInv, Fetch
  PROVE  BufferInv' /\ Stored' = Stored - 1
<1>1. /\ Stored' = Stored - 1 /\ nextItem' \in 0 .. IndexRange - 1 /\ nextSlot' = nextSlot
      /\ Stored > 0
  BY StoredMoves, Room DEF BufferInv, Fetch
<1>2. /\ count' = count /\ sema' = sema
      /\ pc["consumer"] = "copy" /\ pc'["consumer"] = "signal"
      /\ pc'["producer"] = pc["producer"]
  BY DEF BufferInv, BufferTypes, Fetch, semVars, Threads
<1>3. BufferTypes'
  BY <1>1 DEF BufferInv, BufferTypes, Fetch, semVars, Threads, Labels
<1>4. Counts'
  BY <1>1, <1>2 DEF BufferInv, BufferTypes, Counts, Semaphores, Unsignalled, Claimed
<1>5. Waiting("producer", "consumer")' /\ Waiting("consumer", "producer")'
  BY <1>2 DEF BufferInv, BufferTypes, Semaphores, Waits, Waiting, Waking
<1> QED
  BY <1>1, <1>3, <1>4, <1>5 DEF BufferInv

\* The buffer as its constructor leaves it.
LEMMA BufferStarts ==
  ASSUME BufferInit
  PROVE  BufferInv /\ Stored = 0
<1>1. Stored = 0
  BY DEF BufferInit, Stored
<1>2. /\ count["items"] = 0 /\ count["slots"] = Capacity
      /\ sema["items"] = 0 /\ sema["slots"] = 0
      /\ pc["producer"] = "work" /\ pc["consumer"] = "work"
  BY DEF BufferInit, Semaphores, Threads
<1>3. BufferTypes
  BY <1>1 DEF BufferInit, BufferTypes, Semaphores, Threads, Labels
<1>4. Counts
  <2>1. /\ Unsignalled("producer") = 0 /\ Unsignalled("consumer") = 0
        /\ Claimed("producer") = 0 /\ Claimed("consumer") = 0
    BY <1>2 DEF Unsignalled, Claimed
  <2> QED
    BY <1>1, <1>2, <2>1 DEF Counts
<1>5. Waiting("producer", "consumer")
  BY <1>2 DEF Waiting, Waits, Waking
<1>6. Waiting("consumer", "producer")
  BY <1>2 DEF Waiting, Waits, Waking
<1> QED
  BY <1>1, <1>3, <1>4, <1>5, <1>6 DEF BufferInv

(***************************************************************************)
(* The batches in the buffer.                                              *)
(***************************************************************************)
\* Going back in the pool: different batches for different ages, and the
\* step of recv2mem to the next batch makes each one older by one.
LEMMA BackFacts ==
  ASSUME pool_idx \in PoolIdx
  PROVE  /\ PoolSize \in Nat /\ PoolSize = Capacity + 2
         /\ \A a \in 0 .. PoolSize - 1 : Back(pool_idx, a) \in PoolIdx
         /\ \A a \in 1 .. PoolSize - 1 : Back(pool_idx, a) # pool_idx
         /\ pool_idx' = pool_idx => \A a \in 0 .. PoolSize - 1 : Back(pool_idx', a) = Back(pool_idx, a)
         /\ pool_idx' = (pool_idx + 1) % PoolSize =>
              /\ pool_idx' \in PoolIdx
              /\ Back(pool_idx', 1) = pool_idx
              /\ \A a \in 1 .. PoolSize - 2 : Back(pool_idx', a + 1) = Back(pool_idx, a)
<1>1. PoolSize \in Nat /\ PoolSize = Capacity + 2
  BY DEF PoolSize
<1>2. \A a \in 0 .. PoolSize - 1 : Back(pool_idx, a) \in PoolIdx
  BY <1>1 DEF PoolIdx, Back
<1>3. \A a \in 1 .. PoolSize - 1 : Back(pool_idx, a) # pool_idx
  BY <1>1 DEF PoolIdx, Back
<1>4. pool_idx' = pool_idx => \A a \in 0 .. PoolSize - 1 : Back(pool_idx', a) = Back(pool_idx, a)
  BY DEF Back
<1>5. ASSUME pool_idx' = (pool_idx + 1) % PoolSize
      PROVE  /\ pool_idx' \in PoolIdx
             /\ Back(pool_idx', 1) = pool_idx
             /\ \A a \in 1 .. PoolSize - 2 : Back(pool_idx', a + 1) = Back(pool_idx, a)
  <2>1. pool_idx' = IF pool_idx + 1 = PoolSize THEN 0 ELSE pool_idx + 1
    <3>1. CASE pool_idx + 1 = PoolSize
      <4>1. /\ pool_idx + 1 = PoolSize * 1 + 0 /\ pool_idx + 1 \in Int
            /\ 0 \in 0 .. PoolSize - 1 /\ PoolSize \in Int /\ PoolSize > 0
        BY <1>1, <3>1
      <4> QED
        BY <3>1, <4>1, <1>5, ModUnique
    <3>2. CASE pool_idx + 1 # PoolSize
      <4>1. /\ pool_idx + 1 = PoolSize * 0 + (pool_idx + 1)
            /\ pool_idx + 1 \in 0 .. PoolSize - 1 /\ PoolSize \in Int /\ PoolSize > 0
        BY <1>1, <3>2 DEF PoolIdx
      <4> QED
        BY <3>2, <4>1, <1>5, ModUnique
    <3> QED
      BY <3>1, <3>2
  <2>2. pool_idx \in 0 .. PoolSize - 1
    BY DEF PoolIdx
  <2>3. pool_idx' \in PoolIdx /\ Back(pool_idx', 1) = pool_idx
    BY <1>1, <2>1, <2>2 DEF PoolIdx, Back
  <2>4. ASSUME NEW a \in 1 .. PoolSize - 2
        PROVE  Back(pool_idx', a + 1) = Back(pool_idx, a)
    BY <1>1, <2>1, <2>2 DEF Back
  <2> QED
    BY <2>3, <2>4
<1> QED
  BY <1>1, <1>2, <1>3, <1>4, <1>5

\* A step that leaves the buffer and the pool alone, and at most drops the
\* batch that was held.
LEMMA ContentsKept ==
  ASSUME BufferInv, Contents, Stored' = Stored, nextItem' = nextItem, data' = data,
         pool_idx' = pool_idx, held' = held \/ held' = NoItem
  PROVE  Contents'
<1>1. /\ PoolSize = Capacity + 2 /\ Stored \in 0 .. Capacity
      /\ \A a \in 0 .. PoolSize - 1 : Back(pool_idx', a) = Back(pool_idx, a)
  BY BackFacts DEF Contents, BufferInv, BufferTypes
<1>2. (\A k \in 0 .. Stored - 1 : data[(nextItem + k) % Size] = Back(pool_idx, Stored - k))'
  BY <1>1 DEF Contents
<1>3. (held # NoItem => held = Back(pool_idx, Stored + 1))'
  BY <1>1 DEF Contents
<1> QED
  BY <1>2, <1>3 DEF Contents, PoolIdx

\* recv2mem puts its batch behind the others.
LEMMA ContentsPublish ==
  ASSUME BufferInv, Contents, Publish
  PROVE  BufferInv' /\ Contents'
<1>1. /\ BufferInv' /\ Stored' = Stored + 1 /\ nextItem' = nextItem /\ held' = held
      /\ Stored \in 0 .. Capacity - 1 /\ nextItem \in Int
  <2>1. Store(pool_idx) /\ held' = held
    BY DEF Publish, recorderVars
  <2>2. Stored < Capacity
    BY <2>1, Room DEF Store
  <2>3. BufferInv' /\ Stored' = Stored + 1
    BY <2>1, StoreStep
  <2>4. Stored \in 0 .. Capacity /\ nextItem \in Int
    BY DEF BufferInv, BufferTypes
  <2> QED
    BY <2>1, <2>2, <2>3, <2>4 DEF Store
<1>2. /\ PoolSize = Capacity + 2
      /\ pool_idx' \in PoolIdx /\ Back(pool_idx', 1) = pool_idx
      /\ \A a \in 1 .. PoolSize - 2 : Back(pool_idx', a + 1) = Back(pool_idx, a)
  BY BackFacts DEF Contents, Publish
<1>3. /\ data' = [data EXCEPT ![nextSlot % Size] = pool_idx]
      /\ nextSlot % Size = (nextItem + Stored) % Size /\ nextSlot % Size \in 0 .. Size - 1
  <2>1. BufferTypes /\ nextSlot \in Int
    BY DEF BufferInv, BufferTypes
  <2>2. nextSlot % Size \in 0 .. Size - 1
    BY <2>1, SlotWraps
  <2>3. nextSlot % Size = (nextItem + Stored) % Size
    BY <2>1, NextSlotFollows
  <2> QED
    BY <2>2, <2>3 DEF Publish, Store
<1>4. data' \in [0 .. Size - 1 -> PoolIdx \cup {NoItem}]
  BY <1>3 DEF Contents
<1>5. ASSUME NEW k \in 0 .. Stored
      PROVE  data'[(nextItem + k) % Size] = Back(pool_idx', Stored + 1 - k)
  <2>1. CASE k = Stored
    <3>1. data'[(nextItem + Stored) % Size] = pool_idx
      BY <1>3 DEF Contents
    <3>2. Stored + 1 - k = 1
      BY <1>1, <2>1
    <3> QED
      BY <1>2, <2>1, <3>1, <3>2
  <2>2. CASE k # Stored
    <3>1. /\ nextItem + k \in Int /\ nextItem + Stored \in Int
          /\ nextItem + k < nextItem + Stored /\ nextItem + Stored < nextItem + k + Size
          /\ k \in 0 .. Stored - 1 /\ Stored - k \in 1 .. PoolSize - 2
      BY <1>1, <1>2, <2>2
    <3>2. (nextItem + k) % Size # (nextItem + Stored) % Size
      BY <3>1, SlotsDiffer
    <3>3. (nextItem + k) % Size \in 0 .. Size - 1
      BY <3>1, SlotWraps
    <3>4. data'[(nextItem + k) % Size] = data[(nextItem + k) % Size]
      BY <1>3, <3>2, <3>3 DEF Contents
    <3>5. data[(nextItem + k) % Size] = Back(pool_idx, Stored - k)
      BY <3>1 DEF Contents
    <3>6. Back(pool_idx', (Stored - k) + 1) = Back(pool_idx, Stored - k)
      BY <1>2, <3>1
    <3>7. (Stored - k) + 1 = Stored + 1 - k
      BY <1>1
    <3> QED
      BY <3>4, <3>5, <3>6, <3>7
  <2> QED
    BY <2>1, <2>2
<1>6. (\A k \in 0 .. Stored - 1 : data[(nextItem + k) % Size] = Back(pool_idx, Stored - k))'
  BY <1>1, <1>5
<1>7. (held # NoItem => held = Back(pool_idx, Stored + 1))'
  <2>1. Stored + 1 \in 1 .. PoolSize - 2
    BY <1>1, <1>2
  <2> QED
    BY <1>1, <1>2, <2>1 DEF Contents
<1> QED
  BY <1>1, <1>2, <1>4, <1>6, <1>7 DEF Contents, PoolIdx

\* recoder() takes the oldest one.
LEMMA ContentsDequeue ==
  ASSUME BufferInv, Contents, Dequeue
  PROVE  BufferInv' /\ Contents'
<1>1. /\ BufferInv' /\ Stored' = Stored - 1 /\ Stored \in 1 .. Capacity
      /\ nextItem \in 0 .. IndexRange - 1 /\ nextItem' = Advance(nextItem) /\ data' = data
  BY Room, FetchStep DEF Dequeue, Fetch, BufferInv, BufferTypes
<1>2. held' = data[nextItem % Size] /\ pool_idx' = pool_idx
  BY DEF Dequeue, producerVars
<1>3. PoolSize = Capacity + 2 /\ \A a \in 0 .. PoolSize - 1 : Back(pool_idx', a) = Back(pool_idx, a)
  BY <1>2, BackFacts DEF Contents
<1>4. ASSUME NEW k \in Int
      PROVE  (nextItem' + k) % Size = (nextItem + (k + 1)) % Size
  <2>1. CASE nextItem + 1 = IndexRange
    <3>1. nextItem' + k = k /\ nextItem + (k + 1) = k + IndexRange
      BY <1>1, <2>1, AdvanceFacts
    <3> QED
      BY <3>1, SlotWraps
  <2>2. CASE nextItem + 1 # IndexRange
    <3>1. nextItem' + k = nextItem + (k + 1)
      BY <1>1, <2>2, AdvanceFacts
    <3> QED
      BY <3>1
  <2> QED
    BY <2>1, <2>2
<1>5. ASSUME NEW k \in 0 .. Stored - 2
      PROVE  data'[(nextItem' + k) % Size] = Back(pool_idx', Stored - 1 - k)
  <2>1. k + 1 \in 0 .. Stored - 1 /\ Stored - 1 - k \in 0 .. PoolSize - 1
        /\ Stored - (k + 1) = Stored - 1 - k
    BY <1>1, <1>3
  <2>2. data[(nextItem + (k + 1)) % Size] = Back(pool_idx, Stored - (k + 1))
    BY <2>1 DEF Contents
  <2>3. (nextItem' + k) % Size = (nextItem + (k + 1)) % Size
    BY <1>4
  <2>4. Back(pool_idx', Stored - 1 - k) = Back(pool_idx, Stored - (k + 1))
    BY <1>3, <2>1
  <2> QED
    BY <1>1, <2>2, <2>3, <2>4
<1>6. (\A k \in 0 .. Stored - 1 : data[(nextItem + k) % Size] = Back(pool_idx, Stored - k))'
  BY <1>1, <1>5
<1>7. (held # NoItem => held = Back(pool_idx, Stored + 1))'
  <2>1. 0 \in 0 .. Stored - 1 /\ nextItem + 0 = nextItem /\ Stored - 0 = Stored
        /\ Stored' + 1 = Stored /\ Stored \in 0 .. PoolSize - 1
    BY <1>1, <1>3
  <2>2. data[(nextItem + 0) % Size] = Back(pool_idx, Stored - 0)
    BY <2>1 DEF Contents
  <2> QED
    BY <1>2, <1>3, <2>1, <2>2
<1> QED
  BY <1>1, <1>2, <1>6, <1>7 DEF Contents, PoolIdx

(***************************************************************************)
(* The files.                                                              *)
(***************************************************************************)
\* Bytes put behind others leave those alone.
LEMMA Extended ==
  ASSUME NEW s, NEW t, IsSeq(s), IsSeq(t)
  PROVE  IsSeq(s \o t) /\ Len(s \o t) >= Len(s) /\ SubSeq(s \o t, 1, Len(s)) = s
<1>1. PICK S : s \in Seq(S)
  BY DEF IsSeq
<1>2. PICK T : t \in Seq(T)
  BY DEF IsSeq
<1>3. Len(s) \in Nat /\ Len(t) \in Nat /\ Len(s \o t) = Len(s) + Len(t)
  BY <1>1, <1>2
<1>4. SubSeq(s \o t, 1, Len(s)) = s
  BY <1>1, <1>2
<1>5. s \o t \in Seq(S \cup T)
  BY <1>1, <1>2
<1> QED
  BY <1>3, <1>4, <1>5 DEF IsSeq

\* A part of anything is a sequence.
LEMMA SubSeqIsSeq ==
  ASSUME NEW s, NEW m \in Int, NEW n \in Int
  PROVE  IsSeq(SubSeq(s, m, n))
<1> DEFINE T == {s[i] : i \in m .. n}
<1>1. \A i \in m .. n : s[i] \in T
  OBVIOUS
<1> HIDE DEF T
<1>2. SubSeq(s, m, n) \in Seq(T)
  BY <1>1, SubSeqProperties
<1> QED
  BY <1>2 DEF IsSeq

\* A file that is left alone.
LEMMA Same ==
  ASSUME NEW s, IsSeq(s)
  PROVE  Len(s) >= Len(s) /\ SubSeq(s, 1, Len(s)) = s
<1>1. PICK S : s \in Seq(S)
  BY DEF IsSeq
<1> QED
  BY <1>1

\* The lengths of a write are numbers.
LEMMA LengthsAreInts ==
  ASSUME bits \in BitDepths, done \in Int, NEW n \in Lengths
  PROVE  n \in Int
<1>1. FrameBytes \in Int
  <2>1. bits \in Int /\ HeaderSize \in Int /\ FramePayload \in Int
    BY RecorderAssumption, HeaderAssumption
  <2>2. FramePayload * bits \in Int
    BY <2>1
  <2>3. (FramePayload * bits) \div 8 \in Int
    BY <2>2
  <2> QED
    BY <2>1, <2>3 DEF FrameBytes
<1>2. ASSUME NEW k \in Int
      PROVE  IovEnd(k) \in Int
  <2>1. k \div 2 \in Int
    OBVIOUS
  <2>2. (k \div 2) * FrameBytes \in Int
    BY <1>1, <2>1
  <2> QED
    BY <2>2, HeaderAssumption DEF IovEnd
<1>3. ASSUME NEW a \in Int, NEW b \in Int
      PROVE  Min({a, b}) \in Int
  <2>1. \E x \in {a, b} : \A y \in {a, b} : x =< y
    OBVIOUS
  <2> QED
    BY <2>1 DEF Min
<1>4. Reach \in Int
  <2> DEFINE K == {k \in 1 .. 2 * BatchSize : IovEnd(k) <= done}
  <2>1. 2 * BatchSize \in Int /\ IovMax \in Int
    BY RecorderAssumption
  <2>2. Cardinality(K) \in Nat
    <3>1. IsFiniteSet(1 .. 2 * BatchSize)
      BY <2>1, FS_Interval
    <3>2. K \subseteq 1 .. 2 * BatchSize
      OBVIOUS
    <3> HIDE DEF K
    <3>3. IsFiniteSet(K)
      BY <3>1, <3>2, FS_Subset
    <3> QED
      BY <3>3, FS_CardinalityType
  <2> DEFINE m == Min({Cardinality(K) + IovMax, 2 * BatchSize})
  <2>3. m \in Int
    <3> HIDE DEF K
    <3>1. Cardinality(K) + IovMax \in Int
      BY <2>1, <2>2
    <3> QED
      BY <1>3, <2>1, <3>1
  <2>4. Reach = IovEnd(m)
    BY DEF Reach
  <2> HIDE DEF m, K
  <2> QED
    BY <1>2, <2>3, <2>4
<1> QED
  BY <1>4, RecorderAssumption DEF Lengths

\* No file loses a byte, and parts are truncated only when they are new.
FilesKept == \A p \in Parts : /\ Len(part'[p]) >= Len(part[p])
                              /\ SubSeq(part'[p], 1, Len(part[p])) = part[p]

\* A step that touches no file.
LEMMA FilesAlone ==
  ASSUME PartsLater, Files, part' = part, fd' = fd, file_index' = file_index,
         bits' = bits, done' \in Int
  PROVE  PartsLater' /\ Files' /\ FilesKept
<1>1. PartsLater'
  BY DEF PartsLater, Parts
<1>2. Files'
  BY DEF Files, Parts
<1>3. FilesKept
  BY Same DEF Files, FilesKept
<1> QED
  BY <1>1, <1>2, <1>3

\* A new part.
LEMMA FilesCreate ==
  ASSUME PartsLater, Files, CreateFile, bits' = bits, done' \in Int
  PROVE  PartsLater' /\ Files' /\ FilesKept
<1>1. /\ part' = [part EXCEPT ![file_index] = <<>>]
      /\ fd' = file_index /\ file_index' = file_index + 1
  BY DEF CreateFile
<1>2. ASSUME NEW p \in Parts
      PROVE  part'[p] = IF p = file_index THEN <<>> ELSE part[p]
  BY <1>1 DEF Files
<1>3. part' = [p \in Parts |-> part'[p]]
  BY <1>1 DEF Files
<1>4. IsSeq(<<>>)
  BY DEF IsSeq
<1>5. PartsLater'
  BY <1>1, <1>2 DEF PartsLater, Parts
<1>6. Files'
  BY <1>2, <1>3, <1>4 DEF Files, Parts
<1>7. FilesKept
  <2> SUFFICES ASSUME NEW p \in Parts
               PROVE  /\ Len(part'[p]) >= Len(part[p])
                      /\ SubSeq(part'[p], 1, Len(part[p])) = part[p]
    BY DEF FilesKept
  <2>1. part'[p] = part[p]
    BY <1>2 DEF PartsLater, Parts
  <2> QED
    BY <2>1, Same DEF Files
<1> QED
  BY <1>5, <1>6, <1>7

\* writev
LEMMA FilesWrite ==
  ASSUME PartsLater, Files, NEW n \in Lengths, Write(n)
  PROVE  PartsLater' /\ Files' /\ FilesKept
<1> DEFINE bytes == SubSeq(IovBytes, done + 1, done + n)
<1>1. n \in Int /\ done \in Int
  BY LengthsAreInts DEF Files
<1>2. /\ part' = [part EXCEPT ![fd] = part[fd] \o bytes]
      /\ fd' = fd /\ file_index' = file_index /\ bits' = bits /\ done' \in Int
  BY <1>1 DEF Write
<1>3. IsSeq(bytes)
  BY <1>1, SubSeqIsSeq
<1> HIDE DEF bytes
<1>4. ASSUME NEW p \in Parts
      PROVE  part'[p] = IF p = fd THEN part[p] \o bytes ELSE part[p]
  BY <1>2 DEF Files
<1>5. part' = [p \in Parts |-> part'[p]]
  BY <1>2 DEF Files
<1>6. ASSUME NEW p \in Parts
      PROVE  /\ IsSeq(part'[p]) /\ Len(part'[p]) >= Len(part[p])
             /\ SubSeq(part'[p], 1, Len(part[p])) = part[p]
  <2>1. CASE p = fd
    <3>1. IsSeq(part[p]) /\ part'[p] = part[p] \o bytes
      BY <1>4, <2>1 DEF Files
    <3>2. /\ IsSeq(part[p] \o bytes) /\ Len(part[p] \o bytes) >= Len(part[p])
          /\ SubSeq(part[p] \o bytes, 1, Len(part[p])) = part[p]
      BY ONLY <1>3, <3>1, Extended
    <3> QED
      BY <3>1, <3>2
  <2>2. CASE p # fd
    BY <1>4, <2>2, Same DEF Files
  <2> QED
    BY <2>1, <2>2
<1>7. PartsLater'
  BY <1>2, <1>4 DEF PartsLater, Parts
<1>8. Files'
  BY <1>2, <1>5, <1>6 DEF Files, Parts
<1> QED
  BY <1>6, <1>7, <1>8 DEF FilesKept

(***************************************************************************)
(* Every step.                                                             *)
(***************************************************************************)
\* A step inside of the buffer moves no item.
LEMMA InBufferSteps ==
  ASSUME BufferInv, NEW t \in Threads, InBuffer(t)
  PROVE  /\ BufferInv' /\ Stored' = Stored /\ nextItem' = nextItem /\ data' = data
         /\ UNCHANGED <<bits, producerVars, recorderVars>>
<1>1. UNCHANGED <<bits, producerVars, recorderVars>>
  BY DEF InBuffer
<1>2. CASE Load(t)
  BY <1>1, <1>2, LoadStep, StoredMoves DEF Load, BufferInv
<1>3. CASE Decrement(t)
  BY <1>1, <1>3, DecrementStep, StoredMoves DEF Decrement, BufferInv
<1>4. CASE Sleep(t)
  BY <1>1, <1>4, SleepStep, StoredMoves DEF Sleep, BufferInv
<1>5. CASE Signal(t)
  BY <1>1, <1>5, SignalStep, StoredMoves DEF Signal, BufferInv
<1>6. CASE Wake(t)
  BY <1>1, <1>6, WakeStep, StoredMoves DEF Wake, BufferInv
<1> QED
  BY <1>2, <1>3, <1>4, <1>5, <1>6 DEF InBuffer, SemaphoreStep

\* Entering the buffer moves no item either.
LEMMA EnterMovesNothing ==
  ASSUME BufferInv, NEW t \in Threads, Enter(t)
  PROVE  BufferInv' /\ Stored' = Stored /\ nextItem' = nextItem /\ data' = data
<1>1. BufferInv'
  BY EnterStep
<1>2. nextItem' = nextItem /\ nextSlot' = nextSlot /\ data' = data
  BY DEF Enter
<1>3. BufferTypes
  BY DEF BufferInv
<1> QED
  BY <1>1, <1>2, <1>3, StoredMoves

\* A step of the recorder outside of the buffer.
LEMMA OutsideSteps ==
  ASSUME BufferInv, UNCHANGED bufVars
  PROVE  BufferInv' /\ Stored' = Stored /\ nextItem' = nextItem /\ data' = data
<1>1. /\ count' = count /\ sema' = sema /\ pc' = pc
      /\ nextItem' = nextItem /\ nextSlot' = nextSlot /\ data' = data
  BY DEF bufVars
<1>2. BufferTypes
  BY DEF BufferInv
<1>3. Stored' = Stored
  BY <1>1, <1>2, StoredMoves
<1>4. BufferInv'
  BY <1>1, <1>3 DEF BufferInv, BufferTypes, Counts, Waiting, Unsignalled, Claimed, Waking
<1> QED
  BY <1>1, <1>3, <1>4

\* Files that a step does not name.
LEMMA FileVarsSame ==
  ASSUME PartsLater, Files, UNCHANGED <<bits, fileVars>>
  PROVE  PartsLater' /\ Files' /\ FilesKept
<1>1. /\ part' = part /\ fd' = fd /\ file_index' = file_index /\ bits' = bits
      /\ done' = done
  BY DEF fileVars
<1>2. done' \in Int
  BY <1>1 DEF Files
<1> QED
  BY <1>1, <1>2, FilesAlone

\* Every step keeps the invariant, and what was recorded.
LEMMA NextKeeps ==
  ASSUME RecorderInv, [Next]_vars
  PROVE  RecorderInv' /\ FilesKept
<1> USE DEF RecorderInv
<1>1. CASE Fill
  <2>1. Enter("producer") /\ pool_idx' = pool_idx /\ UNCHANGED recorderVars /\ bits' = bits
    BY <1>1 DEF Fill
  <2>2. held' = held /\ UNCHANGED <<bits, fileVars>>
    BY <2>1 DEF recorderVars
  <2> QED
    BY <2>1, <2>2, EnterMovesNothing, ContentsKept, FileVarsSame DEF Threads
<1>2. CASE Publish
  <2>1. UNCHANGED <<bits, fileVars>>
    BY <1>2 DEF Publish, recorderVars
  <2> QED
    BY <1>2, <2>1, ContentsPublish, FileVarsSame
<1>3. ASSUME NEW t \in Threads, InBuffer(t)
      PROVE  RecorderInv' /\ FilesKept
  <2>1. /\ BufferInv' /\ Stored' = Stored /\ nextItem' = nextItem /\ data' = data
        /\ UNCHANGED <<bits, producerVars, recorderVars>>
    BY <1>3, InBufferSteps
  <2>2. held' = held /\ pool_idx' = pool_idx /\ UNCHANGED <<bits, fileVars>>
    BY <2>1 DEF recorderVars, producerVars
  <2> QED
    BY <2>1, <2>2, ContentsKept, FileVarsSame
<1>4. CASE CallDequeue
  <2>1. Enter("consumer") /\ pool_idx' = pool_idx /\ held' = held /\ UNCHANGED <<bits, fileVars>>
    BY <1>4 DEF CallDequeue, producerVars
  <2> QED
    BY <2>1, EnterMovesNothing, ContentsKept, FileVarsSame DEF Threads
<1>5. CASE Dequeue
  <2>1. UNCHANGED <<bits, fileVars>>
    BY <1>5 DEF Dequeue
  <2> QED
    BY <1>5, <2>1, ContentsDequeue, FileVarsSame
<1>6. ASSUME NEW avx \in BOOLEAN, Prepare(avx)
      PROVE  RecorderInv' /\ FilesKept
  <2>1. /\ UNCHANGED bufVars /\ pool_idx' = pool_idx /\ held' = held /\ bits' = bits
        /\ done' \in Int /\ Rotate
    BY <1>6 DEF Prepare
  <2>2. BufferInv' /\ Contents'
    BY <2>1, OutsideSteps, ContentsKept
  <2>3. CreateFile \/ (part' = part /\ fd' = fd /\ file_index' = file_index)
    BY <2>1 DEF Rotate
  <2>4. PartsLater' /\ Files' /\ FilesKept
    BY <2>1, <2>3, FilesCreate, FilesAlone
  <2> QED
    BY <2>2, <2>4
<1>7. ASSUME NEW n \in Lengths, Write(n)
      PROVE  RecorderInv' /\ FilesKept
  <2>1. UNCHANGED bufVars /\ pool_idx' = pool_idx /\ (held' = held \/ held' = NoItem)
    BY <1>7 DEF Write, producerVars
  <2>2. BufferInv' /\ Contents'
    BY <2>1, OutsideSteps, ContentsKept
  <2> QED
    BY <1>7, <2>2, FilesWrite
<1>8. CASE WriteFails
  <2>1. /\ UNCHANGED bufVars /\ pool_idx' = pool_idx /\ held' = NoItem
        /\ part' = part /\ fd' = fd /\ file_index' = file_index /\ bits' = bits /\ done' = done
    BY <1>8 DEF WriteFails, producerVars
  <2>2. BufferInv' /\ Contents'
    BY <2>1, OutsideSteps, ContentsKept
  <2>3. done' \in Int
    BY <2>1 DEF Files
  <2> QED
    BY <2>1, <2>2, <2>3, FilesAlone
<1>9. CASE UNCHANGED vars
  <2>1. UNCHANGED bufVars /\ pool_idx' = pool_idx /\ held' = held /\ UNCHANGED <<bits, fileVars>>
    BY <1>9 DEF vars, producerVars, recorderVars
  <2> QED
    BY <2>1, OutsideSteps, ContentsKept, FileVarsSame
<1> QED
  BY <1>1, <1>2, <1>3, <1>4, <1>5, <1>6, <1>7, <1>8, <1>9
     DEF Next, Producer, Recorder, Threads

\* The program starts in the invariant.
LEMMA InitStarts ==
  ASSUME Init
  PROVE  RecorderInv
<1>1. BufferInv /\ Stored = 0
  BY BufferStarts DEF Init
<1>2. Contents
  BY <1>1 DEF Init, BufferInit, Contents, PoolIdx, PoolSize
<1>3. PartsLater
  BY DEF Init, PartsLater
<1>4. Files
  <2>1. IsSeq(<<>>)
    BY DEF IsSeq
  <2> QED
    BY <2>1 DEF Init, Files
<1> QED
  BY <1>1, <1>2, <1>3, <1>4 DEF RecorderInv

\* The invariant holds in every reachable state.
THEOREM RecorderInvariant == Spec => []RecorderInv
<1>1. Init => RecorderInv
  BY InitStarts
<1>2. RecorderInv /\ [Next]_vars => RecorderInv'
  BY NextKeeps
<1> QED
  BY <1>1, <1>2, PTL DEF Spec

(***************************************************************************)
(* What is proved about them.                                              *)
(***************************************************************************)
\* What inner_dequeue may take: the batches recv2mem filled last, but the
\* one it has not signalled yet, oldest first.
Signalled == [i \in 1 .. Stored - Unsignalled("producer") |-> Back(pool_idx, Stored - i + 1)]

\* Visible, which is read from the slots, is these batches.
LEMMA VisibleSignalled ==
  ASSUME BufferInv, Contents
  PROVE  /\ Visible = Signalled
         /\ Stored \in 0 .. Capacity /\ Unsignalled("producer") \in 0 .. 1
         /\ Stored - Unsignalled("producer") \in 0 .. Capacity
<1> DEFINE u == Unsignalled("producer")
<1>1. /\ Stored \in 0 .. Capacity /\ u \in 0 .. 1 /\ Stored - u \in 0 .. Capacity
      /\ nextSlot \in Int /\ nextItem \in Int
  BY Room DEF BufferInv, BufferTypes, Unsignalled
<1>2. u = IF pc["producer"] = "signal" THEN 1 ELSE 0
  BY DEF Unsignalled
<1> HIDE DEF u
<1>3. (nextSlot - nextItem - u) % IndexRange = Stored - u
  <2>1. /\ Stored - u \in 0 .. IndexRange - 1 /\ nextSlot - nextItem - u \in Int
        /\ IndexRange \in Int /\ IndexRange > 0
    BY <1>1
  <2>2. CASE nextSlot >= nextItem
    <3>1. nextSlot - nextItem - u = IndexRange * 0 + (Stored - u)
      BY <1>1, <2>2 DEF Stored
    <3> QED
      BY ONLY <2>1, <3>1, 0 \in Int, ModUnique
  <2>3. CASE ~(nextSlot >= nextItem)
    <3>1. nextSlot - nextItem - u = IndexRange * (-1) + (Stored - u) /\ -1 \in Int
      BY <1>1, <2>3 DEF Stored
    <3> QED
      BY ONLY <2>1, <3>1, ModUnique
  <2> QED
    BY <2>2, <2>3
<1>4. Visible = [i \in 1 .. Stored - u |-> data[(nextItem + i - 1) % Size]]
  BY <1>2, <1>3 DEF Visible
<1>5. ASSUME NEW i \in 1 .. Stored - u
      PROVE  data[(nextItem + i - 1) % Size] = Back(pool_idx, Stored - i + 1)
  <2>1. i - 1 \in 0 .. Stored - 1 /\ nextItem + (i - 1) = nextItem + i - 1
        /\ Stored - (i - 1) = Stored - i + 1
    BY <1>1
  <2>2. data[(nextItem + (i - 1)) % Size] = Back(pool_idx, Stored - (i - 1))
    BY <2>1 DEF Contents
  <2> QED
    BY <2>1, <2>2
<1>6. Signalled = [i \in 1 .. Stored - u |-> Back(pool_idx, Stored - i + 1)]
  BY DEF Signalled, u
<1> QED
  BY <1>1, <1>4, <1>5, <1>6 DEF u

\* The same in the next state.
LEMMA VisibleNext ==
  (BufferInv /\ Contents => Visible = Signalled)'
<1>1. BufferInv /\ Contents => Visible = Signalled
  BY VisibleSignalled
<1> QED
  BY <1>1, PTL

\* The invariant rules out that the threads meet.
LEMMA NeverMeet ==
  ASSUME BufferInv, Contents
  PROVE  NothingShared
<1>1. SlotsApart
  <2> SUFFICES ASSUME pc["producer"] = "copy", pc["consumer"] = "copy"
               PROVE  nextSlot % Size # nextItem % Size
    BY DEF SlotsApart
  <2>1. /\ Stored \in 1 .. Capacity - 1 /\ nextItem \in Int /\ BufferTypes
        /\ nextItem + Stored \in Int
    BY Room DEF BufferInv, BufferTypes
  <2>2. nextItem < nextItem + Stored /\ nextItem + Stored < nextItem + Size
    BY <2>1
  <2>3. nextItem % Size # (nextItem + Stored) % Size
    BY <2>1, <2>2, SlotsDiffer
  <2> QED
    BY <2>1, <2>3, NextSlotFollows
<1>2. /\ PoolSize = Capacity + 2
      /\ \A a \in 1 .. PoolSize - 1 : Back(pool_idx, a) # pool_idx
  BY BackFacts DEF Contents
<1>3. /\ Visible = Signalled /\ Stored \in 0 .. Capacity
      /\ Unsignalled("producer") \in 0 .. 1
  BY VisibleSignalled
<1>4. pool_idx # held
  <2>1. CASE held = NoItem
    BY <2>1 DEF Contents, PoolIdx, NoItem
  <2>2. CASE held # NoItem
    <3>1. Stored + 1 \in 1 .. PoolSize - 1
      BY <1>2, <1>3
    <3> QED
      BY <1>2, <2>2, <3>1 DEF Contents
  <2> QED
    BY <2>1, <2>2
<1>5. ASSUME NEW i \in DOMAIN Visible
      PROVE  Visible[i] # pool_idx
  <2>1. i \in 1 .. Stored - Unsignalled("producer") /\ Visible[i] = Back(pool_idx, Stored - i + 1)
    BY <1>3 DEF Signalled
  <2>2. Stored - i + 1 \in 1 .. PoolSize - 1
    BY <1>2, <1>3, <2>1
  <2> QED
    BY <1>2, <2>1, <2>2
<1> QED
  BY <1>1, <1>4, <1>5 DEF NothingShared

\* For every capacity of the buffer and however the counters wrap, the
\* buffer's operations and the two threads never touch the same slot or the
\* same batch at the same time.
THEOREM NeverShared == Spec => []NothingShared
<1>1. RecorderInv => NothingShared
  BY NeverMeet DEF RecorderInv
<1> QED
  BY <1>1, RecorderInvariant, PTL

\* What was recorded stays, whichever writes are short or fail and whenever
\* create_file opens a new part with O_TRUNC.
THEOREM RecordedForGood == Spec => RecordedStays
<1>1. RecorderInv /\ [Next]_vars => [FilesKept]_vars
  BY NextKeeps
<1>2. RecordedStays <=> [][FilesKept]_vars
  BY DEF RecordedStays, FilesKept
<1> QED
  BY <1>1, <1>2, RecorderInvariant, PTL DEF Spec

(***************************************************************************)
(* The buffer implements a bounded queue.                                  *)
(***************************************************************************)
\* The queue does not change while the batches in it stay the same.
LEMMA QueueStays ==
  ASSUME BufferInv, Contents, BufferInv', Contents',
         Stored' - Unsignalled("producer")' = Stored - Unsignalled("producer"),
         \/ Stored' = Stored /\ pool_idx' = pool_idx
         \/ /\ Stored' = Stored + 1
            /\ \A a \in 1 .. Capacity : Back(pool_idx', a + 1) = Back(pool_idx, a)
  PROVE  Visible' = Visible
<1>1. /\ Visible = Signalled /\ Stored \in 0 .. Capacity
      /\ Unsignalled("producer") \in 0 .. 1
  BY VisibleSignalled
<1>2. Visible' = Signalled'
  BY VisibleSignalled, VisibleNext
<1> DEFINE n == Stored - Unsignalled("producer")
<1>3. ASSUME NEW i \in 1 .. n
      PROVE  Back(pool_idx', Stored' - i + 1) = Back(pool_idx, Stored - i + 1)
  <2>1. CASE Stored' = Stored /\ pool_idx' = pool_idx
    BY <2>1
  <2>2. CASE /\ Stored' = Stored + 1
             /\ \A a \in 1 .. Capacity : Back(pool_idx', a + 1) = Back(pool_idx, a)
    <3>1. Stored - i + 1 \in 1 .. Capacity /\ Stored' - i + 1 = (Stored - i + 1) + 1
      BY <1>1, <2>2
    <3> QED
      BY <2>2, <3>1
  <2> QED
    BY <2>1, <2>2
<1>4. Signalled' = Signalled
  BY <1>3 DEF Signalled
<1> QED
  BY <1>1, <1>2, <1>4

\* A batch becomes visible when its producer signals it: the last one.
LEMMA SignalPuts ==
  ASSUME BufferInv, Contents, BufferInv', Contents', Signal("producer"),
         pool_idx' = pool_idx, Stored' = Stored
  PROVE  \E x \in PoolIdx : Abstract!Put(x)
<1>1. /\ Visible = Signalled /\ Stored \in 0 .. Capacity
      /\ Visible' = Signalled'
  BY VisibleSignalled, VisibleNext
<1>2. Unsignalled("producer") = 1 /\ Unsignalled("producer")' = 0 /\ Stored > 0
  BY Room DEF Signal, BufferInv, BufferTypes, Threads, Unsignalled
<1> DEFINE x == Back(pool_idx, 1)
<1>3. x \in PoolIdx /\ \A a \in 0 .. Capacity + 1 : Back(pool_idx, a) \in PoolIdx
  BY BackFacts DEF Contents
<1>4. Visible = [i \in 1 .. Stored - 1 |-> Back(pool_idx, Stored - i + 1)]
  BY <1>1, <1>2 DEF Signalled
<1>5. Visible' = [i \in 1 .. Stored |-> Back(pool_idx, Stored - i + 1)]
  BY <1>1, <1>2 DEF Signalled
<1>6. Stored - Stored + 1 = 1
  BY <1>1
<1> HIDE DEF Stored
<1>7. Visible \in Seq(PoolIdx) /\ Len(Visible) = Stored - 1
  BY <1>1, <1>2, <1>3, <1>4
<1>8. Visible' = Append(Visible, x)
  <2> DEFINE s == Append(Visible, x)
  <2>1. /\ s \in Seq(PoolIdx) /\ Len(s) = Stored
        /\ \A i \in 1 .. Stored - 1 : s[i] = Visible[i]
        /\ s[Stored] = x
    BY <1>1, <1>2, <1>3, <1>7, AppendProperties
  <2> HIDE DEF s
  <2>2. s = [i \in 1 .. Stored |-> s[i]]
    BY <2>1
  <2>3. ASSUME NEW i \in 1 .. Stored
        PROVE  s[i] = Back(pool_idx, Stored - i + 1)
    <3>1. CASE i = Stored
      BY <1>6, <2>1, <3>1
    <3>2. CASE i # Stored
      <4>1. i \in 1 .. Stored - 1
        BY <1>1, <3>2
      <4> QED
        BY <1>4, <2>1, <4>1
    <3> QED
      BY <3>1, <3>2
  <2>4. s = [i \in 1 .. Stored |-> Back(pool_idx, Stored - i + 1)]
    BY <2>2, <2>3
  <2> QED
    BY <1>5, <2>4 DEF s
<1>9. Len(Visible) < Capacity
  BY <1>1, <1>7
<1> QED
  BY <1>3, <1>8, <1>9 DEF Abstract!Put

\* inner_dequeue takes the first item.
LEMMA FetchTakes ==
  ASSUME BufferInv, Contents, BufferInv', Contents', Fetch,
         pool_idx' = pool_idx, Stored' = Stored - 1
  PROVE  Abstract!Take
<1> DEFINE u == Unsignalled("producer")
           n == Stored - u
<1>1. /\ Visible = Signalled /\ Stored \in 0 .. Capacity /\ u \in 0 .. 1
      /\ Visible' = Signalled'
  BY VisibleSignalled, VisibleNext
<1>2. u' = u
  BY DEF Fetch, BufferInv, BufferTypes, Threads, Unsignalled
<1>3. n \in 1 .. Capacity
  <2>1. pc["consumer"] = "copy"
    BY DEF Fetch
  <2> QED
    BY <1>1, <2>1 DEF BufferInv, Counts, Waiting, Waits, Claimed, Waking, BufferTypes,
       Semaphores, Unsignalled
<1>4. \A a \in 0 .. Capacity + 1 : Back(pool_idx, a) \in PoolIdx
  BY BackFacts DEF Contents
<1>5. Visible = [i \in 1 .. n |-> Back(pool_idx, Stored - i + 1)]
  BY <1>1 DEF Signalled
<1>6. Visible' = [i \in 1 .. n - 1 |-> Back(pool_idx, Stored - i)]
  <2>1. Stored' - u' = n - 1
    BY <1>1, <1>2
  <2>2. Visible' = [i \in 1 .. Stored' - u' |-> Back(pool_idx', Stored' - i + 1)]
    BY <1>1 DEF Signalled
  <2>3. ASSUME NEW i \in 1 .. n - 1
        PROVE  Stored' - i + 1 = Stored - i
    BY <1>1
  <2> QED
    BY <2>1, <2>2, <2>3
<1> HIDE DEF u, n
<1>7. Visible \in Seq(PoolIdx) /\ Len(Visible) = n /\ Visible # <<>>
  <2>1. ASSUME NEW i \in 1 .. n
        PROVE  Stored - i + 1 \in 0 .. Capacity + 1
    BY <1>1, <1>3 DEF n
  <2> QED
    BY <1>3, <1>4, <1>5, <2>1
<1>8. Visible' = Tail(Visible)
  <2>1. /\ Tail(Visible) \in Seq(PoolIdx) /\ Len(Tail(Visible)) = n - 1
        /\ \A i \in 1 .. n - 1 : Tail(Visible)[i] = Visible[i + 1]
    BY <1>7, HeadTailProperties
  <2>2. ASSUME NEW i \in 1 .. n - 1
        PROVE  Tail(Visible)[i] = Back(pool_idx, Stored - i)
    <3>1. i + 1 \in 1 .. n /\ Stored - (i + 1) + 1 = Stored - i
      BY <1>1, <1>3
    <3> QED
      BY <1>5, <2>1, <3>1
  <2>3. Tail(Visible) = [i \in 1 .. n - 1 |-> Back(pool_idx, Stored - i)]
    <3>1. Tail(Visible) = [i \in 1 .. n - 1 |-> Tail(Visible)[i]]
      <4> DEFINE s == Tail(Visible)
      <4>1. s \in Seq(PoolIdx) /\ Len(s) = n - 1
        BY <2>1
      <4> HIDE DEF s
      <4>2. s = [i \in 1 .. n - 1 |-> s[i]]
        BY <4>1
      <4> QED
        BY <4>2 DEF s
    <3> QED
      BY <2>2, <3>1
  <2> QED
    BY <1>6, <2>3
<1> QED
  BY <1>7, <1>8 DEF Abstract!Take

\* Every step is a step of the queue, or leaves it alone.
LEMMA NextViewed ==
  ASSUME RecorderInv, [Next]_vars
  PROVE  [Abstract!Next]_Visible
<1>1. BufferInv /\ Contents /\ BufferInv' /\ Contents'
  BY NextKeeps DEF RecorderInv
<1>2. CASE Publish
  <2>1. /\ Stored' = Stored + 1 /\ Unsignalled("producer") = 0
        /\ Unsignalled("producer")' = 1 /\ Stored \in Int
    <3>1. Store(pool_idx)
      BY <1>2 DEF Publish
    <3>2. Stored' = Stored + 1
      BY <1>1, <3>1, StoreStep
    <3> QED
      BY <1>1, <3>1, <3>2 DEF Store, Unsignalled, BufferInv, BufferTypes, Threads
  <2>2. \A a \in 1 .. Capacity : Back(pool_idx', a + 1) = Back(pool_idx, a)
    BY <1>1, <1>2, BackFacts DEF Publish, Contents
  <2>3. Stored' - Unsignalled("producer")' = Stored - Unsignalled("producer")
    BY <2>1
  <2> QED
    BY <1>1, <2>1, <2>2, <2>3, QueueStays
<1>3. CASE Dequeue
  <2>1. Fetch /\ pool_idx' = pool_idx
    BY <1>3 DEF Dequeue, producerVars
  <2>2. Stored' = Stored - 1
    BY <1>1, <2>1, FetchStep
  <2> QED
    BY <1>1, <2>1, <2>2, FetchTakes DEF Abstract!Next
<1>4. ASSUME InBuffer("producer"), Signal("producer")
      PROVE  [Abstract!Next]_Visible
  <2>1. Stored' = Stored /\ pool_idx' = pool_idx
    BY <1>1, <1>4, InBufferSteps DEF Threads, producerVars
  <2>2. \E x \in PoolIdx : Abstract!Put(x)
    BY <1>1, <1>4, <2>1, SignalPuts
  <2> QED
    BY <2>2 DEF Abstract!Next
<1>5. ASSUME Stored' = Stored, pool_idx' = pool_idx,
             Unsignalled("producer")' = Unsignalled("producer")
      PROVE  [Abstract!Next]_Visible
  BY <1>1, <1>5, QueueStays
<1>6. ASSUME NEW t \in Threads, InBuffer(t), ~(t = "producer" /\ Signal(t))
      PROVE  [Abstract!Next]_Visible
  <2>1. Stored' = Stored /\ pool_idx' = pool_idx
    BY <1>1, <1>6, InBufferSteps DEF producerVars
  <2>2. Unsignalled("producer")' = Unsignalled("producer")
    <3>1. CASE t = "producer"
      BY <1>1, <1>6, <3>1 DEF InBuffer, SemaphoreStep, Load, Decrement, Sleep, Wake,
         Unsignalled, BufferInv, BufferTypes, Threads
    <3>2. CASE t = "consumer"
      BY <1>1, <1>6, <3>2 DEF InBuffer, SemaphoreStep, Load, Decrement, Sleep, Signal, Wake,
         Unsignalled, BufferInv, BufferTypes, Threads
    <3> QED
      BY <3>1, <3>2 DEF Threads
  <2> QED
    BY <1>5, <2>1, <2>2
<1>7. ASSUME NEW t \in Threads, Enter(t), pool_idx' = pool_idx
      PROVE  [Abstract!Next]_Visible
  <2>1. Stored' = Stored
    BY <1>1, <1>7, EnterMovesNothing
  <2>2. Unsignalled("producer")' = Unsignalled("producer")
    BY <1>1, <1>7 DEF Enter, Unsignalled, BufferInv, BufferTypes, Threads
  <2> QED
    BY <1>5, <1>7, <2>1, <2>2
<1>8. ASSUME UNCHANGED bufVars, pool_idx' = pool_idx
      PROVE  [Abstract!Next]_Visible
  <2>1. Stored' = Stored
    BY <1>1, <1>8, OutsideSteps
  <2>2. Unsignalled("producer")' = Unsignalled("producer")
    BY <1>8 DEF bufVars, Unsignalled
  <2> QED
    BY <1>5, <1>8, <2>1, <2>2
<1>9. CASE Fill
  BY <1>7, <1>9 DEF Fill, Threads
<1>10. CASE CallDequeue
  BY <1>7, <1>10 DEF CallDequeue, Threads, producerVars
<1>11. ASSUME NEW avx \in BOOLEAN, Prepare(avx)
       PROVE  [Abstract!Next]_Visible
  BY <1>8, <1>11 DEF Prepare
<1>12. ASSUME NEW n \in Lengths, Write(n)
       PROVE  [Abstract!Next]_Visible
  BY <1>8, <1>12 DEF Write, producerVars
<1>13. CASE WriteFails
  BY <1>8, <1>13 DEF WriteFails, producerVars
<1>14. CASE UNCHANGED vars
  BY <1>8, <1>14 DEF vars, producerVars
<1> QED
  BY <1>2, <1>3, <1>4, <1>6, <1>9, <1>10, <1>11, <1>12, <1>13, <1>14
     DEF Next, Producer, Recorder, Threads

\* The buffer starts as an empty queue.
LEMMA InitViewed ==
  ASSUME Init
  PROVE  Abstract!Init
<1>1. BufferInv /\ Contents /\ Stored = 0
  BY InitStarts, BufferStarts DEF Init, RecorderInv
<1>2. Visible = Signalled /\ Stored - Unsignalled("producer") \in 0 .. Capacity
      /\ Unsignalled("producer") \in 0 .. 1
  BY <1>1, VisibleSignalled
<1>3. Stored - Unsignalled("producer") = 0
  BY <1>1, <1>2
<1>4. Visible = <<>>
  BY <1>2, <1>3 DEF Signalled
<1> QED
  BY <1>4 DEF Abstract!Init

\* Under every interleaving of the atomic operations of the two semaphores,
\* and for every capacity, the circular buffer is a bounded first-in
\* first-out queue: no batch is lost, taken twice or out of order.
THEOREM BufferIsQueue == Spec => ImplementsBoundedQueue
<1>1. Init => Abstract!Init
  BY InitViewed
<1>2. RecorderInv /\ [Next]_vars => [Abstract!Next]_Visible
  BY NextViewed
<1> QED
  BY <1>1, <1>2, RecorderInvariant, PTL DEF Spec, ImplementsBoundedQueue, Abstract!Spec

(***************************************************************************)
(* Types: the invariant is strengthened with what bounds the counters.     *)
(***************************************************************************)
Calling == {"try", "take", "block", "sleep", "copy"}

\* Batches that are filled and not stored yet, or taken and not finished.
Offered == IF pc["producer"] \in Calling THEN 1 ELSE 0
Taken == IF stage \in {"prepare", "write"} THEN 1 ELSE 0
Prepared == IF stage = "write" THEN 1 ELSE 0

\* Every batch that was filled is somewhere; a part is started for a batch.
Tallies ==
  /\ stage \in {"idle", "take", "prepare", "write"}
  /\ pc["consumer"] \in Calling <=> stage = "take"
  /\ filled \in 0 .. MaxBatches /\ finished \in Nat
  /\ filled = finished + Taken + Stored + Offered
  /\ file_index \in 1 .. finished + Prepared + 1

\* Only a recorder that has taken a batch holds one.
Holding == held # NoItem <=> stage \in {"prepare", "write"}

\* A batch that was filled has all of its frames, for good.
Whole(b) == /\ DOMAIN b = Frames
            /\ \A i \in Frames : /\ b[i] = [hdr |-> b[i].hdr, payload |-> b[i].payload]
                                 /\ b[i].hdr \in Header
Pool ==
  /\ batch = [x \in PoolIdx |-> batch[x]]
  /\ \A x \in PoolIdx : batch[x] = <<>> \/ Whole(batch[x])
  /\ \A s \in 0 .. Size - 1 : data[s] # NoItem => Whole(batch[data[s]])
  /\ held # NoItem => Whole(batch[held])
  /\ pc["producer"] \in Calling => Whole(batch[pool_idx])

\* A write is inside of the batch.
Inside == done \in 0 .. BatchBytes

TypesInv == RecorderInv /\ Tallies /\ Holding /\ Pool /\ Inside

\* What recv2mem fills a batch with.
LEMMA ReceivedWhole ==
  ASSUME NEW depth \in BitDepths, NEW b \in 0 .. MaxBatches - 1
  PROVE  Whole(ReceivedBatches[depth][b])
<1> DEFINE id(i) == b * BatchSize + i - 1
           configured(i) == ConfigureBaseband(FpgaHeader(id(i)), depth, StreamThread,
                                              FramePayload)
           hdr(i) == IF id(i) \in LostIds
                       THEN Put(SetPacketId(configured(1), id(i)), Invalid, 1)
                       ELSE configured(i)
           samples(i) == Samples(id(i))
<1>1. ReceivedBatches[depth][b] = [i \in Frames |-> [hdr |-> hdr(i), payload |-> samples(i)]]
  BY DEF ReceivedBatches, Received
<1>2. ASSUME NEW i PROVE FpgaHeader(id(i)) \in Header
  <2>1. [w \in 0 .. 7 |-> IF w < 2 THEN {} ELSE 0 .. 31] \in Header
    BY DEF Header, Word
  <2> QED
    BY <2>1, HeadersTyped DEF FpgaHeader
<1>3. ASSUME NEW i PROVE configured(i) \in Header
  BY <1>2, HeadersTyped
<1> HIDE DEF configured
<1>4. ASSUME NEW i PROVE hdr(i) \in Header
  BY <1>3, HeadersTyped, PutTyped, FieldsInside
<1> HIDE DEF hdr, samples
<1> QED
  BY <1>1, <1>4 DEF Whole

\* The conversion leaves the headers alone.
LEMMA PreparedWhole ==
  ASSUME NEW b, Whole(b), NEW avx
  PROVE  Whole([i \in Frames |-> [b[i] EXCEPT !.payload = Quantized(@, bits, avx)]])
<1>1. ASSUME NEW i \in Frames
      PROVE  [b[i] EXCEPT !.payload = Quantized(@, bits, avx)]
               = [hdr |-> b[i].hdr, payload |-> Quantized(b[i].payload, bits, avx)]
  <2> DEFINE h == b[i].hdr
             p == b[i].payload
  <2>1. b[i] = [hdr |-> h, payload |-> p]
    BY DEF Whole
  <2> HIDE DEF h, p
  <2>2. [b[i] EXCEPT !.payload = Quantized(@, bits, avx)]
          = [hdr |-> h, payload |-> Quantized(p, bits, avx)]
    BY <2>1
  <2> QED
    BY <2>2 DEF h, p
<1> DEFINE c == [i \in Frames |-> [b[i] EXCEPT !.payload = Quantized(@, bits, avx)]]
           q(i) == Quantized(b[i].payload, bits, avx)
<1>2. c = [i \in Frames |-> [hdr |-> b[i].hdr, payload |-> q(i)]]
  BY <1>1
<1>3. \A i \in Frames : b[i].hdr \in Header
  BY DEF Whole
<1> HIDE DEF c, q
<1>4. Whole(c)
  BY <1>2, <1>3 DEF Whole
<1> QED
  BY <1>4 DEF c

\* The bytes of a batch in a file.
LEMMA BytesTyped ==
  ASSUME bits \in BitDepths
  PROVE  BatchBytes \in Nat
<1>1. bits \in Nat /\ HeaderSize \in Nat /\ FramePayload \in Nat /\ BatchSize \in Nat
  BY RecorderAssumption, HeaderAssumption
<1>2. FramePayload * bits \in Nat
  BY <1>1
<1>3. (FramePayload * bits) \div 8 \in Nat
  BY <1>2
<1>4. FrameBytes \in Nat
  BY <1>1, <1>3 DEF FrameBytes
<1> QED
  BY <1>1, <1>4 DEF BatchBytes

\* A call of writev ends inside of the batch.
LEMMA WriteInside ==
  ASSUME bits \in BitDepths, Inside, NEW n \in Lengths
  PROVE  done + n \in 0 .. BatchBytes
<1>1. FrameBytes \in Int /\ FrameBytes >= HeaderSize /\ HeaderSize \in Nat
  <2>1. bits \in Nat /\ HeaderSize \in Nat /\ FramePayload \in Nat
    BY RecorderAssumption, HeaderAssumption
  <2>2. FramePayload * bits \in Nat
    BY <2>1
  <2>3. (FramePayload * bits) \div 8 \in Nat
    BY <2>2
  <2> QED
    BY <2>1, <2>3 DEF FrameBytes
<1>2. BatchSize \in Nat /\ 2 * BatchSize \in Nat /\ IovMax \in Nat /\ Cuts \subseteq Nat
  BY RecorderAssumption
<1>3. BatchBytes \in Int /\ done \in Int
  BY <1>1, <1>2 DEF BatchBytes, Inside
<1>4. ASSUME NEW k \in 0 .. 2 * BatchSize
      PROVE  IovEnd(k) \in 0 .. BatchBytes
  <2> DEFINE q == k \div 2
             F == FrameBytes
  <2>1. q \in 0 .. BatchSize /\ (k % 2 = 1 => q \in 0 .. BatchSize - 1)
    BY <1>2
  <2>2. IovEnd(k) = q * F + IF k % 2 = 1 THEN HeaderSize ELSE 0
    BY DEF IovEnd
  <2>3. BatchBytes = BatchSize * F
    BY DEF BatchBytes
  <2> HIDE DEF q, F
  <2>4. F \in Nat /\ F >= HeaderSize
    BY <1>1 DEF F
  <2>5. q * F \in Nat /\ (q + 1) * F = q * F + F
    BY <2>1, <2>4
  <2>6. q * F <= BatchSize * F
    BY <1>2, <2>1, <2>4
  <2>7. k % 2 = 1 => (q + 1) * F <= BatchSize * F
    BY <1>2, <2>1, <2>4
  <2> QED
    BY <1>1, <1>3, <2>2, <2>3, <2>4, <2>5, <2>6, <2>7
<1>5. ASSUME NEW a \in Nat, NEW b \in Nat
      PROVE  Min({a, b}) \in 0 .. b
  <2>1. \E x \in {a, b} : \A y \in {a, b} : x =< y
    OBVIOUS
  <2>2. Min({a, b}) \in {a, b} /\ \A y \in {a, b} : Min({a, b}) =< y
    BY <2>1 DEF Min
  <2> QED
    BY <2>2
<1>6. Reach \in 0 .. BatchBytes
  <2> DEFINE K == {k \in 1 .. 2 * BatchSize : IovEnd(k) <= done}
  <2>2. Cardinality(K) \in Nat
    <3>1. IsFiniteSet(1 .. 2 * BatchSize)
      BY <1>2, FS_Interval
    <3>2. K \subseteq 1 .. 2 * BatchSize
      OBVIOUS
    <3> HIDE DEF K
    <3>3. IsFiniteSet(K)
      BY <3>1, <3>2, FS_Subset
    <3> QED
      BY <3>3, FS_CardinalityType
  <2> DEFINE m == Min({Cardinality(K) + IovMax, 2 * BatchSize})
  <2>3. m \in 0 .. 2 * BatchSize
    <3> HIDE DEF K
    <3>1. Cardinality(K) + IovMax \in Nat
      BY <1>2, <2>2
    <3> QED
      BY <1>2, <1>5, <3>1
  <2>4. Reach = IovEnd(m)
    BY DEF Reach
  <2> HIDE DEF m, K
  <2> QED
    BY <1>4, <2>3, <2>4
<1>7. CASE n = Reach - done
  BY <1>3, <1>6, <1>7
<1>8. CASE n \in Cuts /\ n < Reach - done
  BY <1>2, <1>3, <1>6, <1>8 DEF Inside
<1> QED
  BY <1>7, <1>8 DEF Lengths

\* A step in which no batch moves.
LEMMA TypesKept ==
  ASSUME TypesInv, RecorderInv', Stored' = Stored, nextItem' = nextItem, data' = data,
         UNCHANGED <<bits, batch, pool_idx, filled, held, stage, done, file_index, finished>>,
         pc'["producer"] \in Calling <=> pc["producer"] \in Calling,
         pc'["consumer"] \in Calling <=> pc["consumer"] \in Calling
  PROVE  TypesInv'
<1>1. Tallies'
  BY DEF TypesInv, Tallies, Taken, Offered, Prepared
<1>2. Holding'
  BY DEF TypesInv, Holding
<1>3. Pool'
  BY DEF TypesInv, Pool, Whole
<1>4. Inside'
  BY DEF TypesInv, Inside, BatchBytes, FrameBytes
<1> QED
  BY <1>1, <1>2, <1>3, <1>4 DEF TypesInv

\* recv2mem fills a batch.
LEMMA TypesFill ==
  ASSUME TypesInv, RecorderInv', Fill
  PROVE  TypesInv'
<1>1. /\ filled < MaxBatches /\ filled' = filled + 1 /\ pool_idx \in PoolIdx
      /\ Enter("producer") /\ bits \in BitDepths
      /\ UNCHANGED <<bits, pool_idx, recorderVars>>
  BY DEF Fill, TypesInv, RecorderInv, Contents, Files
<1>2. /\ Stored' = Stored /\ data' = data
  BY <1>1, EnterMovesNothing DEF TypesInv, RecorderInv, Threads
<1>3. /\ pc["producer"] = "work" /\ pc'["producer"] = "try" /\ pc'["consumer"] = pc["consumer"]
  BY <1>1 DEF Enter, TypesInv, RecorderInv, BufferInv, BufferTypes, Threads
<1>4. UNCHANGED <<bits, pool_idx, held, stage, done, file_index, finished>>
  BY <1>1 DEF recorderVars, fileVars
<1>5. Stored \in Nat
  BY DEF TypesInv, RecorderInv, BufferInv, BufferTypes
<1>6. Tallies'
  BY <1>1, <1>2, <1>3, <1>4, <1>5, RecorderAssumption
     DEF TypesInv, Tallies, Taken, Offered, Prepared, Calling
<1>7. Holding' /\ Inside'
  BY <1>4 DEF TypesInv, Holding, Inside, BatchBytes, FrameBytes
<1>8. Pool'
  <2> DEFINE b == ReceivedBatches[bits][filled]
  <2>1. Whole(b)
    BY <1>1, ReceivedWhole, RecorderAssumption DEF TypesInv, Tallies
  <2>2. batch' = [batch EXCEPT ![pool_idx] = b] /\ batch = [x \in PoolIdx |-> batch[x]]
    BY DEF Fill, TypesInv, Pool
  <2> HIDE DEF b
  <2>3. ASSUME NEW x \in PoolIdx
        PROVE  batch'[x] = IF x = pool_idx THEN b ELSE batch[x]
    BY <2>2
  <2>4. batch' = [x \in PoolIdx |-> batch'[x]]
    BY <2>2
  <2>5. data \in [0 .. Size - 1 -> PoolIdx \cup {NoItem}] /\ (held # NoItem => held \in PoolIdx)
    BY BackFacts DEF TypesInv, RecorderInv, Contents, BufferInv, BufferTypes
  <2>6. ASSUME NEW x \in PoolIdx, Whole(batch[x]) PROVE Whole(batch'[x])
    BY <2>1, <2>3, <2>6
  <2>7. \A x \in PoolIdx : batch'[x] = <<>> \/ Whole(batch'[x])
    BY <2>1, <2>3 DEF TypesInv, Pool
  <2>8. \A s \in 0 .. Size - 1 : data'[s] # NoItem => Whole(batch'[data'[s]])
    BY <1>2, <2>5, <2>6 DEF TypesInv, Pool
  <2>9. held' # NoItem => Whole(batch'[held'])
    BY <1>4, <2>5, <2>6 DEF TypesInv, Pool
  <2>10. Whole(batch'[pool_idx'])
    BY <1>1, <1>4, <2>1, <2>3
  <2>11. Whole(batch[pool_idx])' /\ (\A x \in PoolIdx : batch[x] = <<>> \/ Whole(batch[x]))'
         /\ (\A s \in 0 .. Size - 1 : data[s] # NoItem => Whole(batch[data[s]]))'
         /\ (held # NoItem => Whole(batch[held]))'
    BY <2>7, <2>8, <2>9, <2>10 DEF Whole
  <2> QED
    BY <2>4, <2>11 DEF Pool
<1> QED
  BY <1>6, <1>7, <1>8 DEF TypesInv

\* It stores it.
LEMMA TypesPublish ==
  ASSUME TypesInv, RecorderInv', Publish
  PROVE  TypesInv'
<1>1. /\ Store(pool_idx) /\ pool_idx \in PoolIdx
      /\ UNCHANGED <<bits, batch, filled, recorderVars>>
  BY DEF Publish, TypesInv, RecorderInv, Contents
<1>2. Stored' = Stored + 1
  BY <1>1, StoreStep DEF TypesInv, RecorderInv
<1>3. /\ pc["producer"] = "copy" /\ pc'["producer"] = "signal" /\ pc'["consumer"] = pc["consumer"]
  BY <1>1 DEF Store, TypesInv, RecorderInv, BufferInv, BufferTypes, Threads
<1>4. UNCHANGED <<bits, batch, filled, held, stage, done, file_index, finished>>
  BY <1>1 DEF recorderVars, fileVars
<1>5. Stored \in Nat
  BY DEF TypesInv, RecorderInv, BufferInv, BufferTypes
<1>6. Tallies'
  BY <1>2, <1>3, <1>4, <1>5
     DEF TypesInv, Tallies, Taken, Offered, Prepared, Calling
<1>7. Holding' /\ Inside'
  BY <1>4 DEF TypesInv, Holding, Inside, BatchBytes, FrameBytes
<1>8. Pool'
  <2>1. /\ data \in [0 .. Size - 1 -> PoolIdx \cup {NoItem}]
        /\ data' = [data EXCEPT ![nextSlot % Size] = pool_idx]
        /\ Whole(batch[pool_idx])
    BY <1>1, <1>3 DEF Store, TypesInv, RecorderInv, Contents, Pool, Calling
  <2>2. \A s \in 0 .. Size - 1 : data'[s] # NoItem => Whole(batch[data'[s]])
    BY <2>1 DEF TypesInv, Pool
  <2>3. (\A s \in 0 .. Size - 1 : data[s] # NoItem => Whole(batch[data[s]]))'
    BY <1>4, <2>2 DEF Whole
  <2>4. ~(pc'["producer"] \in Calling)
    BY <1>3 DEF Calling
  <2> QED
    BY <1>4, <2>3, <2>4 DEF TypesInv, Pool, Whole
<1> QED
  BY <1>6, <1>7, <1>8 DEF TypesInv

\* recoder() takes a batch.
LEMMA TypesDequeue ==
  ASSUME TypesInv, RecorderInv', Dequeue
  PROVE  TypesInv'
<1>1. /\ Fetch /\ held' = data[nextItem % Size] /\ stage' = "prepare"
      /\ UNCHANGED <<bits, batch, pool_idx, filled, finished, done, file_index>>
  BY DEF Dequeue, producerVars, fileVars
<1>2. Stored' = Stored - 1 /\ data' = data
  BY <1>1, FetchStep DEF TypesInv, RecorderInv, Fetch
<1>3. /\ pc["consumer"] = "copy" /\ pc'["consumer"] = "signal" /\ pc'["producer"] = pc["producer"]
  BY <1>1 DEF Fetch, TypesInv, RecorderInv, BufferInv, BufferTypes, Threads
<1>4. Stored \in 1 .. Capacity /\ nextItem \in Int
  BY <1>3, Room DEF TypesInv, RecorderInv, BufferInv, BufferTypes
<1>5. stage = "take"
  BY <1>3 DEF TypesInv, Tallies, Calling
<1>6. Tallies'
  BY <1>1, <1>2, <1>3, <1>4, <1>5
     DEF TypesInv, Tallies, Taken, Offered, Prepared, Calling
<1>7. held' # NoItem /\ nextItem % Size \in 0 .. Size - 1
  <2>1. 0 \in 0 .. Stored - 1 /\ nextItem + 0 = nextItem /\ Stored - 0 = Stored
    BY <1>4
  <2>2. data[(nextItem + 0) % Size] = Back(pool_idx, Stored - 0)
    BY <2>1 DEF TypesInv, RecorderInv, Contents
  <2>3. Back(pool_idx, Stored) \in PoolIdx
    BY <1>4, BackFacts DEF TypesInv, RecorderInv, Contents
  <2>4. held' \in PoolIdx
    BY <1>1, <2>1, <2>2, <2>3
  <2>5. nextItem % Size \in 0 .. Size - 1
    BY <1>4, SlotWraps
  <2>6. NoItem \notin PoolIdx
    BY DEF PoolIdx, NoItem
  <2> QED
    BY <2>4, <2>5, <2>6
<1>8. Holding' /\ Inside'
  BY <1>1, <1>7 DEF TypesInv, Holding, Inside, BatchBytes, FrameBytes
<1>9. Pool'
  <2>1. Whole(batch[held'])
    BY <1>1, <1>7 DEF TypesInv, Pool
  <2>2. Whole(batch[held])'
    BY <1>1, <2>1 DEF Whole
  <2> QED
    BY <1>1, <1>2, <1>3, <2>2, SMTT(30) DEF TypesInv, Pool, Whole
<1> QED
  BY <1>6, <1>8, <1>9 DEF TypesInv

\* It converts it, perhaps after starting a new part.
LEMMA TypesPrepare ==
  ASSUME TypesInv, RecorderInv', NEW avx \in BOOLEAN, Prepare(avx)
  PROVE  TypesInv'
<1>1. /\ stage = "prepare" /\ stage' = "write" /\ done' = 0 /\ Rotate /\ UNCHANGED bufVars
      /\ UNCHANGED <<bits, pool_idx, filled, held, finished>>
  BY DEF Prepare
<1>2. Stored' = Stored /\ data' = data /\ pc' = pc
  BY <1>1, OutsideSteps DEF TypesInv, RecorderInv, bufVars
<1>3. file_index' = file_index \/ file_index' = file_index + 1
  BY <1>1 DEF Rotate, CreateFile
<1>4. Stored \in Nat
  BY DEF TypesInv, RecorderInv, BufferInv, BufferTypes
<1>5. Tallies'
  BY <1>1, <1>2, <1>3, <1>4 DEF TypesInv, Tallies, Taken, Offered, Prepared, Calling
<1>6. Holding'
  BY <1>1 DEF TypesInv, Holding
<1>7. Inside'
  <2>1. BatchBytes' = BatchBytes
    BY <1>1 DEF BatchBytes, FrameBytes
  <2>2. BatchBytes \in Nat
    BY BytesTyped DEF TypesInv, RecorderInv, Files
  <2> QED
    BY <1>1, <2>1, <2>2 DEF Inside
<1>8. Pool'
  <2> DEFINE b == [i \in Frames |-> [batch[held][i] EXCEPT !.payload = Quantized(@, bits, avx)]]
  <2>1. held # NoItem /\ held \in PoolIdx /\ Whole(batch[held])
    <3>1. held # NoItem
      BY <1>1 DEF TypesInv, Holding
    <3>2. Stored + 1 \in 0 .. PoolSize - 1 /\ held = Back(pool_idx, Stored + 1)
      BY <3>1, BackFacts DEF TypesInv, RecorderInv, Contents, BufferInv, BufferTypes
    <3> QED
      BY <3>1, <3>2, BackFacts DEF TypesInv, RecorderInv, Contents, Pool
  <2>2. Whole(b)
    BY <2>1, PreparedWhole
  <2>3. batch' = [batch EXCEPT ![held] = b] /\ batch = [x \in PoolIdx |-> batch[x]]
    <3>1. batch' = [batch EXCEPT ![held] = b]
      BY DEF Prepare
    <3> QED
      BY <3>1 DEF TypesInv, Pool
  <2> HIDE DEF b
  <2>4. ASSUME NEW x \in PoolIdx
        PROVE  batch'[x] = IF x = held THEN b ELSE batch[x]
    BY <2>3
  <2>5. batch' = [x \in PoolIdx |-> batch'[x]]
    BY <2>3
  <2>6. data \in [0 .. Size - 1 -> PoolIdx \cup {NoItem}] /\ pool_idx \in PoolIdx
    BY DEF TypesInv, RecorderInv, Contents
  <2>7. ASSUME NEW x \in PoolIdx, Whole(batch[x]) PROVE Whole(batch'[x])
    BY <2>2, <2>4, <2>7
  <2>8. \A x \in PoolIdx : batch'[x] = <<>> \/ Whole(batch'[x])
    BY <2>2, <2>4 DEF TypesInv, Pool
  <2>9. \A s \in 0 .. Size - 1 : data'[s] # NoItem => Whole(batch'[data'[s]])
    BY <1>2, <2>6, <2>7 DEF TypesInv, Pool
  <2>10. held' # NoItem => Whole(batch'[held'])
    BY <1>1, <2>1, <2>7
  <2>11. pc'["producer"] \in Calling => Whole(batch'[pool_idx'])
    BY <1>1, <1>2, <2>6, <2>7 DEF TypesInv, Pool
  <2>12. (\A x \in PoolIdx : batch[x] = <<>> \/ Whole(batch[x]))'
         /\ (\A s \in 0 .. Size - 1 : data[s] # NoItem => Whole(batch[data[s]]))'
         /\ (held # NoItem => Whole(batch[held]))'
         /\ (pc["producer"] \in Calling => Whole(batch[pool_idx]))'
    BY <2>8, <2>9, <2>10, <2>11 DEF Whole
  <2> QED
    BY <2>5, <2>12 DEF Pool
<1> QED
  BY <1>5, <1>6, <1>7, <1>8 DEF TypesInv

\* It writes some of it, all of it, or gives it up.
LEMMA TypesWrite ==
  ASSUME TypesInv, RecorderInv', UNCHANGED bufVars,
         UNCHANGED <<bits, producerVars, file_index>>, stage = "write",
         done' \in 0 .. BatchBytes,
         \/ stage' = "write" /\ held' = held /\ finished' = finished
         \/ stage' = "idle" /\ held' = NoItem /\ finished' = finished + 1
  PROVE  TypesInv'
<1>1. Stored' = Stored /\ data' = data /\ pc' = pc
  BY OutsideSteps DEF TypesInv, RecorderInv, bufVars
<1>2. UNCHANGED <<bits, batch, pool_idx, filled, file_index>>
  BY DEF producerVars
<1>3. Stored \in Nat
  BY DEF TypesInv, RecorderInv, BufferInv, BufferTypes
<1>4. Tallies'
  BY <1>1, <1>2, <1>3 DEF TypesInv, Tallies, Taken, Offered, Prepared, Calling
<1>5. Holding'
  BY DEF TypesInv, Holding
<1>6. Inside'
  BY <1>2 DEF Inside, BatchBytes, FrameBytes
<1>7. Pool'
  BY <1>1, <1>2 DEF TypesInv, Pool, Whole
<1> QED
  BY <1>4, <1>5, <1>6, <1>7 DEF TypesInv

\* A step inside of the buffer leaves a caller a caller.
LEMMA StillCalling ==
  ASSUME BufferInv, NEW t \in Threads, SemaphoreStep(t)
  PROVE  /\ pc'["producer"] \in Calling <=> pc["producer"] \in Calling
         /\ pc'["consumer"] \in Calling <=> pc["consumer"] \in Calling
<1>1. pc \in [Threads -> Labels]
  BY DEF BufferInv, BufferTypes
<1>2. \/ pc[t] \in Calling /\ \E l \in Calling : pc' = [pc EXCEPT ![t] = l]
      \/ ~(pc[t] \in Calling) /\ \E l \in {"wake", "work"} : pc' = [pc EXCEPT ![t] = l]
  BY <1>1 DEF SemaphoreStep, Load, Decrement, Sleep, Signal, Wake, Calling
<1>3. /\ pc'[t] \in Calling <=> pc[t] \in Calling
      /\ \A o \in Threads \ {t} : pc'[o] = pc[o]
  BY <1>1, <1>2 DEF Calling
<1> QED
  BY <1>3 DEF Threads

\* Every step keeps the types.
LEMMA NextTypes ==
  ASSUME TypesInv, [Next]_vars
  PROVE  TypesInv'
<1>1. RecorderInv' /\ RecorderInv /\ BufferInv
  BY NextKeeps DEF TypesInv, RecorderInv
<1>2. CASE Fill
  BY <1>1, <1>2, TypesFill
<1>3. CASE Publish
  BY <1>1, <1>3, TypesPublish
<1>4. ASSUME NEW t \in Threads, InBuffer(t)
      PROVE  TypesInv'
  <2>1. /\ Stored' = Stored /\ nextItem' = nextItem /\ data' = data
        /\ UNCHANGED <<bits, producerVars, recorderVars>>
    BY <1>1, <1>4, InBufferSteps
  <2>2. UNCHANGED <<bits, batch, pool_idx, filled, held, stage, done, file_index, finished>>
    BY <2>1 DEF producerVars, recorderVars, fileVars
  <2>3. SemaphoreStep(t)
    BY <1>4 DEF InBuffer
  <2> QED
    BY <1>1, <2>1, <2>2, <2>3, StillCalling, TypesKept
<1>5. CASE CallDequeue
  <2>1. /\ stage = "idle" /\ stage' = "take" /\ Enter("consumer")
        /\ UNCHANGED <<bits, batch, pool_idx, filled, held, done, file_index, finished>>
    BY <1>5 DEF CallDequeue, producerVars, fileVars
  <2>2. Stored' = Stored /\ data' = data
    BY <1>1, <2>1, EnterMovesNothing DEF Threads
  <2>3. /\ pc["consumer"] = "work" /\ pc'["consumer"] = "try" /\ pc'["producer"] = pc["producer"]
    BY <1>1, <2>1 DEF Enter, BufferInv, BufferTypes, Threads
  <2>4. Tallies'
    BY <2>1, <2>2, <2>3 DEF TypesInv, Tallies, Taken, Offered, Prepared, Calling
  <2>5. Holding' /\ Inside'
    BY <2>1 DEF TypesInv, Holding, Inside, BatchBytes, FrameBytes
  <2>6. Pool'
    BY <2>1, <2>2, <2>3 DEF TypesInv, Pool, Whole
  <2> QED
    BY <1>1, <2>4, <2>5, <2>6 DEF TypesInv
<1>6. CASE Dequeue
  BY <1>1, <1>6, TypesDequeue
<1>7. ASSUME NEW avx \in BOOLEAN, Prepare(avx)
      PROVE  TypesInv'
  BY <1>1, <1>7, TypesPrepare
<1>8. ASSUME NEW n \in Lengths, Write(n)
      PROVE  TypesInv'
  <2>1. done + n \in 0 .. BatchBytes
    BY WriteInside DEF TypesInv, RecorderInv, Files
  <2>2. /\ UNCHANGED bufVars /\ UNCHANGED <<bits, producerVars, file_index>> /\ stage = "write"
        /\ done' = done + n
        /\ \/ stage' = "write" /\ held' = held /\ finished' = finished
           \/ stage' = "idle" /\ held' = NoItem /\ finished' = finished + 1
    BY <1>8 DEF Write
  <2> QED
    BY <1>1, <2>1, <2>2, TypesWrite
<1>9. CASE WriteFails
  <2>1. /\ UNCHANGED bufVars /\ UNCHANGED <<bits, producerVars, file_index>> /\ stage = "write"
        /\ done' = done
        /\ stage' = "idle" /\ held' = NoItem /\ finished' = finished + 1
    BY <1>9 DEF WriteFails
  <2>2. done \in 0 .. BatchBytes
    BY DEF TypesInv, Inside
  <2> QED
    BY <1>1, <2>1, <2>2, TypesWrite
<1>10. CASE UNCHANGED vars
  <2>1. /\ UNCHANGED bufVars
        /\ UNCHANGED <<bits, batch, pool_idx, filled, held, stage, done, file_index, finished>>
    BY <1>10 DEF vars, producerVars, recorderVars, fileVars
  <2>2. pc' = pc
    BY <2>1 DEF bufVars
  <2> QED
    BY <1>1, <2>1, <2>2, OutsideSteps, TypesKept
<1> QED
  BY <1>2, <1>3, <1>4, <1>5, <1>6, <1>7, <1>8, <1>9, <1>10
     DEF Next, Producer, Recorder, Threads

\* The program starts with the types.
LEMMA InitTypes ==
  ASSUME Init
  PROVE  TypesInv
<1>1. RecorderInv /\ Stored = 0
  BY InitStarts, BufferStarts DEF Init
<1>2. pc["producer"] = "work" /\ pc["consumer"] = "work"
  BY DEF Init, BufferInit, Threads
<1>3. Tallies
  BY <1>1, <1>2, RecorderAssumption DEF Init, Tallies, Taken, Offered, Prepared, Calling
<1>4. Holding
  BY DEF Init, Holding
<1>5. Pool
  <2>1. \A s \in 0 .. Size - 1 : data[s] = NoItem
    BY DEF Init, BufferInit
  <2> QED
    BY <1>2, <2>1 DEF Init, Pool, Calling
<1>6. Inside
  <2>1. BatchBytes \in Nat /\ done = 0
    BY BytesTyped DEF Init
  <2> QED
    BY <2>1 DEF Inside
<1> QED
  BY <1>1, <1>3, <1>4, <1>5, <1>6 DEF TypesInv

\* What the invariant says about the types.
LEMMA TypesFollow ==
  ASSUME TypesInv
  PROVE  TypeOK
<1> USE DEF TypesInv, RecorderInv
<1>1. BufferTypeOK
  <2>1. count["items"] \in -1 .. Capacity /\ count["slots"] \in -1 .. Capacity
    BY DEF BufferInv, BufferTypes, Counts, Waiting, Waits, Waking, Unsignalled, Claimed,
       Semaphores, Threads
  <2>2. sema["items"] \in 0 .. 1 /\ sema["slots"] \in 0 .. 1
    BY DEF BufferInv, BufferTypes, Waiting, Waits, Waking, Semaphores, Threads
  <2> QED
    BY <2>1, <2>2 DEF BufferTypeOK, BufferInv, BufferTypes, Semaphores, Labels
<1>2. data \in [0 .. Size - 1 -> PoolIdx \cup {NoItem}] /\ pool_idx \in PoolIdx
  BY DEF Contents
<1>3. ASSUME NEW x \in PoolIdx, NEW i \in DOMAIN batch[x]
      PROVE  batch[x][i].hdr \in Header
  <2>1. batch[x] = <<>> => DOMAIN batch[x] = {}
    OBVIOUS
  <2> QED
    BY <1>3, <2>1 DEF Pool, Whole
<1>4. held \in PoolIdx \cup {NoItem}
  <2>1. Stored + 1 \in 0 .. PoolSize - 1
    BY BackFacts DEF BufferInv, BufferTypes, Contents
  <2> QED
    BY <2>1, BackFacts DEF Contents
<1>5. Stored \in Nat /\ MaxBatches \in Nat
  BY RecorderAssumption DEF BufferInv, BufferTypes
<1>6. filled \in 0 .. MaxBatches /\ finished \in 0 .. MaxBatches
  BY <1>5 DEF Tallies, Taken, Offered
<1>7. file_index \in 1 .. MaxBatches + 1
  BY <1>5 DEF Tallies, Taken, Offered, Prepared
<1>8. fd \in Parts
  BY <1>5, <1>7 DEF PartsLater, Parts
<1>9. stage \in {"idle", "take", "prepare", "write"} /\ done \in 0 .. BatchBytes
  BY DEF Tallies, Inside
<1> QED
  BY <1>1, <1>2, <1>3, <1>4, <1>6, <1>7, <1>8, <1>9 DEF TypeOK

\* For every capacity, number of batches and limit on the iovecs, and
\* whichever writes are short or fail: the semaphores stay in their range,
\* no write goes past the end of a batch, no batch is finished that was not
\* filled, and no more parts are created than there are batches.
THEOREM RecorderTypeCorrect == Spec => []TypeOK
<1>1. Init => TypesInv
  BY InitTypes
<1>2. TypesInv /\ [Next]_vars => TypesInv'
  BY NextTypes
<1>3. TypesInv => TypeOK
  BY TypesFollow
<1> QED
  BY <1>1, <1>2, <1>3, PTL DEF Spec

(***************************************************************************)
(* The bytes of a batch, and what a call of writev writes of them.         *)
(***************************************************************************)
\* A batch after the conversion.
Converted(b, avx) == [i \in Frames |-> [b[i] EXCEPT !.payload = Quantized(@, bits, avx)]]

\* Byte at of the frame with number id, as it should be in a file.
FrameByte(id, at) ==
  [id |-> id, length |-> FrameBytes, at |-> at,
   value |-> IF at <= HeaderSize THEN 0
             ELSE Quantized(Samples(id), bits, FALSE)[at - HeaderSize]]

\* Byte pos of the recording of the whole stream, which the parts divide.
ByteAt(pos) == FrameByte(pos \div FrameBytes, (pos % FrameBytes) + 1)

\* The samples of a packet are bytes.
LEMMA SamplesTyped ==
  ASSUME NEW id \in Nat
  PROVE  Samples(id) \in Seq(Byte) /\ Len(Samples(id)) = FramePayload
<1>1. FramePayload \in Nat
  BY RecorderAssumption
<1>2. ASSUME NEW j \in 1 .. FramePayload
      PROVE  (IF id \in LostIds THEN 128 ELSE (29 * id + 37 * j) % 256) \in Byte
  BY <1>1 DEF Byte
<1>3. Samples(id) \in [1 .. FramePayload -> Byte]
  BY <1>2 DEF Samples
<1> QED
  BY <1>1, <1>3

\* A byte at a place inside of frame k.
LEMMA ByteInFrame ==
  ASSUME bits \in BitDepths, NEW k \in Nat, NEW r \in 0 .. FrameBytes - 1
  PROVE  ByteAt(k * FrameBytes + r) = FrameByte(k, r + 1)
<1> DEFINE F == FrameBytes
           pos == k * F + r
<1>1. F \in Nat \ {0}
  BY FrameBytesFacts
<1>2. k * F = F * k /\ k * F \in Nat /\ r \in 0 .. F - 1 /\ k \in Int
  BY <1>1
<1>3. pos = F * k + r /\ pos \in Int
  BY <1>1, <1>2
<1> HIDE DEF F, pos
<1>4. pos \div F = k /\ pos % F = r
  BY <1>1, <1>2, <1>3, DivUnique, ModUnique
<1>5. ByteAt(pos) = FrameByte(pos \div F, (pos % F) + 1)
  BY DEF ByteAt, F
<1> QED
  BY <1>4, <1>5 DEF F, pos

\* The frame byte m of batch b is in.
LEMMA BatchPosition ==
  ASSUME bits \in BitDepths, NEW b \in Nat, NEW m \in 1 .. BatchBytes
  PROVE  LET i == (m - 1) \div FrameBytes + 1
             r == (m - 1) % FrameBytes
         IN /\ i \in Frames /\ r \in 0 .. FrameBytes - 1
            /\ b * BatchBytes + m - 1 = (b * BatchSize + i - 1) * FrameBytes + r
            /\ b * BatchSize + i - 1 \in Nat
<1> DEFINE F == FrameBytes
           B == BatchSize
           q == (m - 1) \div F
           r == (m - 1) % F
<1>1. F \in Nat \ {0} /\ B \in Nat \ {0} /\ BatchBytes = B * F
  BY FrameBytesFacts
<1> HIDE DEF F, B
<1>2. m - 1 \in Nat /\ m - 1 < B * F /\ B * F \in Nat
  BY <1>1
<1>3. q \in Nat /\ r \in 0 .. F - 1 /\ m - 1 = q * F + r
  <2> DEFINE x == m - 1
  <2>1. x \in Nat
    BY <1>2
  <2> HIDE DEF x
  <2>2. x \div F \in Int /\ x % F \in 0 .. F - 1 /\ x = (x \div F) * F + (x % F)
    BY <1>1, <2>1, DivMod
  <2>3. x \div F \in Nat
    BY <1>1, <2>1
  <2> QED
    BY <2>2, <2>3 DEF x
<1> HIDE DEF q, r
<1>4. q < B
  <2>1. ASSUME q >= B PROVE FALSE
    <3>1. q * F >= B * F /\ q * F \in Nat
      BY <1>1, <1>3, <2>1
    <3> QED
      BY <1>1, <1>2, <1>3, <3>1
  <2> QED
    BY <1>1, <1>3, <2>1
<1>5. b * (B * F) = (b * B) * F /\ b * B \in Nat /\ (b * B) * F + q * F = (b * B + q) * F
  BY <1>1, <1>3
<1>6. b * (B * F) + m - 1 = (b * B + q) * F + r
  <2> DEFINE u == (b * B) * F
             v == q * F
             w == (b * B + q) * F
  <2>1. u \in Nat /\ v \in Nat /\ w = u + v /\ m - 1 = v + r /\ b * (B * F) = u
    BY <1>1, <1>3, <1>5
  <2> HIDE DEF u, v, w
  <2>2. u + m - 1 = w + r
    BY <1>3, <2>1, <1>1
  <2> QED
    BY <2>1, <2>2 DEF w
<1>7. q + 1 \in 1 .. B /\ b * B + (q + 1) - 1 = b * B + q /\ b * B + q \in Nat
  BY <1>1, <1>3, <1>4, <1>5
<1>8. q + 1 \in Frames
  BY <1>7 DEF Frames, B
<1>9. b * BatchBytes + m - 1 = (b * B + (q + 1) - 1) * F + r
  BY <1>1, <1>6, <1>7
<1> QED
  BY <1>3, <1>7, <1>8, <1>9 DEF F, B, q, r

\* The iovecs of the batch that is written are the bytes of the recording
\* from that batch on.
LEMMA IovRight ==
  ASSUME bits \in BitDepths, finished \in 0 .. MaxBatches - 1, NEW avx \in BOOLEAN,
         batch[held] = Converted(ReceivedBatches[bits][finished], avx),
         NEW m \in 1 .. BatchBytes
  PROVE  IovBytes[m] = ByteAt(finished * BatchBytes + m - 1)
<1> DEFINE F == FrameBytes
           i == (m - 1) \div F + 1
           r == (m - 1) % F
           id == finished * BatchSize + i - 1
           frame == ReceivedBatches[bits][finished][i]
           frames == [x \in Frames |-> FileFrame(batch[held][x])]
           value == IF r + 1 <= HeaderSize THEN 0
                    ELSE Quantized(Samples(id), bits, FALSE)[(r + 1) - HeaderSize]
<1>1. /\ i \in Frames /\ r \in 0 .. F - 1 /\ id \in Nat
      /\ finished * BatchBytes + m - 1 = id * F + r
  BY BatchPosition
<1>2. IovBytes[m] = frames[i][r + 1]
  BY DEF IovBytes
<1>3. /\ F \in Nat \ {0} /\ HeaderSize \in Nat
  BY FrameBytesFacts
<1>4. /\ PacketId(frame.hdr) = id /\ Get(frame.hdr, FrameLength) * LengthUnit = F
      /\ frame.payload = Samples(id)
  <2> HIDE DEF i
  <2> QED
    BY <1>1, ReceivedFrame DEF F
<1>5. frame = [hdr |-> frame.hdr, payload |-> frame.payload]
  <2> HIDE DEF i
  <2> QED
    BY <1>1, ReceivedWhole DEF Whole
<1> DEFINE w == batch[held][i]
<1>6. w = [frame EXCEPT !.payload = Quantized(@, bits, avx)]
  <2> HIDE DEF i
  <2> QED
    BY <1>1 DEF Converted
<1>7. w.hdr = frame.hdr /\ w.payload = Quantized(Samples(id), bits, avx)
  <2> DEFINE h == frame.hdr
             p == frame.payload
             q == Quantized(p, bits, avx)
  <2>1. frame = [hdr |-> h, payload |-> p] /\ w = [frame EXCEPT !.payload = q] /\ p = Samples(id)
    BY <1>4, <1>5, <1>6
  <2> HIDE DEF frame, w, h, p, q, id
  <2>2. w.hdr = h /\ w.payload = q
    BY <2>1
  <2> QED
    BY <2>1, <2>2 DEF h, q
<1>8. frames[i] = FileFrame(w)
  <2> HIDE DEF i
  <2> QED
    BY <1>1
<1>9. r + 1 \in 1 .. F
  BY <1>1, <1>3
<1>10. FileFrame(w)[r + 1] = [id |-> PacketId(w.hdr), length |-> Get(w.hdr, FrameLength) * LengthUnit,
                              at |-> r + 1,
                              value |-> IF r + 1 <= HeaderSize THEN 0
                                        ELSE w.payload[(r + 1) - HeaderSize]]
  <2> DEFINE at == r + 1
  <2>1. at \in 1 .. FrameBytes
    BY <1>9 DEF F
  <2> HIDE DEF w, at
  <2>2. FileFrame(w)[at] = [id |-> PacketId(w.hdr), length |-> Get(w.hdr, FrameLength) * LengthUnit,
                            at |-> at,
                            value |-> IF at <= HeaderSize THEN 0 ELSE w.payload[at - HeaderSize]]
    BY <2>1 DEF FileFrame
  <2> QED
    BY <2>2, Zenon DEF at
<1> HIDE DEF w, frame
<1>11. (IF r + 1 <= HeaderSize THEN 0 ELSE w.payload[(r + 1) - HeaderSize]) = value
  <2>1. CASE r + 1 <= HeaderSize
    BY <2>1
  <2>2. CASE ~(r + 1 <= HeaderSize)
    <3> DEFINE j == (r + 1) - HeaderSize
               s == Samples(id)
    <3>1. FrameBytes = HeaderSize + ((FramePayload * bits) \div 8)
      BY DEF FrameBytes
    <3> DEFINE len == (FramePayload * bits) \div 8
    <3>2. len \in Int
      <4>1. FramePayload \in Nat /\ bits \in Nat
        BY RecorderAssumption
      <4>2. FramePayload * bits \in Nat
        BY <4>1
      <4> QED
        BY <4>2
    <3>3. F = HeaderSize + len
      BY <3>1
    <3> HIDE DEF len, F, r
    <3>4. j \in 1 .. len
      BY <1>1, <1>3, <1>9, <2>2, <3>2, <3>3
    <3>5. s \in Seq(Byte) /\ Len(s) = FramePayload
      BY <1>1, SamplesTyped
    <3> HIDE DEF j, s
    <3>6. Quantized(s, bits, avx)[j] = Quantized(s, bits, FALSE)[j]
      BY <3>4, <3>5, QuantizedSame DEF len
    <3> QED
      BY <1>7, <2>2, <3>6 DEF j, s
  <2> QED
    BY <2>1, <2>2
<1>12. ByteAt(id * F + r) = FrameByte(id, r + 1)
  <2> HIDE DEF id, r
  <2>1. id \in Nat /\ r \in 0 .. FrameBytes - 1
    BY <1>1 DEF F
  <2> QED
    BY <2>1, ByteInFrame DEF F
<1>13. FrameByte(id, r + 1) = [id |-> id, length |-> F, at |-> r + 1, value |-> value]
  BY Zenon DEF FrameByte
<1> HIDE DEF value, r, i, id, frames
<1>14. IovBytes[m] = [id |-> id, length |-> F, at |-> r + 1, value |-> value]
  BY <1>2, <1>4, <1>7, <1>8, <1>10, <1>11
<1> QED
  BY <1>1, <1>12, <1>13, <1>14

\* The iovecs follow one another.
LEMMA IovInOrder ==
  ASSUME bits \in BitDepths, NEW j \in Nat, NEW k \in Nat, j <= k
  PROVE  IovEnd(j) \in Nat /\ IovEnd(j) <= IovEnd(k)
<1> DEFINE F == FrameBytes
           p == j \div 2
           q == k \div 2
           u == IF j % 2 = 1 THEN HeaderSize ELSE 0
           v == IF k % 2 = 1 THEN HeaderSize ELSE 0
<1>1. F \in Nat \ {0} /\ HeaderSize \in Nat /\ F >= HeaderSize
  BY FrameBytesFacts
<1>2. p \in Nat /\ q \in Nat /\ p <= q
  OBVIOUS
<1>3. p = q => u <= v
  BY <1>1
<1>4. u \in 0 .. HeaderSize /\ v \in 0 .. HeaderSize
  BY <1>1
<1>5. IovEnd(j) = p * F + u /\ IovEnd(k) = q * F + v
  BY DEF IovEnd
<1> HIDE DEF F, p, q, u, v
<1>6. p * F \in Nat /\ q * F \in Nat /\ (p + 1) * F = p * F + F
  BY <1>1, <1>2
<1>7. CASE p = q
  BY <1>1, <1>3, <1>4, <1>5, <1>6, <1>7
<1>8. CASE p < q
  <2>1. (p + 1) * F <= q * F
    BY <1>1, <1>2, <1>8
  <2> DEFINE x == p * F
             y == q * F
  <2>2. x + F <= y /\ x \in Nat /\ y \in Nat /\ IovEnd(j) = x + u /\ IovEnd(k) = y + v
    BY <1>5, <1>6, <2>1
  <2> HIDE DEF x, y
  <2> QED
    BY <1>1, <1>4, <2>2
<1> QED
  BY <1>2, <1>7, <1>8

\* A call of writev never goes back.
LEMMA WriteForward ==
  ASSUME bits \in BitDepths, Inside, NEW n \in Lengths
  PROVE  n \in Nat
<1> DEFINE K == {k \in 1 .. 2 * BatchSize : IovEnd(k) <= done}
           c == Cardinality(K)
           top == 2 * BatchSize
           m == Min({c + IovMax, top})
<1>1. /\ BatchSize \in Nat \ {0} /\ top \in Nat /\ IovMax \in Nat \ {0} /\ Cuts \subseteq Nat
  BY RecorderAssumption
<1>2. done \in Nat /\ done <= BatchBytes /\ BatchBytes \in Nat
  BY BytesTyped DEF Inside
<1>3. IsFiniteSet(K) /\ c \in Nat
  <2>1. IsFiniteSet(1 .. top)
    BY <1>1, FS_Interval
  <2>2. K \subseteq 1 .. top
    OBVIOUS
  <2> HIDE DEF K
  <2>3. IsFiniteSet(K)
    BY <2>1, <2>2, FS_Subset
  <2> QED
    BY <2>3, FS_CardinalityType
<1>4. c + 1 \notin K
  <2>1. ASSUME c + 1 \in K PROVE FALSE
    <3>1. \A j \in 1 .. c + 1 : j \in K
      <4> TAKE j \in 1 .. c + 1
      <4>1. c + 1 \in 1 .. top /\ IovEnd(c + 1) <= done
        BY <2>1
      <4> HIDE DEF K
      <4>2. j \in Nat /\ c + 1 \in Nat /\ j <= c + 1 /\ j \in 1 .. top
        BY <1>1, <1>3, <4>1
      <4>3. IovEnd(j) \in Nat /\ IovEnd(j) <= IovEnd(c + 1) /\ IovEnd(c + 1) \in Nat
        BY <4>2, IovInOrder
      <4>4. IovEnd(j) <= done
        BY <1>2, <4>1, <4>3
      <4> QED
        BY <4>2, <4>4 DEF K
    <3> HIDE DEF K
    <3>2. 1 .. c + 1 \subseteq K
      BY <3>1
    <3>3. Cardinality(1 .. c + 1) = c + 1
      BY <1>3, FS_Interval
    <3>4. Cardinality(1 .. c + 1) <= Cardinality(K)
      BY <1>3, <3>2, FS_Subset
    <3> QED
      BY <1>3, <3>3, <3>4
  <2> QED
    BY <2>1
<1>5. c + 1 <= top => IovEnd(c + 1) > done
  <2>1. c + 1 \in Nat /\ c + 1 >= 1
    BY <1>3
  <2>2. IovEnd(c + 1) \in Nat
    BY <2>1, IovInOrder
  <2> DEFINE x == c + 1
  <2>3. x \in Nat /\ x >= 1 /\ x \notin K /\ IovEnd(x) \in Nat
    BY <1>4, <2>1, <2>2
  <2> HIDE DEF x
  <2>4. x <= top => IovEnd(x) > done
    BY <1>1, <1>2, <2>3
  <2> QED
    BY <2>4 DEF x
<1>6. Reach = IovEnd(m)
  BY DEF Reach
<1>7. IovEnd(top) = BatchBytes
  <2>1. top \div 2 = BatchSize /\ top % 2 = 0
    BY <1>1
  <2>2. BatchSize * FrameBytes \in Nat
    BY FrameBytesFacts
  <2> QED
    BY <2>1, <2>2 DEF IovEnd, BatchBytes
<1> HIDE DEF K, c
<1>8. m \in {c + IovMax, top} /\ m <= top /\ m <= c + IovMax
  <2> DEFINE a == c + IovMax
  <2>1. a \in Nat
    BY <1>1, <1>3
  <2> HIDE DEF a, top
  <2>2. \E x \in {a, top} : \A y \in {a, top} : x =< y
    BY <1>1, <2>1
  <2>3. Min({a, top}) \in {a, top} /\ \A y \in {a, top} : Min({a, top}) =< y
    BY <2>2 DEF Min
  <2> QED
    BY <2>3 DEF a
<1> HIDE DEF m, top
<1>9. Reach >= done /\ Reach \in Nat
  <2>1. CASE m = top
    BY <1>2, <1>6, <1>7, <2>1
  <2>2. CASE m # top
    <3>1. m = c + IovMax /\ c + 1 <= m /\ c + 1 <= top /\ m \in Nat /\ c + 1 \in Nat
      BY <1>1, <1>3, <1>8, <2>2
    <3>2. IovEnd(c + 1) \in Nat /\ IovEnd(c + 1) <= IovEnd(m) /\ IovEnd(m) \in Nat
      BY <3>1, IovInOrder
    <3> QED
      BY <1>2, <1>5, <1>6, <3>1, <3>2
  <2> QED
    BY <2>1, <2>2
<1> QED
  BY <1>1, <1>2, <1>9 DEF Lengths

\* The bytes of two sequences put together.
LEMMA JoinAt ==
  ASSUME NEW s, NEW t, IsSeq(s), IsSeq(t)
  PROVE  /\ Len(s) \in Nat /\ Len(t) \in Nat /\ Len(s \o t) = Len(s) + Len(t)
         /\ \A x \in 1 .. Len(s) : (s \o t)[x] = s[x]
         /\ \A y \in 1 .. Len(t) : (s \o t)[Len(s) + y] = t[y]
<1>1. PICK S : s \in Seq(S)
  BY DEF IsSeq
<1>2. PICK T : t \in Seq(T)
  BY DEF IsSeq
<1>3. Len(s) \in Nat /\ Len(t) \in Nat /\ Len(s \o t) = Len(s) + Len(t)
  BY <1>1, <1>2
<1>4. \A x \in 1 .. Len(s) : (s \o t)[x] = s[x]
  BY <1>1, <1>2
<1>5. \A y \in 1 .. Len(t) : (s \o t)[Len(s) + y] = t[y]
  BY <1>1, <1>2
<1> QED
  BY <1>3, <1>4, <1>5

\* What writev puts behind the bytes of the current part.
LEMMA Written ==
  ASSUME PartsLater, Files, Inside, fd \in Parts, NEW n \in Lengths, Write(n)
  PROVE  /\ n \in Nat /\ Len(part[fd]) \in Nat /\ Len(part'[fd]) = Len(part[fd]) + n
         /\ \A x \in 1 .. Len(part[fd]) : part'[fd][x] = part[fd][x]
         /\ \A y \in 1 .. n : part'[fd][Len(part[fd]) + y] = IovBytes[done + y]
         /\ \A p \in Parts : p # fd => part'[p] = part[p]
<1> DEFINE bytes == SubSeq(IovBytes, done + 1, done + n)
<1>1. n \in Nat /\ done \in Nat /\ done + n \in 0 .. BatchBytes /\ BatchBytes \in Nat
  BY WriteForward, WriteInside, BytesTyped DEF Files, Inside
<1>2. part' = [part EXCEPT ![fd] = part[fd] \o bytes]
  BY DEF Write
<1>3. IsSeq(bytes)
  BY <1>1, SubSeqIsSeq
<1>4. Len(bytes) = n /\ \A y \in 1 .. n : bytes[y] = IovBytes[done + y]
  <2> DEFINE T == {IovBytes[k] : k \in (done + 1) .. (done + n)}
  <2>1. \A k \in (done + 1) .. (done + n) : IovBytes[k] \in T
    OBVIOUS
  <2> HIDE DEF T
  <2>2. /\ Len(bytes) = (done + n) - (done + 1) + 1
        /\ \A y \in 1 .. (done + n) - (done + 1) + 1 : bytes[y] = IovBytes[(done + 1) + y - 1]
    <3>1. done + 1 \in Int /\ done + n \in Int /\ done + 1 <= (done + n) + 1
      BY <1>1
    <3> QED
      BY <2>1, <3>1, SubSeqProperties
  <2>3. (done + n) - (done + 1) + 1 = n /\ \A y \in 1 .. n : (done + 1) + y - 1 = done + y
    BY <1>1
  <2> HIDE DEF bytes
  <2> QED
    BY <2>2, <2>3
<1> HIDE DEF bytes
<1>5. ASSUME NEW p \in Parts
      PROVE  part'[p] = IF p = fd THEN part[p] \o bytes ELSE part[p]
  BY <1>2 DEF Files
<1>6. IsSeq(part[fd]) /\ part'[fd] = part[fd] \o bytes
  BY <1>5 DEF Files
<1> DEFINE s == part[fd]
<1> HIDE DEF s
<1>7. /\ Len(s) \in Nat /\ Len(s \o bytes) = Len(s) + Len(bytes)
      /\ \A x \in 1 .. Len(s) : (s \o bytes)[x] = s[x]
      /\ \A y \in 1 .. Len(bytes) : (s \o bytes)[Len(s) + y] = bytes[y]
  BY <1>3, <1>6, JoinAt DEF s
<1> QED
  BY <1>1, <1>4, <1>5, <1>6, <1>7 DEF s

(***************************************************************************)
(* The batches keep their order from recv2mem to the files.                *)
(***************************************************************************)
\* The batches in their order: those in the buffer, the one the recorder
\* holds, before or after the conversion, and the one recv2mem offers.
Numbered ==
  /\ \A a \in 1 .. Stored :
       batch[Back(pool_idx, a)] = ReceivedBatches[bits][finished + Taken + Stored - a]
  /\ stage = "prepare" => batch[held] = ReceivedBatches[bits][finished]
  /\ stage = "write" => \E avx \in BOOLEAN :
       batch[held] = Converted(ReceivedBatches[bits][finished], avx)
  /\ pc["producer"] \in Calling => batch[pool_idx] = ReceivedBatches[bits][filled - 1]

\* Different ages, different batches of the pool.
LEMMA BackApart ==
  ASSUME pool_idx \in PoolIdx, NEW a \in 0 .. PoolSize - 1, NEW b \in 0 .. PoolSize - 1, a # b
  PROVE  Back(pool_idx, a) # Back(pool_idx, b)
<1>1. pool_idx \in 0 .. PoolSize - 1 /\ PoolSize \in Nat
  BY BackFacts DEF PoolIdx
<1> QED
  BY <1>1 DEF Back

\* A step in which no batch moves but out of the recorder.
LEMMA NumberedKept ==
  ASSUME Numbered, Stored' = Stored, UNCHANGED <<bits, batch, pool_idx, filled>>,
         finished' + Taken' = finished + Taken,
         stage' \in {"idle", "take"} \/ UNCHANGED <<stage, held, finished>>,
         pc'["producer"] \in Calling <=> pc["producer"] \in Calling
  PROVE  Numbered'
<1>1. ReceivedBatches[bits]' = ReceivedBatches[bits]
  BY DEF ReceivedBatches, Received
<1>2. (\A a \in 1 .. Stored :
        batch[Back(pool_idx, a)] = ReceivedBatches[bits][finished + Taken + Stored - a])'
  BY <1>1 DEF Numbered, Back
<1>3. (stage = "prepare" => batch[held] = ReceivedBatches[bits][finished])'
  BY <1>1 DEF Numbered
<1>4. (stage = "write" => \E avx \in BOOLEAN :
        batch[held] = Converted(ReceivedBatches[bits][finished], avx))'
  BY <1>1 DEF Numbered, Converted, Frames
<1>5. (pc["producer"] \in Calling => batch[pool_idx] = ReceivedBatches[bits][filled - 1])'
  BY <1>1 DEF Numbered, Calling
<1> QED
  BY <1>2, <1>3, <1>4, <1>5 DEF Numbered

\* The pool as the recorder and the producer see it.
LEMMA PoolPlaces ==
  ASSUME TypesInv
  PROVE  /\ Stored \in 0 .. Capacity /\ pool_idx \in PoolIdx /\ PoolSize = Capacity + 2
         /\ Stored + 1 \in 0 .. PoolSize - 1
         /\ batch = [x \in PoolIdx |-> batch[x]]
         /\ \A a \in 1 .. Stored + 1 : Back(pool_idx, a) \in PoolIdx /\ Back(pool_idx, a) # pool_idx
         /\ \A a \in 1 .. Stored : Back(pool_idx, a) # Back(pool_idx, Stored + 1)
         /\ stage \in {"prepare", "write"} => held = Back(pool_idx, Stored + 1)
         /\ bits \in BitDepths
<1>1. /\ Stored \in 0 .. Capacity /\ pool_idx \in PoolIdx /\ bits \in BitDepths
      /\ batch = [x \in PoolIdx |-> batch[x]]
  BY DEF TypesInv, RecorderInv, BufferInv, BufferTypes, Contents, Pool, Files
<1>2. PoolSize = Capacity + 2 /\ PoolSize \in Nat
  BY <1>1, BackFacts
<1>3. Stored + 1 \in 0 .. PoolSize - 1
  BY <1>1, <1>2
<1>4. \A a \in 1 .. Stored + 1 : Back(pool_idx, a) \in PoolIdx /\ Back(pool_idx, a) # pool_idx
  <2> TAKE a \in 1 .. Stored + 1
  <2>1. a \in 1 .. PoolSize - 1 /\ a \in 0 .. PoolSize - 1
    BY <1>1, <1>2
  <2> QED
    BY <1>1, <2>1, BackFacts
<1>5. \A a \in 1 .. Stored : Back(pool_idx, a) # Back(pool_idx, Stored + 1)
  <2> TAKE a \in 1 .. Stored
  <2>1. a \in 0 .. PoolSize - 1 /\ a # Stored + 1
    BY <1>1, <1>2
  <2> QED
    BY <1>1, <1>3, <2>1, BackApart
<1>6. stage \in {"prepare", "write"} => held = Back(pool_idx, Stored + 1)
  BY DEF TypesInv, RecorderInv, Contents, Holding
<1> QED
  BY <1>1, <1>2, <1>3, <1>4, <1>5, <1>6

\* recv2mem fills the next batch of the stream.
LEMMA NumberedFill ==
  ASSUME TypesInv, Numbered, Fill
  PROVE  Numbered'
<1>1. /\ filled' = filled + 1 /\ Enter("producer")
      /\ batch' = [batch EXCEPT ![pool_idx] = ReceivedBatches[bits][filled]]
      /\ UNCHANGED <<bits, pool_idx, recorderVars>> /\ filled \in Int
  BY DEF Fill, TypesInv, Tallies
<1>2. Stored' = Stored
  BY <1>1, EnterMovesNothing DEF TypesInv, RecorderInv, Threads
<1>3. UNCHANGED <<held, stage, finished>> /\ Taken' = Taken
  BY <1>1 DEF recorderVars, Taken
<1>4. ReceivedBatches[bits]' = ReceivedBatches[bits]
  BY <1>1 DEF ReceivedBatches, Received
<1>5. ASSUME NEW x \in PoolIdx
      PROVE  batch'[x] = IF x = pool_idx THEN ReceivedBatches[bits][filled] ELSE batch[x]
  BY <1>1, PoolPlaces
<1>6. (\A a \in 1 .. Stored :
        batch[Back(pool_idx, a)] = ReceivedBatches[bits][finished + Taken + Stored - a])'
  <2> SUFFICES ASSUME NEW a \in 1 .. Stored
               PROVE  batch'[Back(pool_idx, a)]
                        = ReceivedBatches[bits][finished + Taken + Stored - a]
    BY <1>1, <1>2, <1>3, <1>4 DEF Back
  <2>1. Back(pool_idx, a) \in PoolIdx /\ Back(pool_idx, a) # pool_idx
    BY PoolPlaces
  <2> QED
    BY <1>5, <2>1 DEF Numbered
<1>7. stage \in {"prepare", "write"} => batch'[held] = batch[held]
  <2>1. Stored + 1 \in 1 .. Stored + 1
    BY PoolPlaces
  <2> QED
    BY <1>5, <2>1, PoolPlaces
<1>8. (stage = "prepare" => batch[held] = ReceivedBatches[bits][finished])'
  BY <1>3, <1>4, <1>7 DEF Numbered
<1>9. (stage = "write" => \E avx \in BOOLEAN :
        batch[held] = Converted(ReceivedBatches[bits][finished], avx))'
  BY <1>1, <1>3, <1>4, <1>7 DEF Numbered, Converted, Frames
<1>10. (batch[pool_idx] = ReceivedBatches[bits][filled - 1])'
  BY <1>1, <1>4, <1>5, PoolPlaces
<1> QED
  BY <1>6, <1>8, <1>9, <1>10 DEF Numbered

\* It stores it behind the others.
LEMMA NumberedPublish ==
  ASSUME TypesInv, Numbered, Publish
  PROVE  Numbered'
<1>1. /\ Store(pool_idx) /\ pool_idx' = (pool_idx + 1) % PoolSize
      /\ UNCHANGED <<bits, batch, filled, recorderVars>>
  BY DEF Publish
<1>2. Stored' = Stored + 1 /\ Stored < Capacity
  BY <1>1, StoreStep, Room DEF TypesInv, RecorderInv, Store
<1>3. UNCHANGED <<held, stage, finished>> /\ Taken' = Taken
  BY <1>1 DEF recorderVars, Taken
<1>4. ReceivedBatches[bits]' = ReceivedBatches[bits]
  BY <1>1 DEF ReceivedBatches, Received
<1>5. pc["producer"] = "copy" /\ pc'["producer"] = "signal"
  BY <1>1 DEF Store, TypesInv, RecorderInv, BufferInv, BufferTypes, Threads
<1>6. filled = finished + Taken + Stored + 1 /\ finished \in Nat /\ Taken \in 0 .. 1 /\ Stored \in 0 .. Capacity
  BY <1>5, PoolPlaces DEF TypesInv, Tallies, Offered, Calling, Taken
<1>7. batch[pool_idx] = ReceivedBatches[bits][filled - 1]
  BY <1>5 DEF Numbered, Calling
<1>8. /\ Back(pool_idx', 1) = pool_idx
      /\ \A a \in 1 .. PoolSize - 2 : Back(pool_idx', a + 1) = Back(pool_idx, a)
      /\ PoolSize - 2 = Capacity
  BY <1>1, PoolPlaces, BackFacts
<1>9. ASSUME NEW a \in 1 .. Stored + 1
      PROVE  batch[Back(pool_idx', a)]
               = ReceivedBatches[bits][finished + Taken + (Stored + 1) - a]
  <2>1. CASE a = 1
    <3>1. finished + Taken + (Stored + 1) - a = filled - 1
      BY <1>6, <2>1
    <3> QED
      BY <1>7, <1>8, <2>1, <3>1
  <2>2. CASE a # 1
    <3> DEFINE c == a - 1
    <3>1. /\ c \in 1 .. Stored /\ c \in 1 .. PoolSize - 2 /\ a = c + 1
          /\ finished + Taken + (Stored + 1) - a = finished + Taken + Stored - c
      BY <1>2, <1>6, <1>8, <2>2
    <3> HIDE DEF c
    <3>2. Back(pool_idx', a) = Back(pool_idx, c)
      BY <1>8, <3>1
    <3> QED
      BY <3>1, <3>2 DEF Numbered
  <2> QED
    BY <2>1, <2>2
<1>10. (\A a \in 1 .. Stored :
        batch[Back(pool_idx, a)] = ReceivedBatches[bits][finished + Taken + Stored - a])'
  BY <1>1, <1>2, <1>3, <1>4, <1>9 DEF Back
<1>11. (stage = "prepare" => batch[held] = ReceivedBatches[bits][finished])'
  BY <1>1, <1>3, <1>4 DEF Numbered
<1>12. (stage = "write" => \E avx \in BOOLEAN :
        batch[held] = Converted(ReceivedBatches[bits][finished], avx))'
  BY <1>1, <1>3, <1>4 DEF Numbered, Converted, Frames
<1> QED
  BY <1>5, <1>10, <1>11, <1>12 DEF Numbered, Calling

\* recoder() takes the oldest one.
LEMMA NumberedDequeue ==
  ASSUME TypesInv, Numbered, Dequeue
  PROVE  Numbered'
<1>1. /\ Fetch /\ held' = data[nextItem % Size] /\ stage' = "prepare"
      /\ UNCHANGED <<bits, batch, pool_idx, filled, finished>>
  BY DEF Dequeue, producerVars
<1>2. Stored' = Stored - 1
  BY <1>1, FetchStep DEF TypesInv, RecorderInv
<1>3. /\ pc["consumer"] = "copy" /\ pc'["producer"] = pc["producer"]
  BY <1>1 DEF Fetch, TypesInv, RecorderInv, BufferInv, BufferTypes, Threads
<1>4. Stored \in 1 .. Capacity /\ nextItem \in Int /\ finished \in Nat
  BY <1>3, Room DEF TypesInv, RecorderInv, BufferInv, BufferTypes, Tallies
<1>5. stage = "take" /\ Taken = 0 /\ Taken' = 1
  BY <1>1, <1>3 DEF TypesInv, Tallies, Calling, Taken
<1>6. ReceivedBatches[bits]' = ReceivedBatches[bits]
  BY <1>1 DEF ReceivedBatches, Received
<1>7. held' = Back(pool_idx, Stored)
  <2>1. 0 \in 0 .. Stored - 1 /\ nextItem + 0 = nextItem /\ Stored - 0 = Stored
    BY <1>4
  <2>2. data[(nextItem + 0) % Size] = Back(pool_idx, Stored - 0)
    BY <2>1 DEF TypesInv, RecorderInv, Contents
  <2> QED
    BY <1>1, <2>1, <2>2
<1>8. (batch[held] = ReceivedBatches[bits][finished])'
  <2>1. Stored \in 1 .. Stored /\ finished + Taken + Stored - Stored = finished
    BY <1>4, <1>5
  <2>2. batch[Back(pool_idx, Stored)] = ReceivedBatches[bits][finished + Taken + Stored - Stored]
    BY <2>1 DEF Numbered
  <2> QED
    BY <1>1, <1>6, <1>7, <2>1, <2>2
<1>9. ASSUME NEW a \in 1 .. Stored - 1
      PROVE  batch[Back(pool_idx, a)] = ReceivedBatches[bits][finished + 1 + (Stored - 1) - a]
  <2>1. a \in 1 .. Stored /\ finished + 1 + (Stored - 1) - a = finished + Taken + Stored - a
    BY <1>4, <1>5
  <2> QED
    BY <2>1 DEF Numbered
<1>10. (\A a \in 1 .. Stored :
        batch[Back(pool_idx, a)] = ReceivedBatches[bits][finished + Taken + Stored - a])'
  BY <1>1, <1>2, <1>5, <1>6, <1>9 DEF Back
<1>11. (pc["producer"] \in Calling => batch[pool_idx] = ReceivedBatches[bits][filled - 1])'
  BY <1>1, <1>3, <1>6 DEF Numbered, Calling
<1> QED
  BY <1>1, <1>8, <1>10, <1>11 DEF Numbered

\* It converts it.
LEMMA NumberedPrepare ==
  ASSUME TypesInv, Numbered, NEW avx \in BOOLEAN, Prepare(avx)
  PROVE  Numbered'
<1>1. /\ stage = "prepare" /\ stage' = "write" /\ UNCHANGED bufVars
      /\ batch' = [batch EXCEPT ![held] = Converted(batch[held], avx)]
      /\ UNCHANGED <<bits, pool_idx, filled, held, finished>>
  BY DEF Prepare, Converted
<1>2. Stored' = Stored /\ pc' = pc /\ Taken' = Taken
  BY <1>1, OutsideSteps DEF TypesInv, RecorderInv, bufVars, Taken
<1>3. ReceivedBatches[bits]' = ReceivedBatches[bits]
  BY <1>1 DEF ReceivedBatches, Received
<1>4. held = Back(pool_idx, Stored + 1) /\ held \in PoolIdx /\ held # pool_idx
  <2>1. Stored + 1 \in 1 .. Stored + 1
    BY PoolPlaces
  <2> QED
    BY <1>1, <2>1, PoolPlaces
<1> DEFINE b == Converted(batch[held], avx)
<1>5. b = Converted(ReceivedBatches[bits][finished], avx)
  BY <1>1 DEF Numbered
<1> HIDE DEF b
<1>6. ASSUME NEW x \in PoolIdx
      PROVE  batch'[x] = IF x = held THEN b ELSE batch[x]
  BY <1>1, PoolPlaces DEF b
<1>7. (\A a \in 1 .. Stored :
        batch[Back(pool_idx, a)] = ReceivedBatches[bits][finished + Taken + Stored - a])'
  <2> SUFFICES ASSUME NEW a \in 1 .. Stored
               PROVE  batch'[Back(pool_idx, a)]
                        = ReceivedBatches[bits][finished + Taken + Stored - a]
    BY <1>1, <1>2, <1>3 DEF Back
  <2>1. a \in 1 .. Stored + 1
    BY PoolPlaces
  <2>2. Back(pool_idx, a) \in PoolIdx /\ Back(pool_idx, a) # held
    BY <1>4, <2>1, PoolPlaces
  <2> QED
    BY <1>6, <2>2 DEF Numbered
<1>8. (\E x \in BOOLEAN : batch[held] = Converted(ReceivedBatches[bits][finished], x))'
  <2>1. batch'[held'] = b
    BY <1>1, <1>4, <1>6
  <2>2. b = Converted(ReceivedBatches[bits][finished], avx)'
    BY <1>1, <1>3, <1>5 DEF Converted, Frames
  <2> QED
    BY <2>1, <2>2
<1>9. (pc["producer"] \in Calling => batch[pool_idx] = ReceivedBatches[bits][filled - 1])'
  BY <1>1, <1>2, <1>3, <1>4, <1>6, PoolPlaces DEF Numbered, Calling
<1> QED
  BY <1>1, <1>7, <1>8, <1>9 DEF Numbered

(***************************************************************************)
(* The parts hold the stream without gaps.                                 *)
(***************************************************************************)
\* Part p holds the recording from batch b on.
Run(p, b) == \A n \in 1 .. Len(part[p]) : part[p][n] = ByteAt(b * BatchBytes + n - 1)

\* Bytes of the batch that is being written.
Pending == IF stage = "write" THEN done ELSE 0

\* A part no write failed on holds batches that follow one another, and the
\* part that is open those up to the current byte.
Recorded ==
  /\ damaged \subseteq 0 .. fd
  /\ \A p \in Parts : p \notin damaged /\ p # fd =>
       \E b \in Nat, c \in Nat : Run(p, b) /\ Len(part[p]) = c * BatchBytes
  /\ fd \notin damaged => \E b \in Nat :
       Run(fd, b) /\ b * BatchBytes + Len(part[fd]) = finished * BatchBytes + Pending

\* The size the recorder believes its file to have is right; the batch that
\* is written fits into its part.
Sizes ==
  /\ current_size = Len(part[fd])
  /\ BatchBytes <= MaxFileSize =>
       /\ \A p \in Parts : p \notin unrotated => Len(part[p]) <= MaxFileSize
       /\ stage = "write" /\ fd \notin unrotated =>
            Len(part[fd]) - done + BatchBytes <= MaxFileSize

\* A part that ends with a batch.
LEMMA WholeBatches ==
  ASSUME NEW B \in Nat \ {0}, NEW f \in Nat, NEW b \in Nat, NEW L \in Nat, b * B + L = f * B
  PROVE  f - b \in Nat /\ L = (f - b) * B
<1>1. f * B \in Nat /\ b * B \in Nat /\ (f - b) * B = f * B - b * B
  OBVIOUS
<1>2. f >= b
  <2>1. ASSUME f + 1 <= b PROVE FALSE
    <3> DEFINE d == b - (f + 1)
    <3>1. d \in Nat /\ b = f + 1 + d
      BY <2>1
    <3> HIDE DEF d
    <3>2. (f + 1 + d) * B = f * B + B + d * B /\ d * B \in Nat
      BY <3>1
    <3>3. b * B = f * B + B + d * B
      BY <3>1, <3>2
    <3> DEFINE x == f * B
               y == b * B
               z == d * B
    <3>4. x \in Nat /\ z \in Nat /\ y = x + B + z /\ y + L = x
      BY <1>1, <3>2, <3>3
    <3> HIDE DEF x, y, z
    <3> QED
      BY <3>4
  <2> QED
    BY <2>1
<1> DEFINE x == f * B
           y == b * B
           z == (f - b) * B
<1>3. x \in Nat /\ y \in Nat /\ z = x - y /\ y + L = x
  BY <1>1
<1> HIDE DEF x, y, z
<1>4. L = z
  BY <1>3
<1> QED
  BY <1>2, <1>4 DEF z

\* A part that is left alone.
LEMMA RunSame ==
  ASSUME bits' = bits, NEW p, part'[p] = part[p], NEW b
  PROVE  (BatchBytes' = BatchBytes) /\ (Run(p, b)' <=> Run(p, b))
<1>1. FrameBytes' = FrameBytes /\ BatchBytes' = BatchBytes
  BY DEF FrameBytes, BatchBytes
<1>2. ASSUME NEW pos PROVE ByteAt(pos)' = ByteAt(pos)
  BY <1>1 DEF ByteAt, FrameByte
<1> QED
  BY <1>1, <1>2 DEF Run

\* A step that touches no file and writes nothing.
LEMMA RecordedKept ==
  ASSUME Recorded, Sizes, UNCHANGED <<bits, part, fd, current_size, damaged, unrotated, finished>>,
         Pending' = Pending, stage' = "write" => stage = "write" /\ done' = done
  PROVE  Recorded' /\ Sizes'
<1>1. BatchBytes' = BatchBytes /\ \A p, b : Run(p, b)' <=> Run(p, b)
  BY RunSame
<1>2. (damaged \subseteq 0 .. fd)'
  BY DEF Recorded
<1>3. (\A p \in Parts : p \notin damaged /\ p # fd =>
        \E b \in Nat, c \in Nat : Run(p, b) /\ Len(part[p]) = c * BatchBytes)'
  BY <1>1 DEF Recorded, Parts
<1>4. (fd \notin damaged => \E b \in Nat :
        Run(fd, b) /\ b * BatchBytes + Len(part[fd]) = finished * BatchBytes + Pending)'
  BY <1>1 DEF Recorded
<1>5. Sizes'
  BY <1>1 DEF Sizes, Parts
<1> QED
  BY <1>2, <1>3, <1>4, <1>5 DEF Recorded

\* A new part: the old one ends with a whole batch, the new one is empty.
LEMMA RecordedCreate ==
  ASSUME TypesInv, Recorded, Sizes, NEW avx \in BOOLEAN, Prepare(avx), RotationDue, CreateFile,
         UNCHANGED unrotated, fd' \in Parts
  PROVE  Recorded' /\ Sizes'
<1>1. /\ part' = [part EXCEPT ![file_index] = <<>>] /\ fd' = file_index /\ current_size' = 0
      /\ stage = "prepare" /\ stage' = "write" /\ done' = 0
      /\ UNCHANGED <<bits, finished, damaged>>
  BY DEF CreateFile, Prepare
<1>2. /\ part = [p \in Parts |-> part[p]] /\ \A p \in Parts : IsSeq(part[p])
      /\ bits \in BitDepths /\ file_index \in Nat /\ fd \in Nat /\ fd < file_index
      /\ finished \in Nat
      /\ \A p \in Parts : p >= file_index => part[p] = <<>>
  BY DEF TypesInv, RecorderInv, PartsLater, Files, Tallies
<1>3. \A p \in Parts : part'[p] = part[p]
  BY <1>1, <1>2
<1>4. part'[fd'] = <<>> /\ Len(part'[fd']) = 0
  BY <1>1, <1>2, <1>3
<1>5. BatchBytes' = BatchBytes /\ \A p \in Parts : \A b : Run(p, b)' <=> Run(p, b)
  <2>1. BatchBytes' = BatchBytes
    BY <1>1 DEF BatchBytes, FrameBytes
  <2> QED
    BY <1>1, <1>3, <2>1, RunSame
<1>6. BatchBytes \in Nat \ {0}
  BY <1>2, FrameBytesFacts
<1>7. Pending = 0 /\ Pending' = 0
  BY <1>1 DEF Pending
<1>8. (damaged \subseteq 0 .. fd)'
  BY <1>1, <1>2 DEF Recorded
<1>9. fd \in Parts
  BY TypesFollow DEF TypeOK
<1>10. ASSUME NEW p \in Parts, p \notin damaged, p # fd'
       PROVE  \E b \in Nat, c \in Nat : Run(p, b)' /\ Len(part'[p]) = c * BatchBytes
  <2>1. CASE p # fd
    BY <1>3, <1>5, <1>10, <2>1 DEF Recorded
  <2>2. CASE p = fd
    <3>1. PICK b \in Nat : Run(fd, b) /\ b * BatchBytes + Len(part[fd]) = finished * BatchBytes + Pending
      BY <1>10, <2>2 DEF Recorded
    <3>2. Len(part[fd]) \in Nat
      BY <1>2, <1>9 DEF IsSeq
    <3> DEFINE B == BatchBytes
               L == Len(part[fd])
    <3>3. b * B + L = finished * B /\ B \in Nat \ {0} /\ L \in Nat
      BY <1>2, <1>6, <1>7, <3>1, <3>2
    <3> HIDE DEF B, L
    <3>5. finished - b \in Nat /\ L = (finished - b) * B
      BY <1>2, <3>3, WholeBatches
    <3>6. Len(part'[p]) = (finished - b) * BatchBytes
      BY <1>3, <2>2, <3>5 DEF B, L
    <3>7. Run(p, b)'
      BY <1>5, <2>2, <3>1
    <3> QED
      BY <3>5, <3>6, <3>7
  <2> QED
    BY <2>1, <2>2
<1>11. (\A p \in Parts : p \notin damaged /\ p # fd =>
         \E b \in Nat, c \in Nat : Run(p, b) /\ Len(part[p]) = c * BatchBytes)'
  BY <1>1, <1>5, <1>10 DEF Parts
<1>12. (\E b \in Nat :
         Run(fd, b) /\ b * BatchBytes + Len(part[fd]) = finished * BatchBytes + Pending)'
  <2>1. Run(fd, finished)'
    BY <1>4 DEF Run
  <2>2. finished * BatchBytes \in Nat
    BY <1>2, <1>6
  <2>3. (finished * BatchBytes + Len(part[fd]) = finished * BatchBytes + Pending)'
    BY <1>1, <1>4, <1>5, <1>7, <2>2
  <2>4. finished' \in Nat /\ finished' = finished
    BY <1>1, <1>2
  <2> QED
    BY <2>1, <2>3, <2>4
<1>13. Sizes'
  <2>1. (current_size = Len(part[fd]))'
    BY <1>1, <1>4
  <2>2. BatchBytes <= MaxFileSize =>
          \A p \in Parts : p \notin unrotated' => Len(part'[p]) <= MaxFileSize
    BY <1>3 DEF Sizes
  <2>3. Len(part'[fd']) - done' + BatchBytes = BatchBytes
    BY <1>1, <1>4, <1>6
  <2> QED
    BY <1>5, <2>1, <2>2, <2>3 DEF Sizes, Parts
<1> QED
  BY <1>8, <1>11, <1>12, <1>13 DEF Recorded

\* The batch goes to the part that is open.
LEMMA RecordedNoCreate ==
  ASSUME TypesInv, Recorded, Sizes, NEW avx \in BOOLEAN, Prepare(avx),
         UNCHANGED <<part, fd, current_size>>,
         \/ RotationDue /\ unrotated' = unrotated \cup {fd}
         \/ ~RotationDue /\ UNCHANGED unrotated
  PROVE  Recorded' /\ Sizes'
<1>1. /\ stage = "prepare" /\ stage' = "write" /\ done' = 0
      /\ UNCHANGED <<bits, finished, damaged>>
  BY DEF Prepare
<1>2. BatchBytes' = BatchBytes /\ \A p, b : Run(p, b)' <=> Run(p, b)
  BY <1>1, RunSame
<1>3. Pending = 0 /\ Pending' = 0
  BY <1>1 DEF Pending
<1>4. BatchBytes \in Nat \ {0} /\ fd \in Parts
  BY FrameBytesFacts, TypesFollow DEF TypesInv, RecorderInv, Files, TypeOK
<1>5. Len(part[fd]) \in Nat
  BY <1>4 DEF TypesInv, RecorderInv, Files, IsSeq
<1>6. (damaged \subseteq 0 .. fd)'
  BY <1>1 DEF Recorded
<1>7. (\A p \in Parts : p \notin damaged /\ p # fd =>
        \E b \in Nat, c \in Nat : Run(p, b) /\ Len(part[p]) = c * BatchBytes)'
  BY <1>1, <1>2 DEF Recorded, Parts
<1>8. (fd \notin damaged => \E b \in Nat :
        Run(fd, b) /\ b * BatchBytes + Len(part[fd]) = finished * BatchBytes + Pending)'
  BY <1>1, <1>2, <1>3 DEF Recorded
<1>9. unrotated \subseteq unrotated'
  OBVIOUS
<1>10. BatchBytes <= MaxFileSize /\ fd \notin unrotated' =>
         Len(part[fd]) - 0 + BatchBytes <= MaxFileSize
  <2> DEFINE L == Len(part[fd])
             B == BatchBytes
  <2>1. ~(L # 0 /\ L + B > MaxFileSize) \/ fd \in unrotated'
    BY DEF RotationDue, Sizes
  <2>2. L \in Nat /\ B \in Nat
    BY <1>4, <1>5
  <2> HIDE DEF L, B
  <2>3. MaxFileSize \in Int
    BY RecorderAssumption
  <2>4. B <= MaxFileSize /\ fd \notin unrotated' => L - 0 + B <= MaxFileSize
    BY <2>1, <2>2, <2>3
  <2> QED
    BY <2>4 DEF L, B
<1>11. Sizes'
  BY <1>1, <1>2, <1>9, <1>10 DEF Sizes, Parts
<1> QED
  BY <1>6, <1>7, <1>8, <1>11 DEF Recorded

\* writev puts the next bytes of the recording behind those of the part.
LEMMA RecordedWrite ==
  ASSUME TypesInv, Numbered, Recorded, Sizes, stage = "write", NEW n \in Lengths, Write(n)
  PROVE  Recorded' /\ Sizes'
<1> DEFINE L == Len(part[fd])
           B == BatchBytes
<1>0. /\ PartsLater /\ Files /\ Inside /\ fd \in Parts /\ bits \in BitDepths
      /\ finished \in Nat /\ filled \in 0 .. MaxBatches
  BY TypesFollow DEF TypesInv, RecorderInv, Files, TypeOK, Tallies
<1>1. /\ n \in Nat /\ L \in Nat /\ Len(part'[fd]) = L + n
      /\ \A x \in 1 .. L : part'[fd][x] = part[fd][x]
      /\ \A y \in 1 .. n : part'[fd][L + y] = IovBytes[done + y]
      /\ \A p \in Parts : p # fd => part'[p] = part[p]
  BY <1>0, Written
<1>2. /\ done + n \in 0 .. B /\ done \in 0 .. B /\ B \in Nat \ {0}
  BY <1>0, WriteInside, FrameBytesFacts DEF Inside
<1>3. /\ current_size' = current_size + n /\ done' = done + n
      /\ stage' = IF done + n = B THEN "idle" ELSE "write"
      /\ finished' = IF done + n = B THEN finished + 1 ELSE finished
      /\ UNCHANGED <<bits, fd, damaged, unrotated>>
  BY DEF Write
<1>4. finished \in 0 .. MaxBatches - 1
  <2>1. filled = finished + 1 + Stored + Offered /\ Stored \in Nat /\ Offered \in Nat
    BY PoolPlaces DEF TypesInv, Tallies, Taken, Offered
  <2> QED
    BY <1>0, <2>1, RecorderAssumption
<1>5. \A m \in 1 .. B : IovBytes[m] = ByteAt(finished * B + m - 1)
  BY <1>0, <1>4, IovRight DEF Numbered
<1>6. /\ BatchBytes' = B /\ \A p \in Parts : p # fd => \A b : Run(p, b)' <=> Run(p, b)
      /\ \A pos : ByteAt(pos)' = ByteAt(pos)
  <2>1. BatchBytes' = B /\ FrameBytes' = FrameBytes
    BY <1>3 DEF BatchBytes, FrameBytes
  <2>2. \A pos : ByteAt(pos)' = ByteAt(pos)
    BY <1>3, <2>1 DEF ByteAt, FrameByte
  <2> QED
    BY <1>1, <1>3, <2>1, <2>2, RunSame
<1>7. Pending = done
  BY DEF Pending
<1>8. finished' * B + Pending' = finished * B + done + n
  <2>1. (finished + 1) * B = finished * B + B /\ finished * B \in Nat
    BY <1>0, <1>2
  <2>2. CASE done + n = B
    <3>1. Pending' = 0 /\ finished' = finished + 1
      BY <1>3, <2>2 DEF Pending
    <3> QED
      BY <1>1, <1>2, <2>1, <2>2, <3>1
  <2>3. CASE done + n # B
    <3>1. Pending' = done + n /\ finished' = finished
      BY <1>3, <2>3 DEF Pending
    <3> QED
      BY <1>1, <1>2, <2>1, <3>1
  <2> QED
    BY <2>2, <2>3
<1>9. (damaged \subseteq 0 .. fd)'
  BY <1>3 DEF Recorded
<1>10. (\A p \in Parts : p \notin damaged /\ p # fd =>
         \E b \in Nat, c \in Nat : Run(p, b) /\ Len(part[p]) = c * BatchBytes)'
  BY <1>1, <1>3, <1>6 DEF Recorded, Parts
<1>11. ASSUME fd \notin damaged
       PROVE  \E b \in Nat : Run(fd, b)' /\ b * B + Len(part'[fd]) = finished' * B + Pending'
  <2>1. PICK b \in Nat : Run(fd, b) /\ b * B + L = finished * B + done
    BY <1>7, <1>11 DEF Recorded
  <2> DEFINE u == b * B
             v == finished * B
  <2>2. u \in Nat /\ v \in Nat /\ u + L = v + done
    <3>1. u + L = v + done
      BY <2>1
    <3> HIDE DEF B
    <3>2. u \in Nat /\ v \in Nat
      BY <1>0, <1>2
    <3> QED
      BY <3>1, <3>2
  <2>3. \A x \in 1 .. L : part[fd][x] = ByteAt(u + x - 1)
    BY <2>1 DEF Run
  <2>4. \A m \in 1 .. B : IovBytes[m] = ByteAt(v + m - 1)
    BY <1>5
  <2>5. finished' * B + Pending' = v + done + n
    BY <1>8
  <2> HIDE DEF u, v, L, B
  <2>6. ASSUME NEW x \in 1 .. L + n
        PROVE  part'[fd][x] = ByteAt(u + x - 1)
    <3>1. CASE x <= L
      <4>1. x \in 1 .. L
        BY <1>1, <3>1
      <4> QED
        BY <1>1, <2>3, <4>1
    <3>2. CASE x > L
      <4> DEFINE y == x - L
      <4>1. y \in 1 .. n /\ x = L + y /\ done + y \in 1 .. B
        BY <1>1, <1>2, <3>2
      <4>2. v + (done + y) - 1 = u + x - 1
        BY <1>1, <1>2, <2>2, <4>1
      <4> HIDE DEF y
      <4>3. part'[fd][x] = ByteAt(v + (done + y) - 1)
        BY <1>1, <2>4, <4>1
      <4> QED
        BY <4>2, <4>3
    <3> QED
      BY <1>1, <3>1, <3>2
  <2>7. Run(fd, b)'
    <3>1. (b * BatchBytes)' = u
      BY <1>6 DEF u, B
    <3> QED
      BY <1>1, <1>3, <1>6, <2>6, <3>1 DEF Run
  <2>8. u + Len(part'[fd]) = v + done + n
    BY <1>1, <1>2, <2>2
  <2> QED
    BY <2>5, <2>7, <2>8 DEF u
<1>12. (fd \notin damaged => \E b \in Nat :
         Run(fd, b) /\ b * BatchBytes + Len(part[fd]) = finished * BatchBytes + Pending)'
  BY <1>3, <1>6, <1>11
<1>13. Sizes'
  <2>1. (current_size = Len(part[fd]))'
    BY <1>1, <1>3 DEF Sizes
  <2>2. MaxFileSize \in Nat
    BY RecorderAssumption
  <2>3. B <= MaxFileSize /\ fd \notin unrotated =>
          L - done + B <= MaxFileSize
    BY DEF Sizes
  <2>4. \A p \in Parts : B <= MaxFileSize /\ p \notin unrotated => Len(part[p]) <= MaxFileSize
    BY DEF Sizes
  <2> HIDE DEF L, B
  <2>5. B <= MaxFileSize /\ fd \notin unrotated =>
          L + n <= MaxFileSize /\ (L + n) - (done + n) + B <= MaxFileSize
    BY <1>1, <1>2, <2>2, <2>3
  <2>6. ASSUME NEW p \in Parts, B <= MaxFileSize, p \notin unrotated
        PROVE  Len(part'[p]) <= MaxFileSize
    <3>1. CASE p = fd
      BY <1>1, <2>5, <2>6, <3>1
    <3>2. CASE p # fd
      BY <1>1, <2>4, <2>6, <3>2
    <3> QED
      BY <3>1, <3>2
  <2>7. B <= MaxFileSize /\ fd \notin unrotated =>
          Len(part'[fd]) - done' + B <= MaxFileSize
    BY <1>1, <1>3, <2>5
  <2> QED
    BY <1>3, <1>6, <2>1, <2>6, <2>7 DEF Sizes, Parts
<1> QED
  BY <1>9, <1>10, <1>12, <1>13 DEF Recorded

\* writev fails: nothing is said of the part any more.
LEMMA RecordedFails ==
  ASSUME TypesInv, Recorded, Sizes, WriteFails
  PROVE  Recorded' /\ Sizes'
<1>1. /\ damaged' = damaged \cup {fd} /\ stage' = "idle"
      /\ UNCHANGED <<bits, part, fd, current_size, unrotated>>
  BY DEF WriteFails
<1>2. BatchBytes' = BatchBytes /\ \A p, b : Run(p, b)' <=> Run(p, b)
  BY <1>1, RunSame
<1>3. fd \in Nat
  BY DEF TypesInv, RecorderInv, PartsLater
<1>4. (damaged \subseteq 0 .. fd)'
  BY <1>1, <1>3 DEF Recorded
<1>5. (\A p \in Parts : p \notin damaged /\ p # fd =>
        \E b \in Nat, c \in Nat : Run(p, b) /\ Len(part[p]) = c * BatchBytes)'
  BY <1>1, <1>2 DEF Recorded, Parts
<1>6. fd' \in damaged'
  BY <1>1
<1>7. Sizes'
  BY <1>1, <1>2 DEF Sizes, Parts
<1> QED
  BY <1>4, <1>5, <1>6, <1>7 DEF Recorded

\* The invariant of the recording.
StreamInv == TypesInv /\ Numbered /\ Recorded /\ Sizes

\* The types in the next state.
LEMMA TypesFollowNext ==
  (TypesInv => TypeOK)'
<1>1. TypesInv => TypeOK
  BY TypesFollow
<1> QED
  BY <1>1, PTL

\* Every step keeps the invariant of the recording.
LEMMA NextStream ==
  ASSUME StreamInv, [Next]_vars
  PROVE  StreamInv'
<1>0. TypesInv /\ Numbered /\ Recorded /\ Sizes /\ TypesInv' /\ BufferInv
  BY NextTypes DEF StreamInv, TypesInv, RecorderInv
<1>1. fd' \in Parts
  BY <1>0, TypesFollowNext DEF TypeOK, Parts
<1> SUFFICES Numbered' /\ Recorded' /\ Sizes'
  BY <1>0 DEF StreamInv
<1>2. CASE Fill
  <2>1. UNCHANGED <<bits, part, fd, current_size, damaged, unrotated, finished, stage, done>>
    BY <1>2 DEF Fill, recorderVars, fileVars
  <2>2. Pending' = Pending
    BY <2>1 DEF Pending
  <2> QED
    BY <1>0, <1>2, <2>1, <2>2, NumberedFill, RecordedKept
<1>3. CASE Publish
  <2>1. UNCHANGED <<bits, part, fd, current_size, damaged, unrotated, finished, stage, done>>
    BY <1>3 DEF Publish, recorderVars, fileVars
  <2>2. Pending' = Pending
    BY <2>1 DEF Pending
  <2> QED
    BY <1>0, <1>3, <2>1, <2>2, NumberedPublish, RecordedKept
<1>4. ASSUME NEW t \in Threads, InBuffer(t)
      PROVE  Numbered' /\ Recorded' /\ Sizes'
  <2>1. Stored' = Stored /\ UNCHANGED <<bits, producerVars, recorderVars>> /\ SemaphoreStep(t)
    BY <1>0, <1>4, InBufferSteps DEF InBuffer
  <2>2. /\ UNCHANGED <<bits, part, fd, current_size, damaged, unrotated, finished, stage, done>>
        /\ UNCHANGED <<bits, batch, pool_idx, filled>> /\ UNCHANGED <<stage, held, finished>>
    BY <2>1 DEF producerVars, recorderVars, fileVars
  <2>3. Pending' = Pending /\ Taken' = Taken
    BY <2>2 DEF Pending, Taken
  <2>4. finished' + Taken' = finished + Taken
    BY <2>2, <2>3
  <2>5. pc'["producer"] \in Calling <=> pc["producer"] \in Calling
    BY <1>0, <2>1, StillCalling
  <2>6. Numbered'
    BY <1>0, <2>1, <2>2, <2>4, <2>5, NumberedKept
  <2> QED
    BY <1>0, <2>2, <2>3, <2>6, RecordedKept
<1>5. CASE CallDequeue
  <2>1. /\ stage = "idle" /\ stage' = "take" /\ Enter("consumer")
        /\ UNCHANGED <<bits, batch, pool_idx, filled>>
        /\ UNCHANGED <<bits, part, fd, current_size, damaged, unrotated, finished>>
    BY <1>5 DEF CallDequeue, producerVars, fileVars
  <2>2. Stored' = Stored
    BY <1>0, <2>1, EnterMovesNothing DEF Threads
  <2>3. pc'["producer"] = pc["producer"]
    BY <1>0, <2>1 DEF Enter, BufferInv, BufferTypes, Threads
  <2>4. Pending' = Pending /\ Taken' = Taken
    BY <2>1 DEF Pending, Taken
  <2>5. finished' + Taken' = finished + Taken
    BY <2>1, <2>4
  <2>6. Numbered'
    BY <1>0, <2>1, <2>2, <2>3, <2>5, NumberedKept
  <2> QED
    BY <1>0, <2>1, <2>4, <2>6, RecordedKept
<1>6. CASE Dequeue
  <2>1. /\ stage' = "prepare" /\ Fetch
        /\ UNCHANGED <<bits, part, fd, current_size, damaged, unrotated, finished>>
    BY <1>6 DEF Dequeue, fileVars
  <2>2. stage = "take"
    BY <1>0, <2>1 DEF Fetch, TypesInv, Tallies, Calling
  <2>3. Pending' = Pending
    BY <2>1, <2>2 DEF Pending
  <2> QED
    BY <1>0, <1>6, <2>1, <2>3, NumberedDequeue, RecordedKept
<1>7. ASSUME NEW avx \in BOOLEAN, Prepare(avx)
      PROVE  Numbered' /\ Recorded' /\ Sizes'
  <2>1. Numbered'
    BY <1>0, <1>7, NumberedPrepare
  <2>2. Rotate
    BY <1>7 DEF Prepare
  <2>3. CASE RotationDue /\ CreateFile /\ UNCHANGED <<faults, unrotated>>
    BY <1>0, <1>1, <1>7, <2>1, <2>3, RecordedCreate
  <2>4. CASE /\ RotationDue /\ unrotated' = unrotated \cup {fd}
             /\ UNCHANGED <<part, fd, file_index, current_size>>
    BY <1>0, <1>7, <2>1, <2>4, RecordedNoCreate
  <2>5. CASE ~RotationDue /\ UNCHANGED <<part, fd, file_index, current_size, faults, unrotated>>
    BY <1>0, <1>7, <2>1, <2>5, RecordedNoCreate
  <2> QED
    BY <2>2, <2>3, <2>4, <2>5 DEF Rotate
<1>8. ASSUME \/ (\E n \in Lengths : Write(n)) \/ WriteFails
      PROVE  Numbered'
  <2>1. /\ stage = "write" /\ UNCHANGED <<bits, batch, pool_idx, filled>> /\ UNCHANGED bufVars
        /\ \/ UNCHANGED <<stage, held, finished>>
           \/ stage' = "idle" /\ finished' = finished + 1
    BY <1>8 DEF Write, WriteFails, producerVars
  <2>2. Stored' = Stored /\ pc' = pc
    BY <1>0, <2>1, OutsideSteps DEF bufVars
  <2>3. finished' + Taken' = finished + Taken
    <3>1. finished \in Nat
      BY <1>0 DEF TypesInv, Tallies
    <3>2. Taken = 1
      BY <2>1 DEF Taken
    <3>3. CASE UNCHANGED <<stage, held, finished>>
      <4>1. Taken' = Taken /\ finished' = finished
        BY <3>3 DEF Taken
      <4> QED
        BY <4>1
    <3>4. CASE stage' = "idle" /\ finished' = finished + 1
      <4>1. Taken' = 0
        BY <3>4 DEF Taken
      <4> QED
        BY <3>1, <3>2, <3>4, <4>1
    <3> QED
      BY <2>1, <3>3, <3>4
  <2> QED
    BY <1>0, <2>1, <2>2, <2>3, NumberedKept
<1>9. ASSUME NEW n \in Lengths, Write(n)
      PROVE  Numbered' /\ Recorded' /\ Sizes'
  <2>1. stage = "write"
    BY <1>9 DEF Write
  <2> QED
    BY <1>0, <1>8, <1>9, <2>1, RecordedWrite
<1>10. CASE WriteFails
  BY <1>0, <1>8, <1>10, RecordedFails
<1>11. CASE UNCHANGED vars
  <2>1. /\ UNCHANGED bufVars
        /\ UNCHANGED <<bits, part, fd, current_size, damaged, unrotated, finished, stage, done>>
        /\ UNCHANGED <<bits, batch, pool_idx, filled>> /\ UNCHANGED <<stage, held, finished>>
    BY <1>11 DEF vars, producerVars, recorderVars, fileVars
  <2>2. Pending' = Pending /\ Taken' = Taken
    BY <2>1 DEF Pending, Taken
  <2>3. Stored' = Stored /\ pc' = pc /\ finished' + Taken' = finished + Taken
    BY <1>0, <2>1, <2>2, OutsideSteps DEF bufVars
  <2>4. Numbered'
    BY <1>0, <2>1, <2>3, NumberedKept
  <2> QED
    BY <1>0, <2>1, <2>2, <2>4, RecordedKept
<1> QED
  BY <1>2, <1>3, <1>4, <1>5, <1>6, <1>7, <1>9, <1>10, <1>11
     DEF Next, Producer, Recorder, Threads

\* The recorder starts with an empty part 0.
LEMMA InitStream ==
  ASSUME Init
  PROVE  StreamInv
<1>1. TypesInv
  BY InitTypes
<1>2. Stored = 0 /\ pc["producer"] = "work"
  BY BufferStarts DEF Init, BufferInit, Threads
<1>3. Numbered
  BY <1>2 DEF Init, Numbered, Calling
<1>4. /\ \A p \in Parts : part[p] = <<>> /\ Len(part[p]) = 0
      /\ fd = 0 /\ finished = 0 /\ stage = "idle" /\ damaged = {} /\ current_size = 0
  BY DEF Init
<1>5. fd \in Parts /\ BatchBytes \in Nat /\ MaxFileSize \in Nat
  BY <1>1, TypesFollow, BytesTyped, RecorderAssumption DEF Init, TypeOK
<1>6. \A p \in Parts : Run(p, 0)
  BY <1>4 DEF Run
<1>7. 0 * BatchBytes = 0
  BY <1>5
<1>8. Recorded
  BY <1>4, <1>5, <1>6, <1>7 DEF Recorded, Pending
<1>9. Sizes
  BY <1>4, <1>5 DEF Sizes
<1> QED
  BY <1>1, <1>3, <1>8, <1>9 DEF StreamInv

\* A part on which no write failed and none is under way has whole batches.
LEMMA IntactRun ==
  ASSUME StreamInv, NEW p \in Parts, Intact(p)
  PROVE  \E b \in Nat, c \in Nat : Run(p, b) /\ Len(part[p]) = c * BatchBytes
<1>1. CASE p # fd
  BY <1>1 DEF StreamInv, Recorded, Intact
<1>2. CASE p = fd
  <2>1. PICK b \in Nat : Run(fd, b) /\ b * BatchBytes + Len(part[fd]) = finished * BatchBytes + Pending
    BY <1>2 DEF StreamInv, Recorded, Intact
  <2>2. Pending = 0
    BY <1>2 DEF Intact, Pending
  <2>3. finished \in Nat /\ BatchBytes \in Nat \ {0}
    BY FrameBytesFacts DEF StreamInv, TypesInv, RecorderInv, Tallies, Files
  <2>4. Len(part[fd]) \in Nat
    BY <1>2 DEF StreamInv, TypesInv, RecorderInv, Files, IsSeq
  <2>5. finished * BatchBytes \in Nat
    BY <2>3
  <2>6. b * BatchBytes + Len(part[fd]) = finished * BatchBytes
    BY <2>1, <2>2, <2>5
  <2>7. finished - b \in Nat /\ Len(part[fd]) = (finished - b) * BatchBytes
    BY <2>3, <2>4, <2>6, WholeBatches
  <2> QED
    BY <1>2, <2>1, <2>7
<1> QED
  BY <1>1, <1>2

\* Frame k of such a part, byte by byte.
LEMMA FrameOfRun ==
  ASSUME bits \in BitDepths, NEW p, NEW b \in Nat, NEW c \in Nat, Run(p, b),
         Len(part[p]) = c * BatchBytes
  PROVE  /\ Len(part[p]) = (c * BatchSize) * FrameBytes /\ c * BatchSize \in Nat
         /\ b * BatchSize \in Nat
         /\ \A k \in 0 .. c * BatchSize - 1 : \A j \in 1 .. FrameBytes :
              /\ k * FrameBytes + j \in 1 .. Len(part[p])
              /\ part[p][k * FrameBytes + j] = FrameByte(b * BatchSize + k, j)
<1> DEFINE F == FrameBytes
           N == c * BatchSize
           M == b * BatchSize
<1>1. F \in Nat \ {0} /\ BatchSize \in Nat \ {0} /\ BatchBytes = BatchSize * F
  BY FrameBytesFacts
<1>2. N \in Nat /\ M \in Nat
  BY <1>1
<1>3. c * (BatchSize * F) = N * F /\ b * (BatchSize * F) = M * F
  <2> HIDE DEF F
  <2> QED
    BY <1>1
<1>4. Len(part[p]) = N * F /\ b * BatchBytes = M * F
  BY <1>1, <1>3
<1> HIDE DEF F, N, M
<1>5. ASSUME NEW k \in 0 .. N - 1, NEW j \in 1 .. F
      PROVE  /\ k * F + j \in 1 .. Len(part[p])
             /\ part[p][k * F + j] = FrameByte(M + k, j)
  <2> DEFINE r == j - 1
             x == k * F
             y == M * F
             z == (M + k) * F
  <2>1. x \in Nat /\ y \in Nat /\ z = y + x /\ k \in Nat
    BY <1>1, <1>2
  <2>2. x + F <= N * F /\ N * F \in Nat
    <3> DEFINE d == N - (k + 1)
    <3>1. d \in Nat /\ N = k + 1 + d
      BY <1>2
    <3> HIDE DEF d
    <3>2. (k + 1 + d) * F = k * F + F + d * F /\ d * F \in Nat
      BY <1>1, <2>1, <3>1
    <3>3. N * F = x + F + d * F
      BY <3>1, <3>2
    <3> DEFINE w == d * F
    <3>4. w \in Nat /\ N * F = x + F + w
      BY <3>2, <3>3
    <3> HIDE DEF w, x
    <3> QED
      BY <1>1, <2>1, <3>4
  <2> HIDE DEF x, y, z
  <2>3. x + j \in 1 .. Len(part[p])
    BY <1>1, <1>4, <2>1, <2>2
  <2>4. part[p][x + j] = ByteAt(y + (x + j) - 1)
    BY <1>4, <2>3 DEF Run, y
  <2>5. y + (x + j) - 1 = z + r /\ r \in 0 .. F - 1 /\ M + k \in Nat /\ r + 1 = j
    BY <1>1, <1>2, <2>1
  <2> HIDE DEF r
  <2>6. ByteAt(z + r) = FrameByte(M + k, r + 1)
    <3> DEFINE i == M + k
    <3> HIDE DEF i
    <3>1. i \in Nat /\ r \in 0 .. FrameBytes - 1 /\ z + r = i * FrameBytes + r
      BY <2>5 DEF i, z, F
    <3>2. ByteAt(i * FrameBytes + r) = FrameByte(i, r + 1)
      BY <3>1, ByteInFrame
    <3> QED
      BY <3>1, <3>2 DEF i
  <2>7. part[p][x + j] = FrameByte(M + k, j)
    BY <2>4, <2>5, <2>6
  <2> QED
    BY <2>3, <2>7 DEF x
<1> QED
  BY <1>2, <1>4, <1>5 DEF F, N, M

\* The fields of a byte.
LEMMA FrameByteFields ==
  ASSUME NEW id, NEW at
  PROVE  /\ FrameByte(id, at).id = id /\ FrameByte(id, at).length = FrameBytes
         /\ FrameByte(id, at).at = at
         /\ ~(at <= HeaderSize) => FrameByte(id, at).value
                                    = Quantized(Samples(id), bits, FALSE)[at - HeaderSize]
  BY DEF FrameByte

\* Dividing a part into its frames.
LEMMA FramesOf ==
  ASSUME NEW F \in Nat \ {0}, NEW N \in Nat
  PROVE  (N * F) \div F = N
<1>1. N * F \in Int /\ N * F = F * N + 0 /\ 0 \in 0 .. F - 1
  OBVIOUS
<1> DEFINE x == N * F
<1>2. x \in Int /\ x = F * N + 0
  BY <1>1
<1> HIDE DEF x
<1>3. x \div F = N
  BY <1>1, <1>2, DivUnique
<1> QED
  BY <1>3 DEF x

\* The invariant of the recording is what a reader of the files needs.
LEMMA FramesFollow ==
  ASSUME StreamInv
  PROVE  WholeFrames
<1>0. bits \in BitDepths
  BY DEF StreamInv, TypesInv, RecorderInv, Files
<1>1. ASSUME NEW p \in Parts, p \notin unrotated, BatchBytes <= MaxFileSize
      PROVE  Len(part[p]) <= MaxFileSize
  BY <1>1 DEF StreamInv, Sizes
<1>2. ASSUME NEW p \in Parts, Intact(p), part[p] # <<>>
      PROVE  LET bytes == part[p]
                 length == bytes[1].length
                 frames == Len(bytes) \div length
             IN /\ Len(bytes) = frames * length
                /\ \A k \in 0 .. frames - 1 : \A j \in 1 .. length :
                     LET byte == bytes[k * length + j] IN
                     byte.id = bytes[1].id + k /\ byte.at = j /\ byte.length = length
  <2> DEFINE bytes == part[p]
             F == FrameBytes
  <2>1. PICK b \in Nat, c \in Nat : Run(p, b) /\ Len(part[p]) = c * BatchBytes
    BY <1>2, IntactRun
  <2> DEFINE N == c * BatchSize
             M == b * BatchSize
  <2>2. /\ Len(bytes) = N * F /\ N \in Nat /\ M \in Nat
        /\ \A k \in 0 .. N - 1 : \A j \in 1 .. F :
             bytes[k * F + j] = FrameByte(M + k, j)
    BY <1>0, <2>1, FrameOfRun
  <2>3. F \in Nat \ {0}
    BY <1>0, FrameBytesFacts
  <2>4. Len(bytes) # 0
    <3>1. PICK T : bytes \in Seq(T)
      BY DEF StreamInv, TypesInv, RecorderInv, Files, IsSeq
    <3> QED
      BY <1>2, <3>1, EmptySeq
  <2> HIDE DEF bytes, F, N, M
  <2>5. N >= 1
    <3>1. N # 0
      <4>1. ASSUME N = 0 PROVE FALSE
        <5>1. 0 * F = 0
          BY <2>3
        <5> QED
          BY <2>2, <2>4, <4>1, <5>1
      <4> QED
        BY <4>1
    <3> QED
      BY <2>2, <3>1
  <2>6. ASSUME NEW k \in 0 .. N - 1, NEW j \in 1 .. F
        PROVE  /\ bytes[k * F + j].id = M + k /\ bytes[k * F + j].at = j
               /\ bytes[k * F + j].length = F
    <3>1. bytes[k * F + j] = FrameByte(M + k, j)
      BY <2>2
    <3>2. /\ FrameByte(M + k, j).id = M + k /\ FrameByte(M + k, j).at = j
          /\ FrameByte(M + k, j).length = F
      <4> DEFINE i == M + k
      <4> HIDE DEF i
      <4>1. FrameByte(i, j).id = i /\ FrameByte(i, j).at = j /\ FrameByte(i, j).length = FrameBytes
        BY Zenon DEF FrameByte
      <4> QED
        BY <4>1, Zenon DEF i, F
    <3> QED
      BY <3>1, <3>2, Zenon
  <2>7. bytes[1].id = M /\ bytes[1].length = F
    <3>1. 0 \in 0 .. N - 1 /\ 1 \in 1 .. F /\ 0 * F + 1 = 1 /\ M + 0 = M
      BY <2>2, <2>3, <2>5
    <3>2. bytes[0 * F + 1].id = M + 0 /\ bytes[0 * F + 1].length = F
      BY <2>6, <3>1
    <3> QED
      BY <3>1, <3>2
  <2>8. Len(bytes) \div F = N
    BY <2>2, <2>3, FramesOf
  <2> DEFINE length == bytes[1].length
             frames == Len(bytes) \div length
  <2>9. length = F /\ frames = N
    BY <2>7, <2>8
  <2> HIDE DEF length, frames
  <2>10. Len(bytes) = frames * length
    BY <2>2, <2>9
  <2>11. \A k \in 0 .. frames - 1 : \A j \in 1 .. length :
           /\ bytes[k * length + j].id = bytes[1].id + k /\ bytes[k * length + j].at = j
           /\ bytes[k * length + j].length = length
    BY <2>6, <2>7, <2>9
  <2> QED
    BY <2>10, <2>11 DEF bytes, length, frames
<1> QED
  BY <1>1, <1>2 DEF WholeFrames

\* The same for the samples.
LEMMA VoltagesFollow ==
  ASSUME StreamInv
  PROVE  VoltagesKept
<1>0. bits \in BitDepths
  BY DEF StreamInv, TypesInv, RecorderInv, Files
<1> SUFFICES ASSUME NEW p \in Parts, Intact(p),
                    NEW k \in 0 .. (Len(part[p]) \div FrameBytes) - 1
             PROVE  LET frame == FrameAt(part[p], k, FrameBytes)
                        values == [i \in 1 .. FrameBytes - HeaderSize |-> frame[HeaderSize + i].value]
                    IN Decoded(values, bits) = Voltages(Samples(frame[1].id), bits)
  BY DEF VoltagesKept
<1> DEFINE bytes == part[p]
           F == FrameBytes
           H == HeaderSize
           frame == FrameAt(part[p], k, FrameBytes)
           values == [i \in 1 .. FrameBytes - HeaderSize |-> frame[HeaderSize + i].value]
<1>1. PICK b \in Nat, c \in Nat : Run(p, b) /\ Len(part[p]) = c * BatchBytes
  BY IntactRun
<1> DEFINE N == c * BatchSize
           M == b * BatchSize
           id == M + k
<1>2. /\ Len(bytes) = N * F /\ N \in Nat /\ M \in Nat
      /\ \A x \in 0 .. N - 1 : \A j \in 1 .. F :
           /\ x * F + j \in 1 .. Len(bytes)
           /\ bytes[x * F + j] = FrameByte(M + x, j)
  BY <1>0, <1>1, FrameOfRun
<1>3. F \in Nat \ {0} /\ H \in Nat \ {0}
  BY <1>0, FrameBytesFacts
<1>4. F - H = (FramePayload * bits) \div 8 /\ (FramePayload * bits) \div 8 \in Nat
  <2>1. FramePayload \in Nat /\ bits \in Nat
    BY <1>0, RecorderAssumption
  <2>2. FramePayload * bits \in Nat
    BY <2>1
  <2>3. (FramePayload * bits) \div 8 \in Nat
    BY <2>2
  <2> QED
    BY <1>3, <2>3 DEF FrameBytes
<1>5. frame = SubSeq(bytes, k * F + 1, (k + 1) * F)
  BY DEF FrameAt
<1>6. values = [i \in 1 .. F - H |-> frame[H + i].value]
  OBVIOUS
<1>7. PICK T : bytes \in Seq(T)
  BY DEF StreamInv, TypesInv, RecorderInv, Files, IsSeq
<1>8. k \in 0 .. (Len(bytes) \div F) - 1
  OBVIOUS
<1> HIDE DEF bytes, F, H, frame, values, N, M
<1>9. k \in 0 .. N - 1 /\ id \in Nat
  BY <1>2, <1>3, <1>8, FramesOf
<1>10. \A j \in 1 .. F : frame[j] = bytes[k * F + j]
  <2> DEFINE x == k * F
             y == (k + 1) * F
  <2>1. x \in Nat /\ y = x + F
    BY <1>3, <1>9
  <2> HIDE DEF x, y
  <2>2. \A i \in x + 1 .. y : i \in 1 .. Len(bytes)
    <3> TAKE i \in x + 1 .. y
    <3> DEFINE j == i - x
    <3>1. j \in 1 .. F /\ i = x + j
      BY <1>3, <2>1
    <3> HIDE DEF j
    <3>2. x + j \in 1 .. Len(bytes)
      BY <1>2, <1>9, <3>1 DEF x
    <3> QED
      BY <3>1, <3>2
  <2>3. \A i \in x + 1 .. y : bytes[i] \in T
    BY <1>7, <2>2
  <2>4. /\ y - (x + 1) + 1 = F /\ x + 1 <= y + 1 /\ x + 1 \in Int /\ y \in Int
        /\ \A j \in 1 .. F : (x + 1) + j - 1 = x + j
    BY <1>3, <2>1
  <2>5. \A j \in 1 .. y - (x + 1) + 1 : SubSeq(bytes, x + 1, y)[j] = bytes[(x + 1) + j - 1]
    BY <2>3, <2>4, SubSeqProperties
  <2>6. \A j \in 1 .. F : SubSeq(bytes, x + 1, y)[j] = bytes[x + j]
    BY <2>4, <2>5
  <2> QED
    BY <1>5, <2>6 DEF x, y
<1>11. frame[1].id = id
  <2>1. 1 \in 1 .. F
    BY <1>3
  <2>2. frame[1] = bytes[k * F + 1]
    BY <1>10, <2>1
  <2> QED
    <3>1. frame[1] = FrameByte(id, 1)
      BY <1>2, <1>9, <2>1, <2>2
    <3> HIDE DEF id
    <3>2. FrameByte(id, 1).id = id
      BY FrameByteFields, Zenon
    <3> QED
      BY <3>1, <3>2, Zenon
<1>12. \A i \in 1 .. F - H : frame[H + i].value = Quantized(Samples(id), bits, FALSE)[i]
  <2> TAKE i \in 1 .. F - H
  <2> DEFINE j == H + i
  <2>1. j \in 1 .. F /\ ~(j <= H) /\ j - H = i
    BY <1>3
  <2> HIDE DEF j
  <2>2. frame[j] = FrameByte(id, j)
    BY <1>2, <1>9, <1>10, <2>1
  <2>3. frame[j].value = Quantized(Samples(id), bits, FALSE)[j - H]
    <3> HIDE DEF id
    <3>1. FrameByte(id, j).value = Quantized(Samples(id), bits, FALSE)[j - H]
      BY <2>1, FrameByteFields, Zenon DEF H
    <3> QED
      BY <2>2, <3>1, Zenon
  <2> QED
    BY <2>1, <2>3 DEF j
<1> DEFINE s == Samples(id)
<1>13. s \in Seq(Byte) /\ Len(s) = FramePayload
  BY <1>9, SamplesTyped
<1> HIDE DEF id
<1>14. values = [i \in 1 .. F - H |-> Quantized(s, bits, FALSE)[i]]
  BY <1>6, <1>12
<1> HIDE DEF s
<1>15. values = FileBytes(s, bits)
  BY <1>4, <1>13, <1>14 DEF FileBytes
<1>16. Decoded(FileBytes(s, bits), bits) = Voltages(s, bits)
  BY <1>0, <1>13, DecodedRight
<1>17. Decoded(values, bits) = Voltages(Samples(frame[1].id), bits)
  BY <1>11, <1>15, <1>16 DEF s
<1> QED
  BY <1>17 DEF frame, values

\* The invariant of the recording holds in every reachable state.
THEOREM StreamInvariant == Spec => []StreamInv
<1>1. Init => StreamInv
  BY InitStream
<1>2. StreamInv /\ [Next]_vars => StreamInv'
  BY NextStream
<1> QED
  BY <1>1, <1>2, PTL DEF Spec

\* For every capacity, batch size, payload, limit on the iovecs and on the
\* size of a part, and whichever writes are short or fail: a reader that
\* steps by the lengths in the headers finds whole frames with consecutive
\* times in every part that no write failed on, and a part exceeds the limit
\* only after create_file failed.
THEOREM FilesHaveWholeFrames == Spec => []WholeFrames
<1>1. StreamInv => WholeFrames
  BY FramesFollow
<1> QED
  BY <1>1, StreamInvariant, PTL

\* The samples of every frame in such a part decode to the most significant
\* bits of the voltages of the packet its header names, for 8, 4 and 2 bits,
\* every payload and every length of a vector register, and whether the
\* frame was converted with AVX-512 or without.
THEOREM SamplesAreKept == Spec => []VoltagesKept
<1>1. StreamInv => VoltagesKept
  BY VoltagesFollow
<1> QED
  BY <1>1, StreamInvariant, PTL
=============================================================================
