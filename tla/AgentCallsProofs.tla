------------------------- MODULE AgentCallsProofs -------------------------
(*************************************************************************)
(* Proofs about AgentCalls: which run a caller is told of, how often a   *)
(* request runs, and what the subnet refuses, for any number of calls,   *)
(* canisters, logins and clocks.                                         *)
(*                                                                       *)
(* Before them, the text form of a principal (PrincipalText): it is read *)
(* as the principal it was written from, whatever its bytes, so base32,  *)
(* the grouping and the checksum lose nothing.                           *)
(*************************************************************************)
EXTENDS AgentCalls, SequenceTheorems, InductionLemmas

(* Bits and the numbers they write *)
LEMMA Powers ==
  /\ 2 ^ 0 = 1 /\ 2 ^ 1 = 2 /\ 2 ^ 2 = 4 /\ 2 ^ 3 = 8
  /\ 2 ^ 4 = 16 /\ 2 ^ 5 = 32 /\ 2 ^ 6 = 64 /\ 2 ^ 7 = 128
OBVIOUS

LEMMA BitRange == ASSUME NEW n \in Nat, NEW i \in 0 .. 7 PROVE Bit(n, i) \in {0, 1}
BY Powers DEF Bit

(* A function on 1 .. n is a sequence of length n. *)
LEMMA Lengths ==
  ASSUME NEW n \in Nat, NEW s, s = [i \in 1 .. n |-> s[i]]
  PROVE  Len(s) = n
OBVIOUS

(* v[k] is the number that the first k of n bits from position i on write. *)
Reads(v, bits, i, n) ==
  /\ v \in [0 .. n -> Int]
  /\ v[0] = 0
  /\ \A k \in 1 .. n : v[k] = 2 * v[k - 1] + BitAt(bits, i + k - 1)

LEMMA Sequences ==
  ASSUME NEW n \in Nat, NEW S, NEW s \in [1 .. n -> S]
  PROVE  s \in Seq(S) /\ Len(s) = n
OBVIOUS

LEMMA NumberReads ==
  ASSUME NEW bits, NEW i \in Nat, NEW n \in Nat,
         \A k \in 1 .. n : BitAt(bits, i + k - 1) \in Int
  PROVE  \E v : Reads(v, bits, i, n) /\ Number(bits, i, n) = v[n]
<1> DEFINE bit(k) == BitAt(bits, i + k - 1)
           step == [k \in 1 .. n |-> [x \in Int |-> 2 * x + bit(k)]]
           Def(w) == w = [k \in 0 .. n |-> IF k = 0 THEN 0 ELSE 2 * w[k - 1] + bit(k)]
           v == CHOOSE g : Def(g)
<1>1. Number(bits, i, n) = v[n]
  BY DEF Number
<1>2. \A k \in 1 .. n : bit(k) \in Int
  OBVIOUS
<1> HIDE DEF bit
<1>3. step \in [1 .. n -> [Int -> Int]]
  BY <1>2
<1>4. \A x \in Int, k \in 1 .. n : step[k][x] = 2 * x + bit(k)
  OBVIOUS
<1> HIDE DEF step
<1>5. PICK f : Follows(f, n, Int, 0, step)
  <2>1. 0 \in Int
    OBVIOUS
  <2>2. QED  BY <1>3, <2>1, Recursion
<1>6. f \in [0 .. n -> Int] /\ f[0] = 0 /\ \A k \in 1 .. n : f[k] = 2 * f[k - 1] + bit(k)
  <2>1. f \in [0 .. n -> Int] /\ f[0] = 0
    BY <1>5 DEF Follows
  <2>2. ASSUME NEW k \in 1 .. n PROVE f[k] = 2 * f[k - 1] + bit(k)
    <3>1. f[k - 1] \in Int
      BY <2>1
    <3>2. f[k] = step[k][f[k - 1]]
      BY <1>5 DEF Follows
    <3>3. QED  BY <1>4, <3>1, <3>2
  <2>3. QED  BY <2>1, <2>2
<1>7. Def(f)
  BY <1>6
<1> HIDE DEF Def
<1>8. Def(v)
  BY <1>7
<1> HIDE DEF v
<1>9. v[0] = 0 /\ \A k \in 1 .. n : v[k] = 2 * v[k - 1] + bit(k)
  BY <1>8 DEF Def
<1>10. v \in [0 .. n -> Int]
  <2> DEFINE S == {k \in 0 .. n : v[k] \in Int}
  <2>1. 0 \in S
    BY <1>9
  <2>2. \A k \in 1 .. n : k - 1 \in S => k \in S
    BY <1>2, <1>9
  <2> HIDE DEF S
  <2>3. \A k \in 0 .. n : k \in S
    BY <2>1, <2>2, BoundedInduction
  <2>4. v = [k \in 0 .. n |-> v[k]]
    BY <1>8 DEF Def
  <2>5. QED  BY <2>3, <2>4 DEF S
<1>11. Reads(v, bits, i, n)
  BY <1>9, <1>10 DEF Reads, bit
<1>12. QED  BY <1>1, <1>11

(* One bit more *)
LEMMA NumberSteps ==
  ASSUME NEW bits, NEW i \in Nat, NEW n \in Nat,
         \A k \in 1 .. n + 1 : BitAt(bits, i + k - 1) \in Int
  PROVE  /\ Number(bits, i, 0) = 0
         /\ Number(bits, i, n) \in Int
         /\ Number(bits, i, n + 1) = 2 * Number(bits, i, n) + BitAt(bits, i + n)
<1>1. PICK u : Reads(u, bits, i, 0) /\ Number(bits, i, 0) = u[0]
  <2>1. \A k \in 1 .. 0 : BitAt(bits, i + k - 1) \in Int
    OBVIOUS
  <2>2. QED  BY <2>1, NumberReads
<1>2. PICK v : Reads(v, bits, i, n) /\ Number(bits, i, n) = v[n]
  <2>1. \A k \in 1 .. n : BitAt(bits, i + k - 1) \in Int
    OBVIOUS
  <2>2. QED  BY <2>1, NumberReads
<1>3. PICK w : Reads(w, bits, i, n + 1) /\ Number(bits, i, n + 1) = w[n + 1]
  <2>1. n + 1 \in Nat
    OBVIOUS
  <2>2. QED  BY <2>1, NumberReads
<1>4. \A k \in 0 .. n : k \in {j \in 0 .. n : v[j] = w[j]}
  <2> DEFINE S == {j \in 0 .. n : v[j] = w[j]}
  <2>1. 0 \in S
    BY <1>2, <1>3 DEF Reads
  <2>2. \A k \in 1 .. n : k - 1 \in S => k \in S
    BY <1>2, <1>3 DEF Reads
  <2> HIDE DEF S
  <2>3. \A k \in 0 .. n : k \in S
    BY <2>1, <2>2, BoundedInduction
  <2>4. QED  BY <2>3 DEF S
<1>5. w[n + 1] = 2 * w[n] + BitAt(bits, i + n)
  <2>1. n + 1 \in 1 .. n + 1 /\ (n + 1) - 1 = n /\ i + (n + 1) - 1 = i + n
    OBVIOUS
  <2>2. w[n + 1] = 2 * w[(n + 1) - 1] + BitAt(bits, i + (n + 1) - 1)
    BY <1>3, <2>1 DEF Reads
  <2>3. QED  BY <2>1, <2>2
<1>6. v[n] = w[n] /\ v[n] \in Int
  BY <1>2, <1>4 DEF Reads
<1>7. u[0] = 0
  BY <1>1 DEF Reads
<1>8. QED  BY <1>1, <1>2, <1>3, <1>5, <1>6, <1>7

(* The number that five bits, or eight, write *)
LEMMA ShortNumbers ==
  ASSUME NEW bits, NEW i \in Nat, \A k \in 0 .. 7 : BitAt(bits, i + k) \in Int
  PROVE  /\ Number(bits, i, 5) = 16 * BitAt(bits, i) + 8 * BitAt(bits, i + 1)
                              + 4 * BitAt(bits, i + 2) + 2 * BitAt(bits, i + 3)
                              + BitAt(bits, i + 4)
         /\ Number(bits, i, 8) = 8 * Number(bits, i, 5) + 4 * BitAt(bits, i + 5)
                              + 2 * BitAt(bits, i + 6) + BitAt(bits, i + 7)
<1>1. \A k \in 1 .. 8 : BitAt(bits, i + k - 1) \in Int
  <2> SUFFICES ASSUME NEW k \in 1 .. 8 PROVE BitAt(bits, i + k - 1) \in Int
    OBVIOUS
  <2>1. i + k - 1 = i + (k - 1) /\ k - 1 \in 0 .. 7
    OBVIOUS
  <2>2. QED  BY <2>1
<1>2. \A n \in 0 .. 7 :
        /\ Number(bits, i, 0) = 0
        /\ Number(bits, i, n) \in Int
        /\ Number(bits, i, n + 1) = 2 * Number(bits, i, n) + BitAt(bits, i + n)
  <2> SUFFICES ASSUME NEW n \in 0 .. 7
               PROVE  /\ Number(bits, i, 0) = 0
                      /\ Number(bits, i, n) \in Int
                      /\ Number(bits, i, n + 1) = 2 * Number(bits, i, n) + BitAt(bits, i + n)
    OBVIOUS
  <2>1. \A k \in 1 .. n + 1 : BitAt(bits, i + k - 1) \in Int
    BY <1>1
  <2>2. n \in Nat
    OBVIOUS
  <2>3. QED  BY <2>1, <2>2, NumberSteps
<1> DEFINE N(k) == Number(bits, i, k)
           b(k) == BitAt(bits, i + k)
<1>3. \A n \in 0 .. 7 : N(n) \in Int /\ N(n + 1) = 2 * N(n) + b(n) /\ b(n) \in Int
  BY <1>2
<1>4. N(0) = 0
  BY <1>2
<1>5. BitAt(bits, i) = b(0)
  BY i + 0 = i
<1> HIDE DEF N, b
<1>6. /\ N(1) = b(0) /\ N(2) = 2 * N(1) + b(1) /\ N(3) = 2 * N(2) + b(2) /\ N(4) = 2 * N(3) + b(3)
      /\ N(5) = 2 * N(4) + b(4) /\ N(6) = 2 * N(5) + b(5) /\ N(7) = 2 * N(6) + b(6)
      /\ N(8) = 2 * N(7) + b(7)
  BY <1>3, <1>4
<1>7. /\ b(0) \in Int /\ b(1) \in Int /\ b(2) \in Int /\ b(3) \in Int /\ b(4) \in Int
      /\ b(5) \in Int /\ b(6) \in Int /\ b(7) \in Int
  BY <1>3
<1>8. /\ N(5) = 16 * b(0) + 8 * b(1) + 4 * b(2) + 2 * b(3) + b(4)
      /\ N(8) = 8 * N(5) + 4 * b(5) + 2 * b(6) + b(7)
  <2>1. N(3) = 4 * b(0) + 2 * b(1) + b(2)
    BY <1>6, <1>7
  <2>2. N(5) = 16 * b(0) + 8 * b(1) + 4 * b(2) + 2 * b(3) + b(4)
    BY <1>6, <1>7, <2>1
  <2>3. N(5) \in Int
    BY <1>3
  <2>4. N(8) = 8 * N(5) + 4 * b(5) + 2 * b(6) + b(7)
    BY <1>6, <1>7, <2>3
  <2>5. QED  BY <2>2, <2>4
<1>9. QED  BY <1>5, <1>8 DEF N, b

(* The bits of a number of five bits are those that write it. *)
Five(z4, z3, z2, z1, z0) == 16 * z4 + 8 * z3 + 4 * z2 + 2 * z1 + z0

LEMMA FiveBits ==
  ASSUME NEW z4 \in {0, 1}, NEW z3 \in {0, 1}, NEW z2 \in {0, 1}, NEW z1 \in {0, 1}, NEW z0 \in {0, 1}
  PROVE  /\ Five(z4, z3, z2, z1, z0) \in 0 .. 31
         /\ Bit(Five(z4, z3, z2, z1, z0), 4) = z4
         /\ Bit(Five(z4, z3, z2, z1, z0), 3) = z3
         /\ Bit(Five(z4, z3, z2, z1, z0), 2) = z2
         /\ Bit(Five(z4, z3, z2, z1, z0), 1) = z1
         /\ Bit(Five(z4, z3, z2, z1, z0), 0) = z0
<1> DEFINE x == Five(z4, z3, z2, z1, z0)
<1>0. x = 16 * z4 + 8 * z3 + 4 * z2 + 2 * z1 + z0
  BY DEF Five
<1> HIDE DEF x
<1>1. x \in 0 .. 31
  BY <1>0
<1>2. Bit(x, 4) = z4
  BY <1>0, Powers DEF Bit
<1>3. Bit(x, 3) = z3
  BY <1>0, Powers DEF Bit
<1>4. Bit(x, 2) = z2
  BY <1>0, Powers DEF Bit
<1>5. Bit(x, 1) = z1
  BY <1>0, Powers DEF Bit
<1>6. Bit(x, 0) = z0
  BY <1>0, Powers DEF Bit
<1>7. QED  BY <1>1, <1>2, <1>3, <1>4, <1>5, <1>6 DEF x

(* A byte is written by its bits. *)
LEMMA EightBits ==
  ASSUME NEW x \in Bytes
  PROVE  x = 8 * (16 * Bit(x, 7) + 8 * Bit(x, 6) + 4 * Bit(x, 5) + 2 * Bit(x, 4) + Bit(x, 3))
             + 4 * Bit(x, 2) + 2 * Bit(x, 1) + Bit(x, 0)
BY Powers DEF Bit, Bytes
-----------------------------------------------------------------------------
(* Base32 writes the bits of the bytes, five to a character, and reads them. *)
LEMMA BitsOfNumbers ==
  ASSUME NEW w \in {5, 8}, NEW ns, Len(ns) \in Nat, \A i \in 1 .. Len(ns) : ns[i] \in Nat
  PROVE  /\ Len(Bits(ns, w)) = w * Len(ns)
         /\ DOMAIN Bits(ns, w) = 1 .. w * Len(ns)
         /\ \A i \in 1 .. w * Len(ns) :
              Bits(ns, w)[i] = Bit(ns[(i - 1) \div w + 1], w - 1 - ((i - 1) % w))
         /\ \A i \in Nat \ {0} : BitAt(Bits(ns, w), i) \in {0, 1}
<1> DEFINE bits == Bits(ns, w)
           n == w * Len(ns)
<1>1. n \in Nat
  OBVIOUS
<1>2. bits = [i \in 1 .. n |-> Bit(ns[(i - 1) \div w + 1], w - 1 - ((i - 1) % w))]
  BY DEF Bits
<1>3. Len(bits) = n
  <2> HIDE DEF n
  <2>1. bits = [i \in 1 .. n |-> bits[i]]
    BY <1>2
  <2> HIDE DEF bits
  <2>2. QED  BY <1>1, <2>1, Lengths
<1>4. \A i \in 1 .. n : bits[i] \in {0, 1}
  <2> SUFFICES ASSUME NEW i \in 1 .. n PROVE bits[i] \in {0, 1}
    OBVIOUS
  <2>1. (i - 1) \div w + 1 \in 1 .. Len(ns) /\ w - 1 - ((i - 1) % w) \in 0 .. 7
    <3>1. CASE w = 5
      BY <3>1
    <3>2. CASE w = 8
      BY <3>2
    <3>3. QED  BY <3>1, <3>2
  <2>2. ns[(i - 1) \div w + 1] \in Nat
    BY <2>1
  <2> HIDE DEF n, bits
  <2>3. bits[i] = Bit(ns[(i - 1) \div w + 1], w - 1 - ((i - 1) % w))
    BY <1>2
  <2>4. QED  BY <2>1, <2>2, <2>3, BitRange
<1>5. \A i \in Nat \ {0} : BitAt(bits, i) \in {0, 1}
  BY <1>1, <1>3, <1>4 DEF BitAt
<1>6. QED  BY <1>2, <1>3, <1>5

LEMMA ByteStrings ==
  ASSUME NEW p \in Seq(Bytes)
  PROVE  Len(p) \in Nat /\ \A k \in 1 .. Len(p) : p[k] \in Bytes /\ p[k] \in Nat
<1>1. \A k \in 1 .. Len(p) : p[k] \in Bytes
  OBVIOUS
<1>2. Len(p) \in Nat
  OBVIOUS
<1>3. \A x \in Bytes : x \in Nat
  BY DEF Bytes
<1>4. QED  BY <1>1, <1>2, <1>3

LEMMA CharBits ==
  ASSUME NEW p \in Seq(Bytes), NEW g \in 1 .. CeilDiv(8 * Len(p), 5)
  PROVE  /\ Base32(p)[g] \in 0 .. 31
         /\ \A j \in 0 .. 4 : Bit(Base32(p)[g], 4 - j) = BitAt(Bits(p, 8), 5 * (g - 1) + 1 + j)
<1> DEFINE bits == Bits(p, 8)
           i == 5 * (g - 1) + 1
           b(j) == BitAt(bits, i + j)
<1>1. Len(p) \in Nat /\ \A k \in 1 .. Len(p) : p[k] \in Nat
  BY ByteStrings
<1>2. i \in Nat \ {0}
  BY DEF CeilDiv
<1>3. \A k \in Nat \ {0} : BitAt(bits, k) \in {0, 1}
  BY <1>1, BitsOfNumbers
<1>4. Base32(p)[g] = Number(bits, i, 5)
  BY DEF Base32
<1> HIDE DEF bits, i
<1>5. \A j \in 0 .. 7 : b(j) \in {0, 1}
  BY <1>2, <1>3
<1>6. Number(bits, i, 5) = 16 * b(0) + 8 * b(1) + 4 * b(2) + 2 * b(3) + b(4)
  <2>1. \A k \in 0 .. 7 : BitAt(bits, i + k) \in Int
    BY <1>5
  <2>2. i \in Nat /\ i + 0 = i
    BY <1>2
  <2>3. QED  BY <2>1, <2>2, ShortNumbers
<1> HIDE DEF b
<1>7. b(0) \in {0, 1} /\ b(1) \in {0, 1} /\ b(2) \in {0, 1} /\ b(3) \in {0, 1} /\ b(4) \in {0, 1}
  BY <1>5
<1> DEFINE c == Base32(p)[g]
<1>8. c = Five(b(0), b(1), b(2), b(3), b(4))
  BY <1>4, <1>6 DEF Five
<1> HIDE DEF c
<1>9. /\ c \in 0 .. 31
      /\ Bit(c, 4) = b(0) /\ Bit(c, 3) = b(1) /\ Bit(c, 2) = b(2) /\ Bit(c, 1) = b(3) /\ Bit(c, 0) = b(4)
  <2> DEFINE x == Five(b(0), b(1), b(2), b(3), b(4))
  <2>1. x \in 0 .. 31
    BY <1>7, FiveBits
  <2>2. Bit(x, 4) = b(0) /\ Bit(x, 3) = b(1)
    BY <1>7, FiveBits
  <2>3. Bit(x, 2) = b(2) /\ Bit(x, 1) = b(3) /\ Bit(x, 0) = b(4)
    BY <1>7, FiveBits
  <2> HIDE DEF x
  <2>4. c = x
    BY <1>8 DEF x
  <2>5. QED  BY <2>1, <2>2, <2>3, <2>4
<1>10. \A j \in 0 .. 4 : Bit(c, 4 - j) = b(j)
  BY <1>9
<1>11. QED  BY <1>9, <1>10 DEF c, b, bits, i

LEMMA Base32Chars ==
  ASSUME NEW p \in Seq(Bytes)
  PROVE  /\ CeilDiv(8 * Len(p), 5) \in Nat
         /\ Len(Base32(p)) = CeilDiv(8 * Len(p), 5)
         /\ \A g \in 1 .. CeilDiv(8 * Len(p), 5) : Base32(p)[g] \in 0 .. 31
<1> DEFINE n == CeilDiv(8 * Len(p), 5)
           chars == Base32(p)
<1>1. n \in Nat
  BY ByteStrings DEF CeilDiv
<1>2. chars = [g \in 1 .. n |-> Number(Bits(p, 8), 5 * (g - 1) + 1, 5)]
  BY DEF Base32
<1>3. Len(chars) = n
  <2> HIDE DEF n
  <2>1. chars = [g \in 1 .. n |-> chars[g]]
    BY <1>2
  <2> HIDE DEF chars
  <2>2. QED  BY <1>1, <2>1, Lengths
<1>4. QED  BY <1>1, <1>3, CharBits

(* The characters and the bytes they were made of have the same bits. *)
LEMMA SameBits ==
  ASSUME NEW p \in Seq(Bytes), NEW k \in 1 .. 8 * Len(p)
  PROVE  BitAt(Bits(Base32(p), 5), k) = BitAt(Bits(p, 8), k)
<1> DEFINE chars == Base32(p)
           n == CeilDiv(8 * Len(p), 5)
           g == (k - 1) \div 5 + 1
           j == (k - 1) % 5
<1>1. Len(p) \in Nat
  OBVIOUS
<1>2. /\ n \in Nat /\ 8 * Len(p) <= 5 * n
      /\ g \in 1 .. n /\ j \in 0 .. 4
      /\ k = 5 * (g - 1) + 1 + j
      /\ k \in 1 .. 5 * n
  BY <1>1 DEF CeilDiv
<1>3. Len(chars) = n /\ \A i \in 1 .. n : chars[i] \in 0 .. 31
  BY Base32Chars
<1> HIDE DEF chars, n
<1>4. /\ Len(Bits(chars, 5)) = 5 * n
      /\ Bits(chars, 5)[k] = Bit(chars[g], 5 - 1 - j)
  <2>1. \A x \in 0 .. 31 : x \in Nat
    OBVIOUS
  <2>2. Len(chars) \in Nat /\ \A i \in 1 .. Len(chars) : chars[i] \in Nat
    BY <1>2, <1>3, <2>1
  <2>3. QED  BY <1>2, <1>3, <2>2, BitsOfNumbers
<1>5. BitAt(Bits(chars, 5), k) = Bit(chars[g], 4 - j)
  BY <1>2, <1>4 DEF BitAt
<1>6. Bit(chars[g], 4 - j) = BitAt(Bits(p, 8), 5 * (g - 1) + 1 + j)
  BY <1>2, CharBits DEF chars, n
<1>7. QED  BY <1>2, <1>5, <1>6 DEF chars

(* The bits of the b-th byte *)
LEMMA ByteBits ==
  ASSUME NEW p \in Seq(Bytes), NEW b \in 1 .. Len(p), NEW k \in 0 .. 7
  PROVE  BitAt(Bits(p, 8), 8 * (b - 1) + 1 + k) = Bit(p[b], 7 - k)
<1> DEFINE i == 8 * (b - 1) + 1 + k
<1>1. /\ Len(p) \in Nat /\ i \in 1 .. 8 * Len(p)
      /\ (i - 1) \div 8 + 1 = b /\ 8 - 1 - ((i - 1) % 8) = 7 - k
  OBVIOUS
<1> HIDE DEF i
<1>2. Len(Bits(p, 8)) = 8 * Len(p) /\ Bits(p, 8)[i] = Bit(p[b], 7 - k)
  BY <1>1, ByteStrings, BitsOfNumbers
<1>3. BitAt(Bits(p, 8), i) = Bit(p[b], 7 - k)
  BY <1>1, <1>2 DEF BitAt
<1>4. QED  BY <1>3 DEF i

LEMMA Unbase32Base32 ==
  ASSUME NEW p \in Seq(Bytes)
  PROVE  Unbase32(Base32(p)) = p
<1> DEFINE chars == Base32(p)
           read == Bits(chars, 5)
<1>1. Len(p) \in Nat /\ (5 * Len(chars)) \div 8 = Len(p)
  BY Base32Chars DEF CeilDiv
<1>2. Unbase32(chars) = [b \in 1 .. Len(p) |-> Number(read, 8 * (b - 1) + 1, 8)]
  BY <1>1 DEF Unbase32
<1>3. ASSUME NEW b \in 1 .. Len(p) PROVE Number(read, 8 * (b - 1) + 1, 8) = p[b]
  <2> DEFINE i == 8 * (b - 1) + 1
  <2>1. i \in Nat /\ \A k \in 0 .. 7 : i + k \in 1 .. 8 * Len(p)
    BY <1>1
  <2>2. \A k \in 0 .. 7 : BitAt(Bits(p, 8), i + k) = Bit(p[b], 7 - k)
    BY ByteBits
  <2> HIDE DEF i, read
  <2>3. \A k \in 0 .. 7 : BitAt(read, i + k) = Bit(p[b], 7 - k)
    BY <2>1, <2>2, SameBits DEF read
  <2>4. p[b] \in Bytes /\ p[b] \in Nat
    BY ByteStrings
  <2>5. \A k \in 0 .. 7 : Bit(p[b], k) \in {0, 1}
    BY <2>4, BitRange
  <2>6. \A k \in 0 .. 7 : BitAt(read, i + k) \in Int
    BY <2>3, <2>5
  <2>7. Number(read, i, 8) =
          8 * (16 * BitAt(read, i) + 8 * BitAt(read, i + 1) + 4 * BitAt(read, i + 2)
               + 2 * BitAt(read, i + 3) + BitAt(read, i + 4))
          + 4 * BitAt(read, i + 5) + 2 * BitAt(read, i + 6) + BitAt(read, i + 7)
    BY <2>1, <2>6, ShortNumbers
  <2>8. /\ BitAt(read, i) = Bit(p[b], 7) /\ BitAt(read, i + 1) = Bit(p[b], 6)
        /\ BitAt(read, i + 2) = Bit(p[b], 5) /\ BitAt(read, i + 3) = Bit(p[b], 4)
        /\ BitAt(read, i + 4) = Bit(p[b], 3) /\ BitAt(read, i + 5) = Bit(p[b], 2)
        /\ BitAt(read, i + 6) = Bit(p[b], 1) /\ BitAt(read, i + 7) = Bit(p[b], 0)
    BY <2>1, <2>3, i + 0 = i
  <2>9. Number(read, i, 8) = p[b]
    BY <2>4, <2>7, <2>8, EightBits
  <2>10. QED  BY <2>9 DEF i
<1>4. p = [b \in 1 .. Len(p) |-> p[b]]
  OBVIOUS
<1>5. QED  BY <1>2, <1>3, <1>4
-----------------------------------------------------------------------------
(* The groups of five are read without the dashes between them. *)
Strips(r, text) ==
  /\ r[0] = << >>
  /\ \A k \in 1 .. Len(text) :
       r[k] = IF text[k] = Dash THEN r[k - 1] ELSE Append(r[k - 1], text[k])

LEMMA UndashedStrips ==
  ASSUME NEW V, NEW text \in Seq(V)
  PROVE  \E r : Strips(r, text) /\ Undashed(text) = r[Len(text)]
<1> DEFINE n == Len(text)
           next(k, x) == IF text[k] = Dash THEN x ELSE Append(x, text[k])
           step == [k \in 1 .. n |-> [x \in Seq(V) |-> next(k, x)]]
           Def(w) == w = [i \in 0 .. n |-> IF i = 0 THEN << >> ELSE next(i, w[i - 1])]
           r == CHOOSE w : Def(w)
<1>1. Undashed(text) = r[n]
  BY DEF Undashed
<1>2. n \in Nat /\ \A k \in 1 .. n, x \in Seq(V) : next(k, x) \in Seq(V)
  OBVIOUS
<1> HIDE DEF next
<1>3. step \in [1 .. n -> [Seq(V) -> Seq(V)]] /\ << >> \in Seq(V)
  BY <1>2
<1>4. \A k \in 1 .. n, x \in Seq(V) : step[k][x] = next(k, x)
  OBVIOUS
<1> HIDE DEF step, n
<1>5. PICK f : Follows(f, n, Seq(V), << >>, step)
  BY <1>2, <1>3, Recursion
<1>6. /\ f \in [0 .. n -> Seq(V)] /\ f[0] = << >>
      /\ \A k \in 1 .. n : f[k] = next(k, f[k - 1])
  <2>1. f \in [0 .. n -> Seq(V)] /\ f[0] = << >>
    BY <1>5 DEF Follows
  <2>2. ASSUME NEW k \in 1 .. n PROVE f[k] = next(k, f[k - 1])
    <3>1. f[k - 1] \in Seq(V)
      BY <1>2, <2>1
    <3>2. f[k] = step[k][f[k - 1]]
      BY <1>5 DEF Follows
    <3>3. QED  BY <1>4, <3>1, <3>2
  <2>3. QED  BY <2>1, <2>2
<1>7. Def(f)
  BY <1>6
<1> HIDE DEF Def
<1>8. Def(r)
  BY <1>7
<1> HIDE DEF r
<1>9. r[0] = << >> /\ \A k \in 1 .. n : r[k] = next(k, r[k - 1])
  BY <1>2, <1>8 DEF Def
<1>10. Strips(r, text)
  BY <1>9 DEF Strips, n, next
<1>11. QED  BY <1>1, <1>10 DEF n

(* Characters of the alphabet, and those with the dash *)
Alphabet == 0 .. 31
Letters == 0 .. 32

LEMMA AlphabetLetters ==
  Dash \in Letters /\ \A x \in Alphabet : x \in Letters /\ x \in Nat /\ x # Dash
BY DEF Alphabet, Letters, Dash

LEMMA UndashedGrouped ==
  ASSUME NEW chars \in Seq(Alphabet)
  PROVE  /\ Grouped(chars) \in Seq(Letters)
         /\ Undashed(Grouped(chars)) = chars
<1> DEFINE N == Len(chars)
           m == N + (IF chars = << >> THEN 0 ELSE (N - 1) \div 5)
           text == Grouped(chars)
<1>1. N \in Nat /\ (chars = << >> <=> N = 0)
  OBVIOUS
<1>0. \A i \in 1 .. N : chars[i] \in Alphabet
  OBVIOUS
<1> HIDE DEF N
<1>2. m \in Nat /\ m - m \div 6 = N
  BY <1>1
<1>3. \A i \in 1 .. m : i % 6 # 0 => i - i \div 6 \in 1 .. N
  BY <1>1, <1>2
<1>4. text = [i \in 1 .. m |-> IF i % 6 = 0 THEN Dash ELSE chars[i - i \div 6]]
  BY DEF Grouped, N
<1> HIDE DEF m, text
<1>5. \A i \in 1 .. m : text[i] \in Letters
  <2> SUFFICES ASSUME NEW i \in 1 .. m PROVE text[i] \in Letters
    OBVIOUS
  <2>1. CASE i % 6 = 0
    BY <1>4, <2>1, AlphabetLetters
  <2>2. CASE i % 6 # 0
    <3>1. chars[i - i \div 6] \in Alphabet
      BY <1>0, <1>3, <2>2
    <3>2. text[i] = chars[i - i \div 6]
      BY <1>4, <2>2
    <3>3. QED  BY <3>1, <3>2, AlphabetLetters
  <2>3. QED  BY <2>1, <2>2
<1>6. text \in Seq(Letters) /\ Len(text) = m
  <2>1. text = [i \in 1 .. m |-> text[i]]
    BY <1>4
  <2>2. text \in [1 .. m -> Letters]
    BY <1>5, <2>1
  <2>3. QED  BY <1>2, <2>2, Sequences
<1>7. PICK r : Strips(r, text) /\ Undashed(text) = r[m]
  BY <1>6, UndashedStrips
<1> DEFINE T == {i \in 0 .. m : r[i] = [j \in 1 .. i - i \div 6 |-> chars[j]]}
<1>8. 0 \in T
  BY <1>2, <1>7 DEF Strips
<1>9. ASSUME NEW i \in 1 .. m, i - 1 \in T PROVE i \in T
  <2> DEFINE q == (i - 1) - (i - 1) \div 6
  <2>1. r[i - 1] = [j \in 1 .. q |-> chars[j]] /\ q \in Nat
    BY <1>2, <1>9
  <2>2. r[i] = IF text[i] = Dash THEN r[i - 1] ELSE Append(r[i - 1], text[i])
    BY <1>6, <1>7 DEF Strips
  <2>3. CASE i % 6 = 0
    <3>1. i - i \div 6 = q
      BY <1>2, <2>3
    <3>2. text[i] = Dash
      BY <1>4, <2>3
    <3>3. QED  BY <2>1, <2>2, <3>1, <3>2
  <2>4. CASE i % 6 # 0
    <3>1. i - i \div 6 = q + 1
      BY <1>2, <2>4
    <3>2. q + 1 \in 1 .. N
      BY <1>3, <2>4, <3>1
    <3>3. text[i] = chars[q + 1] /\ text[i] # Dash
      <4>1. text[i] = chars[q + 1]
        BY <1>4, <2>4, <3>1
      <4>2. chars[q + 1] \in Alphabet
        BY <1>0, <3>2
      <4>3. QED  BY <4>1, <4>2, AlphabetLetters
    <3>4. r[i] = Append(r[i - 1], chars[q + 1])
      BY <2>2, <3>3
    <3> HIDE DEF q
    <3>5. Append([j \in 1 .. q |-> chars[j]], chars[q + 1]) = [j \in 1 .. q + 1 |-> chars[j]]
      BY <2>1
    <3>6. r[i] = [j \in 1 .. i - i \div 6 |-> chars[j]]
      BY <2>1, <3>1, <3>4, <3>5
    <3>7. QED  BY <1>2, <3>6
  <2>5. QED  BY <2>3, <2>4
<1> HIDE DEF T
<1>10. \A i \in 0 .. m : i \in T
  BY <1>2, <1>8, <1>9, BoundedInduction
<1>11. r[m] = [j \in 1 .. N |-> chars[j]]
  <2>1. m \in T /\ m - m \div 6 = N
    BY <1>2, <1>10
  <2>2. r[m] = [j \in 1 .. m - m \div 6 |-> chars[j]]
    BY <2>1 DEF T
  <2>3. QED  BY <2>1, <2>2, Zenon
<1>12. chars = [j \in 1 .. N |-> chars[j]]
  BY DEF N
<1>13. QED  BY <1>6, <1>7, <1>11, <1>12 DEF text
-----------------------------------------------------------------------------
(* The checksum of a byte string is four bytes. *)
Register == [0 .. 31 -> {0, 1}]

LEMMA ShiftedType ==
  ASSUME NEW crc \in Register, NEW bit \in {0, 1}
  PROVE  Shifted(crc, bit) \in Register
<1>1. ASSUME NEW i \in 0 .. 31
      PROVE  ((IF i < 31 THEN crc[i + 1] ELSE 0)
              + (IF i \in Generator THEN crc[0] + bit ELSE 0)) % 2 \in {0, 1}
  <2>1. (IF i < 31 THEN crc[i + 1] ELSE 0) \in {0, 1}
    BY DEF Register
  <2>2. (IF i \in Generator THEN crc[0] + bit ELSE 0) \in 0 .. 2
    BY DEF Register
  <2>3. QED  BY <2>1, <2>2
<1>2. QED  BY <1>1 DEF Shifted, Register

(* A byte that eight bits write *)
LEMMA ByteType ==
  ASSUME NEW bits, Len(bits) = 8, \A i \in 1 .. 8 : bits[i] \in {0, 1}
  PROVE  Number(bits, 1, 8) \in Bytes
<1> DEFINE b(k) == BitAt(bits, 1 + k)
<1>1. \A k \in 0 .. 7 : b(k) \in {0, 1}
  BY DEF BitAt
<1>2. /\ Number(bits, 1, 5) = 16 * BitAt(bits, 1) + 8 * b(1) + 4 * b(2) + 2 * b(3) + b(4)
      /\ Number(bits, 1, 8) = 8 * Number(bits, 1, 5) + 4 * b(5) + 2 * b(6) + b(7)
  <2>1. \A k \in 0 .. 7 : BitAt(bits, 1 + k) \in Int
    BY <1>1
  <2>2. QED  BY <2>1, ShortNumbers
<1>3. BitAt(bits, 1) = b(0)
  BY 1 + 0 = 1
<1> HIDE DEF b
<1>4. /\ b(0) \in {0, 1} /\ b(1) \in {0, 1} /\ b(2) \in {0, 1} /\ b(3) \in {0, 1}
      /\ b(4) \in {0, 1} /\ b(5) \in {0, 1} /\ b(6) \in {0, 1} /\ b(7) \in {0, 1}
  BY <1>1
<1>5. Number(bits, 1, 5) \in 0 .. 31
  BY <1>2, <1>3, <1>4
<1>6. QED  BY <1>2, <1>4, <1>5 DEF Bytes

LEMMA Crc32Type ==
  ASSUME NEW bytes \in Seq(Bytes)
  PROVE  Crc32(bytes) \in Seq(Bytes) /\ Len(Crc32(bytes)) = 4
<1> DEFINE n == 8 * Len(bytes)
           bit(k) == Bit(bytes[(k - 1) \div 8 + 1], (k - 1) % 8)
           step == [k \in 1 .. n |-> [x \in Register |-> Shifted(x, bit(k))]]
           start == [i \in 0 .. 31 |-> 1]
           Def(w) == w = [k \in 0 .. n |-> IF k = 0 THEN start ELSE Shifted(w[k - 1], bit(k))]
           register == CHOOSE w : Def(w)
           final == register[n]
           written(b) == [i \in 1 .. 8 |-> 1 - final[32 - 8 * (b - 1) - i]]
<1>1. Crc32(bytes) = [b \in 1 .. 4 |-> Number(written(b), 1, 8)]
  BY DEF Crc32
<1>2. n \in Nat /\ \A k \in 1 .. n : bit(k) \in {0, 1}
  <2>1. Len(bytes) \in Nat /\ \A k \in 1 .. Len(bytes) : bytes[k] \in Nat
    BY ByteStrings
  <2>2. ASSUME NEW k \in 1 .. n PROVE bit(k) \in {0, 1}
    <3>1. (k - 1) \div 8 + 1 \in 1 .. Len(bytes) /\ (k - 1) % 8 \in 0 .. 7
      BY <2>1
    <3>2. QED  BY <2>1, <3>1, BitRange
  <2>3. QED  BY <2>1, <2>2
<1> HIDE DEF n, bit
<1>3. \A k \in 1 .. n, x \in Register : Shifted(x, bit(k)) \in Register
  BY <1>2, ShiftedType
<1>4. step \in [1 .. n -> [Register -> Register]]
  BY <1>3
<1>5. \A k \in 1 .. n, x \in Register : step[k][x] = Shifted(x, bit(k))
  OBVIOUS
<1> HIDE DEF step
<1>6. start \in Register
  BY DEF Register
<1> HIDE DEF start
<1>7. PICK f : Follows(f, n, Register, start, step)
  BY <1>2, <1>4, <1>6, Recursion
<1>8. /\ f \in [0 .. n -> Register] /\ f[0] = start
      /\ \A k \in 1 .. n : f[k] = Shifted(f[k - 1], bit(k))
  <2>1. f \in [0 .. n -> Register] /\ f[0] = start
    BY <1>7 DEF Follows
  <2>2. ASSUME NEW k \in 1 .. n PROVE f[k] = Shifted(f[k - 1], bit(k))
    <3>1. f[k - 1] \in Register
      BY <1>2, <2>1
    <3>2. f[k] = step[k][f[k - 1]]
      BY <1>7 DEF Follows
    <3>3. QED  BY <1>5, <3>1, <3>2
  <2>3. QED  BY <2>1, <2>2
<1>9. Def(f)
  BY <1>8
<1> HIDE DEF Def
<1>10. Def(register)
  BY <1>9
<1> HIDE DEF register
<1>11. final \in Register
  <2> DEFINE T == {k \in 0 .. n : register[k] \in Register}
  <2>1. 0 \in T
    BY <1>2, <1>6, <1>10 DEF Def
  <2>2. ASSUME NEW k \in 1 .. n, k - 1 \in T PROVE k \in T
    <3>1. register[k] = Shifted(register[k - 1], bit(k))
      BY <1>2, <1>10 DEF Def
    <3>2. QED  BY <1>2, <1>3, <2>2, <3>1
  <2> HIDE DEF T
  <2>3. \A k \in 0 .. n : k \in T
    BY <1>2, <2>1, <2>2, BoundedInduction
  <2>4. QED  BY <1>2, <2>3 DEF T
<1> HIDE DEF final
<1>12. ASSUME NEW b \in 1 .. 4 PROVE Number(written(b), 1, 8) \in Bytes
  <2>1. Len(written(b)) = 8
    BY Lengths
  <2>2. \A i \in 1 .. 8 : written(b)[i] \in {0, 1}
    <3>1. \A j \in 0 .. 31 : final[j] \in {0, 1}
      BY <1>11 DEF Register
    <3>2. \A i \in 1 .. 8 : 32 - 8 * (b - 1) - i \in 0 .. 31
      OBVIOUS
    <3>3. ASSUME NEW i \in 1 .. 8 PROVE written(b)[i] \in {0, 1}
      <4>1. written(b)[i] = 1 - final[32 - 8 * (b - 1) - i]
        OBVIOUS
      <4>2. final[32 - 8 * (b - 1) - i] \in {0, 1}
        BY <3>1, <3>2
      <4>3. QED  BY <4>1, <4>2
    <3>4. QED  BY <3>3
  <2>3. QED  BY <2>1, <2>2, ByteType
<1> HIDE DEF written
<1>13. Crc32(bytes) \in [1 .. 4 -> Bytes]
  BY <1>1, <1>12
<1>14. QED  BY <1>13, Sequences
-----------------------------------------------------------------------------
(* Upper case is outside the alphabet. *)
LEMMA LettersAreLower ==
  ASSUME NEW text \in Seq(Letters)
  PROVE  Lower(text) = text
<1>1. \A x \in Letters : ~ (x >= 64)
  BY DEF Letters
<1>2. text = [i \in DOMAIN text |-> text[i]] /\ \A i \in DOMAIN text : text[i] \in Letters
  OBVIOUS
<1>3. QED  BY <1>1, <1>2 DEF Lower

(* What to_str writes is lower case. *)
LEMMA TextType ==
  ASSUME NEW b \in Seq(Bytes)
  PROVE  ToStr(b) \in Seq(Letters) /\ Lower(ToStr(b)) = ToStr(b)
<1> DEFINE p == Crc32(b) \o b
           n == CeilDiv(8 * Len(p), 5)
<1>1. p \in Seq(Bytes) /\ Len(p) \in Nat
  BY Crc32Type, ConcatProperties
<1>2. Base32(p) = [g \in 1 .. n |-> Base32(p)[g]]
  BY DEF Base32
<1> HIDE DEF p
<1>3. n \in Nat /\ \A g \in 1 .. n : Base32(p)[g] \in Alphabet
  BY <1>1, Base32Chars DEF Alphabet
<1> HIDE DEF n
<1>4. Base32(p) \in Seq(Alphabet)
  <2>1. Base32(p) \in [1 .. n -> Alphabet]
    BY <1>2, <1>3
  <2>2. QED  BY <1>3, <2>1, Sequences
<1>5. ToStr(b) \in Seq(Letters)
  BY <1>4, UndashedGrouped DEF ToStr, p
<1>6. QED  BY <1>5, LettersAreLower

LEMMA NotAPrincipal == ASSUME NEW b \in Seq(Bytes) PROVE b # NoPrincipal
<1>1. NoPrincipal[1] = -1 /\ 1 \in 1 .. Len(NoPrincipal)
  BY DEF NoPrincipal
<1>2. \A i \in 1 .. Len(b) : b[i] \in Nat
  BY ByteStrings
<1>3. QED  BY <1>1, <1>2

(* from_str does not tell the case, and returns a principal of that text. *)
LEMMA FromLower ==
  ASSUME NEW s, NEW t, Lower(s) = Lower(t)
  PROVE  FromStr(s) = FromStr(t)
BY DEF FromStr

LEMMA WrittenBack ==
  ASSUME NEW t, FromStr(t) # NoPrincipal
  PROVE  ToStr(FromStr(t)) = Lower(t)
BY DEF FromStr, CheckedBody

(* from_str reads what to_str wrote, whatever the bytes of the principal:    *)
(* no dash, no unused bit and no length is in the way.                       *)
THEOREM RoundTrip == \A b \in Seq(Bytes) : FromStr(ToStr(b)) = b
<1> SUFFICES ASSUME NEW b \in Seq(Bytes) PROVE FromStr(ToStr(b)) = b
  OBVIOUS
<1> DEFINE crc == Crc32(b)
           p == crc \o b
           chars == Base32(p)
           text == ToStr(b)
<1>1. crc \in Seq(Bytes) /\ Len(crc) = 4
  BY Crc32Type
<1> HIDE DEF crc
<1>2. /\ p \in Seq(Bytes) /\ Len(p) = 4 + Len(b) /\ Len(b) \in Nat
      /\ SubSeq(p, 1, 4) = crc /\ SubSeq(p, 5, Len(p)) = b
  <2>1. p \in Seq(Bytes) /\ Len(p) = 4 + Len(b) /\ Len(b) \in Nat
    <3>1. crc \o b \in Seq(Bytes) /\ Len(crc \o b) = Len(crc) + Len(b)
      BY <1>1, ConcatProperties
    <3>2. Len(b) \in Nat
      BY LenProperties
    <3>3. QED  BY <1>1, <3>1, <3>2
  <2>2. /\ \A i \in 1 .. 4 : p[i] = crc[i]
        /\ \A i \in 1 .. Len(b) : p[i + 4] = b[i]
    <3>1. \A i \in 1 .. 4 + Len(b) : p[i] = IF i <= 4 THEN crc[i] ELSE b[i - 4]
      <4>1. \A i \in 1 .. Len(crc) + Len(b) :
              (crc \o b)[i] = IF i <= Len(crc) THEN crc[i] ELSE b[i - Len(crc)]
        BY <1>1, ConcatProperties
      <4>2. QED  BY <1>1, <4>1
    <3> HIDE DEF p
    <3>2. ASSUME NEW i \in 1 .. Len(b) PROVE p[i + 4] = b[i]
      <4>1. i + 4 \in 1 .. 4 + Len(b) /\ ~ (i + 4 <= 4) /\ (i + 4) - 4 = i
        BY <2>1
      <4>2. QED  BY <3>1, <4>1
    <3>3. \A i \in 1 .. 4 : p[i] = crc[i]
      BY <2>1, <3>1
    <3>4. QED  BY <3>2, <3>3
  <2> HIDE DEF p
  <2>3. SubSeq(p, 1, 4) = crc
    <3>1. SubSeq(p, 1, 4) = [i \in 1 .. 4 |-> p[i]]
      BY <2>1
    <3>2. crc = [i \in 1 .. 4 |-> crc[i]]
      BY <1>1
    <3>3. QED  BY <2>2, <3>1, <3>2
  <2>4. SubSeq(p, 5, Len(p)) = b
    <3>1. SubSeq(p, 5, Len(p)) = [i \in 1 .. Len(b) |-> p[i + 4]]
      BY <2>1
    <3>2. b = [i \in 1 .. Len(b) |-> b[i]]
      OBVIOUS
    <3>3. QED  BY <2>2, <3>1, <3>2
  <2>5. QED  BY <2>1, <2>3, <2>4
<1>3. text = Grouped(chars)
  BY DEF ToStr, crc
<1> HIDE DEF p, text
<1>4. chars \in Seq(Alphabet) /\ Len(chars) = CeilDiv(8 * Len(p), 5)
  <2>1. chars = [g \in 1 .. CeilDiv(8 * Len(p), 5) |-> chars[g]]
    BY DEF Base32
  <2>2. chars \in [1 .. CeilDiv(8 * Len(p), 5) -> Alphabet]
    BY <1>2, <2>1, Base32Chars DEF Alphabet
  <2>3. QED  BY <1>2, <2>2, Base32Chars, Sequences
<1>5. Unbase32(chars) = p
  BY <1>2, Unbase32Base32
<1> HIDE DEF chars
<1>6. text \in Seq(Letters) /\ Undashed(text) = chars
  BY <1>3, <1>4, UndashedGrouped
<1>7. Lower(text) = text
  BY <1>6, LettersAreLower
<1>8. Decodable(chars)
  <2>1. \A x \in Alphabet : x < 32
    BY DEF Alphabet
  <2>2. \A i \in DOMAIN chars : chars[i] < 32
    BY <1>4, <2>1
  <2>3. Len(chars) % 8 \in {0, 2, 4, 5, 7}
    <3> DEFINE q == Len(p) \div 5
               r == Len(p) % 5
    <3>1. q \in Nat /\ r \in 0 .. 4 /\ Len(p) = 5 * q + r
      BY <1>2
    <3> HIDE DEF q, r
    <3>2. Len(chars) = 8 * q + (8 * r + 4) \div 5
      BY <1>4, <3>1 DEF CeilDiv
    <3>3. (8 * r + 4) \div 5 \in {0, 2, 4, 5, 7}
      BY <3>1
    <3>4. QED  BY <3>1, <3>2, <3>3
  <2>4. QED  BY <2>2, <2>3 DEF Decodable
<1>9. FromStr(text) = CheckedBody(p, text)
  BY <1>5, <1>6, <1>7, <1>8 DEF FromStr
<1>10. CheckedBody(p, text) = b
  <2>1. crc = Crc32(b) /\ text = ToStr(b)
    BY DEF crc, text
  <2>2. Len(p) >= 4
    BY <1>2
  <2>3. QED  BY <1>2, <2>1, <2>2 DEF CheckedBody
<1>11. QED  BY <1>9, <1>10 DEF text

(* The text of a principal is read in any case; no other text is read as it. *)
THEOREM ReadInAnyCase ==
  \A b \in Seq(Bytes) : \A t : FromStr(t) = b <=> Lower(t) = ToStr(b)
<1> SUFFICES ASSUME NEW b \in Seq(Bytes), NEW t PROVE FromStr(t) = b <=> Lower(t) = ToStr(b)
  OBVIOUS
<1>1. b # NoPrincipal
  BY NotAPrincipal
<1>2. CASE FromStr(t) = b
  BY <1>1, <1>2, WrittenBack
<1>3. CASE Lower(t) = ToStr(b)
  <2>1. FromStr(t) = FromStr(ToStr(b))
    BY <1>3, TextType, FromLower
  <2>2. QED  BY <1>3, <2>1, RoundTrip
<1>4. QED  BY <1>2, <1>3

(* Two principals are never written the same way. *)
THEOREM TextsDiffer ==
  \A b, c \in Seq(Bytes) : ToStr(b) = ToStr(c) => b = c
BY RoundTrip

-----------------------------------------------------------------------------

---------------------------------------------------------------------------

(* The calls *)

Fields == {"request_type", "sender", "canister_id", "method_name", "arg",
           "ingress_expiry", "nonce"}

(* An ideal hash has one preimage. *)
LEMMA HashInjective == ASSUME NEW x, NEW y, Hash(x) = Hash(y) PROVE x = y
  BY DEF Hash

LEMMA CallRequestFields ==
  ASSUME NEW r \in CallRequests
  PROVE  /\ DOMAIN r = Fields
         /\ r = [f \in Fields |-> r[f]]
  BY DEF CallRequests, Fields

(* The id of a call tells the call: to_request_id covers every field. *)
LEMMA IdInjective ==
  ASSUME NEW r \in CallRequests, NEW s \in CallRequests, ToRequestId(r) = ToRequestId(s)
  PROVE  r = s
<1> DEFINE Pairs(q) == {<<Hash(f), HashValue(f, q[f])>> : f \in DOMAIN q}
<1>1. Pairs(r) = Pairs(s)
  <2>1. Hash(Pairs(r)) = Hash(Pairs(s))
    BY DEF ToRequestId
  <2>2. QED  BY <2>1, HashInjective
<1>2. ASSUME NEW f \in Fields PROVE r[f] = s[f]
  <2>1. <<Hash(f), HashValue(f, r[f])>> \in Pairs(r)
    BY CallRequestFields
  <2>2. PICK g \in Fields : <<Hash(f), HashValue(f, r[f])>> = <<Hash(g), HashValue(g, s[g])>>
    BY <1>1, <2>1, CallRequestFields
  <2>3. Hash(f) = Hash(g) /\ HashValue(f, r[f]) = HashValue(g, s[g])
    BY <2>2
  <2>4. f = g
    BY <2>3, HashInjective
  <2>5. f # "paths"
    BY DEF Fields
  <2>6. Hash(r[f]) = Hash(s[f])
    BY <2>3, <2>4, <2>5 DEF HashValue
  <2>7. QED  BY <2>6, HashInjective
<1>3. QED  BY <1>2, CallRequestFields
-----------------------------------------------------------------------------
(***************************************************************************)
(* The inductive invariant.                                                *)
(***************************************************************************)
CallFields == {"state", "text", "arg", "made", "id", "wall", "sent", "at", "run"}

Shape == DOMAIN calls = Calls /\ \A c \in Calls : DOMAIN calls[c] = CallFields

(* the request that call c signed when it was made *)
Made(c) ==
  [request_type   |-> "call",
   sender         |-> Sender(identity),
   canister_id    |-> Resolved[calls[c].text],
   method_name    |-> "method",
   arg            |-> EncodeArg(calls[c].arg),
   ingress_expiry |-> calls[c].made + IngressExpiry,
   nonce          |-> Nonce(c)]

(* A call under way, or over, knows the id of its own request. *)
Signed ==
  \A c \in Calls : calls[c].state \notin {"idle", "ValueError"} =>
    /\ Made(c) \in CallRequests
    /\ calls[c].id = ToRequestId(Made(c))

(* A caller is told of a run with the id of its request. *)
ToldById ==
  \A c \in Calls : calls[c].state = "answered" =>
    /\ calls[c].run \in DOMAIN runs
    /\ ToRequestId(runs[calls[c].run]) = calls[c].id

(* The subnet runs nothing twice: what it took in it remembers until the    *)
(* request has run and can no longer be taken in again.                     *)
TakenInOnce ==
  /\ \A i, j \in DOMAIN runs : runs[i] = runs[j] => i = j
  /\ \A i \in DOMAIN runs : runs[i] \notin queue
  /\ \A r \in queue : ToRequestId(r) \in Remembered
  /\ \A i \in DOMAIN runs :
       now <= runs[i].ingress_expiry => ToRequestId(runs[i]) \in Remembered
  /\ \A p \in pool : \A r \in CallRequests :
       p.id = ToRequestId(r) => p.expiry = r.ingress_expiry

(* The envelope a call waits for an answer to. *)
Asking ==
  \A c \in Calls : calls[c].state \in {"posting", "polling"} =>
    /\ agent = "made"
    /\ calls[c].wall <= now + skew
    /\ \E req : /\ calls[c].sent = SignRequest(req, identity)
                /\ req.sender = Sender(identity)
                /\ req.ingress_expiry = calls[c].wall + IngressExpiry

(* An agent is made with an identity that was read. *)
Loaded == agent = "made" => Readable(login)

(* The envelope of a post is on the wire. *)
Posted == \A c \in Calls : calls[c].state = "posting" => calls[c].sent \in wire

(* A call is made with a text that is read, and fails at once with any other. *)
ReadText ==
  \A c \in Calls :
    /\ calls[c].state = "idle" => ~Begun(c)
    /\ calls[c].state = "ValueError" => ~Begun(c)
    /\ Begun(c) => /\ calls[c].text \in DOMAIN Resolved
                   /\ FromStr(calls[c].text) # NoPrincipal
    /\ calls[c].state = "ValueError" => FromStr(calls[c].text) = NoPrincipal

Types == Shape /\ Loaded /\ Posted /\ TypeOK

IInv ==
  /\ Types /\ Signed /\ ReadText /\ ToldById /\ TakenInOnce /\ Asking
  /\ RefusedOnlyWhenExpired
-----------------------------------------------------------------------------
(***************************************************************************)
(* What the actions leave of the other calls.                              *)
(***************************************************************************)
LEMMA InitIInv == Init => IInv
BY AgentAssumption
   DEF Init, IInv, Types, Shape, Loaded, Posted, TypeOK, Signed, ReadText, Begun, ToldById,
       TakenInOnce, Asking, CallFields, RefusedOnlyWhenExpired, NewCall, Contents, States

(* The request of a new call is a call request. *)
LEMMA CallRequestType ==
  ASSUME TypeOK, NEW c \in Calls, NEW text \in Texts[c], NEW arg \in Args,
         Resolved[text] # NoPrincipal
  PROVE  CallRequest(c, text, arg) \in CallRequests
<1>1. text \in DOMAIN Resolved
  BY DEF Resolved
<1>2. Resolved[text] \in Named
  BY <1>1 DEF Named
<1>3. GetExpiryDate \in Int
  BY AgentAssumption DEF TypeOK, GetExpiryDate, Wall
<1>4. Nonce(c) \in Calls \cup {Absent}
  BY DEF Nonce
<1>5. QED
  BY <1>2, <1>3, <1>4 DEF CallRequest, CallRequests

(* A call's later steps keep what it signed, and touch no other call. *)
LEMMA LaterSteps ==
  ASSUME Types, NEW c \in Calls,
         PostAccepted(c) \/ Refused(c) \/ GivesUp(c) \/ PollAgain(c) \/ Answered(c)
  PROVE  /\ \A d \in Calls : /\ calls'[d].text = calls[d].text
                             /\ calls'[d].arg = calls[d].arg
                             /\ calls'[d].made = calls[d].made
                             /\ calls'[d].id = calls[d].id
         /\ \A d \in Calls \ {c} : calls'[d] = calls[d]
         /\ calls[c].state \in {"posting", "polling"}
         /\ calls'[c].state \in {"polling", "refused", "doubt", "answered"}
         /\ UNCHANGED <<now, wire, agent, runs, fixedVars>>
<1> USE DEF Types, Shape, CallFields
<1>1. CASE PostAccepted(c)
  BY <1>1 DEF PostAccepted, Poll
<1>2. CASE Refused(c)
  BY <1>2 DEF Refused, subnetVars
<1>3. CASE GivesUp(c)
  BY <1>3 DEF GivesUp, subnetVars
<1>4. CASE PollAgain(c)
  BY <1>4 DEF PollAgain, Poll, subnetVars
<1>5. CASE Answered(c)
  <2>1. PICK i \in DOMAIN runs :
          calls' = [calls EXCEPT ![c].state = "answered", ![c].run = i]
    BY <1>5 DEF Answered
  <2>2. QED  BY <1>5, <2>1 DEF Answered, subnetVars
<1>6. QED  BY <1>1, <1>2, <1>3, <1>4, <1>5

(* A new call, and one with an impossible canister id, touch no other call. *)
LEMMA FirstSteps ==
  ASSUME Types, NEW c \in Calls, Call(c) \/ BadCanisterId(c)
  PROVE  /\ \A d \in Calls \ {c} : calls'[d] = calls[d]
         /\ calls[c].state = "idle"
         /\ calls'[c].state \in {"posting", "ValueError"}
         /\ calls'[c].state = "posting" => Call(c)
         /\ UNCHANGED <<now, agent, subnetVars, fixedVars>>
<1> USE DEF Types, Shape, CallFields
<1>1. CASE Call(c)
  <2>1. PICK text \in Texts[c], arg \in Args :
          Post(c, text, arg, SignRequest(CallRequest(c, text, arg), identity))
    BY <1>1 DEF Call
  <2>2. calls'[c].state = "posting" /\ \A d \in Calls \ {c} : calls'[d] = calls[d]
    BY <2>1 DEF Post
  <2>3. calls[c].state = "idle" /\ UNCHANGED <<now, agent, subnetVars, fixedVars>>
    BY <1>1 DEF Call
  <2>4. QED  BY <1>1, <2>2, <2>3
<1>2. CASE BadCanisterId(c)
  BY <1>2 DEF BadCanisterId
<1>3. QED  BY <1>1, <1>2

(* What is taken in from the wire is a request that was posted. *)
LEMMA TakeInTypes ==
  ASSUME TypeOK, NEW e \in wire, TakeIn(e)
  PROVE  queue' \subseteq Contents /\ \A p \in pool' : p.expiry \in Int
<1>1. e.content \in Contents /\ e.content \in CallRequests
  BY DEF TypeOK, Contents
<1>2. e.content.ingress_expiry \in Int
  BY <1>1 DEF CallRequests
<1>3. QED
  BY <1>1, <1>2 DEF TakeIn, TypeOK

(* Every step keeps the types. *)
LEMMA TypesStep == Types /\ [Next]_vars => Types'
<1> SUFFICES ASSUME Types, [Next]_vars PROVE Types'
  OBVIOUS
<1> USE DEF Types, Shape, Loaded, Posted, TypeOK, vars, agentVars, subnetVars, fixedVars, identity, States
<1>1. CASE Login
  BY <1>1 DEF Login, Contents, CallRequests
<1>2. ASSUME NEW c \in Calls, BadCanisterId(c) PROVE Types'
  BY <1>2 DEF BadCanisterId, CallFields, Contents, CallRequests
<1>3. ASSUME NEW c \in Calls, Call(c) PROVE Types'
  <2>1. PICK text \in Texts[c], arg \in Args :
          /\ Resolved[text] # NoPrincipal
          /\ Post(c, text, arg, SignRequest(CallRequest(c, text, arg), identity))
    BY <1>3 DEF Call
  <2> DEFINE req == CallRequest(c, text, arg)
             env == SignRequest(req, identity)
  <2>2. req \in CallRequests
    BY <2>1, CallRequestType
  <2>3. env.content = req /\ env.sender_delegation = identity.chain
    BY DEF SignRequest
  <2>4. Contents' = Contents \cup {req}
    BY <2>1, <2>3 DEF Contents, Post
  <2>5. UNCHANGED <<now, agent, subnetVars, fixedVars>> /\ agent = "made"
    BY <1>3 DEF Call
  <2>6. CallRequests' = CallRequests
    BY <2>5 DEF CallRequests
  <2>7. \A i \in DOMAIN identity.chain : identity.chain[i].expiration # Unreadable
    BY <2>5 DEF Identity, MapDelegation, Readable
  <2>8. runs \in Seq(Contents')
    <3>1. Contents \subseteq Contents'
      BY <2>4
    <3>2. QED  BY <3>1
  <2>9. Wall \in Int
    BY AgentAssumption DEF Wall
  <2>10. Shape'
    BY <2>1 DEF CallFields, Post
  <2>11. \A d \in Calls : /\ calls'[d].state \in States
                          /\ calls'[d].made \in Int
                          /\ calls'[d].wall \in Int
                          /\ calls'[d].at \in Nat
                          /\ calls'[d].run \in 0 .. Len(runs)
    <3> SUFFICES ASSUME NEW d \in Calls
                 PROVE  /\ calls'[d].state \in States
                        /\ calls'[d].made \in Int
                        /\ calls'[d].wall \in Int
                        /\ calls'[d].at \in Nat
                        /\ calls'[d].run \in 0 .. Len(runs)
      OBVIOUS
    <3>1. CASE d # c
      <4>1. calls'[d] = calls[d]
        BY <2>1, <3>1 DEF Post
      <4>2. QED  BY <4>1
    <3>2. CASE d = c
      <4>1. /\ calls'[c].state = "posting" /\ calls'[c].made = Wall /\ calls'[c].wall = Wall
            /\ calls'[c].at = calls[c].at /\ calls'[c].run = calls[c].run
        BY <2>1 DEF Post, CallFields
      <4>2. QED  BY <2>9, <3>2, <4>1
    <3>3. QED  BY <3>1, <3>2
  <2>12. \A e \in wire' : \A i \in DOMAIN e.sender_delegation :
           e.sender_delegation[i].expiration # Unreadable
    BY <2>1, <2>3, <2>7 DEF Post
  <2>13. Loaded'
    BY <2>5
  <2>14. TypeOK'
    BY <2>2, <2>4, <2>5, <2>6, <2>8, <2>11, <2>12
  <2>15. Posted'
    BY <2>1 DEF CallFields, Post
  <2>16. QED  BY <2>10, <2>13, <2>14, <2>15
<1>4. ASSUME NEW c \in Calls,
             \/ PostAccepted(c) \/ Refused(c) \/ GivesUp(c) \/ PollAgain(c) \/ Answered(c)
      PROVE  Types'
  <2>1. UNCHANGED <<now, wire, agent, runs, fixedVars>>
    BY <1>4 DEF PostAccepted, Refused, GivesUp, PollAgain, Answered
  <2>2. Contents' = Contents /\ CallRequests' = CallRequests
    BY <2>1 DEF Contents, CallRequests
  <2>3. Shape'
    BY <1>4 DEF PostAccepted, Refused, GivesUp, PollAgain, Answered, Poll, CallFields
  <2>4. Wall \in Int
    BY AgentAssumption DEF Wall
  <2>5. \A d \in Calls : /\ calls'[d].state \in States
                         /\ calls'[d].made \in Int
                         /\ calls'[d].wall \in Int
                         /\ calls'[d].at \in Nat
                         /\ calls'[d].run \in 0 .. Len(runs)
    BY <1>4, <2>4 DEF PostAccepted, Refused, GivesUp, PollAgain, Answered, Poll, CallFields
  <2>6. queue' \subseteq Contents /\ \A p \in pool' : p.expiry \in Int
    <3>1. CASE UNCHANGED <<pool, queue>>
      BY <3>1
    <3>2. CASE ~UNCHANGED <<pool, queue>>
      <4>1. PostAccepted(c)
        BY <1>4, <3>2 DEF Refused, GivesUp, PollAgain, Answered
      <4>2. calls[c].sent \in wire
        BY <4>1 DEF PostAccepted
      <4>3. QED  BY <4>1, <4>2, TakeInTypes DEF PostAccepted
    <3>3. QED  BY <3>1, <3>2
  <2>7. Posted'
    BY <1>4, <2>1, LaterSteps
  <2>8. TypeOK'
    <3>1. now' \in Nat /\ skew' \in Skews /\ login' \in Logins /\ nonces' \in BOOLEAN
      BY <2>1
    <3>2. agent' \in {"absent", "made", "ValueError"} /\ runs' \in Seq(Contents')
      BY <2>1, <2>2
    <3>3. \A e \in wire' : \A i \in DOMAIN e.sender_delegation :
             e.sender_delegation[i].expiration # Unreadable
      BY <2>1
    <3>4. Contents' \subseteq CallRequests' /\ queue' \subseteq Contents'
      BY <2>2, <2>6
    <3>5. QED  BY <2>1, <2>5, <2>6, <3>1, <3>2, <3>3, <3>4
  <2>9. Loaded'
    BY <2>1
  <2>10. QED  BY <2>3, <2>7, <2>8, <2>9
<1>5. CASE Redeliver
  <2>1. UNCHANGED <<now, wire, agentVars, runs, fixedVars>>
    BY <1>5 DEF Redeliver
  <2>2. Contents' = Contents /\ CallRequests' = CallRequests
    BY <2>1 DEF Contents, CallRequests
  <2>3. queue' \subseteq Contents /\ \A p \in pool' : p.expiry \in Int
    BY <1>5, TakeInTypes DEF Redeliver
  <2>4. QED  BY <2>1, <2>2, <2>3
<1>6. CASE Execute
  <2>1. PICK r \in queue : queue' = queue \ {r} /\ runs' = Append(runs, r)
    BY <1>6 DEF Execute
  <2>2. UNCHANGED <<now, wire, agentVars, pool, fixedVars>>
    BY <1>6 DEF Execute
  <2>3. Contents' = Contents /\ CallRequests' = CallRequests
    BY <2>2 DEF Contents, CallRequests
  <2>4. runs' \in Seq(Contents) /\ Len(runs') = Len(runs) + 1
    BY <2>1
  <2>5. \A d \in Calls : calls[d].run \in 0 .. Len(runs')
    BY <2>4
  <2>6. QED  BY <2>1, <2>2, <2>3, <2>4, <2>5
<1>7. CASE Prune \/ Tick \/ UNCHANGED vars
  <2>1. UNCHANGED <<wire, agentVars, queue, runs, fixedVars>> /\ pool' \subseteq pool
    BY <1>7 DEF Prune, Tick
  <2>2. now' \in Nat
    BY <1>7 DEF Prune, Tick
  <2>3. Contents' = Contents /\ CallRequests' = CallRequests
    BY <2>1 DEF Contents, CallRequests
  <2>4. QED  BY <2>1, <2>2, <2>3
<1>8. QED
  BY <1>1, <1>2, <1>3, <1>4, <1>5, <1>6, <1>7 DEF Next, CallStep
-----------------------------------------------------------------------------
LEMMA SignedStep == Types /\ Signed /\ [Next]_vars => Signed'
<1> SUFFICES ASSUME Types, Signed, [Next]_vars PROVE Signed'
  OBVIOUS
<1> USE DEF vars, agentVars, subnetVars, fixedVars
<1>1. UNCHANGED fixedVars
  BY DEF Next, Login, CallStep, BadCanisterId, Call, PostAccepted, Refused, GivesUp, PollAgain,
         Answered, Redeliver, Execute, Prune, Tick
<1>2. CallRequests' = CallRequests
  BY <1>1 DEF CallRequests, identity
<1>3. ASSUME NEW d \in Calls, calls'[d].state \notin {"idle", "ValueError"},
             calls[d].state \notin {"idle", "ValueError"},
             calls'[d].text = calls[d].text, calls'[d].arg = calls[d].arg,
             calls'[d].made = calls[d].made, calls'[d].id = calls[d].id
      PROVE  Made(d)' \in CallRequests' /\ calls'[d].id = ToRequestId(Made(d)')
  <2>1. Made(d)' = Made(d)
    BY <1>1, <1>3 DEF Made, Nonce, identity
  <2>2. QED  BY <1>2, <1>3, <2>1 DEF Signed
<1>4. ASSUME NEW c \in Calls, Call(c) \/ BadCanisterId(c) PROVE Signed'
  <2>1. \A d \in Calls \ {c} : calls'[d] = calls[d]
    BY <1>4, FirstSteps
  <2>2. ASSUME Call(c) PROVE Made(c)' \in CallRequests' /\ calls'[c].id = ToRequestId(Made(c)')
    <3>1. PICK text \in Texts[c], arg \in Args :
            /\ Resolved[text] # NoPrincipal
            /\ Post(c, text, arg, SignRequest(CallRequest(c, text, arg), identity))
      BY <2>2 DEF Call
    <3>2. /\ calls'[c].text = text
          /\ calls'[c].arg = arg
          /\ calls'[c].made = Wall
          /\ calls'[c].id = ToRequestId(CallRequest(c, text, arg))
      BY <3>1 DEF Types, Shape, CallFields, Post, SignRequest
    <3>3. Made(c)' = CallRequest(c, text, arg)
      BY <1>1, <3>2 DEF Made, CallRequest, GetExpiryDate, Nonce, identity
    <3>4. CallRequest(c, text, arg) \in CallRequests
      BY <3>1, CallRequestType DEF Types
    <3>5. QED  BY <1>2, <3>2, <3>3, <3>4
  <2>3. QED
    BY <1>3, <1>4, <2>1, <2>2, FirstSteps DEF Signed
<1>5. ASSUME NEW c \in Calls,
             PostAccepted(c) \/ Refused(c) \/ GivesUp(c) \/ PollAgain(c) \/ Answered(c)
      PROVE  Signed'
  BY <1>3, <1>5, LaterSteps DEF Signed
<1>6. CASE UNCHANGED calls
  BY <1>3, <1>6 DEF Signed
<1>7. QED
  BY <1>4, <1>5, <1>6 DEF Next, CallStep, Login, Redeliver, Execute, Prune, Tick

LEMMA ReadTextStep == Types /\ ReadText /\ [Next]_vars => ReadText'
<1> SUFFICES ASSUME Types, ReadText, [Next]_vars PROVE ReadText'
  OBVIOUS
<1> USE DEF vars, agentVars, subnetVars, fixedVars
<1> DEFINE Sound(call) ==
             /\ call.state \in {"idle", "ValueError"} => call.id = << >>
             /\ call.id # << >> => /\ call.text \in DOMAIN Resolved
                                  /\ FromStr(call.text) # NoPrincipal
             /\ call.state = "ValueError" => FromStr(call.text) = NoPrincipal
<1>1. (\A d \in Calls : Sound(calls[d])) /\ ((\A d \in Calls : Sound(calls'[d])) => ReadText')
  BY DEF ReadText, Begun
<1>2. ASSUME NEW c \in Calls, NEW text \in Texts[c]
      PROVE  text \in DOMAIN Resolved /\ Resolved[text] = FromStr(text)
  BY DEF Resolved
<1>3. ASSUME NEW c \in Calls, Call(c) PROVE ReadText'
  <2>1. PICK text \in Texts[c], arg \in Args :
          /\ Resolved[text] # NoPrincipal
          /\ Post(c, text, arg, SignRequest(CallRequest(c, text, arg), identity))
    BY <1>3 DEF Call
  <2>2. calls'[c].state = "posting" /\ calls'[c].text = text
    BY <2>1 DEF Types, Shape, CallFields, Post
  <2>3. Sound(calls'[c])
    BY <1>2, <2>1, <2>2
  <2>4. QED  BY <1>1, <1>3, <2>3, FirstSteps
<1>4. ASSUME NEW c \in Calls, BadCanisterId(c) PROVE ReadText'
  <2>1. calls[c].state = "idle"
    BY <1>4 DEF BadCanisterId
  <2>2. PICK text \in Texts[c] :
          /\ Resolved[text] = NoPrincipal
          /\ calls' = [calls EXCEPT ![c].state = "ValueError", ![c].text = text]
    BY <1>4 DEF BadCanisterId
  <2>3. /\ calls'[c].state = "ValueError" /\ calls'[c].text = text
        /\ calls'[c].id = calls[c].id
    BY <2>2 DEF Types, Shape, CallFields
  <2>4. Sound(calls'[c])
    BY <1>1, <1>2, <2>1, <2>2, <2>3
  <2>5. QED  BY <1>1, <1>4, <2>4, FirstSteps
<1>5. ASSUME NEW c \in Calls,
             PostAccepted(c) \/ Refused(c) \/ GivesUp(c) \/ PollAgain(c) \/ Answered(c)
      PROVE  ReadText'
  <2>1. calls'[c].text = calls[c].text /\ calls'[c].id = calls[c].id
    BY <1>5, LaterSteps
  <2>2. calls'[c].state \notin {"idle", "ValueError"}
    BY <1>5, LaterSteps
  <2>3. Sound(calls'[c])
    BY <1>1, <2>1, <2>2
  <2>4. QED  BY <1>1, <1>5, <2>3, LaterSteps
<1>6. CASE UNCHANGED calls
  BY <1>1, <1>6
<1>7. QED
  BY <1>3, <1>4, <1>5, <1>6 DEF Next, CallStep, Login, Redeliver, Execute, Prune, Tick

LEMMA ToldByIdStep == Types /\ ToldById /\ [Next]_vars => ToldById'
<1> SUFFICES ASSUME Types, ToldById, [Next]_vars PROVE ToldById'
  OBVIOUS
<1> USE DEF vars, agentVars, subnetVars, fixedVars
<1>1. ASSUME NEW c \in Calls, Call(c) \/ BadCanisterId(c) PROVE ToldById'
  BY <1>1, FirstSteps DEF ToldById
<1>2. ASSUME NEW c \in Calls,
             PostAccepted(c) \/ Refused(c) \/ GivesUp(c) \/ PollAgain(c) \/ Answered(c)
      PROVE  ToldById'
  <2>1. ASSUME calls'[c].state = "answered"
        PROVE  calls'[c].run \in DOMAIN runs /\ ToRequestId(runs[calls'[c].run]) = calls[c].id
    BY <1>2, <2>1 DEF Types, Shape, CallFields, PostAccepted, Refused, GivesUp, PollAgain,
                      Answered, Poll
  <2>2. QED  BY <1>2, <2>1, LaterSteps DEF ToldById
<1>3. CASE Execute
  <2>1. PICK r \in queue : runs' = Append(runs, r)
    BY <1>3 DEF Execute
  <2>2. runs \in Seq(Contents)
    BY DEF Types, TypeOK
  <2>3. \A i \in DOMAIN runs : i \in DOMAIN runs' /\ runs'[i] = runs[i]
    BY <2>1, <2>2
  <2>4. QED  BY <1>3, <2>3 DEF ToldById, Execute
<1>4. CASE UNCHANGED <<calls, runs>>
  BY <1>4 DEF ToldById
<1>5. QED
  BY <1>1, <1>2, <1>3, <1>4 DEF Next, CallStep, Login, Redeliver, Prune, Tick

(* Taking in an envelope keeps the subnet's books. *)
LEMMA TakeInOnce ==
  ASSUME Types, TakenInOnce, NEW e \in wire, Accepted(e), TakeIn(e),
         UNCHANGED <<now, wire, runs, fixedVars>>
  PROVE  TakenInOnce'
<1> DEFINE r == e.content
           id == ToRequestId(r)
<1>1. CallRequests' = CallRequests
  BY DEF CallRequests, identity, fixedVars
<1>2. r \in CallRequests
  BY DEF Types, TypeOK, Contents
<1>3. CASE id \in Remembered
  <2>1. UNCHANGED <<pool, queue>>
    BY <1>3 DEF TakeIn
  <2>2. QED  BY <1>1, <2>1 DEF TakenInOnce, Remembered
<1>4. CASE id \notin Remembered
  <2>1. /\ pool' = pool \cup {[id |-> id, expiry |-> r.ingress_expiry]}
        /\ queue' = queue \cup {r}
    BY <1>4 DEF TakeIn
  <2>2. Remembered' = Remembered \cup {id}
    <3> DEFINE entry == [id |-> id, expiry |-> r.ingress_expiry]
    <3>1. entry.id = id
      OBVIOUS
    <3>2. Remembered' = {p.id : p \in pool \cup {entry}}
      BY <2>1 DEF Remembered
    <3> HIDE DEF entry
    <3>3. QED  BY <3>1, <3>2 DEF Remembered
  <2>3. \A i \in DOMAIN runs : runs[i] # r
    <3>1. now <= r.ingress_expiry
      BY DEF Accepted
    <3>2. QED  BY <1>4, <3>1 DEF TakenInOnce
  <2>4. \A i \in DOMAIN runs : runs[i] \notin queue'
    BY <2>1, <2>3 DEF TakenInOnce
  <2>5. \A q \in queue' : ToRequestId(q) \in Remembered'
    BY <2>1, <2>2 DEF TakenInOnce
  <2>6. \A i \in DOMAIN runs :
          now <= runs[i].ingress_expiry => ToRequestId(runs[i]) \in Remembered'
    BY <2>2 DEF TakenInOnce
  <2>7. ASSUME NEW p \in pool', NEW q \in CallRequests, p.id = ToRequestId(q)
        PROVE  p.expiry = q.ingress_expiry
    <3>1. CASE p \in pool
      BY <2>7, <3>1 DEF TakenInOnce
    <3>2. CASE p \notin pool
      <4>1. p = [id |-> id, expiry |-> r.ingress_expiry]
        BY <2>1, <3>2
      <4>2. q = r
        BY <1>2, <2>7, <4>1, IdInjective
      <4>3. QED  BY <4>1, <4>2
    <3>3. QED  BY <3>1, <3>2
  <2>8. QED
    BY <1>1, <2>4, <2>5, <2>6, <2>7 DEF TakenInOnce
<1>5. QED  BY <1>3, <1>4

LEMMA TakenInOnceStep == Types /\ TakenInOnce /\ [Next]_vars => TakenInOnce'
<1> SUFFICES ASSUME Types, TakenInOnce, [Next]_vars PROVE TakenInOnce'
  OBVIOUS
<1> USE DEF vars, agentVars, subnetVars, fixedVars
<1>1. CallRequests' = CallRequests
  BY DEF CallRequests, identity, Next, Login, CallStep, BadCanisterId, Call, PostAccepted, Refused,
         GivesUp, PollAgain, Answered, Redeliver, Execute, Prune, Tick
<1>2. ASSUME NEW c \in Calls, PostAccepted(c) PROVE TakenInOnce'
  <2>1. calls[c].sent \in wire
    BY <1>2 DEF PostAccepted, Types, Posted
  <2>2. QED  BY <1>2, <2>1, TakeInOnce DEF PostAccepted
<1>3. CASE Redeliver
  BY <1>3, TakeInOnce DEF Redeliver
<1>4. CASE Execute
  <2>1. PICK r \in queue : queue' = queue \ {r} /\ runs' = Append(runs, r)
    BY <1>4 DEF Execute
  <2>2. runs \in Seq(Contents)
    BY DEF Types, TypeOK
  <2>3. /\ DOMAIN runs' = DOMAIN runs \cup {Len(runs) + 1}
        /\ Len(runs) + 1 \notin DOMAIN runs
        /\ runs'[Len(runs) + 1] = r
        /\ \A i \in DOMAIN runs : runs'[i] = runs[i]
    BY <2>1, <2>2
  <2>4. UNCHANGED <<now, pool>> /\ Remembered' = Remembered
    BY <1>4 DEF Execute, Remembered
  <2>5. \A i, j \in DOMAIN runs' : runs'[i] = runs'[j] => i = j
    BY <2>1, <2>3 DEF TakenInOnce
  <2>6. \A i \in DOMAIN runs' : runs'[i] \notin queue'
    BY <2>1, <2>3 DEF TakenInOnce
  <2>7. \A q \in queue' : ToRequestId(q) \in Remembered'
    BY <2>1, <2>4 DEF TakenInOnce
  <2>8. \A i \in DOMAIN runs' :
          now <= runs'[i].ingress_expiry => ToRequestId(runs'[i]) \in Remembered
    BY <2>3 DEF TakenInOnce
  <2>9. QED
    BY <1>1, <2>4, <2>5, <2>6, <2>7, <2>8 DEF TakenInOnce
<1>5. CASE Prune
  <2>1. PICK p \in pool : /\ p.expiry < now
                          /\ \A r \in queue : ToRequestId(r) # p.id
                          /\ pool' = pool \ {p}
    BY <1>5 DEF Prune
  <2>2. UNCHANGED <<now, queue, runs>>
    BY <1>5 DEF Prune
  <2>3. \A id \in Remembered : id # p.id => id \in Remembered'
    BY <2>1 DEF Remembered
  <2>4. \A q \in queue : ToRequestId(q) \in Remembered'
    BY <2>1, <2>3 DEF TakenInOnce
  <2>5. ASSUME NEW i \in DOMAIN runs, now <= runs[i].ingress_expiry
        PROVE  ToRequestId(runs[i]) \in Remembered'
    <3>1. runs[i] \in CallRequests
      BY DEF Types, TypeOK
    <3>2. ToRequestId(runs[i]) \in Remembered
      BY <2>5 DEF TakenInOnce
    <3>3. p.expiry \in Int /\ runs[i].ingress_expiry \in Int /\ now \in Int
      BY <3>1 DEF Types, TypeOK, CallRequests
    <3>4. ToRequestId(runs[i]) # p.id
      BY <2>1, <2>5, <3>1, <3>3 DEF TakenInOnce
    <3>5. QED  BY <2>3, <3>2, <3>4
  <2>6. QED
    BY <1>1, <2>1, <2>2, <2>4, <2>5 DEF TakenInOnce
<1>6. CASE Tick
  <2>1. ASSUME NEW i \in DOMAIN runs, now' <= runs[i].ingress_expiry
        PROVE  now <= runs[i].ingress_expiry
    <3>1. runs[i] \in CallRequests
      BY DEF Types, TypeOK
    <3>2. runs[i].ingress_expiry \in Int /\ now \in Int /\ now' = now + 1
      BY <1>6, <3>1 DEF Types, TypeOK, CallRequests, Tick
    <3>3. QED  BY <2>1, <3>2
  <2>2. UNCHANGED subnetVars /\ Remembered' = Remembered
    BY <1>6 DEF Tick, Remembered
  <2>3. QED  BY <1>1, <2>1, <2>2 DEF TakenInOnce
<1>7. CASE UNCHANGED <<now, subnetVars>>
  <2>1. Remembered' = Remembered
    BY <1>7 DEF Remembered
  <2>2. QED  BY <1>1, <1>7, <2>1 DEF TakenInOnce
<1>8. QED
  BY <1>2, <1>3, <1>4, <1>5, <1>6, <1>7
     DEF Next, CallStep, Login, BadCanisterId, Call, Refused, GivesUp, PollAgain, Answered
-----------------------------------------------------------------------------
LEMMA AskingStep == Types /\ Asking /\ [Next]_vars => Asking'
<1> SUFFICES ASSUME Types, Asking, [Next]_vars PROVE Asking'
  OBVIOUS
<1> USE DEF vars, agentVars, subnetVars, fixedVars
<1>1. identity' = identity
  BY DEF identity, Next, Login, CallStep, BadCanisterId, Call, PostAccepted, Refused,
         GivesUp, PollAgain, Answered, Redeliver, Execute, Prune, Tick
<1>2. now \in Int /\ skew \in Int /\ Wall = now + skew
  BY AgentAssumption DEF Types, TypeOK, Wall
<1>3. ASSUME NEW c \in Calls, Call(c) \/ BadCanisterId(c) PROVE Asking'
  <2>1. ASSUME Call(c)
        PROVE  /\ agent = "made" /\ calls'[c].wall = now + skew
               /\ \E req : /\ calls'[c].sent = SignRequest(req, identity)
                           /\ req.sender = Sender(identity)
                           /\ req.ingress_expiry = calls'[c].wall + IngressExpiry
    <3>1. PICK text \in Texts[c], arg \in Args :
            Post(c, text, arg, SignRequest(CallRequest(c, text, arg), identity))
      BY <2>1 DEF Call
    <3>2. /\ calls'[c].wall = Wall
          /\ calls'[c].sent = SignRequest(CallRequest(c, text, arg), identity)
      BY <3>1 DEF Post, Types, Shape, CallFields
    <3>3. /\ CallRequest(c, text, arg).sender = Sender(identity)
          /\ CallRequest(c, text, arg).ingress_expiry = Wall + IngressExpiry
      BY DEF CallRequest, GetExpiryDate
    <3>4. agent = "made"
      BY <2>1 DEF Call
    <3>5. QED  BY <1>2, <3>2, <3>3, <3>4
  <2>2. /\ UNCHANGED <<now, agent, skew>>
        /\ \A d \in Calls \ {c} : calls'[d] = calls[d]
    BY <1>3, FirstSteps
  <2>3. calls'[c].state \in {"posting", "polling"} => Call(c)
    BY <1>3, FirstSteps
  <2>4. QED  BY <1>1, <1>2, <2>1, <2>2, <2>3 DEF Asking
<1>4. ASSUME NEW c \in Calls, PostAccepted(c) \/ PollAgain(c) PROVE Asking'
  <2>1. calls'[c].wall = Wall /\ calls'[c].sent = SignRequest(StatusRequest(c), identity)
    BY <1>4 DEF PostAccepted, PollAgain, Poll, Types, Shape, CallFields
  <2>2. /\ StatusRequest(c).sender = Sender(identity)
        /\ StatusRequest(c).ingress_expiry = Wall + IngressExpiry
    BY DEF StatusRequest, GetExpiryDate
  <2>3. /\ UNCHANGED <<now, agent, skew>>
        /\ \A d \in Calls \ {c} : calls'[d] = calls[d]
        /\ calls[c].state \in {"posting", "polling"}
    BY <1>4, LaterSteps
  <2>4. agent = "made"
    BY <2>3 DEF Asking
  <2>5. QED  BY <1>1, <1>2, <2>1, <2>2, <2>3, <2>4 DEF Asking
<1>5. ASSUME NEW c \in Calls, Refused(c) \/ GivesUp(c) \/ Answered(c) PROVE Asking'
  <2>1. calls'[c].state \notin {"posting", "polling"}
    BY <1>5 DEF Refused, GivesUp, Answered, Types, Shape, CallFields
  <2>2. /\ UNCHANGED <<now, agent, skew>>
        /\ \A d \in Calls \ {c} : calls'[d] = calls[d]
    BY <1>5, LaterSteps
  <2>3. QED  BY <1>1, <2>1, <2>2 DEF Asking
<1>6. CASE Login
  BY <1>1, <1>6 DEF Login, Asking
<1>7. CASE Tick
  <2>1. \A c \in Calls : calls[c].wall \in Int
    BY DEF Types, TypeOK
  <2>2. now' = now + 1 /\ UNCHANGED <<agent, calls, skew>>
    BY <1>7 DEF Tick
  <2>3. \A c \in Calls : calls[c].wall <= now + skew => calls[c].wall <= now' + skew'
    BY <1>2, <2>1, <2>2
  <2>4. QED  BY <1>1, <2>2, <2>3 DEF Asking
<1>8. CASE UNCHANGED <<now, agentVars, skew>>
  BY <1>1, <1>8 DEF Asking
<1>9. QED
  BY <1>3, <1>4, <1>5, <1>6, <1>7, <1>8 DEF Next, CallStep, Redeliver, Execute, Prune

(* The chain of delegations of a sound identity convinces the subnet. *)
LEMMA ProperIsAuthentic ==
  ASSUME Types, Proper(login), NEW req, req.sender = Sender(identity),
         \A i \in DOMAIN login.links : now <= login.links[i].expires
  PROVE  Authentic(SignRequest(req, identity))
<1> DEFINE e     == SignRequest(req, identity)
           links == login.links
           n     == Len(links)
<1>1. /\ e.content = req
      /\ e.sender_pubkey = login.root
      /\ e.sender_delegation = [i \in DOMAIN links |-> MapDelegation(links[i])]
      /\ e.sender_sig = IF login.key = Unsigned THEN <<Unsigned>>
                        ELSE Signature(login.key, "ic-request", ToRequestId(req))
  BY DEF SignRequest, identity, Identity
<1>2. n \in Nat /\ DOMAIN links = 1 .. n /\ DOMAIN e.sender_delegation = 1 .. n
  BY <1>1, AgentAssumption DEF Types, TypeOK
<1>3. CASE login.root = Unsigned
  BY <1>1, <1>3 DEF Authentic, Sender, identity, Identity
<1>4. CASE login.root # Unsigned
  <2>1. e.content.sender = SelfAuthenticating(e.sender_pubkey)
    BY <1>1, <1>4 DEF Sender, identity, Identity
  <2>2. ASSUME NEW i \in 1 .. n
        PROVE  /\ e.sender_delegation[i].pubkey = links[i].pubkey
               /\ e.sender_delegation[i].expiration = links[i].expires
               /\ e.sender_delegation[i].signature =
                    Signature(links[i].signer, "delegation",
                              <<links[i].pubkey, links[i].expires, Everywhere>>)
    BY SMTT(30), <1>1, <1>2 DEF MapDelegation, Proper
  <2>3. ASSUME NEW i \in 1 .. n PROVE links[i].signer = Signer(e, i - 1)
    <3>1. CASE i = 1
      BY <1>1, <1>2, <3>1 DEF Proper, Signer
    <3>2. CASE i # 1
      <4>1. i - 1 \in 1 .. n /\ i - 1 # 0
        BY <1>2, <3>2
      <4>2. links[i].signer = links[i - 1].pubkey
        BY <1>2, <3>2 DEF Proper
      <4>3. QED  BY <2>2, <4>1, <4>2 DEF Signer
    <3>3. QED  BY <3>1, <3>2
  <2>4. login.key = Signer(e, n)
    <3>1. CASE n = 0
      <4>1. links = << >>
        BY <1>2, <3>1 DEF Proper
      <4>2. QED  BY <1>1, <3>1, <4>1 DEF Proper, Signer
    <3>2. CASE n # 0
      <4>1. n \in 1 .. n /\ links # << >>
        BY <1>2, <3>2
      <4>2. QED  BY <2>2, <3>2, <4>1 DEF Proper, Signer
    <3>3. QED  BY <3>1, <3>2
  <2>5. Len(e.sender_delegation) = n
    BY <1>1, <1>2
  <2>6. e.sender_sig = Signature(Signer(e, Len(e.sender_delegation)), "ic-request",
                                 ToRequestId(e.content))
    BY <1>1, <1>4, <2>4, <2>5 DEF Proper
  <2>7. ASSUME NEW i \in DOMAIN e.sender_delegation
        PROVE  LET d == e.sender_delegation[i] IN
               /\ now <= d.expiration
               /\ d.signature = Signature(Signer(e, i - 1), "delegation",
                                          <<d.pubkey, d.expiration, Everywhere>>)
    BY <1>2, <2>2, <2>3
  <2>8. QED  BY <2>1, <2>6, <2>7 DEF Authentic
<1>5. QED  BY <1>3, <1>4

LEMMA RefusedStep ==
  Types /\ Asking /\ RefusedOnlyWhenExpired /\ [Next]_vars => RefusedOnlyWhenExpired'
<1> SUFFICES ASSUME Types, Asking, RefusedOnlyWhenExpired, [Next]_vars
             PROVE  RefusedOnlyWhenExpired'
  OBVIOUS
<1> USE DEF vars, agentVars, subnetVars, fixedVars
<1>1. UNCHANGED login
  BY DEF Next, Login, CallStep, BadCanisterId, Call, PostAccepted, Refused,
         GivesUp, PollAgain, Answered, Redeliver, Execute, Prune, Tick
<1>2. ASSUME NEW c \in Calls, Refused(c) PROVE RefusedOnlyWhenExpired'
  <2>1. /\ calls'[c].at = now /\ calls'[c].wall = calls[c].wall
        /\ \A d \in Calls \ {c} : calls'[d] = calls[d]
        /\ calls[c].state \in {"posting", "polling"}
        /\ ~Accepted(calls[c].sent)
    BY <1>2 DEF Refused, Types, Shape, CallFields
  <2>2. PICK req : /\ calls[c].sent = SignRequest(req, identity)
                   /\ req.sender = Sender(identity)
                   /\ req.ingress_expiry = calls[c].wall + IngressExpiry
    BY <2>1 DEF Asking
  <2>3. calls[c].sent.content = req
    BY <2>2 DEF SignRequest
  <2>4. /\ calls[c].wall \in Int /\ now \in Int /\ skew \in Int
        /\ IngressExpiry + skew <= Window /\ calls[c].wall <= now + skew
        /\ IngressExpiry \in Int /\ Window \in Int
    BY <2>1, AgentAssumption DEF Asking, Types, TypeOK
  <2>5. req.ingress_expiry <= now + Window
    BY <2>2, <2>4
  <2>6. \/ ~(now <= calls[c].wall + IngressExpiry)
        \/ ~Authentic(calls[c].sent)
    BY <2>1, <2>2, <2>3, <2>5 DEF Accepted
  <2>7. \A i \in DOMAIN login.links : login.links[i].expires \in Int
    BY AgentAssumption DEF Types, TypeOK
  <2>8. Proper(login) =>
          \/ now > calls[c].wall + IngressExpiry
          \/ \E i \in DOMAIN login.links : now > login.links[i].expires
    BY <2>2, <2>4, <2>6, <2>7, ProperIsAuthentic
  <2>9. QED
    BY <1>1, <2>1, <2>8 DEF RefusedOnlyWhenExpired, Proper
<1>3. ASSUME NEW c \in Calls, PostAccepted(c) \/ GivesUp(c) \/ PollAgain(c) \/ Answered(c)
      PROVE  RefusedOnlyWhenExpired'
  <2>1. calls'[c].state # "refused"
    BY <1>3 DEF PostAccepted, GivesUp, PollAgain, Answered, Poll, Types, Shape, CallFields
  <2>2. QED  BY <1>1, <1>3, <2>1, LaterSteps DEF RefusedOnlyWhenExpired, Proper
<1>4. ASSUME NEW c \in Calls, Call(c) \/ BadCanisterId(c) PROVE RefusedOnlyWhenExpired'
  BY <1>1, <1>4, FirstSteps DEF RefusedOnlyWhenExpired, Proper
<1>5. CASE UNCHANGED calls
  BY <1>1, <1>5 DEF RefusedOnlyWhenExpired, Proper
<1>6. QED
  BY <1>2, <1>3, <1>4, <1>5 DEF Next, CallStep, Login, Redeliver, Execute, Prune, Tick
-----------------------------------------------------------------------------
LEMMA Invariance == Spec => []IInv
<1>1. IInv /\ [Next]_vars => IInv'
  BY TypesStep, SignedStep, ReadTextStep, ToldByIdStep, TakenInOnceStep, AskingStep,
     RefusedStep DEF IInv
<1>2. QED  BY InitIInv, <1>1, PTL DEF Spec

(* For any number of calls, whatever their texts, arguments and identities  *)
(* and whatever arrives when: every variable keeps its type, and what the   *)
(* subnet runs was posted by the agent.                                     *)
THEOREM TypeCorrect == Spec => []TypeOK
<1>1. IInv => TypeOK
  BY DEF IInv, Types
<1>2. QED  BY Invariance, <1>1, PTL

(* to_request_id gives every execution an id of its own: copies and delays  *)
(* of an envelope never make the subnet run a request twice.                *)
THEOREM RunsOnceCorrect == Spec => []RunsOnce
<1>1. IInv => RunsOnce
  <2> SUFFICES ASSUME IInv, NEW i \in DOMAIN runs, NEW j \in DOMAIN runs,
                      ToRequestId(runs[i]) = ToRequestId(runs[j])
               PROVE  i = j
    BY DEF RunsOnce
  <2>1. runs[i] \in CallRequests /\ runs[j] \in CallRequests
    BY DEF IInv, Types, TypeOK
  <2>2. runs[i] = runs[j]
    BY <2>1, IdInjective
  <2>3. QED  BY <2>2 DEF IInv, TakenInOnce
<1>2. QED  BY Invariance, <1>1, PTL

(* A caller is told of a run of what it asked for itself, and shares the    *)
(* run only with a call made of the same at the same instant without a      *)
(* nonce.                                                                   *)
THEOREM OwnExecutionCorrect == Spec => []OwnExecution
<1>1. IInv => OwnExecution
  <2> SUFFICES ASSUME IInv, NEW c \in Calls, calls[c].state = "answered"
               PROVE  LET run == runs[calls[c].run] IN
                      /\ run.canister_id = Resolved[calls[c].text]
                      /\ run.arg = EncodeArg(calls[c].arg)
                      /\ run.sender = Sender(identity)
                      /\ \A d \in Calls \ {c} :
                           calls[d].state = "answered" /\ calls[d].run = calls[c].run =>
                             /\ ~nonces
                             /\ calls[d].made = calls[c].made
                             /\ Resolved[calls[d].text] = Resolved[calls[c].text]
                             /\ EncodeArg(calls[d].arg) = EncodeArg(calls[c].arg)
    BY DEF OwnExecution
  <2>1. ASSUME NEW d \in Calls, calls[d].state = "answered"
        PROVE  runs[calls[d].run] = Made(d)
    <3>1. runs[calls[d].run] \in CallRequests
      BY <2>1 DEF IInv, Types, TypeOK, ToldById
    <3>2. Made(d) \in CallRequests /\ ToRequestId(runs[calls[d].run]) = ToRequestId(Made(d))
      BY <2>1 DEF IInv, Signed, ToldById
    <3>3. QED  BY <3>1, <3>2, IdInjective
  <2>2. ASSUME NEW d \in Calls \ {c}, calls[d].state = "answered", calls[d].run = calls[c].run
        PROVE  /\ ~nonces
               /\ calls[d].made = calls[c].made
               /\ Resolved[calls[d].text] = Resolved[calls[c].text]
               /\ EncodeArg(calls[d].arg) = EncodeArg(calls[c].arg)
    <3>1. Made(c) = Made(d)
      BY <2>1, <2>2
    <3>2. Nonce(c) = Nonce(d)
      BY <3>1 DEF Made
    <3>3. calls[c].made + IngressExpiry = calls[d].made + IngressExpiry
      BY <3>1 DEF Made
    <3>4. calls[c].made \in Int /\ calls[d].made \in Int
      BY DEF IInv, Types, TypeOK
    <3>5. ~nonces
      BY <3>2 DEF Nonce
    <3>6. calls[d].made = calls[c].made
      BY <3>3, <3>4, AgentAssumption
    <3>7. QED  BY <3>1, <3>5, <3>6 DEF Made
  <2>3. runs[calls[c].run] = Made(c)
    BY <2>1
  <2>4. QED  BY <2>2, <2>3 DEF Made
<1>2. QED  BY Invariance, <1>1, PTL

(* Whatever the bytes of the ids: a call goes to the canister of its text,   *)
(* in any case, and every text of a canister is accepted.                   *)
THEOREM TextNamed == Spec => []TextNamesCanister
<1>1. IInv => TextNamesCanister
  <2> SUFFICES ASSUME IInv, NEW c \in Calls
               PROVE  /\ Begun(c) => calls[c].text \in Written
                      /\ calls[c].state = "ValueError" => Lower(calls[c].text) \notin Names
    BY DEF TextNamesCanister
  <2>1. ASSUME Begun(c) PROVE calls[c].text \in Written
    <3>1. calls[c].text \in DOMAIN Resolved /\ FromStr(calls[c].text) # NoPrincipal
      BY <2>1 DEF IInv, ReadText
    <3>2. Resolved[calls[c].text] = FromStr(calls[c].text)
      BY <3>1 DEF Resolved
    <3>3. QED  BY <3>1, <3>2, WrittenBack DEF Written
  <2>2. ASSUME calls[c].state = "ValueError", Lower(calls[c].text) \in Names PROVE FALSE
    <3>1. PICK b \in Canisters : Lower(calls[c].text) = ToStr(b)
      BY <2>2 DEF Names
    <3>2. b \in Seq(Bytes)
      BY AgentAssumption
    <3>3. FromStr(calls[c].text) = b
      BY <3>1, <3>2, ReadInAnyCase
    <3>4. FromStr(calls[c].text) = NoPrincipal
      BY <2>2 DEF IInv, ReadText
    <3>5. QED  BY <3>2, <3>3, <3>4, NotAPrincipal
  <2>3. QED  BY <2>1, <2>2
<1>2. QED  BY Invariance, <1>1, PTL

(* With a sound identity, read as it was issued, the subnet refuses the     *)
(* agent's requests for their age or a delegation's, and for nothing else.  *)
THEOREM RefusalCorrect == Spec => []RefusedOnlyWhenExpired
<1>1. IInv => RefusedOnlyWhenExpired
  BY DEF IInv
<1>2. QED  BY Invariance, <1>1, PTL
===========================================================================
