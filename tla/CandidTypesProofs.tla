------------------------ MODULE CandidTypesProofs -------------------------
(*************************************************************************)
(* Proofs about CandidTypes.  Numbers of any size are read as they were  *)
(* written (UnsignedRead, SignedRead).  The table that build_type makes  *)
(* holds what a type reaches, once each, and nothing else (TableBuilt),  *)
(* for any finite heap of types, cyclic or not; what is written of it are*)
(* bytes.                                                                *)
(*                                                                       *)
(* Every recursive function of the model is a function of the levels left*)
(* to go down, and is unfolded once, by a lemma whose name ends in Step, *)
(* Levels or Runs.                                                       *)
(*************************************************************************)
EXTENDS CandidTypes, SequenceTheorems, FunctionTheorems, FiniteSetTheorems,
        InductionLemmas

(* The numbers of candid.py: LEB128 *)

(* One step of encode_u, from the values f has below *)
UnsignedBytes(f, n) == IF n < 128 THEN <<n>> ELSE <<128 + (n % 128)>> \o f[n \div 128]

(* encode_u is what its recursive definition says. *)
LEMMA EncodeUStep ==
  ASSUME NEW val \in Nat
  PROVE  EncodeU(val) = IF val < 128 THEN <<val>> ELSE <<128 + (val % 128)>> \o EncodeU(val \div 128)
<1> DEFINE S == Seq(Bytes)
           G == [f \in [Nat -> S] |-> [n \in Nat |-> UnsignedBytes(f, n)]]
           rank == [n \in Nat |-> n]
<1>1. ASSUME NEW f \in [Nat -> S], NEW n \in Nat
      PROVE  UnsignedBytes(f, n) \in S
  <2>1. n < 128 => <<n>> \in S
    BY DEF Bytes
  <2>2. n \div 128 \in Nat /\ 128 + (n % 128) \in Bytes
    BY DEF Bytes
  <2>3. <<128 + (n % 128)>> \in S /\ f[n \div 128] \in S
    BY <2>2
  <2>4. <<128 + (n % 128)>> \o f[n \div 128] \in S
    BY <2>3
  <2>5. QED  BY <2>1, <2>4 DEF UnsignedBytes
<1>2. G \in [[Nat -> S] -> [Nat -> S]]
  BY <1>1, Zenon
<1>3. ASSUME NEW f \in [Nat -> S], NEW g \in [Nat -> S], NEW n \in Nat,
             \A m \in Nat : rank[m] < rank[n] => f[m] = g[m]
      PROVE  G[f][n] = G[g][n]
  <2>1. ~ (n < 128) => n \div 128 \in Nat /\ n \div 128 < n
    OBVIOUS
  <2>2. QED  BY <1>3, <2>1 DEF UnsignedBytes
<1>4. rank \in [Nat -> Nat] /\ << >> \in S
  OBVIOUS
<1> HIDE DEF S, G, rank
<1>5. PICK h \in [Nat -> S] : h = G[h]
  <2>1. RestsBelow(Nat, S, rank, G)
    BY <1>2, <1>3 DEF RestsBelow
  <2>2. FixedBy(Nat, S, G)
    BY <1>4, <2>1, RankRecursion
  <2>3. QED  BY <2>2 DEF FixedBy
<1> DEFINE Def(f) == f = [n \in Nat |-> UnsignedBytes(f, n)]
           bytes == CHOOSE f : Def(f)
<1>6. Def(h)
  BY <1>5 DEF G
<1> HIDE DEF Def
<1>7. Def(bytes)
  BY <1>6
<1>8. ASSUME NEW n PROVE EncodeU(n) = bytes[n]
  BY DEF EncodeU, Def, UnsignedBytes
<1> HIDE DEF bytes
<1>9. bytes[val] = UnsignedBytes(bytes, val)
  BY <1>7 DEF Def
<1>10. QED  BY <1>8, <1>9, Zenon DEF UnsignedBytes

(* Whether encode_i stops at n *)
LastGroup(n) == (n \div 128 = 0 /\ n % 128 < 64) \/ (n \div 128 = -1 /\ n % 128 >= 64)

(* One step of encode_i, from the values f has below *)
SignedBytes(f, n) == IF LastGroup(n) THEN <<n % 128>> ELSE <<128 + (n % 128)>> \o f[n \div 128]

(* What shrinks from one group to the next *)
Size(n) == IF n < 0 THEN -n - 1 ELSE n

(* encode_i goes on only with a smaller number. *)
LEMMA SizeFalls ==
  ASSUME NEW n \in Int, ~ LastGroup(n)
  PROVE  n \div 128 \in Int /\ Size(n \div 128) < Size(n) /\ Size(n \div 128) \in Nat
BY DEF LastGroup, Size

(* So that there is an induction on the size *)
LEMMA SizeIsNat == \A n \in Int : Size(n) \in Nat
BY DEF Size

(* encode_i is what its recursive definition says. *)
LEMMA EncodeIStep ==
  ASSUME NEW val \in Int
  PROVE  EncodeI(val) = IF LastGroup(val) THEN <<val % 128>> ELSE <<128 + (val % 128)>> \o EncodeI(val \div 128)
<1> DEFINE S == Seq(Bytes)
           G == [f \in [Int -> S] |-> [n \in Int |-> SignedBytes(f, n)]]
           rank == [n \in Int |-> Size(n)]
<1>1. ASSUME NEW f \in [Int -> S], NEW n \in Int
      PROVE  SignedBytes(f, n) \in S
  <2>1. n \div 128 \in Int /\ 128 + (n % 128) \in Bytes /\ n % 128 \in Bytes
    BY DEF Bytes
  <2>2. <<n % 128>> \in S
    BY <2>1
  <2>3. <<128 + (n % 128)>> \in S /\ f[n \div 128] \in S
    BY <2>1
  <2>4. <<128 + (n % 128)>> \o f[n \div 128] \in S
    BY <2>3
  <2>5. QED  BY <2>2, <2>4 DEF SignedBytes
<1>2. G \in [[Int -> S] -> [Int -> S]]
  BY <1>1, Zenon
<1>3. ASSUME NEW f \in [Int -> S], NEW g \in [Int -> S], NEW n \in Int,
             \A m \in Int : rank[m] < rank[n] => f[m] = g[m]
      PROVE  G[f][n] = G[g][n]
  <2>1. ~ LastGroup(n) => f[n \div 128] = g[n \div 128]
    BY <1>3, SizeFalls
  <2>2. QED  BY <2>1 DEF SignedBytes
<1>4. rank \in [Int -> Nat] /\ << >> \in S
  BY DEF Size
<1> HIDE DEF S, G, rank
<1>5. PICK h \in [Int -> S] : h = G[h]
  <2>1. RestsBelow(Int, S, rank, G)
    BY <1>2, <1>3 DEF RestsBelow
  <2>2. FixedBy(Int, S, G)
    BY <1>4, <2>1, RankRecursion
  <2>3. QED  BY <2>2 DEF FixedBy
<1> DEFINE Def(f) == f = [n \in Int |-> SignedBytes(f, n)]
           bytes == CHOOSE f : Def(f)
<1>6. Def(h)
  BY <1>5 DEF G
<1> HIDE DEF Def
<1>7. Def(bytes)
  BY <1>6
<1>8. ASSUME NEW n PROVE EncodeI(n) = bytes[n]
  BY DEF EncodeI, Def, SignedBytes, LastGroup
<1> HIDE DEF bytes
<1>9. bytes[val] = SignedBytes(bytes, val)
  BY <1>7 DEF Def
<1>10. QED  BY <1>8, <1>9, Zenon DEF SignedBytes

-----------------------------------------------------------------------------
(* One turn of the reading loop, last[v] being what the last group, v, counts *)
(* for.                                                                       *)
Turn(b, last, f, i) ==
  IF i > Len(b) THEN Raise(i)
  ELSE IF b[i] < 128 THEN Got(last[b[i]], i + 1)
  ELSE IF f[i + 1].ok THEN Got(b[i] - 128 + 128 * f[i + 1].val, f[i + 1].at) ELSE f[i + 1]

(* The positions in a message *)
Position == Nat \ {0}

(* What reading may come to *)
Results == {Got(v, i) : v \in Int, i \in Position} \cup {Raise(i) : i \in Position}

(* What was read is a number and a position. *)
LEMMA ResultFields ==
  ASSUME NEW r \in Results
  PROVE  r.ok => r.val \in Int /\ r.at \in Position
<1>1. CASE \E v \in Int, i \in Position : r = Got(v, i)
  <2>1. PICK v \in Int, i \in Position : r = Got(v, i)
    BY <1>1
  <2>2. r.val = v /\ r.at = i
    BY <2>1 DEF Got
  <2>3. QED  BY <2>2
<1>2. CASE \E i \in Position : r = Raise(i)
  <2>1. PICK i \in Position : r = Raise(i)
    BY <1>2
  <2>2. ~ r.ok
    BY <2>1 DEF Raise
  <2>3. QED  BY <2>2
<1>3. QED  BY <1>1, <1>2 DEF Results

(* Which records are results *)
LEMMA ResultsAre ==
  /\ \A v \in Int, i \in Position : Got(v, i) \in Results
  /\ \A i \in Position : Raise(i) \in Results
<1>1. ASSUME NEW v \in Int, NEW i \in Position PROVE Got(v, i) \in Results
  BY DEF Results
<1>2. ASSUME NEW i \in Position PROVE Raise(i) \in Results
  BY DEF Results
<1>3. QED  BY <1>1, <1>2

(* A position is a number, and another one follows it. *)
LEMMA Positions ==
  ASSUME NEW i \in Position
  PROVE  i \in Nat /\ 1 <= i /\ i + 1 \in Position
BY DEF Position

(* The range of a byte *)
LEMMA ByteValues == \A x \in Bytes : x \in Int /\ 0 <= x /\ x < 256
BY DEF Bytes

(* A byte without bit 7 *)
LEMMA SevenBits == \A x \in Int : 0 <= x /\ x < 128 => x \in 0 .. 127
OBVIOUS

(* How many bytes are left at position i *)
Left(n, i) == IF i > n THEN 0 ELSE n + 1 - i

(* It falls with every turn. *)
LEMMA LeftFalls ==
  ASSUME NEW n \in Nat, NEW i \in Nat
  PROVE  Left(n, i) \in Nat /\ (i <= n => Left(n, i + 1) < Left(n, i))
BY DEF Left

(* The value of a group and those behind it is a number. *)
LEMMA Sums == \A x, y \in Int : x - 128 + 128 * y \in Int
OBVIOUS

(* A message has a byte at every position up to its length. *)
LEMMA ByteAt ==
  ASSUME NEW b \in Seq(Bytes), NEW i \in Position, i <= Len(b)
  PROVE  b[i] \in Int /\ 0 <= b[i] /\ b[i] < 256
<1>1. i \in 1 .. Len(b)
  BY Positions
<1>2. b[i] \in Bytes
  BY <1>1, ElementOfSeq
<1>3. QED  BY <1>2, ByteValues

(* The recursive functions of decode_u and decode_i exist. *)
LEMMA ReaderExists ==
  ASSUME NEW b \in Seq(Bytes), NEW last \in [0 .. 127 -> Int]
  PROVE  \E f : f = [i \in Position |-> Turn(b, last, f, i)]
<1> DEFINE G == [f \in [Position -> Results] |-> [i \in Position |-> Turn(b, last, f, i)]]
           rank == [i \in Position |-> Left(Len(b), i)]
<1> HIDE DEF G, rank
<1>1. ASSUME NEW f \in [Position -> Results], NEW i \in Position
      PROVE  Turn(b, last, f, i) \in Results
  <2>1. i \in Nat /\ i + 1 \in Position /\ f[i + 1] \in Results
    BY Positions, Zenon
  <2>2. ASSUME i <= Len(b), b[i] < 128 PROVE Got(last[b[i]], i + 1) \in Results
    <3>1. b[i] \in Int /\ 0 <= b[i]
      BY <2>2, ByteAt, Zenon
    <3>2. b[i] \in 0 .. 127
      BY <2>2, <3>1, SevenBits, Zenon
    <3>3. last[b[i]] \in Int
      BY <3>2, Zenon
    <3>4. QED  BY <2>1, <3>3, ResultsAre, Zenon
  <2>3. ASSUME i <= Len(b), f[i + 1].ok
        PROVE  Got(b[i] - 128 + 128 * f[i + 1].val, f[i + 1].at) \in Results
    <3>1. b[i] \in Int
      BY <2>3, ByteAt, Zenon
    <3>2. f[i + 1].val \in Int /\ f[i + 1].at \in Position
      BY <2>1, <2>3, ResultFields, Zenon
    <3>3. b[i] - 128 + 128 * f[i + 1].val \in Int
      BY <3>1, <3>2, Sums, Zenon
    <3>4. QED  BY <3>2, <3>3, ResultsAre, Zenon
  <2>4. i > Len(b) \/ i <= Len(b)
    BY <2>1, LenProperties
  <2>5. Raise(i) \in Results
    BY ResultsAre
  <2>6. QED  BY <2>1, <2>2, <2>3, <2>4, <2>5, Zenon DEF Turn
<1>2. G \in [[Position -> Results] -> [Position -> Results]]
  BY <1>1, Zenon DEF G
<1>3. ASSUME NEW f \in [Position -> Results], NEW g \in [Position -> Results], NEW i \in Position,
             \A j \in Position : rank[j] < rank[i] => f[j] = g[j]
      PROVE  G[f][i] = G[g][i]
  <2>1. i \in Nat /\ i + 1 \in Position /\ Len(b) \in Nat
    BY Positions, LenProperties, Zenon
  <2>2. i <= Len(b) => rank[i + 1] < rank[i]
    BY <2>1, LeftFalls, Zenon DEF rank
  <2>3. i <= Len(b) => f[i + 1] = g[i + 1]
    BY <1>3, <2>1, <2>2
  <2>4. i > Len(b) \/ i <= Len(b)
    BY <2>1
  <2>5. Turn(b, last, f, i) = Turn(b, last, g, i)
    BY <2>3, <2>4, Zenon DEF Turn
  <2>6. QED  BY <2>5 DEF G
<1>4. rank \in [Position -> Nat]
  <2>1. ASSUME NEW i \in Position PROVE Left(Len(b), i) \in Nat
    BY Positions, LenProperties, LeftFalls, Zenon
  <2>2. QED  BY <2>1 DEF rank
<1>5. Raise(1) \in Results
  BY ResultsAre DEF Position
<1>6. RestsBelow(Position, Results, rank, G)
  BY <1>2, <1>3, Zenon DEF RestsBelow
<1>7. FixedBy(Position, Results, G)
  BY <1>4, <1>5, <1>6, RankRecursion, Zenon
<1>8. PICK f \in [Position -> Results] : f = G[f]
  BY <1>7, Zenon DEF FixedBy
<1>9. QED  BY <1>8, Zenon DEF G

(* One turn of decode_u *)
UnsignedTurn(b, f, i) ==
  IF i > Len(b) THEN Raise(i)
  ELSE IF b[i] < 128 THEN Got(b[i], i + 1)
  ELSE LET more == f[i + 1]
       IN  IF more.ok THEN Got(b[i] - 128 + 128 * more.val, more.at) ELSE more

(* decode_u is what its recursive definition says. *)
LEMMA DecodeUStep ==
  ASSUME NEW b \in Seq(Bytes), NEW at \in Position
  PROVE  DecodeU(b, at) =
           IF at > Len(b) THEN Raise(at)
           ELSE IF b[at] < 128 THEN Got(b[at], at + 1)
           ELSE LET more == DecodeU(b, at + 1)
                IN  IF more.ok THEN Got(b[at] - 128 + 128 * more.val, more.at) ELSE more
<1> DEFINE last == [v \in 0 .. 127 |-> v]
           Def(f) == f = [i \in Position |-> UnsignedTurn(b, f, i)]
           read == CHOOSE f : Def(f)
<1>1. ASSUME NEW f, NEW i \in Position PROVE Turn(b, last, f, i) = UnsignedTurn(b, f, i)
  <2>1. i > Len(b) \/ i <= Len(b)
    <3>1. i \in Nat /\ Len(b) \in Nat
      BY Positions, LenProperties
    <3> HIDE DEF last
    <3>2. QED  BY <3>1
  <2>2. ASSUME i <= Len(b), b[i] < 128 PROVE last[b[i]] = b[i]
    <3>1. b[i] \in Int /\ 0 <= b[i]
      BY <2>2, ByteAt
    <3>2. b[i] \in 0 .. 127
      BY <2>2, <3>1, SevenBits, Zenon
    <3>3. QED  BY <3>2
  <2> HIDE DEF last
  <2>3. QED  BY <2>1, <2>2 DEF Turn, UnsignedTurn
<1>2. last \in [0 .. 127 -> Int]
  OBVIOUS
<1> HIDE DEF last
<1>3. PICK f : f = [i \in Position |-> Turn(b, last, f, i)]
  BY <1>2, ReaderExists, Zenon
<1>4. Def(f)
  BY <1>1, <1>3
<1> HIDE DEF Def
<1>5. Def(read)
  BY <1>4
<1>6. ASSUME NEW i PROVE DecodeU(b, i) = read[i]
  BY DEF DecodeU, Def, UnsignedTurn, Position
<1> HIDE DEF read
<1>7. read[at] = UnsignedTurn(b, read, at)
  BY <1>5 DEF Def
<1>8. QED  BY <1>6, <1>7 DEF UnsignedTurn

(* One turn of decode_i *)
SignedTurn(b, f, i) ==
  IF i > Len(b) THEN Raise(i)
  ELSE IF b[i] < 128 THEN Got(IF b[i] < 64 THEN b[i] ELSE b[i] - 128, i + 1)
  ELSE LET more == f[i + 1]
       IN  IF more.ok THEN Got(b[i] - 128 + 128 * more.val, more.at) ELSE more

(* decode_i is what its recursive definition says. *)
LEMMA DecodeIStep ==
  ASSUME NEW b \in Seq(Bytes), NEW at \in Position
  PROVE  DecodeI(b, at) =
           IF at > Len(b) THEN Raise(at)
           ELSE IF b[at] < 128 THEN Got(IF b[at] < 64 THEN b[at] ELSE b[at] - 128, at + 1)
           ELSE LET more == DecodeI(b, at + 1)
                IN  IF more.ok THEN Got(b[at] - 128 + 128 * more.val, more.at) ELSE more
<1> DEFINE last == [v \in 0 .. 127 |-> IF v < 64 THEN v ELSE v - 128]
           Def(f) == f = [i \in Position |-> SignedTurn(b, f, i)]
           read == CHOOSE f : Def(f)
<1>1. ASSUME NEW f, NEW i \in Position PROVE Turn(b, last, f, i) = SignedTurn(b, f, i)
  <2>1. i > Len(b) \/ i <= Len(b)
    <3>1. i \in Nat /\ Len(b) \in Nat
      BY Positions, LenProperties
    <3> HIDE DEF last
    <3>2. QED  BY <3>1
  <2>2. ASSUME i <= Len(b), b[i] < 128 PROVE last[b[i]] = IF b[i] < 64 THEN b[i] ELSE b[i] - 128
    <3>1. b[i] \in Int /\ 0 <= b[i]
      BY <2>2, ByteAt
    <3>2. b[i] \in 0 .. 127
      BY <2>2, <3>1, SevenBits, Zenon
    <3>3. QED  BY <3>2
  <2> HIDE DEF last
  <2>3. QED  BY <2>1, <2>2 DEF Turn, SignedTurn
<1>2. last \in [0 .. 127 -> Int]
  OBVIOUS
<1> HIDE DEF last
<1>3. PICK f : f = [i \in Position |-> Turn(b, last, f, i)]
  BY <1>2, ReaderExists, Zenon
<1>4. Def(f)
  BY <1>1, <1>3
<1> HIDE DEF Def
<1>5. Def(read)
  BY <1>4
<1>6. ASSUME NEW i PROVE DecodeI(b, i) = read[i]
  BY DEF DecodeI, Def, SignedTurn, Position
<1> HIDE DEF read
<1>7. read[at] = SignedTurn(b, read, at)
  BY <1>5 DEF Def
<1>8. QED  BY <1>6, <1>7 DEF SignedTurn

(* A group with bit 7 set leads on to the next one. *)
LEMMA DecodeUGoes ==
  ASSUME NEW b \in Seq(Bytes), NEW at \in Position, ~ (at > Len(b)), ~ (b[at] < 128),
         NEW n, NEW j, DecodeU(b, at + 1) = Got(n, j)
  PROVE  DecodeU(b, at) = Got(b[at] - 128 + 128 * n, j)
<1> DEFINE more == DecodeU(b, at + 1)
<1>1. DecodeU(b, at) = IF more.ok THEN Got(b[at] - 128 + 128 * more.val, more.at) ELSE more
  BY DecodeUStep
<1>2. more.ok /\ more.val = n /\ more.at = j
  BY DEF Got
<1> HIDE DEF more
<1>3. DecodeU(b, at) = Got(b[at] - 128 + 128 * more.val, more.at)
  BY <1>1, <1>2
<1>4. QED  BY <1>2, <1>3

(* The same of decode_i *)
LEMMA DecodeIGoes ==
  ASSUME NEW b \in Seq(Bytes), NEW at \in Position, ~ (at > Len(b)), ~ (b[at] < 128),
         NEW n, NEW j, DecodeI(b, at + 1) = Got(n, j)
  PROVE  DecodeI(b, at) = Got(b[at] - 128 + 128 * n, j)
<1> DEFINE more == DecodeI(b, at + 1)
<1>1. DecodeI(b, at) = IF more.ok THEN Got(b[at] - 128 + 128 * more.val, more.at) ELSE more
  BY DecodeIStep
<1>2. more.ok /\ more.val = n /\ more.at = j
  BY DEF Got
<1> HIDE DEF more
<1>3. DecodeI(b, at) = Got(b[at] - 128 + 128 * more.val, more.at)
  BY <1>1, <1>2
<1>4. QED  BY <1>2, <1>3

(* One group in the middle of a message *)
GroupIn(b, before, c, rest, after) ==
  /\ b \in Seq(Bytes)
  /\ Len(before) \in Nat
  /\ Len(before) + 1 \in Position
  /\ Len(before) + 1 <= Len(b)
  /\ b[Len(before) + 1] = c
  /\ b = ((before \o <<c>>) \o rest) \o after
  /\ Len(before \o <<c>>) = Len(before) + 1
  /\ Len(<<c>> \o rest) = Len(rest) + 1
  /\ Len(rest) \in Nat
  /\ before \o <<c>> \in Seq(Bytes)

(* A message made that way has the group there. *)
LEMMA GroupAt ==
  ASSUME NEW before \in Seq(Bytes), NEW c \in Bytes, NEW rest \in Seq(Bytes), NEW after \in Seq(Bytes),
         NEW b, b = (before \o (<<c>> \o rest)) \o after
  PROVE  GroupIn(b, before, c, rest, after)
<1>1. <<c>> \in Seq(Bytes) /\ Len(<<c>>) = 1
  OBVIOUS
<1>2. <<c>> \o rest \in Seq(Bytes) /\ Len(<<c>> \o rest) = 1 + Len(rest)
  BY <1>1, ConcatProperties
<1>3. before \o <<c>> \in Seq(Bytes) /\ Len(before \o <<c>>) = Len(before) + 1
  BY <1>1, ConcatProperties
<1>4. before \o (<<c>> \o rest) = (before \o <<c>>) \o rest
  BY <1>1, ConcatAssociative, SMTT(40)
<1>5. /\ (before \o <<c>>) \o rest \in Seq(Bytes)
      /\ Len((before \o <<c>>) \o rest) = Len(before) + 1 + Len(rest)
  BY <1>3, ConcatProperties
<1>6. b = (before \o <<c>>) \o (rest \o after)
  <2>1. b = ((before \o <<c>>) \o rest) \o after
    BY <1>4, Zenon
  <2>2. ((before \o <<c>>) \o rest) \o after = (before \o <<c>>) \o (rest \o after)
    BY <1>3, ConcatAssociative, SMTT(40)
  <2>3. QED  BY <2>1, <2>2, Zenon
<1>7. rest \o after \in Seq(Bytes) /\ Len(rest \o after) = Len(rest) + Len(after)
  BY ConcatProperties
<1>8. b \in Seq(Bytes) /\ Len(b) = Len(before) + 1 + Len(rest \o after)
  BY <1>3, <1>6, <1>7, ConcatProperties
<1>9. Len(before) \in Nat /\ Len(rest) \in Nat /\ Len(after) \in Nat
  OBVIOUS
<1>10. b[Len(before) + 1] = (before \o <<c>>)[Len(before) + 1]
  BY <1>3, <1>6, <1>7, <1>9, ConcatProperties
<1>11. (before \o <<c>>)[Len(before) + 1] = c
  BY <1>1, <1>9, ConcatProperties
<1>12. Len(before) + 1 \in Position /\ Len(before) + 1 <= Len(b)
  BY <1>7, <1>8, <1>9 DEF Position
<1>13. QED  BY <1>2, <1>3, <1>4, <1>8, <1>9, <1>10, <1>11, <1>12 DEF GroupIn

(* What encode_u writes are bytes. *)
LEMMA EncodeUBytes == \A val \in Nat : EncodeU(val) \in Seq(Bytes)
<1> DEFINE T == {n \in Nat : EncodeU(n) \in Seq(Bytes)}
<1>1. ASSUME NEW val \in Nat, \A m \in Nat : m < val => m \in T PROVE val \in T
  <2>1. CASE val < 128
    <3>1. val \in Bytes
      BY <2>1 DEF Bytes
    <3>2. <<val>> \in Seq(Bytes)
      BY <3>1
    <3>3. QED  BY <2>1, <3>2, EncodeUStep, Zenon
  <2>2. CASE ~ (val < 128)
    <3>1. 128 + (val % 128) \in Bytes
      BY DEF Bytes
    <3>2. val \div 128 \in Nat /\ val \div 128 < val
      BY <2>2
    <3>3. EncodeU(val \div 128) \in Seq(Bytes)
      BY <1>1, <3>2
    <3>4. <<128 + (val % 128)>> \in Seq(Bytes)
      BY <3>1
    <3>5. <<128 + (val % 128)>> \o EncodeU(val \div 128) \in Seq(Bytes)
      BY <3>3, <3>4
    <3>6. QED  BY <2>2, <3>5, EncodeUStep, Zenon
  <2>3. QED  BY <2>1, <2>2
<1> HIDE DEF T
<1>2. \A n \in Nat : n \in T
  BY <1>1, StrongInduction
<1>3. QED  BY <1>2 DEF T

(* A natural number that encode_u wrote is read by decode_u as itself, *)
(* wherever in a message it stands, and reading goes on right behind it. *)
THEOREM UnsignedRead ==
  \A val \in Nat : \A before, after \in Seq(Bytes) :
    DecodeU((before \o EncodeU(val)) \o after, Len(before) + 1)
      = Got(val, Len(before) + Len(EncodeU(val)) + 1)
<1> DEFINE IsRead(n) == \A before, after \in Seq(Bytes) :
             DecodeU((before \o EncodeU(n)) \o after, Len(before) + 1)
               = Got(n, Len(before) + Len(EncodeU(n)) + 1)
           T == {n \in Nat : IsRead(n)}
<1>1. ASSUME NEW val \in Nat, \A m \in Nat : m < val => m \in T PROVE val \in T
  <2> SUFFICES ASSUME NEW before \in Seq(Bytes), NEW after \in Seq(Bytes)
               PROVE  DecodeU((before \o EncodeU(val)) \o after, Len(before) + 1)
                        = Got(val, Len(before) + Len(EncodeU(val)) + 1)
    OBVIOUS
  <2> DEFINE at == Len(before) + 1
             b == (before \o EncodeU(val)) \o after
  <2>1. CASE val < 128
    <3> DEFINE c == val
    <3>1. c \in Bytes /\ c < 128 /\ c = val
      BY <2>1 DEF Bytes
    <3>2. << >> \in Seq(Bytes) /\ <<c>> \in Seq(Bytes) /\ Len(<<c>>) = 1
      BY <3>1
    <3>3. EncodeU(val) = <<c>> \o << >> /\ Len(EncodeU(val)) = 1
      BY <2>1, <3>2, EncodeUStep, ConcatEmptySeq, Zenon
    <3>4. b = (before \o (<<c>> \o << >>)) \o after
      BY <3>3
    <3> HIDE DEF b, c
    <3>5. GroupIn(b, before, c, << >>, after)
      BY ZenonT(40), <3>1, <3>2, <3>4, GroupAt
    <3>6. b \in Seq(Bytes) /\ at \in Position /\ at <= Len(b) /\ b[at] = c /\ Len(before) \in Nat
      BY <3>5 DEF GroupIn
    <3>7. DecodeU(b, at) = Got(c, at + 1)
      BY <3>1, <3>6, DecodeUStep, LenProperties
    <3>8. at + 1 = Len(before) + 1 + 1
      BY <3>6
    <3>9. QED  BY <3>1, <3>3, <3>7, <3>8 DEF b
  <2>2. CASE ~ (val < 128)
    <3> DEFINE c == 128 + (val % 128)
               n == val \div 128
               rest == EncodeU(n)
    <3>1. c \in Bytes /\ ~ (c < 128) /\ c - 128 + 128 * n = val
      BY DEF Bytes
    <3>2. n \in Nat /\ n < val
      BY <2>2
    <3>3. rest \in Seq(Bytes) /\ IsRead(n)
      BY <1>1, <3>2, EncodeUBytes, Zenon
    <3>4. EncodeU(val) = <<c>> \o rest
      BY <2>2, EncodeUStep, Zenon
    <3> HIDE DEF c, n, rest
    <3>5. b = (before \o (<<c>> \o rest)) \o after
      BY <3>4
    <3> HIDE DEF b
    <3>6. GroupIn(b, before, c, rest, after)
      BY ZenonT(40), <3>1, <3>3, <3>5, GroupAt
    <3>7. /\ b \in Seq(Bytes) /\ at \in Position /\ at <= Len(b) /\ b[at] = c
          /\ b = ((before \o <<c>>) \o rest) \o after
          /\ Len(before \o <<c>>) = at
          /\ Len(<<c>> \o rest) = Len(rest) + 1
          /\ Len(before) \in Nat /\ Len(rest) \in Nat
          /\ before \o <<c>> \in Seq(Bytes)
      BY <3>6 DEF GroupIn
    <3>8. DecodeU(b, at + 1) = Got(n, at + Len(rest) + 1)
      BY <3>3, <3>7, Zenon DEF rest
    <3> HIDE DEF IsRead, at
    <3>9. ~ (at > Len(b))
      BY <3>7, LenProperties DEF Position
    <3>10. b \in Seq(Bytes) /\ at \in Position /\ b[at] = c /\ ~ (b[at] < 128)
      BY <3>1, <3>7
    <3>11. DecodeU(b, at) = Got(b[at] - 128 + 128 * n, at + Len(rest) + 1)
      BY <3>8, <3>9, <3>10, DecodeUGoes
    <3>12. at + Len(rest) + 1 = Len(before) + Len(EncodeU(val)) + 1
      BY <3>4, <3>7 DEF at
    <3>13. QED  BY <3>1, <3>10, <3>11, <3>12 DEF b, at
  <2>3. QED  BY <2>1, <2>2
<1> HIDE DEF T
<1>2. \A k \in Nat : k \in T
  BY <1>1, StrongInduction
<1>3. QED  BY <1>2 DEF T

(* What encode_i writes are bytes. *)
LEMMA EncodeIBytes == \A val \in Int : EncodeI(val) \in Seq(Bytes)
<1> DEFINE T == {k \in Nat : \A val \in Int : Size(val) = k => EncodeI(val) \in Seq(Bytes)}
<1>1. ASSUME NEW k \in Nat, \A m \in Nat : m < k => m \in T PROVE k \in T
  <2> SUFFICES ASSUME NEW val \in Int, Size(val) = k PROVE EncodeI(val) \in Seq(Bytes)
    OBVIOUS
  <2>1. CASE LastGroup(val)
    <3>1. val % 128 \in Bytes
      BY DEF Bytes
    <3>2. <<val % 128>> \in Seq(Bytes)
      BY <3>1
    <3>3. QED  BY <2>1, <3>2, EncodeIStep, Zenon
  <2>2. CASE ~ LastGroup(val)
    <3>1. 128 + (val % 128) \in Bytes
      BY DEF Bytes
    <3>2. val \div 128 \in Int /\ Size(val \div 128) < k /\ Size(val \div 128) \in Nat
      BY <2>2, SizeFalls
    <3>3. EncodeI(val \div 128) \in Seq(Bytes)
      BY <1>1, <3>2
    <3>4. <<128 + (val % 128)>> \in Seq(Bytes)
      BY <3>1
    <3>5. <<128 + (val % 128)>> \o EncodeI(val \div 128) \in Seq(Bytes)
      BY <3>3, <3>4
    <3>6. QED  BY <2>2, <3>5, EncodeIStep, Zenon
  <2>3. QED  BY <2>1, <2>2
<1> HIDE DEF T
<1>2. \A k \in Nat : k \in T
  BY <1>1, StrongInduction
<1>3. QED  BY <1>2, SizeIsNat DEF T

(* The same of integers, with encode_i and decode_i: the sign survives. *)
THEOREM SignedRead ==
  \A val \in Int : \A before, after \in Seq(Bytes) :
    DecodeI((before \o EncodeI(val)) \o after, Len(before) + 1)
      = Got(val, Len(before) + Len(EncodeI(val)) + 1)
<1> DEFINE IsRead(n) == \A before, after \in Seq(Bytes) :
             DecodeI((before \o EncodeI(n)) \o after, Len(before) + 1)
               = Got(n, Len(before) + Len(EncodeI(n)) + 1)
           T == {k \in Nat : \A n \in Int : Size(n) = k => IsRead(n)}
<1>1. ASSUME NEW k \in Nat, \A m \in Nat : m < k => m \in T PROVE k \in T
  <2> SUFFICES ASSUME NEW val \in Int, Size(val) = k,
                      NEW before \in Seq(Bytes), NEW after \in Seq(Bytes)
               PROVE  DecodeI((before \o EncodeI(val)) \o after, Len(before) + 1)
                        = Got(val, Len(before) + Len(EncodeI(val)) + 1)
    OBVIOUS
  <2> DEFINE at == Len(before) + 1
             b == (before \o EncodeI(val)) \o after
  <2>1. CASE LastGroup(val)
    <3> DEFINE c == val % 128
    <3>1. c \in Bytes /\ c < 128 /\ (IF c < 64 THEN c ELSE c - 128) = val
      BY <2>1 DEF Bytes, LastGroup
    <3>2. << >> \in Seq(Bytes) /\ <<c>> \in Seq(Bytes) /\ Len(<<c>>) = 1
      BY <3>1
    <3>3. EncodeI(val) = <<c>> \o << >> /\ Len(EncodeI(val)) = 1
      BY <2>1, <3>2, EncodeIStep, ConcatEmptySeq, Zenon
    <3>4. b = (before \o (<<c>> \o << >>)) \o after
      BY <3>3
    <3> HIDE DEF b, c
    <3>5. GroupIn(b, before, c, << >>, after)
      BY ZenonT(40), <3>1, <3>2, <3>4, GroupAt
    <3>6. b \in Seq(Bytes) /\ at \in Position /\ at <= Len(b) /\ b[at] = c /\ Len(before) \in Nat
      BY <3>5 DEF GroupIn
    <3>7. DecodeI(b, at) = Got((IF c < 64 THEN c ELSE c - 128), at + 1)
      BY <3>1, <3>6, DecodeIStep, LenProperties
    <3>8. at + 1 = Len(before) + 1 + 1
      BY <3>6
    <3>9. QED  BY <3>1, <3>3, <3>7, <3>8 DEF b
  <2>2. CASE ~ LastGroup(val)
    <3> DEFINE c == 128 + (val % 128)
               n == val \div 128
               rest == EncodeI(n)
    <3>1. c \in Bytes /\ ~ (c < 128) /\ c - 128 + 128 * n = val
      BY DEF Bytes
    <3>2. n \in Int /\ Size(n) < k /\ Size(n) \in Nat
      BY <2>2, SizeFalls
    <3>3. rest \in Seq(Bytes) /\ IsRead(n)
      BY <1>1, <3>2, EncodeIBytes, Zenon
    <3>4. EncodeI(val) = <<c>> \o rest
      BY <2>2, EncodeIStep, Zenon
    <3> HIDE DEF c, n, rest
    <3>5. b = (before \o (<<c>> \o rest)) \o after
      BY <3>4
    <3> HIDE DEF b
    <3>6. GroupIn(b, before, c, rest, after)
      BY ZenonT(40), <3>1, <3>3, <3>5, GroupAt
    <3>7. /\ b \in Seq(Bytes) /\ at \in Position /\ at <= Len(b) /\ b[at] = c
          /\ b = ((before \o <<c>>) \o rest) \o after
          /\ Len(before \o <<c>>) = at
          /\ Len(<<c>> \o rest) = Len(rest) + 1
          /\ Len(before) \in Nat /\ Len(rest) \in Nat
          /\ before \o <<c>> \in Seq(Bytes)
      BY <3>6 DEF GroupIn
    <3>8. DecodeI(b, at + 1) = Got(n, at + Len(rest) + 1)
      BY <3>3, <3>7, Zenon DEF rest
    <3> HIDE DEF IsRead, at
    <3>9. ~ (at > Len(b))
      BY <3>7, LenProperties DEF Position
    <3>10. b \in Seq(Bytes) /\ at \in Position /\ b[at] = c /\ ~ (b[at] < 128)
      BY <3>1, <3>7
    <3>11. DecodeI(b, at) = Got(b[at] - 128 + 128 * n, at + Len(rest) + 1)
      BY <3>8, <3>9, <3>10, DecodeIGoes
    <3>12. at + Len(rest) + 1 = Len(before) + Len(EncodeI(val)) + 1
      BY <3>4, <3>7 DEF at
    <3>13. QED  BY <3>1, <3>10, <3>11, <3>12 DEF b, at
  <2>3. QED  BY <2>1, <2>2
<1> HIDE DEF T
<1>2. \A k \in Nat : k \in T
  BY <1>1, StrongInduction
<1>3. QED  BY <1>2, SizeIsNat, Zenon DEF T

---------------------------------------------------------------------------

(* What bytes hold at a position *)

(* The bytes b have the bytes code at position at. *)
Holds(b, at, code) ==
  /\ b \in Seq(Bytes) /\ at \in Position /\ code \in Seq(Bytes)
  /\ at + Len(code) <= Len(b) + 1
  /\ \A k \in 1 .. Len(code) : b[at + k - 1] = code[k]

(* A sequence of bytes holds itself. *)
LEMMA HoldsItself ==
  ASSUME NEW b \in Seq(Bytes)
  PROVE  Holds(b, 1, b)
BY DEF Holds, Position

(* What holds some bytes and others behind them holds both. *)
LEMMA HoldsBoth ==
  ASSUME NEW b, NEW at, NEW c \in Seq(Bytes), NEW d \in Seq(Bytes), Holds(b, at, c \o d)
  PROVE  Holds(b, at, c) /\ Holds(b, at + Len(c), d)
<1>1. Len(c) \in Nat /\ Len(d) \in Nat /\ Len(c \o d) = Len(c) + Len(d)
  BY ConcatProperties
<1>2. ASSUME NEW k \in 1 .. Len(c) PROVE k \in 1 .. Len(c \o d) /\ (c \o d)[k] = c[k]
  BY <1>1, ConcatProperties
<1>3. ASSUME NEW k \in 1 .. Len(d)
      PROVE  Len(c) + k \in 1 .. Len(c \o d) /\ (c \o d)[Len(c) + k] = d[k]
  <2>1. Len(c) + k \in 1 .. Len(c) + Len(d) /\ ~ (Len(c) + k <= Len(c)) /\ Len(c) + k - Len(c) = k
    BY <1>1
  <2>2. Len(c) + k \in 1 .. Len(c \o d) /\ (c \o d)[Len(c) + k] = d[Len(c) + k - Len(c)]
    BY <1>1, <2>1, ConcatProperties
  <2>3. QED  BY <2>1, <2>2
<1>4. at \in Nat /\ at >= 1 /\ Len(b) \in Nat
  BY DEF Holds, Position
<1>5. at + Len(c) \in Position
  BY <1>1, <1>4 DEF Position
<1>6. at + Len(c) + Len(d) <= Len(b) + 1
  BY <1>1, <1>4 DEF Holds
<1>7. ASSUME NEW k \in 1 .. Len(c) PROVE b[at + k - 1] = c[k]
  BY <1>2 DEF Holds
<1>8. ASSUME NEW k \in 1 .. Len(d) PROVE b[at + Len(c) + k - 1] = d[k]
  <2>1. b[at + (Len(c) + k) - 1] = d[k]
    BY <1>3, Zenon DEF Holds
  <2>2. at + (Len(c) + k) - 1 = at + Len(c) + k - 1
    BY <1>1, <1>4
  <2>3. QED  BY <2>1, <2>2
<1>9. Holds(b, at, c)
  BY <1>1, <1>4, <1>6, <1>7 DEF Holds
<1>10. Holds(b, at + Len(c), d)
  BY <1>5, <1>6, <1>8 DEF Holds
<1>11. QED  BY <1>9, <1>10

(* b is some bytes, code, and some other bytes, with code at position at. *)
Middle(b, at, code) ==
  \E before, after \in Seq(Bytes) : b = (before \o code) \o after /\ Len(before) + 1 = at

(* A message that has some bytes at a position is made of what is before them, *)
(* of them, and of what is behind them.                                        *)
LEMMA HoldsMiddle ==
  ASSUME NEW b, NEW at, NEW code, Holds(b, at, code)
  PROVE  Middle(b, at, code)
<1> DEFINE before == [k \in 1 .. at - 1 |-> b[k]]
           n == at - 1 + Len(code)
           after == [k \in 1 .. Len(b) - n |-> b[n + k]]
           whole == (before \o code) \o after
<1>1. /\ at \in Nat /\ at >= 1 /\ Len(b) \in Nat /\ Len(code) \in Nat /\ n \in Nat /\ n <= Len(b)
      /\ b \in Seq(Bytes) /\ code \in Seq(Bytes)
  BY DEF Holds, Position
<1>2. \A k \in 1 .. Len(b) : b[k] \in Bytes
  BY <1>1, ElementOfSeq
<1>3. before \in Seq(Bytes) /\ Len(before) = at - 1
  <2>1. at - 1 \in Nat /\ before \in [1 .. at - 1 -> Bytes]
    BY <1>1, <1>2
  <2>2. QED  BY <2>1
<1>4. after \in Seq(Bytes) /\ Len(after) = Len(b) - n
  <2>1. Len(b) - n \in Nat /\ after \in [1 .. Len(b) - n -> Bytes]
    BY <1>1, <1>2
  <2>2. QED  BY <2>1
<1>5. /\ before \o code \in Seq(Bytes) /\ Len(before \o code) = n
      /\ whole \in Seq(Bytes) /\ Len(whole) = Len(b)
  <2> HIDE DEF before, after
  <2>1. before \o code \in Seq(Bytes) /\ Len(before \o code) = n
    BY <1>1, <1>3, ConcatProperties, Zenon
  <2>2. n + (Len(b) - n) = Len(b)
    BY <1>1
  <2> HIDE DEF n
  <2>3. /\ (before \o code) \o after \in Seq(Bytes)
        /\ Len((before \o code) \o after) = Len(before \o code) + Len(after)
    BY <1>4, <2>1, ConcatProperties, Zenon
  <2>4. QED  BY <1>4, <2>1, <2>2, <2>3
<1>6. ASSUME NEW k \in 1 .. Len(b) PROVE whole[k] = b[k]
  <2>1. CASE k <= at - 1
    <3>1. k \in 1 .. at - 1 /\ k \in 1 .. n
      BY <1>1, <2>1
    <3>2. before[k] = b[k]
      BY <3>1
    <3> HIDE DEF before, after, n
    <3>3. whole[k] = (before \o code)[k]
      BY <1>4, <1>5, <3>1, ConcatProperties
    <3>4. (before \o code)[k] = before[k]
      BY <1>1, <1>3, <1>5, <3>1, ConcatProperties
    <3>5. QED  BY <3>2, <3>3, <3>4
  <2>2. CASE ~ (k <= at - 1) /\ k <= n
    <3>1. k \in 1 .. n /\ k - (at - 1) \in 1 .. Len(code) /\ at + (k - (at - 1)) - 1 = k
      BY <1>1, <2>2
    <3>2. code[k - (at - 1)] = b[k]
      BY <3>1 DEF Holds
    <3> HIDE DEF before, after, n
    <3>3. whole[k] = (before \o code)[k]
      BY <1>4, <1>5, <3>1, ConcatProperties
    <3>4. (before \o code)[k] = code[k - (at - 1)]
      BY <1>1, <1>3, <1>5, <2>2, <3>1, ConcatProperties
    <3>5. QED  BY <3>2, <3>3, <3>4
  <2>3. CASE ~ (k <= n)
    <3>1. k - n \in 1 .. Len(b) - n /\ n + (k - n) = k
      BY <1>1, <2>3
    <3>2. after[k - n] = b[k]
      BY <3>1
    <3> HIDE DEF before, after, n
    <3>3. k \in 1 .. n + Len(after) /\ ~ (k <= n)
      BY <1>1, <1>4, <2>3
    <3>4. whole[k] = after[k - n]
      BY <1>4, <1>5, <3>3, ConcatProperties
    <3>5. QED  BY <3>2, <3>4
  <2>4. QED  BY <1>1, <2>1, <2>2, <2>3
<1> HIDE DEF whole, after, before
<1>7. whole = b
  BY <1>1, <1>5, <1>6, SeqEqual, Zenon
<1>8. b = (before \o code) \o after
  BY <1>7 DEF whole
<1>9. Len(before) + 1 = at
  BY <1>1, <1>3
<1>10. QED  BY <1>3, <1>4, <1>8, <1>9, Zenon DEF Middle

(* A number that was written is read. *)
LEMMA UnsignedHeld ==
  ASSUME NEW b, NEW at, NEW n \in Nat, Holds(b, at, EncodeU(n))
  PROVE  DecodeU(b, at) = Got(n, at + Len(EncodeU(n)))
<1>0. Middle(b, at, EncodeU(n))
  BY HoldsMiddle
<1>1. PICK before, after \in Seq(Bytes) :
        b = (before \o EncodeU(n)) \o after /\ Len(before) + 1 = at
  BY <1>0, Zenon DEF Middle
<1>2. DecodeU((before \o EncodeU(n)) \o after, Len(before) + 1)
        = Got(n, Len(before) + Len(EncodeU(n)) + 1)
  BY UnsignedRead
<1>3. Len(EncodeU(n)) \in Nat /\ Len(before) \in Nat
  BY EncodeUBytes
<1>4. Len(before) + Len(EncodeU(n)) + 1 = at + Len(EncodeU(n))
  BY <1>1, <1>3
<1>5. QED  BY <1>1, <1>2, <1>4

(* decode_i reads what encode_i wrote, wherever it stands. *)
LEMMA SignedHeld ==
  ASSUME NEW b, NEW at, NEW n \in Int, Holds(b, at, EncodeI(n))
  PROVE  DecodeI(b, at) = Got(n, at + Len(EncodeI(n)))
<1>0. Middle(b, at, EncodeI(n))
  BY HoldsMiddle
<1>1. PICK before, after \in Seq(Bytes) :
        b = (before \o EncodeI(n)) \o after /\ Len(before) + 1 = at
  BY <1>0, Zenon DEF Middle
<1>2. DecodeI((before \o EncodeI(n)) \o after, Len(before) + 1)
        = Got(n, Len(before) + Len(EncodeI(n)) + 1)
  BY SignedRead
<1>3. Len(EncodeI(n)) \in Nat /\ Len(before) \in Nat
  BY EncodeIBytes, SMTT(40)
<1>4. Len(before) + Len(EncodeI(n)) + 1 = at + Len(EncodeI(n))
  BY <1>1, <1>3
<1>5. QED  BY <1>1, <1>2, <1>4

---------------------------------------------------------------------------

(* Pieces of bytes, one behind the other *)

(* h[k] is the first k of the sequences s, one behind the other. *)
Strung(s, h) ==
  /\ h \in [0 .. Len(s) -> Seq(Bytes)]
  /\ h[0] = << >>
  /\ \A k \in 1 .. Len(s) : h[k] = h[k - 1] \o s[k]

(* FlattenSeq strings sequences together. *)
LEMMA FlattenStrings ==
  ASSUME NEW s \in Seq(Seq(Bytes))
  PROVE  \E h : Strung(s, h) /\ FlattenSeq(s) = h[Len(s)]
<1> DEFINE n == Len(s)
           step == [k \in 1 .. n |-> [x \in Seq(Bytes) |-> x \o s[k]]]
<1>1. n \in Nat /\ \A k \in 1 .. n : s[k] \in Seq(Bytes)
  BY ElementOfSeq
<1>2. PICK h : Follows(h, n, Seq(Bytes), << >>, step)
  <2>1. step \in [1 .. n -> [Seq(Bytes) -> Seq(Bytes)]]
    <3>1. ASSUME NEW k \in 1 .. n, NEW x \in Seq(Bytes) PROVE x \o s[k] \in Seq(Bytes)
      BY <1>1, ConcatProperties
    <3> HIDE DEF n
    <3>2. QED  BY <3>1
  <2>2. << >> \in Seq(Bytes)
    OBVIOUS
  <2> HIDE DEF n, step
  <2>3. \E h : Follows(h, n, Seq(Bytes), << >>, step)
    BY <1>1, <2>1, <2>2, Recursion, Zenon
  <2>4. QED  BY <2>3
<1>3. Strung(s, h)
  <2>1. ASSUME NEW k \in 1 .. n PROVE h[k] = h[k - 1] \o s[k]
    <3>1. k - 1 \in 0 .. n
      BY <1>1
    <3>2. h[k - 1] \in Seq(Bytes) /\ h[k] = step[k][h[k - 1]]
      BY <1>2, <3>1, Zenon DEF Follows
    <3> HIDE DEF n
    <3>3. QED  BY <3>2, Zenon
  <2> HIDE DEF step
  <2>2. QED  BY <1>2, <2>1, Zenon DEF Follows, Strung
<1> HIDE DEF step
<1>4. CASE n = 0
  <2>1. s = << >>
    BY <1>4
  <2>2. FlattenSeq(s) = s
    BY <1>4 DEF FlattenSeq
  <2>3. QED  BY <1>3, <1>4, <2>1, <2>2 DEF Strung
<1>5. CASE n # 0
  <2> DEFINE Def(f) == f = [i \in 1 .. Len(s) |-> IF i = 1 THEN s[i] ELSE f[i - 1] \o s[i]]
             g == [i \in 1 .. n |-> h[i]]
             flatten == CHOOSE f : Def(f)
  <2>1. Def(g)
    <3>1. ASSUME NEW i \in 1 .. n PROVE h[i] = IF i = 1 THEN s[i] ELSE g[i - 1] \o s[i]
      <4>1. CASE i = 1
        <5>a. h[i] = h[i - 1] \o s[i]
          BY <1>3, Zenon DEF Strung
        <5>b. h[0] = << >> /\ i - 1 = 0
          BY <1>3, <4>1 DEF Strung
        <5> HIDE DEF n
        <5>0. h[i] = h[i - 1] \o s[i] /\ i - 1 = 0 /\ h[0] = << >>
          BY <5>a, <5>b
        <5>1. h[1] = << >> \o s[1] /\ s[1] \in Seq(Bytes)
          BY <1>1, <4>1, <5>0, Zenon
        <5>2. QED  BY <4>1, <5>1, ConcatEmptySeq
      <4>2. CASE i # 1
        <5>1. i - 1 \in 1 .. n
          BY <1>1, <4>2
        <5> HIDE DEF n
        <5>2. g[i - 1] = h[i - 1]
          BY <5>1
        <5>3. h[i] = h[i - 1] \o s[i]
          BY <1>3, Zenon DEF Strung, n
        <5>4. QED  BY <4>2, <5>2, <5>3, Zenon
      <4>3. QED  BY <4>1, <4>2
    <3>2. g = [i \in 1 .. n |-> IF i = 1 THEN s[i] ELSE g[i - 1] \o s[i]]
      BY <3>1, Zenon
    <3>3. QED  BY <3>2, Zenon
  <2> HIDE DEF Def, g
  <2>2. Def(flatten)
    BY <2>1
  <2>3. FlattenSeq(s) = flatten[n]
    BY <1>5 DEF FlattenSeq, Def
  <2> HIDE DEF flatten
  <2> DEFINE T == {k \in 0 .. n : k > 0 => flatten[k] = h[k]}
  <2>4. 0 \in T
    BY <1>1
  <2>5. ASSUME NEW k \in 1 .. n, k - 1 \in T PROVE k \in T
    <3>1. flatten[k] = IF k = 1 THEN s[k] ELSE flatten[k - 1] \o s[k]
      BY <2>2, Zenon DEF Def
    <3>2. h[k] = h[k - 1] \o s[k] /\ s[k] \in Seq(Bytes)
      BY <1>1, <1>3, Zenon DEF Strung
    <3>3. CASE k = 1
      <4>1. h[k - 1] = << >>
        BY <1>3, <3>3 DEF Strung
      <4>2. QED  BY <3>1, <3>2, <3>3, <4>1, ConcatEmptySeq
    <3>4. CASE k # 1
      <4>1. k - 1 > 0
        BY <3>4
      <4>2. flatten[k - 1] = h[k - 1]
        BY <2>5, <4>1
      <4>3. flatten[k] = h[k]
        BY <3>1, <3>2, <3>4, <4>2, Zenon
      <4>4. QED  BY <4>3
    <3>5. QED  BY <3>3, <3>4
  <2> HIDE DEF T
  <2>6. \A k \in 0 .. n : k \in T
    BY <1>1, <2>4, <2>5, BoundedInduction, Zenon
  <2>7. flatten[n] = h[n]
    BY <1>1, <1>5, <2>6 DEF T
  <2>8. QED  BY <1>3, <2>3, <2>7
<1>6. QED  BY <1>4, <1>5

(* Sequences of bytes, one behind the other, are bytes. *)
LEMMA FlattenBytes ==
  ASSUME NEW s \in Seq(Seq(Bytes))
  PROVE  FlattenSeq(s) \in Seq(Bytes)
<1>1. PICK h : Strung(s, h) /\ FlattenSeq(s) = h[Len(s)]
  BY FlattenStrings
<1>2. Len(s) \in 0 .. Len(s)
  OBVIOUS
<1>3. QED  BY <1>1, <1>2 DEF Strung

(* Where b has the sequences s, one behind the other: place[k] is behind *)
(* the k-th.                                                             *)
Places(b, at, s, place) ==
  /\ place \in [0 .. Len(s) -> Position]
  /\ place[0] = at
  /\ \A k \in 1 .. Len(s) : place[k] = place[k - 1] + Len(s[k]) /\ Holds(b, place[k - 1], s[k])
  /\ place[Len(s)] = at + Len(FlattenSeq(s))

(* What holds sequences strung together holds each of them. *)
LEMMA HoldsEach ==
  ASSUME NEW b, NEW at, NEW s \in Seq(Seq(Bytes)), Holds(b, at, FlattenSeq(s))
  PROVE  \E place : Places(b, at, s, place)
<1> DEFINE n == Len(s)
<1>1. PICK h : Strung(s, h) /\ FlattenSeq(s) = h[n]
  BY FlattenStrings
<1> DEFINE place == [k \in 0 .. n |-> at + Len(h[k])]
           T == {k \in 0 .. n : Holds(b, at, h[n - k])}
<1>2. n \in Nat /\ at \in Position /\ at \in Nat /\ 1 <= at
  BY DEF Holds, Position
<1>3. \A k \in 0 .. n : h[k] \in Seq(Bytes) /\ Len(h[k]) \in Nat
  BY <1>1 DEF Strung
<1>4. \A k \in 1 .. n : s[k] \in Seq(Bytes) /\ Len(s[k]) \in Nat
  BY ElementOfSeq, <1>2
<1>5. ASSUME NEW k \in 1 .. n, Holds(b, at, h[k])
      PROVE  /\ Holds(b, at, h[k - 1])
             /\ Holds(b, at + Len(h[k - 1]), s[k])
  <2>1. h[k] = h[k - 1] \o s[k]
    BY <1>1, Zenon DEF Strung
  <2>2. k - 1 \in 0 .. n
    BY <1>2
  <2>3. h[k - 1] \in Seq(Bytes) /\ s[k] \in Seq(Bytes)
    BY <1>3, <1>4, <2>2
  <2>4. Holds(b, at, h[k - 1] \o s[k])
    BY <1>5, <2>1
  <2>5. QED  BY <2>3, <2>4, HoldsBoth, Zenon
<1> HIDE DEF place
<1>6. \A k \in 0 .. n : k \in T
  <2>1. 0 \in T
    <3>1. 0 \in 0 .. n /\ n - 0 = n
      BY <1>2
    <3>2. QED  BY <1>1, <3>1
  <2>2. ASSUME NEW k \in 1 .. n, k - 1 \in T PROVE k \in T
    <3>1. n - (k - 1) \in 1 .. n /\ (n - (k - 1)) - 1 = n - k /\ k \in 0 .. n
      BY <1>2
    <3>2. Holds(b, at, h[n - (k - 1)])
      BY <2>2
    <3>3. Holds(b, at, h[(n - (k - 1)) - 1])
      BY <1>5, <3>1, <3>2
    <3>4. Holds(b, at, h[n - k])
      BY <3>1, <3>3
    <3>5. QED  BY <3>1, <3>4
  <2> HIDE DEF T, n
  <2>3. QED  BY <1>2, <2>1, <2>2, BoundedInduction, Zenon
<1>7. ASSUME NEW k \in 0 .. n PROVE Holds(b, at, h[k])
  <2>1. n - k \in 0 .. n /\ n - (n - k) = k
    BY <1>2
  <2>2. n - k \in T
    BY <1>6, <2>1
  <2>3. QED  BY <2>1, <2>2
<1>8. ASSUME NEW k \in 0 .. n PROVE at + Len(h[k]) \in Position
  <2>1. Len(h[k]) \in Nat
    BY <1>3
  <2>2. QED  BY <1>2, <2>1 DEF Position
<1>9. place \in [0 .. n -> Position]
  BY <1>8 DEF place
<1>10. place[0] = at
  <2>1. h[0] = << >> /\ 0 \in 0 .. n
    BY <1>1, <1>2 DEF Strung
  <2>2. place[0] = at + 0
    BY <2>1 DEF place
  <2>3. QED  BY <1>2, <2>2
<1>11. ASSUME NEW k \in 1 .. n
       PROVE  place[k] = place[k - 1] + Len(s[k]) /\ Holds(b, place[k - 1], s[k])
  <2>1. k - 1 \in 0 .. n /\ k \in 0 .. n
    BY <1>2
  <2>2. place[k] = at + Len(h[k]) /\ place[k - 1] = at + Len(h[k - 1])
    BY <2>1 DEF place
  <2>3. Len(h[k]) = Len(h[k - 1]) + Len(s[k])
    <3>1. h[k] = h[k - 1] \o s[k]
      BY <1>1, Zenon DEF Strung
    <3>2. h[k - 1] \in Seq(Bytes) /\ s[k] \in Seq(Bytes)
      BY <1>3, <1>4, <2>1
    <3>3. QED  BY <3>1, <3>2, ConcatProperties
  <2>4. place[k] = place[k - 1] + Len(s[k])
    <3>1. Len(h[k - 1]) \in Nat /\ Len(s[k]) \in Nat
      BY <1>3, <1>4, <2>1
    <3>2. place[k] = at + (Len(h[k - 1]) + Len(s[k]))
      BY <2>2, <2>3
    <3>3. at + (Len(h[k - 1]) + Len(s[k])) = (at + Len(h[k - 1])) + Len(s[k])
      <4>1. \A x, y, z \in Nat : x + (y + z) = (x + y) + z
        OBVIOUS
      <4>2. at \in Nat
        BY <1>2
      <4>3. QED  BY <3>1, <4>1, <4>2, Zenon
    <3> HIDE DEF n, T
    <3>4. QED  BY <2>2, <3>2, <3>3, Zenon
  <2>5. Holds(b, at, h[k])
    BY <1>7, <2>1
  <2>6. Holds(b, place[k - 1], s[k])
    BY <1>5, <2>2, <2>5
  <2>7. QED  BY <2>4, <2>6
<1>12. place[n] = at + Len(FlattenSeq(s))
  <2>1. n \in 0 .. n
    BY <1>2
  <2>2. QED  BY <1>1, <2>1 DEF place
<1>13. Places(b, at, s, place)
  BY <1>9, <1>10, <1>11, <1>12 DEF Places
<1>14. QED  BY <1>13

---------------------------------------------------------------------------

(* The labels of a node, in order *)

(* The table with an index reserved for obj *)
First(table, obj) == Append(table, obj)

(* A part is visited with the table as it is so far. *)
Visited(below, parts, i, table) == below[parts[i]][table]

(* get_type is what its recursive definition says. *)
LEMMA GetTypeRuns ==
  ASSUME NEW heap, NEW t
  PROVE  \E f : f[0] = t /\ (\A d \in 1 .. MaxDepth : f[d] = Filled(heap, f[d - 1])) /\ GetType(heap, t) = f[MaxDepth]
<1> DEFINE n == MaxDepth
           Good(m, f) == f = [d \in 0 .. m |-> IF d = 0 THEN t ELSE Filled(heap, f[d - 1])]
           T == {m \in 0 .. n : \E f : Good(m, f)}
           fn == CHOOSE f : Good(n, f)
<1>1. n \in Nat
  BY DepthAssumption
<1>2. GetType(heap, t) = fn[n]
  BY DEF GetType
<1> HIDE DEF n, fn
<1>3. 0 \in T
  <2>1. Good(0, [d \in 0 .. 0 |-> t])
    OBVIOUS
  <2> HIDE DEF Good
  <2>2. QED  BY <1>1, <2>1
<1>4. ASSUME NEW m \in 1 .. n, m - 1 \in T PROVE m \in T
  <2>1. PICK f : Good(m - 1, f)
    BY <1>4
  <2> DEFINE g == [d \in 0 .. m |-> IF d = m THEN Filled(heap, f[m - 1]) ELSE f[d]]
  <2>2. ASSUME NEW d \in 0 .. m PROVE g[d] = IF d = 0 THEN t ELSE Filled(heap, g[d - 1])
    BY <1>1, <2>1
  <2>3. Good(m, g)
    BY <2>2, Zenon
  <2> HIDE DEF Good, g
  <2>4. QED  BY <1>1, <2>3
<1> HIDE DEF T
<1>5. n \in T
  <2>1. \A k \in 0 .. n : k \in T
    BY <1>1, <1>3, <1>4, BoundedInduction
  <2>2. QED  BY <1>1, <2>1
<1>6. Good(n, fn)
  <2>1. \E f : Good(n, f)
    BY <1>5 DEF T
  <2> HIDE DEF Good
  <2>2. QED  BY <2>1 DEF fn
<1>7. fn[0] = t /\ \A d \in 1 .. n : fn[d] = Filled(heap, fn[d - 1])
  BY <1>1, <1>6
<1> HIDE DEF Good
<1>8. QED  BY <1>2, <1>7 DEF n

(* The parts of a type are put into the table one after the other. *)
LEMMA BuildPartsRuns ==
  ASSUME NEW below, NEW obj, NEW parts, NEW table, Len(parts) \in Nat
  PROVE  \E f : f[0] = First(table, obj) /\ (\A d \in 1 .. Len(parts) : f[d] = Visited(below, parts, d, f[d - 1])) /\ BuildParts(below, obj, parts, table) = f[Len(parts)]
<1> DEFINE n == Len(parts)
           Good(m, f) == f = [d \in 0 .. m |-> IF d = 0 THEN First(table, obj) ELSE Visited(below, parts, d, f[d - 1])]
           T == {m \in 0 .. n : \E f : Good(m, f)}
           fn == CHOOSE f : Good(n, f)
<1>1. n \in Nat
  OBVIOUS
<1>2. BuildParts(below, obj, parts, table) = fn[n]
  BY DEF BuildParts, Visited, First
<1> HIDE DEF n, fn
<1>3. 0 \in T
  <2>1. Good(0, [d \in 0 .. 0 |-> First(table, obj)])
    OBVIOUS
  <2> HIDE DEF Good
  <2>2. QED  BY <1>1, <2>1
<1>4. ASSUME NEW m \in 1 .. n, m - 1 \in T PROVE m \in T
  <2>1. PICK f : Good(m - 1, f)
    BY <1>4
  <2> DEFINE g == [d \in 0 .. m |-> IF d = m THEN Visited(below, parts, m, f[m - 1]) ELSE f[d]]
  <2>2. ASSUME NEW d \in 0 .. m PROVE g[d] = IF d = 0 THEN First(table, obj) ELSE Visited(below, parts, d, g[d - 1])
    BY <1>1, <2>1
  <2>3. Good(m, g)
    BY <2>2, Zenon
  <2> HIDE DEF Good, g
  <2>4. QED  BY <1>1, <2>3
<1> HIDE DEF T
<1>5. n \in T
  <2>1. \A k \in 0 .. n : k \in T
    BY <1>1, <1>3, <1>4, BoundedInduction, Zenon
  <2>2. QED  BY <1>1, <2>1
<1>6. Good(n, fn)
  <2>1. \E f : Good(n, f)
    BY <1>5 DEF T
  <2> HIDE DEF Good
  <2>2. QED  BY <2>1 DEF fn
<1>7. fn[0] = First(table, obj) /\ \A d \in 1 .. n : fn[d] = Visited(below, parts, d, fn[d - 1])
  BY <1>1, <1>6
<1> HIDE DEF Good
<1>8. QED  BY <1>2, <1>7 DEF n

(* One level of it, from the one below *)
BuilderLevel(heap, x, d) ==
  [t \in Int |-> [table \in Seq(Nat) |-> IF d = 0 THEN table ELSE BuildType(heap, x, t, table)]]

(* buildTypeTable is what its recursive definition says. *)
LEMMA BuilderLevels ==
  ASSUME NEW heap
  PROVE  \A t \in Int, table \in Seq(Nat) :
           /\ Builder(heap)[0][t][table] = table
           /\ \A d \in 1 .. MaxDepth : Builder(heap)[d][t][table] = BuildType(heap, Builder(heap)[d - 1], t, table)
<1> DEFINE n == MaxDepth
           Good(m, f) == f = [d \in 0 .. m |-> BuilderLevel(heap, f[d - 1], d)]
           T == {m \in 0 .. n : \E f : Good(m, f)}
           fn == CHOOSE f : Good(n, f)
<1>1. n \in Nat
  BY DepthAssumption
<1>2. Builder(heap) = fn
  BY DEF Builder, BuilderLevel
<1> HIDE DEF n, fn
<1>3. \A x, y : BuilderLevel(heap, x, 0) = BuilderLevel(heap, y, 0)
  BY DEF BuilderLevel
<1>4. 0 \in T
  <2> DEFINE g == [d \in 0 .. 0 |-> BuilderLevel(heap, 0, d)]
  <2>1. ASSUME NEW d \in 0 .. 0 PROVE g[d] = BuilderLevel(heap, g[d - 1], d)
    BY <1>3
  <2>2. Good(0, g)
    BY <2>1, Zenon
  <2> HIDE DEF Good, g
  <2>3. QED  BY <1>1, <2>2
<1>5. ASSUME NEW m \in 1 .. n, m - 1 \in T PROVE m \in T
  <2>1. PICK f : Good(m - 1, f)
    BY <1>5
  <2> DEFINE g == [d \in 0 .. m |-> IF d = m THEN BuilderLevel(heap, f[m - 1], m) ELSE f[d]]
  <2>2. ASSUME NEW d \in 0 .. m PROVE g[d] = BuilderLevel(heap, g[d - 1], d)
    BY <1>1, <1>3, <2>1
  <2>3. Good(m, g)
    BY <2>2, Zenon
  <2> HIDE DEF Good, g
  <2>4. QED  BY <1>1, <2>3
<1> HIDE DEF T
<1>6. n \in T
  <2>1. \A k \in 0 .. n : k \in T
    BY <1>1, <1>4, <1>5, BoundedInduction
  <2>2. QED  BY <1>1, <2>1
<1>7. Good(n, fn)
  <2>1. \E f : Good(n, f)
    BY <1>6 DEF T
  <2> HIDE DEF Good
  <2>2. QED  BY <2>1 DEF fn
<1>8. \A d \in 0 .. n : fn[d] = BuilderLevel(heap, fn[d - 1], d)
  BY <1>1, <1>7
<1> HIDE DEF Good
<1>9. ASSUME NEW t \in Int, NEW table \in Seq(Nat) PROVE fn[0][t][table] = table
  <2>1. fn[0] = BuilderLevel(heap, fn[0 - 1], 0)
    BY <1>1, <1>8
  <2>2. QED  BY <2>1 DEF BuilderLevel
<1>10. ASSUME NEW t \in Int, NEW table \in Seq(Nat), NEW d \in 1 .. n
       PROVE  fn[d][t][table] = BuildType(heap, fn[d - 1], t, table)
  <2>1. fn[d] = BuilderLevel(heap, fn[d - 1], d) /\ d # 0
    BY <1>1, <1>8
  <2>2. QED  BY <2>1 DEF BuilderLevel
<1>11. QED  BY <1>2, <1>9, <1>10 DEF n

(* The types of a message are put into the table one after the other. *)
LEMMA BuildTableRuns ==
  ASSUME NEW heap, NEW types, Len(types) \in Nat
  PROVE  \E f : f[0] = << >> /\ (\A d \in 1 .. Len(types) : f[d] = Visited(Builder(heap)[MaxDepth], types, d, f[d - 1])) /\ BuildTable(heap, types) = f[Len(types)]
<1> DEFINE n == Len(types)
           Good(m, f) == f = [d \in 0 .. m |-> IF d = 0 THEN << >> ELSE Visited(Builder(heap)[MaxDepth], types, d, f[d - 1])]
           T == {m \in 0 .. n : \E f : Good(m, f)}
           fn == CHOOSE f : Good(n, f)
<1>1. n \in Nat
  OBVIOUS
<1>2. BuildTable(heap, types) = fn[n]
  BY DEF BuildTable, Visited
<1> HIDE DEF n, fn
<1>3. 0 \in T
  <2>1. Good(0, [d \in 0 .. 0 |-> << >>])
    OBVIOUS
  <2> HIDE DEF Good
  <2>2. QED  BY <1>1, <2>1
<1>4. ASSUME NEW m \in 1 .. n, m - 1 \in T PROVE m \in T
  <2>1. PICK f : Good(m - 1, f)
    BY <1>4
  <2> DEFINE g == [d \in 0 .. m |-> IF d = m THEN Visited(Builder(heap)[MaxDepth], types, m, f[m - 1]) ELSE f[d]]
  <2>2. ASSUME NEW d \in 0 .. m PROVE g[d] = IF d = 0 THEN << >> ELSE Visited(Builder(heap)[MaxDepth], types, d, g[d - 1])
    BY <1>1, <2>1
  <2>3. Good(m, g)
    BY <2>2, Zenon
  <2> HIDE DEF Good, g
  <2>4. QED  BY <1>1, <2>3
<1> HIDE DEF T
<1>5. n \in T
  <2>1. \A k \in 0 .. n : k \in T
    BY <1>1, <1>3, <1>4, BoundedInduction, Zenon
  <2>2. QED  BY <1>1, <2>1
<1>6. Good(n, fn)
  <2>1. \E f : Good(n, f)
    BY <1>5 DEF T
  <2> HIDE DEF Good
  <2>2. QED  BY <2>1 DEF fn
<1>7. fn[0] = << >> /\ \A d \in 1 .. n : fn[d] = Visited(Builder(heap)[MaxDepth], types, d, fn[d - 1])
  BY <1>1, <1>6
<1> HIDE DEF Good
<1>8. QED  BY <1>2, <1>7 DEF n

(* The states f of the loop that reads a list of types, and what it reads *)
ReadsTypes(b, at, count, f) ==
  /\ f[0] = Got(<< >>, at)
  /\ \A d \in 1 .. count : f[d] = ReadType(b, f[d - 1])
  /\ ReadTypes(b, at, count) = f[count]

(* A list of types is read one after the other. *)
LEMMA ReadTypesRuns ==
  ASSUME NEW b, NEW at, NEW count \in Nat
  PROVE  \E f : ReadsTypes(b, at, count, f)
<1> DEFINE n == count
           Good(m, f) == f = [d \in 0 .. m |-> IF d = 0 THEN Got(<< >>, at) ELSE ReadType(b, f[d - 1])]
           T == {m \in 0 .. n : \E f : Good(m, f)}
           fn == CHOOSE f : Good(n, f)
<1>1. n \in Nat
  OBVIOUS
<1>2. ReadTypes(b, at, count) = fn[n]
  BY DEF ReadTypes
<1> HIDE DEF n, fn
<1>3. 0 \in T
  <2>1. Good(0, [d \in 0 .. 0 |-> Got(<< >>, at)])
    OBVIOUS
  <2> HIDE DEF Good
  <2>2. QED  BY <1>1, <2>1
<1>4. ASSUME NEW m \in 1 .. n, m - 1 \in T PROVE m \in T
  <2>1. PICK f : Good(m - 1, f)
    BY <1>4
  <2> DEFINE g == [d \in 0 .. m |-> IF d = m THEN ReadType(b, f[m - 1]) ELSE f[d]]
  <2>2. ASSUME NEW d \in 0 .. m PROVE g[d] = IF d = 0 THEN Got(<< >>, at) ELSE ReadType(b, g[d - 1])
    BY <1>1, <2>1
  <2>3. Good(m, g)
    BY <2>2, Zenon
  <2> HIDE DEF Good, g
  <2>4. QED  BY <1>1, <2>3
<1> HIDE DEF T
<1>5. n \in T
  <2>1. \A k \in 0 .. n : k \in T
    BY <1>1, <1>3, <1>4, BoundedInduction
  <2>2. QED  BY <1>1, <2>1
<1>6. Good(n, fn)
  <2>1. \E f : Good(n, f)
    BY <1>5 DEF T
  <2> HIDE DEF Good
  <2>2. QED  BY <2>1 DEF fn
<1>7. fn[0] = Got(<< >>, at) /\ \A d \in 1 .. n : fn[d] = ReadType(b, fn[d - 1])
  BY <1>1, <1>6
<1> HIDE DEF Good
<1>8. ReadsTypes(b, at, count, fn)
  BY <1>2, <1>7 DEF n, ReadsTypes
<1>9. QED  BY <1>8

(* The states f of the loop that reads the fields of a type *)
ReadsFields(b, at, service, count, f) ==
  /\ f[0] = Got(<< >>, at)
  /\ \A d \in 1 .. count : f[d] = ReadField(b, service, f[d - 1])
  /\ ReadFields(b, at, service, count) = f[count]

(* The fields of a type are read one after the other. *)
LEMMA ReadFieldsRuns ==
  ASSUME NEW b, NEW at, NEW service, NEW count \in Nat
  PROVE  \E f : ReadsFields(b, at, service, count, f)
<1> DEFINE n == count
           Good(m, f) == f = [d \in 0 .. m |-> IF d = 0 THEN Got(<< >>, at) ELSE ReadField(b, service, f[d - 1])]
           T == {m \in 0 .. n : \E f : Good(m, f)}
           fn == CHOOSE f : Good(n, f)
<1>1. n \in Nat
  OBVIOUS
<1>2. ReadFields(b, at, service, count) = fn[n]
  BY DEF ReadFields
<1> HIDE DEF n, fn
<1>3. 0 \in T
  <2>1. Good(0, [d \in 0 .. 0 |-> Got(<< >>, at)])
    OBVIOUS
  <2> HIDE DEF Good
  <2>2. QED  BY <1>1, <2>1
<1>4. ASSUME NEW m \in 1 .. n, m - 1 \in T PROVE m \in T
  <2>1. PICK f : Good(m - 1, f)
    BY <1>4
  <2> DEFINE g == [d \in 0 .. m |-> IF d = m THEN ReadField(b, service, f[m - 1]) ELSE f[d]]
  <2>2. ASSUME NEW d \in 0 .. m PROVE g[d] = IF d = 0 THEN Got(<< >>, at) ELSE ReadField(b, service, g[d - 1])
    BY <1>1, <2>1
  <2>3. Good(m, g)
    BY <2>2, Zenon
  <2> HIDE DEF Good, g
  <2>4. QED  BY <1>1, <2>3
<1> HIDE DEF T
<1>5. n \in T
  <2>1. \A k \in 0 .. n : k \in T
    BY <1>1, <1>3, <1>4, BoundedInduction
  <2>2. QED  BY <1>1, <2>1
<1>6. Good(n, fn)
  <2>1. \E f : Good(n, f)
    BY <1>5 DEF T
  <2> HIDE DEF Good
  <2>2. QED  BY <2>1 DEF fn
<1>7. fn[0] = Got(<< >>, at) /\ \A d \in 1 .. n : fn[d] = ReadField(b, service, fn[d - 1])
  BY <1>1, <1>6
<1> HIDE DEF Good
<1>8. ReadsFields(b, at, service, count, fn)
  BY <1>2, <1>7 DEF n, ReadsFields
<1>9. QED  BY <1>8

(* The states f of the loop that reads the table *)
ReadsNodes(b, at, count, f) ==
  /\ f[0] = Got(<< >>, at)
  /\ \A d \in 1 .. count : f[d] = ReadNode(b, f[d - 1])
  /\ ReadNodes(b, at, count) = f[count]

(* The types of a table are read one after the other. *)
LEMMA ReadNodesRuns ==
  ASSUME NEW b, NEW at, NEW count \in Nat
  PROVE  \E f : ReadsNodes(b, at, count, f)
<1> DEFINE n == count
           Good(m, f) == f = [d \in 0 .. m |-> IF d = 0 THEN Got(<< >>, at) ELSE ReadNode(b, f[d - 1])]
           T == {m \in 0 .. n : \E f : Good(m, f)}
           fn == CHOOSE f : Good(n, f)
<1>1. n \in Nat
  OBVIOUS
<1>2. ReadNodes(b, at, count) = fn[n]
  BY DEF ReadNodes
<1> HIDE DEF n, fn
<1>3. 0 \in T
  <2>1. Good(0, [d \in 0 .. 0 |-> Got(<< >>, at)])
    OBVIOUS
  <2> HIDE DEF Good
  <2>2. QED  BY <1>1, <2>1
<1>4. ASSUME NEW m \in 1 .. n, m - 1 \in T PROVE m \in T
  <2>1. PICK f : Good(m - 1, f)
    BY <1>4
  <2> DEFINE g == [d \in 0 .. m |-> IF d = m THEN ReadNode(b, f[m - 1]) ELSE f[d]]
  <2>2. ASSUME NEW d \in 0 .. m PROVE g[d] = IF d = 0 THEN Got(<< >>, at) ELSE ReadNode(b, g[d - 1])
    BY <1>1, <2>1
  <2>3. Good(m, g)
    BY <2>2, Zenon
  <2> HIDE DEF Good, g
  <2>4. QED  BY <1>1, <2>3
<1> HIDE DEF T
<1>5. n \in T
  <2>1. \A k \in 0 .. n : k \in T
    BY <1>1, <1>3, <1>4, BoundedInduction
  <2>2. QED  BY <1>1, <2>1
<1>6. Good(n, fn)
  <2>1. \E f : Good(n, f)
    BY <1>5 DEF T
  <2> HIDE DEF Good
  <2>2. QED  BY <2>1 DEF fn
<1>7. fn[0] = Got(<< >>, at) /\ \A d \in 1 .. n : fn[d] = ReadNode(b, fn[d - 1])
  BY <1>1, <1>6
<1> HIDE DEF Good
<1>8. ReadsNodes(b, at, count, fn)
  BY <1>2, <1>7 DEF n, ReadsNodes
<1>9. QED  BY <1>8

---------------------------------------------------------------------------

(* Heaps of types *)

(* s lists the labels in their order. *)
Sorted(labels, s) ==
  /\ s \in Seq(labels) /\ Len(s) = Cardinality(labels) /\ Cardinality(labels) \in Nat
  /\ \A i, j \in 1 .. Len(s) : i < j => s[i] < s[j]
  /\ \A h \in labels : \E i \in 1 .. Len(s) : s[i] = h

(* The labels below another one, and how many they are *)
BelowLabel(labels, h) == {g \in labels : g < h}

(* The larger label has more labels below it. *)
LEMMA RankGrows ==
  ASSUME NEW labels, labels \subseteq Nat, IsFiniteSet(labels)
  PROVE  /\ \A g \in labels : Cardinality(BelowLabel(labels, g)) \in 0 .. Cardinality(labels) - 1
         /\ \A g, h \in labels : g < h =>
              Cardinality(BelowLabel(labels, g)) < Cardinality(BelowLabel(labels, h))
<1>1. ASSUME NEW g \in labels
      PROVE  /\ IsFiniteSet(BelowLabel(labels, g)) /\ Cardinality(BelowLabel(labels, g)) \in Nat
             /\ Cardinality(BelowLabel(labels, g)) < Cardinality(labels)
  <2> DEFINE S == BelowLabel(labels, g)
  <2>1. S \in SUBSET labels /\ S # labels
    BY DEF BelowLabel
  <2> HIDE DEF S
  <2>2. IsFiniteSet(S) /\ Cardinality(S) <= Cardinality(labels) /\ Cardinality(labels) # Cardinality(S)
    BY <2>1, FS_Subset, Zenon
  <2>3. Cardinality(S) \in Nat /\ Cardinality(labels) \in Nat
    BY <2>2, FS_CardinalityType
  <2>4. QED  BY <2>2, <2>3 DEF S
<1>2. ASSUME NEW g \in labels, NEW h \in labels, g < h
      PROVE  Cardinality(BelowLabel(labels, g)) < Cardinality(BelowLabel(labels, h))
  <2> DEFINE S == BelowLabel(labels, g)
             U == BelowLabel(labels, h)
  <2>1. S \in SUBSET U /\ S # U
    <3>1. g \in U /\ g \notin S
      BY <1>2 DEF BelowLabel
    <3>2. ASSUME NEW x \in S PROVE x \in U
      BY <1>2, labels \subseteq Nat DEF BelowLabel
    <3>3. QED  BY <3>1, <3>2, Zenon
  <2>2. IsFiniteSet(U) /\ Cardinality(U) \in Nat /\ Cardinality(S) \in Nat
    BY <1>1
  <2> HIDE DEF S, U
  <2>3. Cardinality(S) <= Cardinality(U) /\ Cardinality(U) # Cardinality(S)
    BY <2>1, <2>2, FS_Subset
  <2>4. Cardinality(S) < Cardinality(U)
    BY <2>2, <2>3
  <2>5. QED  BY <2>4 DEF S, U
<1>3. Cardinality(labels) \in Nat
  BY FS_CardinalityType
<1>4. QED  BY <1>1, <1>2, <1>3

(* _sorted_hashes sorts. *)
LEMMA HashesSorted ==
  ASSUME NEW node, DOMAIN node.fields \subseteq Nat, IsFiniteSet(DOMAIN node.fields)
  PROVE  Sorted(DOMAIN node.fields, SortedHashes(node))
<1> DEFINE labels == DOMAIN node.fields
           n == Cardinality(labels)
           rank == [h \in labels |-> Cardinality(BelowLabel(labels, h))]
           s == SortedHashes(node)
<1>1. s = [i \in 1 .. n |-> CHOOSE h \in labels : rank[h] = i - 1]
  <2>1. ASSUME NEW i \in 1 .. n
        PROVE  (CHOOSE h \in labels : rank[h] = i - 1)
                 = (CHOOSE h \in labels : Cardinality({g \in labels : g < h}) = i - 1)
    <3>1. \A h \in labels : rank[h] = Cardinality({g \in labels : g < h})
      BY DEF BelowLabel
    <3> HIDE DEF rank
    <3>2. \A h : (h \in labels /\ rank[h] = i - 1)
                   <=> (h \in labels /\ Cardinality({g \in labels : g < h}) = i - 1)
      BY <3>1
    <3>3. QED  BY <3>2, Zenon
  <2> HIDE DEF rank
  <2>2. QED  BY <2>1, Zenon DEF SortedHashes
<1> HIDE DEF s
<1>2. n \in Nat /\ labels \subseteq Nat
  BY FS_CardinalityType
<1>3. rank \in [labels -> 0 .. n - 1] /\ \A g, h \in labels : g < h => rank[g] < rank[h]
  BY RankGrows
<1> HIDE DEF rank
<1>4. \A g, h \in labels : rank[g] = rank[h] => g = h
  <2> SUFFICES ASSUME NEW g \in labels, NEW h \in labels, rank[g] = rank[h], g # h PROVE FALSE
    OBVIOUS
  <2>1. g < h \/ h < g
    BY <1>2
  <2>2. rank[g] < rank[h] \/ rank[h] < rank[g]
    BY <1>3, <2>1
  <2>3. rank[g] \in Int
    BY <1>3
  <2>4. QED  BY <2>2, <2>3
<1>5. \A i \in 0 .. n - 1 : \E h \in labels : rank[h] = i
  <2>1. rank \in Injection(labels, 0 .. n - 1)
    BY <1>3, <1>4, Fun_IsInj, Zenon
  <2>2. IsFiniteSet(0 .. n - 1) /\ Cardinality(0 .. n - 1) = n
    <3>1. n - 1 \in Int /\ (IF 0 > n - 1 THEN 0 ELSE n - 1 - 0 + 1) = n
      BY <1>2
    <3> HIDE DEF n
    <3>2. IsFiniteSet(0 .. n - 1) /\ Cardinality(0 .. n - 1) = IF 0 > n - 1 THEN 0 ELSE n - 1 - 0 + 1
      BY <3>1, FS_Interval
    <3>3. QED  BY <3>1, <3>2
  <2>3. rank \in Surjection(labels, 0 .. n - 1)
    BY <2>1, <2>2, FS_Injection
  <2> DEFINE R == 0 .. n - 1
  <2>4. rank \in Surjection(labels, R)
    BY <2>3
  <2> HIDE DEF R, labels
  <2>5. \A i \in R : \E h \in labels : rank[h] = i
    BY <2>4, Fun_SurjectionProperties
  <2>6. QED  BY <2>5 DEF R
<1>6. ASSUME NEW i \in 1 .. n PROVE s[i] \in labels /\ rank[s[i]] = i - 1
  <2>1. i - 1 \in 0 .. n - 1
    BY <1>2
  <2>2. \E h \in labels : rank[h] = i - 1
    BY <1>5, <2>1
  <2> HIDE DEF labels, n
  <2>3. s[i] = CHOOSE h \in labels : rank[h] = i - 1
    BY <1>1
  <2>4. QED  BY <2>2, <2>3
<1>7. s \in Seq(labels) /\ Len(s) = n
  <2>1. s \in [1 .. n -> labels]
    BY <1>1, <1>6
  <2> HIDE DEF labels, n
  <2>2. QED  BY <1>2, <2>1
<1>8. ASSUME NEW i \in 1 .. Len(s), NEW j \in 1 .. Len(s), i < j PROVE s[i] < s[j]
  <2>1. i \in 1 .. n /\ j \in 1 .. n
    BY <1>7
  <2>2. s[i] \in labels /\ s[j] \in labels /\ rank[s[i]] = i - 1 /\ rank[s[j]] = j - 1
    BY <1>6, <2>1
  <2>3. s[i] \in Nat /\ s[j] \in Nat
    BY <1>2, <2>2
  <2>4. CASE s[i] = s[j]
    BY <1>8, <2>1, <2>2, <2>4
  <2>5. CASE s[j] < s[i]
    <3>1. rank[s[j]] < rank[s[i]]
      BY <1>3, <2>2, <2>5
    <3>2. QED  BY <1>8, <2>1, <2>2, <3>1
  <2>6. QED  BY <2>3, <2>4, <2>5
<1>9. ASSUME NEW h \in labels PROVE \E i \in 1 .. Len(s) : s[i] = h
  <2>1. rank[h] \in 0 .. n - 1
    BY <1>3
  <2>2. rank[h] + 1 \in 1 .. n /\ (rank[h] + 1) - 1 = rank[h]
    BY <1>2, <2>1
  <2>3. s[rank[h] + 1] \in labels /\ rank[s[rank[h] + 1]] = rank[h]
    BY <1>6, <2>2
  <2>4. s[rank[h] + 1] = h
    BY <1>4, <2>3
  <2>5. QED  BY <1>7, <2>2, <2>4
<1>10. QED  BY <1>2, <1>7, <1>8, <1>9 DEF Sorted, s

-----------------------------------------------------------------------------
(* References are numbers; those that are not opcodes are identities. *)
LEMMA RefNumbers ==
  ASSUME NEW heap, DOMAIN heap \subseteq Nat, NEW t \in Refs(heap)
  PROVE  t \in Int /\ (t \in DOMAIN heap <=> t >= 0)
BY DEF Refs, TypeIds, Primitives

(* One step of get_type *)
LEMMA FilledRef ==
  ASSUME NEW heap, IsHeap(heap), NEW t \in Refs(heap)
  PROVE  Filled(heap, t) \in Refs(heap)
<1>1. DOMAIN heap \subseteq Nat
  BY DEF IsHeap
<1>2. CASE t \in DOMAIN heap /\ heap[t].con = "rec"
  <2>1. IsNode(heap, heap[t])
    BY <1>2 DEF IsHeap
  <2>2. heap[t].arg \in Refs(heap)
    BY <1>2, <2>1 DEF IsNode, HasFields
  <2>3. QED  BY <2>2 DEF Filled
<1>3. QED  BY <1>1, <1>2, RefNumbers DEF Filled

(* What a reference is to: a primitive type, or an object that is not a RecClass *)
IsType(heap, t) == t \in Refs(heap) /\ (t >= 0 => t \in DOMAIN heap /\ heap[t].con # "rec")

(* What get_type returns is a type, and a primitive type is its own. *)
LEMMA GetTypeType ==
  ASSUME NEW heap, IsHeap(heap), NEW t \in Refs(heap)
  PROVE  IsType(heap, GetType(heap, t)) /\ (t < 0 => GetType(heap, t) = t)
<1>1. PICK f : f[0] = t /\ (\A d \in 1 .. MaxDepth : f[d] = Filled(heap, f[d - 1])) /\ GetType(heap, t) = f[MaxDepth]
  BY GetTypeRuns
<1>2. DOMAIN heap \subseteq Nat /\ MaxDepth \in Nat
  BY DepthAssumption DEF IsHeap
<1>3. f[MaxDepth] \in Refs(heap) /\ (t < 0 => f[MaxDepth] = t)
  <2> DEFINE T == {d \in 0 .. MaxDepth : f[d] \in Refs(heap) /\ (t < 0 => f[d] = t)}
  <2>1. 0 \in T
    BY <1>1, <1>2
  <2>2. ASSUME NEW d \in 1 .. MaxDepth, d - 1 \in T PROVE d \in T
    <3>1. f[d] = Filled(heap, f[d - 1]) /\ f[d - 1] \in Refs(heap) /\ (t < 0 => f[d - 1] = t)
      BY <1>1, <2>2
    <3>2. f[d] \in Refs(heap)
      BY <3>1, FilledRef
    <3>3. t < 0 => f[d] = t
      <4>1. t \in Int
        BY <1>2, RefNumbers
      <4>2. QED  BY <3>1, <4>1 DEF Filled
    <3>4. QED  BY <1>2, <3>2, <3>3
  <2> HIDE DEF T
  <2>3. \A d \in 0 .. MaxDepth : d \in T
    BY <1>2, <2>1, <2>2, BoundedInduction
  <2>4. MaxDepth \in T
    BY <1>2, <2>3
  <2>5. QED  BY <2>4 DEF T
<1>4. GetType(heap, t) \in Refs(heap) /\ (t < 0 => GetType(heap, t) = t)
  BY <1>1, <1>3
<1>5. ASSUME GetType(heap, t) >= 0 PROVE GetType(heap, t) \in DOMAIN heap /\ heap[GetType(heap, t)].con # "rec"
  <2>1. GetType(heap, t) \in DOMAIN heap
    BY <1>2, <1>4, <1>5, RefNumbers
  <2>2. t \in DOMAIN heap
    BY <1>2, <1>4, <1>5, RefNumbers
  <2>3. QED  BY <1>5, <2>1, <2>2 DEF IsHeap
<1>6. QED  BY <1>4, <1>5 DEF IsType

(* What a node of a heap has, by its constructor *)
LEMMA NodeShapes ==
  ASSUME NEW heap, IsHeap(heap), NEW o \in DOMAIN heap
  PROVE  /\ heap[o].con \in {"opt", "vec", "rec", "func", "record", "variant", "service"}
         /\ heap[o].con \in {"opt", "vec", "rec"} => heap[o].arg \in Refs(heap)
         /\ heap[o].con = "func" => heap[o].args \in Seq(Refs(heap)) /\ heap[o].rets \in Seq(Refs(heap))
         /\ HasFields(heap[o]) =>
              /\ IsFiniteSet(DOMAIN heap[o].fields) /\ DOMAIN heap[o].fields \subseteq Nat
              /\ heap[o].con = "service" => DOMAIN heap[o].fields \subseteq 0 .. 127
              /\ \A h \in DOMAIN heap[o].fields : heap[o].fields[h] \in Refs(heap)
              /\ Sorted(DOMAIN heap[o].fields, SortedHashes(heap[o]))
<1> DEFINE node == heap[o]
<1>1. IsNode(heap, node)
  BY DEF IsHeap
<1> HIDE DEF node
<1>2. HasFields(node) =>
         /\ IsFiniteSet(DOMAIN node.fields) /\ DOMAIN node.fields \subseteq Nat
         /\ node.con = "service" => DOMAIN node.fields \subseteq 0 .. 127
         /\ \A h \in DOMAIN node.fields : node.fields[h] \in Refs(heap)
  <2> SUFFICES ASSUME HasFields(node)
      PROVE /\ IsFiniteSet(DOMAIN node.fields) /\ DOMAIN node.fields \subseteq Nat
            /\ node.con = "service" => DOMAIN node.fields \subseteq 0 .. 127
            /\ \A h \in DOMAIN node.fields : node.fields[h] \in Refs(heap)
    OBVIOUS
  <2>1. node.con \in {"record", "variant", "service"}
    BY DEF HasFields
  <2>2. /\ IsFiniteSet(DOMAIN node.fields)
        /\ DOMAIN node.fields \subseteq (IF node.con = "service" THEN 0 .. 127 ELSE Nat)
        /\ \A h \in DOMAIN node.fields : node.fields[h] \in Refs(heap)
    BY <1>1, <2>1 DEF IsNode
  <2>3. 0 .. 127 \subseteq Nat
    OBVIOUS
  <2>4. QED  BY <2>2, <2>3
<1>3. HasFields(node) => Sorted(DOMAIN node.fields, SortedHashes(node))
  BY <1>2, HashesSorted
<1>4. node.con \in {"opt", "vec", "rec", "func", "record", "variant", "service"}
  BY <1>1 DEF IsNode, HasFields
<1>5. /\ node.con \in {"opt", "vec", "rec"} => node.arg \in Refs(heap)
      /\ node.con = "func" => node.args \in Seq(Refs(heap)) /\ node.rets \in Seq(Refs(heap))
  BY <1>1 DEF IsNode, HasFields
<1>6. QED  BY <1>2, <1>3, <1>4, <1>5, Zenon DEF node

(* The parts of a type are references. *)
LEMMA PartsRefs ==
  ASSUME NEW heap, IsHeap(heap), NEW o \in DOMAIN heap
  PROVE  Parts(heap[o]) \in Seq(Refs(heap))
<1> DEFINE node == heap[o]
           s == SortedHashes(node)
<1>1. CASE HasFields(node)
  <2>1. /\ \A h \in DOMAIN node.fields : node.fields[h] \in Refs(heap)
        /\ Sorted(DOMAIN node.fields, s)
    BY <1>1, NodeShapes
  <2> HIDE DEF s
  <2>2. s \in Seq(DOMAIN node.fields)
    BY <2>1 DEF Sorted
  <2>3. \A i \in DOMAIN s : node.fields[s[i]] \in Refs(heap)
    BY <2>1, <2>2
  <2>4. [i \in DOMAIN s |-> node.fields[s[i]]] \in [1 .. Len(s) -> Refs(heap)] /\ Len(s) \in Nat
    BY <2>2, <2>3
  <2>5. [i \in DOMAIN s |-> node.fields[s[i]]] \in Seq(Refs(heap))
    BY <2>4
  <2>6. QED  BY <1>1, <2>5 DEF Parts, s
<1>2. CASE heap[o].con = "func"
  <2>1. heap[o].args \in Seq(Refs(heap)) /\ heap[o].rets \in Seq(Refs(heap)) /\ ~ HasFields(heap[o])
    BY <1>2, NodeShapes DEF HasFields
  <2>2. heap[o].args \o heap[o].rets \in Seq(Refs(heap))
    BY <2>1, ConcatProperties
  <2>3. QED  BY <1>2, <2>1, <2>2 DEF Parts
<1>3. CASE ~ HasFields(heap[o]) /\ heap[o].con # "func"
  <2>1. heap[o].arg \in Refs(heap)
    BY <1>3, NodeShapes DEF HasFields
  <2>2. QED  BY <1>3, <2>1 DEF Parts
<1>4. QED  BY <1>1, <1>2, <1>3

---------------------------------------------------------------------------

(* build_type and the table it makes *)

(* A table lists objects that are not RecClass objects, each of them once. *)
IsTable(heap, table) ==
  /\ table \in Seq(DOMAIN heap)
  /\ \A i, j \in DOMAIN table : table[i] = table[j] => i = j
  /\ \A o \in ToSet(table) : heap[o].con # "rec"

Closed(heap, S) == \A p \in S : AllWithin(heap, Parts(heap[p]), S)

(* What putting the types A into a table makes of it: it goes on to list    *)
(* what it listed, lists the types, has the parts of each new entry, and    *)
(* lists no more than has to be.                                            *)
Builds(heap, A, table, result) ==
  /\ IsTable(heap, result)
  /\ ToSet(table) \subseteq ToSet(result)
  /\ \A t \in A : Within(heap, t, ToSet(result))
  /\ \A o \in ToSet(result) \ ToSet(table) : AllWithin(heap, Parts(heap[o]), ToSet(result))
  /\ \A S \in SUBSET DOMAIN heap :
       (\A t \in A : Within(heap, t, S)) /\ Closed(heap, S) => ToSet(result) \subseteq ToSet(table) \cup S

(* More objects are within a larger set. *)
LEMMA WithinGrows ==
  ASSUME NEW heap, NEW S, NEW U, S \subseteq U
  PROVE  /\ \A t : Within(heap, t, S) => Within(heap, t, U)
         /\ \A types : AllWithin(heap, types, S) => AllWithin(heap, types, U)
BY DEF Within, AllWithin

(* A table is a table built on itself. *)
LEMMA TableItself ==
  ASSUME NEW heap, NEW table, IsTable(heap, table)
  PROVE  Builds(heap, {}, table, table)
BY DEF Builds

(* Building goes on. *)
LEMMA BuildsMore ==
  ASSUME NEW heap, NEW A, NEW B, NEW t0, NEW t1, NEW t2,
         Builds(heap, A, t0, t1), Builds(heap, B, t1, t2)
  PROVE  Builds(heap, A \cup B, t0, t2)
<1>1. IsTable(heap, t2) /\ ToSet(t0) \subseteq ToSet(t1) /\ ToSet(t1) \subseteq ToSet(t2)
  BY DEF Builds
<1>2. ASSUME NEW t \in A \cup B PROVE Within(heap, t, ToSet(t2))
  BY <1>1, WithinGrows DEF Builds
<1>3. ASSUME NEW o \in ToSet(t2) \ ToSet(t0) PROVE AllWithin(heap, Parts(heap[o]), ToSet(t2))
  <2>1. CASE o \in ToSet(t1)
    <3>1. AllWithin(heap, Parts(heap[o]), ToSet(t1))
      BY <1>3, <2>1 DEF Builds
    <3>2. QED  BY <1>1, <3>1, WithinGrows
  <2>2. CASE o \notin ToSet(t1)
    BY <1>3, <2>2 DEF Builds
  <2>3. QED  BY <2>1, <2>2
<1>4. ASSUME NEW S \in SUBSET DOMAIN heap, \A t \in A \cup B : Within(heap, t, S), Closed(heap, S)
      PROVE  ToSet(t2) \subseteq ToSet(t0) \cup S
  <2>1. ToSet(t1) \subseteq ToSet(t0) \cup S
    BY <1>4 DEF Builds
  <2>2. ToSet(t2) \subseteq ToSet(t1) \cup S
    BY <1>4 DEF Builds
  <2>3. QED  BY <2>1, <2>2
<1>5. QED  BY <1>1, <1>2, <1>3, <1>4 DEF Builds

(* How many objects are not in a table *)
Remaining(heap, table) == Cardinality(DOMAIN heap \ ToSet(table))

(* A table holds types of the heap. *)
LEMMA TableMembers ==
  ASSUME NEW heap, NEW table, IsTable(heap, table)
  PROVE  ToSet(table) \subseteq DOMAIN heap
BY DEF IsTable, ToSet

(* Every type the table takes in leaves fewer to go down into. *)
LEMMA RemainingFalls ==
  ASSUME NEW heap, IsHeap(heap), NEW table, NEW result, ToSet(table) \subseteq ToSet(result)
  PROVE  /\ Remaining(heap, table) \in Nat /\ Remaining(heap, result) \in Nat
         /\ Remaining(heap, result) <= Remaining(heap, table)
         /\ Remaining(heap, table) < MaxDepth
         /\ \A o \in DOMAIN heap : o \in ToSet(result) \ ToSet(table)
              => Remaining(heap, result) < Remaining(heap, table)
<1> DEFINE S == DOMAIN heap \ ToSet(table)
           U == DOMAIN heap \ ToSet(result)
<1>1. IsFiniteSet(DOMAIN heap) /\ Cardinality(DOMAIN heap) < MaxDepth /\ MaxDepth \in Nat
  BY DepthAssumption DEF IsHeap
<1>2. S \in SUBSET DOMAIN heap /\ U \in SUBSET S /\ \A o \in DOMAIN heap : o \in ToSet(result) \ ToSet(table) => U # S
  OBVIOUS
<1> HIDE DEF S, U
<1>3. IsFiniteSet(S) /\ Cardinality(S) <= Cardinality(DOMAIN heap)
  BY <1>1, <1>2, FS_Subset
<1>4. IsFiniteSet(U) /\ Cardinality(U) <= Cardinality(S) /\ (Cardinality(S) = Cardinality(U) => S = U)
  BY <1>2, <1>3, FS_Subset
<1>5. Cardinality(S) \in Nat /\ Cardinality(U) \in Nat /\ Cardinality(DOMAIN heap) \in Nat
  BY <1>1, <1>3, <1>4, FS_CardinalityType
<1>6. Cardinality(S) < MaxDepth /\ ((U # S) => Cardinality(U) < Cardinality(S))
  BY <1>1, <1>3, <1>4, <1>5
<1>7. QED  BY <1>2, <1>4, <1>5, <1>6 DEF Remaining, S, U

(* below puts any type into a table that less than d objects are missing in. *)
Visits(heap, below, d) ==
  \A t \in Refs(heap) : \A table :
    IsTable(heap, table) /\ Remaining(heap, table) < d => Builds(heap, {t}, table, below[t][table])

(* Then it puts any sequence of types into it. *)
LEMMA VisitedAll ==
  ASSUME NEW heap, IsHeap(heap), NEW below, NEW d \in Nat, Visits(heap, below, d),
         NEW ts \in Seq(Refs(heap)), NEW table, IsTable(heap, table), Remaining(heap, table) < d,
         NEW f, f[0] = table, \A k \in 1 .. Len(ts) : f[k] = Visited(below, ts, k, f[k - 1])
  PROVE  Builds(heap, ToSet(ts), table, f[Len(ts)])
<1> DEFINE A(k) == {ts[i] : i \in 1 .. k}
           T == {k \in 0 .. Len(ts) : Builds(heap, A(k), table, f[k])}
<1>1. Len(ts) \in Nat /\ DOMAIN ts = 1 .. Len(ts)
  OBVIOUS
<1>2. 0 \in T
  <2>1. A(0) = {}
    OBVIOUS
  <2>2. Builds(heap, {}, table, f[0])
    BY TableItself
  <2> HIDE DEF A
  <2>3. Builds(heap, A(0), table, f[0])
    BY <2>1, <2>2, Zenon
  <2>4. QED  BY <1>1, <2>3
<1>3. ASSUME NEW k \in 1 .. Len(ts), k - 1 \in T PROVE k \in T
  <2>1. Builds(heap, A(k - 1), table, f[k - 1]) /\ ts[k] \in Refs(heap)
    BY <1>3, ElementOfSeq
  <2>2. IsTable(heap, f[k - 1]) /\ ToSet(table) \subseteq ToSet(f[k - 1])
    BY <2>1 DEF Builds
  <2>3. Remaining(heap, f[k - 1]) < d
    <3>1. /\ Remaining(heap, table) \in Nat /\ Remaining(heap, f[k - 1]) \in Nat
          /\ Remaining(heap, f[k - 1]) <= Remaining(heap, table)
      BY <2>2, RemainingFalls
    <3>2. QED  BY <3>1
  <2>4. f[k] = below[ts[k]][f[k - 1]]
    BY DEF Visited
  <2>5. Builds(heap, {ts[k]}, f[k - 1], f[k])
    BY <2>1, <2>2, <2>3, <2>4, Zenon DEF Visits
  <2>6. Builds(heap, A(k - 1) \cup {ts[k]}, table, f[k])
    BY <2>1, <2>5, BuildsMore
  <2>7. A(k - 1) \cup {ts[k]} = A(k)
    <3>1. \A i : i \in 1 .. k <=> i \in 1 .. k - 1 \/ i = k
      BY <1>1
    <3>2. QED  BY <3>1, Zenon
  <2> HIDE DEF A
  <2>8. Builds(heap, A(k), table, f[k])
    BY <2>6, <2>7, Zenon
  <2>9. QED  BY <1>1, <2>8
<1> HIDE DEF T
<1>4. \A k \in 0 .. Len(ts) : k \in T
  BY <1>1, <1>2, <1>3, BoundedInduction, Zenon
<1>5. Len(ts) \in T
  BY <1>1, <1>4
<1>6. A(Len(ts)) = ToSet(ts)
  BY <1>1 DEF ToSet
<1> HIDE DEF A
<1>7. QED  BY <1>5, <1>6 DEF T

(* A new object reserves its index. *)
LEMMA IndexReserved ==
  ASSUME NEW heap, NEW table, IsTable(heap, table),
         NEW obj \in DOMAIN heap, heap[obj].con # "rec", obj \notin ToSet(table)
  PROVE  IsTable(heap, First(table, obj)) /\ ToSet(First(table, obj)) = ToSet(table) \cup {obj}
<1> DEFINE n == Len(table)
           new == First(table, obj)
<1>1. table \in Seq(DOMAIN heap) /\ n \in Nat /\ DOMAIN table = 1 .. n
  BY DEF IsTable
<1>2. new \in Seq(DOMAIN heap) /\ Len(new) = n + 1 /\ DOMAIN new = 1 .. n + 1
  BY <1>1 DEF First
<1>3. new[n + 1] = obj /\ \A i \in 1 .. n : new[i] = table[i]
  BY <1>1 DEF First
<1> HIDE DEF new, n
<1>4. ToSet(new) = ToSet(table) \cup {obj}
  <2>1. \A i : i \in 1 .. n + 1 <=> i \in 1 .. n \/ i = n + 1
    BY <1>1
  <2>2. QED  BY <1>1, <1>2, <1>3, <2>1 DEF ToSet
<1>5. ASSUME NEW i \in DOMAIN new, NEW j \in DOMAIN new, new[i] = new[j] PROVE i = j
  <2>1. (i \in 1 .. n \/ i = n + 1) /\ (j \in 1 .. n \/ j = n + 1)
    BY <1>1, <1>2
  <2>2. \A k \in 1 .. n : table[k] # obj
    BY <1>1 DEF ToSet
  <2>3. CASE i \in 1 .. n /\ j \in 1 .. n
    BY <1>1, <1>3, <1>5, <2>3 DEF IsTable
  <2>4. CASE i = n + 1 /\ j \in 1 .. n
    BY <1>3, <1>5, <2>2, <2>4
  <2>5. CASE i \in 1 .. n /\ j = n + 1
    BY <1>3, <1>5, <2>2, <2>5
  <2>6. QED  BY <2>1, <2>3, <2>4, <2>5
<1>6. ASSUME NEW o \in ToSet(new) PROVE heap[o].con # "rec"
  BY <1>4 DEF IsTable
<1>7. QED  BY <1>2, <1>4, <1>5, <1>6 DEF IsTable, new

(* buildTypeTable puts a type into the table, on every level that is left *)
(* for the objects that are not in it.                                    *)
LEMMA BuilderVisits ==
  ASSUME NEW heap, IsHeap(heap)
  PROVE  \A d \in 0 .. MaxDepth : Visits(heap, Builder(heap)[d], d)
<1> DEFINE T == {d \in 0 .. MaxDepth : Visits(heap, Builder(heap)[d], d)}
<1>1. MaxDepth \in Nat /\ DOMAIN heap \subseteq Nat
  BY DepthAssumption DEF IsHeap
<1>2. 0 \in T
  <2>1. Visits(heap, Builder(heap)[0], 0)
    <3>1. ASSUME NEW table PROVE ~ (Remaining(heap, table) < 0)
      BY RemainingFalls
    <3>2. QED  BY <3>1 DEF Visits
  <2>2. QED  BY <1>1, <2>1
<1>3. ASSUME NEW d \in 1 .. MaxDepth, d - 1 \in T PROVE d \in T
  <2> DEFINE below == Builder(heap)[d - 1]
  <2>1. Visits(heap, below, d - 1) /\ d - 1 \in Nat
    BY <1>3
  <2>2. ASSUME NEW t \in Refs(heap), NEW table, IsTable(heap, table), Remaining(heap, table) < d
        PROVE  Builds(heap, {t}, table, BuildType(heap, below, t, table))
    <3> DEFINE obj == GetType(heap, t)
               r == BuildType(heap, below, t, table)
               parts == Parts(heap[obj])
    <3>1. IsType(heap, obj) /\ obj \in Int /\ (obj \in DOMAIN heap <=> obj >= 0)
      BY <1>1, GetTypeType, RefNumbers DEF IsType
    <3>2. CASE obj < 0 \/ Has(table, obj)
      <4>1. r = table
        BY <3>2 DEF BuildType
      <4>2. Within(heap, t, ToSet(table))
        BY <3>1, <3>2 DEF Within, Has
      <4>3. Builds(heap, {t}, table, table)
        BY <2>2, <4>2 DEF Builds
      <4>4. QED  BY <4>1, <4>3
    <3>3. CASE ~ (obj < 0 \/ Has(table, obj))
      <4>1. obj \in DOMAIN heap /\ heap[obj].con # "rec" /\ obj \notin ToSet(table)
        BY <3>1, <3>3 DEF IsType, Has
      <4>2. r = BuildParts(below, obj, parts, table)
        BY <3>3 DEF BuildType
      <4>3. parts \in Seq(Refs(heap)) /\ Len(parts) \in Nat
        BY <4>1, PartsRefs, LenProperties
      <4> HIDE DEF parts, obj, r, below
      <4>4. PICK f : /\ f[0] = First(table, obj)
                     /\ \A k \in 1 .. Len(parts) : f[k] = Visited(below, parts, k, f[k - 1])
                     /\ BuildParts(below, obj, parts, table) = f[Len(parts)]
        BY <4>3, BuildPartsRuns
      <4> DEFINE start == First(table, obj)
      <4>5. IsTable(heap, start) /\ ToSet(start) = ToSet(table) \cup {obj}
        BY <2>2, <4>1, IndexReserved
      <4> HIDE DEF start
      <4>6. Remaining(heap, start) < d - 1
        <5>1. ToSet(table) \subseteq ToSet(start) /\ obj \in ToSet(start) \ ToSet(table)
          BY <4>1, <4>5
        <5>2. /\ Remaining(heap, table) \in Nat /\ Remaining(heap, start) \in Nat
              /\ Remaining(heap, start) < Remaining(heap, table)
          BY <4>1, <5>1, RemainingFalls
        <5>3. QED  BY <2>2, <5>2
      <4>7. Builds(heap, ToSet(parts), start, f[Len(parts)])
        BY <2>1, <4>3, <4>4, <4>5, <4>6, VisitedAll DEF start
      <4>8. Builds(heap, ToSet(parts), start, r)
        BY <4>2, <4>4, <4>7
      <4>9. DOMAIN parts = 1 .. Len(parts)
        BY <4>3
      <4>10. \A S : AllWithin(heap, parts, S) <=> \A p \in ToSet(parts) : Within(heap, p, S)
        BY DEF AllWithin, ToSet
      <4>11. IsTable(heap, r) /\ ToSet(start) \subseteq ToSet(r)
        BY <4>8 DEF Builds
      <4>12. Within(heap, t, ToSet(r))
        BY <4>5, <4>11 DEF Within, obj
      <4>13. ASSUME NEW o \in ToSet(r) \ ToSet(table) PROVE AllWithin(heap, Parts(heap[o]), ToSet(r))
        <5>1. CASE o = obj
          <6>1. AllWithin(heap, parts, ToSet(r))
            BY <4>8, <4>10 DEF Builds
          <6>2. QED  BY <5>1, <6>1 DEF parts
        <5>2. CASE o # obj
          BY <4>5, <4>8, <4>13, <5>2 DEF Builds
        <5>3. QED  BY <5>1, <5>2
      <4>14. ASSUME NEW S \in SUBSET DOMAIN heap, Within(heap, t, S), Closed(heap, S)
             PROVE  ToSet(r) \subseteq ToSet(table) \cup S
        <5>1. obj \in S
          BY <1>1, <4>1, <4>14 DEF Within, obj
        <5>2. AllWithin(heap, parts, S)
          BY <4>14, <5>1 DEF Closed, parts
        <5>3. ToSet(r) \subseteq ToSet(start) \cup S
          BY <4>8, <4>10, <4>14, <5>2 DEF Builds
        <5>4. QED  BY <4>5, <5>1, <5>3
      <4>15. QED  BY <4>5, <4>11, <4>12, <4>13, <4>14 DEF Builds, r
    <3>4. QED  BY <3>2, <3>3
  <2>3. ASSUME NEW t \in Refs(heap), NEW table, IsTable(heap, table), Remaining(heap, table) < d
        PROVE  Builds(heap, {t}, table, Builder(heap)[d][t][table])
    <3>1. t \in Int /\ table \in Seq(Nat)
      <4>1. table \in Seq(DOMAIN heap)
        BY <2>3 DEF IsTable
      <4>2. QED  BY <1>1, <4>1, RefNumbers
    <3>2. Builder(heap)[d][t][table] = BuildType(heap, Builder(heap)[d - 1], t, table)
      BY <3>1, BuilderLevels, Zenon
    <3>3. QED  BY <2>2, <2>3, <3>2
  <2>4. Visits(heap, Builder(heap)[d], d)
    BY <2>3, Zenon DEF Visits
  <2>5. QED  BY <1>1, <2>4
<1> HIDE DEF T
<1>4. \A d \in 0 .. MaxDepth : d \in T
  BY <1>1, <1>2, <1>3, BoundedInduction
<1>5. QED  BY <1>4 DEF T

(* The table of some types lists them and what they are made of. *)
THEOREM TableBuilt ==
  ASSUME NEW heap, IsHeap(heap), NEW types \in Seq(Refs(heap))
  PROVE  /\ IsTable(heap, BuildTable(heap, types))
         /\ AllWithin(heap, types, ToSet(BuildTable(heap, types)))
         /\ Closed(heap, ToSet(BuildTable(heap, types)))
         /\ ToSet(BuildTable(heap, types)) = Reached(heap, types)
         /\ Len(BuildTable(heap, types)) = Cardinality(Reached(heap, types))
<1> DEFINE table == BuildTable(heap, types)
           below == Builder(heap)[MaxDepth]
<1>1. Len(types) \in Nat /\ MaxDepth \in Nat
  BY DepthAssumption
<1>2. PICK f : /\ f[0] = << >>
               /\ \A k \in 1 .. Len(types) : f[k] = Visited(below, types, k, f[k - 1])
               /\ table = f[Len(types)]
  BY <1>1, BuildTableRuns
<1>3. Visits(heap, below, MaxDepth)
  BY <1>1, BuilderVisits
<1>4. IsTable(heap, << >>) /\ ToSet(<< >>) = {}
  BY DEF IsTable, ToSet
<1>5. Remaining(heap, << >>) < MaxDepth
  BY RemainingFalls
<1> HIDE DEF below, table
<1>6. Builds(heap, ToSet(types), << >>, table)
  BY <1>1, <1>2, <1>3, <1>4, <1>5, VisitedAll
<1>7. IsTable(heap, table)
  BY <1>6 DEF Builds
<1>8. DOMAIN types = 1 .. Len(types)
  OBVIOUS
<1>9. \A S : AllWithin(heap, types, S) <=> \A t \in ToSet(types) : Within(heap, t, S)
  BY DEF AllWithin, ToSet
<1>10. AllWithin(heap, types, ToSet(table))
  BY <1>6, <1>9 DEF Builds
<1>11. Closed(heap, ToSet(table))
  BY <1>4, <1>6 DEF Builds, Closed
<1>12. ToSet(table) = Reached(heap, types)
  <2>1. ToSet(table) \in SUBSET DOMAIN heap
    BY <1>7, TableMembers
  <2>2. Reached(heap, types) \subseteq ToSet(table)
    BY <1>10, <1>11, <2>1 DEF Reached, Closed
  <2>3. ASSUME NEW o \in ToSet(table), NEW S \in SUBSET DOMAIN heap, AllWithin(heap, types, S), Closed(heap, S)
        PROVE  o \in S
    BY <1>4, <1>6, <1>9, <2>3 DEF Builds
  <2>4. ToSet(table) \subseteq Reached(heap, types)
    BY <2>1, <2>3 DEF Reached, Closed
  <2>5. QED  BY <2>2, <2>4, Zenon
<1>13. Len(table) = Cardinality(ToSet(table))
  <2> DEFINE n == Len(table)
             S == ToSet(table)
  <2>1. n \in Nat /\ DOMAIN table = 1 .. n
    BY <1>7 DEF IsTable
  <2>2. table \in [1 .. n -> S] /\ \A s \in S : \E i \in 1 .. n : table[i] = s
    BY <1>7, <2>1 DEF ToSet, IsTable
  <2>3. \A i, j \in 1 .. n : table[i] = table[j] => i = j
    BY <1>7, <2>1 DEF IsTable
  <2> HIDE DEF n, S
  <2>4. table \in Bijection(1 .. n, S)
    BY <2>2, <2>3, Fun_IsBij, Zenon
  <2>5. ExistsBijection(1 .. n, S)
    BY <2>4, Fun_ExistsBij
  <2>6. Cardinality(S) = n
    BY <2>1, <2>5, FS_CountingElements
  <2>7. QED  BY <2>6 DEF n, S
<1>14. QED  BY <1>7, <1>10, <1>11, <1>12, <1>13 DEF table

---------------------------------------------------------------------------

(* What the table is written as *)

(* The types that a node is made of are within S. *)
NodeWithin(heap, node, S) ==
  /\ node.con \in {"opt", "vec"} => Within(heap, node.arg, S)
  /\ node.con = "func" => AllWithin(heap, node.args, S) /\ AllWithin(heap, node.rets, S)
  /\ HasFields(node) => \A h \in DOMAIN node.fields : Within(heap, node.fields[h], S)

(* A node is within the table once its parts are. *)
LEMMA PartsWithin ==
  ASSUME NEW heap, IsHeap(heap), NEW o \in DOMAIN heap, NEW S, AllWithin(heap, Parts(heap[o]), S)
  PROVE  NodeWithin(heap, heap[o], S)
<1> DEFINE node == heap[o]
<1>1. ASSUME node.con \in {"opt", "vec"} PROVE Within(heap, node.arg, S)
  <2>1. Parts(node) = <<node.arg>>
    BY <1>1, Zenon DEF Parts, HasFields
  <2>2. Within(heap, Parts(node)[1], S)
    BY <2>1 DEF AllWithin
  <2>3. QED  BY <2>1, <2>2
<1>2. ASSUME node.con = "func" PROVE AllWithin(heap, node.args, S) /\ AllWithin(heap, node.rets, S)
  <2> DEFINE p == node.args
             q == node.rets
  <2>1. Parts(node) = p \o q
    BY <1>2, Zenon DEF Parts, HasFields
  <2>2. p \in Seq(Refs(heap)) /\ q \in Seq(Refs(heap))
    BY <1>2, NodeShapes
  <2>3. AllWithin(heap, p \o q, S)
    BY <2>1
  <2> HIDE DEF p, q, node
  <2>4. Len(p) \in Nat /\ Len(q) \in Nat /\ DOMAIN p = 1 .. Len(p) /\ DOMAIN q = 1 .. Len(q)
    BY <2>2
  <2>5. p \o q \in Seq(Refs(heap)) /\ Len(p \o q) = Len(p) + Len(q)
    BY <2>2, ConcatProperties
  <2>6. DOMAIN (p \o q) = 1 .. Len(p) + Len(q)
    BY <2>5
  <2>7. ASSUME NEW i \in 1 .. Len(p) PROVE Within(heap, p[i], S)
    <3>1. i \in 1 .. Len(p) + Len(q) /\ i <= Len(p)
      BY <2>4
    <3>2. (p \o q)[i] = p[i]
      BY <2>2, <2>5, <3>1, ConcatProperties
    <3>3. Within(heap, (p \o q)[i], S)
      BY <2>3, <2>6, <3>1 DEF AllWithin
    <3>4. QED  BY <3>2, <3>3
  <2>8. ASSUME NEW i \in 1 .. Len(q) PROVE Within(heap, q[i], S)
    <3>1. Len(p) + i \in 1 .. Len(p) + Len(q) /\ ~ (Len(p) + i <= Len(p)) /\ Len(p) + i - Len(p) = i
      BY <2>4
    <3>2. (p \o q)[Len(p) + i] = q[Len(p) + i - Len(p)]
      BY <2>2, <2>5, <3>1, ConcatProperties
    <3>3. Within(heap, (p \o q)[Len(p) + i], S)
      BY <2>3, <2>6, <3>1 DEF AllWithin
    <3>4. QED  BY <3>1, <3>2, <3>3
  <2>9. QED  BY <2>4, <2>7, <2>8 DEF AllWithin, p, q
<1>3. ASSUME HasFields(node), NEW h \in DOMAIN node.fields PROVE Within(heap, node.fields[h], S)
  <2> DEFINE s == SortedHashes(node)
  <2>1. Sorted(DOMAIN node.fields, s)
    BY <1>3, NodeShapes
  <2>2. Parts(node) = [i \in DOMAIN s |-> node.fields[s[i]]]
    BY <1>3 DEF Parts
  <2> HIDE DEF s
  <2>3. PICK i \in 1 .. Len(s) : s[i] = h
    BY <2>1 DEF Sorted
  <2>4. i \in DOMAIN s
    BY <2>1 DEF Sorted
  <2>5. Within(heap, Parts(node)[i], S)
    BY <2>2, <2>4 DEF AllWithin
  <2>6. QED  BY <2>2, <2>3, <2>4, <2>5
<1>4. QED  BY <1>1, <1>2, <1>3 DEF NodeWithin

(* How a type within the table is referred to *)
LEMMA WireRefIs ==
  ASSUME NEW heap, IsHeap(heap), NEW table, IsTable(heap, table),
         NEW t \in Refs(heap), Within(heap, t, ToSet(table))
  PROVE  /\ WireRef(heap, table, t) \in Int
         /\ IsType(heap, GetType(heap, t))
         /\ GetType(heap, t) < 0 => WireRef(heap, table, t) = GetType(heap, t)
         /\ GetType(heap, t) >= 0 =>
              /\ WireRef(heap, table, t) \in 0 .. Len(table) - 1
              /\ table[WireRef(heap, table, t) + 1] = GetType(heap, t)
<1> DEFINE obj == GetType(heap, t)
           w == WireRef(heap, table, t)
<1>1. IsType(heap, obj) /\ obj \in Int
  <2>1. IsType(heap, obj)
    BY GetTypeType
  <2>2. DOMAIN heap \subseteq Nat /\ obj \in Refs(heap)
    BY <2>1 DEF IsHeap, IsType
  <2>3. QED  BY <2>1, <2>2, RefNumbers
<1>2. CASE obj < 0
  <2>1. w = obj
    BY <1>2 DEF WireRef
  <2>2. ~ (obj >= 0)
    BY <1>1, <1>2
  <2>3. QED  BY <1>1, <2>1, <2>2
<1>3. CASE ~ (obj < 0)
  <2>1. obj >= 0 /\ obj \in ToSet(table)
    BY <1>1, <1>3 DEF Within
  <2> HIDE DEF obj
  <2>2. w = (CHOOSE i \in DOMAIN table : table[i] = obj) - 1
    BY <1>3 DEF WireRef, IndexOf, obj
  <2> DEFINE i == CHOOSE i \in DOMAIN table : table[i] = obj
  <2>3. \E j \in DOMAIN table : table[j] = obj
    BY <2>1 DEF ToSet
  <2>4. i \in DOMAIN table /\ table[i] = obj
    BY <2>3
  <2> HIDE DEF i
  <2>5. DOMAIN table = 1 .. Len(table) /\ Len(table) \in Nat
    BY DEF IsTable
  <2>6. i \in 1 .. Len(table) /\ w = i - 1
    BY <2>2, <2>4, <2>5 DEF i
  <2> HIDE DEF w
  <2>7. w \in 0 .. Len(table) - 1 /\ w + 1 = i
    BY <2>5, <2>6
  <2>8. QED  BY <1>1, <1>3, <2>4, <2>7 DEF obj, w
<1>4. QED  BY <1>2, <1>3

(* What is encoded one behind the other *)
LEMMA Pieces ==
  ASSUME NEW n \in Nat, NEW c, c = [i \in 1 .. n |-> c[i]], \A i \in 1 .. n : c[i] \in Seq(Bytes)
  PROVE  c \in Seq(Seq(Bytes)) /\ Len(c) = n
<1>1. c \in [1 .. n -> Seq(Bytes)]
  OBVIOUS
<1>2. QED  BY <1>1

(* What encodeType writes for a type within the table are bytes. *)
LEMMA EncodeTypeBytes ==
  ASSUME NEW heap, IsHeap(heap), NEW table, IsTable(heap, table),
         NEW t \in Refs(heap), Within(heap, t, ToSet(table))
  PROVE  EncodeType(heap, table, t) \in Seq(Bytes)
<1>1. WireRef(heap, table, t) \in Int
  BY WireRefIs
<1>2. QED  BY <1>1, EncodeIBytes DEF EncodeType

(* The pieces of a list of types *)
TypePieces(heap, table, ts) == [i \in DOMAIN ts |-> EncodeType(heap, table, ts[i])]

(* The same of a list of types, with its length in front *)
LEMMA TypePiecesBytes ==
  ASSUME NEW heap, IsHeap(heap), NEW table, IsTable(heap, table),
         NEW ts \in Seq(Refs(heap)), AllWithin(heap, ts, ToSet(table))
  PROVE  /\ TypePieces(heap, table, ts) \in Seq(Seq(Bytes))
         /\ Len(TypePieces(heap, table, ts)) = Len(ts)
         /\ FlattenSeq(TypePieces(heap, table, ts)) \in Seq(Bytes)
         /\ EncodeTypes(heap, table, ts) = EncodeU(Len(ts)) \o FlattenSeq(TypePieces(heap, table, ts))
         /\ EncodeTypes(heap, table, ts) \in Seq(Bytes)
<1> DEFINE c == TypePieces(heap, table, ts)
<1>1. Len(ts) \in Nat /\ DOMAIN ts = 1 .. Len(ts)
  OBVIOUS
<1>2. ASSUME NEW i \in 1 .. Len(ts) PROVE EncodeType(heap, table, ts[i]) \in Seq(Bytes)
  <2>1. ts[i] \in Refs(heap) /\ Within(heap, ts[i], ToSet(table))
    BY <1>1, ElementOfSeq DEF AllWithin
  <2>2. QED  BY <2>1, EncodeTypeBytes
<1>3. c = [i \in 1 .. Len(ts) |-> c[i]] /\ \A i \in 1 .. Len(ts) : c[i] \in Seq(Bytes)
  BY <1>1, <1>2 DEF TypePieces
<1> HIDE DEF c
<1>4. c \in Seq(Seq(Bytes)) /\ Len(c) = Len(ts)
  BY <1>1, <1>3, Pieces
<1>5. FlattenSeq(c) \in Seq(Bytes)
  BY <1>4, FlattenBytes
<1>6. EncodeU(Len(ts)) \in Seq(Bytes)
  BY <1>1, EncodeUBytes
<1>7. EncodeTypes(heap, table, ts) = EncodeU(Len(ts)) \o FlattenSeq(c)
  BY DEF EncodeTypes, TypePieces, c
<1>8. EncodeTypes(heap, table, ts) \in Seq(Bytes)
  BY <1>5, <1>6, <1>7, ConcatProperties
<1>9. QED  BY <1>4, <1>5, <1>7, <1>8 DEF c

(* The pieces of a type with fields *)
FieldPieces(heap, table, node) ==
  [i \in DOMAIN SortedHashes(node) |->
     EncodeLabel(node, SortedHashes(node)[i])
       \o EncodeType(heap, table, node.fields[SortedHashes(node)[i]])]

(* A label is written as bytes. *)
LEMMA LabelBytes ==
  ASSUME NEW node, NEW label \in Nat, node.con = "service" => label \in 0 .. 127
  PROVE  EncodeLabel(node, label) \in Seq(Bytes)
<1>1. CASE node.con = "service"
  <2>1. label \in Bytes /\ 1 \in Bytes
    BY <1>1 DEF Bytes
  <2>2. <<1, label>> \in Seq(Bytes)
    BY <2>1
  <2>3. QED  BY <1>1, <2>2 DEF EncodeLabel
<1>2. CASE node.con # "service"
  BY <1>2, EncodeUBytes DEF EncodeLabel
<1>3. QED  BY <1>1, <1>2

(* So is every field, its label and its type. *)
LEMMA FieldPiecesBytes ==
  ASSUME NEW heap, IsHeap(heap), NEW table, IsTable(heap, table),
         NEW o \in DOMAIN heap, HasFields(heap[o]), NodeWithin(heap, heap[o], ToSet(table))
  PROVE  /\ FieldPieces(heap, table, heap[o]) \in Seq(Seq(Bytes))
         /\ Len(FieldPieces(heap, table, heap[o])) = Len(SortedHashes(heap[o]))
         /\ \A i \in 1 .. Len(SortedHashes(heap[o])) :
              /\ FieldPieces(heap, table, heap[o])[i]
                   = EncodeLabel(heap[o], SortedHashes(heap[o])[i])
                       \o EncodeType(heap, table, heap[o].fields[SortedHashes(heap[o])[i]])
              /\ EncodeLabel(heap[o], SortedHashes(heap[o])[i]) \in Seq(Bytes)
              /\ EncodeType(heap, table, heap[o].fields[SortedHashes(heap[o])[i]]) \in Seq(Bytes)
<1> DEFINE node == heap[o]
           s == SortedHashes(node)
           c == FieldPieces(heap, table, node)
           label(i) == EncodeLabel(node, s[i])
           type(i) == EncodeType(heap, table, node.fields[s[i]])
<1>1. /\ DOMAIN node.fields \subseteq Nat
      /\ node.con = "service" => DOMAIN node.fields \subseteq 0 .. 127
      /\ \A h \in DOMAIN node.fields : node.fields[h] \in Refs(heap)
      /\ Sorted(DOMAIN node.fields, s)
  BY NodeShapes, Zenon
<1>2. \A h \in DOMAIN node.fields : Within(heap, node.fields[h], ToSet(table))
  BY DEF NodeWithin
<1>3. c = [i \in DOMAIN s |-> label(i) \o type(i)]
  BY DEF FieldPieces
<1> HIDE DEF node, s, c
<1>4. Len(s) \in Nat /\ DOMAIN s = 1 .. Len(s) /\ \A i \in 1 .. Len(s) : s[i] \in DOMAIN node.fields
  <2>1. s \in Seq(DOMAIN node.fields)
    BY <1>1 DEF Sorted
  <2>2. QED  BY <2>1, ElementOfSeq
<1>5. ASSUME NEW i \in 1 .. Len(s) PROVE label(i) \in Seq(Bytes) /\ type(i) \in Seq(Bytes)
  <2>1. s[i] \in DOMAIN node.fields
    BY <1>4
  <2>2. label(i) \in Seq(Bytes)
    BY <1>1, <2>1, LabelBytes, Zenon
  <2>3. type(i) \in Seq(Bytes)
    BY <1>1, <1>2, <2>1, EncodeTypeBytes
  <2>4. QED  BY <2>2, <2>3
<1> HIDE DEF label, type
<1>6. ASSUME NEW i \in 1 .. Len(s) PROVE c[i] = label(i) \o type(i) /\ c[i] \in Seq(Bytes)
  <2>1. c[i] = label(i) \o type(i)
    BY <1>3, <1>4
  <2>2. QED  BY <1>5, <2>1, ConcatProperties
<1>7. c = [i \in 1 .. Len(s) |-> c[i]]
  BY <1>3, <1>4
<1>8. c \in Seq(Seq(Bytes)) /\ Len(c) = Len(s)
  BY <1>4, <1>6, <1>7, Pieces
<1>9. QED  BY <1>5, <1>6, <1>8, Zenon DEF node, s, c, label, type

(* The opcodes *)
LEMMA Opcodes ==
  /\ \A c \in DOMAIN TypeIds : TypeIds[c] \in Int
  /\ \A c, d \in DOMAIN TypeIds : TypeIds[c] = TypeIds[d] => c = d
  /\ DOMAIN TypeIds = {"null", "nat", "int", "nat8", "text", "reserved", "empty", "opt", "vec",
                       "record", "variant", "func", "service", "principal"}
<1>1. DOMAIN TypeIds = {"null", "nat", "int", "nat8", "text", "reserved", "empty", "opt", "vec",
                        "record", "variant", "func", "service", "principal"}
  BY DEF TypeIds
<1>2. /\ TypeIds["null"] = -1 /\ TypeIds["nat"] = -3 /\ TypeIds["int"] = -4 /\ TypeIds["nat8"] = -5
      /\ TypeIds["text"] = -15 /\ TypeIds["reserved"] = -16 /\ TypeIds["empty"] = -17
      /\ TypeIds["opt"] = -18 /\ TypeIds["vec"] = -19 /\ TypeIds["record"] = -20
      /\ TypeIds["variant"] = -21 /\ TypeIds["func"] = -22 /\ TypeIds["service"] = -23
      /\ TypeIds["principal"] = -24
  BY DEF TypeIds
<1>3. \A c \in DOMAIN TypeIds : TypeIds[c] \in Int
  BY <1>1, <1>2
<1>4. \A c, d \in DOMAIN TypeIds : TypeIds[c] = TypeIds[d] => c = d
  BY <1>1, <1>2
<1>5. QED  BY <1>1, <1>3, <1>4

(* So is a constructor, with all its parts. *)
LEMMA EncodeNodeBytes ==
  ASSUME NEW heap, IsHeap(heap), NEW table, IsTable(heap, table),
         NEW o \in DOMAIN heap, heap[o].con # "rec", NodeWithin(heap, heap[o], ToSet(table))
  PROVE  EncodeNode(heap, table, heap[o]) \in Seq(Bytes)
<1> DEFINE node == heap[o]
           code == EncodeI(TypeIds[node.con])
<1>1. code \in Seq(Bytes)
  <2>1. node.con \in {"opt", "vec", "func", "record", "variant", "service"}
    BY NodeShapes
  <2>2. TypeIds[node.con] \in Int
    BY <2>1, Opcodes
  <2>3. QED  BY <2>2, EncodeIBytes
<1>2. CASE HasFields(node)
  <2> DEFINE n == EncodeU(Len(SortedHashes(node)))
             c == FieldPieces(heap, table, node)
  <2>1. FlattenSeq(c) \in Seq(Bytes)
    BY <1>2, FieldPiecesBytes, FlattenBytes
  <2>2. n \in Seq(Bytes)
    <3>1. Sorted(DOMAIN node.fields, SortedHashes(node))
      BY <1>2, NodeShapes
    <3>2. Len(SortedHashes(node)) \in Nat
      BY <3>1 DEF Sorted
    <3>3. QED  BY <3>2, EncodeUBytes
  <2>3. EncodeNode(heap, table, node) = code \o (n \o FlattenSeq(c))
    BY <1>2, Zenon DEF EncodeNode, FieldPieces
  <2> HIDE DEF n, c, code
  <2>4. n \o FlattenSeq(c) \in Seq(Bytes)
    BY <2>1, <2>2, ConcatProperties
  <2>5. QED  BY <1>1, <2>3, <2>4, ConcatProperties
<1>3. CASE heap[o].con = "func"
  <2> DEFINE p == EncodeTypes(heap, table, node.args)
             q == EncodeTypes(heap, table, node.rets)
  <2>1. p \in Seq(Bytes) /\ q \in Seq(Bytes)
    BY <1>3, NodeShapes, TypePiecesBytes DEF NodeWithin
  <2>2. EncodeNode(heap, table, node) = code \o ((p \o q) \o <<0>>)
    BY <1>3 DEF EncodeNode, HasFields
  <2>3. 0 \in Bytes
    BY DEF Bytes
  <2> HIDE DEF p, q, code
  <2>4. <<0>> \in Seq(Bytes)
    BY <2>3
  <2>5. p \o q \in Seq(Bytes)
    BY <2>1, ConcatProperties
  <2>6. (p \o q) \o <<0>> \in Seq(Bytes)
    BY <2>4, <2>5, ConcatProperties
  <2>7. QED  BY <1>1, <2>2, <2>6, ConcatProperties
<1>4. CASE ~ HasFields(node) /\ heap[o].con # "func"
  <2> DEFINE p == EncodeType(heap, table, node.arg)
  <2>1. node.con \in {"opt", "vec"} /\ node.arg \in Refs(heap)
    BY <1>4, NodeShapes DEF HasFields
  <2>2. p \in Seq(Bytes)
    BY <2>1, EncodeTypeBytes DEF NodeWithin
  <2>3. EncodeNode(heap, table, node) = code \o p
    BY <1>4 DEF EncodeNode
  <2> HIDE DEF p, code
  <2>4. QED  BY <1>1, <2>2, <2>3, ConcatProperties
<1>5. QED  BY <1>2, <1>3, <1>4

(* The pieces of a table *)
NodePieces(heap, table) == [i \in DOMAIN table |-> EncodeNode(heap, table, heap[table[i]])]

(* So is the table, with its length in front. *)
LEMMA NodePiecesBytes ==
  ASSUME NEW heap, IsHeap(heap), NEW table, IsTable(heap, table), Closed(heap, ToSet(table))
  PROVE  /\ NodePieces(heap, table) \in Seq(Seq(Bytes))
         /\ Len(NodePieces(heap, table)) = Len(table)
         /\ \A i \in 1 .. Len(table) :
              /\ table[i] \in DOMAIN heap /\ heap[table[i]].con # "rec"
              /\ NodeWithin(heap, heap[table[i]], ToSet(table))
              /\ NodePieces(heap, table)[i] = EncodeNode(heap, table, heap[table[i]])
         /\ FlattenSeq(NodePieces(heap, table)) \in Seq(Bytes)
         /\ EncodeTable(heap, table) = EncodeU(Len(table)) \o FlattenSeq(NodePieces(heap, table))
         /\ EncodeTable(heap, table) \in Seq(Bytes)
<1> DEFINE c == NodePieces(heap, table)
<1>1. Len(table) \in Nat /\ DOMAIN table = 1 .. Len(table) /\ table \in Seq(DOMAIN heap)
  BY DEF IsTable
<1>2. ASSUME NEW i \in 1 .. Len(table)
      PROVE  /\ table[i] \in DOMAIN heap /\ heap[table[i]].con # "rec"
             /\ NodeWithin(heap, heap[table[i]], ToSet(table))
  <2>1. table[i] \in ToSet(table) /\ table[i] \in DOMAIN heap
    BY <1>1 DEF ToSet
  <2>2. AllWithin(heap, Parts(heap[table[i]]), ToSet(table)) /\ heap[table[i]].con # "rec"
    BY <2>1 DEF Closed, IsTable
  <2>3. QED  BY <2>1, <2>2, PartsWithin
<1>3. ASSUME NEW i \in 1 .. Len(table) PROVE EncodeNode(heap, table, heap[table[i]]) \in Seq(Bytes)
  BY <1>2, EncodeNodeBytes
<1>4. c = [i \in 1 .. Len(table) |-> c[i]] /\ \A i \in 1 .. Len(table) : c[i] = EncodeNode(heap, table, heap[table[i]])
  BY <1>1 DEF NodePieces
<1> HIDE DEF c
<1>5. c \in Seq(Seq(Bytes)) /\ Len(c) = Len(table)
  BY <1>1, <1>3, <1>4, Pieces
<1>6. FlattenSeq(c) \in Seq(Bytes)
  BY <1>5, FlattenBytes
<1>7. EncodeU(Len(table)) \in Seq(Bytes)
  BY <1>1, EncodeUBytes
<1>8. EncodeTable(heap, table) = EncodeU(Len(table)) \o FlattenSeq(c)
  BY DEF EncodeTable, NodePieces, c
<1>9. EncodeTable(heap, table) \in Seq(Bytes)
  BY <1>6, <1>7, <1>8, ConcatProperties
<1>10. QED  BY <1>2, <1>4, <1>5, <1>6, <1>8, <1>9 DEF c
===========================================================================
