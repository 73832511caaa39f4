--------------------------- MODULE CandidProofs ---------------------------
(*************************************************************************)
(* Proofs about Candid, for any values, heaps of types, messages and     *)
(* receivers: the state has its type (TypeCorrect), the table on the wire*)
(* has every type once (TableMinimal), a receiver of compatible types    *)
(* gets what was sent (CompatibleRead) and one of other types does not   *)
(* get something else (IncompatibleRefused).                             *)
(*                                                                       *)
(* What is on the wire is what encode makes of the message, and what was *)
(* read is what decode makes of the wire (Sent, Exchanged).  The rest is *)
(* about these two functions.  decode reads the table that encode wrote  *)
(* (TableRead); the heap it reads is a Mirror of the sender's. Outcome   *)
(* says what reading a value comes to: one of the values it can be read  *)
(* as, right up to the end of its bytes, or an error if there is none.   *)
(* It is proved of a type from what holds of its parts (TypeOutcome),    *)
(* then level by level (DecoderReads) and argument by argument           *)
(* (ArgsOutcome).                                                        *)
(*************************************************************************)
EXTENDS Candid, CandidTypesProofs

(* One value more is read. *)
Listed(below, own, l, w, read) == Added(read, below[own][l][w][read.at])

(* One level of it, from the one below *)
FittingLevel(heap, x, d) ==
  [t \in Int |-> [v \in Values |-> IF d = 0 THEN FALSE ELSE FitsParts(heap, x, t, v)]]

(* Fits is what its recursive definition says. *)
LEMMA FittingLevels ==
  ASSUME NEW heap
  PROVE  \A t \in Int, v \in Values :
           /\ Fitting(heap)[0][t][v] = FALSE
           /\ \A d \in 1 .. MaxDepth : Fitting(heap)[d][t][v] = FitsParts(heap, Fitting(heap)[d - 1], t, v)
<1> DEFINE n == MaxDepth
           Good(m, f) == f = [d \in 0 .. m |-> FittingLevel(heap, f[d - 1], d)]
           T == {m \in 0 .. n : \E f : Good(m, f)}
           fn == CHOOSE f : Good(n, f)
<1>1. n \in Nat
  BY DepthAssumption
<1>2. Fitting(heap) = fn
  BY DEF Fitting, FittingLevel
<1> HIDE DEF n, fn
<1>3. \A x, y : FittingLevel(heap, x, 0) = FittingLevel(heap, y, 0)
  BY DEF FittingLevel
<1>4. 0 \in T
  <2> DEFINE g == [d \in 0 .. 0 |-> FittingLevel(heap, 0, d)]
  <2>1. ASSUME NEW d \in 0 .. 0 PROVE g[d] = FittingLevel(heap, g[d - 1], d)
    BY <1>3
  <2>2. Good(0, g)
    BY <2>1, Zenon
  <2> HIDE DEF Good, g
  <2>3. QED  BY <1>1, <2>2
<1>5. ASSUME NEW m \in 1 .. n, m - 1 \in T PROVE m \in T
  <2>1. PICK f : Good(m - 1, f)
    BY <1>5
  <2> DEFINE g == [d \in 0 .. m |-> IF d = m THEN FittingLevel(heap, f[m - 1], m) ELSE f[d]]
  <2>2. ASSUME NEW d \in 0 .. m PROVE g[d] = FittingLevel(heap, g[d - 1], d)
    BY <1>1, <1>3, <2>1
  <2>3. Good(m, g)
    BY <2>2, Zenon
  <2> HIDE DEF Good, g
  <2>4. QED  BY <1>1, <2>3
<1> HIDE DEF T
<1>6. n \in T
  <2>1. \A k \in 0 .. n : k \in T
    BY <1>1, <1>4, <1>5, BoundedInduction
  <2>2. QED  BY <1>1, <2>1
<1>7. Good(n, fn)
  <2>1. \E f : Good(n, f)
    BY <1>6 DEF T
  <2> HIDE DEF Good
  <2>2. QED  BY <2>1 DEF fn
<1>8. \A d \in 0 .. n : fn[d] = FittingLevel(heap, fn[d - 1], d)
  BY <1>1, <1>7
<1> HIDE DEF Good
<1>9. ASSUME NEW t \in Int, NEW v \in Values PROVE fn[0][t][v] = FALSE
  <2>1. fn[0] = FittingLevel(heap, fn[0 - 1], 0)
    BY <1>1, <1>8
  <2>2. QED  BY <2>1 DEF FittingLevel
<1>10. ASSUME NEW t \in Int, NEW v \in Values, NEW d \in 1 .. n
       PROVE  fn[d][t][v] = FitsParts(heap, fn[d - 1], t, v)
  <2>1. fn[d] = FittingLevel(heap, fn[d - 1], d) /\ d # 0
    BY <1>1, <1>8
  <2>2. QED  BY <2>1 DEF FittingLevel
<1>11. QED  BY <1>2, <1>9, <1>10, Zenon DEF n

(* One level of it, from the one below *)
EncoderLevel(heap, x, d) ==
  [t \in Int |-> [v \in Values |-> IF d = 0 THEN << >> ELSE EncodeParts(heap, x, t, v)]]

(* encodeValue is what its recursive definition says. *)
LEMMA EncoderLevels ==
  ASSUME NEW heap
  PROVE  \A t \in Int, v \in Values :
           /\ Encoder(heap)[0][t][v] = << >>
           /\ \A d \in 1 .. MaxDepth : Encoder(heap)[d][t][v] = EncodeParts(heap, Encoder(heap)[d - 1], t, v)
<1> DEFINE n == MaxDepth
           Good(m, f) == f = [d \in 0 .. m |-> EncoderLevel(heap, f[d - 1], d)]
           T == {m \in 0 .. n : \E f : Good(m, f)}
           fn == CHOOSE f : Good(n, f)
<1>1. n \in Nat
  BY DepthAssumption
<1>2. Encoder(heap) = fn
  BY DEF Encoder, EncoderLevel
<1> HIDE DEF n, fn
<1>3. \A x, y : EncoderLevel(heap, x, 0) = EncoderLevel(heap, y, 0)
  BY DEF EncoderLevel
<1>4. 0 \in T
  <2> DEFINE g == [d \in 0 .. 0 |-> EncoderLevel(heap, 0, d)]
  <2>1. ASSUME NEW d \in 0 .. 0 PROVE g[d] = EncoderLevel(heap, g[d - 1], d)
    BY <1>3
  <2>2. Good(0, g)
    BY <2>1, Zenon
  <2> HIDE DEF Good, g
  <2>3. QED  BY <1>1, <2>2
<1>5. ASSUME NEW m \in 1 .. n, m - 1 \in T PROVE m \in T
  <2>1. PICK f : Good(m - 1, f)
    BY <1>5
  <2> DEFINE g == [d \in 0 .. m |-> IF d = m THEN EncoderLevel(heap, f[m - 1], m) ELSE f[d]]
  <2>2. ASSUME NEW d \in 0 .. m PROVE g[d] = EncoderLevel(heap, g[d - 1], d)
    BY <1>1, <1>3, <2>1
  <2>3. Good(m, g)
    BY <2>2, Zenon
  <2> HIDE DEF Good, g
  <2>4. QED  BY <1>1, <2>3
<1> HIDE DEF T
<1>6. n \in T
  <2>1. \A k \in 0 .. n : k \in T
    BY <1>1, <1>4, <1>5, BoundedInduction
  <2>2. QED  BY <1>1, <2>1
<1>7. Good(n, fn)
  <2>1. \E f : Good(n, f)
    BY <1>6 DEF T
  <2> HIDE DEF Good
  <2>2. QED  BY <2>1 DEF fn
<1>8. \A d \in 0 .. n : fn[d] = EncoderLevel(heap, fn[d - 1], d)
  BY <1>1, <1>7
<1> HIDE DEF Good
<1>9. ASSUME NEW t \in Int, NEW v \in Values PROVE fn[0][t][v] = << >>
  <2>1. fn[0] = EncoderLevel(heap, fn[0 - 1], 0)
    BY <1>1, <1>8
  <2>2. QED  BY <2>1 DEF EncoderLevel
<1>10. ASSUME NEW t \in Int, NEW v \in Values, NEW d \in 1 .. n
       PROVE  fn[d][t][v] = EncodeParts(heap, fn[d - 1], t, v)
  <2>1. fn[d] = EncoderLevel(heap, fn[d - 1], d) /\ d # 0
    BY <1>1, <1>8
  <2>2. QED  BY <2>1 DEF EncoderLevel
<1>11. QED  BY <1>2, <1>9, <1>10 DEF n

(* The states f of the loop that reads the elements of a list *)
DecodesList(below, own, l, w, at, count, f) ==
  /\ f[0] = Got(<< >>, at)
  /\ \A d \in 1 .. count : f[d] = Listed(below, own, l, w, f[d - 1])
  /\ DecodeList(below, own, l, w, at, count) = f[count]

(* Values are read one after the other. *)
LEMMA DecodeListRuns ==
  ASSUME NEW below, NEW own, NEW l, NEW w, NEW at, NEW count \in Nat
  PROVE  \E f : DecodesList(below, own, l, w, at, count, f)
<1> DEFINE n == count
           Good(m, f) == f = [d \in 0 .. m |-> IF d = 0 THEN Got(<< >>, at) ELSE Listed(below, own, l, w, f[d - 1])]
           T == {m \in 0 .. n : \E f : Good(m, f)}
           fn == CHOOSE f : Good(n, f)
<1>1. n \in Nat
  OBVIOUS
<1>2. DecodeList(below, own, l, w, at, count) = fn[n]
  BY DEF DecodeList, Listed
<1> HIDE DEF n, fn
<1>3. 0 \in T
  <2>1. Good(0, [d \in 0 .. 0 |-> Got(<< >>, at)])
    OBVIOUS
  <2> HIDE DEF Good
  <2>2. QED  BY <1>1, <2>1
<1>4. ASSUME NEW m \in 1 .. n, m - 1 \in T PROVE m \in T
  <2>1. PICK f : Good(m - 1, f)
    BY <1>4
  <2> DEFINE g == [d \in 0 .. m |-> IF d = m THEN Listed(below, own, l, w, f[m - 1]) ELSE f[d]]
  <2>2. ASSUME NEW d \in 0 .. m PROVE g[d] = IF d = 0 THEN Got(<< >>, at) ELSE Listed(below, own, l, w, g[d - 1])
    BY <1>1, <2>1
  <2>3. Good(m, g)
    BY <2>2, Zenon
  <2> HIDE DEF Good, g
  <2>4. QED  BY <1>1, <2>3
<1> HIDE DEF T
<1>5. n \in T
  <2>1. \A k \in 0 .. n : k \in T
    BY <1>1, <1>3, <1>4, BoundedInduction
  <2>2. QED  BY <1>1, <2>1
<1>6. Good(n, fn)
  <2>1. \E f : Good(n, f)
    BY <1>5 DEF T
  <2> HIDE DEF Good
  <2>2. QED  BY <2>1 DEF fn
<1>7. fn[0] = Got(<< >>, at) /\ \A d \in 1 .. n : fn[d] = Listed(below, own, l, w, fn[d - 1])
  BY <1>1, <1>6
<1> HIDE DEF Good
<1>8. DecodesList(below, own, l, w, at, count, fn)
  BY <1>2, <1>7 DEF n, DecodesList
<1>9. QED  BY <1>8

(* One level of it, from the one below *)
DecoderLevel(lh, wh, b, x, d) ==
  [own \in BOOLEAN |-> [l \in Int |-> [w \in Int |-> [at \in Position |->
     IF d = 0 THEN Raise(at) ELSE DecodeType(lh, wh, b, x, own, l, w, at)]]]]

(* What is read at a level is what decodeValue makes of the one below. *)
Deepens(lh, wh, b, own, l, w, at) ==
  /\ Decoder(lh, wh, b)[0][own][l][w][at] = Raise(at)
  /\ \A d \in 1 .. MaxDepth :
       Decoder(lh, wh, b)[d][own][l][w][at]
         = DecodeType(lh, wh, b, Decoder(lh, wh, b)[d - 1], own, l, w, at)

(* decodeValue is what its recursive definition says. *)
LEMMA DecoderLevels ==
  ASSUME NEW lh, NEW wh, NEW b, NEW own, own \in BOOLEAN, NEW l \in Int, NEW w \in Int, NEW at \in Position
  PROVE  Deepens(lh, wh, b, own, l, w, at)
<1> DEFINE n == MaxDepth
           Good(m, f) == f = [d \in 0 .. m |-> DecoderLevel(lh, wh, b, f[d - 1], d)]
           T == {m \in 0 .. n : \E f : Good(m, f)}
           fn == CHOOSE f : Good(n, f)
<1>1. n \in Nat
  BY DepthAssumption
<1>2. Decoder(lh, wh, b) = fn
  BY DEF Decoder, DecoderLevel, Position
<1> HIDE DEF n, fn
<1>3. \A x, y : DecoderLevel(lh, wh, b, x, 0) = DecoderLevel(lh, wh, b, y, 0)
  BY DEF DecoderLevel
<1>4. 0 \in T
  <2> DEFINE g == [d \in 0 .. 0 |-> DecoderLevel(lh, wh, b, 0, d)]
  <2>1. ASSUME NEW d \in 0 .. 0 PROVE g[d] = DecoderLevel(lh, wh, b, g[d - 1], d)
    BY <1>3
  <2>2. Good(0, g)
    BY <2>1, Zenon
  <2> HIDE DEF Good, g
  <2>3. QED  BY <1>1, <2>2
<1>5. ASSUME NEW m \in 1 .. n, m - 1 \in T PROVE m \in T
  <2>1. PICK f : Good(m - 1, f)
    BY <1>5
  <2> DEFINE g == [d \in 0 .. m |-> IF d = m THEN DecoderLevel(lh, wh, b, f[m - 1], m) ELSE f[d]]
  <2>2. ASSUME NEW d \in 0 .. m PROVE g[d] = DecoderLevel(lh, wh, b, g[d - 1], d)
    BY <1>1, <1>3, <2>1
  <2>3. Good(m, g)
    BY <2>2, Zenon
  <2> HIDE DEF Good, g
  <2>4. QED  BY <1>1, <2>3
<1> HIDE DEF T
<1>6. n \in T
  <2>1. \A k \in 0 .. n : k \in T
    BY <1>1, <1>4, <1>5, BoundedInduction
  <2>2. QED  BY <1>1, <2>1
<1>7. Good(n, fn)
  <2>1. \E f : Good(n, f)
    BY <1>6 DEF T
  <2> HIDE DEF Good
  <2>2. QED  BY <2>1 DEF fn
<1>8. \A d \in 0 .. n : fn[d] = DecoderLevel(lh, wh, b, fn[d - 1], d)
  BY <1>1, <1>7
<1> HIDE DEF Good
<1>9. fn[0][own][l][w][at] = Raise(at)
  <2>1. fn[0] = DecoderLevel(lh, wh, b, fn[0 - 1], 0)
    BY <1>1, <1>8
  <2>2. QED  BY <2>1 DEF DecoderLevel
<1>10. ASSUME NEW d \in 1 .. n
       PROVE  fn[d][own][l][w][at] = DecodeType(lh, wh, b, fn[d - 1], own, l, w, at)
  <2>1. fn[d] = DecoderLevel(lh, wh, b, fn[d - 1], d) /\ d # 0
    BY <1>1, <1>8
  <2>2. QED  BY <2>1 DEF DecoderLevel
<1>11. QED  BY <1>2, <1>9, <1>10 DEF n, Deepens

(* The states f of the loop that reads the arguments *)
DecodesArgs(mine, sent, b, at, f) ==
  /\ f[0] = Got(<< >>, at)
  /\ \A d \in 1 .. Len(mine.types) : f[d] = DecodeArg(mine, sent, b, d, f[d - 1])
  /\ DecodeArgs(mine, sent, b, at) = f[Len(mine.types)]

(* The arguments are read one after the other. *)
LEMMA DecodeArgsRuns ==
  ASSUME NEW mine, NEW sent, NEW b, NEW at, Len(mine.types) \in Nat
  PROVE  \E f : DecodesArgs(mine, sent, b, at, f)
<1> DEFINE n == Len(mine.types)
           Good(m, f) == f = [d \in 0 .. m |-> IF d = 0 THEN Got(<< >>, at) ELSE DecodeArg(mine, sent, b, d, f[d - 1])]
           T == {m \in 0 .. n : \E f : Good(m, f)}
           fn == CHOOSE f : Good(n, f)
<1>1. n \in Nat
  OBVIOUS
<1>2. DecodeArgs(mine, sent, b, at) = fn[n]
  BY DEF DecodeArgs
<1> HIDE DEF n, fn
<1>3. 0 \in T
  <2>1. Good(0, [d \in 0 .. 0 |-> Got(<< >>, at)])
    OBVIOUS
  <2> HIDE DEF Good
  <2>2. QED  BY <1>1, <2>1
<1>4. ASSUME NEW m \in 1 .. n, m - 1 \in T PROVE m \in T
  <2>1. PICK f : Good(m - 1, f)
    BY <1>4
  <2> DEFINE g == [d \in 0 .. m |-> IF d = m THEN DecodeArg(mine, sent, b, m, f[m - 1]) ELSE f[d]]
  <2>2. ASSUME NEW d \in 0 .. m PROVE g[d] = IF d = 0 THEN Got(<< >>, at) ELSE DecodeArg(mine, sent, b, d, g[d - 1])
    BY <1>1, <2>1
  <2>3. Good(m, g)
    BY <2>2, Zenon
  <2> HIDE DEF Good, g
  <2>4. QED  BY <1>1, <2>3
<1> HIDE DEF T
<1>5. n \in T
  <2>1. \A k \in 0 .. n : k \in T
    BY <1>1, <1>3, <1>4, BoundedInduction, Zenon
  <2>2. QED  BY <1>1, <2>1
<1>6. Good(n, fn)
  <2>1. \E f : Good(n, f)
    BY <1>5 DEF T
  <2> HIDE DEF Good
  <2>2. QED  BY <2>1 DEF fn
<1>7. fn[0] = Got(<< >>, at) /\ \A d \in 1 .. n : fn[d] = DecodeArg(mine, sent, b, d, fn[d - 1])
  BY <1>1, <1>6
<1> HIDE DEF Good
<1>8. DecodesArgs(mine, sent, b, at, fn)
  BY <1>2, <1>7 DEF n, DecodesArgs
<1>9. QED  BY <1>8

(* One level of it, from the one below *)
CoercionLevel(lh, wh, x, d) ==
  [l \in Int |-> [w \in Int |-> [v \in Values |-> IF d = 0 THEN {} ELSE CoercedParts(lh, wh, x, l, w, v)]]]

(* A value of it on each level *)
Coerces(lh, wh, l, w, v) ==
  /\ Coercion(lh, wh)[0][l][w][v] = {}
  /\ \A d \in 1 .. MaxDepth : Coercion(lh, wh)[d][l][w][v] = CoercedParts(lh, wh, Coercion(lh, wh)[d - 1], l, w, v)

(* Coerced is what its recursive definition says. *)
LEMMA CoercionLevels ==
  ASSUME NEW lh, NEW wh, NEW l \in Int, NEW w \in Int, NEW v \in Values
  PROVE  Coerces(lh, wh, l, w, v)
<1> DEFINE n == MaxDepth
           Good(m, f) == f = [d \in 0 .. m |-> CoercionLevel(lh, wh, f[d - 1], d)]
           T == {m \in 0 .. n : \E f : Good(m, f)}
           fn == CHOOSE f : Good(n, f)
<1>1. n \in Nat
  BY DepthAssumption
<1>2. Coercion(lh, wh) = fn
  BY DEF Coercion, CoercionLevel
<1> HIDE DEF n, fn
<1>3. \A x, y : CoercionLevel(lh, wh, x, 0) = CoercionLevel(lh, wh, y, 0)
  BY DEF CoercionLevel
<1>4. 0 \in T
  <2> DEFINE g == [d \in 0 .. 0 |-> CoercionLevel(lh, wh, 0, d)]
  <2>1. ASSUME NEW d \in 0 .. 0 PROVE g[d] = CoercionLevel(lh, wh, g[d - 1], d)
    BY <1>3
  <2>2. Good(0, g)
    BY <2>1, Zenon
  <2> HIDE DEF Good, g
  <2>3. QED  BY <1>1, <2>2
<1>5. ASSUME NEW m \in 1 .. n, m - 1 \in T PROVE m \in T
  <2>1. PICK f : Good(m - 1, f)
    BY <1>5
  <2> DEFINE g == [d \in 0 .. m |-> IF d = m THEN CoercionLevel(lh, wh, f[m - 1], m) ELSE f[d]]
  <2>2. ASSUME NEW d \in 0 .. m PROVE g[d] = CoercionLevel(lh, wh, g[d - 1], d)
    BY <1>1, <1>3, <2>1
  <2>3. Good(m, g)
    BY <2>2, Zenon
  <2> HIDE DEF Good, g
  <2>4. QED  BY <1>1, <2>3
<1> HIDE DEF T
<1>6. n \in T
  <2>1. \A k \in 0 .. n : k \in T
    BY <1>1, <1>4, <1>5, BoundedInduction
  <2>2. QED  BY <1>1, <2>1
<1>7. Good(n, fn)
  <2>1. \E f : Good(n, f)
    BY <1>6 DEF T
  <2> HIDE DEF Good
  <2>2. QED  BY <2>1 DEF fn
<1>8. \A d \in 0 .. n : fn[d] = CoercionLevel(lh, wh, fn[d - 1], d)
  BY <1>1, <1>7
<1> HIDE DEF Good
<1>9. fn[0][l][w][v] = {}
  <2>1. fn[0] = CoercionLevel(lh, wh, fn[0 - 1], 0)
    BY <1>1, <1>8
  <2>2. QED  BY <2>1 DEF CoercionLevel
<1>10. ASSUME NEW d \in 1 .. n
       PROVE  fn[d][l][w][v] = CoercedParts(lh, wh, fn[d - 1], l, w, v)
  <2>1. fn[d] = CoercionLevel(lh, wh, fn[d - 1], d) /\ d # 0
    BY <1>1, <1>8
  <2>2. QED  BY <2>1 DEF CoercionLevel
<1>11. QED  BY <1>2, <1>9, <1>10 DEF n, Coerces

(* One level of it, from the one below *)
LikenessLevel(lh, wh, x, d) ==
  [l \in Int |-> [w \in Int |-> [v \in Values |-> IF d = 0 THEN TRUE ELSE AlikeParts(lh, wh, x, l, w, v)]]]

(* A value of it on each level *)
Resembles(lh, wh, l, w, v) ==
  /\ Likeness(lh, wh)[0][l][w][v] = TRUE
  /\ \A d \in 1 .. MaxDepth : Likeness(lh, wh)[d][l][w][v] = AlikeParts(lh, wh, Likeness(lh, wh)[d - 1], l, w, v)

(* Alike is what its recursive definition says. *)
LEMMA LikenessLevels ==
  ASSUME NEW lh, NEW wh, NEW l \in Int, NEW w \in Int, NEW v \in Values
  PROVE  Resembles(lh, wh, l, w, v)
<1> DEFINE n == MaxDepth
           Good(m, f) == f = [d \in 0 .. m |-> LikenessLevel(lh, wh, f[d - 1], d)]
           T == {m \in 0 .. n : \E f : Good(m, f)}
           fn == CHOOSE f : Good(n, f)
<1>1. n \in Nat
  BY DepthAssumption
<1>2. Likeness(lh, wh) = fn
  BY DEF Likeness, LikenessLevel
<1> HIDE DEF n, fn
<1>3. \A x, y : LikenessLevel(lh, wh, x, 0) = LikenessLevel(lh, wh, y, 0)
  BY DEF LikenessLevel
<1>4. 0 \in T
  <2> DEFINE g == [d \in 0 .. 0 |-> LikenessLevel(lh, wh, 0, d)]
  <2>1. ASSUME NEW d \in 0 .. 0 PROVE g[d] = LikenessLevel(lh, wh, g[d - 1], d)
    BY <1>3
  <2>2. Good(0, g)
    BY <2>1, Zenon
  <2> HIDE DEF Good, g
  <2>3. QED  BY <1>1, <2>2
<1>5. ASSUME NEW m \in 1 .. n, m - 1 \in T PROVE m \in T
  <2>1. PICK f : Good(m - 1, f)
    BY <1>5
  <2> DEFINE g == [d \in 0 .. m |-> IF d = m THEN LikenessLevel(lh, wh, f[m - 1], m) ELSE f[d]]
  <2>2. ASSUME NEW d \in 0 .. m PROVE g[d] = LikenessLevel(lh, wh, g[d - 1], d)
    BY <1>1, <1>3, <2>1
  <2>3. Good(m, g)
    BY <2>2, Zenon
  <2> HIDE DEF Good, g
  <2>4. QED  BY <1>1, <2>3
<1> HIDE DEF T
<1>6. n \in T
  <2>1. \A k \in 0 .. n : k \in T
    BY <1>1, <1>4, <1>5, BoundedInduction
  <2>2. QED  BY <1>1, <2>1
<1>7. Good(n, fn)
  <2>1. \E f : Good(n, f)
    BY <1>6 DEF T
  <2> HIDE DEF Good
  <2>2. QED  BY <2>1 DEF fn
<1>8. \A d \in 0 .. n : fn[d] = LikenessLevel(lh, wh, fn[d - 1], d)
  BY <1>1, <1>7
<1> HIDE DEF Good
<1>9. fn[0][l][w][v] = TRUE
  <2>1. fn[0] = LikenessLevel(lh, wh, fn[0 - 1], 0)
    BY <1>1, <1>8
  <2>2. QED  BY <2>1 DEF LikenessLevel
<1>10. ASSUME NEW d \in 1 .. n
       PROVE  fn[d][l][w][v] = AlikeParts(lh, wh, fn[d - 1], l, w, v)
  <2>1. fn[d] = LikenessLevel(lh, wh, fn[d - 1], d) /\ d # 0
    BY <1>1, <1>8
  <2>2. QED  BY <2>1 DEF LikenessLevel
<1>11. QED  BY <1>2, <1>9, <1>10 DEF n, Resembles

---------------------------------------------------------------------------

(* Encoding a value *)

(* The opcode of a primitive type *)
IsPrimitive(t) == t \in {TypeIds[p] : p \in Primitives}

(* The names of the primitive types are found again. *)
LEMMA PrimitiveNames ==
  /\ \A p \in Primitives : Name(TypeIds[p]) = p /\ TypeIds[p] < 0
  /\ \A t : IsPrimitive(t) => Name(t) \in Primitives /\ t = TypeIds[Name(t)]
<1>1. ASSUME NEW p \in Primitives PROVE Name(TypeIds[p]) = p
  <2>1. p \in DOMAIN TypeIds
    BY Opcodes DEF Primitives
  <2>2. QED  BY <2>1, Opcodes DEF Name
<1>2. ASSUME NEW p \in Primitives PROVE TypeIds[p] < 0
  BY DEF Primitives, TypeIds
<1>3. QED  BY <1>1, <1>2 DEF IsPrimitive

(* A reference below 0 is the opcode of a primitive type. *)
LEMMA PrimitiveRefs ==
  ASSUME NEW heap, DOMAIN heap \subseteq Nat, NEW t \in Refs(heap), t < 0
  PROVE  IsPrimitive(t)
BY DEF Refs, IsPrimitive

(* A text and a principal are bytes. *)
LEMMA TextBytes ==
  ASSUME NEW s \in Seq(Bytes)
  PROVE  /\ EncodeText(s) \in Seq(Bytes) /\ EncodePrincipal(s) \in Seq(Bytes)
         /\ EncodeU(Len(s)) \in Seq(Bytes) /\ <<1>> \in Seq(Bytes) /\ <<0>> \in Seq(Bytes)
         /\ EncodeText(<<109>>) \in Seq(Bytes) /\ <<109>> \in Seq(Bytes)
<1>1. ASSUME NEW r \in Seq(Bytes) PROVE EncodeU(Len(r)) \in Seq(Bytes)
  BY EncodeUBytes
<1>2. ASSUME NEW r \in Seq(Bytes) PROVE EncodeText(r) \in Seq(Bytes)
  BY <1>1 DEF EncodeText
<1>3. <<1>> \in Seq(Bytes) /\ <<0>> \in Seq(Bytes) /\ <<109>> \in Seq(Bytes)
  BY DEF Bytes
<1>4. EncodePrincipal(s) \in Seq(Bytes)
  BY <1>2, <1>3 DEF EncodePrincipal
<1>5. QED  BY <1>1, <1>2, <1>3, <1>4, Zenon

(* What the values of the primitive types are *)
LEMMA PrimitiveShapes ==
  ASSUME NEW t, IsPrimitive(t), NEW v, FitsPrimitive(t, v)
  PROVE  /\ Name(t) = "nat"       => v = Num(v[2]) /\ v[2] \in Nat
         /\ Name(t) = "int"       => v = Num(v[2]) /\ v[2] \in Int
         /\ Name(t) = "nat8"      => v = Num(v[2]) /\ v[2] \in Bytes
         /\ Name(t) = "text"      => v = Text(v[2]) /\ v[2] \in Seq(Bytes)
         /\ Name(t) = "principal" => v = Ref(v[2]) /\ v[2] \in Seq(Bytes)
         /\ Name(t) = "null"      => v = None
         /\ Name(t) # "empty"
<1>1. Name(t) \in Primitives
  BY PrimitiveNames
<1>2. CASE Name(t) = "nat"
  BY <1>2 DEF FitsPrimitive, Num
<1>3. CASE Name(t) = "int"
  BY <1>3 DEF FitsPrimitive, Num
<1>4. CASE Name(t) = "nat8"
  BY <1>4 DEF FitsPrimitive, Num
<1>5. CASE Name(t) = "text"
  BY <1>5 DEF FitsPrimitive, Text
<1>6. CASE Name(t) = "principal"
  BY <1>6 DEF FitsPrimitive, Ref
<1>7. CASE Name(t) = "null"
  BY <1>7 DEF FitsPrimitive
<1>8. CASE Name(t) = "empty"
  BY <1>8 DEF FitsPrimitive
<1>9. CASE Name(t) = "reserved"
  BY <1>9
<1>10. QED  BY <1>1, <1>2, <1>3, <1>4, <1>5, <1>6, <1>7, <1>8, <1>9 DEF Primitives

(* A value of a primitive type is put into bytes. *)
LEMMA PrimitiveBytes ==
  ASSUME NEW t, IsPrimitive(t), NEW v, FitsPrimitive(t, v)
  PROVE  EncodePrimitive(t, v) \in Seq(Bytes)
<1>1. Name(t) \in Primitives
  BY PrimitiveNames
<1>2. CASE Name(t) = "nat"
  BY <1>2, PrimitiveShapes, EncodeUBytes DEF EncodePrimitive
<1>3. CASE Name(t) = "int"
  BY <1>3, PrimitiveShapes, EncodeIBytes DEF EncodePrimitive
<1>4. CASE Name(t) = "nat8"
  BY <1>4, PrimitiveShapes DEF EncodePrimitive
<1>5. CASE Name(t) = "text"
  BY <1>5, PrimitiveShapes, TextBytes DEF EncodePrimitive
<1>6. CASE Name(t) = "principal"
  BY <1>6, PrimitiveShapes, TextBytes DEF EncodePrimitive
<1>7. CASE Name(t) \in {"null", "reserved"}
  BY <1>7 DEF EncodePrimitive
<1>8. CASE Name(t) = "empty"
  BY <1>8, PrimitiveShapes
<1>10. QED  BY <1>1, <1>2, <1>3, <1>4, <1>5, <1>6, <1>7, <1>8 DEF Primitives

(* What the values of the constructed types are *)
LEMMA FitsShapes ==
  ASSUME NEW heap, NEW below, NEW t, NEW v, FitsParts(heap, below, t, v),
         NEW o, o = GetType(heap, t), ~ (o < 0)
  PROVE  /\ heap[o].con \in {"opt", "vec"} =>
              /\ v = List(v[2]) /\ v[2] \in Seq(Values)
              /\ heap[o].con = "opt" => Len(v[2]) <= 1
              /\ \A i \in DOMAIN v[2] : below[heap[o].arg][v[2][i]]
         /\ heap[o].con = "record" =>
              /\ v = Dict(v[2]) /\ v[2] \in [DOMAIN heap[o].fields -> Values]
              /\ \A h \in DOMAIN heap[o].fields : below[heap[o].fields[h]][v[2][h]]
         /\ heap[o].con = "variant" =>
              /\ v = Tagged(v[2], v[3]) /\ v[2] \in DOMAIN heap[o].fields /\ v[3] \in Values
              /\ below[heap[o].fields[v[2]]][v[3]]
         /\ heap[o].con \in {"service", "func"} => v = None \/ (v = Ref(v[2]) /\ v[2] \in Seq(Bytes))
<1>1. ASSUME heap[o].con \in {"opt", "vec"}
      PROVE  /\ v = List(v[2]) /\ v[2] \in Seq(Values)
             /\ heap[o].con = "opt" => Len(v[2]) <= 1
             /\ \A i \in DOMAIN v[2] : below[heap[o].arg][v[2][i]]
  <2>1. /\ v \in {"list"} \X Seq(Values)
        /\ heap[o].con = "opt" => Len(v[2]) <= 1
        /\ \A i \in DOMAIN v[2] : below[heap[o].arg][v[2][i]]
    BY <1>1, Zenon DEF FitsParts
  <2>2. v = List(v[2]) /\ v[2] \in Seq(Values)
    BY <2>1 DEF List
  <2>3. QED  BY <2>1, <2>2
<1>2. ASSUME heap[o].con = "record"
      PROVE  /\ v = Dict(v[2]) /\ v[2] \in [DOMAIN heap[o].fields -> Values]
             /\ \A h \in DOMAIN heap[o].fields : below[heap[o].fields[h]][v[2][h]]
  <2>1. /\ v \in {"dict"} \X [DOMAIN heap[o].fields -> Values]
        /\ \A h \in DOMAIN heap[o].fields : below[heap[o].fields[h]][v[2][h]]
    BY <1>2 DEF FitsParts
  <2>2. v = Dict(v[2]) /\ v[2] \in [DOMAIN heap[o].fields -> Values]
    BY <2>1 DEF Dict
  <2>3. QED  BY <2>1, <2>2
<1>3. ASSUME heap[o].con = "variant"
      PROVE  /\ v = Tagged(v[2], v[3]) /\ v[2] \in DOMAIN heap[o].fields /\ v[3] \in Values
             /\ below[heap[o].fields[v[2]]][v[3]]
  <2>1. /\ v \in {"tagged"} \X (DOMAIN heap[o].fields) \X Values
        /\ below[heap[o].fields[v[2]]][v[3]]
    BY <1>3 DEF FitsParts
  <2>2. v = Tagged(v[2], v[3]) /\ v[2] \in DOMAIN heap[o].fields /\ v[3] \in Values
    BY <2>1 DEF Tagged
  <2>3. QED  BY <2>1, <2>2
<1>4. ASSUME heap[o].con \in {"service", "func"}
      PROVE  v = None \/ (v = Ref(v[2]) /\ v[2] \in Seq(Bytes))
  <2>1. v = None \/ v \in {"ref"} \X Seq(Bytes)
    BY <1>4, Zenon DEF FitsParts
  <2>2. QED  BY <2>1 DEF Ref
<1>5. QED  BY <1>1, <1>2, <1>3, <1>4

(* The bytes of a list's elements, and of a record's fields *)
ListPieces(below, t, s) == [i \in DOMAIN s |-> below[t][s[i]]]

RecordPieces(below, node, f) ==
  [i \in DOMAIN SortedHashes(node) |->
     below[node.fields[SortedHashes(node)[i]]][f[SortedHashes(node)[i]]]]

(* The level d writes bytes for what fits. *)
Writes(heap, fits, bytes) ==
  \A t \in Refs(heap), v \in Values : fits[t][v] => bytes[t][v] \in Seq(Bytes)

(* The bytes of a list *)
LEMMA ListBytes ==
  ASSUME NEW heap, NEW fits, NEW bytes, Writes(heap, fits, bytes),
         NEW t \in Refs(heap), NEW s \in Seq(Values), \A i \in DOMAIN s : fits[t][s[i]]
  PROVE  /\ ListPieces(bytes, t, s) \in Seq(Seq(Bytes)) /\ Len(ListPieces(bytes, t, s)) = Len(s)
         /\ \A i \in 1 .. Len(s) : ListPieces(bytes, t, s)[i] = bytes[t][s[i]]
         /\ FlattenSeq(ListPieces(bytes, t, s)) \in Seq(Bytes)
<1>1. DOMAIN s = 1 .. Len(s) /\ Len(s) \in Nat
  OBVIOUS
<1>2. ASSUME NEW i \in 1 .. Len(s) PROVE ListPieces(bytes, t, s)[i] \in Seq(Bytes)
  <2>1. s[i] \in Values /\ fits[t][s[i]]
    BY <1>1
  <2>2. bytes[t][s[i]] \in Seq(Bytes)
    BY <2>1 DEF Writes
  <2>3. QED  BY <1>1, <2>2 DEF ListPieces
<1>3. ListPieces(bytes, t, s) = [i \in 1 .. Len(s) |-> ListPieces(bytes, t, s)[i]]
  BY <1>1 DEF ListPieces
<1>4. ListPieces(bytes, t, s) \in Seq(Seq(Bytes)) /\ Len(ListPieces(bytes, t, s)) = Len(s)
  BY <1>1, <1>2, <1>3, Pieces
<1>5. \A i \in 1 .. Len(s) : ListPieces(bytes, t, s)[i] = bytes[t][s[i]]
  BY <1>1 DEF ListPieces
<1>6. QED  BY <1>4, <1>5, FlattenBytes

(* The bytes of a record *)
LEMMA RecordBytes ==
  ASSUME NEW heap, IsHeap(heap), NEW fits, NEW bytes, Writes(heap, fits, bytes),
         NEW o \in DOMAIN heap, HasFields(heap[o]), NEW f \in [DOMAIN heap[o].fields -> Values],
         \A h \in DOMAIN heap[o].fields : fits[heap[o].fields[h]][f[h]]
  PROVE  /\ RecordPieces(bytes, heap[o], f) \in Seq(Seq(Bytes))
         /\ Len(RecordPieces(bytes, heap[o], f)) = Len(SortedHashes(heap[o]))
         /\ \A i \in 1 .. Len(SortedHashes(heap[o])) :
              RecordPieces(bytes, heap[o], f)[i]
                = bytes[heap[o].fields[SortedHashes(heap[o])[i]]][f[SortedHashes(heap[o])[i]]]
         /\ FlattenSeq(RecordPieces(bytes, heap[o], f)) \in Seq(Bytes)
<1> DEFINE labels == SortedHashes(heap[o])
           n == Len(labels)
           F == heap[o].fields
<1>0. labels \in Seq(DOMAIN F) /\ \A h \in DOMAIN F : F[h] \in Refs(heap)
  BY NodeShapes DEF Sorted
<1>1. DOMAIN labels = 1 .. n /\ n \in Nat /\ \A i \in 1 .. n : labels[i] \in DOMAIN F
  BY <1>0
<1>5. \A i \in 1 .. n : RecordPieces(bytes, heap[o], f)[i] = bytes[F[labels[i]]][f[labels[i]]]
  BY <1>1 DEF RecordPieces
<1>3. RecordPieces(bytes, heap[o], f) = [i \in 1 .. n |-> RecordPieces(bytes, heap[o], f)[i]]
  BY <1>1 DEF RecordPieces
<1> HIDE DEF labels, n
<1>2. ASSUME NEW i \in 1 .. n PROVE RecordPieces(bytes, heap[o], f)[i] \in Seq(Bytes)
  <2>1. labels[i] \in DOMAIN F /\ F[labels[i]] \in Refs(heap) /\ f[labels[i]] \in Values
    BY <1>0, <1>1
  <2>2. fits[F[labels[i]]][f[labels[i]]]
    BY <2>1
  <2>3. bytes[F[labels[i]]][f[labels[i]]] \in Seq(Bytes)
    BY <2>1, <2>2 DEF Writes
  <2>4. QED  BY <1>5, <2>3
<1>4. RecordPieces(bytes, heap[o], f) \in Seq(Seq(Bytes)) /\ Len(RecordPieces(bytes, heap[o], f)) = n
  BY <1>1, <1>2, <1>3, Pieces
<1>6. QED  BY <1>4, <1>5, FlattenBytes DEF n, labels

(* The place of a label among the labels of a type *)
Place(node, label) == CHOOSE i \in DOMAIN SortedHashes(node) : SortedHashes(node)[i] = label

(* encodeValue of a primitive type *)
LEMMA EncodePrimitiveIs ==
  ASSUME NEW heap, NEW below, NEW t, NEW v, GetType(heap, t) < 0
  PROVE  EncodeParts(heap, below, t, v) = EncodePrimitive(GetType(heap, t), v)
BY DEF EncodeParts

(* encodeValue of an opt or a vec *)
LEMMA EncodeListIs ==
  ASSUME NEW heap, NEW below, NEW t, NEW v, NEW o, o = GetType(heap, t), ~ (o < 0), heap[o].con \in {"opt", "vec"}
  PROVE  EncodeParts(heap, below, t, v)
           = EncodeU(Len(v[2])) \o FlattenSeq(ListPieces(below, heap[o].arg, v[2]))
BY Zenon DEF EncodeParts, ListPieces

(* encodeValue of a record *)
LEMMA EncodeRecordIs ==
  ASSUME NEW heap, NEW below, NEW t, NEW v, NEW o, o = GetType(heap, t), ~ (o < 0), heap[o].con = "record"
  PROVE  EncodeParts(heap, below, t, v) = FlattenSeq(RecordPieces(below, heap[o], v[2]))
BY DEF EncodeParts, RecordPieces

(* encodeValue of a variant *)
LEMMA EncodeVariantIs ==
  ASSUME NEW heap, NEW below, NEW t, NEW v, NEW o, o = GetType(heap, t), ~ (o < 0), heap[o].con = "variant"
  PROVE  EncodeParts(heap, below, t, v)
           = EncodeU(Place(heap[o], v[2]) - 1) \o below[heap[o].fields[v[2]]][v[3]]
BY Zenon DEF EncodeParts, Place

(* encodeValue of a service or a func *)
LEMMA EncodeReferenceIs ==
  ASSUME NEW heap, NEW below, NEW t, NEW v, NEW o, o = GetType(heap, t), ~ (o < 0),
         heap[o].con \in {"service", "func"}
  PROVE  EncodeParts(heap, below, t, v)
           = IF heap[o].con = "service" THEN EncodeService(v) ELSE EncodeFunc(v)
BY Zenon DEF EncodeParts

(* A label has one place. *)
LEMMA PlaceIs ==
  ASSUME NEW heap, IsHeap(heap), NEW o \in DOMAIN heap, HasFields(heap[o]),
         NEW label \in DOMAIN heap[o].fields
  PROVE  /\ Place(heap[o], label) \in 1 .. Len(SortedHashes(heap[o]))
         /\ SortedHashes(heap[o])[Place(heap[o], label)] = label
<1>1. Sorted(DOMAIN heap[o].fields, SortedHashes(heap[o]))
  BY NodeShapes
<1>2. PICK i \in 1 .. Len(SortedHashes(heap[o])) : SortedHashes(heap[o])[i] = label
  BY <1>1 DEF Sorted
<1>3. DOMAIN SortedHashes(heap[o]) = 1 .. Len(SortedHashes(heap[o]))
  BY <1>1 DEF Sorted
<1>4. QED  BY <1>2, <1>3 DEF Place

(* The type at the end of a reference *)
LEMMA Ends ==
  ASSUME NEW heap, IsHeap(heap), NEW t \in Refs(heap), NEW o, o = GetType(heap, t)
  PROVE  /\ o \in Int
         /\ o < 0 => IsPrimitive(o)
         /\ ~ (o < 0) => o \in DOMAIN heap
                         /\ heap[o].con \in {"opt", "vec", "func", "record", "variant", "service"}
<1>1. IsType(heap, o)
  BY GetTypeType
<1>2. DOMAIN heap \subseteq Nat
  BY DEF IsHeap
<1>3. o \in Int /\ (o < 0 => IsPrimitive(o))
  BY <1>1, <1>2, RefNumbers, PrimitiveRefs DEF IsType
<1>4. ASSUME ~ (o < 0) PROVE o \in DOMAIN heap /\ heap[o].con # "rec"
  BY <1>1, <1>3, <1>4 DEF IsType
<1>5. QED  BY <1>3, <1>4, NodeShapes

(* Bytes and bytes are bytes. *)
LEMMA Joined ==
  \A c, d \in Seq(Bytes) : c \o d \in Seq(Bytes)
OBVIOUS

(* A reference is bytes. *)
LEMMA ReferenceBytes ==
  ASSUME NEW v, v = None \/ (v = Ref(v[2]) /\ v[2] \in Seq(Bytes))
  PROVE  EncodeService(v) \in Seq(Bytes) /\ EncodeFunc(v) \in Seq(Bytes)
<1>1. <<0>> \in Seq(Bytes) /\ <<1>> \in Seq(Bytes)
  BY DEF Bytes
<1>2. CASE v = None
  BY <1>1, <1>2 DEF EncodeService, EncodeFunc
<1>3. CASE v # None /\ v[2] \in Seq(Bytes)
  <2>1. EncodePrincipal(v[2]) \in Seq(Bytes) /\ EncodeText(<<109>>) \in Seq(Bytes)
    BY <1>3, TextBytes
  <2>2. EncodeService(v) = EncodePrincipal(v[2])
    BY <1>3 DEF EncodeService
  <2>3. EncodeFunc(v) = <<1>> \o EncodePrincipal(v[2]) \o EncodeText(<<109>>)
    BY <1>3 DEF EncodeFunc
  <2>4. <<1>> \o EncodePrincipal(v[2]) \o EncodeText(<<109>>) \in Seq(Bytes)
    BY <1>1, <2>1
  <2>5. QED  BY <2>1, <2>2, <2>3, <2>4
<1>4. QED  BY <1>2, <1>3

(* What fits is put into bytes, if what fits one level deeper is. *)
LEMMA WritesParts ==
  ASSUME NEW heap, IsHeap(heap), NEW fits, NEW bytes, Writes(heap, fits, bytes),
         NEW t \in Refs(heap), NEW v \in Values, FitsParts(heap, fits, t, v)
  PROVE  EncodeParts(heap, bytes, t, v) \in Seq(Bytes)
<1> DEFINE o == GetType(heap, t)
<1>00. o = GetType(heap, t)
  OBVIOUS
<1> HIDE DEF o
<1>0. /\ o \in Int
      /\ o < 0 => IsPrimitive(o)
      /\ ~ (o < 0) => o \in DOMAIN heap
                      /\ heap[o].con \in {"opt", "vec", "func", "record", "variant", "service"}
  BY <1>00, Ends
<1>1. CASE o < 0
  <2>1. FitsPrimitive(o, v)
    BY <1>1, <1>00 DEF FitsParts
  <2>2. EncodeParts(heap, bytes, t, v) = EncodePrimitive(o, v)
    BY <1>1, <1>00, EncodePrimitiveIs
  <2>3. QED  BY <1>0, <1>1, <2>1, <2>2, PrimitiveBytes
<1>2. CASE ~ (o < 0) /\ heap[o].con \in {"opt", "vec"}
  <2>1. v[2] \in Seq(Values) /\ \A i \in DOMAIN v[2] : fits[heap[o].arg][v[2][i]]
    BY <1>2, <1>00, FitsShapes
  <2>2. heap[o].arg \in Refs(heap)
    BY <1>0, <1>2, NodeShapes
  <2>3. EncodeU(Len(v[2])) \in Seq(Bytes)
    BY <2>1, EncodeUBytes
  <2>4. FlattenSeq(ListPieces(bytes, heap[o].arg, v[2])) \in Seq(Bytes)
    BY <2>1, <2>2, ListBytes, Zenon
  <2>5. EncodeParts(heap, bytes, t, v) = EncodeU(Len(v[2])) \o FlattenSeq(ListPieces(bytes, heap[o].arg, v[2]))
    BY <1>2, <1>00, EncodeListIs, ZenonT(40)
  <2>6. QED  BY <2>3, <2>4, <2>5, Joined, Zenon
<1>3. CASE ~ (o < 0) /\ heap[o].con = "record"
  <2>1. /\ v[2] \in [DOMAIN heap[o].fields -> Values]
        /\ \A h \in DOMAIN heap[o].fields : fits[heap[o].fields[h]][v[2][h]]
    BY <1>3, <1>00, FitsShapes
  <2>2. HasFields(heap[o])
    BY <1>3 DEF HasFields
  <2>3. FlattenSeq(RecordPieces(bytes, heap[o], v[2])) \in Seq(Bytes)
    BY <1>0, <1>3, <2>1, <2>2, RecordBytes
  <2>4. QED  BY <1>3, <2>3, <1>00, EncodeRecordIs
<1>4. CASE ~ (o < 0) /\ heap[o].con = "variant"
  <2>1. v[2] \in DOMAIN heap[o].fields /\ v[3] \in Values /\ fits[heap[o].fields[v[2]]][v[3]]
    BY <1>4, <1>00, FitsShapes
  <2>2. HasFields(heap[o])
    BY <1>4 DEF HasFields
  <2>3. heap[o].fields[v[2]] \in Refs(heap)
    BY <1>0, <1>4, <2>1, <2>2, NodeShapes
  <2>4. bytes[heap[o].fields[v[2]]][v[3]] \in Seq(Bytes)
    BY <2>1, <2>3 DEF Writes
  <2>5. Place(heap[o], v[2]) \in 1 .. Len(SortedHashes(heap[o])) /\ Len(SortedHashes(heap[o])) \in Nat
    BY <1>0, <1>4, <2>1, <2>2, PlaceIs, NodeShapes DEF Sorted
  <2>6. EncodeU(Place(heap[o], v[2]) - 1) \in Seq(Bytes)
    BY <2>5, EncodeUBytes
  <2>7. EncodeParts(heap, bytes, t, v)
          = EncodeU(Place(heap[o], v[2]) - 1) \o bytes[heap[o].fields[v[2]]][v[3]]
    BY <1>4, <1>00, EncodeVariantIs, ZenonT(40)
  <2>8. QED  BY <2>4, <2>6, <2>7, Joined, Zenon
<1>5. CASE ~ (o < 0) /\ heap[o].con \in {"service", "func"}
  <2>1. v = None \/ (v = Ref(v[2]) /\ v[2] \in Seq(Bytes))
    BY <1>5, <1>00, FitsShapes
  <2>2. EncodeService(v) \in Seq(Bytes) /\ EncodeFunc(v) \in Seq(Bytes)
    BY <2>1, ReferenceBytes
  <2>3. QED  BY <1>5, <2>2, <1>00, EncodeReferenceIs
<1>6. QED  BY <1>0, <1>1, <1>2, <1>3, <1>4, <1>5

(* What fits is put into bytes. *)
LEMMA EncoderWrites ==
  ASSUME NEW heap, IsHeap(heap)
  PROVE  \A d \in 0 .. MaxDepth : Writes(heap, Fitting(heap)[d], Encoder(heap)[d])
<1> DEFINE T == {d \in 0 .. MaxDepth : Writes(heap, Fitting(heap)[d], Encoder(heap)[d])}
<1>0. MaxDepth \in Nat /\ \A t \in Refs(heap) : t \in Int
  BY DepthAssumption, RefNumbers DEF IsHeap
<1>1. 0 \in T
  <2>1. ASSUME NEW t \in Refs(heap), NEW v \in Values PROVE Fitting(heap)[0][t][v] = FALSE
    BY <1>0, FittingLevels, Zenon
  <2>2. Writes(heap, Fitting(heap)[0], Encoder(heap)[0])
    BY <2>1, Zenon DEF Writes
  <2>3. QED  BY <1>0, <2>2
<1>2. ASSUME NEW d \in 1 .. MaxDepth, d - 1 \in T PROVE d \in T
  <2>1. Writes(heap, Fitting(heap)[d - 1], Encoder(heap)[d - 1])
    BY <1>2
  <2>2. ASSUME NEW t \in Refs(heap), NEW v \in Values, Fitting(heap)[d][t][v]
        PROVE  Encoder(heap)[d][t][v] \in Seq(Bytes)
    <3>1. Fitting(heap)[d][t][v] = FitsParts(heap, Fitting(heap)[d - 1], t, v)
      BY <1>0, FittingLevels, Zenon
    <3>2. FitsParts(heap, Fitting(heap)[d - 1], t, v)
      BY <2>2, <3>1
    <3>3. Encoder(heap)[d][t][v] = EncodeParts(heap, Encoder(heap)[d - 1], t, v)
      BY <1>0, EncoderLevels, Zenon
    <3>4. EncodeParts(heap, Encoder(heap)[d - 1], t, v) \in Seq(Bytes)
      BY <2>1, <3>2, WritesParts
    <3>5. QED  BY <3>3, <3>4
  <2>3. Writes(heap, Fitting(heap)[d], Encoder(heap)[d])
    BY <2>2 DEF Writes
  <2>4. QED  BY <1>0, <2>3
<1> HIDE DEF T
<1>3. \A d \in 0 .. MaxDepth : d \in T
  BY <1>0, <1>1, <1>2, BoundedInduction
<1>4. QED  BY <1>3 DEF T

(* The bytes of the values of a message *)
ValuePieces(msg) == [i \in DOMAIN msg.types |-> EncodeValue(msg.heap, msg.types[i], msg.values[i])]

(* The table of a message's types *)
TableOf(msg) == BuildTable(msg.heap, msg.types)

(* What is in the bytes of a message *)
LEMMA MessageBytes ==
  ASSUME NEW msg, IsMessage(msg)
  PROVE  /\ IsTable(msg.heap, TableOf(msg))
         /\ AllWithin(msg.heap, msg.types, ToSet(TableOf(msg)))
         /\ Closed(msg.heap, ToSet(TableOf(msg)))
         /\ Len(TableOf(msg)) = Cardinality(Reached(msg.heap, msg.types))
         /\ Len(TableOf(msg)) \in Nat
         /\ EncodeTable(msg.heap, TableOf(msg)) \in Seq(Bytes)
         /\ EncodeTypes(msg.heap, TableOf(msg), msg.types) \in Seq(Bytes)
         /\ ValuePieces(msg) \in Seq(Seq(Bytes)) /\ Len(ValuePieces(msg)) = Len(msg.types)
         /\ FlattenSeq(ValuePieces(msg)) \in Seq(Bytes)
         /\ Encode(msg) = (EncodeTable(msg.heap, TableOf(msg)) \o EncodeTypes(msg.heap, TableOf(msg), msg.types))
                            \o FlattenSeq(ValuePieces(msg))
         /\ Encode(msg) \in Seq(Bytes)
<1> DEFINE table == TableOf(msg)
           n == Len(msg.types)
<1>1. /\ IsHeap(msg.heap) /\ msg.types \in Seq(Refs(msg.heap))
      /\ msg.values \in Seq(Values) /\ DOMAIN msg.values = DOMAIN msg.types
      /\ \A i \in DOMAIN msg.types : Fits(msg.heap, msg.types[i], msg.values[i])
  BY DEF IsMessage
<1>2. /\ IsTable(msg.heap, table) /\ AllWithin(msg.heap, msg.types, ToSet(table))
      /\ Closed(msg.heap, ToSet(table)) /\ Len(table) = Cardinality(Reached(msg.heap, msg.types))
  BY <1>1, TableBuilt DEF TableOf
<1> HIDE DEF table
<1>3. Len(table) \in Nat
  BY <1>2 DEF IsTable
<1>4. EncodeTable(msg.heap, table) \in Seq(Bytes) /\ EncodeTypes(msg.heap, table, msg.types) \in Seq(Bytes)
  BY <1>1, <1>2, NodePiecesBytes, TypePiecesBytes
<1>5. DOMAIN msg.types = 1 .. n /\ n \in Nat
  BY <1>1
<1>6. ASSUME NEW i \in 1 .. n PROVE ValuePieces(msg)[i] \in Seq(Bytes)
  <2>1. Fits(msg.heap, msg.types[i], msg.values[i]) /\ msg.types[i] \in Refs(msg.heap)
    BY <1>1, <1>5
  <2>2. MaxDepth \in 0 .. MaxDepth
    BY DepthAssumption
  <2>3. Writes(msg.heap, Fitting(msg.heap)[MaxDepth], Encoder(msg.heap)[MaxDepth])
    BY <1>1, <2>2, EncoderWrites
  <2>4. EncodeValue(msg.heap, msg.types[i], msg.values[i]) \in Seq(Bytes)
    BY <2>1, <2>3 DEF Writes, Fits, EncodeValue
  <2>5. QED  BY <1>5, <2>4 DEF ValuePieces
<1>7. ValuePieces(msg) = [i \in 1 .. n |-> ValuePieces(msg)[i]]
  BY <1>5 DEF ValuePieces
<1>8. ValuePieces(msg) \in Seq(Seq(Bytes)) /\ Len(ValuePieces(msg)) = n
  BY <1>5, <1>6, <1>7, Pieces, Zenon
<1>9. FlattenSeq(ValuePieces(msg)) \in Seq(Bytes)
  BY <1>8, FlattenBytes
<1>10. Encode(msg) = EncodeTable(msg.heap, table) \o EncodeTypes(msg.heap, table, msg.types) \o FlattenSeq(ValuePieces(msg))
  BY DEF Encode, ValuePieces, table, TableOf
<1>11. Encode(msg) \in Seq(Bytes)
  BY <1>4, <1>9, <1>10
<1>12. QED  BY <1>2, <1>3, <1>4, <1>8, <1>9, <1>10, <1>11 DEF table

(* What is on the wire is nothing, or the message. *)
Sent == message \in Messages /\ (wire = << >> \/ wire = Encode(message))

(* Nothing is sent at first. *)
LEMMA SentAtFirst == Init => Sent
BY DEF Init, Sent

(* What was sent is kept, and what is sent anew is encode's. *)
LEMMA SentStep == Sent /\ [Next]_vars => Sent'
BY DEF Sent, Next, Send, Receive, vars

(* The first number of a message is the number of its types. *)
LEMMA CountHeld ==
  ASSUME NEW msg, IsMessage(msg)
  PROVE  /\ Holds(Encode(msg), 1, EncodeTable(msg.heap, TableOf(msg)))
         /\ DecodeU(Encode(msg), 1).val = Len(TableOf(msg))
<1> DEFINE table == TableOf(msg)
           e == EncodeTable(msg.heap, table)
           ts == EncodeTypes(msg.heap, table, msg.types)
           vs == FlattenSeq(ValuePieces(msg))
           ns == FlattenSeq(NodePieces(msg.heap, table))
<1>1. e \in Seq(Bytes) /\ ts \in Seq(Bytes) /\ vs \in Seq(Bytes) /\ Encode(msg) = (e \o ts) \o vs
      /\ Encode(msg) \in Seq(Bytes) /\ Len(table) \in Nat
  BY MessageBytes, Zenon
<1>2. e = EncodeU(Len(table)) \o ns /\ ns \in Seq(Bytes)
  BY MessageBytes, NodePiecesBytes, Zenon DEF IsMessage
<1>3. EncodeU(Len(table)) \in Seq(Bytes)
  BY <1>1, EncodeUBytes
<1> HIDE DEF table, e, ts, vs, ns
<1>4. Holds(Encode(msg), 1, (e \o ts) \o vs)
  BY <1>1, HoldsItself, Zenon
<1>5. e \o ts \in Seq(Bytes)
  BY <1>1
<1>6. Holds(Encode(msg), 1, e \o ts)
  BY <1>1, <1>4, <1>5, HoldsBoth, Zenon
<1>7. Holds(Encode(msg), 1, e)
  BY <1>1, <1>6, HoldsBoth
<1>8. Holds(Encode(msg), 1, EncodeU(Len(table)) \o ns)
  BY <1>2, <1>7
<1>9. Holds(Encode(msg), 1, EncodeU(Len(table)))
  BY <1>2, <1>3, <1>8, HoldsBoth
<1>10. DecodeU(Encode(msg), 1) = Got(Len(table), 1 + Len(EncodeU(Len(table))))
  BY <1>1, <1>9, UnsignedHeld
<1>11. DecodeU(Encode(msg), 1).val = Len(table)
  BY <1>10 DEF Got
<1>12. QED  BY <1>7, <1>11 DEF table, e

(* Every constructed type has one entry in the table, also one that is used *)
(* in several places, through several RecClass objects or inside itself.    *)
THEOREM TableMinimal == Spec => []TableIsMinimal
<1>1. Sent => TableIsMinimal
  <2>1. SUFFICES ASSUME Sent, wire # << >>
                 PROVE  DecodeU(wire, 1).val = Cardinality(Reached(message.heap, message.types))
    BY DEF TableIsMinimal
  <2>2. wire = Encode(message) /\ IsMessage(message)
    BY <2>1, MessagesAssumption DEF Sent
  <2>3. QED  BY <2>2, CountHeld, MessageBytes
<1>2. QED  BY <1>1, SentAtFirst, SentStep, PTL DEF Spec

---------------------------------------------------------------------------

(* Reading the table *)

(* A reading is over where the bytes are. *)
LEMMA LenBoth == \A c, d \in Seq(Bytes) : Len(c \o d) = Len(c) + Len(d) /\ Len(c) \in Nat /\ Len(d) \in Nat
OBVIOUS

(* The references of a list, as they are on the wire *)
WireRefs(heap, table, ts) == [i \in 1 .. Len(ts) |-> WireRef(heap, table, ts[i])]

(* One more of them *)
LEMMA AppendRef ==
  ASSUME NEW g, NEW k \in Nat, k > 0
  PROVE  Append([i \in 1 .. k - 1 |-> g[i]], g[k]) = [i \in 1 .. k |-> g[i]]
<1> DEFINE s == [i \in 1 .. k - 1 |-> g[i]]
           r == [i \in 1 .. k |-> g[i]]
           V == {g[i] : i \in 1 .. k}
<1>1. s \in Seq(V) /\ Len(s) = k - 1
  OBVIOUS
<1>2. r \in Seq(V) /\ Len(r) = k
  OBVIOUS
<1>3. g[k] \in V
  OBVIOUS
<1>4. Append(s, g[k]) \in Seq(V) /\ Len(Append(s, g[k])) = k
  BY <1>1, <1>3
<1>5. ASSUME NEW i \in 1 .. k PROVE Append(s, g[k])[i] = r[i]
  <2>1. CASE i = k
    BY <1>1, <2>1
  <2>2. CASE i # k
    <3>1. i \in 1 .. k - 1
      BY <2>2
    <3>2. Append(s, g[k])[i] = s[i]
      BY <1>1, <3>1
    <3>3. QED  BY <3>1, <3>2
  <2>3. QED  BY <2>1, <2>2
<1> HIDE DEF s, r, V
<1>6. Append(s, g[k]) = r
  BY <1>2, <1>4, <1>5, SeqEqual
<1>7. QED  BY <1>6 DEF s, r

(* A reference is read back as what was written. *)
LEMMA TypeRead ==
  ASSUME NEW heap, IsHeap(heap), NEW table, IsTable(heap, table),
         NEW t \in Refs(heap), Within(heap, t, ToSet(table)),
         NEW b, NEW at, Holds(b, at, EncodeType(heap, table, t))
  PROVE  DecodeI(b, at) = Got(WireRef(heap, table, t), at + Len(EncodeType(heap, table, t)))
<1>1. WireRef(heap, table, t) \in Int
  BY WireRefIs
<1>2. QED  BY <1>1, SignedHeld DEF EncodeType

(* The fields of a reading *)
LEMMA GotIs ==
  \A v, p : Got(v, p).ok = TRUE /\ Got(v, p).val = v /\ Got(v, p).at = p
BY DEF Got

(* One reference more is read. *)
LEMMA ReadTypeIs ==
  ASSUME NEW b, NEW s, NEW p, NEW v, NEW q, DecodeI(b, p) = Got(v, q)
  PROVE  ReadType(b, Got(s, p)) = Got(Append(s, v), q)
<1>1. Got(s, p).at = p /\ Got(s, p).val = s /\ Got(v, q).val = v /\ Got(v, q).at = q
  BY GotIs
<1>2. QED  BY <1>1 DEF ReadType

(* The first of a sequence *)
Begun(s, k) == [i \in 1 .. k |-> s[i]]

(* A list of references is read back. *)
LEMMA TypesRead ==
  ASSUME NEW heap, IsHeap(heap), NEW table, IsTable(heap, table),
         NEW ts \in Seq(Refs(heap)), AllWithin(heap, ts, ToSet(table)),
         NEW b, NEW at, Holds(b, at, EncodeTypes(heap, table, ts))
  PROVE  DecodeTypes(b, at)
           = Got(WireRefs(heap, table, ts), at + Len(EncodeTypes(heap, table, ts)))
<1> DEFINE n == Len(ts)
           head == EncodeU(n)
           pieces == TypePieces(heap, table, ts)
           flat == FlattenSeq(pieces)
           start == at + Len(head)
           refs == WireRefs(heap, table, ts)
<1>1. n \in Nat /\ DOMAIN ts = 1 .. n
  OBVIOUS
<1>2. pieces \in Seq(Seq(Bytes)) /\ Len(pieces) = n /\ flat \in Seq(Bytes)
      /\ EncodeTypes(heap, table, ts) = head \o flat
  BY TypePiecesBytes
<1>3. \A i \in 1 .. n : pieces[i] = EncodeType(heap, table, ts[i])
  BY <1>1 DEF TypePieces
<1>4. \A i \in 1 .. n : refs[i] = WireRef(heap, table, ts[i])
  BY <1>1 DEF WireRefs
<1>5. refs = Begun(refs, n)
  BY DEF WireRefs, Begun
<1>6. \A i \in 1 .. n : ts[i] \in Refs(heap) /\ Within(heap, ts[i], ToSet(table))
  BY <1>1 DEF AllWithin
<1>7. head \in Seq(Bytes)
  BY <1>1, EncodeUBytes
<1> HIDE DEF n, head, pieces, flat, refs
<1>8. Holds(b, at, head) /\ Holds(b, start, flat)
  BY <1>2, <1>7, HoldsBoth, Zenon
<1>9. DecodeU(b, at) = Got(n, start)
  BY <1>1, <1>8, UnsignedHeld DEF head
<1>10. PICK place : Places(b, start, pieces, place)
  BY <1>2, <1>8, HoldsEach DEF flat
<1>11. PICK f : /\ f[0] = Got(<< >>, start)
                /\ \A d \in 1 .. n : f[d] = ReadType(b, f[d - 1])
                /\ ReadTypes(b, start, n) = f[n]
  <2>1. \E f : ReadsTypes(b, start, n, f)
    BY <1>1, ReadTypesRuns, Zenon
  <2>2. QED  BY <2>1 DEF ReadsTypes
<1> DEFINE T == {k \in 0 .. n : f[k] = Got(Begun(refs, k), place[k])}
<1>12. 0 \in T
  <2>1. Begun(refs, 0) = << >>
    BY DEF Begun
  <2>2. QED  BY <1>1, <1>10, <1>11, <2>1 DEF Places
<1>13. ASSUME NEW k \in 1 .. n, k - 1 \in T PROVE k \in T
  <2>1. f[k - 1] = Got(Begun(refs, k - 1), place[k - 1])
    BY <1>13
  <2>2. f[k] = ReadType(b, Got(Begun(refs, k - 1), place[k - 1]))
    BY <1>11, <2>1
  <2>3. Holds(b, place[k - 1], EncodeType(heap, table, ts[k]))
        /\ place[k] = place[k - 1] + Len(EncodeType(heap, table, ts[k]))
    BY <1>2, <1>3, <1>10 DEF Places
  <2>4. DecodeI(b, place[k - 1]) = Got(WireRef(heap, table, ts[k]), place[k])
    BY <1>6, <2>3, TypeRead
  <2>5. f[k] = Got(Append(Begun(refs, k - 1), refs[k]), place[k])
    BY <1>4, <2>2, <2>4, ReadTypeIs
  <2>6. Append(Begun(refs, k - 1), refs[k]) = Begun(refs, k)
    BY <1>1, AppendRef DEF Begun
  <2>7. f[k] = Got(Begun(refs, k), place[k])
    BY <2>5, <2>6, Zenon
  <2>8. k \in 0 .. n
    BY <1>1
  <2>9. QED  BY <2>7, <2>8
<1> HIDE DEF T
<1>14. n \in T
  <2>1. \A k \in 0 .. n : k \in T
    BY <1>1, <1>12, <1>13, BoundedInduction, Zenon
  <2>2. QED  BY <1>1, <2>1
<1>15. ReadTypes(b, start, n) = Got(refs, place[n])
  BY <1>5, <1>11, <1>14 DEF T
<1>16. place[n] = start + Len(flat)
  BY <1>2, <1>10 DEF Places, flat
<1>17. DecodeTypes(b, at) = ReadTypes(b, start, n)
  BY <1>9 DEF DecodeTypes, Got
<1>18. start + Len(flat) = at + Len(EncodeTypes(heap, table, ts))
  <2>1. at \in Nat
    BY <1>8 DEF Holds, Position
  <2>2. Len(head \o flat) = Len(head) + Len(flat) /\ Len(head) \in Nat /\ Len(flat) \in Nat
    BY <1>2, <1>7, LenBoth
  <2>3. Len(EncodeTypes(heap, table, ts)) = Len(head) + Len(flat)
    BY <1>2, <2>2
  <2> DEFINE x == Len(head)
             y == Len(flat)
  <2> HIDE DEF x, y
  <2>4. (at + x) + y = at + (x + y)
    BY <2>1, <2>2 DEF x, y
  <2>5. QED  BY <2>3, <2>4 DEF x, y
<1>19. QED  BY <1>15, <1>16, <1>17, <1>18 DEF refs

(* A label is read back. *)
LEMMA LabelRead ==
  ASSUME NEW node, NEW label \in Nat, node.con = "service" => label \in 0 .. 127,
         NEW b, NEW at, Holds(b, at, EncodeLabel(node, label))
  PROVE  DecodeU(b, IF node.con = "service" THEN at + 1 ELSE at)
           = Got(label, at + Len(EncodeLabel(node, label)))
<1>0. at \in Nat
  BY DEF Holds, Position
<1>1. CASE node.con = "service"
  <2>1. label \in 0 .. 127
    BY <1>1
  <2>2. EncodeU(label) = <<label>>
    <3>1. EncodeU(label) = IF label < 128 THEN <<label>> ELSE <<128 + (label % 128)>> \o EncodeU(label \div 128)
      BY EncodeUStep, Zenon
    <3>2. label < 128
      BY <2>1
    <3>3. QED  BY <3>1, <3>2, Zenon
  <2>3. <<1>> \in Seq(Bytes) /\ <<label>> \in Seq(Bytes) /\ Len(<<1>>) = 1 /\ Len(<<label>>) = 1
    BY <2>1 DEF Bytes
  <2>4. EncodeLabel(node, label) = <<1, label>>
    BY <1>1 DEF EncodeLabel
  <2>5. <<1, label>> = <<1>> \o <<label>> /\ Len(<<1, label>>) = 2
    OBVIOUS
  <2>6. Holds(b, at, <<1>> \o <<label>>)
    BY <2>4, <2>5, Zenon
  <2>7. Holds(b, at + Len(<<1>>), <<label>>)
    BY <2>3, <2>6, HoldsBoth, Zenon
  <2>8. Holds(b, at + 1, EncodeU(label))
    BY <2>2, <2>3, <2>7
  <2>9. DecodeU(b, at + 1) = Got(label, (at + 1) + Len(EncodeU(label)))
    BY <2>8, UnsignedHeld
  <2>10. Len(EncodeU(label)) = 1 /\ Len(EncodeLabel(node, label)) = 2
    BY <2>2, <2>3, <2>4, <2>5
  <2>11. (at + 1) + Len(EncodeU(label)) = at + Len(EncodeLabel(node, label))
    BY <1>0, <2>10
  <2>12. QED  BY <1>1, <2>9, <2>11
<1>2. CASE node.con # "service"
  <2>1. EncodeLabel(node, label) = EncodeU(label)
    BY <1>2 DEF EncodeLabel
  <2>2. Holds(b, at, EncodeU(label))
    BY <2>1
  <2>3. DecodeU(b, at) = Got(label, at + Len(EncodeU(label)))
    BY <2>2, UnsignedHeld
  <2>4. QED  BY <1>2, <2>1, <2>3
<1>3. QED  BY <1>1, <1>2

(* One field more is read. *)
LEMMA ReadFieldIs ==
  ASSUME NEW b, NEW service, NEW s, NEW p, NEW label, NEW q, NEW v, NEW r,
         DecodeU(b, IF service THEN p + 1 ELSE p) = Got(label, q), DecodeI(b, q) = Got(v, r)
  PROVE  ReadField(b, service, Got(s, p)) = Got(Put(s, label, v), r)
<1>1. /\ Got(s, p).at = p /\ Got(s, p).val = s /\ Got(v, r).val = v /\ Got(v, r).at = r
      /\ Got(label, q).at = q /\ Got(label, q).val = label
  BY GotIs
<1>2. DecodeU(b, IF service THEN Got(s, p).at + 1 ELSE Got(s, p).at) = Got(label, q)
  BY <1>1
<1>3. QED  BY <1>1, <1>2 DEF ReadField

(* The fields of a type, as they are on the wire, up to the k-th *)
WireFields(heap, table, node, k) ==
  [h \in {SortedHashes(node)[i] : i \in 1 .. k} |-> WireRef(heap, table, node.fields[h])]

(* One of them more *)
LEMMA PutField ==
  ASSUME NEW heap, NEW table, NEW node, NEW k \in Nat, k > 0
  PROVE  Put(WireFields(heap, table, node, k - 1), SortedHashes(node)[k],
             WireRef(heap, table, node.fields[SortedHashes(node)[k]]))
           = WireFields(heap, table, node, k)
<1> DEFINE S(j) == {SortedHashes(node)[i] : i \in 1 .. j}
           x == SortedHashes(node)[k]
           ref(h) == WireRef(heap, table, node.fields[h])
<1>1. S(k) = S(k - 1) \cup {x}
  <2>1. 1 .. k = (1 .. k - 1) \cup {k}
    OBVIOUS
  <2> DEFINE A == 1 .. k - 1
             B == 1 .. k
  <2> HIDE DEF A, B
  <2>2. B = A \cup {k}
    BY <2>1 DEF A, B
  <2>3. {SortedHashes(node)[i] : i \in B} = {SortedHashes(node)[i] : i \in A} \cup {x}
    BY <2>2
  <2>4. QED  BY <2>3 DEF A, B
<1>2. WireFields(heap, table, node, k - 1) = [h \in S(k - 1) |-> ref(h)]
  BY DEF WireFields
<1>3. WireFields(heap, table, node, k) = [h \in S(k) |-> ref(h)]
  BY DEF WireFields
<1> HIDE DEF S, x, ref
<1>4. Put([h \in S(k - 1) |-> ref(h)], x, ref(x)) = [h \in S(k - 1) \cup {x} |-> ref(h)]
  BY DEF Put
<1>5. Put(WireFields(heap, table, node, k - 1), x, ref(x)) = WireFields(heap, table, node, k)
  BY <1>1, <1>2, <1>3, <1>4
<1>6. QED  BY <1>5 DEF x, ref

(* The fields of a type are read back. *)
LEMMA FieldsRead ==
  ASSUME NEW heap, IsHeap(heap), NEW table, IsTable(heap, table),
         NEW o \in DOMAIN heap, HasFields(heap[o]), NodeWithin(heap, heap[o], ToSet(table)),
         NEW b, NEW at, Holds(b, at, FlattenSeq(FieldPieces(heap, table, heap[o])))
  PROVE  ReadFields(b, at, heap[o].con = "service", Len(SortedHashes(heap[o])))
           = Got([h \in DOMAIN heap[o].fields |-> WireRef(heap, table, heap[o].fields[h])],
                 at + Len(FlattenSeq(FieldPieces(heap, table, heap[o]))))
<1> DEFINE node == heap[o]
           labels == SortedHashes(node)
           n == Len(labels)
           pieces == FieldPieces(heap, table, node)
           flat == FlattenSeq(pieces)
           service == node.con = "service"
           part(k) == WireFields(heap, table, node, k)
<1>1. /\ Sorted(DOMAIN node.fields, labels) /\ DOMAIN node.fields \subseteq Nat
      /\ node.con = "service" => DOMAIN node.fields \subseteq 0 .. 127
      /\ \A h \in DOMAIN node.fields : node.fields[h] \in Refs(heap)
  BY NodeShapes, Zenon
<1>2. n \in Nat /\ \A i \in 1 .. n : labels[i] \in DOMAIN node.fields
  BY <1>1 DEF Sorted
<1>3. /\ pieces \in Seq(Seq(Bytes)) /\ Len(pieces) = n
      /\ \A i \in 1 .. n :
           /\ pieces[i] = EncodeLabel(node, labels[i]) \o EncodeType(heap, table, node.fields[labels[i]])
           /\ EncodeLabel(node, labels[i]) \in Seq(Bytes)
           /\ EncodeType(heap, table, node.fields[labels[i]]) \in Seq(Bytes)
  BY FieldPiecesBytes
<1>4. \A i \in 1 .. n : Within(heap, node.fields[labels[i]], ToSet(table))
  BY <1>2 DEF NodeWithin
<1>5. part(n) = [h \in DOMAIN node.fields |-> WireRef(heap, table, node.fields[h])]
  <2>1. {labels[i] : i \in 1 .. n} = DOMAIN node.fields
    BY <1>1, <1>2 DEF Sorted
  <2>2. QED  BY <2>1 DEF WireFields
<1> HIDE DEF node, labels, n, pieces, flat, service
<1>6. Holds(b, at, flat)
  BY DEF flat, pieces, node
<1>7. PICK place : Places(b, at, pieces, place)
  BY <1>3, <1>6, HoldsEach DEF flat
<1>8. PICK f : /\ f[0] = Got(<< >>, at)
               /\ \A d \in 1 .. n : f[d] = ReadField(b, service, f[d - 1])
               /\ ReadFields(b, at, service, n) = f[n]
  <2>1. \E f : ReadsFields(b, at, service, n, f)
    BY <1>2, ReadFieldsRuns
  <2>2. QED  BY <2>1 DEF ReadsFields
<1> DEFINE T == {k \in 0 .. n : f[k] = Got(part(k), place[k])}
<1>9. 0 \in T
  <2>1. part(0) = << >>
    BY DEF WireFields
  <2>2. QED  BY <1>2, <1>7, <1>8, <2>1 DEF Places
<1> HIDE DEF part
<1>10. ASSUME NEW k \in 1 .. n, k - 1 \in T PROVE k \in T
  <2> DEFINE label == labels[k]
             t == node.fields[label]
             lb == EncodeLabel(node, label)
             tb == EncodeType(heap, table, t)
  <2>1. f[k - 1] = Got(part(k - 1), place[k - 1])
    BY <1>10
  <2>2. f[k] = ReadField(b, service, Got(part(k - 1), place[k - 1]))
    BY <1>8, <2>1
  <2>3. label \in DOMAIN node.fields /\ t \in Refs(heap) /\ Within(heap, t, ToSet(table))
    BY <1>1, <1>2, <1>4
  <2>4. label \in Nat /\ (node.con = "service" => label \in 0 .. 127)
    BY <1>1, <2>3
  <2>5. pieces[k] = lb \o tb /\ lb \in Seq(Bytes) /\ tb \in Seq(Bytes)
    BY <1>3, Zenon
  <2> HIDE DEF label, t, lb, tb
  <2>6. Holds(b, place[k - 1], lb \o tb) /\ place[k] = place[k - 1] + Len(lb \o tb)
    BY <1>3, <1>7, <2>5, Zenon DEF Places
  <2>7. Holds(b, place[k - 1], lb) /\ Holds(b, place[k - 1] + Len(lb), tb)
    BY <2>5, <2>6, HoldsBoth
  <2>8. DecodeU(b, IF service THEN place[k - 1] + 1 ELSE place[k - 1]) = Got(label, place[k - 1] + Len(lb))
    BY <2>4, <2>7, LabelRead DEF lb, service
  <2>9. DecodeI(b, place[k - 1] + Len(lb)) = Got(WireRef(heap, table, t), (place[k - 1] + Len(lb)) + Len(tb))
    BY <2>3, <2>7, TypeRead DEF tb
  <2>10. (place[k - 1] + Len(lb)) + Len(tb) = place[k]
    <3>1. place[k - 1] \in Nat
      BY <2>7 DEF Holds, Position
    <3>2. Len(lb \o tb) = Len(lb) + Len(tb) /\ Len(lb) \in Nat /\ Len(tb) \in Nat
      BY <2>5, LenBoth
    <3>3. QED  BY <2>6, <3>1, <3>2
  <2>11. f[k] = Got(Put(part(k - 1), label, WireRef(heap, table, t)), place[k])
    BY <2>2, <2>8, <2>9, <2>10, ReadFieldIs
  <2>12. Put(part(k - 1), label, WireRef(heap, table, t)) = part(k)
    <3>1. k \in Nat /\ k > 0
      BY <1>2
    <3>2. Put(WireFields(heap, table, node, k - 1), SortedHashes(node)[k],
              WireRef(heap, table, node.fields[SortedHashes(node)[k]])) = WireFields(heap, table, node, k)
      BY <3>1, PutField, Zenon
    <3>3. QED  BY <3>2 DEF part, label, t, labels
  <2>13. f[k] = Got(part(k), place[k])
    BY <2>11, <2>12, Zenon
  <2>14. k \in 0 .. n
    BY <1>2
  <2>15. QED  BY <2>13, <2>14
<1> HIDE DEF T
<1>11. n \in T
  <2>1. \A k \in 0 .. n : k \in T
    BY <1>2, <1>9, <1>10, BoundedInduction
  <2>2. QED  BY <1>2, <2>1
<1>12. place[n] = at + Len(flat)
  BY <1>3, <1>7 DEF Places, flat
<1>13. ReadFields(b, at, service, n) = Got(part(n), at + Len(flat))
  BY <1>8, <1>11, <1>12 DEF T
<1>14. QED  BY <1>5, <1>13 DEF node, labels, n, pieces, flat, service, part

(* A type of the table, as it is on the wire *)
WireNode(heap, table, node) ==
  IF HasFields(node)
  THEN [con |-> node.con, fields |-> [h \in DOMAIN node.fields |-> WireRef(heap, table, node.fields[h])]]
  ELSE IF node.con = "func"
  THEN Func(WireRefs(heap, table, node.args), WireRefs(heap, table, node.rets))
  ELSE [con |-> node.con, arg |-> WireRef(heap, table, node.arg)]

(* What is read behind the opcode of a type *)
DecodeBody(b, con, at) ==
  CASE con \in {"opt", "vec"} ->
         LET t == DecodeI(b, at) IN Got([con |-> con, arg |-> t.val], t.at)
    [] con \in {"record", "variant", "service"} ->
         LET count  == DecodeU(b, at)
             fields == ReadFields(b, count.at, con = "service", count.val)
         IN  Got([con |-> con, fields |-> fields.val], fields.at)
    [] con = "func" ->
         LET args == DecodeTypes(b, at)
             rets == DecodeTypes(b, args.at)
         IN  Got(Func(args.val, rets.val), rets.at + 1)

(* The opcode says what it is. *)
LEMMA DecodeNodeIs ==
  ASSUME NEW b, NEW at, NEW con, con \in DOMAIN TypeIds, NEW p, DecodeI(b, at) = Got(TypeIds[con], p)
  PROVE  DecodeNode(b, at) = DecodeBody(b, con, p)
<1>1. Got(TypeIds[con], p).val = TypeIds[con] /\ Got(TypeIds[con], p).at = p
  BY GotIs
<1>2. (CHOOSE c \in DOMAIN TypeIds : TypeIds[c] = TypeIds[con]) = con
  BY Opcodes
<1>3. DecodeNode(b, at)
        = DecodeBody(b, CHOOSE c \in DOMAIN TypeIds : TypeIds[c] = DecodeI(b, at).val, DecodeI(b, at).at)
  BY Zenon DEF DecodeNode, DecodeBody
<1>4. DecodeNode(b, at) = DecodeBody(b, CHOOSE c \in DOMAIN TypeIds : TypeIds[c] = TypeIds[con], p)
  BY <1>1, <1>3, Zenon
<1>5. QED  BY <1>2, <1>4, Zenon

(* Reading an opt or a vec *)
LEMMA DecodeOptIs ==
  ASSUME NEW b, NEW at, NEW con, con \in {"opt", "vec"}, NEW p, DecodeI(b, at) = Got(TypeIds[con], p),
         NEW t, NEW q, DecodeI(b, p) = Got(t, q)
  PROVE  DecodeNode(b, at) = Got([con |-> con, arg |-> t], q)
<1>1. Got(t, q).val = t /\ Got(t, q).at = q
  BY GotIs
<1>2. DecodeNode(b, at) = DecodeBody(b, con, p)
  BY DecodeNodeIs, Opcodes
<1>3. QED  BY <1>1, <1>2 DEF DecodeBody

(* Reading a record, a variant or a service *)
LEMMA DecodeFieldsIs ==
  ASSUME NEW b, NEW at, NEW con, con \in {"record", "variant", "service"}, NEW p,
         DecodeI(b, at) = Got(TypeIds[con], p), NEW n, NEW q, DecodeU(b, p) = Got(n, q),
         NEW f, NEW r, ReadFields(b, q, con = "service", n) = Got(f, r)
  PROVE  DecodeNode(b, at) = Got([con |-> con, fields |-> f], r)
<1>1. /\ Got(n, q).val = n /\ Got(n, q).at = q /\ Got(f, r).val = f /\ Got(f, r).at = r
  BY GotIs
<1>2. DecodeNode(b, at) = DecodeBody(b, con, p)
  BY DecodeNodeIs, Opcodes
<1>3. QED  BY <1>1, <1>2 DEF DecodeBody

(* Reading a func *)
LEMMA DecodeFuncIs ==
  ASSUME NEW b, NEW at, NEW p, DecodeI(b, at) = Got(TypeIds["func"], p),
         NEW s, NEW q, DecodeTypes(b, p) = Got(s, q), NEW r, NEW u, DecodeTypes(b, q) = Got(r, u)
  PROVE  DecodeNode(b, at) = Got(Func(s, r), u + 1)
<1>1. /\ Got(s, q).val = s /\ Got(s, q).at = q /\ Got(r, u).val = r /\ Got(r, u).at = u
  BY GotIs
<1>2. DecodeNode(b, at) = DecodeBody(b, "func", p)
  BY DecodeNodeIs, Opcodes
<1>3. QED  BY <1>1, <1>2 DEF DecodeBody

(* Bytes are held in two parts, the second from mid on and up to end. *)
Split(b, at, c, d, mid, end) ==
  mid = at + Len(c) /\ end = mid + Len(d) /\ Holds(b, at, c) /\ Holds(b, mid, d)

(* Bytes that are held are held in parts. *)
LEMMA Behind ==
  ASSUME NEW b, NEW at, NEW c \in Seq(Bytes), NEW d \in Seq(Bytes), NEW code, code = c \o d, Holds(b, at, code)
  PROVE  Split(b, at, c, d, at + Len(c), at + Len(code))
<1>1. Holds(b, at, c) /\ Holds(b, at + Len(c), d)
  BY HoldsBoth
<1>2. at \in Nat
  BY <1>1 DEF Holds, Position
<1>3. Len(c \o d) = Len(c) + Len(d) /\ Len(c) \in Nat /\ Len(d) \in Nat
  BY LenBoth
<1>4. QED  BY <1>1, <1>2, <1>3 DEF Split

(* A type is read back. *)
LEMMA NodeRead ==
  ASSUME NEW heap, IsHeap(heap), NEW table, IsTable(heap, table),
         NEW o \in DOMAIN heap, heap[o].con # "rec", NodeWithin(heap, heap[o], ToSet(table)),
         NEW b, NEW at, Holds(b, at, EncodeNode(heap, table, heap[o]))
  PROVE  DecodeNode(b, at)
           = Got(WireNode(heap, table, heap[o]), at + Len(EncodeNode(heap, table, heap[o])))
<1> DEFINE node == heap[o]
           code == EncodeNode(heap, table, node)
           op == EncodeI(TypeIds[node.con])
           here == at + Len(op)
<1>1. node.con \in {"opt", "vec", "func", "record", "variant", "service"}
  BY NodeShapes
<1>2. TypeIds[node.con] \in Int
  BY <1>1, Opcodes
<1>3. op \in Seq(Bytes)
  BY <1>2, EncodeIBytes
<1>4. Holds(b, at, op) => DecodeI(b, at) = Got(TypeIds[node.con], here)
  BY <1>2, SignedHeld
<1>5. CASE HasFields(node)
  <2> DEFINE n == Len(SortedHashes(node))
             head == EncodeU(n)
             flat == FlattenSeq(FieldPieces(heap, table, node))
             rest == head \o flat
             fields == [h \in DOMAIN node.fields |-> WireRef(heap, table, node.fields[h])]
  <2>1. code = op \o rest
    BY <1>5 DEF EncodeNode, FieldPieces
  <2>2. n \in Nat
    BY <1>5, NodeShapes DEF Sorted
  <2>3. head \in Seq(Bytes) /\ flat \in Seq(Bytes) /\ rest \in Seq(Bytes)
    <3>1. head \in Seq(Bytes)
      BY <2>2, EncodeUBytes
    <3>2. flat \in Seq(Bytes)
      BY <1>5, FieldPiecesBytes, FlattenBytes
    <3>3. QED  BY <3>1, <3>2, Joined
  <2>4. ReadFields(b, here + Len(head), node.con = "service", n)
          = Got(fields, (here + Len(head)) + Len(flat)) \/ ~ Holds(b, here + Len(head), flat)
    BY <1>5, FieldsRead
  <2>5. WireNode(heap, table, node) = [con |-> node.con, fields |-> fields]
    BY <1>5 DEF WireNode
  <2>6. node.con \in {"record", "variant", "service"}
    BY <1>5 DEF HasFields
  <2>7. Holds(b, at, code) /\ rest = head \o flat
    OBVIOUS
  <2> HIDE DEF node, code, op, n, head, flat, rest, fields
  <2>8. Split(b, at, op, rest, here, at + Len(code))
    BY <1>3, <2>1, <2>3, <2>7, Behind, Zenon
  <2>9. Split(b, here, head, flat, here + Len(head), here + Len(rest))
    <3>1. Holds(b, here, rest)
      BY <2>8 DEF Split
    <3>2. QED  BY <2>3, <2>7, <3>1, Behind, Zenon
  <2>10. DecodeI(b, at) = Got(TypeIds[node.con], here)
    BY <1>4, <2>8 DEF Split
  <2>11. DecodeU(b, here) = Got(n, here + Len(head))
    BY <2>2, <2>9, UnsignedHeld, Zenon DEF head, Split
  <2>12. ReadFields(b, here + Len(head), node.con = "service", n) = Got(fields, at + Len(code))
    BY <2>4, <2>8, <2>9, Zenon DEF Split
  <2>13. DecodeNode(b, at) = Got([con |-> node.con, fields |-> fields], at + Len(code))
    <3> DEFINE con == node.con
               mid == here + Len(head)
               end == at + Len(code)
    <3> HIDE DEF here, con, mid, end
    <3>1. con \in {"record", "variant", "service"}
      BY <2>6 DEF con
    <3>2. /\ DecodeI(b, at) = Got(TypeIds[con], here) /\ DecodeU(b, here) = Got(n, mid)
          /\ ReadFields(b, mid, con = "service", n) = Got(fields, end)
      BY <2>10, <2>11, <2>12 DEF con, mid, end, here
    <3>3. DecodeNode(b, at) = Got([con |-> con, fields |-> fields], end)
      BY <3>1, <3>2, DecodeFieldsIs
    <3>4. QED  BY <3>3 DEF con, mid, end
  <2>14. QED  BY <2>5, <2>13 DEF node, code
<1>6. CASE node.con = "func"
  <2> DEFINE args == EncodeTypes(heap, table, node.args)
             rets == EncodeTypes(heap, table, node.rets)
             rest == (args \o rets) \o <<0>>
  <2>1. code = op \o rest
    <3>1. code = op \o (args \o rets \o <<0>>)
      BY <1>6, Zenon DEF EncodeNode, HasFields
    <3>2. QED  BY <3>1
  <2>2. node.args \in Seq(Refs(heap)) /\ node.rets \in Seq(Refs(heap))
        /\ AllWithin(heap, node.args, ToSet(table)) /\ AllWithin(heap, node.rets, ToSet(table))
    BY <1>6, NodeShapes DEF NodeWithin
  <2>3. args \in Seq(Bytes) /\ rets \in Seq(Bytes)
    BY <2>2, TypePiecesBytes
  <2>4. <<0>> \in Seq(Bytes) /\ args \o rets \in Seq(Bytes) /\ rest \in Seq(Bytes) /\ Len(<<0>>) = 1
    <3>1. <<0>> \in Seq(Bytes) /\ Len(<<0>>) = 1
      BY DEF Bytes
    <3>2. args \o rets \in Seq(Bytes)
      BY <2>3, Joined
    <3>3. rest \in Seq(Bytes)
      BY <3>1, <3>2, Joined
    <3>4. QED  BY <3>1, <3>2, <3>3
  <2>5. /\ Holds(b, here, args)
             => DecodeTypes(b, here) = Got(WireRefs(heap, table, node.args), here + Len(args))
        /\ Holds(b, here + Len(args), rets)
             => DecodeTypes(b, here + Len(args))
                  = Got(WireRefs(heap, table, node.rets), (here + Len(args)) + Len(rets))
    BY <2>2, TypesRead
  <2>6. WireNode(heap, table, node) = Func(WireRefs(heap, table, node.args), WireRefs(heap, table, node.rets))
    BY <1>6 DEF WireNode, HasFields
  <2>7. Holds(b, at, code) /\ rest = (args \o rets) \o <<0>>
    OBVIOUS
  <2> HIDE DEF node, code, op, args, rets, rest
  <2>8. Split(b, at, op, rest, here, at + Len(code))
    BY <1>3, <2>1, <2>4, <2>7, Behind, Zenon
  <2>9. Split(b, here, args \o rets, <<0>>, here + Len(args \o rets), here + Len(rest))
    <3>1. Holds(b, here, rest)
      BY <2>8 DEF Split
    <3>2. QED  BY <2>4, <2>7, <3>1, Behind, Zenon
  <2>10. Split(b, here, args, rets, here + Len(args), here + Len(args \o rets))
    <3>1. Holds(b, here, args \o rets)
      BY <2>9 DEF Split
    <3>2. QED  BY <2>3, <3>1, Behind, Zenon
  <2>11. DecodeI(b, at) = Got(TypeIds["func"], here)
    BY <1>4, <1>6, <2>8 DEF Split
  <2>12. DecodeNode(b, at) = Got(Func(WireRefs(heap, table, node.args), WireRefs(heap, table, node.rets)),
                                 ((here + Len(args)) + Len(rets)) + 1)
    <3>1. /\ DecodeTypes(b, here) = Got(WireRefs(heap, table, node.args), here + Len(args))
          /\ DecodeTypes(b, here + Len(args))
               = Got(WireRefs(heap, table, node.rets), (here + Len(args)) + Len(rets))
      BY <2>5, <2>10, Zenon DEF Split
    <3> DEFINE args1 == WireRefs(heap, table, node.args)
               rets1 == WireRefs(heap, table, node.rets)
               mid == here + Len(args)
               end == mid + Len(rets)
    <3>2. DecodeTypes(b, here) = Got(args1, mid) /\ DecodeTypes(b, mid) = Got(rets1, end)
      BY <3>1
    <3> HIDE DEF here, args1, rets1, mid, end
    <3>3. DecodeI(b, at) = Got(TypeIds["func"], here)
      BY <2>11 DEF here
    <3>4. DecodeNode(b, at) = Got(Func(args1, rets1), end + 1)
      BY <3>2, <3>3, DecodeFuncIs
    <3>5. QED  BY <3>4 DEF args1, rets1, mid, end
  <2>13. ((here + Len(args)) + Len(rets)) + 1 = at + Len(code)
    <3>1. (here + Len(args)) + Len(rets) = here + Len(args \o rets)
      BY <2>10, Zenon DEF Split
    <3>2. at + Len(code) = here + Len(rest)
      BY <2>8, Zenon DEF Split
    <3>3. here + Len(rest) = (here + Len(args \o rets)) + Len(<<0>>)
      BY <2>9, Zenon DEF Split
    <3>4. QED  BY <2>4, <3>1, <3>2, <3>3, Zenon
  <2>14. QED  BY <2>6, <2>12, <2>13, Zenon DEF node, code
<1>7. CASE node.con \in {"opt", "vec"}
  <2> DEFINE rest == EncodeType(heap, table, node.arg)
  <2>1. code = op \o rest
    BY <1>7, Zenon DEF EncodeNode, HasFields
  <2>2. node.arg \in Refs(heap) /\ Within(heap, node.arg, ToSet(table))
    BY <1>7, NodeShapes DEF NodeWithin
  <2>3. rest \in Seq(Bytes)
    BY <2>2, EncodeTypeBytes
  <2>4. Holds(b, here, rest) => DecodeI(b, here) = Got(WireRef(heap, table, node.arg), here + Len(rest))
    BY <2>2, TypeRead
  <2>5. WireNode(heap, table, node) = [con |-> node.con, arg |-> WireRef(heap, table, node.arg)]
    BY <1>7 DEF WireNode, HasFields
  <2>6. Holds(b, at, code)
    OBVIOUS
  <2> HIDE DEF node, code, op, rest
  <2>7. Split(b, at, op, rest, here, at + Len(code))
    BY <1>3, <2>1, <2>3, <2>6, Behind, Zenon
  <2>8. DecodeNode(b, at) = Got([con |-> node.con, arg |-> WireRef(heap, table, node.arg)], here + Len(rest))
    <3>1. DecodeI(b, at) = Got(TypeIds[node.con], here)
      BY <1>4, <2>7 DEF Split
    <3>2. DecodeI(b, here) = Got(WireRef(heap, table, node.arg), here + Len(rest))
      BY <2>4, <2>7, Zenon DEF Split
    <3> DEFINE con == node.con
               ref == WireRef(heap, table, node.arg)
               end == here + Len(rest)
    <3> HIDE DEF here, con, ref, end
    <3>3. con \in {"opt", "vec"}
      BY <1>7 DEF con
    <3>4. DecodeI(b, at) = Got(TypeIds[con], here) /\ DecodeI(b, here) = Got(ref, end)
      BY <3>1, <3>2 DEF con, ref, end
    <3>5. DecodeNode(b, at) = Got([con |-> con, arg |-> ref], end)
      BY <3>3, <3>4, DecodeOptIs
    <3>6. QED  BY <3>5 DEF con, ref, end
  <2>9. at + Len(code) = here + Len(rest)
    BY <2>7, Zenon DEF Split
  <2>10. QED  BY <2>5, <2>8, <2>9, Zenon DEF node, code
<1>8. QED  BY <1>1, <1>5, <1>6, <1>7 DEF HasFields

(* The types of the table, as they are on the wire *)
WireNodes(heap, table) == [i \in 1 .. Len(table) |-> WireNode(heap, table, heap[table[i]])]

(* The heap that raw_table becomes *)
WireHeap(heap, table) ==
  [i \in 0 .. 2 * Len(table) - 1 |->
     IF i < Len(table) THEN Rec(Len(table) + i) ELSE WireNodes(heap, table)[i - Len(table) + 1]]

(* One type more is read. *)
LEMMA ReadNodeIs ==
  ASSUME NEW b, NEW s, NEW p, NEW v, NEW q, DecodeNode(b, p) = Got(v, q)
  PROVE  ReadNode(b, Got(s, p)) = Got(Append(s, v), q)
<1>1. Got(s, p).at = p /\ Got(s, p).val = s /\ Got(v, q).val = v /\ Got(v, q).at = q
  BY GotIs
<1>2. QED  BY <1>1 DEF ReadNode

(* decode reads the table that encode wrote, wherever it stands, type by type. *)
THEOREM TableRead ==
  ASSUME NEW heap, IsHeap(heap), NEW table, IsTable(heap, table), Closed(heap, ToSet(table)),
         NEW b, NEW at, Holds(b, at, EncodeTable(heap, table))
  PROVE  DecodeTable(b, at) = Got(WireHeap(heap, table), at + Len(EncodeTable(heap, table)))
<1> DEFINE n == Len(table)
           head == EncodeU(n)
           pieces == NodePieces(heap, table)
           flat == FlattenSeq(pieces)
           code == EncodeTable(heap, table)
           start == at + Len(head)
           nodes == WireNodes(heap, table)
<1>1. n \in Nat
  BY DEF IsTable
<1>2. pieces \in Seq(Seq(Bytes)) /\ Len(pieces) = n /\ flat \in Seq(Bytes) /\ code = head \o flat
  BY NodePiecesBytes
<1>3. \A i \in 1 .. n :
        /\ table[i] \in DOMAIN heap /\ heap[table[i]].con # "rec"
        /\ NodeWithin(heap, heap[table[i]], ToSet(table))
        /\ pieces[i] = EncodeNode(heap, table, heap[table[i]])
  BY NodePiecesBytes
<1>4. \A i \in 1 .. n : nodes[i] = WireNode(heap, table, heap[table[i]])
  BY DEF WireNodes
<1>5. nodes = Begun(nodes, n)
  BY DEF WireNodes, Begun
<1>6. head \in Seq(Bytes)
  BY <1>1, EncodeUBytes
<1>7. Holds(b, at, code)
  OBVIOUS
<1> HIDE DEF n, head, pieces, flat, code, nodes
<1>8. Split(b, at, head, flat, start, at + Len(code))
  BY <1>2, <1>6, <1>7, Behind, Zenon
<1> HIDE DEF start
<1>9. DecodeU(b, at) = Got(n, start)
  BY <1>1, <1>8, UnsignedHeld DEF head, Split
<1>10. PICK place : Places(b, start, pieces, place)
  BY <1>2, <1>8, HoldsEach DEF flat, Split
<1>11. PICK f : /\ f[0] = Got(<< >>, start)
                /\ \A d \in 1 .. n : f[d] = ReadNode(b, f[d - 1])
                /\ ReadNodes(b, start, n) = f[n]
  <2>1. \E f : ReadsNodes(b, start, n, f)
    BY <1>1, ReadNodesRuns
  <2>2. QED  BY <2>1 DEF ReadsNodes
<1> DEFINE T == {k \in 0 .. n : f[k] = Got(Begun(nodes, k), place[k])}
<1>12. 0 \in T
  <2>1. Begun(nodes, 0) = << >>
    BY DEF Begun
  <2>2. QED  BY <1>1, <1>10, <1>11, <2>1 DEF Places
<1>13. ASSUME NEW k \in 1 .. n, k - 1 \in T PROVE k \in T
  <2>1. f[k - 1] = Got(Begun(nodes, k - 1), place[k - 1])
    BY <1>13
  <2>2. f[k] = ReadNode(b, Got(Begun(nodes, k - 1), place[k - 1]))
    BY <1>11, <2>1
  <2>3. Holds(b, place[k - 1], EncodeNode(heap, table, heap[table[k]]))
        /\ place[k] = place[k - 1] + Len(EncodeNode(heap, table, heap[table[k]]))
    BY <1>2, <1>3, <1>10 DEF Places
  <2>4. DecodeNode(b, place[k - 1]) = Got(nodes[k], place[k])
    BY <1>3, <1>4, <2>3, NodeRead
  <2>5. f[k] = Got(Append(Begun(nodes, k - 1), nodes[k]), place[k])
    BY <2>2, <2>4, ReadNodeIs
  <2>6. Append(Begun(nodes, k - 1), nodes[k]) = Begun(nodes, k)
    BY <1>1, AppendRef DEF Begun
  <2>7. f[k] = Got(Begun(nodes, k), place[k])
    BY <2>5, <2>6, Zenon
  <2>8. k \in 0 .. n
    BY <1>1
  <2>9. QED  BY <2>7, <2>8
<1> HIDE DEF T
<1>14. n \in T
  <2>1. \A k \in 0 .. n : k \in T
    BY <1>1, <1>12, <1>13, BoundedInduction
  <2>2. QED  BY <1>1, <2>1
<1>15. ReadNodes(b, start, n) = Got(nodes, place[n])
  BY <1>5, <1>11, <1>14 DEF T
<1>16. place[n] = at + Len(code)
  <2>1. place[n] = start + Len(flat)
    BY <1>2, <1>10 DEF Places, flat
  <2>2. QED  BY <1>8, <2>1 DEF Split
<1>17. ReadNodes(b, start, n) = Got(nodes, at + Len(code))
  BY <1>15, <1>16
<1>18. DecodeTable(b, at) = Got([i \in 0 .. 2 * n - 1 |-> IF i < n THEN Rec(n + i) ELSE nodes[i - n + 1]], at + Len(code))
  <2>1. Got(n, start).val = n /\ Got(n, start).at = start
        /\ Got(nodes, at + Len(code)).val = nodes /\ Got(nodes, at + Len(code)).at = at + Len(code)
    BY GotIs
  <2>2. QED  BY <1>9, <1>17, <2>1, Zenon DEF DecodeTable
<1>19. QED  BY <1>18 DEF WireHeap, n, nodes, code

(* The types of the message and its values, as they are on the wire *)
SentTypes(msg) == [heap  |-> WireHeap(msg.heap, TableOf(msg)),
                   types |-> WireRefs(msg.heap, TableOf(msg), msg.types)]

(* Where the types of a message start, and where its values do *)
TypesAt(msg) == 1 + Len(EncodeTable(msg.heap, TableOf(msg)))

ValuesAt(msg) == TypesAt(msg) + Len(EncodeTypes(msg.heap, TableOf(msg), msg.types))

(* What decode reads before the values *)
LEMMA HeaderRead ==
  ASSUME NEW msg, IsMessage(msg)
  PROVE  /\ DecodeTable(Encode(msg), 1) = Got(WireHeap(msg.heap, TableOf(msg)), TypesAt(msg))
         /\ \A expected : Decode(Encode(msg), expected)
                            = DecodeAs(expected, SentTypes(msg), Encode(msg), ValuesAt(msg))
         /\ Holds(Encode(msg), ValuesAt(msg), FlattenSeq(ValuePieces(msg)))
         /\ ValuesAt(msg) + Len(FlattenSeq(ValuePieces(msg))) = Len(Encode(msg)) + 1
<1> DEFINE table == TableOf(msg)
           heap == msg.heap
           b == Encode(msg)
           e == EncodeTable(heap, table)
           ts == EncodeTypes(heap, table, msg.types)
           vs == FlattenSeq(ValuePieces(msg))
           et == e \o ts
<1>0. IsHeap(heap) /\ msg.types \in Seq(Refs(heap))
  BY DEF IsMessage
<1>1. /\ IsTable(heap, table) /\ Closed(heap, ToSet(table)) /\ AllWithin(heap, msg.types, ToSet(table))
      /\ e \in Seq(Bytes) /\ ts \in Seq(Bytes) /\ vs \in Seq(Bytes)
      /\ b \in Seq(Bytes) /\ b = et \o vs
  BY MessageBytes, Zenon
<1>2. et \in Seq(Bytes)
  BY <1>1, Joined
<1>3. et = e \o ts
  OBVIOUS
<1> HIDE DEF table, heap, b, e, ts, vs, et
<1>4. Holds(b, 1, b)
  BY <1>1, HoldsItself, Zenon
<1>5. Split(b, 1, et, vs, 1 + Len(et), 1 + Len(b))
  BY <1>1, <1>2, <1>4, Behind, Zenon
<1>6. Split(b, 1, e, ts, 1 + Len(e), 1 + Len(et))
  <2>1. Holds(b, 1, et)
    BY <1>5 DEF Split
  <2>2. QED  BY <1>1, <1>3, <2>1, Behind, Zenon
<1>7. TypesAt(msg) = 1 + Len(e) /\ ValuesAt(msg) = TypesAt(msg) + Len(ts)
  BY DEF TypesAt, ValuesAt, table, e, ts, heap
<1>8. ValuesAt(msg) = 1 + Len(et)
  BY <1>6, <1>7, Zenon DEF Split
<1>9. DecodeTable(b, 1) = Got(WireHeap(heap, table), TypesAt(msg))
  <2>1. Holds(b, 1, EncodeTable(heap, table))
    BY <1>6 DEF Split, e
  <2>2. DecodeTable(b, 1) = Got(WireHeap(heap, table), 1 + Len(EncodeTable(heap, table)))
    BY <1>0, <1>1, <2>1, TableRead
  <2>3. QED  BY <1>7, <2>2 DEF e
<1>10. DecodeTypes(b, TypesAt(msg)) = Got(WireRefs(heap, table, msg.types), ValuesAt(msg))
  <2>1. Holds(b, TypesAt(msg), EncodeTypes(heap, table, msg.types))
    BY <1>6, <1>7 DEF Split, ts
  <2>2. DecodeTypes(b, TypesAt(msg))
          = Got(WireRefs(heap, table, msg.types), TypesAt(msg) + Len(EncodeTypes(heap, table, msg.types)))
    BY <1>0, <1>1, <2>1, TypesRead
  <2>3. QED  BY <1>7, <2>2 DEF ts
<1>11. ASSUME NEW expected
       PROVE  Decode(b, expected) = DecodeAs(expected, SentTypes(msg), b, ValuesAt(msg))
  <2> DEFINE W == WireHeap(heap, table)
             R == WireRefs(heap, table, msg.types)
  <2>1. SentTypes(msg) = [heap |-> W, types |-> R]
    BY DEF SentTypes, heap, table
  <2> HIDE DEF W, R
  <2>2. DecodeTable(b, 1).val = W /\ DecodeTable(b, 1).at = TypesAt(msg)
    BY <1>9, GotIs DEF W
  <2>3. DecodeTypes(b, TypesAt(msg)).val = R /\ DecodeTypes(b, TypesAt(msg)).at = ValuesAt(msg)
    BY <1>10, GotIs DEF R
  <2>4. QED  BY <2>1, <2>2, <2>3 DEF Decode
<1>12. Holds(b, ValuesAt(msg), vs)
  BY <1>5, <1>8 DEF Split
<1>13. ValuesAt(msg) + Len(vs) = Len(b) + 1
  <2>1. 1 + Len(b) = (1 + Len(et)) + Len(vs)
    BY <1>5, Zenon DEF Split
  <2>2. Len(b) \in Nat
    BY <1>1
  <2>3. QED  BY <1>8, <2>1, <2>2
<1>14. QED  BY <1>9, <1>11, <1>12, <1>13 DEF table, heap, b, vs

(* The type r of the heap R is the type o of the heap Q, where the types    *)
(* that are in S are called what m calls them.                              *)
SameType(R, Q, S, m, r, o) ==
  /\ r \in Int /\ (o < 0 => r = o)
  /\ ~ (o < 0) =>
       /\ ~ (r < 0) /\ R[r].con = Q[o].con
       /\ Q[o].con \in {"opt", "vec"} => Q[o].arg \in S /\ R[r].arg = m[Q[o].arg]
       /\ HasFields(Q[o]) =>
            /\ DOMAIN R[r].fields = DOMAIN Q[o].fields
            /\ \A h \in DOMAIN Q[o].fields : Q[o].fields[h] \in S /\ R[r].fields[h] = m[Q[o].fields[h]]

(* The heap R has the types of the heap Q that are in S. *)
Mirror(R, Q, S, m) ==
  /\ IsHeap(Q) /\ S \subseteq Refs(Q)
  /\ \A q \in S : /\ m[q] \in Int /\ (m[q] >= 0 => m[q] \in DOMAIN R)
                  /\ SameType(R, Q, S, m, GetType(R, m[q]), GetType(Q, q))

(* A heap has its own types. *)
LEMMA MirrorItself ==
  ASSUME NEW heap, IsHeap(heap)
  PROVE  Mirror(heap, heap, Refs(heap), [t \in Refs(heap) |-> t])
<1> DEFINE m == [t \in Refs(heap) |-> t]
<1>1. DOMAIN heap \subseteq Nat
  BY DEF IsHeap
<1>2. ASSUME NEW q \in Refs(heap)
      PROVE  /\ m[q] \in Int /\ (m[q] >= 0 => m[q] \in DOMAIN heap)
             /\ SameType(heap, heap, Refs(heap), m, GetType(heap, m[q]), GetType(heap, q))
  <2> DEFINE o == GetType(heap, q)
  <2>1. m[q] = q
    OBVIOUS
  <2>2. q \in Int /\ (q \in DOMAIN heap <=> q >= 0)
    BY <1>1, RefNumbers
  <2>3. o \in Int /\ (~ (o < 0) => o \in DOMAIN heap)
    BY Ends
  <2>4. ASSUME ~ (o < 0)
        PROVE  /\ heap[o].con \in {"opt", "vec"} => heap[o].arg \in Refs(heap)
               /\ HasFields(heap[o]) => \A h \in DOMAIN heap[o].fields : heap[o].fields[h] \in Refs(heap)
    BY <2>3, <2>4, NodeShapes
  <2> HIDE DEF o
  <2>5. SameType(heap, heap, Refs(heap), m, o, o)
    BY <2>3, <2>4 DEF SameType
  <2>6. QED  BY <2>1, <2>2, <2>5 DEF o
<1>3. QED  BY <1>2 DEF Mirror

(* What is no RecClass object is the type itself. *)
LEMMA GetTypeOnce ==
  ASSUME NEW heap, NEW t, NEW u, Filled(heap, t) = u, Filled(heap, u) = u
  PROVE  GetType(heap, t) = u
<1>1. PICK f : f[0] = t /\ (\A d \in 1 .. MaxDepth : f[d] = Filled(heap, f[d - 1]))
               /\ GetType(heap, t) = f[MaxDepth]
  BY GetTypeRuns
<1> DEFINE T == {k \in 0 .. MaxDepth : k > 0 => f[k] = u}
<1>2. MaxDepth \in Nat /\ MaxDepth > 0
  BY DepthAssumption
<1>3. 0 \in T
  BY <1>2
<1>4. ASSUME NEW k \in 1 .. MaxDepth, k - 1 \in T PROVE k \in T
  <2>1. f[k] = Filled(heap, f[k - 1])
    BY <1>1
  <2>2. f[k - 1] = u \/ (k = 1 /\ f[k - 1] = t)
    BY <1>1, <1>2, <1>4
  <2>3. f[k] = u
    BY <2>1, <2>2
  <2>4. QED  BY <1>2, <2>3
<1> HIDE DEF T
<1>5. \A k \in 0 .. MaxDepth : k \in T
  BY <1>2, <1>3, <1>4, BoundedInduction
<1>6. QED  BY <1>1, <1>2, <1>5 DEF T

(* The references that a table knows, and how they are on the wire *)
Known(heap, table) == {t \in Refs(heap) : Within(heap, t, ToSet(table))}

OnWire(heap, table) == [t \in Known(heap, table) |-> WireRef(heap, table, t)]

(* The wire has the types that are in the table. *)
LEMMA MirrorWire ==
  ASSUME NEW heap, IsHeap(heap), NEW table, IsTable(heap, table), Closed(heap, ToSet(table))
  PROVE  /\ Mirror(WireHeap(heap, table), heap, Known(heap, table), OnWire(heap, table))
         /\ \A q \in Known(heap, table) : OnWire(heap, table)[q] = TypeIds.nat8 <=> GetType(heap, q) = TypeIds.nat8
<1> DEFINE S == Known(heap, table)
           m == OnWire(heap, table)
           W == WireHeap(heap, table)
           n == Len(table)
           node(i) == WireNode(heap, table, heap[table[i + 1]])
<1>1. n \in Nat
  BY DEF IsTable
<1>2. DOMAIN W = 0 .. 2 * n - 1
  BY DEF WireHeap
<1>3. ASSUME NEW i \in 0 .. n - 1
      PROVE  W[i] = Rec(n + i) /\ W[n + i] = node(i)
  <2>1. W[i] = Rec(n + i)
    BY <1>1 DEF WireHeap
  <2>2. n + i \in 0 .. 2 * n - 1 /\ ~ (n + i < n) /\ (n + i) - n + 1 = i + 1 /\ i + 1 \in 1 .. n
    BY <1>1
  <2>3. W[n + i] = WireNodes(heap, table)[i + 1]
    BY <2>2 DEF WireHeap
  <2>4. QED  BY <2>1, <2>2, <2>3 DEF WireNodes
<1>4. \A i \in 1 .. n : /\ table[i] \in DOMAIN heap /\ heap[table[i]].con # "rec"
                        /\ NodeWithin(heap, heap[table[i]], ToSet(table))
  BY NodePiecesBytes
<1>5. \A i \in 0 .. n - 1 : node(i).con = heap[table[i + 1]].con
  BY DEF WireNode, Func
<1> HIDE DEF S, m, W, n
<1>6. ASSUME NEW i \in 0 .. n - 1 PROVE GetType(W, i) = n + i
  <2>1. i + 1 \in 1 .. n /\ i >= 0 /\ n + i >= 0
    BY <1>1
  <2>2. node(i).con # "rec"
    BY <1>4, <1>5, <2>1
  <2>3. Filled(W, i) = n + i
    <3>1. W[i] = Rec(n + i)
      BY <1>3
    <3>2. \A x : Rec(x).con = "rec" /\ Rec(x).arg = x
      BY DEF Rec
    <3>3. W[i].con = "rec" /\ W[i].arg = n + i
      BY <3>1, <3>2
    <3>4. QED  BY <2>1, <3>3 DEF Filled
  <2>4. Filled(W, n + i) = n + i
    BY <1>3, <2>1, <2>2 DEF Filled
  <2>5. QED  BY <2>3, <2>4, GetTypeOnce
<1>7. ASSUME NEW t \in Int, t < 0 PROVE GetType(W, t) = t
  <2>1. Filled(W, t) = t
    BY <1>7 DEF Filled
  <2>2. QED  BY <2>1, GetTypeOnce
<1>8. ASSUME NEW q \in S
      PROVE  /\ m[q] = WireRef(heap, table, q) /\ m[q] \in Int
             /\ GetType(heap, q) < 0 => m[q] = GetType(heap, q)
             /\ ~ (GetType(heap, q) < 0) => m[q] \in 0 .. n - 1 /\ table[m[q] + 1] = GetType(heap, q)
             /\ GetType(heap, q) \in Int
  <2>1. q \in Refs(heap) /\ Within(heap, q, ToSet(table)) /\ m[q] = WireRef(heap, table, q)
    BY DEF S, m, Known, OnWire
  <2>2. GetType(heap, q) \in Int
    BY <2>1, Ends
  <2>3. QED  BY <2>1, <2>2, WireRefIs DEF n
<1>9. ASSUME NEW q \in S
      PROVE  /\ m[q] \in Int /\ (m[q] >= 0 => m[q] \in DOMAIN W)
             /\ SameType(W, heap, S, m, GetType(W, m[q]), GetType(heap, q))
  <2> DEFINE o == GetType(heap, q)
             i == m[q]
  <2> HIDE DEF o, i
  <2>1. CASE o < 0
    <3>1. i = o /\ i \in Int
      BY <1>8, <2>1 DEF o, i
    <3>2. GetType(W, i) = o
      BY <1>7, <2>1, <3>1
    <3>3. SameType(W, heap, S, m, o, o)
      BY <2>1, <3>1 DEF SameType
    <3>4. QED  BY <2>1, <3>1, <3>2, <3>3 DEF o, i
  <2>2. CASE ~ (o < 0)
    <3>1. i \in 0 .. n - 1 /\ table[i + 1] = o
      BY <1>8, <2>2 DEF o, i
    <3>2. i \in Int /\ i \in 0 .. 2 * n - 1 /\ i + 1 \in 1 .. n
      BY <1>1, <3>1
    <3>3. GetType(W, i) = n + i
      BY <1>6, <3>1
    <3>4. W[n + i] = WireNode(heap, table, heap[o]) /\ W[n + i].con = heap[o].con
      BY <1>3, <1>5, <3>1
    <3>5. o \in DOMAIN heap /\ NodeWithin(heap, heap[o], ToSet(table))
      BY <1>4, <3>1, <3>2
    <3>6. ASSUME heap[o].con \in {"opt", "vec"}
          PROVE  heap[o].arg \in S /\ W[n + i].arg = m[heap[o].arg]
      <4>1. heap[o].arg \in Refs(heap) /\ Within(heap, heap[o].arg, ToSet(table))
        BY <3>5, <3>6, NodeShapes DEF NodeWithin
      <4>2. heap[o].arg \in S
        BY <4>1 DEF S, Known
      <4>3. W[n + i].arg = WireRef(heap, table, heap[o].arg)
        BY <3>4, <3>6 DEF WireNode, HasFields
      <4>4. QED  BY <1>8, <4>2, <4>3
    <3>7. ASSUME HasFields(heap[o])
          PROVE  /\ DOMAIN W[n + i].fields = DOMAIN heap[o].fields
                 /\ \A h \in DOMAIN heap[o].fields :
                      heap[o].fields[h] \in S /\ W[n + i].fields[h] = m[heap[o].fields[h]]
      <4>1. \A h \in DOMAIN heap[o].fields :
              heap[o].fields[h] \in Refs(heap) /\ Within(heap, heap[o].fields[h], ToSet(table))
        BY <3>5, <3>7, NodeShapes DEF NodeWithin
      <4>2. \A h \in DOMAIN heap[o].fields : heap[o].fields[h] \in S
        BY <4>1 DEF S, Known
      <4>3. W[n + i].fields = [h \in DOMAIN heap[o].fields |-> WireRef(heap, table, heap[o].fields[h])]
        BY <3>4, <3>7 DEF WireNode
      <4>4. QED  BY <1>8, <4>2, <4>3
    <3>8. SameType(W, heap, S, m, n + i, o)
      <4>1. n + i \in Int /\ ~ (n + i < 0)
        BY <1>1, <3>2, <3>1
      <4>2. QED  BY <2>2, <3>4, <3>6, <3>7, <4>1 DEF SameType
    <3>9. QED  BY <1>2, <3>2, <3>3, <3>8 DEF o, i
  <2>3. QED  BY <2>1, <2>2
<1>10. S \subseteq Refs(heap)
  BY DEF S, Known
<1>11. Mirror(W, heap, S, m)
  BY <1>9, <1>10 DEF Mirror
<1>12. ASSUME NEW q \in S PROVE m[q] = TypeIds.nat8 <=> GetType(heap, q) = TypeIds.nat8
  <2>1. TypeIds.nat8 = -5
    BY DEF TypeIds
  <2>2. QED  BY <1>1, <1>8, <2>1
<1>13. QED  BY <1>11, <1>12 DEF S, m, W

---------------------------------------------------------------------------

(* decodeValue and its bounds *)

(* Before the first round of the loops that merge the fields *)
FirstRound(at) == Merging(1, 1, Got(<< >>, at))

(* One round of them *)
Round(heap, below, own, mine, theirs, s) == MergeFields(heap, below, own, mine, theirs, s)

(* The states f of the loops, one behind the other, and what they read *)
Runs(heap, below, own, mine, theirs, at, rounds, f) ==
  /\ f[0] = FirstRound(at)
  /\ \A d \in 1 .. rounds : f[d] = Round(heap, below, own, mine, theirs, f[d - 1])
  /\ DecodeFields(heap, below, own, mine, theirs, at) = f[rounds].read

(* The fields are merged round by round. *)
LEMMA DecodeFieldsRuns ==
  ASSUME NEW heap, NEW below, NEW own, NEW mine, NEW theirs, NEW at, NEW rounds \in Nat,
         rounds = Cardinality(DOMAIN mine.fields) + Cardinality(DOMAIN theirs.fields)
  PROVE  \E f : Runs(heap, below, own, mine, theirs, at, rounds, f)
<1> DEFINE n == rounds
           Good(m, f) == f = [d \in 0 .. m |-> IF d = 0 THEN FirstRound(at) ELSE Round(heap, below, own, mine, theirs, f[d - 1])]
           T == {m \in 0 .. n : \E f : Good(m, f)}
           fn == CHOOSE f : Good(n, f)
<1>1. n \in Nat
  OBVIOUS
<1>2. DecodeFields(heap, below, own, mine, theirs, at) = fn[n].read
  BY DEF DecodeFields, FirstRound, Round
<1> HIDE DEF n, fn
<1>3. 0 \in T
  <2>1. Good(0, [d \in 0 .. 0 |-> FirstRound(at)])
    OBVIOUS
  <2> HIDE DEF Good
  <2>2. QED  BY <1>1, <2>1
<1>4. ASSUME NEW m \in 1 .. n, m - 1 \in T PROVE m \in T
  <2>1. PICK f : Good(m - 1, f)
    BY <1>4
  <2> DEFINE g == [d \in 0 .. m |-> IF d = m THEN Round(heap, below, own, mine, theirs, f[m - 1]) ELSE f[d]]
  <2>2. ASSUME NEW d \in 0 .. m PROVE g[d] = IF d = 0 THEN FirstRound(at) ELSE Round(heap, below, own, mine, theirs, g[d - 1])
    BY <1>1, <2>1
  <2>3. Good(m, g)
    BY <2>2, Zenon
  <2> HIDE DEF Good, g
  <2>4. QED  BY <1>1, <2>3
<1> HIDE DEF T
<1>5. n \in T
  <2>1. \A k \in 0 .. n : k \in T
    BY <1>1, <1>3, <1>4, BoundedInduction
  <2>2. QED  BY <1>1, <2>1
<1>6. Good(n, fn)
  <2>1. \E f : Good(n, f)
    BY <1>5 DEF T
  <2> HIDE DEF Good
  <2>2. QED  BY <2>1 DEF fn
<1>7. fn[0] = FirstRound(at) /\ \A d \in 1 .. n : fn[d] = Round(heap, below, own, mine, theirs, fn[d - 1])
  BY <1>1, <1>6
<1> HIDE DEF Good
<1>8. Runs(heap, below, own, mine, theirs, at, rounds, fn)
  BY <1>2, <1>7 DEF n, Runs
<1>9. QED  BY <1>8

(* decodeValue of a vec, an opt, and a variant *)
ReadVec(b, below, own, node, other, at) ==
  LET length == DecodeU(b, at)
  IN  IF ~ length.ok \/ other.con \notin {"opt", "vec"} THEN Raise(at)
      ELSE IF other.arg = TypeIds.nat8
      THEN Shaped(DecodeList(below, TRUE, other.arg, other.arg, length.at, length.val), "list")
      ELSE Shaped(DecodeList(below, own, node.arg, other.arg, length.at, length.val), "list")

ReadOpt(b, below, own, node, other, at) ==
  IF at > Len(b) \/ (b[at] = 1 /\ other.con \notin {"opt", "vec"}) THEN Raise(at)
  ELSE IF b[at] # 1 THEN Got(List(<< >>), at + 1)
  ELSE Shaped(DecodeList(below, own, node.arg, other.arg, at + 1, 1), "list")

ReadVariant(b, below, own, node, other, at) ==
  LET length == DecodeU(b, at)
      tag    == SortedHashes(other)[length.val + 1]
      read   == below[own][node.fields[tag]][other.fields[tag]][length.at]
  IN  IF \/ ~ length.ok \/ other.con \notin {"record", "variant"}
         \/ length.val >= Cardinality(DOMAIN other.fields)
         \/ tag \notin DOMAIN node.fields
      THEN Raise(at)
      ELSE IF read.ok THEN Got(Tagged(tag, read.val), read.at) ELSE read

(* decodeValue where a primitive type is *)
LEMMA DecodePrimitiveIs ==
  ASSUME NEW heap, NEW wh, NEW b, NEW below, NEW own, NEW mine, NEW theirs, NEW at
  PROVE  /\ mine < 0 => DecodeParts(heap, wh, b, below, own, mine, theirs, at)
                          = IF PrimitiveMatches(mine, theirs) THEN DecodePrimitive(theirs, b, at) ELSE Raise(at)
         /\ ~ (mine < 0) /\ ~ (theirs >= 0) => DecodeParts(heap, wh, b, below, own, mine, theirs, at) = Raise(at)
BY Zenon DEF DecodeParts, ConstructMatches

(* decodeValue of a vec *)
LEMMA DecodeVecIs ==
  ASSUME NEW heap, NEW wh, NEW b, NEW below, NEW own, NEW mine, NEW theirs, NEW at,
         ~ (mine < 0), theirs >= 0, heap[mine].con = "vec"
  PROVE  DecodeParts(heap, wh, b, below, own, mine, theirs, at)
           = ReadVec(b, below, own, heap[mine], wh[theirs], at)
BY DEF DecodeParts, ConstructMatches, ReadVec

(* decodeValue of an opt *)
LEMMA DecodeOptionIs ==
  ASSUME NEW heap, NEW wh, NEW b, NEW below, NEW own, NEW mine, NEW theirs, NEW at,
         ~ (mine < 0), theirs >= 0, heap[mine].con = "opt"
  PROVE  DecodeParts(heap, wh, b, below, own, mine, theirs, at)
           = ReadOpt(b, below, own, heap[mine], wh[theirs], at)
BY DEF DecodeParts, ConstructMatches, ReadOpt

(* decodeValue of a record *)
LEMMA DecodeRecordIs ==
  ASSUME NEW heap, NEW wh, NEW b, NEW below, NEW own, NEW mine, NEW theirs, NEW at,
         ~ (mine < 0), theirs >= 0, heap[mine].con = "record"
  PROVE  DecodeParts(heap, wh, b, below, own, mine, theirs, at)
           = IF wh[theirs].con # "record" THEN Raise(at)
             ELSE Shaped(DecodeFields(heap, below, own, heap[mine], wh[theirs], at), "dict")
BY DEF DecodeParts, ConstructMatches

(* decodeValue of a variant *)
LEMMA DecodeVariantIs ==
  ASSUME NEW heap, NEW wh, NEW b, NEW below, NEW own, NEW mine, NEW theirs, NEW at,
         ~ (mine < 0), theirs >= 0, heap[mine].con = "variant"
  PROVE  DecodeParts(heap, wh, b, below, own, mine, theirs, at)
           = ReadVariant(b, below, own, heap[mine], wh[theirs], at)
BY Zenon DEF DecodeParts, ConstructMatches, ReadVariant

(* decodeValue of a service or a func *)
LEMMA DecodeReferenceIs ==
  ASSUME NEW heap, NEW wh, NEW b, NEW below, NEW own, NEW mine, NEW theirs, NEW at,
         ~ (mine < 0), theirs >= 0
  PROVE  /\ heap[mine].con = "service" =>
              DecodeParts(heap, wh, b, below, own, mine, theirs, at) = DecodeService(b, at)
         /\ heap[mine].con = "func" =>
              DecodeParts(heap, wh, b, below, own, mine, theirs, at) = DecodeFunc(b, at)
BY Zenon DEF DecodeParts, ConstructMatches
-----------------------------------------------------------------------------
(* A position within the bytes or right behind them *)
PlacesIn(b) == 1 .. Len(b) + 1

(* A success or a failure at such a position *)
InBounds(b, read) == read.ok \in BOOLEAN /\ read.at \in PlacesIn(b)

(* What raises, and what is got, there *)
LEMMA BoundsKept ==
  ASSUME NEW b, NEW at, at \in PlacesIn(b)
  PROVE  InBounds(b, Raise(at)) /\ \A v : InBounds(b, Got(v, at))
BY DEF InBounds, Raise, Got

(* A number is read within the bytes. *)
LEMMA UnsignedBounds ==
  ASSUME NEW b \in Seq(Bytes)
  PROVE  \A at \in PlacesIn(b) : InBounds(b, DecodeU(b, at)) /\ (DecodeU(b, at).ok => DecodeU(b, at).val \in Nat)
<1> DEFINE n == Len(b)
           Fine(r) == InBounds(b, r) /\ (r.ok => r.val \in Nat)
           T == {k \in 0 .. n : Fine(DecodeU(b, n + 1 - k))}
<1>1. n \in Nat
  OBVIOUS
<1>2. 0 \in T
  <2>1. n + 1 - 0 = n + 1 /\ n + 1 \in Position /\ n + 1 > Len(b) /\ n + 1 \in PlacesIn(b)
    BY <1>1 DEF Position, PlacesIn
  <2>2. DecodeU(b, n + 1) = Raise(n + 1)
    BY <2>1, DecodeUStep
  <2>3. Fine(Raise(n + 1))
    BY <2>1, BoundsKept DEF Raise
  <2>4. QED  BY <1>1, <2>1, <2>2, <2>3
<1>3. ASSUME NEW k \in 1 .. n, k - 1 \in T PROVE k \in T
  <2> DEFINE at == n + 1 - k
             more == DecodeU(b, at + 1)
  <2>1. at \in Position /\ ~ (at > Len(b)) /\ at + 1 \in PlacesIn(b) /\ at + 1 = n + 1 - (k - 1) /\ at \in Nat
        /\ at <= Len(b)
    BY <1>1 DEF Position, PlacesIn
  <2>2. Fine(more)
    BY <1>3, <2>1
  <2>3. b[at] \in Int /\ 0 <= b[at] /\ b[at] < 256
    BY <2>1, ByteAt
  <2>4. DecodeU(b, at) = IF b[at] < 128 THEN Got(b[at], at + 1)
                         ELSE IF more.ok THEN Got(b[at] - 128 + 128 * more.val, more.at) ELSE more
    BY <2>1, DecodeUStep
  <2> HIDE DEF at, more
  <2>5. ASSUME b[at] < 128 PROVE Fine(DecodeU(b, at))
    <3>1. DecodeU(b, at) = Got(b[at], at + 1) /\ b[at] \in Nat
      BY <2>3, <2>4, <2>5
    <3>2. InBounds(b, Got(b[at], at + 1))
      BY <2>1, BoundsKept
    <3>3. Fine(Got(b[at], at + 1))
      BY <3>1, <3>2, GotIs
    <3>4. QED  BY <3>1, <3>3
  <2>6. ASSUME ~ (b[at] < 128), more.ok PROVE Fine(DecodeU(b, at))
    <3>1. DecodeU(b, at) = Got(b[at] - 128 + 128 * more.val, more.at)
      BY <2>4, <2>6
    <3>2. more.val \in Nat /\ more.at \in PlacesIn(b)
      BY <2>2, <2>6 DEF InBounds
    <3>3. b[at] - 128 + 128 * more.val \in Nat
      BY <2>3, <2>6, <3>2
    <3>4. InBounds(b, Got(b[at] - 128 + 128 * more.val, more.at))
      BY <3>2, BoundsKept
    <3>5. Fine(Got(b[at] - 128 + 128 * more.val, more.at))
      BY <3>3, <3>4, GotIs
    <3>6. QED  BY <3>1, <3>5
  <2>7. ASSUME ~ (b[at] < 128), ~ more.ok PROVE Fine(DecodeU(b, at))
    BY <2>2, <2>4, <2>7
  <2>8. Fine(DecodeU(b, at))
    BY <2>5, <2>6, <2>7
  <2>9. k \in 0 .. n
    BY <1>1
  <2>10. QED  BY <2>8, <2>9 DEF at
<1> HIDE DEF T
<1>4. \A k \in 0 .. n : k \in T
  BY <1>1, <1>2, <1>3, BoundedInduction, Zenon
<1>5. ASSUME NEW at \in PlacesIn(b) PROVE Fine(DecodeU(b, at))
  <2>1. n + 1 - at \in 0 .. n /\ n + 1 - (n + 1 - at) = at
    BY <1>1 DEF PlacesIn
  <2>2. QED  BY <1>4, <2>1 DEF T
<1>6. QED  BY <1>5

(* So is a signed one. *)
LEMMA SignedBounds ==
  ASSUME NEW b \in Seq(Bytes)
  PROVE  \A at \in PlacesIn(b) : InBounds(b, DecodeI(b, at))
<1> DEFINE n == Len(b)
           T == {k \in 0 .. n : InBounds(b, DecodeI(b, n + 1 - k))}
<1>1. n \in Nat
  OBVIOUS
<1>2. 0 \in T
  <2>1. n + 1 - 0 = n + 1 /\ n + 1 \in Position /\ n + 1 > Len(b) /\ n + 1 \in PlacesIn(b)
    BY <1>1 DEF Position, PlacesIn
  <2>2. DecodeI(b, n + 1) = Raise(n + 1)
    BY <2>1, DecodeIStep
  <2>3. QED  BY <1>1, <2>1, <2>2, BoundsKept
<1>3. ASSUME NEW k \in 1 .. n, k - 1 \in T PROVE k \in T
  <2> DEFINE at == n + 1 - k
             more == DecodeI(b, at + 1)
             last == IF b[at] < 64 THEN b[at] ELSE b[at] - 128
             next == b[at] - 128 + 128 * more.val
  <2>1. at \in Position /\ ~ (at > Len(b)) /\ at + 1 \in PlacesIn(b) /\ at + 1 = n + 1 - (k - 1)
    BY <1>1 DEF Position, PlacesIn
  <2>2. InBounds(b, more)
    BY <1>3, <2>1
  <2>3. DecodeI(b, at) = IF b[at] < 128 THEN Got(last, at + 1) ELSE IF more.ok THEN Got(next, more.at) ELSE more
    BY <2>1, DecodeIStep
  <2> HIDE DEF at, more, last, next
  <2>4. InBounds(b, Got(last, at + 1))
    BY <2>1, BoundsKept
  <2>5. InBounds(b, Got(next, more.at))
    BY <2>2, BoundsKept, Zenon DEF InBounds
  <2>6. InBounds(b, DecodeI(b, at))
    BY <2>2, <2>3, <2>4, <2>5, Zenon
  <2>7. k \in 0 .. n
    BY <1>1
  <2>8. QED  BY <2>6, <2>7 DEF at
<1> HIDE DEF T
<1>4. \A k \in 0 .. n : k \in T
  BY <1>1, <1>2, <1>3, BoundedInduction, Zenon
<1>5. ASSUME NEW at \in PlacesIn(b) PROVE InBounds(b, DecodeI(b, at))
  <2>1. n + 1 - at \in 0 .. n /\ n + 1 - (n + 1 - at) = at
    BY <1>1 DEF PlacesIn
  <2>2. QED  BY <1>4, <2>1 DEF T
<1>6. QED  BY <1>5

(* A reading given a shape stays within the bytes. *)
LEMMA ShapedBounds ==
  ASSUME NEW b, NEW read, NEW shape, InBounds(b, read)
  PROVE  InBounds(b, Shaped(read, shape))
<1>1. read.at \in PlacesIn(b)
  BY DEF InBounds
<1>2. InBounds(b, Got(<<shape, read.val>>, read.at))
  BY <1>1, BoundsKept
<1>3. QED  BY <1>2 DEF Shaped

(* A text ends within the bytes. *)
LEMMA TextBounds ==
  ASSUME NEW b \in Seq(Bytes), NEW at \in PlacesIn(b)
  PROVE  InBounds(b, DecodeText(b, at))
<1> DEFINE length == DecodeU(b, at)
           end == length.at + length.val
<1>1. InBounds(b, length) /\ (length.ok => length.val \in Nat)
  BY UnsignedBounds
<1>2. DecodeText(b, at) = IF ~ length.ok \/ end > Len(b) + 1 THEN Raise(at)
                          ELSE Got(SubSeq(b, length.at, end - 1), end)
  BY DEF DecodeText
<1> HIDE DEF length
<1>3. CASE ~ length.ok \/ end > Len(b) + 1
  BY <1>2, <1>3, BoundsKept
<1>4. CASE length.ok /\ ~ (end > Len(b) + 1)
  <2>1. end \in PlacesIn(b)
    BY <1>1, <1>4 DEF InBounds, PlacesIn
  <2> HIDE DEF end
  <2>2. InBounds(b, Got(SubSeq(b, length.at, end - 1), end))
    BY <2>1, BoundsKept
  <2>3. QED  BY <1>2, <1>4, <2>2 DEF end
<1>5. QED  BY <1>3, <1>4

(* What is left of the bytes has a next one. *)
LEMMA NextPlace ==
  ASSUME NEW b \in Seq(Bytes), NEW at \in PlacesIn(b), ~ (at > Len(b))
  PROVE  at + 1 \in PlacesIn(b)
BY DEF PlacesIn

(* A principal ends within the bytes. *)
LEMMA PrincipalBounds ==
  ASSUME NEW b \in Seq(Bytes), NEW at \in PlacesIn(b)
  PROVE  InBounds(b, DecodePrincipal(b, at))
<1>1. CASE at > Len(b) \/ b[at] # 1
  BY <1>1, BoundsKept DEF DecodePrincipal
<1>2. CASE ~ (at > Len(b) \/ b[at] # 1)
  <2>1. at + 1 \in PlacesIn(b)
    BY <1>2, NextPlace
  <2>2. QED  BY <1>2, <2>1, TextBounds DEF DecodePrincipal
<1>3. QED  BY <1>1, <1>2

(* A value of a primitive type ends within the bytes. *)
LEMMA PrimitiveBounds ==
  ASSUME NEW b \in Seq(Bytes), NEW at \in PlacesIn(b), NEW t, IsPrimitive(t)
  PROVE  InBounds(b, DecodePrimitive(t, b, at))
<1>1. Name(t) \in Primitives
  BY PrimitiveNames
<1>2. CASE Name(t) = "nat"
  <2>1. InBounds(b, Shaped(DecodeU(b, at), "num"))
    BY UnsignedBounds, ShapedBounds
  <2>2. QED  BY <1>2, <2>1 DEF DecodePrimitive
<1>3. CASE Name(t) = "int"
  <2>1. InBounds(b, Shaped(DecodeI(b, at), "num"))
    BY SignedBounds, ShapedBounds
  <2>2. QED  BY <1>3, <2>1 DEF DecodePrimitive
<1>4. CASE Name(t) = "nat8"
  <2>1. ~ (at > Len(b)) => InBounds(b, Got(Num(b[at]), at + 1))
    BY NextPlace, BoundsKept
  <2>2. QED  BY <1>4, <2>1, BoundsKept DEF DecodePrimitive
<1>5. CASE Name(t) = "text"
  <2>1. InBounds(b, Shaped(DecodeText(b, at), "text"))
    BY TextBounds, ShapedBounds
  <2>2. QED  BY <1>5, <2>1 DEF DecodePrimitive
<1>6. CASE Name(t) = "principal"
  <2>1. InBounds(b, Shaped(DecodePrincipal(b, at), "ref"))
    BY PrincipalBounds, ShapedBounds
  <2>2. QED  BY <1>6, <2>1 DEF DecodePrimitive
<1>7. CASE Name(t) \in {"empty", "null", "reserved"}
  BY <1>7, BoundsKept DEF DecodePrimitive
<1>8. QED  BY <1>1, <1>2, <1>3, <1>4, <1>5, <1>6, <1>7 DEF Primitives

(* So does a service or a func. *)
LEMMA ReferenceBounds ==
  ASSUME NEW b \in Seq(Bytes), NEW at \in PlacesIn(b)
  PROVE  InBounds(b, DecodeService(b, at)) /\ InBounds(b, DecodeFunc(b, at))
<1>0. at \in Int /\ Len(b) \in Nat
  BY DEF PlacesIn
<1>1. CASE at > Len(b)
  <2>1. ~ Opaque(b, at) /\ ~ (at <= Len(b))
    BY <1>0, <1>1 DEF Opaque
  <2>2. InBounds(b, Shaped(DecodePrincipal(b, at), "ref"))
    BY PrincipalBounds, ShapedBounds
  <2>3. InBounds(b, DecodeService(b, at))
    BY <2>1, <2>2 DEF DecodeService
  <2>4. InBounds(b, DecodeFunc(b, at))
    BY <2>1, BoundsKept DEF DecodeFunc
  <2>5. QED  BY <2>3, <2>4
<1>2. CASE ~ (at > Len(b))
  <2> DEFINE principal == DecodePrincipal(b, at + 1)
             method == DecodeText(b, principal.at)
  <2>1. at + 1 \in PlacesIn(b)
    BY <1>2, NextPlace
  <2>2. InBounds(b, Shaped(DecodePrincipal(b, at), "ref")) /\ \A v : InBounds(b, Got(v, at + 1))
    BY <2>1, PrincipalBounds, ShapedBounds, BoundsKept
  <2>3. InBounds(b, DecodeService(b, at))
    BY <2>2 DEF DecodeService
  <2>4. InBounds(b, principal)
    BY <2>1, PrincipalBounds
  <2>5. InBounds(b, method)
    <3>1. principal.at \in PlacesIn(b)
      BY <2>4 DEF InBounds
    <3>2. QED  BY <3>1, TextBounds
  <2>6. \A v : InBounds(b, Got(v, method.at))
    <3>1. method.at \in PlacesIn(b)
      BY <2>5 DEF InBounds
    <3>2. QED  BY <3>1, BoundsKept
  <2>7. InBounds(b, Raise(at))
    BY BoundsKept
  <2>8. InBounds(b, DecodeFunc(b, at))
    BY <2>2, <2>6, <2>7 DEF DecodeFunc
  <2>9. QED  BY <2>3, <2>8
<1>3. QED  BY <1>1, <1>2

(* Below this level everything ends within the bytes. *)
Inside(b, below, own, S, m, U, n) ==
  \A q \in S, t \in U : \A at \in PlacesIn(b) : InBounds(b, below[own][m[q]][n[t]][at])

(* A list ends within the bytes, if its elements do. *)
LEMMA ListBounds ==
  ASSUME NEW b, NEW below, NEW own, NEW l, NEW w, NEW at \in PlacesIn(b), NEW count \in Nat,
         \A p \in PlacesIn(b) : InBounds(b, below[own][l][w][p])
  PROVE  InBounds(b, DecodeList(below, own, l, w, at, count))
<1>1. PICK f : /\ f[0] = Got(<< >>, at)
               /\ \A d \in 1 .. count : f[d] = Listed(below, own, l, w, f[d - 1])
               /\ DecodeList(below, own, l, w, at, count) = f[count]
  <2>1. \E f : DecodesList(below, own, l, w, at, count, f)
    BY DecodeListRuns
  <2>2. QED  BY <2>1 DEF DecodesList
<1> DEFINE T == {k \in 0 .. count : InBounds(b, f[k])}
<1>2. 0 \in T
  BY <1>1, BoundsKept
<1>3. ASSUME NEW k \in 1 .. count, k - 1 \in T PROVE k \in T
  <2> DEFINE read == f[k - 1]
             next == below[own][l][w][read.at]
  <2>1. InBounds(b, read) /\ read.at \in PlacesIn(b)
    BY <1>3 DEF InBounds
  <2>2. InBounds(b, next) /\ next.at \in PlacesIn(b)
    BY <2>1 DEF InBounds
  <2>3. f[k] = Added(read, next)
    BY <1>1 DEF Listed
  <2> HIDE DEF read, next
  <2>4. InBounds(b, Got(Append(read.val, next.val), next.at))
    BY <2>2, BoundsKept
  <2>5. InBounds(b, Added(read, next))
    BY <2>1, <2>2, <2>4 DEF Added
  <2>6. k \in 0 .. count
    OBVIOUS
  <2>7. QED  BY <2>3, <2>5, <2>6
<1> HIDE DEF T
<1>4. \A k \in 0 .. count : k \in T
  BY <1>2, <1>3, BoundedInduction
<1>5. QED  BY <1>1, <1>4 DEF T

(* The next field is missing on the wire, or there, or unknown to the receiver. *)
IsMissing(my, their, i, j) == i <= Len(my) /\ (j > Len(their) \/ my[i] < their[j])
IsShared(my, their, i, j)  == i <= Len(my) /\ j <= Len(their) /\ my[i] = their[j]
IsUnknown(my, their, i, j) == j <= Len(their) /\ ~ IsMissing(my, their, i, j) /\ ~ IsShared(my, their, i, j)

(* What is read of it *)
ReadMissing(heap, mine, label, read) == WithMissing(read, label, Missing(heap, mine.fields[label]))

ReadUnknown(read, skip) == IF skip.ok THEN Got(read.val, skip.at) ELSE skip

(* A field that is there is not missing. *)
LEMMA SharedIsThere ==
  ASSUME NEW my, NEW their, NEW i, NEW j \in Int, Len(their) \in Nat,
         \A k \in 1 .. Len(their) : their[k] \in Nat, j >= 1, IsShared(my, their, i, j)
  PROVE  ~ IsMissing(my, their, i, j)
BY DEF IsShared, IsMissing

(* Where a round of the merge goes *)
Goes(my, their, i, j, read, step, filled, field, skipped) ==
  /\ ~ read.ok => step = Merging(i, j, read)
  /\ read.ok /\ IsMissing(my, their, i, j) /\ ~ IsShared(my, their, i, j) =>
       step = Merging(i + 1, j, filled)
  /\ read.ok /\ IsShared(my, their, i, j) /\ ~ IsMissing(my, their, i, j) =>
       step = Merging(i + 1, j + 1, field)
  /\ read.ok /\ IsUnknown(my, their, i, j) => step = Merging(i, j + 1, skipped)
  /\ read.ok /\ ~ IsMissing(my, their, i, j) /\ ~ IsShared(my, their, i, j) /\ ~ IsUnknown(my, their, i, j) =>
       step = Merging(i, j, read)

(* A round is MergeFields. *)
LEMMA RoundIs ==
  ASSUME NEW heap, NEW below, NEW own, NEW mine, NEW theirs, NEW my, my = SortedHashes(mine),
         NEW their, their = SortedHashes(theirs), NEW i, NEW j, NEW read
  PROVE  Goes(my, their, i, j, read, Round(heap, below, own, mine, theirs, Merging(i, j, read)),
              ReadMissing(heap, mine, my[i], read),
              WithField(read, my[i], below[own][mine.fields[my[i]]][theirs.fields[their[j]]][read.at]),
              ReadUnknown(read, below[TRUE][theirs.fields[their[j]]][theirs.fields[their[j]]][read.at]))
<1> DEFINE s == Merging(i, j, read)
           step == MergeFields(heap, below, own, mine, theirs, s)
           skip(k, r) == below[TRUE][theirs.fields[their[k]]][theirs.fields[their[k]]][r.at]
<1>1. s.i = i /\ s.j = j /\ s.read = read
  BY DEF Merging
<1> HIDE DEF s
<1>2. ~ s.read.ok => step = s
  BY DEF MergeFields
<1>3. s.read.ok /\ IsMissing(my, their, s.i, s.j) /\ ~ IsShared(my, their, s.i, s.j) =>
        step = Merging(s.i + 1, s.j, ReadMissing(heap, mine, my[s.i], s.read))
  BY Zenon DEF MergeFields, IsMissing, IsShared, ReadMissing
<1>4. s.read.ok /\ IsShared(my, their, s.i, s.j) /\ ~ IsMissing(my, their, s.i, s.j) =>
        step = Merging(s.i + 1, s.j + 1,
          WithField(s.read, my[s.i], below[own][mine.fields[my[s.i]]][theirs.fields[their[s.j]]][s.read.at]))
  BY Zenon DEF MergeFields, IsShared, IsMissing
<1>5. s.read.ok /\ IsUnknown(my, their, s.i, s.j) =>
        step = Merging(s.i, s.j + 1, ReadUnknown(s.read, skip(s.j, s.read)))
  BY Zenon DEF MergeFields, IsMissing, IsShared, IsUnknown, ReadUnknown, Skipped
<1>6. s.read.ok /\ ~ IsMissing(my, their, s.i, s.j) /\ ~ IsShared(my, their, s.i, s.j)
        /\ ~ IsUnknown(my, their, s.i, s.j) => step = s
  BY Zenon DEF MergeFields, IsMissing, IsShared, IsUnknown
<1> HIDE DEF step
<1>7. Goes(my, their, s.i, s.j, s.read, step, ReadMissing(heap, mine, my[s.i], s.read),
           WithField(s.read, my[s.i], below[own][mine.fields[my[s.i]]][theirs.fields[their[s.j]]][s.read.at]),
           ReadUnknown(s.read, skip(s.j, s.read)))
  <2>1. s = Merging(s.i, s.j, s.read)
    BY <1>1 DEF s
  <2>2. QED  BY <1>2, <1>3, <1>4, <1>5, <1>6, <2>1, Zenon DEF Goes
<1>8. QED  BY <1>1, <1>7, Zenon DEF step, s, Round

(* The loops are somewhere, with a reading within the bytes. *)
Rounded(b, s) ==
  \E i, j \in Nat \ {0} : \E read : InBounds(b, read) /\ s = Merging(i, j, read)

(* A round of the merge leaves a reading within the bytes. *)
LEMMA RoundBounds ==
  ASSUME NEW b, NEW heap, NEW below, NEW own, NEW mine, NEW theirs,
         NEW my, my = SortedHashes(mine), NEW their, their = SortedHashes(theirs),
         Len(my) \in Nat, \A i \in 1 .. Len(my) : my[i] \in DOMAIN mine.fields,
         Len(their) \in Nat, \A i \in 1 .. Len(their) : their[i] \in DOMAIN theirs.fields,
         DOMAIN theirs.fields \subseteq Nat,
         \A h \in DOMAIN mine.fields : h \in DOMAIN theirs.fields => \A p \in PlacesIn(b) :
           InBounds(b, below[own][mine.fields[h]][theirs.fields[h]][p]),
         \A g \in DOMAIN theirs.fields : \A p \in PlacesIn(b) :
           InBounds(b, below[TRUE][theirs.fields[g]][theirs.fields[g]][p]),
         NEW s, Rounded(b, s)
  PROVE  Rounded(b, Round(heap, below, own, mine, theirs, s))
<1>1. PICK i \in Nat \ {0}, j \in Nat \ {0} : \E read : InBounds(b, read) /\ s = Merging(i, j, read)
  BY DEF Rounded
<1>2. PICK read : InBounds(b, read) /\ s = Merging(i, j, read)
  BY <1>1
<1> DEFINE step == Round(heap, below, own, mine, theirs, Merging(i, j, read))
           shared == below[own][mine.fields[my[i]]][theirs.fields[their[j]]][read.at]
           skip == below[TRUE][theirs.fields[their[j]]][theirs.fields[their[j]]][read.at]
           filled == ReadMissing(heap, mine, my[i], read)
           field == WithField(read, my[i], shared)
           skipped == ReadUnknown(read, skip)
<1>3. read.at \in PlacesIn(b) /\ InBounds(b, read)
  BY <1>2 DEF InBounds
<1>4. Goes(my, their, i, j, read, step, filled, field, skipped)
  BY RoundIs, Zenon
<1> HIDE DEF step, filled
<1>5. InBounds(b, filled)
  <2>1. \A v : Got(v, read.at).ok = TRUE /\ Got(v, read.at).at = read.at
    BY GotIs
  <2>2. QED  BY <1>3, <2>1, BoundsKept DEF filled, ReadMissing, WithMissing, WithField
<1>6. IsShared(my, their, i, j) => InBounds(b, field)
  <2> SUFFICES ASSUME IsShared(my, their, i, j) PROVE InBounds(b, field)
    BY Zenon
  <2>1. my[i] \in DOMAIN mine.fields /\ my[i] \in DOMAIN theirs.fields /\ their[j] = my[i]
    BY DEF IsShared
  <2>2. InBounds(b, shared)
    BY <1>3, <2>1 DEF shared
  <2>3. shared.at \in PlacesIn(b)
    BY <2>2, Zenon DEF InBounds
  <2>4. QED  BY <2>2, <2>3, BoundsKept, Zenon DEF WithField
<1>7. IsUnknown(my, their, i, j) => InBounds(b, skipped)
  <2> SUFFICES ASSUME IsUnknown(my, their, i, j) PROVE InBounds(b, skipped)
    BY Zenon
  <2>1. their[j] \in DOMAIN theirs.fields
    BY DEF IsUnknown
  <2>2. InBounds(b, skip)
    BY <1>3, <2>1, Zenon DEF skip
  <2>3. skip.at \in PlacesIn(b)
    BY <2>2, Zenon DEF InBounds
  <2>4. QED  BY <2>2, <2>3, BoundsKept, Zenon DEF ReadUnknown
<1>8. i + 1 \in Nat \ {0} /\ j + 1 \in Nat \ {0}
  OBVIOUS
<1> HIDE DEF field, skipped, shared, skip
<1>9. /\ step = Merging(i, j, read) => Rounded(b, step)
      /\ step = Merging(i + 1, j, filled) => Rounded(b, step)
      /\ step = Merging(i + 1, j + 1, field) /\ InBounds(b, field) => Rounded(b, step)
      /\ step = Merging(i, j + 1, skipped) /\ InBounds(b, skipped) => Rounded(b, step)
  BY <1>3, <1>5, <1>8 DEF Rounded
<1>10. IsShared(my, their, i, j) => ~ IsMissing(my, their, i, j)
  <2>1. \A k \in 1 .. Len(their) : their[k] \in Nat
    OBVIOUS
  <2>2. QED  BY <2>1, SharedIsThere
<1>11. read.ok \in BOOLEAN
  BY <1>3 DEF InBounds
<1>12. Rounded(b, step)
  BY <1>3, <1>4, <1>6, <1>7, <1>9, <1>10, <1>11 DEF InBounds, Goes
<1>13. QED  BY <1>2, <1>12 DEF step

(* The merge of the fields ends within the bytes, if the fields do. *)
LEMMA FieldsBounds ==
  ASSUME NEW b, NEW heap, NEW below, NEW own, NEW mine, NEW theirs, NEW at \in PlacesIn(b),
         Sorted(DOMAIN mine.fields, SortedHashes(mine)), Sorted(DOMAIN theirs.fields, SortedHashes(theirs)),
         DOMAIN theirs.fields \subseteq Nat,
         \A h \in DOMAIN mine.fields : h \in DOMAIN theirs.fields => \A p \in PlacesIn(b) :
           InBounds(b, below[own][mine.fields[h]][theirs.fields[h]][p]),
         \A g \in DOMAIN theirs.fields : \A p \in PlacesIn(b) :
           InBounds(b, below[TRUE][theirs.fields[g]][theirs.fields[g]][p])
  PROVE  InBounds(b, DecodeFields(heap, below, own, mine, theirs, at))
<1> DEFINE rounds == Cardinality(DOMAIN mine.fields) + Cardinality(DOMAIN theirs.fields)
           my == SortedHashes(mine)
           their == SortedHashes(theirs)
<1>0. rounds = Cardinality(DOMAIN mine.fields) + Cardinality(DOMAIN theirs.fields)
  OBVIOUS
<1>1. rounds \in Nat
  BY DEF Sorted
<1> HIDE DEF rounds
<1>2. PICK f : /\ f[0] = FirstRound(at)
               /\ \A d \in 1 .. rounds : f[d] = Round(heap, below, own, mine, theirs, f[d - 1])
               /\ DecodeFields(heap, below, own, mine, theirs, at) = f[rounds].read
  <2>1. \E f : Runs(heap, below, own, mine, theirs, at, rounds, f)
    BY <1>0, <1>1, DecodeFieldsRuns
  <2>2. QED  BY <2>1 DEF Runs
<1>3. /\ Len(my) \in Nat /\ \A i \in 1 .. Len(my) : my[i] \in DOMAIN mine.fields
      /\ Len(their) \in Nat /\ \A i \in 1 .. Len(their) : their[i] \in DOMAIN theirs.fields
  BY DEF Sorted
<1>4. ASSUME NEW s, Rounded(b, s) PROVE Rounded(b, Round(heap, below, own, mine, theirs, s))
  BY <1>3, <1>4, RoundBounds, Zenon
<1>5. Rounded(b, f[0])
  BY <1>2, BoundsKept DEF FirstRound, Rounded
<1> DEFINE T == {k \in 0 .. rounds : Rounded(b, f[k])}
<1>6. 0 \in T
  BY <1>1, <1>5
<1>7. ASSUME NEW k \in 1 .. rounds, k - 1 \in T PROVE k \in T
  <2>1. Rounded(b, f[k])
    BY <1>2, <1>4, <1>7
  <2>2. k \in 0 .. rounds
    BY <1>1
  <2>3. QED  BY <2>1, <2>2
<1> HIDE DEF T
<1>8. \A k \in 0 .. rounds : k \in T
  BY <1>1, <1>6, <1>7, BoundedInduction
<1>9. Rounded(b, f[rounds])
  BY <1>1, <1>8 DEF T
<1>10. InBounds(b, f[rounds].read)
  BY <1>9 DEF Rounded, Merging
<1>11. QED  BY <1>2, <1>10

(* The object of a type that was mirrored, and what it is made of *)
LEMMA MirrorNode ==
  ASSUME NEW R, NEW Q, NEW S, NEW m, Mirror(R, Q, S, m), NEW q \in S,
         NEW r, r = GetType(R, m[q]), NEW o, o = GetType(Q, q)
  PROVE  /\ r \in Int /\ o \in Int
         /\ o < 0 => r = o /\ IsPrimitive(o)
         /\ ~ (o < 0) =>
              /\ ~ (r < 0) /\ o \in DOMAIN Q /\ R[r].con = Q[o].con
              /\ R[r].con \in {"opt", "vec", "func", "record", "variant", "service"}
              /\ R[r].con \in {"opt", "vec"} => Q[o].arg \in S /\ R[r].arg = m[Q[o].arg]
              /\ R[r].con \in {"record", "variant", "service"} =>
                   /\ DOMAIN R[r].fields = DOMAIN Q[o].fields
                   /\ \A h \in DOMAIN R[r].fields : Q[o].fields[h] \in S /\ R[r].fields[h] = m[Q[o].fields[h]]
                   /\ DOMAIN R[r].fields \subseteq Nat
                   /\ Sorted(DOMAIN R[r].fields, SortedHashes(R[r]))
<1>1. IsHeap(Q) /\ q \in Refs(Q)
  BY DEF Mirror
<1>2. SameType(R, Q, S, m, r, o)
  BY DEF Mirror
<1>3. /\ o \in Int /\ (o < 0 => IsPrimitive(o))
      /\ ~ (o < 0) => o \in DOMAIN Q /\ Q[o].con \in {"opt", "vec", "func", "record", "variant", "service"}
  BY <1>1, Ends
<1>4. o < 0 => r = o /\ IsPrimitive(o)
  BY <1>2, <1>3 DEF SameType
<1>5. ASSUME ~ (o < 0)
      PROVE  /\ ~ (r < 0) /\ o \in DOMAIN Q /\ R[r].con = Q[o].con
             /\ R[r].con \in {"opt", "vec", "func", "record", "variant", "service"}
             /\ R[r].con \in {"opt", "vec"} => Q[o].arg \in S /\ R[r].arg = m[Q[o].arg]
             /\ R[r].con \in {"record", "variant", "service"} =>
                  /\ DOMAIN R[r].fields = DOMAIN Q[o].fields
                  /\ \A h \in DOMAIN R[r].fields : Q[o].fields[h] \in S /\ R[r].fields[h] = m[Q[o].fields[h]]
  BY <1>2, <1>3, <1>5, Zenon DEF SameType, HasFields
<1>6. ASSUME ~ (o < 0), R[r].con \in {"record", "variant", "service"}
      PROVE  DOMAIN R[r].fields \subseteq Nat /\ Sorted(DOMAIN R[r].fields, SortedHashes(R[r]))
  <2>1. DOMAIN Q[o].fields \subseteq Nat /\ IsFiniteSet(DOMAIN Q[o].fields)
    <3>1. HasFields(Q[o]) /\ o \in DOMAIN Q
      BY <1>5, <1>6 DEF HasFields
    <3>2. QED  BY <1>1, <3>1, NodeShapes
  <2>2. DOMAIN R[r].fields = DOMAIN Q[o].fields
    BY <1>5, <1>6
  <2>3. QED  BY <2>1, <2>2, HashesSorted
<1>7. r \in Int
  BY <1>2 DEF SameType
<1>8. QED  BY <1>3, <1>4, <1>5, <1>6, <1>7

(* A vec ends within the bytes. *)
LEMMA VecBounds ==
  ASSUME NEW b \in Seq(Bytes), NEW below, NEW own, NEW node, NEW other, NEW at \in PlacesIn(b),
         other.con \in {"opt", "vec"} => \A p \in PlacesIn(b) :
           /\ InBounds(b, below[own][node.arg][other.arg][p])
           /\ InBounds(b, below[TRUE][other.arg][other.arg][p])
  PROVE  InBounds(b, ReadVec(b, below, own, node, other, at))
<1> DEFINE length == DecodeU(b, at)
           blob == DecodeList(below, TRUE, other.arg, other.arg, length.at, length.val)
           list == DecodeList(below, own, node.arg, other.arg, length.at, length.val)
<1>1. length.at \in PlacesIn(b) /\ (length.ok => length.val \in Nat)
  BY UnsignedBounds DEF InBounds
<1>2. CASE ~ length.ok \/ other.con \notin {"opt", "vec"}
  BY <1>2, BoundsKept, Zenon DEF ReadVec
<1>3. CASE ~ (~ length.ok \/ other.con \notin {"opt", "vec"})
  <2>1. InBounds(b, blob) /\ InBounds(b, list)
    <3>1. length.val \in Nat /\ other.con \in {"opt", "vec"}
      BY <1>1, <1>3
    <3> HIDE DEF length
    <3>2. QED  BY <1>1, <3>1, ListBounds, Zenon
  <2>2. InBounds(b, Shaped(blob, "list")) /\ InBounds(b, Shaped(list, "list"))
    BY <2>1, ShapedBounds, Zenon
  <2>3. QED  BY <1>3, <2>2, Zenon DEF ReadVec
<1>4. QED  BY <1>2, <1>3

(* An opt ends within the bytes. *)
LEMMA OptBounds ==
  ASSUME NEW b \in Seq(Bytes), NEW below, NEW own, NEW node, NEW other, NEW at \in PlacesIn(b),
         other.con \in {"opt", "vec"} => \A p \in PlacesIn(b) :
           InBounds(b, below[own][node.arg][other.arg][p])
  PROVE  InBounds(b, ReadOpt(b, below, own, node, other, at))
<1> DEFINE list == DecodeList(below, own, node.arg, other.arg, at + 1, 1)
<1>1. CASE at > Len(b) \/ (b[at] = 1 /\ other.con \notin {"opt", "vec"})
  BY <1>1, BoundsKept DEF ReadOpt
<1>2. CASE ~ (at > Len(b) \/ (b[at] = 1 /\ other.con \notin {"opt", "vec"})) /\ b[at] # 1
  <2>1. at + 1 \in PlacesIn(b)
    BY <1>2, NextPlace
  <2>2. InBounds(b, Got(List(<< >>), at + 1))
    BY <2>1, BoundsKept
  <2>3. QED  BY <1>2, <2>2 DEF ReadOpt
<1>3. CASE ~ (at > Len(b) \/ (b[at] = 1 /\ other.con \notin {"opt", "vec"})) /\ b[at] = 1
  <2>1. at + 1 \in PlacesIn(b) /\ other.con \in {"opt", "vec"}
    BY <1>3, NextPlace
  <2>2. InBounds(b, list)
    BY <2>1, ListBounds, Zenon
  <2>3. InBounds(b, Shaped(list, "list"))
    BY <2>2, ShapedBounds
  <2>4. QED  BY <1>3, <2>3 DEF ReadOpt
<1>4. QED  BY <1>1, <1>2, <1>3

(* The number of a sorted label *)
LEMMA SortedAt ==
  ASSUME NEW labels, NEW s, Sorted(labels, s), NEW k \in Nat, ~ (k >= Cardinality(labels))
  PROVE  s[k + 1] \in labels
BY DEF Sorted

(* A variant ends within the bytes. *)
LEMMA VariantBounds ==
  ASSUME NEW b \in Seq(Bytes), NEW below, NEW own, NEW node, NEW other, NEW at \in PlacesIn(b),
         other.con \in {"record", "variant"} =>
           /\ Sorted(DOMAIN other.fields, SortedHashes(other))
           /\ \A h \in DOMAIN node.fields : h \in DOMAIN other.fields => \A p \in PlacesIn(b) :
                InBounds(b, below[own][node.fields[h]][other.fields[h]][p])
  PROVE  InBounds(b, ReadVariant(b, below, own, node, other, at))
<1> DEFINE length == DecodeU(b, at)
           tag == SortedHashes(other)[length.val + 1]
           read == below[own][node.fields[tag]][other.fields[tag]][length.at]
           Bad == \/ ~ length.ok \/ other.con \notin {"record", "variant"}
                  \/ length.val >= Cardinality(DOMAIN other.fields) \/ tag \notin DOMAIN node.fields
<1>1. length.at \in PlacesIn(b) /\ (length.ok => length.val \in Nat)
  BY UnsignedBounds DEF InBounds
<1>2. ReadVariant(b, below, own, node, other, at)
        = IF Bad THEN Raise(at) ELSE IF read.ok THEN Got(Tagged(tag, read.val), read.at) ELSE read
  BY DEF ReadVariant
<1>3. ASSUME ~ Bad PROVE InBounds(b, read)
  <2>1. length.val \in Nat /\ other.con \in {"record", "variant"} /\ tag \in DOMAIN node.fields
        /\ ~ (length.val >= Cardinality(DOMAIN other.fields))
    BY <1>1, <1>3
  <2> HIDE DEF length
  <2>2. tag \in DOMAIN other.fields
    BY <2>1, SortedAt
  <2> HIDE DEF tag
  <2>3. QED  BY <1>1, <2>1, <2>2
<1> HIDE DEF Bad, read, tag
<1>4. InBounds(b, Raise(at))
  BY BoundsKept
<1>5. InBounds(b, read) => InBounds(b, Got(Tagged(tag, read.val), read.at))
  <2> SUFFICES ASSUME InBounds(b, read) PROVE InBounds(b, Got(Tagged(tag, read.val), read.at))
    OBVIOUS
  <2>1. read.at \in PlacesIn(b)
    BY DEF InBounds
  <2>2. QED  BY <2>1, BoundsKept
<1>6. QED  BY <1>2, <1>3, <1>4, <1>5, Zenon

(* A value ends within the bytes, if what is nested in it does. *)
LEMMA PartsBounds ==
  ASSUME NEW b \in Seq(Bytes), NEW below, NEW own, NEW R, NEW Q, NEW S, NEW m, Mirror(R, Q, S, m),
         NEW W, NEW sh, NEW U, NEW n, Mirror(W, sh, U, n),
         Inside(b, below, own, S, m, U, n), Inside(b, below, TRUE, U, n, U, n),
         NEW q \in S, NEW t \in U, NEW at \in PlacesIn(b)
  PROVE  InBounds(b, DecodeParts(R, W, b, below, own, GetType(R, m[q]), GetType(W, n[t]), at))
<1> DEFINE r == GetType(R, m[q])
           o == GetType(Q, q)
           w == GetType(W, n[t])
           p == GetType(sh, t)
           node == R[r]
           other == W[w]
           result == DecodeParts(R, W, b, below, own, r, w, at)
<1>1. /\ r \in Int /\ o \in Int
      /\ o < 0 => r = o /\ IsPrimitive(o)
      /\ ~ (o < 0) =>
           /\ ~ (r < 0)
           /\ node.con \in {"opt", "vec", "func", "record", "variant", "service"}
           /\ node.con \in {"opt", "vec"} => Q[o].arg \in S /\ node.arg = m[Q[o].arg]
           /\ node.con \in {"record", "variant", "service"} =>
                /\ \A h \in DOMAIN node.fields : Q[o].fields[h] \in S /\ node.fields[h] = m[Q[o].fields[h]]
                /\ Sorted(DOMAIN node.fields, SortedHashes(node))
  BY MirrorNode
<1>2. /\ w \in Int /\ p \in Int
      /\ p < 0 => w = p /\ IsPrimitive(p)
      /\ ~ (p < 0) =>
           /\ ~ (w < 0)
           /\ other.con \in {"opt", "vec"} => sh[p].arg \in U /\ other.arg = n[sh[p].arg]
           /\ other.con \in {"record", "variant", "service"} =>
                /\ \A h \in DOMAIN other.fields : sh[p].fields[h] \in U /\ other.fields[h] = n[sh[p].fields[h]]
                /\ DOMAIN other.fields \subseteq Nat
                /\ Sorted(DOMAIN other.fields, SortedHashes(other))
  BY MirrorNode
<1>3. InBounds(b, Raise(at))
  BY BoundsKept
<1> HIDE DEF r, o, w, p
<1>4. CASE r < 0
  <2>1. result = IF PrimitiveMatches(r, w) THEN DecodePrimitive(w, b, at) ELSE Raise(at)
    BY <1>4, DecodePrimitiveIs
  <2>2. PrimitiveMatches(r, w) => IsPrimitive(w)
    <3>1. IsPrimitive(r)
      BY <1>1, <1>4
    <3>2. QED  BY <3>1 DEF PrimitiveMatches, IsPrimitive, TypeIds, Primitives
  <2>3. PrimitiveMatches(r, w) => InBounds(b, DecodePrimitive(w, b, at))
    BY <2>2, PrimitiveBounds
  <2>4. QED  BY <1>3, <2>1, <2>3 DEF r, w
<1>5. CASE ~ (r < 0) /\ ~ (w >= 0)
  BY <1>3, <1>5, DecodePrimitiveIs DEF r, w
<1>6. CASE ~ (r < 0) /\ w >= 0
  <2>1. ~ (o < 0) /\ ~ (p < 0)
    BY <1>1, <1>2, <1>6
  <2> DEFINE x == Q[o].arg
             y == sh[p].arg
  <2>2. /\ node.con \in {"opt", "vec", "func", "record", "variant", "service"}
        /\ node.con \in {"opt", "vec"} => x \in S /\ node.arg = m[x]
        /\ other.con \in {"opt", "vec"} => y \in U /\ other.arg = n[y]
    BY <1>1, <1>2, <2>1
  <2>3. node.con \in {"opt", "vec"} /\ other.con \in {"opt", "vec"} => \A i \in PlacesIn(b) :
           /\ InBounds(b, below[own][node.arg][other.arg][i])
           /\ InBounds(b, below[TRUE][other.arg][other.arg][i])
    <3> HIDE DEF x, y, node, other
    <3>1. QED  BY <2>2, Zenon DEF Inside
  <2>4. node.con \in {"record", "variant"} /\ other.con \in {"record", "variant"} =>
          /\ Sorted(DOMAIN node.fields, SortedHashes(node))
          /\ Sorted(DOMAIN other.fields, SortedHashes(other))
          /\ DOMAIN other.fields \subseteq Nat
          /\ \A h \in DOMAIN node.fields : h \in DOMAIN other.fields => \A i \in PlacesIn(b) :
               InBounds(b, below[own][node.fields[h]][other.fields[h]][i])
          /\ \A h \in DOMAIN other.fields : \A i \in PlacesIn(b) :
               InBounds(b, below[TRUE][other.fields[h]][other.fields[h]][i])
    <3> SUFFICES ASSUME node.con \in {"record", "variant"}, other.con \in {"record", "variant"}
                 PROVE  /\ Sorted(DOMAIN node.fields, SortedHashes(node))
                        /\ Sorted(DOMAIN other.fields, SortedHashes(other))
                        /\ DOMAIN other.fields \subseteq Nat
                        /\ \A h \in DOMAIN node.fields : h \in DOMAIN other.fields => \A i \in PlacesIn(b) :
                             InBounds(b, below[own][node.fields[h]][other.fields[h]][i])
                        /\ \A h \in DOMAIN other.fields : \A i \in PlacesIn(b) :
                             InBounds(b, below[TRUE][other.fields[h]][other.fields[h]][i])
      BY Zenon
    <3>1. /\ \A h \in DOMAIN node.fields : Q[o].fields[h] \in S /\ node.fields[h] = m[Q[o].fields[h]]
          /\ Sorted(DOMAIN node.fields, SortedHashes(node))
      BY <1>1, <2>1
    <3>2. /\ \A h \in DOMAIN other.fields : sh[p].fields[h] \in U /\ other.fields[h] = n[sh[p].fields[h]]
          /\ DOMAIN other.fields \subseteq Nat
          /\ Sorted(DOMAIN other.fields, SortedHashes(other))
      BY <1>2, <2>1
    <3> HIDE DEF node, other
    <3>3. ASSUME NEW h \in DOMAIN other.fields, NEW i \in PlacesIn(b)
          PROVE  InBounds(b, below[TRUE][other.fields[h]][other.fields[h]][i])
      BY <3>2, Zenon DEF Inside
    <3>4. ASSUME NEW h \in DOMAIN node.fields, h \in DOMAIN other.fields, NEW i \in PlacesIn(b)
          PROVE  InBounds(b, below[own][node.fields[h]][other.fields[h]][i])
      BY <3>1, <3>2, <3>4, SMTT(40) DEF Inside
    <3>5. QED  BY <3>1, <3>2, <3>3, <3>4, Zenon
  <2>5. CASE node.con = "vec"
    <3>1. result = ReadVec(b, below, own, node, other, at)
      BY <1>6, <2>5, DecodeVecIs
    <3>2. InBounds(b, ReadVec(b, below, own, node, other, at))
      BY <2>3, <2>5, VecBounds, Zenon
    <3>3. QED  BY <3>1, <3>2, Zenon DEF r, w
  <2>6. CASE node.con = "opt"
    <3>1. result = ReadOpt(b, below, own, node, other, at)
      BY <1>6, <2>6, DecodeOptionIs
    <3>2. InBounds(b, ReadOpt(b, below, own, node, other, at))
      BY <2>3, <2>6, OptBounds, Zenon
    <3>3. QED  BY <3>1, <3>2, Zenon DEF r, w
  <2>7. CASE node.con = "record"
    <3>1. result = IF other.con # "record" THEN Raise(at)
                   ELSE Shaped(DecodeFields(R, below, own, node, other, at), "dict")
      BY <1>6, <2>7, DecodeRecordIs
    <3>2. CASE other.con # "record"
      BY <1>3, <3>1, <3>2 DEF r, w
    <3>3. CASE other.con = "record"
      <4>1. InBounds(b, DecodeFields(R, below, own, node, other, at))
        <5>1. /\ Sorted(DOMAIN node.fields, SortedHashes(node))
              /\ Sorted(DOMAIN other.fields, SortedHashes(other))
              /\ DOMAIN other.fields \subseteq Nat
              /\ \A h \in DOMAIN node.fields : h \in DOMAIN other.fields => \A i \in PlacesIn(b) :
                   InBounds(b, below[own][node.fields[h]][other.fields[h]][i])
              /\ \A h \in DOMAIN other.fields : \A i \in PlacesIn(b) :
                   InBounds(b, below[TRUE][other.fields[h]][other.fields[h]][i])
          BY <2>4, <2>7, <3>3, Zenon
        <5> HIDE DEF node, other
        <5>2. QED  BY <5>1, FieldsBounds, Zenon
      <4>2. QED  BY <3>1, <3>3, <4>1, ShapedBounds DEF r, w
    <3>4. QED  BY <3>2, <3>3
  <2>8. CASE node.con = "variant"
    <3>1. result = ReadVariant(b, below, own, node, other, at)
      BY <1>6, <2>8, DecodeVariantIs
    <3>2. InBounds(b, ReadVariant(b, below, own, node, other, at))
      BY <2>4, <2>8, VariantBounds, Zenon
    <3>3. QED  BY <3>1, <3>2, Zenon DEF r, w
  <2>9. CASE node.con \in {"service", "func"}
    BY <1>6, <2>9, DecodeReferenceIs, ReferenceBounds DEF r, w
  <2>10. QED  BY <2>2, <2>5, <2>6, <2>7, <2>8, <2>9
<1>7. QED  BY <1>1, <1>2, <1>4, <1>5, <1>6

(* decodeValue ends within the bytes, if it does one level deeper. *)
LEMMA TypeBounds ==
  ASSUME NEW b \in Seq(Bytes), NEW below, NEW own \in BOOLEAN, NEW lh, NEW W, NEW sh, NEW U, NEW n, Mirror(W, sh, U, n),
         NEW R, R = IF own THEN W ELSE lh, NEW Q, NEW S, NEW m, Mirror(R, Q, S, m),
         Inside(b, below, own, S, m, U, n), Inside(b, below, TRUE, U, n, U, n),
         NEW q \in S, NEW t \in U, NEW at \in PlacesIn(b)
  PROVE  InBounds(b, DecodeType(lh, W, b, below, own, m[q], n[t], at))
<1> DEFINE mine == GetType(R, m[q])
           theirs == GetType(W, n[t])
           sent == DecodeParts(W, W, b, below, TRUE, theirs, theirs, at)
           parts == DecodeParts(R, W, b, below, own, mine, theirs, at)
           result == DecodeType(lh, W, b, below, own, m[q], n[t], at)
<1>1. result = IF mine # TypeIds.reserved THEN parts
               ELSE IF ~ HasName(W, n[t]) THEN Raise(at) ELSE IF sent.ok THEN Got(None, sent.at) ELSE sent
  BY DEF DecodeType
<1>2. InBounds(b, parts)
  BY PartsBounds, Zenon
<1>3. InBounds(b, sent)
  BY PartsBounds, Zenon
<1>4. InBounds(b, Raise(at))
  BY BoundsKept
<1> HIDE DEF mine, theirs, sent, parts, result
<1>5. InBounds(b, Got(None, sent.at))
  <2>1. sent.at \in PlacesIn(b)
    BY <1>3 DEF InBounds
  <2>2. QED  BY <2>1, BoundsKept
<1>6. InBounds(b, result)
  BY <1>1, <1>2, <1>3, <1>4, <1>5, Zenon
<1>7. QED  BY <1>6 DEF result

(* The numbers of the types and the positions the decoder is asked for *)
LEMMA Asked ==
  ASSUME NEW b \in Seq(Bytes), NEW at \in PlacesIn(b)
  PROVE  at \in Position
BY DEF PlacesIn, Position

(* decodeValue ends within the bytes, however deep it goes. *)
LEMMA DecoderBounds ==
  ASSUME NEW b \in Seq(Bytes), NEW R, NEW Q, NEW S, NEW m, Mirror(R, Q, S, m),
         NEW W, NEW sh, NEW U, NEW n, Mirror(W, sh, U, n)
  PROVE  \A d \in 0 .. MaxDepth : /\ Inside(b, Decoder(R, W, b)[d], FALSE, S, m, U, n)
                                  /\ Inside(b, Decoder(R, W, b)[d], TRUE, U, n, U, n)
<1> DEFINE read == Decoder(R, W, b)
           T == {d \in 0 .. MaxDepth : /\ Inside(b, read[d], FALSE, S, m, U, n)
                                       /\ Inside(b, read[d], TRUE, U, n, U, n)}
<1>1. MaxDepth \in Nat
  BY DepthAssumption
<1>2. ASSUME NEW own, own \in BOOLEAN, NEW l \in Int, NEW w \in Int, NEW at \in Position
      PROVE  /\ read[0][own][l][w][at] = Raise(at)
             /\ \A d \in 1 .. MaxDepth : read[d][own][l][w][at] = DecodeType(R, W, b, read[d - 1], own, l, w, at)
  <2>1. Deepens(R, W, b, own, l, w, at)
    BY <1>2, DecoderLevels
  <2>2. QED  BY <2>1 DEF Deepens
<1>3. (\A q \in S : m[q] \in Int) /\ (\A t \in U : n[t] \in Int)
  BY DEF Mirror
<1> HIDE DEF read
<1>4. 0 \in T
  <2>1. ASSUME NEW own, own \in BOOLEAN, NEW l \in Int, NEW w \in Int, NEW at \in PlacesIn(b)
        PROVE  InBounds(b, read[0][own][l][w][at])
    <3>1. read[0][own][l][w][at] = Raise(at)
      BY <1>2, <2>1, Asked
    <3>2. QED  BY <3>1, BoundsKept
  <2>2. Inside(b, read[0], FALSE, S, m, U, n)
    BY <1>3, <2>1, Zenon DEF Inside
  <2>3. Inside(b, read[0], TRUE, U, n, U, n)
    BY <1>3, <2>1, Zenon DEF Inside
  <2>4. 0 \in 0 .. MaxDepth
    BY <1>1
  <2>5. QED  BY <2>2, <2>3, <2>4, Zenon
<1>5. ASSUME NEW d \in 1 .. MaxDepth, d - 1 \in T PROVE d \in T
  <2>1. ASSUME NEW q \in S, NEW t \in U, NEW at \in PlacesIn(b) PROVE InBounds(b, read[d][FALSE][m[q]][n[t]][at])
    <3>1. read[d][FALSE][m[q]][n[t]][at] = DecodeType(R, W, b, read[d - 1], FALSE, m[q], n[t], at)
      BY <1>2, <1>3, Asked, Zenon
    <3>2. InBounds(b, DecodeType(R, W, b, read[d - 1], FALSE, m[q], n[t], at))
      <4>1. Inside(b, read[d - 1], FALSE, S, m, U, n) /\ Inside(b, read[d - 1], TRUE, U, n, U, n)
        BY <1>5, Zenon
      <4>2. R = IF FALSE THEN W ELSE R
        OBVIOUS
      <4>3. QED  BY <4>1, <4>2, TypeBounds, Zenon
    <3>3. QED  BY <3>1, <3>2, Zenon
  <2>2. ASSUME NEW q \in U, NEW t \in U, NEW at \in PlacesIn(b) PROVE InBounds(b, read[d][TRUE][n[q]][n[t]][at])
    <3>1. read[d][TRUE][n[q]][n[t]][at] = DecodeType(R, W, b, read[d - 1], TRUE, n[q], n[t], at)
      BY <1>2, <1>3, Asked, Zenon
    <3>2. InBounds(b, DecodeType(R, W, b, read[d - 1], TRUE, n[q], n[t], at))
      <4>1. Inside(b, read[d - 1], TRUE, U, n, U, n)
        BY <1>5, Zenon
      <4>2. W = IF TRUE THEN W ELSE R
        OBVIOUS
      <4>3. QED  BY <4>1, <4>2, TypeBounds, Zenon
    <3>3. QED  BY <3>1, <3>2, Zenon
  <2>3. Inside(b, read[d], FALSE, S, m, U, n) /\ Inside(b, read[d], TRUE, U, n, U, n)
    BY <2>1, <2>2, Zenon DEF Inside
  <2>4. d \in 0 .. MaxDepth
    OBVIOUS
  <2>5. QED  BY <2>3, <2>4, Zenon
<1> HIDE DEF T
<1>6. \A d \in 0 .. MaxDepth : d \in T
  BY <1>1, <1>4, <1>5, BoundedInduction, Zenon
<1>7. QED  BY <1>6, Zenon DEF T, read

(* The types of a receiver are those of a heap, mirrored. *)
Receives(mine, Q, S, m, names) ==
  /\ Mirror(mine.heap, Q, S, m)
  /\ names \in Seq(S) /\ Len(mine.types) = Len(names)
  /\ \A i \in 1 .. Len(names) : mine.types[i] = m[names[i]]

(* decode ends within the bytes. *)
LEMMA ArgsBounds ==
  ASSUME NEW b \in Seq(Bytes), NEW mine, NEW Q, NEW S, NEW m, NEW names, Receives(mine, Q, S, m, names),
         NEW sent, NEW sh, NEW U, NEW n, NEW sentNames, Receives(sent, sh, U, n, sentNames),
         Len(names) <= Len(sentNames), NEW at \in PlacesIn(b)
  PROVE  InBounds(b, DecodeArgs(mine, sent, b, at))
<1> DEFINE k == Len(mine.types)
<1>1. k \in Nat /\ k = Len(names)
  BY DEF Receives
<1>2. PICK f : /\ f[0] = Got(<< >>, at)
               /\ \A d \in 1 .. k : f[d] = DecodeArg(mine, sent, b, d, f[d - 1])
               /\ DecodeArgs(mine, sent, b, at) = f[k]
  <2>1. \E f : DecodesArgs(mine, sent, b, at, f)
    BY <1>1, DecodeArgsRuns, Zenon
  <2>2. QED  BY <2>1 DEF DecodesArgs
<1> HIDE DEF k
<1> DEFINE T == {i \in 0 .. k : InBounds(b, f[i])}
<1>3. 0 \in T
  BY <1>1, <1>2, BoundsKept
<1>4. ASSUME NEW i \in 1 .. k, i - 1 \in T PROVE i \in T
  <2> DEFINE read == f[i - 1]
             value == DecodeValue(mine.heap, mine.types[i], sent.heap, sent.types[i], b, read.at)
             step == DecodeArg(mine, sent, b, i, read)
  <2>1. InBounds(b, read) /\ read.at \in PlacesIn(b)
    BY <1>4 DEF InBounds
  <2>2. f[i] = step
    BY <1>2
  <2>3. step = IF read.ok /\ ~ HasName(mine.heap, mine.types[i]) THEN Raise(read.at) ELSE Added(read, value)
    BY DEF DecodeArg
  <2> HIDE DEF read
  <2>4. InBounds(b, value)
    <3>1. names[i] \in S /\ mine.types[i] = m[names[i]]
      BY <1>1 DEF Receives
    <3>2. sentNames[i] \in U /\ sent.types[i] = n[sentNames[i]]
      <4>1. i \in 1 .. Len(sentNames)
        BY <1>1 DEF Receives
      <4>2. QED  BY <4>1 DEF Receives
    <3>3. MaxDepth \in 0 .. MaxDepth
      BY DepthAssumption
    <3>4. Inside(b, Decoder(mine.heap, sent.heap, b)[MaxDepth], FALSE, S, m, U, n)
      BY <3>3, DecoderBounds, Zenon DEF Receives
    <3>5. QED  BY <2>1, <3>1, <3>2, <3>4, Zenon DEF Inside, DecodeValue
  <2> HIDE DEF value, step
  <2>5. InBounds(b, Got(Append(read.val, value.val), value.at)) /\ InBounds(b, Raise(read.at))
    <3>1. value.at \in PlacesIn(b)
      BY <2>4 DEF InBounds
    <3>2. QED  BY <2>1, <3>1, BoundsKept
  <2>6. InBounds(b, Added(read, value))
    BY <2>1, <2>4, <2>5 DEF Added
  <2>7. InBounds(b, step)
    BY <2>3, <2>5, <2>6, Zenon
  <2>8. i \in 0 .. k
    OBVIOUS
  <2>9. QED  BY <2>2, <2>7, <2>8
<1> HIDE DEF T
<1>5. \A i \in 0 .. k : i \in T
  BY <1>1, <1>3, <1>4, BoundedInduction, Zenon
<1>6. InBounds(b, f[k])
  BY <1>1, <1>5 DEF T
<1>7. QED  BY <1>2, <1>6

(* What was sent is a mirror of the sender's types. *)
LEMMA SentReceives ==
  ASSUME NEW msg, IsMessage(msg)
  PROVE  Receives(SentTypes(msg), msg.heap, Known(msg.heap, TableOf(msg)), OnWire(msg.heap, TableOf(msg)), msg.types)
<1> DEFINE heap == msg.heap
           table == TableOf(msg)
           S == Known(heap, table)
           m == OnWire(heap, table)
<1>1. IsHeap(heap) /\ msg.types \in Seq(Refs(heap))
  BY DEF IsMessage
<1>2. IsTable(heap, table) /\ AllWithin(heap, msg.types, ToSet(table)) /\ Closed(heap, ToSet(table))
  BY MessageBytes
<1>3. Mirror(WireHeap(heap, table), heap, S, m)
  BY <1>1, <1>2, MirrorWire
<1>4. msg.types \in Seq(S)
  <2>1. \A i \in 1 .. Len(msg.types) : msg.types[i] \in Known(heap, table)
    BY <1>1, <1>2 DEF AllWithin, Known
  <2> HIDE DEF S
  <2>2. QED  BY <1>1, <2>1 DEF S
<1>5. SentTypes(msg).heap = WireHeap(heap, table) /\ SentTypes(msg).types = WireRefs(heap, table, msg.types)
  BY DEF SentTypes
<1>6. Len(WireRefs(heap, table, msg.types)) = Len(msg.types)
  BY <1>1 DEF WireRefs
<1>7. ASSUME NEW i \in 1 .. Len(msg.types) PROVE WireRefs(heap, table, msg.types)[i] = m[msg.types[i]]
  <2>1. msg.types[i] \in Known(heap, table)
    BY <1>4
  <2>2. QED  BY <2>1 DEF WireRefs, OnWire
<1> HIDE DEF heap, table, S, m
<1>8. QED  BY <1>3, <1>4, <1>5, <1>6, <1>7, Zenon DEF Receives, heap, table, S, m

(* So are the types of a receiver, of themselves. *)
LEMMA ExpectedReceives ==
  ASSUME NEW mine, IsHeap(mine.heap), mine.types \in Seq(Refs(mine.heap))
  PROVE  Receives(mine, mine.heap, Refs(mine.heap), [t \in Refs(mine.heap) |-> t], mine.types)
BY MirrorItself DEF Receives

---------------------------------------------------------------------------

(* Type correctness *)

(* The types a receiver reads a message with *)
Taken(msg, expected) == IF expected.types = << >> THEN SentTypes(msg) ELSE expected

(* The reading of a message *)
LEMMA ReadAs ==
  ASSUME NEW msg, IsMessage(msg), NEW expected
  PROVE  Decode(Encode(msg), expected)
           = IF Len(SentTypes(msg).types) < Len(Taken(msg, expected).types) THEN Raise(ValuesAt(msg))
             ELSE DecodeArgs(Taken(msg, expected), SentTypes(msg), Encode(msg), ValuesAt(msg))
BY HeaderRead DEF DecodeAs, Taken

(* The types of a receiver are mirrored. *)
LEMMA TakenReceives ==
  ASSUME NEW msg, IsMessage(msg), NEW expected, IsHeap(expected.heap), expected.types \in Seq(Refs(expected.heap))
  PROVE  \E Q, S, m, names : Receives(Taken(msg, expected), Q, S, m, names)
<1>1. CASE expected.types = << >>
  <2>1. Taken(msg, expected) = SentTypes(msg)
    BY <1>1 DEF Taken
  <2>2. QED  BY <2>1, SentReceives
<1>2. CASE expected.types # << >>
  <2>1. Taken(msg, expected) = expected
    BY <1>2 DEF Taken
  <2>2. QED  BY <2>1, ExpectedReceives, Zenon
<1>3. QED  BY <1>1, <1>2

(* The reading of a message ends within its bytes. *)
LEMMA MessageBounds ==
  ASSUME NEW msg, IsMessage(msg), NEW expected, IsHeap(expected.heap), expected.types \in Seq(Refs(expected.heap))
  PROVE  InBounds(Encode(msg), Decode(Encode(msg), expected))
<1> DEFINE b == Encode(msg)
           at == ValuesAt(msg)
           mine == Taken(msg, expected)
           sent == SentTypes(msg)
<1>1. Holds(b, at, FlattenSeq(ValuePieces(msg)))
  BY HeaderRead
<1>2. b \in Seq(Bytes) /\ at \in PlacesIn(b)
  BY <1>1, LenBoth DEF Holds, PlacesIn, Position
<1>3. PICK Q, S, m, names : Receives(mine, Q, S, m, names)
  BY TakenReceives
<1>4. PICK sh, U, n, sentNames : Receives(sent, sh, U, n, sentNames)
  BY SentReceives
<1>5. Decode(b, expected) = IF Len(sent.types) < Len(mine.types) THEN Raise(at) ELSE DecodeArgs(mine, sent, b, at)
  BY ReadAs
<1> HIDE DEF b, at, mine, sent
<1>6. Len(sent.types) = Len(sentNames) /\ Len(mine.types) = Len(names)
      /\ Len(sentNames) \in Nat /\ Len(names) \in Nat
  BY <1>3, <1>4 DEF Receives
<1>7. CASE Len(sent.types) < Len(mine.types)
  BY <1>2, <1>5, <1>7, BoundsKept DEF b
<1>8. CASE ~ (Len(sent.types) < Len(mine.types))
  <2>1. Len(names) <= Len(sentNames)
    BY <1>6, <1>8
  <2>2. InBounds(b, DecodeArgs(mine, sent, b, at))
    BY <1>2, <1>3, <1>4, <2>1, ArgsBounds
  <2>3. QED  BY <1>5, <1>8, <2>2 DEF b
<1>9. QED  BY <1>7, <1>8

(* A receiver's reading is what decode makes of the bytes sent. *)
Exchanged ==
  /\ Sent
  /\ \/ reading = NoReading
     \/ /\ wire # << >>
        /\ reading.expected \in Expected
        /\ reading.result = Decode(wire, reading.expected)

(* Exchanged holds at first, and every step keeps it. *)
LEMMA ExchangedInductive == Init => Exchanged
BY SentAtFirst DEF Init, Exchanged

(* Every step keeps it. *)
LEMMA ExchangedStep == Exchanged /\ [Next]_vars => Exchanged'
<1> SUFFICES ASSUME Exchanged, [Next]_vars PROVE Exchanged'
  OBVIOUS
<1>1. Sent'
  BY SentStep DEF Exchanged
<1>2. CASE Send
  BY <1>1, <1>2 DEF Exchanged, Send
<1>3. CASE Receive
  <2>1. PICK expected \in Expected : reading' = [expected |-> expected, result |-> Decode(wire, expected)]
    BY <1>3 DEF Receive
  <2>2. reading'.expected = expected /\ reading'.result = Decode(wire, expected)
    BY <2>1
  <2>3. wire # << >> /\ wire' = wire
    BY <1>3 DEF Receive
  <2>4. QED  BY <1>1, <2>2, <2>3 DEF Exchanged
<1>4. CASE UNCHANGED vars
  BY <1>1, <1>4 DEF Exchanged, vars
<1>5. QED  BY <1>2, <1>3, <1>4 DEF Next

(* Exchanged is an invariant. *)
LEMMA ExchangedAlways == Spec => []Exchanged
BY ExchangedInductive, ExchangedStep, PTL DEF Spec

(* TypeOK: an encoded message is bytes, and every reading of it ends within *)
(* them, whatever types the receiver expects.                               *)
THEOREM TypeCorrect == Spec => []TypeOK
<1>1. Exchanged => TypeOK
  <2> SUFFICES ASSUME Exchanged PROVE TypeOK
    OBVIOUS
  <2>1. message \in Messages /\ IsMessage(message)
    BY MessagesAssumption DEF Exchanged, Sent
  <2>2. Encode(message) \in Seq(Bytes)
    BY <2>1, MessageBytes
  <2>3. wire = << >> \/ wire = Encode(message)
    BY DEF Exchanged, Sent
  <2>4. \A i \in DOMAIN wire : wire[i] \in Bytes
    <3>1. wire \in Seq(Bytes)
      <4>1. << >> \in Seq(Bytes)
        OBVIOUS
      <4>2. QED  BY <2>2, <2>3, <4>1, Zenon
    <3>2. QED  BY <3>1
  <2>5. CASE reading = NoReading
    BY <2>1, <2>4, <2>5 DEF TypeOK
  <2>6. CASE ~ (reading = NoReading)
    <3>1. wire = Encode(message) /\ reading.expected \in Expected /\ reading.result = Decode(wire, reading.expected)
      BY <2>3, <2>6 DEF Exchanged
    <3>2. IsHeap(reading.expected.heap) /\ reading.expected.types \in Seq(Refs(reading.expected.heap))
      BY <3>1, MessagesAssumption
    <3>3. InBounds(wire, reading.result)
      BY <2>1, <3>1, <3>2, MessageBounds
    <3>4. QED  BY <2>1, <2>4, <3>1, <3>3 DEF TypeOK, InBounds, PlacesIn
  <2>7. QED  BY <2>5, <2>6
<1>2. QED  BY <1>1, ExchangedAlways, PTL

---------------------------------------------------------------------------

(* The table as it is read back *)

(* One byte *)
LEMMA ByteHeld ==
  ASSUME NEW b, NEW at, NEW x, Holds(b, at, <<x>>)
  PROVE  at \in Position /\ ~ (at > Len(b)) /\ at <= Len(b) /\ b[at] = x
<1>1. Len(<<x>>) = 1 /\ <<x>>[1] = x
  OBVIOUS
<1>2. b \in Seq(Bytes) /\ at \in Position /\ at + Len(<<x>>) <= Len(b) + 1
      /\ \A k \in 1 .. Len(<<x>>) : b[at + k - 1] = <<x>>[k]
  BY DEF Holds
<1>3. b[at + 1 - 1] = x
  <2>1. 1 \in 1 .. Len(<<x>>)
    BY <1>1
  <2>2. b[at + 1 - 1] = <<x>>[1]
    BY <1>2, <2>1
  <2>3. QED  BY <1>1, <2>2
<1>4. QED  BY <1>1, <1>2, <1>3 DEF Position

(* The bytes that are held *)
LEMMA HeldBytes ==
  ASSUME NEW b, NEW at, NEW s, Holds(b, at, s)
  PROVE  SubSeq(b, at, at + Len(s) - 1) = s
<1>1. b \in Seq(Bytes) /\ at \in Position /\ s \in Seq(Bytes) /\ at + Len(s) <= Len(b) + 1
      /\ \A k \in 1 .. Len(s) : b[at + k - 1] = s[k]
  BY DEF Holds
<1> DEFINE u == SubSeq(b, at, at + Len(s) - 1)
<1>2. u \in Seq(Bytes) /\ Len(u) = Len(s) /\ \A k \in 1 .. Len(s) : u[k] = b[at + k - 1]
  BY <1>1 DEF Position
<1> HIDE DEF u
<1>3. u = s
  BY <1>1, <1>2
<1>4. QED  BY <1>3 DEF u

(* A text is read as it was written. *)
LEMMA TextHeld ==
  ASSUME NEW b, NEW at, NEW s \in Seq(Bytes), Holds(b, at, EncodeText(s))
  PROVE  DecodeText(b, at) = Got(s, at + Len(EncodeText(s)))
<1> DEFINE c == EncodeU(Len(s))
           mid == at + Len(c)
           end == at + Len(EncodeText(s))
<1>1. c \in Seq(Bytes) /\ EncodeText(s) = c \o s /\ Len(s) \in Nat
  BY TextBytes DEF EncodeText
<1>2. Split(b, at, c, s, mid, end)
  BY <1>1, Behind, Zenon
<1>3. DecodeU(b, at) = Got(Len(s), mid)
  BY <1>1, <1>2, UnsignedHeld DEF Split
<1>4. Holds(b, mid, s) /\ end = mid + Len(s)
  BY <1>2 DEF Split
<1> HIDE DEF c, mid, end
<1>5. SubSeq(b, mid, end - 1) = s
  <2>1. SubSeq(b, mid, mid + Len(s) - 1) = s
    BY <1>4, HeldBytes
  <2>2. mid + Len(s) - 1 = end - 1
    BY <1>1, <1>4 DEF Holds, Position
  <2>3. QED  BY <2>1, <2>2
<1>6. ~ (end > Len(b) + 1)
  BY <1>4 DEF Holds, Position
<1>7. DecodeU(b, at).ok = TRUE /\ DecodeU(b, at).val = Len(s) /\ DecodeU(b, at).at = mid
  BY <1>3, GotIs
<1>8. DecodeText(b, at) = Got(s, end)
  BY <1>4, <1>5, <1>6, <1>7, Zenon DEF DecodeText
<1>9. QED  BY <1>8 DEF end

(* A principal is read as it was written. *)
LEMMA PrincipalHeld ==
  ASSUME NEW b, NEW at, NEW s \in Seq(Bytes), Holds(b, at, EncodePrincipal(s))
  PROVE  DecodePrincipal(b, at) = Got(s, at + Len(EncodePrincipal(s)))
<1> DEFINE end == at + Len(EncodePrincipal(s))
<1>1. <<1>> \in Seq(Bytes) /\ EncodeText(s) \in Seq(Bytes) /\ EncodePrincipal(s) = <<1>> \o EncodeText(s)
  BY TextBytes DEF EncodePrincipal
<1>2. Split(b, at, <<1>>, EncodeText(s), at + Len(<<1>>), end)
  BY <1>1, Behind, Zenon
<1>3. ~ (at > Len(b)) /\ b[at] = 1
  BY <1>2, ByteHeld DEF Split
<1>4. Holds(b, at + 1, EncodeText(s)) /\ end = at + 1 + Len(EncodeText(s))
  BY <1>2 DEF Split
<1> HIDE DEF end
<1>5. DecodeText(b, at + 1) = Got(s, end)
  BY <1>4, TextHeld
<1>6. QED  BY <1>3, <1>5 DEF DecodePrincipal, end

(* What a value of a primitive type is read as *)
Kept(t, v) == IF Name(t) = "reserved" THEN None ELSE v

(* A reading with a shape *)
LEMMA ShapedIs ==
  ASSUME NEW v, NEW p, NEW shape
  PROVE  Shaped(Got(v, p), shape) = Got(<<shape, v>>, p)
BY DEF Shaped, Got

(* A value of a primitive type is read as it was written. *)
LEMMA PrimitiveHeld ==
  ASSUME NEW t, IsPrimitive(t), NEW v, FitsPrimitive(t, v), NEW b, NEW at, Holds(b, at, EncodePrimitive(t, v))
  PROVE  DecodePrimitive(t, b, at) = Got(Kept(t, v), at + Len(EncodePrimitive(t, v)))
<1> DEFINE end == at + Len(EncodePrimitive(t, v))
<1>1. Name(t) \in Primitives
  BY PrimitiveNames
<1>2. /\ Name(t) = "nat"       => v = Num(v[2]) /\ v[2] \in Nat
      /\ Name(t) = "int"       => v = Num(v[2]) /\ v[2] \in Int
      /\ Name(t) = "nat8"      => v = Num(v[2]) /\ v[2] \in Bytes
      /\ Name(t) = "text"      => v = Text(v[2]) /\ v[2] \in Seq(Bytes)
      /\ Name(t) = "principal" => v = Ref(v[2]) /\ v[2] \in Seq(Bytes)
      /\ Name(t) = "null"      => v = None
      /\ Name(t) # "empty"
  BY PrimitiveShapes
<1>3. CASE Name(t) = "nat"
  <2>1. EncodePrimitive(t, v) = EncodeU(v[2])
    BY <1>3 DEF EncodePrimitive
  <2>2. DecodeU(b, at) = Got(v[2], end)
    BY <1>2, <1>3, <2>1, UnsignedHeld
  <2>3. DecodePrimitive(t, b, at) = Shaped(Got(v[2], end), "num") /\ Kept(t, v) = v
    BY <1>3, <2>2 DEF DecodePrimitive, Kept
  <2>4. QED  BY <1>2, <1>3, <2>3, ShapedIs DEF Num
<1>4. CASE Name(t) = "int"
  <2>1. EncodePrimitive(t, v) = EncodeI(v[2])
    BY <1>4 DEF EncodePrimitive
  <2>2. DecodeI(b, at) = Got(v[2], end)
    BY <1>2, <1>4, <2>1, SignedHeld
  <2>3. DecodePrimitive(t, b, at) = Shaped(Got(v[2], end), "num") /\ Kept(t, v) = v
    BY <1>4, <2>2 DEF DecodePrimitive, Kept
  <2>4. QED  BY <1>2, <1>4, <2>3, ShapedIs DEF Num
<1>5. CASE Name(t) = "nat8"
  <2>1. EncodePrimitive(t, v) = <<v[2]>>
    BY <1>5 DEF EncodePrimitive
  <2>2. ~ (at > Len(b)) /\ b[at] = v[2] /\ end = at + 1
    BY <2>1, ByteHeld
  <2>3. DecodePrimitive(t, b, at) = Got(Num(v[2]), end) /\ Kept(t, v) = v
    BY <1>5, <2>2 DEF DecodePrimitive, Kept
  <2>4. QED  BY <1>2, <1>5, <2>3
<1>6. CASE Name(t) = "text"
  <2>1. EncodePrimitive(t, v) = EncodeText(v[2])
    BY <1>6 DEF EncodePrimitive
  <2>2. DecodeText(b, at) = Got(v[2], end)
    BY <1>2, <1>6, <2>1, TextHeld
  <2>3. DecodePrimitive(t, b, at) = Shaped(Got(v[2], end), "text") /\ Kept(t, v) = v
    BY <1>6, <2>2 DEF DecodePrimitive, Kept
  <2>4. QED  BY <1>2, <1>6, <2>3, ShapedIs DEF Text
<1>7. CASE Name(t) = "principal"
  <2>1. EncodePrimitive(t, v) = EncodePrincipal(v[2])
    BY <1>7 DEF EncodePrimitive
  <2>2. DecodePrincipal(b, at) = Got(v[2], end)
    BY <1>2, <1>7, <2>1, PrincipalHeld
  <2>3. DecodePrimitive(t, b, at) = Shaped(Got(v[2], end), "ref") /\ Kept(t, v) = v
    BY <1>7, <2>2 DEF DecodePrimitive, Kept
  <2>4. QED  BY <1>2, <1>7, <2>3, ShapedIs DEF Ref
<1>8. CASE Name(t) \in {"null", "reserved"}
  <2>1. EncodePrimitive(t, v) = << >>
    BY <1>8 DEF EncodePrimitive
  <2>2. end = at
    BY <2>1 DEF Holds, Position
  <2>3. DecodePrimitive(t, b, at) = Got(None, at) /\ Kept(t, v) = None
    BY <1>2, <1>8 DEF DecodePrimitive, Kept
  <2>4. QED  BY <2>2, <2>3
<1>9. QED  BY <1>1, <1>2, <1>3, <1>4, <1>5, <1>6, <1>7, <1>8 DEF Primitives

(* So is a service. *)
LEMMA ServiceHeld ==
  ASSUME NEW v, v = None \/ (v = Ref(v[2]) /\ v[2] \in Seq(Bytes)), NEW b, NEW at, Holds(b, at, EncodeService(v))
  PROVE  DecodeService(b, at) = Got(v, at + Len(EncodeService(v)))
<1> DEFINE end == at + Len(EncodeService(v))
<1>1. CASE v = None
  <2>1. EncodeService(v) = <<0>>
    BY <1>1 DEF EncodeService
  <2>2. at <= Len(b) /\ b[at] = 0 /\ end = at + 1
    BY <2>1, ByteHeld
  <2>3. QED  BY <1>1, <2>2 DEF DecodeService, Opaque
<1>2. CASE v # None
  <2>1. EncodeService(v) = EncodePrincipal(v[2]) /\ v = Ref(v[2]) /\ v[2] \in Seq(Bytes)
    BY <1>2 DEF EncodeService
  <2>2. b[at] = 1
    <3>1. <<1>> \in Seq(Bytes) /\ EncodeText(v[2]) \in Seq(Bytes)
          /\ EncodePrincipal(v[2]) = <<1>> \o EncodeText(v[2])
      BY <2>1, TextBytes DEF EncodePrincipal
    <3>2. Holds(b, at, <<1>>)
      BY <2>1, <3>1, HoldsBoth, Zenon
    <3>3. QED  BY <3>2, ByteHeld
  <2>3. DecodePrincipal(b, at) = Got(v[2], end)
    BY <2>1, PrincipalHeld
  <2>4. DecodeService(b, at) = Shaped(Got(v[2], end), "ref")
    BY <2>2, <2>3 DEF DecodeService, Opaque
  <2>5. QED  BY <2>1, <2>4, ShapedIs DEF Ref
<1>3. QED  BY <1>1, <1>2

(* So is a func. *)
LEMMA FuncHeld ==
  ASSUME NEW v, v = None \/ (v = Ref(v[2]) /\ v[2] \in Seq(Bytes)), NEW b, NEW at, Holds(b, at, EncodeFunc(v))
  PROVE  DecodeFunc(b, at) = Got(v, at + Len(EncodeFunc(v)))
<1> DEFINE end == at + Len(EncodeFunc(v))
<1>1. CASE v = None
  <2>1. EncodeFunc(v) = <<0>>
    BY <1>1 DEF EncodeFunc
  <2>2. at <= Len(b) /\ b[at] = 0 /\ end = at + 1
    BY <2>1, ByteHeld
  <2>3. QED  BY <1>1, <2>2 DEF DecodeFunc, Opaque
<1>2. CASE v # None
  <2> DEFINE c == EncodePrincipal(v[2])
             d == EncodeText(<<109>>)
             mid == at + 1 + Len(c)
  <2>1. EncodeFunc(v) = (<<1>> \o c) \o d /\ v = Ref(v[2]) /\ v[2] \in Seq(Bytes)
    BY <1>2 DEF EncodeFunc
  <2>2. <<1>> \in Seq(Bytes) /\ c \in Seq(Bytes) /\ d \in Seq(Bytes) /\ <<109>> \in Seq(Bytes)
    BY <2>1, TextBytes
  <2>3. <<1>> \o c \in Seq(Bytes)
    BY <2>2, Joined
  <2>4. Split(b, at, <<1>> \o c, d, at + Len(<<1>> \o c), end)
    BY <2>1, <2>2, <2>3, Behind, Zenon
  <2>5. Len(<<1>> \o c) = 1 + Len(c) /\ Len(c) \in Nat
    BY <2>2, LenBoth
  <2>6. Split(b, at, <<1>>, c, at + 1, at + 1 + Len(c))
    <3>1. Holds(b, at, <<1>> \o c)
      BY <2>4 DEF Split
    <3>2. Split(b, at, <<1>>, c, at + Len(<<1>>), at + Len(<<1>> \o c))
      BY <2>2, <3>1, Behind, Zenon
    <3>3. at \in Nat
      BY <3>1 DEF Holds, Position
    <3>4. at + Len(<<1>>) = at + 1 /\ at + Len(<<1>> \o c) = at + 1 + Len(c)
      BY <2>5, <3>3
    <3>5. QED  BY <3>2, <3>4
  <2>7. at <= Len(b) /\ b[at] = 1 /\ at \in Nat
    BY <2>6, ByteHeld DEF Split, Position
  <2>8. Holds(b, at + 1, c) /\ Holds(b, mid, d) /\ mid + Len(d) = end
    BY <2>4, <2>5, <2>6, <2>7 DEF Split
  <2>9. DecodePrincipal(b, at + 1) = Got(v[2], mid)
    BY <2>1, <2>8, PrincipalHeld
  <2>10. DecodeText(b, mid) = Got(<<109>>, end)
    <3> DEFINE name == <<109>>
    <3>1. name \in Seq(Bytes) /\ Holds(b, mid, EncodeText(name)) /\ end = mid + Len(EncodeText(name))
      BY <2>2, <2>8
    <3> HIDE DEF name, mid, end
    <3>2. DecodeText(b, mid) = Got(name, end)
      BY <3>1, TextHeld
    <3>3. QED  BY <3>2 DEF name
  <2> HIDE DEF c, d, mid, end
  <2>11. /\ DecodePrincipal(b, at + 1).ok = TRUE /\ DecodePrincipal(b, at + 1).val = v[2]
         /\ DecodePrincipal(b, at + 1).at = mid
         /\ DecodeText(b, mid).ok = TRUE /\ DecodeText(b, mid).at = end
    BY <2>9, <2>10, GotIs
  <2>12. DecodeFunc(b, at) = Got(Ref(v[2]), end)
    BY <2>7, <2>11 DEF DecodeFunc, Opaque
  <2>13. QED  BY <2>1, <2>12 DEF end
<1>3. QED  BY <1>1, <1>2

(* A reading that should yield one of C and end at a position: it raises   *)
(* if there is none, or if a name never ends.                              *)
Outcome(read, C, end, names) ==
  /\ read.ok \in BOOLEAN
  /\ read.ok => read.val \in C /\ read.at = end
  /\ C # {} /\ names => read.ok

(* A family of sets has a choice from each of them, if none is empty. *)
LEMMA AllChosen ==
  ASSUME NEW sets
  PROVE  /\ All(sets) # {} <=> \A i \in DOMAIN sets : sets[i] # {}
         /\ \A f : f = [i \in DOMAIN sets |-> f[i]] /\ (\A i \in DOMAIN sets : f[i] \in sets[i]) => f \in All(sets)
         /\ \A f \in All(sets) : f = [i \in DOMAIN sets |-> f[i]] /\ \A i \in DOMAIN sets : f[i] \in sets[i]
<1> DEFINE X == UNION Range(sets)
<1>1. \A i \in DOMAIN sets : sets[i] \subseteq X
  BY DEF Range
<1>2. ASSUME NEW f, f = [i \in DOMAIN sets |-> f[i]], \A i \in DOMAIN sets : f[i] \in sets[i]
      PROVE  f \in All(sets)
  <2>1. \A i \in DOMAIN sets : f[i] \in X
    BY <1>1, <1>2
  <2> HIDE DEF X
  <2>2. f \in [DOMAIN sets -> X]
    BY <1>2, <2>1
  <2>3. QED  BY <1>2, <2>2 DEF All, X
<1>3. ASSUME NEW f \in All(sets)
      PROVE  f = [i \in DOMAIN sets |-> f[i]] /\ \A i \in DOMAIN sets : f[i] \in sets[i]
  <2> HIDE DEF X
  <2>1. f \in [DOMAIN sets -> X] /\ \A i \in DOMAIN sets : f[i] \in sets[i]
    BY DEF All, X
  <2>2. QED  BY <2>1
<1>4. ASSUME All(sets) # {} PROVE \A i \in DOMAIN sets : sets[i] # {}
  BY <1>3, <1>4
<1>5. ASSUME \A i \in DOMAIN sets : sets[i] # {} PROVE All(sets) # {}
  <2> DEFINE f == [i \in DOMAIN sets |-> CHOOSE x \in sets[i] : TRUE]
  <2>1. f = [i \in DOMAIN sets |-> f[i]] /\ \A i \in DOMAIN sets : f[i] \in sets[i]
    BY <1>5
  <2> HIDE DEF f
  <2>2. f \in All(sets)
    BY <1>2, <2>1
  <2>3. QED  BY <2>2
<1>6. QED  BY <1>2, <1>3, <1>4, <1>5

(* One more value to the list *)
LEMMA AppendAt ==
  ASSUME NEW s, NEW k \in Nat, s = [i \in 1 .. k |-> s[i]], NEW x
  PROVE  /\ Append(s, x) = [i \in 1 .. k + 1 |-> Append(s, x)[i]]
         /\ \A i \in 1 .. k : Append(s, x)[i] = s[i]
         /\ Append(s, x)[k + 1] = x
<1>1. Append(s, x) = [i \in 1 .. k + 1 |-> IF i = k + 1 THEN x ELSE s[i]]
  <2>1. Len(s) = k
    OBVIOUS
  <2>2. QED  BY <2>1
<1> DEFINE u == Append(s, x)
<1> HIDE DEF u
<1>2. u = [i \in 1 .. k + 1 |-> IF i = k + 1 THEN x ELSE s[i]]
  BY <1>1 DEF u
<1>3. u = [i \in 1 .. k + 1 |-> u[i]] /\ (\A i \in 1 .. k : u[i] = s[i]) /\ u[k + 1] = x
  BY <1>2
<1>4. QED  BY <1>3 DEF u

(* What has been read of a list *)
ListSoFar(read, sets, k, end, names) ==
  /\ read.ok \in BOOLEAN
  /\ read.ok => /\ read.val = [i \in 1 .. k |-> read.val[i]]
                /\ \A i \in 1 .. k : read.val[i] \in sets[i]
                /\ read.at = end
  /\ (\A i \in 1 .. k : sets[i] # {}) /\ names => read.ok

(* One more value is read. *)
LEMMA ListGrows ==
  ASSUME NEW read, NEW next, NEW sets, NEW k \in Nat, NEW end, NEW after, NEW names,
         ListSoFar(read, sets, k, end, names), read.ok => Outcome(next, sets[k + 1], after, names)
  PROVE  ListSoFar(Added(read, next), sets, k + 1, after, names)
<1>1. CASE ~ read.ok
  <2>1. Added(read, next) = read
    BY <1>1 DEF Added
  <2>2. \A i \in 1 .. k : i \in 1 .. k + 1
    OBVIOUS
  <2>3. ~ (\A i \in 1 .. k + 1 : sets[i] # {}) \/ ~ names
    BY <1>1, <2>2, Zenon DEF ListSoFar
  <2>4. QED  BY <1>1, <2>1, <2>3 DEF ListSoFar
<1>2. CASE read.ok /\ ~ next.ok
  <2>1. Added(read, next) = next
    BY <1>2 DEF Added
  <2>2. k + 1 \in 1 .. k + 1
    OBVIOUS
  <2>3. ~ (\A i \in 1 .. k + 1 : sets[i] # {}) \/ ~ names
    BY <1>2, <2>2 DEF Outcome
  <2>4. next.ok \in BOOLEAN
    BY <1>2 DEF Outcome
  <2>5. QED  BY <1>2, <2>1, <2>3, <2>4, Zenon DEF ListSoFar
<1>3. CASE read.ok /\ next.ok
  <2> DEFINE val == Append(read.val, next.val)
             more == Got(val, next.at)
  <2>1. Added(read, next) = more
    BY <1>3 DEF Added
  <2>2. more.ok = TRUE /\ more.val = val /\ more.at = next.at
    BY GotIs, Zenon
  <2>3. next.val \in sets[k + 1] /\ next.at = after
    BY <1>3 DEF Outcome
  <2>4. read.val = [i \in 1 .. k |-> read.val[i]] /\ \A i \in 1 .. k : read.val[i] \in sets[i]
    BY <1>3 DEF ListSoFar
  <2>5. /\ val = [i \in 1 .. k + 1 |-> val[i]]
        /\ \A i \in 1 .. k : val[i] = read.val[i]
        /\ val[k + 1] = next.val
    BY <2>4, AppendAt
  <2> HIDE DEF val, more
  <2>6. \A i \in 1 .. k + 1 : val[i] \in sets[i]
    <3> SUFFICES ASSUME NEW i \in 1 .. k + 1 PROVE val[i] \in sets[i]
      OBVIOUS
    <3>1. CASE i = k + 1
      BY <2>3, <2>5, <3>1
    <3>2. CASE i # k + 1
      <4>1. i \in 1 .. k
        BY <3>2
      <4>2. val[i] = read.val[i]
        BY <2>5, <4>1, Zenon
      <4>3. QED  BY <2>4, <4>1, <4>2
    <3>3. QED  BY <3>1, <3>2
  <2>7. ListSoFar(more, sets, k + 1, after, names)
    BY <2>2, <2>3, <2>5, <2>6, Zenon DEF ListSoFar
  <2>8. QED  BY <2>1, <2>7
<1>4. QED  BY <1>1, <1>2, <1>3, Zenon DEF ListSoFar

(* A list is read, if its elements are. *)
LEMMA ListRead ==
  ASSUME NEW below, NEW own, NEW l, NEW w, NEW count \in Nat, NEW place, NEW sets, DOMAIN sets = 1 .. count,
         NEW names, \A i \in 1 .. count : Outcome(below[own][l][w][place[i - 1]], sets[i], place[i], names)
  PROVE  Outcome(DecodeList(below, own, l, w, place[0], count), All(sets), place[count], names)
<1> DEFINE at == place[0]
<1> HIDE DEF at
<1>0. PICK f : /\ f[0] = Got(<< >>, at)
               /\ \A d \in 1 .. count : f[d] = Listed(below, own, l, w, f[d - 1])
               /\ DecodeList(below, own, l, w, at, count) = f[count]
  <2>1. \E f : DecodesList(below, own, l, w, at, count, f)
    BY DecodeListRuns, Zenon
  <2>2. QED  BY <2>1 DEF DecodesList
<1>1. /\ f[0] = Got(<< >>, place[0])
      /\ \A d \in 1 .. count : f[d] = Listed(below, own, l, w, f[d - 1])
      /\ DecodeList(below, own, l, w, place[0], count) = f[count]
  BY <1>0 DEF at
<1> DEFINE T == {k \in 0 .. count : ListSoFar(f[k], sets, k, place[k], names)}
<1>2. 0 \in T
  <2>1. f[0].ok = TRUE /\ f[0].val = << >> /\ f[0].at = place[0]
    BY <1>1, GotIs
  <2> DEFINE read == f[0]
             none == << >>
  <2>2. none = [i \in 1 .. 0 |-> none[i]] /\ \A i \in 1 .. 0 : FALSE
    OBVIOUS
  <2>3. read.ok = TRUE /\ read.val = none /\ read.at = place[0]
    BY <2>1
  <2> HIDE DEF read, none
  <2>4. ListSoFar(read, sets, 0, place[0], names)
    BY <2>2, <2>3, Zenon DEF ListSoFar
  <2>5. QED  BY <2>4 DEF read
<1>3. ASSUME NEW k \in 1 .. count, k - 1 \in T PROVE k \in T
  <2> DEFINE read == f[k - 1]
             next == below[own][l][w][read.at]
  <2>1. ListSoFar(read, sets, k - 1, place[k - 1], names)
    BY <1>3
  <2>2. f[k] = Added(read, next)
    BY <1>1 DEF Listed
  <2>3. read.ok => Outcome(next, sets[k], place[k], names)
    BY <2>1 DEF ListSoFar
  <2> HIDE DEF read, next, T
  <2>4. k - 1 \in Nat /\ k - 1 + 1 = k /\ k \in 0 .. count
    OBVIOUS
  <2>5. ListSoFar(Added(read, next), sets, k, place[k], names)
    <3> DEFINE j == k - 1
    <3>1. j \in Nat /\ j + 1 = k /\ ListSoFar(read, sets, j, place[k - 1], names)
      BY <2>1, <2>4
    <3> HIDE DEF j
    <3>2. ListSoFar(Added(read, next), sets, j + 1, place[k], names)
      BY <2>3, <3>1, ListGrows
    <3>3. QED  BY <3>1, <3>2
  <2>6. QED  BY <2>2, <2>4, <2>5 DEF T
<1> HIDE DEF T
<1>4. \A k \in 0 .. count : k \in T
  BY <1>2, <1>3, BoundedInduction, Zenon
<1>5. ListSoFar(f[count], sets, count, place[count], names)
  BY <1>4 DEF T
<1>6. Outcome(f[count], All(sets), place[count], names)
  <2> DEFINE read == f[count]
  <2> HIDE DEF read
  <2>1. ListSoFar(read, sets, count, place[count], names)
    BY <1>5 DEF read
  <2>2. read.ok => read.val \in All(sets) /\ read.at = place[count]
    BY <2>1, AllChosen, Zenon DEF ListSoFar
  <2>3. All(sets) # {} /\ names => read.ok
    BY <2>1, AllChosen, Zenon DEF ListSoFar
  <2>4. read.ok \in BOOLEAN
    BY <2>1 DEF ListSoFar
  <2>5. QED  BY <2>2, <2>3, <2>4 DEF Outcome, read
<1>7. QED  BY <1>1, <1>6

(* Labels in their order *)
Ordered(s) ==
  /\ Len(s) \in Nat
  /\ \A i \in 1 .. Len(s) : s[i] \in Nat
  /\ \A i, j \in 1 .. Len(s) : i < j => s[i] < s[j]

(* The loops are at i and j: what is behind the one is below what is ahead *)
(* of the other.                                                           *)
Merged(my, their, i, j) ==
  /\ i \in 1 .. Len(my) + 1 /\ j \in 1 .. Len(their) + 1
  /\ \A a \in 1 .. i - 1, c \in j .. Len(their) : my[a] < their[c]
  /\ \A a \in i .. Len(my), c \in 1 .. j - 1 : their[c] < my[a]

(* A label that is missing is not on the wire. *)
LEMMA MissingNext ==
  ASSUME NEW my, NEW their, Ordered(my), Ordered(their), NEW i, NEW j, Merged(my, their, i, j),
         IsMissing(my, their, i, j)
  PROVE  i \in 1 .. Len(my) /\ Merged(my, their, i + 1, j) /\ \A c \in 1 .. Len(their) : their[c] # my[i]
<1>1. i \in 1 .. Len(my) /\ j \in 1 .. Len(their) + 1 /\ Len(my) \in Nat /\ Len(their) \in Nat
  BY DEF Merged, Ordered, IsMissing
<1>2. \A c \in j .. Len(their) : my[i] < their[c]
  <2> SUFFICES ASSUME NEW c \in j .. Len(their) PROVE my[i] < their[c]
    OBVIOUS
  <2>1. j \in 1 .. Len(their) /\ c \in 1 .. Len(their) /\ my[i] < their[j]
    BY <1>1 DEF IsMissing
  <2>2. c = j \/ j < c
    BY <1>1
  <2>3. c = j \/ their[j] < their[c]
    BY <2>1, <2>2 DEF Ordered
  <2>4. my[i] \in Nat /\ their[j] \in Nat /\ their[c] \in Nat
    BY <1>1, <2>1 DEF Ordered
  <2>5. QED  BY <2>1, <2>3, <2>4
<1>3. \A c \in 1 .. j - 1 : their[c] < my[i]
  BY <1>1 DEF Merged
<1>4. ASSUME NEW c \in 1 .. Len(their) PROVE their[c] # my[i]
  <2>1. c \in 1 .. j - 1 \/ c \in j .. Len(their)
    BY <1>1
  <2>2. their[c] < my[i] \/ my[i] < their[c]
    BY <1>2, <1>3, <2>1
  <2>3. my[i] \in Nat /\ their[c] \in Nat
    BY <1>1 DEF Ordered
  <2>4. QED  BY <2>2, <2>3
<1>5. i + 1 \in 1 .. Len(my) + 1
  BY <1>1
<1>6. ASSUME NEW a \in 1 .. i + 1 - 1, NEW c \in j .. Len(their) PROVE my[a] < their[c]
  <2>1. a = i \/ a \in 1 .. i - 1
    BY <1>1
  <2>2. QED  BY <1>2, <2>1 DEF Merged
<1>7. ASSUME NEW a \in i + 1 .. Len(my), NEW c \in 1 .. j - 1 PROVE their[c] < my[a]
  <2>1. a \in i .. Len(my)
    BY <1>1
  <2>2. QED  BY <2>1 DEF Merged
<1>8. QED  BY <1>1, <1>4, <1>5, <1>6, <1>7 DEF Merged

(* A label that is shared is behind both loops. *)
LEMMA SharedNext ==
  ASSUME NEW my, NEW their, Ordered(my), Ordered(their), NEW i, NEW j, Merged(my, their, i, j),
         IsShared(my, their, i, j)
  PROVE  i \in 1 .. Len(my) /\ j \in 1 .. Len(their) /\ Merged(my, their, i + 1, j + 1)
<1>1. i \in 1 .. Len(my) /\ j \in 1 .. Len(their) /\ Len(my) \in Nat /\ Len(their) \in Nat /\ my[i] = their[j]
  BY DEF Merged, Ordered, IsShared
<1>2. ASSUME NEW a \in 1 .. i + 1 - 1, NEW c \in j + 1 .. Len(their) PROVE my[a] < their[c]
  <2>1. c \in 1 .. Len(their) /\ j < c /\ c \in j .. Len(their)
    BY <1>1
  <2>2. their[j] < their[c]
    BY <1>1, <2>1 DEF Ordered
  <2>3. a = i \/ a \in 1 .. i - 1
    BY <1>1
  <2>4. QED  BY <1>1, <2>1, <2>2, <2>3 DEF Merged
<1>3. ASSUME NEW a \in i + 1 .. Len(my), NEW c \in 1 .. j + 1 - 1 PROVE their[c] < my[a]
  <2>1. a \in 1 .. Len(my) /\ i < a /\ a \in i .. Len(my)
    BY <1>1
  <2>2. my[i] < my[a]
    BY <1>1, <2>1 DEF Ordered
  <2>3. c = j \/ c \in 1 .. j - 1
    BY <1>1
  <2>4. QED  BY <1>1, <2>1, <2>2, <2>3 DEF Merged
<1>4. i + 1 \in 1 .. Len(my) + 1 /\ j + 1 \in 1 .. Len(their) + 1
  BY <1>1
<1>5. QED  BY <1>1, <1>2, <1>3, <1>4 DEF Merged

(* A label that is unknown is none of the receiver's. *)
LEMMA UnknownNext ==
  ASSUME NEW my, NEW their, Ordered(my), Ordered(their), NEW i, NEW j, Merged(my, their, i, j),
         IsUnknown(my, their, i, j)
  PROVE  j \in 1 .. Len(their) /\ Merged(my, their, i, j + 1) /\ \A a \in 1 .. Len(my) : my[a] # their[j]
<1>1. i \in 1 .. Len(my) + 1 /\ j \in 1 .. Len(their) /\ Len(my) \in Nat /\ Len(their) \in Nat
  BY DEF Merged, Ordered, IsUnknown
<1>2. i \in 1 .. Len(my) => their[j] < my[i]
  <2> SUFFICES ASSUME i \in 1 .. Len(my) PROVE their[j] < my[i]
    OBVIOUS
  <2>1. my[i] \in Nat /\ their[j] \in Nat
    BY <1>1 DEF Ordered
  <2>2. ~ (my[i] < their[j]) /\ my[i] # their[j]
    BY <1>1 DEF IsUnknown, IsMissing, IsShared
  <2>3. QED  BY <2>1, <2>2
<1>3. \A a \in i .. Len(my) : their[j] < my[a]
  <2> SUFFICES ASSUME NEW a \in i .. Len(my) PROVE their[j] < my[a]
    OBVIOUS
  <2>1. i \in 1 .. Len(my) /\ a \in 1 .. Len(my) /\ (a = i \/ i < a)
    BY <1>1
  <2>2. a = i \/ my[i] < my[a]
    BY <2>1 DEF Ordered
  <2>3. my[i] \in Nat /\ their[j] \in Nat /\ my[a] \in Nat
    BY <1>1, <2>1 DEF Ordered
  <2>4. QED  BY <1>2, <2>1, <2>2, <2>3
<1>4. ASSUME NEW a \in 1 .. Len(my) PROVE my[a] # their[j]
  <2>1. a \in 1 .. i - 1 \/ a \in i .. Len(my)
    BY <1>1
  <2>2. j \in j .. Len(their)
    BY <1>1
  <2>3. my[a] < their[j] \/ their[j] < my[a]
    BY <1>3, <2>1, <2>2 DEF Merged
  <2>4. my[a] \in Nat /\ their[j] \in Nat
    BY <1>1 DEF Ordered
  <2>5. QED  BY <2>3, <2>4
<1>5. j + 1 \in 1 .. Len(their) + 1
  BY <1>1
<1>6. ASSUME NEW a \in 1 .. i - 1, NEW c \in j + 1 .. Len(their) PROVE my[a] < their[c]
  <2>1. c \in j .. Len(their)
    BY <1>1
  <2>2. QED  BY <2>1 DEF Merged
<1>7. ASSUME NEW a \in i .. Len(my), NEW c \in 1 .. j + 1 - 1 PROVE their[c] < my[a]
  <2>1. c = j \/ c \in 1 .. j - 1
    BY <1>1
  <2>2. QED  BY <1>3, <2>1 DEF Merged
<1>8. QED  BY <1>1, <1>4, <1>5, <1>6, <1>7 DEF Merged

(* The loops end behind both. *)
LEMMA MergeEnds ==
  ASSUME NEW my, NEW their, Ordered(my), Ordered(their), NEW i, NEW j, Merged(my, their, i, j)
  PROVE  /\ i \in Nat \ {0} /\ j \in Nat \ {0} /\ i + j - 2 \in Nat
         /\ ~ IsMissing(my, their, i, j) /\ ~ IsShared(my, their, i, j) /\ ~ IsUnknown(my, their, i, j)
              => i + j - 2 = Len(my) + Len(their)
         /\ i + j - 2 >= Len(my) + Len(their) => i = Len(my) + 1 /\ j = Len(their) + 1
BY DEF Merged, Ordered, IsMissing, IsShared, IsUnknown

(* A value for each of the labels before the i-th *)
Labelled(f, my, i) == f = [h \in {my[a] : a \in 1 .. i - 1} |-> f[h]]

(* What has been read of a record *)
FieldsSoFar(read, sets, my, i, end, names) ==
  /\ read.ok \in BOOLEAN
  /\ read.ok => /\ Labelled(read.val, my, i)
                /\ \A a \in 1 .. i - 1 : read.val[my[a]] \in sets[my[a]]
                /\ read.at = end
  /\ All(sets) # {} /\ names => read.ok

(* f with one more value *)
LEMMA PutIs ==
  ASSUME NEW f, NEW my, NEW i \in Nat \ {0}, Labelled(f, my, i),
         NEW x, \A a \in 1 .. i - 1 : my[a] # my[i]
  PROVE  /\ Labelled(Put(f, my[i], x), my, i + 1)
         /\ \A a \in 1 .. i - 1 : Put(f, my[i], x)[my[a]] = f[my[a]]
         /\ Put(f, my[i], x)[my[i]] = x
<1> DEFINE D == {my[a] : a \in 1 .. i - 1}
           E == {my[a] : a \in 1 .. i + 1 - 1}
           g == Put(f, my[i], x)
<1>1. D \cup {my[i]} = E
  <2>1. \A a \in 1 .. i + 1 - 1 : a = i \/ a \in 1 .. i - 1
    OBVIOUS
  <2>2. i \in 1 .. i + 1 - 1 /\ \A a \in 1 .. i - 1 : a \in 1 .. i + 1 - 1
    OBVIOUS
  <2>3. QED  BY <2>1, <2>2
<1>2. \A a \in 1 .. i - 1 : my[a] \in D
  OBVIOUS
<1> HIDE DEF D, E
<1>3. DOMAIN f = D
  <2>1. f = [h \in D |-> f[h]]
    BY DEF D, Labelled
  <2>2. QED  BY <2>1
<1>4. g = [h \in E |-> IF h = my[i] THEN x ELSE f[h]]
  BY <1>1, <1>3 DEF Put
<1>5. my[i] \in E /\ D \subseteq E
  BY <1>1
<1> HIDE DEF g
<1>6. g = [h \in E |-> g[h]] /\ g[my[i]] = x /\ \A a \in 1 .. i - 1 : g[my[a]] = f[my[a]]
  BY <1>2, <1>4, <1>5
<1>7. QED  BY <1>6 DEF g, E, Labelled

(* One more field is read. *)
LEMMA FieldGrows ==
  ASSUME NEW read, NEW sets, NEW my, NEW i \in Nat \ {0}, NEW end, NEW names,
         FieldsSoFar(read, sets, my, i, end, names), read.ok,
         my[i] \in DOMAIN sets, \A a \in 1 .. i - 1 : my[a] # my[i],
         NEW field, NEW after, Outcome(field, sets[my[i]], after, names)
  PROVE  FieldsSoFar(WithField(read, my[i], field), sets, my, i + 1, after, names)
<1>1. CASE ~ field.ok
  <2>1. WithField(read, my[i], field) = field
    BY <1>1 DEF WithField
  <2>2. All(sets) = {} \/ ~ names
    BY <1>1, AllChosen DEF Outcome
  <2>3. field.ok \in BOOLEAN
    BY DEF Outcome
  <2>4. QED  BY <1>1, <2>1, <2>2, <2>3 DEF FieldsSoFar
<1>2. CASE field.ok
  <2> DEFINE g == Put(read.val, my[i], field.val)
             more == Got(g, field.at)
             f == read.val
  <2>1. WithField(read, my[i], field) = more
    BY <1>2 DEF WithField
  <2>2. more.ok = TRUE /\ more.val = g /\ more.at = field.at
    BY GotIs
  <2>3. field.val \in sets[my[i]] /\ field.at = after
    BY <1>2 DEF Outcome
  <2>4. Labelled(f, my, i) /\ \A a \in 1 .. i - 1 : f[my[a]] \in sets[my[a]]
    BY DEF FieldsSoFar
  <2> DEFINE x == field.val
  <2>5. g = Put(f, my[i], x)
    OBVIOUS
  <2> HIDE DEF f, x, more
  <2>6. /\ Labelled(g, my, i + 1)
        /\ \A a \in 1 .. i - 1 : g[my[a]] = f[my[a]]
        /\ g[my[i]] = x
    <3>1. \A a \in 1 .. i - 1 : my[a] # my[i]
      OBVIOUS
    <3> HIDE DEF g
    <3>2. /\ Labelled(Put(f, my[i], x), my, i + 1)
          /\ \A a \in 1 .. i - 1 : Put(f, my[i], x)[my[a]] = f[my[a]]
          /\ Put(f, my[i], x)[my[i]] = x
      BY <2>4, <3>1, PutIs
    <3>3. QED  BY <2>5, <3>2, Zenon
  <2> HIDE DEF g
  <2>7. ASSUME NEW a \in 1 .. i + 1 - 1 PROVE g[my[a]] \in sets[my[a]]
    <3>1. a = i \/ a \in 1 .. i - 1
      OBVIOUS
    <3>2. CASE a = i
      BY <2>3, <2>6, <3>2 DEF x
    <3>3. CASE a \in 1 .. i - 1
      BY <2>4, <2>6, <3>3
    <3>4. QED  BY <3>1, <3>2, <3>3
  <2>8. FieldsSoFar(more, sets, my, i + 1, after, names)
    <3>1. more.val = g /\ more.ok /\ more.at = after
      BY <2>2, <2>3
    <3>2. QED  BY <2>6, <2>7, <3>1, <2>2 DEF FieldsSoFar
  <2>9. QED  BY <2>1, <2>8
<1>3. QED  BY <1>1, <1>2 DEF Outcome

(* A field that was not sent is filled. *)
LEMMA FilledGrows ==
  ASSUME NEW read, NEW sets, NEW my, NEW i \in Nat \ {0}, NEW end, NEW names,
         FieldsSoFar(read, sets, my, i, end, names), read.ok,
         my[i] \in DOMAIN sets, \A a \in 1 .. i - 1 : my[a] # my[i]
  PROVE  FieldsSoFar(WithMissing(read, my[i], sets[my[i]]), sets, my, i + 1, end, names)
<1> DEFINE fill == sets[my[i]]
           some == CHOOSE v \in fill : TRUE
           field == Got(some, read.at)
<1>1. CASE fill = {}
  <2>1. WithMissing(read, my[i], fill) = Raise(read.at) /\ Raise(read.at).ok = FALSE
    BY <1>1 DEF WithMissing, Raise
  <2>2. All(sets) = {}
    BY <1>1, AllChosen
  <2>3. QED  BY <2>1, <2>2, Zenon DEF FieldsSoFar
<1>2. CASE fill # {}
  <2>1. WithMissing(read, my[i], fill) = WithField(read, my[i], field)
    BY <1>2 DEF WithMissing
  <2>2. some \in fill
    BY <1>2
  <2>3. field.ok = TRUE /\ field.val = some /\ field.at = read.at
    BY GotIs
  <2>4. read.at = end
    BY DEF FieldsSoFar
  <2> HIDE DEF some, field
  <2>5. Outcome(field, sets[my[i]], end, names)
    BY <2>2, <2>3, <2>4, Zenon DEF Outcome
  <2>6. FieldsSoFar(WithField(read, my[i], field), sets, my, i + 1, end, names)
    BY <2>5, FieldGrows
  <2>7. QED  BY <2>1, <2>6
<1>3. QED  BY <1>1, <1>2

(* A reading whose value is dropped *)
Passes(read, end, names) ==
  read.ok \in BOOLEAN /\ (read.ok => read.at = end) /\ (names => read.ok)

(* A field that is unknown is passed. *)
LEMMA UnknownPasses ==
  ASSUME NEW read, NEW sets, NEW my, NEW i, NEW end, NEW names,
         FieldsSoFar(read, sets, my, i, end, names), read.ok,
         NEW skip, NEW after, Passes(skip, after, names)
  PROVE  FieldsSoFar(ReadUnknown(read, skip), sets, my, i, after, names)
<1>1. CASE skip.ok
  <2> DEFINE more == Got(read.val, skip.at)
  <2>1. ReadUnknown(read, skip) = more
    BY <1>1 DEF ReadUnknown
  <2>2. more.ok = TRUE /\ more.val = read.val /\ more.at = skip.at
    BY GotIs
  <2> HIDE DEF more
  <2>3. FieldsSoFar(more, sets, my, i, after, names)
    BY <1>1, <2>2, Zenon DEF FieldsSoFar, Passes
  <2>4. QED  BY <2>1, <2>3
<1>2. CASE ~ skip.ok
  BY <1>2 DEF ReadUnknown, FieldsSoFar, Passes
<1>3. QED  BY <1>1, <1>2

(* The loops have gone k steps: what is read is what is behind them. *)
Advanced(s, sets, my, their, place, names, k) ==
  \E i, j \in Nat \ {0} : \E read :
    /\ s = Merging(i, j, read)
    /\ FieldsSoFar(read, sets, my, i, place[j - 1], names)
    /\ read.ok => Merged(my, their, i, j) /\ i + j - 2 >= k

(* The fields, as the rounds read them *)
FieldOutcomes(heap, below, own, mine, theirs, sets, my, their, place, names) ==
  /\ \A i \in 1 .. Len(my) : my[i] \in DOMAIN sets
  /\ \A i \in 1 .. Len(my) :
       (\A c \in 1 .. Len(their) : their[c] # my[i]) => sets[my[i]] = Missing(heap, mine.fields[my[i]])
  /\ \A i \in 1 .. Len(my), j \in 1 .. Len(their) : my[i] = their[j] =>
       Outcome(below[own][mine.fields[my[i]]][theirs.fields[their[j]]][place[j - 1]], sets[my[i]],
               place[j], names)
  /\ \A j \in 1 .. Len(their) :
       Passes(below[TRUE][theirs.fields[their[j]]][theirs.fields[their[j]]][place[j - 1]], place[j], names)

(* A round goes one step, or is behind both. *)
LEMMA RoundAdvances ==
  ASSUME NEW heap, NEW below, NEW own, NEW mine, NEW theirs,
         NEW my, my = SortedHashes(mine), NEW their, their = SortedHashes(theirs),
         Ordered(my), Ordered(their), NEW sets, NEW place, NEW names,
         FieldOutcomes(heap, below, own, mine, theirs, sets, my, their, place, names),
         NEW k \in Nat, k + 1 <= Len(my) + Len(their),
         NEW s, Advanced(s, sets, my, their, place, names, k)
  PROVE  Advanced(Round(heap, below, own, mine, theirs, s), sets, my, their, place, names, k + 1)
<1>1. PICK i \in Nat \ {0}, j \in Nat \ {0} : \E read :
        /\ s = Merging(i, j, read)
        /\ FieldsSoFar(read, sets, my, i, place[j - 1], names)
        /\ read.ok => Merged(my, their, i, j) /\ i + j - 2 >= k
  BY DEF Advanced
<1>2. PICK read :
        /\ s = Merging(i, j, read)
        /\ FieldsSoFar(read, sets, my, i, place[j - 1], names)
        /\ read.ok => Merged(my, their, i, j) /\ i + j - 2 >= k
  BY <1>1
<1> DEFINE step == Round(heap, below, own, mine, theirs, Merging(i, j, read))
           shared == below[own][mine.fields[my[i]]][theirs.fields[their[j]]][read.at]
           skip == below[TRUE][theirs.fields[their[j]]][theirs.fields[their[j]]][read.at]
           filled == ReadMissing(heap, mine, my[i], read)
           field == WithField(read, my[i], shared)
           skipped == ReadUnknown(read, skip)
<1>3. Goes(my, their, i, j, read, step, filled, field, skipped)
  BY RoundIs, Zenon
<1> HIDE DEF step
<1> SUFFICES Advanced(step, sets, my, their, place, names, k + 1)
  BY <1>2 DEF step
<1>4. CASE ~ read.ok
  <2>1. step = Merging(i, j, read)
    BY <1>3, <1>4 DEF Goes
  <2> HIDE DEF skipped, filled, field
  <2>2. QED  BY <1>2, <1>4, <2>1 DEF Advanced
<1>5. CASE read.ok
  <2>1. Merged(my, their, i, j) /\ i + j - 2 >= k /\ Len(my) \in Nat /\ Len(their) \in Nat
    BY <1>2, <1>5 DEF Ordered
  <2>2. read.at = place[j - 1]
    BY <1>2, <1>5 DEF FieldsSoFar
  <2>3. i \in 1 .. Len(my) => my[i] \in DOMAIN sets /\ \A a \in 1 .. i - 1 : my[a] # my[i]
    <3> SUFFICES ASSUME i \in 1 .. Len(my) PROVE my[i] \in DOMAIN sets /\ \A a \in 1 .. i - 1 : my[a] # my[i]
      OBVIOUS
    <3>1. my[i] \in DOMAIN sets
      BY DEF FieldOutcomes
    <3>2. ASSUME NEW a \in 1 .. i - 1 PROVE my[a] # my[i]
      <4>1. a \in 1 .. Len(my) /\ a < i
        BY <2>1
      <4>2. my[a] < my[i] /\ my[a] \in Nat /\ my[i] \in Nat
        BY <4>1 DEF Ordered
      <4>3. QED  BY <4>2
    <3>3. QED  BY <3>1, <3>2
  <2>4. i + 1 \in Nat \ {0} /\ j + 1 \in Nat \ {0} /\ j + 1 - 1 = j /\ j - 1 \in Nat
        /\ i + 1 + j - 2 >= k + 1 /\ i + (j + 1) - 2 >= k + 1 /\ i + 1 + (j + 1) - 2 >= k + 1
    BY <2>1
  <2>5. CASE IsMissing(my, their, i, j)
    <3>1. i \in 1 .. Len(my) /\ Merged(my, their, i + 1, j) /\ \A c \in 1 .. Len(their) : their[c] # my[i]
      BY <2>1, <2>5, MissingNext
    <3>2. sets[my[i]] = Missing(heap, mine.fields[my[i]])
      BY <3>1 DEF FieldOutcomes
    <3>3. FieldsSoFar(WithMissing(read, my[i], sets[my[i]]), sets, my, i + 1, place[j - 1], names)
      BY <1>2, <1>5, <2>3, <3>1, FilledGrows
    <3>4. FieldsSoFar(filled, sets, my, i + 1, place[j - 1], names)
      BY <3>2, <3>3 DEF ReadMissing
    <3>5. ~ IsShared(my, their, i, j)
      <4>1. j >= 1 /\ \A c \in 1 .. Len(their) : their[c] \in Nat
        BY DEF Ordered
      <4>2. QED  BY <2>1, <2>5, <4>1, SharedIsThere
    <3>6. step = Merging(i + 1, j, filled)
      BY <1>3, <1>5, <2>5, <3>5 DEF Goes
    <3> HIDE DEF filled, skipped, field
    <3>7. QED  BY <2>4, <3>1, <3>4, <3>6 DEF Advanced
  <2>6. CASE IsShared(my, their, i, j)
    <3>1. i \in 1 .. Len(my) /\ j \in 1 .. Len(their) /\ Merged(my, their, i + 1, j + 1) /\ my[i] = their[j]
      BY <2>1, <2>6, SharedNext DEF IsShared
    <3>2. Outcome(shared, sets[my[i]], place[j], names)
      BY <2>2, <3>1, Zenon DEF FieldOutcomes
    <3> HIDE DEF shared
    <3>3. FieldsSoFar(field, sets, my, i + 1, place[j], names)
      BY <1>2, <1>5, <2>3, <3>1, <3>2, FieldGrows, Zenon
    <3>4. ~ IsMissing(my, their, i, j)
      <4>1. j >= 1 /\ \A c \in 1 .. Len(their) : their[c] \in Nat
        BY DEF Ordered
      <4>2. QED  BY <2>1, <2>6, <4>1, SharedIsThere
    <3>5. step = Merging(i + 1, j + 1, field)
      BY <1>3, <1>5, <2>6, <3>4 DEF Goes
    <3> HIDE DEF filled, skipped, field
    <3>6. FieldsSoFar(field, sets, my, i + 1, place[j + 1 - 1], names)
      BY <2>4, <3>3
    <3>7. QED  BY <2>4, <3>1, <3>5, <3>6 DEF Advanced
  <2>7. CASE IsUnknown(my, their, i, j)
    <3>1. j \in 1 .. Len(their) /\ Merged(my, their, i, j + 1)
      BY <2>1, <2>7, UnknownNext
    <3>2. Passes(skip, place[j], names)
      BY <2>2, <3>1, Zenon DEF FieldOutcomes
    <3> HIDE DEF skip
    <3>3. FieldsSoFar(skipped, sets, my, i, place[j], names)
      BY <1>2, <1>5, <3>2, UnknownPasses
    <3>4. step = Merging(i, j + 1, skipped)
      BY <1>3, <1>5, <2>7 DEF Goes
    <3> HIDE DEF filled, skipped, field
    <3>5. FieldsSoFar(skipped, sets, my, i, place[j + 1 - 1], names)
      BY <2>4, <3>3
    <3>6. QED  BY <2>4, <3>1, <3>4, <3>5 DEF Advanced
  <2>8. CASE ~ IsMissing(my, their, i, j) /\ ~ IsShared(my, their, i, j) /\ ~ IsUnknown(my, their, i, j)
    <3>1. step = Merging(i, j, read)
      BY <1>3, <1>5, <2>8 DEF Goes
    <3>2. i + j - 2 = Len(my) + Len(their)
      BY <2>1, <2>8, MergeEnds
    <3>3. i + j - 2 >= k + 1
      BY <2>1, <3>2
    <3> HIDE DEF filled, skipped, field
    <3>4. QED  BY <1>2, <2>1, <3>1, <3>3 DEF Advanced
  <2>9. QED  BY <2>5, <2>6, <2>7, <2>8
<1>6. QED  BY <1>2, <1>4, <1>5 DEF FieldsSoFar

(* The fields of a record, where the loops of the merge see them *)
LEMMA LabelsOrdered ==
  ASSUME NEW labels, labels \subseteq Nat, NEW s, Sorted(labels, s)
  PROVE  /\ Ordered(s) /\ Len(s) = Cardinality(labels)
         /\ \A i \in 1 .. Len(s) : s[i] \in labels
         /\ labels = {s[a] : a \in 1 .. Len(s)}
<1>1. s \in Seq(labels) /\ Len(s) \in Nat /\ \A i \in 1 .. Len(s) : s[i] \in labels
  BY DEF Sorted
<1>2. \A i \in 1 .. Len(s) : s[i] \in Nat
  BY <1>1, Zenon
<1>3. Ordered(s)
  BY <1>1, <1>2 DEF Sorted, Ordered
<1>4. labels = {s[a] : a \in 1 .. Len(s)}
  BY <1>1 DEF Sorted
<1>5. QED  BY <1>1, <1>3, <1>4, Zenon DEF Sorted

(* The merge reads a record, if the fields are read. *)
LEMMA FieldsMerged ==
  ASSUME NEW heap, NEW below, NEW own, NEW mine, NEW theirs, NEW my, NEW their,
         my = SortedHashes(mine), their = SortedHashes(theirs),
         DOMAIN mine.fields \subseteq Nat, Sorted(DOMAIN mine.fields, my),
         DOMAIN theirs.fields \subseteq Nat, Sorted(DOMAIN theirs.fields, their),
         NEW sets, DOMAIN sets = DOMAIN mine.fields, NEW place, NEW names,
         FieldOutcomes(heap, below, own, mine, theirs, sets, my, their, place, names)
  PROVE  Outcome(DecodeFields(heap, below, own, mine, theirs, place[0]), All(sets), place[Len(their)], names)
<1> DEFINE rounds == Cardinality(DOMAIN mine.fields) + Cardinality(DOMAIN theirs.fields)
           at == place[0]
<1>0. rounds = Cardinality(DOMAIN mine.fields) + Cardinality(DOMAIN theirs.fields)
  OBVIOUS
<1>1. /\ Ordered(my) /\ Len(my) = Cardinality(DOMAIN mine.fields)
      /\ DOMAIN mine.fields = {my[a] : a \in 1 .. Len(my)}
  BY LabelsOrdered
<1>2. Ordered(their) /\ Len(their) = Cardinality(DOMAIN theirs.fields)
  BY LabelsOrdered, Zenon
<1> HIDE DEF rounds, at
<1>3. rounds = Len(my) + Len(their) /\ Len(my) \in Nat /\ Len(their) \in Nat /\ rounds \in Nat
  <2>1. Len(my) \in Nat /\ Len(their) \in Nat
    BY <1>1, <1>2, Zenon DEF Ordered
  <2>2. rounds = Len(my) + Len(their)
    BY <1>0, <1>1, <1>2, Zenon
  <2>3. QED  BY <2>1, <2>2
<1>4. PICK f : /\ f[0] = FirstRound(at)
               /\ \A d \in 1 .. rounds : f[d] = Round(heap, below, own, mine, theirs, f[d - 1])
               /\ DecodeFields(heap, below, own, mine, theirs, at) = f[rounds].read
  <2>1. \E f : Runs(heap, below, own, mine, theirs, at, rounds, f)
    BY <1>0, <1>3, DecodeFieldsRuns, Zenon
  <2>2. QED  BY <2>1 DEF Runs
<1> DEFINE T == {k \in 0 .. rounds : Advanced(f[k], sets, my, their, place, names, k)}
<1>5. 0 \in T
  <2> DEFINE read == Got(<< >>, at)
             none == << >>
  <2>1. read.ok = TRUE /\ read.val = none /\ read.at = place[0]
    BY GotIs DEF at
  <2>2. f[0] = Merging(1, 1, read)
    BY <1>4 DEF FirstRound
  <2>3. none = [h \in {my[a] : a \in 1 .. 1 - 1} |-> none[h]] /\ \A a \in 1 .. 1 - 1 : FALSE
    OBVIOUS
  <2> HIDE DEF read, none
  <2>4. FieldsSoFar(read, sets, my, 1, place[1 - 1], names)
    <3>1. Labelled(none, my, 1)
      BY <2>3 DEF Labelled
    <3>2. 1 - 1 = 0
      OBVIOUS
    <3>3. QED  BY <2>1, <2>3, <3>1, <3>2, Zenon DEF FieldsSoFar
  <2>5. Merged(my, their, 1, 1) /\ 1 + 1 - 2 >= 0
    BY <1>3 DEF Merged
  <2>6. 1 \in Nat \ {0}
    OBVIOUS
  <2>7. Advanced(f[0], sets, my, their, place, names, 0)
    BY <2>2, <2>4, <2>5, <2>6 DEF Advanced
  <2>8. QED  BY <1>3, <2>7
<1>6. ASSUME NEW k \in 1 .. rounds, k - 1 \in T PROVE k \in T
  <2> DEFINE j == k - 1
             s == f[j]
  <2>1. j \in Nat /\ j + 1 = k /\ j + 1 <= Len(my) + Len(their) /\ k \in 0 .. rounds
    BY <1>3
  <2>2. Advanced(s, sets, my, their, place, names, j)
    BY <1>6
  <2>3. f[k] = Round(heap, below, own, mine, theirs, s)
    BY <1>4
  <2> HIDE DEF j, s, T
  <2>4. Advanced(Round(heap, below, own, mine, theirs, s), sets, my, their, place, names, j + 1)
    BY <1>1, <1>2, <2>1, <2>2, RoundAdvances, Zenon
  <2>5. Advanced(f[k], sets, my, their, place, names, k)
    BY <2>1, <2>3, <2>4
  <2>6. QED  BY <2>1, <2>5 DEF T
<1> HIDE DEF T
<1>7. \A k \in 0 .. rounds : k \in T
  BY <1>3, <1>5, <1>6, BoundedInduction
<1>8. Advanced(f[rounds], sets, my, their, place, names, rounds)
  BY <1>3, <1>7 DEF T
<1>9. PICK i \in Nat \ {0}, j \in Nat \ {0} : \E read :
        /\ f[rounds] = Merging(i, j, read)
        /\ FieldsSoFar(read, sets, my, i, place[j - 1], names)
        /\ read.ok => Merged(my, their, i, j) /\ i + j - 2 >= rounds
  BY <1>8 DEF Advanced
<1>10. PICK read :
        /\ f[rounds] = Merging(i, j, read)
        /\ FieldsSoFar(read, sets, my, i, place[j - 1], names)
        /\ read.ok => Merged(my, their, i, j) /\ i + j - 2 >= rounds
  BY <1>9
<1>11. f[rounds].read = read
  BY <1>10 DEF Merging
<1>12. read.ok => i = Len(my) + 1 /\ j = Len(their) + 1
  <2> SUFFICES ASSUME read.ok PROVE i = Len(my) + 1 /\ j = Len(their) + 1
    OBVIOUS
  <2>1. Merged(my, their, i, j) /\ i + j - 2 >= Len(my) + Len(their)
    BY <1>3, <1>10
  <2>2. Ordered(my) /\ Ordered(their)
    BY <1>1, <1>2, Zenon
  <2>3. QED  BY <2>1, <2>2, MergeEnds
<1>13. read.ok => read.val \in All(sets)
  <2> SUFFICES ASSUME read.ok PROVE read.val \in All(sets)
    OBVIOUS
  <2> DEFINE g == read.val
  <2>1. Labelled(g, my, i) /\ (\A a \in 1 .. i - 1 : g[my[a]] \in sets[my[a]]) /\ i - 1 = Len(my)
    BY <1>3, <1>10, <1>12 DEF FieldsSoFar
  <2> HIDE DEF g
  <2>2. g = [h \in DOMAIN sets |-> g[h]]
    BY <1>1, <2>1, Zenon DEF Labelled
  <2>3. ASSUME NEW h \in DOMAIN sets PROVE g[h] \in sets[h]
    <3>1. PICK a \in 1 .. Len(my) : h = my[a]
      BY <1>1, Zenon
    <3>2. a \in 1 .. i - 1
      BY <2>1
    <3>3. g[my[a]] \in sets[my[a]]
      BY <2>1, <3>2
    <3>4. QED  BY <3>1, <3>3
  <2>4. g \in All(sets)
    BY <2>2, <2>3, AllChosen, Zenon
  <2>5. QED  BY <2>4 DEF g
<1>14. read.ok => read.at = place[Len(their)]
  <2>1. read.ok => j - 1 = Len(their)
    BY <1>3, <1>12
  <2>2. QED  BY <1>10, <2>1 DEF FieldsSoFar
<1>15. Outcome(read, All(sets), place[Len(their)], names)
  BY <1>10, <1>13, <1>14 DEF Outcome, FieldsSoFar
<1>16. QED  BY <1>4, <1>11, <1>15 DEF at

---------------------------------------------------------------------------

(* What a value is read as *)

(* What the elements of a list may be read as, and the fields of a record *)
ListSets(below, x, y, s) == [i \in DOMAIN s |-> below[x][y][s[i]]]

RecordSets(lh, below, node, other, f) ==
  [label \in DOMAIN node.fields |->
     IF label \in DOMAIN other.fields
     THEN below[node.fields[label]][other.fields[label]][f[label]]
     ELSE Missing(lh, node.fields[label])]

(* CoercedParts, case by case *)
LEMMA CoercedPrimitiveIs ==
  ASSUME NEW lh, NEW wh, NEW below, NEW l, NEW w, NEW v, NEW o, o = GetType(lh, l), NEW p, p = GetType(wh, w)
  PROVE  /\ o = TypeIds.reserved => CoercedParts(lh, wh, below, l, w, v) = {None}
         /\ o # TypeIds.reserved /\ o < 0 => CoercedParts(lh, wh, below, l, w, v) = IF PrimitiveMatches(o, p) THEN {v} ELSE {}
         /\ o # TypeIds.reserved /\ ~ (o < 0) /\ (p < 0 \/ lh[o].con # wh[p].con) => CoercedParts(lh, wh, below, l, w, v) = {}
<1>1. o = TypeIds.reserved => CoercedParts(lh, wh, below, l, w, v) = {None}
  BY DEF CoercedParts
<1>2. o # TypeIds.reserved /\ o < 0 => CoercedParts(lh, wh, below, l, w, v) = IF PrimitiveMatches(o, p) THEN {v} ELSE {}
  BY DEF CoercedParts, PrimitiveMatches
<1>3. o # TypeIds.reserved /\ ~ (o < 0) /\ (p < 0 \/ lh[o].con # wh[p].con) => CoercedParts(lh, wh, below, l, w, v) = {}
  BY Zenon DEF CoercedParts
<1>4. QED  BY <1>1, <1>2, <1>3

(* Two constructed types of the same constructor *)
Paired(lh, wh, l, w, o, p) ==
  /\ o = GetType(lh, l) /\ p = GetType(wh, w)
  /\ o # TypeIds.reserved /\ ~ (o < 0) /\ ~ (p < 0) /\ lh[o].con = wh[p].con

(* Every element of an opt or a vec is read as one of its own. *)
LEMMA CoercedListIs ==
  ASSUME NEW lh, NEW wh, NEW below, NEW l, NEW w, NEW v, NEW o, NEW p, Paired(lh, wh, l, w, o, p),
         lh[o].con \in {"opt", "vec"}
  PROVE  CoercedParts(lh, wh, below, l, w, v)
           = {List(s) : s \in All(ListSets(below, lh[o].arg, wh[p].arg, v[2]))}
BY Zenon DEF CoercedParts, Paired, ListSets

(* So is every field of a record. *)
LEMMA CoercedRecordIs ==
  ASSUME NEW lh, NEW wh, NEW below, NEW l, NEW w, NEW v, NEW o, NEW p, Paired(lh, wh, l, w, o, p),
         lh[o].con = "record"
  PROVE  CoercedParts(lh, wh, below, l, w, v)
           = {Dict(f) : f \in All(RecordSets(lh, below, lh[o], wh[p], v[2]))}
BY DEF CoercedParts, Paired, RecordSets

(* What the tag h of a variant can be read as, with its value u *)
TagSet(below, node, other, h, u) ==
  IF h \notin DOMAIN node.fields THEN {} ELSE {Tagged(h, c) : c \in below[node.fields[h]][other.fields[h]][u]}

(* A variant is read as one. *)
LEMMA CoercedVariantIs ==
  ASSUME NEW lh, NEW wh, NEW below, NEW l, NEW w, NEW v, NEW o, NEW p, Paired(lh, wh, l, w, o, p),
         lh[o].con = "variant"
  PROVE  CoercedParts(lh, wh, below, l, w, v)
           = TagSet(below, lh[o], wh[p], v[2], v[3])
BY DEF CoercedParts, Paired, TagSet

(* A service or a func is read as it is. *)
LEMMA CoercedReferenceIs ==
  ASSUME NEW lh, NEW wh, NEW below, NEW l, NEW w, NEW v, NEW o, NEW p, Paired(lh, wh, l, w, o, p),
         lh[o].con \in {"service", "func"}
  PROVE  CoercedParts(lh, wh, below, l, w, v) = {v}
BY DEF CoercedParts, Paired

(* AlikeParts, case by case *)
LEMMA AlikePrimitiveIs ==
  ASSUME NEW lh, NEW wh, NEW below, NEW l, NEW w, NEW v, NEW o, o = GetType(lh, l), NEW p, p = GetType(wh, w)
  PROVE  /\ o < 0 \/ p < 0 => AlikeParts(lh, wh, below, l, w, v)
         /\ ~ (o < 0) /\ ~ (p < 0) /\ AlikeParts(lh, wh, below, l, w, v) => lh[o].con = wh[p].con
BY Zenon DEF AlikeParts

(* An opt or a vec is like another, if its elements are. A vec of nat8 is read
   as a blob, and only a vec of nat8 is like it. *)
LEMMA AlikeListIs ==
  ASSUME NEW lh, NEW wh, NEW below, NEW l, NEW w, NEW v, NEW o, NEW p, Paired(lh, wh, l, w, o, p),
         lh[o].con \in {"opt", "vec"}
  PROVE  AlikeParts(lh, wh, below, l, w, v)
           <=> /\ lh[o].con = "vec" /\ GetType(wh, wh[p].arg) = TypeIds.nat8 => GetType(lh, lh[o].arg) = TypeIds.nat8
               /\ \A i \in DOMAIN v[2] : below[lh[o].arg][wh[p].arg][v[2][i]]
BY Zenon DEF AlikeParts, Paired

(* A record is like another, if the fields that both have are. *)
LEMMA AlikeRecordIs ==
  ASSUME NEW lh, NEW wh, NEW below, NEW l, NEW w, NEW v, NEW o, NEW p, Paired(lh, wh, l, w, o, p),
         lh[o].con = "record"
  PROVE  AlikeParts(lh, wh, below, l, w, v)
           <=> \A label \in DOMAIN lh[o].fields \cap DOMAIN wh[p].fields :
                 below[lh[o].fields[label]][wh[p].fields[label]][v[2][label]]
BY Zenon DEF AlikeParts, Paired

(* A variant is, if what it is sent with is, or nobody can read it. *)
LEMMA AlikeVariantIs ==
  ASSUME NEW lh, NEW wh, NEW below, NEW l, NEW w, NEW v, NEW o, NEW p, Paired(lh, wh, l, w, o, p),
         lh[o].con = "variant"
  PROVE  AlikeParts(lh, wh, below, l, w, v)
           <=> (v[2] \in DOMAIN lh[o].fields => below[lh[o].fields[v[2]]][wh[p].fields[v[2]]][v[3]])
BY Zenon DEF AlikeParts, Paired

(* A service or a func always is. *)
LEMMA AlikeReferenceIs ==
  ASSUME NEW lh, NEW wh, NEW below, NEW l, NEW w, NEW v, NEW o, NEW p, Paired(lh, wh, l, w, o, p),
         lh[o].con \in {"service", "func"}
  PROVE  AlikeParts(lh, wh, below, l, w, v)
BY Zenon DEF AlikeParts, Paired

(* What fits a type agrees with it. *)
Agrees(heap, fits, alike, coerced) ==
  \A t \in Refs(heap), v \in Values : fits[t][v] => alike[t][t][v] /\ coerced[t][t][v] # {}

(* A type is like itself, if its parts are, and its values can be read. *)
LEMMA PartsAgree ==
  ASSUME NEW heap, IsHeap(heap), NEW fits, NEW alike, NEW coerced, Agrees(heap, fits, alike, coerced),
         NEW t \in Refs(heap), NEW v \in Values, FitsParts(heap, fits, t, v)
  PROVE  AlikeParts(heap, heap, alike, t, t, v) /\ CoercedParts(heap, heap, coerced, t, t, v) # {}
<1> DEFINE o == GetType(heap, t)
           A == AlikeParts(heap, heap, alike, t, t, v)
           C == CoercedParts(heap, heap, coerced, t, t, v)
<1>0. o = GetType(heap, t)
  OBVIOUS
<1>1. o \in Int /\ (~ (o < 0) => o \in DOMAIN heap
                         /\ heap[o].con \in {"opt", "vec", "func", "record", "variant", "service"})
  BY Ends
<1>2. TypeIds.reserved < 0
  BY DEF TypeIds
<1> HIDE DEF o, A, C
<1>3. CASE o < 0
  <2>1. A
    BY <1>0, <1>3, AlikePrimitiveIs DEF A
  <2>2. PrimitiveMatches(o, o)
    BY DEF PrimitiveMatches
  <2>3. C = {None} \/ C = {v}
    BY <1>0, <1>3, <2>2, CoercedPrimitiveIs DEF C
  <2>4. QED  BY <2>1, <2>3 DEF A, C
<1>4. CASE ~ (o < 0)
  <2> DEFINE node == heap[o]
  <2>1. Paired(heap, heap, t, t, o, o)
    BY <1>0, <1>2, <1>4 DEF Paired
  <2>2. CASE node.con \in {"opt", "vec"}
    <3> DEFINE x == node.arg
               s == v[2]
    <3>1. s \in Seq(Values) /\ \A i \in DOMAIN s : fits[x][s[i]]
      BY <1>0, <1>4, <2>2, FitsShapes
    <3>2. x \in Refs(heap)
      BY <1>1, <1>4, <2>2, NodeShapes
    <3>3. A <=> /\ node.con = "vec" /\ GetType(heap, x) = TypeIds.nat8 => GetType(heap, x) = TypeIds.nat8
                /\ \A i \in DOMAIN s : alike[x][x][s[i]]
      BY <2>1, <2>2, AlikeListIs, Zenon DEF A
    <3>4. C = {List(c) : c \in All(ListSets(coerced, x, x, s))}
      BY <2>1, <2>2, CoercedListIs DEF C
    <3> HIDE DEF x, s
    <3>5. ASSUME NEW i \in DOMAIN s PROVE alike[x][x][s[i]] /\ coerced[x][x][s[i]] # {}
      <4>1. s[i] \in Values
        BY <3>1
      <4>2. QED  BY <3>1, <3>2, <4>1 DEF Agrees
    <3>6. All(ListSets(coerced, x, x, s)) # {}
      <4> DEFINE sets == ListSets(coerced, x, x, s)
      <4>1. \A i \in DOMAIN sets : sets[i] # {}
        BY <3>5 DEF ListSets
      <4> HIDE DEF sets
      <4>2. All(sets) # {}
        BY <4>1, AllChosen
      <4>3. QED  BY <4>2 DEF sets
    <3>7. C # {}
      BY <3>4, <3>6
    <3>8. QED  BY <3>3, <3>5, <3>7 DEF A, C
  <2>3. CASE node.con = "record"
    <3> DEFINE f == v[2]
    <3>1. f \in [DOMAIN node.fields -> Values] /\ \A h \in DOMAIN node.fields : fits[node.fields[h]][f[h]]
      BY <1>0, <1>4, <2>3, FitsShapes
    <3>2. \A h \in DOMAIN node.fields : node.fields[h] \in Refs(heap)
      BY <1>1, <1>4, <2>3, NodeShapes DEF HasFields
    <3>3. A <=> \A h \in DOMAIN node.fields \cap DOMAIN node.fields : alike[node.fields[h]][node.fields[h]][f[h]]
      BY <2>1, <2>3, AlikeRecordIs, Zenon DEF A
    <3>4. C = {Dict(g) : g \in All(RecordSets(heap, coerced, node, node, f))}
      BY <2>1, <2>3, CoercedRecordIs DEF C
    <3> HIDE DEF node, f
    <3>5. ASSUME NEW h \in DOMAIN node.fields
          PROVE  alike[node.fields[h]][node.fields[h]][f[h]] /\ coerced[node.fields[h]][node.fields[h]][f[h]] # {}
      <4>1. f[h] \in Values
        BY <3>1
      <4>2. QED  BY <3>1, <3>2, <4>1 DEF Agrees
    <3>6. All(RecordSets(heap, coerced, node, node, f)) # {}
      <4> DEFINE sets == RecordSets(heap, coerced, node, node, f)
      <4>1. \A h \in DOMAIN sets : sets[h] # {}
        BY <3>5 DEF RecordSets
      <4> HIDE DEF sets
      <4>2. All(sets) # {}
        BY <4>1, AllChosen
      <4>3. QED  BY <4>2 DEF sets
    <3>7. C # {}
      BY <3>4, <3>6
    <3>8. QED  BY <3>3, <3>5, <3>7 DEF A, C
  <2>4. CASE node.con = "variant"
    <3> DEFINE h == v[2]
               x == node.fields[h]
    <3>1. h \in DOMAIN node.fields /\ v[3] \in Values /\ fits[x][v[3]]
      BY <1>0, <1>4, <2>4, FitsShapes
    <3>2. x \in Refs(heap)
      BY <1>1, <1>4, <2>4, <3>1, NodeShapes DEF HasFields
    <3>3. A <=> (h \in DOMAIN node.fields => alike[x][x][v[3]])
      BY <2>1, <2>4, AlikeVariantIs, Zenon DEF A
    <3>4. C = IF h \notin DOMAIN node.fields THEN {} ELSE {Tagged(h, u) : u \in coerced[x][x][v[3]]}
      <4>1. C = TagSet(coerced, node, node, h, v[3])
        BY <2>1, <2>4, CoercedVariantIs DEF C
      <4>2. QED  BY <4>1 DEF TagSet
    <3> HIDE DEF node, h, x
    <3>5. alike[x][x][v[3]] /\ coerced[x][x][v[3]] # {}
      BY <3>1, <3>2 DEF Agrees
    <3>6. C # {}
      BY <3>1, <3>4, <3>5
    <3>7. QED  BY <3>3, <3>5, <3>6 DEF A, C
  <2>5. CASE node.con \in {"service", "func"}
    BY <2>1, <2>5, AlikeReferenceIs, CoercedReferenceIs DEF A, C
  <2>6. QED  BY <1>1, <1>4, <2>2, <2>3, <2>4, <2>5
<1>5. QED  BY <1>3, <1>4

(* So it does on each level. *)
LEMMA LevelsAgree ==
  ASSUME NEW heap, IsHeap(heap)
  PROVE  \A d \in 0 .. MaxDepth :
           Agrees(heap, Fitting(heap)[d], Likeness(heap, heap)[d], Coercion(heap, heap)[d])
<1> DEFINE F(d) == Fitting(heap)[d]
           A(d) == Likeness(heap, heap)[d]
           C(d) == Coercion(heap, heap)[d]
           T == {d \in 0 .. MaxDepth : Agrees(heap, F(d), A(d), C(d))}
<1>0. MaxDepth \in Nat
  BY DepthAssumption
<1>1. \A t \in Refs(heap) : t \in Int
  <2>1. DOMAIN heap \subseteq Nat
    BY DEF IsHeap
  <2>2. QED  BY <2>1, RefNumbers
<1>2. 0 \in T
  <2>1. \A t \in Refs(heap), v \in Values : F(0)[t][v] = FALSE
    BY <1>1, FittingLevels, Zenon
  <2>2. Agrees(heap, F(0), A(0), C(0))
    BY <2>1 DEF Agrees
  <2>3. QED  BY <1>0, <2>2
<1>3. ASSUME NEW d \in 1 .. MaxDepth, d - 1 \in T PROVE d \in T
  <2>1. Agrees(heap, F(d - 1), A(d - 1), C(d - 1))
    BY <1>3
  <2>2. ASSUME NEW t \in Refs(heap), NEW v \in Values, F(d)[t][v]
        PROVE  A(d)[t][t][v] /\ C(d)[t][t][v] # {}
    <3>1. F(d)[t][v] = FitsParts(heap, F(d - 1), t, v)
      BY <1>1, FittingLevels, Zenon
    <3>2. t \in Int /\ Resembles(heap, heap, t, t, v) /\ Coerces(heap, heap, t, t, v)
      BY <1>1, LikenessLevels, CoercionLevels
    <3>3. /\ A(d)[t][t][v] = AlikeParts(heap, heap, A(d - 1), t, t, v)
          /\ C(d)[t][t][v] = CoercedParts(heap, heap, C(d - 1), t, t, v)
      BY <3>2 DEF Resembles, Coerces
    <3> DEFINE f == F(d - 1)
               a == A(d - 1)
               c == C(d - 1)
    <3>4. FitsParts(heap, f, t, v) /\ Agrees(heap, f, a, c)
      BY <2>1, <2>2, <3>1
    <3> HIDE DEF f, a, c
    <3>5. AlikeParts(heap, heap, a, t, t, v) /\ CoercedParts(heap, heap, c, t, t, v) # {}
      BY <3>4, PartsAgree
    <3>6. QED  BY <3>3, <3>5 DEF a, c
  <2>3. Agrees(heap, F(d), A(d), C(d))
    BY <2>2 DEF Agrees
  <2>4. d \in 0 .. MaxDepth
    BY <1>0
  <2>5. QED  BY <2>3, <2>4
<1> HIDE DEF T
<1>4. \A d \in 0 .. MaxDepth : d \in T
  BY <1>0, <1>2, <1>3, BoundedInduction
<1>5. QED  BY <1>4 DEF T

---------------------------------------------------------------------------

(* Reading what was written, a level down *)

(* Nothing is read where there is nothing to read, and one of C if it is. *)
LEMMA PlainOutcomes ==
  /\ \A at, end, names : Outcome(Raise(at), {}, end, names)
  /\ \A v, C, end, names : v \in C => Outcome(Got(v, end), C, end, names)
BY DEF Outcome, Raise, Got

(* A shape is given to what is read. *)
LEMMA ShapedOutcome ==
  ASSUME NEW read, NEW C, NEW end, NEW names, Outcome(read, C, end, names), NEW shape
  PROVE  Outcome(Shaped(read, shape), {<<shape, c>> : c \in C}, end, names)
<1> DEFINE more == Got(<<shape, read.val>>, read.at)
           D == {<<shape, c>> : c \in C}
<1>1. more.ok = TRUE /\ more.val = <<shape, read.val>> /\ more.at = read.at
  BY GotIs
<1>2. (D # {} => C # {}) /\ (read.val \in C => <<shape, read.val>> \in D)
  OBVIOUS
<1>3. (read.ok => Shaped(read, shape) = more) /\ (~ read.ok => Shaped(read, shape) = read)
  BY DEF Shaped
<1> HIDE DEF more, D
<1>4. CASE read.ok
  BY <1>1, <1>2, <1>3, <1>4, Zenon DEF Outcome, D
<1>5. CASE ~ read.ok
  BY <1>2, <1>3, <1>5 DEF Outcome, D
<1>6. QED  BY <1>4, <1>5

(* The elements of a list are read one after the other. *)
LEMMA ListHeld ==
  ASSUME NEW b, NEW at, NEW pieces \in Seq(Seq(Bytes)), Holds(b, at, FlattenSeq(pieces)),
         NEW below, NEW mode, NEW l, NEW w, NEW sets, DOMAIN sets = 1 .. Len(pieces), NEW names,
         \A i \in 1 .. Len(pieces), p \in Position : Holds(b, p, pieces[i]) =>
           Outcome(below[mode][l][w][p], sets[i], p + Len(pieces[i]), names)
  PROVE  Outcome(DecodeList(below, mode, l, w, at, Len(pieces)), All(sets), at + Len(FlattenSeq(pieces)), names)
<1> DEFINE n == Len(pieces)
           end == at + Len(FlattenSeq(pieces))
<1>1. PICK place : Places(b, at, pieces, place)
  BY HoldsEach
<1>2. n \in Nat
  OBVIOUS
<1> HIDE DEF end
<1>3. place[0] = at /\ place[n] = end
  BY <1>1 DEF Places, end
<1>4. ASSUME NEW i \in 1 .. n PROVE Outcome(below[mode][l][w][place[i - 1]], sets[i], place[i], names)
  <2>1. i - 1 \in 0 .. n
    BY <1>2
  <2>2. place[i - 1] \in Position /\ place[i] = place[i - 1] + Len(pieces[i]) /\ Holds(b, place[i - 1], pieces[i])
    BY <1>1, <2>1 DEF Places
  <2>3. Outcome(below[mode][l][w][place[i - 1]], sets[i], place[i - 1] + Len(pieces[i]), names)
    BY <2>2
  <2>4. QED  BY <2>2, <2>3
<1> HIDE DEF n
<1>5. DOMAIN sets = 1 .. n
  BY DEF n
<1>6. Outcome(DecodeList(below, mode, l, w, place[0], n), All(sets), place[n], names)
  BY <1>2, <1>4, <1>5, ListRead, Zenon
<1>7. QED  BY <1>3, <1>6 DEF n, end

(* The elements, as either mode reads them *)
ElementsRead(b, below, mode, l, w, pieces, sets, names) ==
  \A i \in 1 .. Len(pieces), p \in Position : Holds(b, p, pieces[i]) =>
    Outcome(below[mode][l][w][p], sets[i], p + Len(pieces[i]), names)

(* A vec is read: as the receiver's, or as a blob. *)
LEMMA VecOutcome ==
  ASSUME NEW b, NEW at, NEW pieces \in Seq(Seq(Bytes)), NEW code,
         code = EncodeU(Len(pieces)) \o FlattenSeq(pieces), Holds(b, at, code),
         NEW below, NEW own, NEW node, NEW other, other.con = "vec",
         NEW sets, DOMAIN sets = 1 .. Len(pieces), NEW names,
         other.arg = TypeIds.nat8 => ElementsRead(b, below, TRUE, other.arg, other.arg, pieces, sets, names),
         other.arg # TypeIds.nat8 => ElementsRead(b, below, own, node.arg, other.arg, pieces, sets, names)
  PROVE  Outcome(ReadVec(b, below, own, node, other, at), {List(c) : c \in All(sets)}, at + Len(code), names)
<1> DEFINE n == Len(pieces)
           head == EncodeU(n)
           flat == FlattenSeq(pieces)
           mid == at + Len(head)
           end == mid + Len(flat)
           after == at + Len(code)
           C == {List(c) : c \in All(sets)}
           result == ReadVec(b, below, own, node, other, at)
<1>1. n \in Nat /\ head \in Seq(Bytes) /\ flat \in Seq(Bytes) /\ code = head \o flat
  BY EncodeUBytes, FlattenBytes
<1> HIDE DEF n, head, flat
<1>2. Split(b, at, head, flat, mid, at + Len(code))
  BY <1>1, Behind, Zenon
<1>3. Holds(b, at, head) /\ Holds(b, mid, flat) /\ after = end
  BY <1>2 DEF Split
<1>4. DecodeU(b, at) = Got(n, mid)
  BY <1>1, <1>3, UnsignedHeld DEF head
<1>5. DecodeU(b, at).ok = TRUE /\ DecodeU(b, at).val = n /\ DecodeU(b, at).at = mid
  BY <1>4, GotIs
<1> HIDE DEF mid, after
<1>6. C = {<<"list", c>> : c \in All(sets)}
  BY DEF List
<1> HIDE DEF C, end
<1>7. CASE other.arg = TypeIds.nat8
  <2> DEFINE read == DecodeList(below, TRUE, other.arg, other.arg, mid, n)
  <2>1. result = Shaped(read, "list")
    BY <1>5, <1>7, Zenon DEF ReadVec
  <2>2. \A i \in 1 .. Len(pieces), p \in Position : Holds(b, p, pieces[i]) =>
          Outcome(below[TRUE][other.arg][other.arg][p], sets[i], p + Len(pieces[i]), names)
    BY <1>7, Zenon DEF ElementsRead
  <2>3. Outcome(read, All(sets), end, names)
    BY <1>3, <2>2, ListHeld, Zenon DEF n, flat, end
  <2> HIDE DEF read
  <2>4. Outcome(Shaped(read, "list"), C, end, names)
    BY <1>6, <2>3, ShapedOutcome
  <2>5. QED  BY <1>3, <2>1, <2>4 DEF C, after
<1>8. CASE other.arg # TypeIds.nat8
  <2> DEFINE read == DecodeList(below, own, node.arg, other.arg, mid, n)
  <2>1. result = Shaped(read, "list")
    BY <1>5, <1>8 DEF ReadVec
  <2>2. \A i \in 1 .. Len(pieces), p \in Position : Holds(b, p, pieces[i]) =>
          Outcome(below[own][node.arg][other.arg][p], sets[i], p + Len(pieces[i]), names)
    BY <1>8, Zenon DEF ElementsRead
  <2>3. Outcome(read, All(sets), end, names)
    BY <1>3, <2>2, ListHeld, Zenon DEF n, flat, end
  <2> HIDE DEF read
  <2>4. Outcome(Shaped(read, "list"), C, end, names)
    BY <1>6, <2>3, ShapedOutcome
  <2>5. QED  BY <1>3, <2>1, <2>4 DEF C, after
<1>9. QED  BY <1>7, <1>8

(* The two lengths an opt has *)
LEMMA OptLengths ==
  EncodeU(0) = <<0>> /\ EncodeU(1) = <<1>> /\ Len(<<0>>) = 1 /\ Len(<<1>>) = 1
<1>1. EncodeU(0) = <<0>> /\ EncodeU(1) = <<1>>
  <2>1. \A n \in Nat : n < 128 => EncodeU(n) = <<n>>
    <3> SUFFICES ASSUME NEW n \in Nat, n < 128 PROVE EncodeU(n) = <<n>>
      OBVIOUS
    <3>1. EncodeU(n) = IF n < 128 THEN <<n>> ELSE <<128 + (n % 128)>> \o EncodeU(n \div 128)
      BY EncodeUStep, Zenon
    <3>2. QED  BY <3>1
  <2>2. QED  BY <2>1
<1>2. QED  BY <1>1

(* An opt is read. *)
LEMMA OptOutcome ==
  ASSUME NEW b, NEW at, NEW pieces \in Seq(Seq(Bytes)), Len(pieces) <= 1, NEW code,
         code = EncodeU(Len(pieces)) \o FlattenSeq(pieces), Holds(b, at, code),
         NEW below, NEW own, NEW node, NEW other, other.con = "opt",
         NEW sets, DOMAIN sets = 1 .. Len(pieces), NEW names,
         ElementsRead(b, below, own, node.arg, other.arg, pieces, sets, names)
  PROVE  Outcome(ReadOpt(b, below, own, node, other, at), {List(c) : c \in All(sets)}, at + Len(code), names)
<1> DEFINE n == Len(pieces)
           head == EncodeU(n)
           flat == FlattenSeq(pieces)
           mid == at + Len(head)
           end == mid + Len(flat)
           after == at + Len(code)
           C == {List(c) : c \in All(sets)}
           result == ReadOpt(b, below, own, node, other, at)
<1>1. n \in Nat /\ head \in Seq(Bytes) /\ flat \in Seq(Bytes) /\ code = head \o flat /\ n \in {0, 1}
  <2>1. n \in Nat /\ n <= 1
    OBVIOUS
  <2>2. head \in Seq(Bytes) /\ flat \in Seq(Bytes)
    BY <2>1, EncodeUBytes, FlattenBytes
  <2>3. code = head \o flat
    OBVIOUS
  <2> HIDE DEF n, head, flat
  <2>4. n \in {0, 1}
    BY <2>1
  <2>5. QED  BY <2>1, <2>2, <2>3, <2>4
<1> HIDE DEF n, head, flat
<1>2. Split(b, at, head, flat, mid, at + Len(code))
  BY <1>1, Behind, Zenon
<1>3. Holds(b, at, head) /\ Holds(b, mid, flat) /\ after = end
  BY <1>2 DEF Split
<1>4. head = <<n>> /\ Len(head) = 1
  BY <1>1, OptLengths DEF head
<1>5. ~ (at > Len(b)) /\ b[at] = n /\ mid = at + 1
  BY <1>3, <1>4, ByteHeld
<1>6. C = {<<"list", c>> : c \in All(sets)}
  BY DEF List
<1> HIDE DEF C, end, mid, after
<1>7. CASE n = 0
  <2>1. result = Got(List(<< >>), at + 1)
    BY <1>5, <1>7 DEF ReadOpt
  <2>2. << >> \in All(sets)
    <3> DEFINE none == << >>
    <3>1. DOMAIN sets = {} /\ none = [i \in {} |-> none[i]]
      BY <1>7 DEF n
    <3>2. none = [i \in DOMAIN sets |-> none[i]] /\ \A i \in DOMAIN sets : none[i] \in sets[i]
      BY <3>1
    <3> HIDE DEF none
    <3>3. none \in All(sets)
      BY <3>2, AllChosen
    <3>4. QED  BY <3>3 DEF none
  <2>3. List(<< >>) \in C
    BY <2>2 DEF C
  <2>4. end = at + 1
    <3>1. pieces = << >>
      BY <1>7 DEF n
    <3>2. flat = << >>
      <4>1. PICK h : Strung(pieces, h) /\ flat = h[Len(pieces)]
        BY FlattenStrings DEF flat
      <4>2. QED  BY <1>7, <4>1 DEF Strung, n
    <3>3. at \in Position /\ Len(flat) = 0
      BY <1>3, <3>2 DEF Holds
    <3>4. QED  BY <1>5, <3>3 DEF end, Position
  <2> HIDE DEF result
  <2>5. Outcome(result, C, end, names)
    BY <2>1, <2>3, <2>4, PlainOutcomes
  <2>6. QED  BY <1>3, <2>5 DEF C, after, result
<1>8. CASE n = 1
  <2> DEFINE read == DecodeList(below, own, node.arg, other.arg, mid, 1)
  <2>1. result = Shaped(read, "list")
    BY <1>5, <1>8 DEF ReadOpt
  <2>2. \A i \in 1 .. Len(pieces), p \in Position : Holds(b, p, pieces[i]) =>
          Outcome(below[own][node.arg][other.arg][p], sets[i], p + Len(pieces[i]), names)
    BY DEF ElementsRead
  <2>3. Outcome(DecodeList(below, own, node.arg, other.arg, mid, n), All(sets), end, names)
    BY <1>3, <2>2, ListHeld, Zenon DEF n, flat, end
  <2>4. Outcome(read, All(sets), end, names)
    BY <1>8, <2>3
  <2> HIDE DEF read
  <2>5. Outcome(Shaped(read, "list"), C, end, names)
    BY <1>6, <2>4, ShapedOutcome
  <2>6. QED  BY <1>3, <2>1, <2>5 DEF C, after
<1>9. QED  BY <1>1, <1>7, <1>8

(* The fields, as they are read one by one *)
FieldsHeld(b, heap, below, own, node, other, their, pieces, sets, names) ==
  /\ \A h \in DOMAIN node.fields : h \notin DOMAIN other.fields => sets[h] = Missing(heap, node.fields[h])
  /\ \A j \in 1 .. Len(their), p \in Position : Holds(b, p, pieces[j]) =>
       /\ their[j] \in DOMAIN node.fields =>
            Outcome(below[own][node.fields[their[j]]][other.fields[their[j]]][p], sets[their[j]],
                    p + Len(pieces[j]), names)
       /\ Passes(below[TRUE][other.fields[their[j]]][other.fields[their[j]]][p], p + Len(pieces[j]), names)

(* A record is read. *)
LEMMA RecordOutcome ==
  ASSUME NEW b, NEW at, NEW heap, NEW below, NEW own, NEW node, NEW other, NEW their,
         their = SortedHashes(other),
         DOMAIN node.fields \subseteq Nat, Sorted(DOMAIN node.fields, SortedHashes(node)),
         DOMAIN other.fields \subseteq Nat, Sorted(DOMAIN other.fields, their),
         NEW pieces \in Seq(Seq(Bytes)), Len(pieces) = Len(their), Holds(b, at, FlattenSeq(pieces)),
         NEW sets, DOMAIN sets = DOMAIN node.fields, NEW names,
         FieldsHeld(b, heap, below, own, node, other, their, pieces, sets, names)
  PROVE  Outcome(Shaped(DecodeFields(heap, below, own, node, other, at), "dict"), {Dict(f) : f \in All(sets)},
                 at + Len(FlattenSeq(pieces)), names)
<1> DEFINE n == Len(pieces)
           end == at + Len(FlattenSeq(pieces))
           my == SortedHashes(node)
           read == DecodeFields(heap, below, own, node, other, at)
           C == {Dict(f) : f \in All(sets)}
<1>1. PICK place : Places(b, at, pieces, place)
  BY HoldsEach
<1>2. my = SortedHashes(node) /\ Sorted(DOMAIN node.fields, my)
  OBVIOUS
<1> HIDE DEF end, my
<1>3. place[0] = at /\ place[Len(their)] = end
  BY <1>1 DEF Places, end
<1>4. (\A i \in 1 .. Len(my) : my[i] \in DOMAIN node.fields) /\ (\A j \in 1 .. Len(their) : their[j] \in DOMAIN other.fields)
      /\ \A h \in DOMAIN other.fields : \E j \in 1 .. Len(their) : their[j] = h
  <2>1. Ordered(my) /\ \A i \in 1 .. Len(my) : my[i] \in DOMAIN node.fields
    BY <1>2, LabelsOrdered, Zenon
  <2>2. Ordered(their) /\ \A i \in 1 .. Len(their) : their[i] \in DOMAIN other.fields
    BY LabelsOrdered, Zenon
  <2>3. \A h \in DOMAIN other.fields : \E j \in 1 .. Len(their) : their[j] = h
    BY DEF Sorted
  <2>4. QED  BY <2>1, <2>2, <2>3
<1>5. ASSUME NEW j \in 1 .. Len(their)
      PROVE  /\ place[j - 1] \in Position /\ Holds(b, place[j - 1], pieces[j])
             /\ place[j] = place[j - 1] + Len(pieces[j])
  <2>1. j - 1 \in 0 .. n /\ j \in 1 .. n
    OBVIOUS
  <2>2. QED  BY <1>1, <2>1, Zenon DEF Places
<1>6. ASSUME NEW i \in 1 .. Len(my), \A c \in 1 .. Len(their) : their[c] # my[i]
      PROVE  sets[my[i]] = Missing(heap, node.fields[my[i]])
  <2>1. my[i] \in DOMAIN node.fields /\ my[i] \notin DOMAIN other.fields
    BY <1>4, <1>6
  <2>2. QED  BY <2>1 DEF FieldsHeld
<1>7. ASSUME NEW i \in 1 .. Len(my), NEW j \in 1 .. Len(their), my[i] = their[j]
      PROVE  Outcome(below[own][node.fields[my[i]]][other.fields[their[j]]][place[j - 1]], sets[my[i]],
                     place[j], names)
  <2>1. their[j] \in DOMAIN node.fields
    BY <1>4, <1>7, Zenon
  <2>2. Outcome(below[own][node.fields[their[j]]][other.fields[their[j]]][place[j - 1]], sets[their[j]],
                place[j - 1] + Len(pieces[j]), names)
    BY <1>5, <2>1, Zenon DEF FieldsHeld
  <2>3. QED  BY <1>5, <1>7, <2>2, Zenon
<1>8. ASSUME NEW j \in 1 .. Len(their)
      PROVE  Passes(below[TRUE][other.fields[their[j]]][other.fields[their[j]]][place[j - 1]], place[j], names)
  <2>1. Passes(below[TRUE][other.fields[their[j]]][other.fields[their[j]]][place[j - 1]],
               place[j - 1] + Len(pieces[j]), names)
    BY <1>5, Zenon DEF FieldsHeld
  <2>2. QED  BY <1>5, <2>1, Zenon
<1>9. FieldOutcomes(heap, below, own, node, other, sets, my, their, place, names)
  <2>1. \A i \in 1 .. Len(my) : my[i] \in DOMAIN sets
    BY <1>4
  <2>2. QED  BY <1>6, <1>7, <1>8, <2>1, Zenon DEF FieldOutcomes
<1>10. Outcome(DecodeFields(heap, below, own, node, other, place[0]), All(sets), place[Len(their)], names)
  BY <1>2, <1>9, FieldsMerged
<1>11. Outcome(read, All(sets), end, names)
  BY <1>3, <1>10
<1>12. C = {<<"dict", f>> : f \in All(sets)}
  BY DEF Dict
<1> HIDE DEF read, C
<1>13. Outcome(Shaped(read, "dict"), C, end, names)
  BY <1>11, <1>12, ShapedOutcome
<1>14. QED  BY <1>13 DEF read, C, end

(* The value of the tag is held behind the index of the tag, and read as one of C. *)
TagHeld(b, at, below, own, node, other, k, tag, piece, code, C, names) ==
  /\ other.con = "variant" /\ Sorted(DOMAIN other.fields, SortedHashes(other))
  /\ k \in 1 .. Len(SortedHashes(other)) /\ tag = SortedHashes(other)[k]
  /\ piece \in Seq(Bytes) /\ code = EncodeU(k - 1) \o piece /\ Holds(b, at, code)
  /\ tag \in DOMAIN node.fields => \A p \in Position : Holds(b, p, piece) =>
       Outcome(below[own][node.fields[tag]][other.fields[tag]][p], C, p + Len(piece), names)

(* A variant is read. *)
LEMMA VariantOutcome ==
  ASSUME NEW b, NEW at, NEW below, NEW own, NEW node, NEW other, NEW k, NEW tag, NEW piece, NEW code,
         NEW C, NEW names, TagHeld(b, at, below, own, node, other, k, tag, piece, code, C, names)
  PROVE  Outcome(ReadVariant(b, below, own, node, other, at),
                 IF tag \notin DOMAIN node.fields THEN {} ELSE {Tagged(tag, u) : u \in C},
                 at + Len(code), names)
<1> DEFINE their == SortedHashes(other)
           n == k - 1
           head == EncodeU(n)
           mid == at + Len(head)
           end == mid + Len(piece)
           after == at + Len(code)
           result == ReadVariant(b, below, own, node, other, at)
           read == below[own][node.fields[tag]][other.fields[tag]][mid]
           length == DecodeU(b, at)
<1>0. /\ other.con = "variant" /\ Sorted(DOMAIN other.fields, their)
      /\ k \in 1 .. Len(their) /\ tag = their[k]
      /\ piece \in Seq(Bytes) /\ code = EncodeU(k - 1) \o piece /\ Holds(b, at, code)
      /\ tag \in DOMAIN node.fields => \A p \in Position : Holds(b, p, piece) =>
           Outcome(below[own][node.fields[tag]][other.fields[tag]][p], C, p + Len(piece), names)
  BY DEF TagHeld
<1>1. n \in Nat /\ n + 1 = k /\ Len(their) = Cardinality(DOMAIN other.fields) /\ Len(their) \in Nat
  BY <1>0 DEF Sorted
<1>2. ~ (n >= Cardinality(DOMAIN other.fields))
  BY <1>0, <1>1
<1>3. head \in Seq(Bytes) /\ code = head \o piece
  BY <1>0, <1>1, EncodeUBytes
<1> HIDE DEF n, head
<1>4. Split(b, at, head, piece, mid, at + Len(code))
  BY <1>0, <1>3, Behind, Zenon
<1>5. Holds(b, at, head) /\ Holds(b, mid, piece) /\ after = end
  BY <1>4 DEF Split
<1>6. length = Got(n, mid)
  BY <1>1, <1>5, UnsignedHeld DEF head
<1> HIDE DEF length
<1>7. length.ok = TRUE /\ length.val = n /\ length.at = mid
  BY <1>6, GotIs
<1>8. SortedHashes(other)[length.val + 1] = tag
  BY <1>0, <1>1, <1>7
<1>9. CASE tag \notin DOMAIN node.fields
  <2>1. result = Raise(at)
    BY <1>0, <1>8, <1>9 DEF ReadVariant, length
  <2> HIDE DEF result, after
  <2>2. Outcome(result, {}, after, names)
    BY <2>1, PlainOutcomes
  <2>3. QED  BY <1>9, <2>2 DEF result, after
<1>10. CASE tag \in DOMAIN node.fields
  <2> DEFINE D == {Tagged(tag, u) : u \in C}
             more == Got(Tagged(tag, read.val), read.at)
  <2>1. result = IF read.ok THEN more ELSE read
    BY <1>0, <1>2, <1>7, <1>8, <1>10, Zenon DEF ReadVariant, length
  <2>2. mid \in Position
    BY <1>5 DEF Holds
  <2>3. Outcome(read, C, end, names)
    BY <1>0, <1>5, <1>10, <2>2
  <2>4. more.ok = TRUE /\ more.val = Tagged(tag, read.val) /\ more.at = read.at
    <3> DEFINE x == Tagged(tag, read.val)
    <3> HIDE DEF x, read, more
    <3>1. Got(x, read.at).ok = TRUE /\ Got(x, read.at).val = x /\ Got(x, read.at).at = read.at
      BY GotIs
    <3>2. QED  BY <3>1 DEF x, more
  <2>5. (D # {} => C # {}) /\ (read.val \in C => Tagged(tag, read.val) \in D)
    OBVIOUS
  <2> HIDE DEF result, after, end, read, more, D
  <2>6. Outcome(result, D, after, names)
    <3>1. CASE read.ok
      BY <1>5, <2>1, <2>3, <2>4, <2>5, <3>1, Zenon DEF Outcome
    <3>2. CASE ~ read.ok
      BY <1>5, <2>1, <2>3, <2>5, <3>2 DEF Outcome
    <3>3. QED  BY <3>1, <3>2
  <2>7. QED  BY <1>10, <2>6 DEF D, result, after
<1>11. QED  BY <1>9, <1>10

(* Below this level, what fits is read as what it may be read as, is passed *)
(* over by its own type, and is read as a byte of a blob.                   *)
ReadsBelow(b, below, own, S, m, U, n, fits, bytes, alike, coerced, names) ==
  \A q \in S, t \in U, v \in Values : \A at \in Position :
    fits[t][v] /\ Holds(b, at, bytes[t][v]) /\ alike[q][t][v] =>
      Outcome(below[own][m[q]][n[t]][at], coerced[q][t][v], at + Len(bytes[t][v]), names)

PassesBelow(b, below, U, n, fits, bytes, names) ==
  \A t \in U, v \in Values : \A at \in Position :
    fits[t][v] /\ Holds(b, at, bytes[t][v]) =>
      Passes(below[TRUE][n[t]][n[t]][at], at + Len(bytes[t][v]), names)

BlobsBelow(b, below, Q, S, U, n, fits, bytes, coerced, names) ==
  \A q \in S, t \in U, v \in Values : \A at \in Position :
    GetType(Q, q) = TypeIds.nat8 /\ n[t] = TypeIds.nat8 /\ fits[t][v] /\ Holds(b, at, bytes[t][v]) =>
      Outcome(below[TRUE][n[t]][n[t]][at], coerced[q][t][v], at + Len(bytes[t][v]), names)

(* A value of a type p is asked for as a primitive type o; w is what became of p. *)
PrimitiveAsked(b, o, p, w, v, at, code, C) ==
  /\ IsPrimitive(o) /\ p \in Int /\ w \in Int
  /\ p < 0 => w = p /\ IsPrimitive(p) /\ FitsPrimitive(p, v) /\ code = EncodePrimitive(p, v)
  /\ ~ (p < 0) => ~ (w < 0)
  /\ o = TypeIds.reserved => p = TypeIds.reserved /\ C = {None}
  /\ o # TypeIds.reserved => C = IF PrimitiveMatches(o, p) THEN {v} ELSE {}
  /\ Holds(b, at, code)

(* It is read if the types match. *)
LEMMA PrimitiveOutcome ==
  ASSUME NEW b, NEW o, NEW p, NEW w, NEW v, NEW at, NEW code, NEW C, NEW names,
         PrimitiveAsked(b, o, p, w, v, at, code, C),
         NEW result, result = IF PrimitiveMatches(o, w) THEN DecodePrimitive(w, b, at) ELSE Raise(at)
  PROVE  Outcome(result, C, at + Len(code), names)
<1> DEFINE end == at + Len(code)
<1> USE DEF PrimitiveAsked
<1>0. (\A u : PrimitiveMatches(o, u) => u < 0) /\ TypeIds.reserved < 0
      /\ (p = TypeIds.reserved /\ PrimitiveMatches(o, p) => o = TypeIds.reserved)
  BY DEF PrimitiveMatches, IsPrimitive, TypeIds, Primitives
<1> HIDE DEF end
<1>1. CASE ~ (p < 0)
  <2>1. result = Raise(at) /\ C = {}
    BY <1>0, <1>1
  <2>2. Outcome(result, C, end, names)
    BY <2>1, PlainOutcomes
  <2>3. QED  BY <2>2 DEF end
<1>2. CASE p < 0 /\ ~ PrimitiveMatches(o, p)
  <2>1. o # TypeIds.reserved
    BY <1>2 DEF PrimitiveMatches
  <2>2. result = Raise(at) /\ C = {}
    BY <1>2, <2>1
  <2>3. Outcome(result, C, end, names)
    BY <2>2, PlainOutcomes
  <2>4. QED  BY <2>3 DEF end
<1>3. CASE p < 0 /\ PrimitiveMatches(o, p)
  <2>1. DecodePrimitive(p, b, at) = Got(Kept(p, v), end)
    BY <1>3, PrimitiveHeld DEF end
  <2>2. result = Got(Kept(p, v), end)
    BY <1>3, <2>1
  <2>3. Name(p) = "reserved" <=> p = TypeIds.reserved
    <3>1. "reserved" \in Primitives /\ TypeIds["reserved"] = TypeIds.reserved
      BY DEF Primitives
    <3>2. QED  BY <1>3, <3>1, PrimitiveNames
  <2>4. Kept(p, v) \in C
    <3>1. CASE o = TypeIds.reserved
      BY <2>3, <3>1 DEF Kept
    <3>2. CASE o # TypeIds.reserved
      <4>1. p # TypeIds.reserved
        BY <1>0, <1>3, <3>2
      <4>2. C = {v}
        BY <1>3, <3>2
      <4>3. QED  BY <2>3, <4>1, <4>2 DEF Kept
    <3>3. QED  BY <3>1, <3>2
  <2>5. Outcome(result, C, end, names)
    BY <2>2, <2>4, PlainOutcomes
  <2>6. QED  BY <2>5 DEF end
<1>4. QED  BY <1>1, <1>2, <1>3

(* The order of the labels is that of the labels. *)
LEMMA HashesSame ==
  ASSUME NEW node, NEW other, DOMAIN node.fields = DOMAIN other.fields
  PROVE  SortedHashes(node) = SortedHashes(other)
BY DEF SortedHashes

(* What is missing of a type is missing of its mirror. *)
LEMMA MissingSame ==
  ASSUME NEW R, NEW Q, NEW S, NEW m, Mirror(R, Q, S, m), NEW q \in S
  PROVE  Missing(R, m[q]) = Missing(Q, q)
<1> DEFINE r == GetType(R, m[q])
           o == GetType(Q, q)
<1>1. /\ r \in Int /\ o \in Int
      /\ o < 0 => r = o
      /\ ~ (o < 0) => ~ (r < 0) /\ R[r].con = Q[o].con
  BY MirrorNode
<1>2. TypeIds.reserved < 0
  BY DEF TypeIds
<1>3. Missing(R, m[q]) = IF r = TypeIds.reserved THEN {None}
                         ELSE IF r >= 0 /\ R[r].con = "opt" THEN {List(<< >>)} ELSE {}
  BY DEF Missing
<1>4. Missing(Q, q) = IF o = TypeIds.reserved THEN {None}
                      ELSE IF o >= 0 /\ Q[o].con = "opt" THEN {List(<< >>)} ELSE {}
  BY DEF Missing
<1> HIDE DEF r, o
<1>5. (r = TypeIds.reserved <=> o = TypeIds.reserved) /\ (r >= 0 /\ R[r].con = "opt" <=> o >= 0 /\ Q[o].con = "opt")
  BY <1>1, <1>2
<1>6. QED  BY <1>3, <1>4, <1>5

(* The two heaps, and what is known of a level of the reading *)
Reading(b, below, own, R, Q, S, m, W, sh, U, n, fits, bytes, alike, coerced, names) ==
  /\ Mirror(R, Q, S, m) /\ Mirror(W, sh, U, n)
  /\ \A y \in U : n[y] = TypeIds.nat8 <=> GetType(sh, y) = TypeIds.nat8
  /\ Writes(sh, fits, bytes)
  /\ ReadsBelow(b, below, own, S, m, U, n, fits, bytes, alike, coerced, names)
  /\ PassesBelow(b, below, U, n, fits, bytes, names)
  /\ BlobsBelow(b, below, Q, S, U, n, fits, bytes, coerced, names)

(* A list s of elements of the type y, as elements of the type x *)
ListAsked(S, m, U, n, fits, bytes, alike, x, y, s, node, other, code) ==
  /\ x \in S /\ y \in U /\ s \in Seq(Values)
  /\ \A i \in DOMAIN s : fits[y][s[i]] /\ alike[x][y][s[i]]
  /\ node.arg = m[x] /\ other.arg = n[y]
  /\ code = EncodeU(Len(s)) \o FlattenSeq(ListPieces(bytes, y, s))

(* A vec and an opt are read, if their elements are. *)
LEMMA ListOutcome ==
  ASSUME NEW b, NEW below, NEW own, NEW R, NEW Q, NEW S, NEW m, NEW W, NEW sh, NEW U, NEW n,
         NEW fits, NEW bytes, NEW alike, NEW coerced, NEW names,
         Reading(b, below, own, R, Q, S, m, W, sh, U, n, fits, bytes, alike, coerced, names),
         NEW x, NEW y, NEW s, NEW node, NEW other, NEW code,
         ListAsked(S, m, U, n, fits, bytes, alike, x, y, s, node, other, code),
         NEW at, Holds(b, at, code)
  PROVE  /\ other.con = "vec" /\ (GetType(sh, y) = TypeIds.nat8 => GetType(Q, x) = TypeIds.nat8) =>
              Outcome(ReadVec(b, below, own, node, other, at),
                      {List(c) : c \in All(ListSets(coerced, x, y, s))}, at + Len(code), names)
         /\ other.con = "opt" /\ Len(s) <= 1 =>
              Outcome(ReadOpt(b, below, own, node, other, at),
                      {List(c) : c \in All(ListSets(coerced, x, y, s))}, at + Len(code), names)
<1> DEFINE pieces == ListPieces(bytes, y, s)
           sets == ListSets(coerced, x, y, s)
<1>0. /\ x \in S /\ y \in U /\ s \in Seq(Values)
      /\ \A i \in DOMAIN s : fits[y][s[i]] /\ alike[x][y][s[i]]
      /\ node.arg = m[x] /\ other.arg = n[y] /\ code = EncodeU(Len(s)) \o FlattenSeq(pieces)
  BY DEF ListAsked
<1>1. y \in Refs(sh) /\ Writes(sh, fits, bytes)
  BY <1>0 DEF Reading, Mirror
<1>2. pieces \in Seq(Seq(Bytes)) /\ Len(pieces) = Len(s) /\ \A i \in 1 .. Len(s) : pieces[i] = bytes[y][s[i]]
  BY <1>0, <1>1, ListBytes
<1>3. DOMAIN sets = 1 .. Len(s)
  BY <1>0 DEF ListSets
<1>4. ReadsBelow(b, below, own, S, m, U, n, fits, bytes, alike, coerced, names)
      /\ BlobsBelow(b, below, Q, S, U, n, fits, bytes, coerced, names)
      /\ (n[y] = TypeIds.nat8 <=> GetType(sh, y) = TypeIds.nat8)
  BY <1>0 DEF Reading
<1> HIDE DEF pieces, sets
<1>5. ASSUME NEW i \in 1 .. Len(s)
      PROVE  /\ s[i] \in Values /\ fits[y][s[i]] /\ alike[x][y][s[i]]
             /\ sets[i] = coerced[x][y][s[i]] /\ pieces[i] = bytes[y][s[i]]
  <2>1. i \in DOMAIN s
    BY <1>0
  <2>2. sets[i] = coerced[x][y][s[i]]
    BY <2>1 DEF sets, ListSets
  <2>3. QED  BY <1>0, <1>2, <2>1, <2>2
<1>6. ElementsRead(b, below, own, node.arg, other.arg, pieces, sets, names)
  <2>1. ASSUME NEW i \in 1 .. Len(s), NEW p \in Position, Holds(b, p, pieces[i])
        PROVE  Outcome(below[own][node.arg][other.arg][p], sets[i], p + Len(pieces[i]), names)
    <3>1. Holds(b, p, bytes[y][s[i]])
      BY <1>0, <1>5, <2>1
    <3>2. Outcome(below[own][m[x]][n[y]][p], coerced[x][y][s[i]], p + Len(bytes[y][s[i]]), names)
      BY <1>0, <1>4, <1>5, <3>1, Zenon DEF ReadsBelow
    <3>3. QED  BY <1>0, <1>5, <3>2
  <2>2. QED  BY <1>2, <2>1 DEF ElementsRead
<1>7. GetType(Q, x) = TypeIds.nat8 /\ other.arg = TypeIds.nat8 =>
        ElementsRead(b, below, TRUE, other.arg, other.arg, pieces, sets, names)
  <2> SUFFICES ASSUME GetType(Q, x) = TypeIds.nat8, other.arg = TypeIds.nat8
               PROVE  ElementsRead(b, below, TRUE, other.arg, other.arg, pieces, sets, names)
    BY Zenon
  <2>1. ASSUME NEW i \in 1 .. Len(s), NEW p \in Position, Holds(b, p, pieces[i])
        PROVE  Outcome(below[TRUE][other.arg][other.arg][p], sets[i], p + Len(pieces[i]), names)
    <3>1. Holds(b, p, bytes[y][s[i]]) /\ n[y] = TypeIds.nat8
      BY <1>0, <1>5, <2>1
    <3>2. Outcome(below[TRUE][n[y]][n[y]][p], coerced[x][y][s[i]], p + Len(bytes[y][s[i]]), names)
      BY <1>0, <1>4, <1>5, <3>1, Zenon DEF BlobsBelow
    <3>3. QED  BY <1>0, <1>5, <3>2, Zenon
  <2>2. QED  BY <1>2, <2>1, Zenon DEF ElementsRead
<1>8. code = EncodeU(Len(pieces)) \o FlattenSeq(pieces) /\ DOMAIN sets = 1 .. Len(pieces)
  BY <1>0, <1>2, <1>3
<1>9. ASSUME other.con = "vec", GetType(sh, y) = TypeIds.nat8 => GetType(Q, x) = TypeIds.nat8
      PROVE  Outcome(ReadVec(b, below, own, node, other, at), {List(c) : c \in All(sets)}, at + Len(code), names)
  <2>1. other.arg = TypeIds.nat8 => ElementsRead(b, below, TRUE, other.arg, other.arg, pieces, sets, names)
    BY <1>0, <1>4, <1>7, <1>9, Zenon
  <2>2. other.arg # TypeIds.nat8 => ElementsRead(b, below, own, node.arg, other.arg, pieces, sets, names)
    BY <1>6
  <2>3. QED  BY <1>2, <1>8, <1>9, <2>1, <2>2, VecOutcome, Zenon
<1>10. ASSUME other.con = "opt", Len(s) <= 1
      PROVE  Outcome(ReadOpt(b, below, own, node, other, at), {List(c) : c \in All(sets)}, at + Len(code), names)
  <2>1. Len(pieces) <= 1
    BY <1>2, <1>10
  <2>2. QED  BY <1>2, <1>6, <1>8, <1>10, <2>1, OptOutcome, Zenon
<1>11. QED  BY <1>9, <1>10, Zenon DEF sets

(* The fields of one heap mirror those of the other. *)
FieldsMirror(node, mine, S, m) ==
  /\ DOMAIN node.fields = DOMAIN mine.fields
  /\ DOMAIN node.fields \subseteq Nat /\ Sorted(DOMAIN node.fields, SortedHashes(node))
  /\ \A h \in DOMAIN node.fields : mine.fields[h] \in S /\ node.fields[h] = m[mine.fields[h]]

(* The fields f of a record *)
RecordAsked(Q, S, m, sh, U, n, fits, alike, o, p, f, node, other) ==
  /\ p \in DOMAIN sh /\ HasFields(sh[p])
  /\ FieldsMirror(node, Q[o], S, m) /\ FieldsMirror(other, sh[p], U, n)
  /\ f \in [DOMAIN sh[p].fields -> Values] /\ \A h \in DOMAIN sh[p].fields : fits[sh[p].fields[h]][f[h]]
  /\ \A h \in DOMAIN Q[o].fields \cap DOMAIN sh[p].fields : alike[Q[o].fields[h]][sh[p].fields[h]][f[h]]

(* A record is read, if its fields are. *)
LEMMA FieldsOutcome ==
  ASSUME NEW b, NEW below, NEW own, NEW R, NEW Q, NEW S, NEW m, NEW W, NEW sh, NEW U, NEW n,
         NEW fits, NEW bytes, NEW alike, NEW coerced, NEW names,
         Reading(b, below, own, R, Q, S, m, W, sh, U, n, fits, bytes, alike, coerced, names),
         NEW o, NEW p, NEW f, NEW node, NEW other,
         RecordAsked(Q, S, m, sh, U, n, fits, alike, o, p, f, node, other),
         NEW code, code = FlattenSeq(RecordPieces(bytes, sh[p], f)), NEW at, Holds(b, at, code)
  PROVE  Outcome(Shaped(DecodeFields(R, below, own, node, other, at), "dict"),
                 {Dict(g) : g \in All(RecordSets(Q, coerced, Q[o], sh[p], f))}, at + Len(code), names)
<1> DEFINE mine == Q[o]
           sent == sh[p]
           their == SortedHashes(other)
           pieces == RecordPieces(bytes, sent, f)
           sets == RecordSets(Q, coerced, mine, sent, f)
<1>0. /\ p \in DOMAIN sh /\ HasFields(sent) /\ IsHeap(sh) /\ Mirror(R, Q, S, m)
      /\ FieldsMirror(node, mine, S, m) /\ FieldsMirror(other, sent, U, n)
      /\ f \in [DOMAIN sent.fields -> Values] /\ \A h \in DOMAIN sent.fields : fits[sent.fields[h]][f[h]]
      /\ \A h \in DOMAIN mine.fields \cap DOMAIN sent.fields : alike[mine.fields[h]][sent.fields[h]][f[h]]
  BY Zenon DEF RecordAsked, Reading, Mirror
<1>1. /\ ReadsBelow(b, below, own, S, m, U, n, fits, bytes, alike, coerced, names)
      /\ PassesBelow(b, below, U, n, fits, bytes, names) /\ Writes(sh, fits, bytes)
  BY DEF Reading
<1>2. /\ DOMAIN node.fields = DOMAIN mine.fields /\ DOMAIN other.fields = DOMAIN sent.fields
      /\ DOMAIN node.fields \subseteq Nat /\ Sorted(DOMAIN node.fields, SortedHashes(node))
      /\ DOMAIN other.fields \subseteq Nat /\ Sorted(DOMAIN other.fields, their)
  BY <1>0, Zenon DEF FieldsMirror
<1>3. their = SortedHashes(sent) /\ their = SortedHashes(other)
  BY <1>2, HashesSame
<1> HIDE DEF mine
<1>4. /\ pieces \in Seq(Seq(Bytes)) /\ Len(pieces) = Len(their)
      /\ \A j \in 1 .. Len(their) : pieces[j] = bytes[sent.fields[their[j]]][f[their[j]]]
  <2>1. /\ RecordPieces(bytes, sh[p], f) \in Seq(Seq(Bytes))
        /\ Len(RecordPieces(bytes, sh[p], f)) = Len(SortedHashes(sh[p]))
        /\ \A i \in 1 .. Len(SortedHashes(sh[p])) :
             RecordPieces(bytes, sh[p], f)[i]
                = bytes[sh[p].fields[SortedHashes(sh[p])[i]]][f[SortedHashes(sh[p])[i]]]
    BY <1>0, <1>1, RecordBytes
  <2>2. QED  BY <1>3, <2>1, Zenon
<1>5. code = FlattenSeq(pieces)
  OBVIOUS
<1> HIDE DEF pieces, sent, their, sets
<1>6. \A j \in 1 .. Len(their) : their[j] \in DOMAIN other.fields
  BY <1>2, LabelsOrdered, Zenon
<1>7. DOMAIN sets = DOMAIN node.fields
  BY <1>2 DEF sets, RecordSets
<1>8. ASSUME NEW h \in DOMAIN node.fields, h \notin DOMAIN other.fields PROVE sets[h] = Missing(R, node.fields[h])
  <2>1. h \in DOMAIN mine.fields /\ h \notin DOMAIN sent.fields
    BY <1>2, <1>8
  <2>2. sets[h] = Missing(Q, mine.fields[h])
    BY <2>1 DEF sets, RecordSets
  <2>3. mine.fields[h] \in S /\ node.fields[h] = m[mine.fields[h]]
    BY <1>0 DEF FieldsMirror
  <2>4. Missing(R, m[mine.fields[h]]) = Missing(Q, mine.fields[h])
    BY <1>0, <2>3, MissingSame
  <2>5. QED  BY <2>2, <2>3, <2>4
<1>9. ASSUME NEW j \in 1 .. Len(their), NEW pos \in Position, Holds(b, pos, pieces[j])
      PROVE  /\ their[j] \in DOMAIN node.fields =>
                  Outcome(below[own][node.fields[their[j]]][other.fields[their[j]]][pos], sets[their[j]],
                          pos + Len(pieces[j]), names)
             /\ Passes(below[TRUE][other.fields[their[j]]][other.fields[their[j]]][pos],
                       pos + Len(pieces[j]), names)
  <2> DEFINE h == their[j]
             x == mine.fields[h]
             y == sent.fields[h]
  <2>1. h \in DOMAIN other.fields /\ h \in DOMAIN sent.fields
    BY <1>2, <1>6
  <2>2. y \in U /\ other.fields[h] = n[y]
    BY <1>0, <2>1 DEF FieldsMirror
  <2>3. f[h] \in Values /\ fits[y][f[h]] /\ pieces[j] = bytes[y][f[h]]
    BY <1>0, <1>4, <2>1
  <2>4. h \in DOMAIN node.fields =>
          x \in S /\ node.fields[h] = m[x] /\ alike[x][y][f[h]] /\ sets[h] = coerced[x][y][f[h]]
    <3> SUFFICES ASSUME h \in DOMAIN node.fields
                 PROVE  x \in S /\ node.fields[h] = m[x] /\ alike[x][y][f[h]] /\ sets[h] = coerced[x][y][f[h]]
      BY Zenon
    <3>1. h \in DOMAIN mine.fields
      BY <1>2
    <3>2. x \in S /\ node.fields[h] = m[x]
      BY <1>0 DEF FieldsMirror
    <3>3. alike[x][y][f[h]]
      BY <1>0, <2>1, <3>1, Zenon
    <3>4. sets[h] = coerced[x][y][f[h]]
      BY <2>1, <3>1 DEF sets, RecordSets
    <3>5. QED  BY <3>2, <3>3, <3>4, Zenon
  <2> HIDE DEF h, x, y
  <2>5. Passes(below[TRUE][n[y]][n[y]][pos], pos + Len(bytes[y][f[h]]), names)
    BY <1>1, <1>9, <2>2, <2>3, Zenon DEF PassesBelow
  <2>6. Passes(below[TRUE][other.fields[h]][other.fields[h]][pos], pos + Len(pieces[j]), names)
    BY <2>2, <2>3, <2>5, Zenon
  <2>7. h \in DOMAIN node.fields =>
          Outcome(below[own][node.fields[h]][other.fields[h]][pos], sets[h], pos + Len(pieces[j]), names)
    <3> SUFFICES ASSUME h \in DOMAIN node.fields
                 PROVE  Outcome(below[own][node.fields[h]][other.fields[h]][pos], sets[h], pos + Len(pieces[j]), names)
      OBVIOUS
    <3>1. Outcome(below[own][m[x]][n[y]][pos], coerced[x][y][f[h]], pos + Len(bytes[y][f[h]]), names)
      BY <1>1, <1>9, <2>2, <2>3, <2>4 DEF ReadsBelow
    <3>2. QED  BY <2>2, <2>3, <2>4, <3>1
  <2>8. QED  BY <2>6, <2>7, Zenon DEF h
<1>10. FieldsHeld(b, R, below, own, node, other, their, pieces, sets, names)
  BY <1>8, <1>9, Zenon DEF FieldsHeld
<1>11. Outcome(Shaped(DecodeFields(R, below, own, node, other, at), "dict"), {Dict(g) : g \in All(sets)},
               at + Len(FlattenSeq(pieces)), names)
  <2>1. Holds(b, at, FlattenSeq(pieces))
    BY <1>5
  <2>2. QED  BY <1>2, <1>3, <1>4, <1>7, <1>10, <2>1, RecordOutcome, Zenon
<1>12. QED  BY <1>5, <1>11, Zenon DEF sets, mine, sent

(* The tag h of a variant, with its value u *)
VariantAsked(Q, S, m, sh, U, n, fits, bytes, alike, o, p, h, u, node, other, code) ==
  /\ IsHeap(sh) /\ p \in DOMAIN sh /\ HasFields(sh[p]) /\ other.con = "variant"
  /\ FieldsMirror(node, Q[o], S, m) /\ FieldsMirror(other, sh[p], U, n)
  /\ h \in DOMAIN sh[p].fields /\ u \in Values /\ fits[sh[p].fields[h]][u]
  /\ h \in DOMAIN Q[o].fields => alike[Q[o].fields[h]][sh[p].fields[h]][u]
  /\ code = EncodeU(Place(sh[p], h) - 1) \o bytes[sh[p].fields[h]][u]

(* A variant is read, if its alternatives are. *)
LEMMA TagOutcome ==
  ASSUME NEW b, NEW below, NEW own, NEW R, NEW Q, NEW S, NEW m, NEW W, NEW sh, NEW U, NEW n,
         NEW fits, NEW bytes, NEW alike, NEW coerced, NEW names,
         Reading(b, below, own, R, Q, S, m, W, sh, U, n, fits, bytes, alike, coerced, names),
         NEW o, NEW p, NEW h, NEW u, NEW node, NEW other, NEW code,
         VariantAsked(Q, S, m, sh, U, n, fits, bytes, alike, o, p, h, u, node, other, code),
         NEW at, Holds(b, at, code)
  PROVE  Outcome(ReadVariant(b, below, own, node, other, at), TagSet(coerced, Q[o], sh[p], h, u),
                 at + Len(code), names)
<1> DEFINE x == Q[o].fields[h]
           y == sh[p].fields[h]
           their == SortedHashes(other)
           k == Place(sh[p], h)
           piece == bytes[y][u]
           C == coerced[x][y][u]
<1>1. /\ IsHeap(sh) /\ p \in DOMAIN sh /\ HasFields(sh[p]) /\ other.con = "variant"
      /\ FieldsMirror(node, Q[o], S, m) /\ FieldsMirror(other, sh[p], U, n)
      /\ h \in DOMAIN sh[p].fields /\ u \in Values /\ fits[y][u]
      /\ (h \in DOMAIN Q[o].fields => alike[x][y][u])
      /\ code = EncodeU(k - 1) \o piece
  BY DEF VariantAsked
<1>2. /\ ReadsBelow(b, below, own, S, m, U, n, fits, bytes, alike, coerced, names)
      /\ Writes(sh, fits, bytes) /\ U \subseteq Refs(sh)
  BY DEF Reading, Mirror
<1>3. /\ DOMAIN node.fields = DOMAIN Q[o].fields /\ DOMAIN other.fields = DOMAIN sh[p].fields
      /\ Sorted(DOMAIN other.fields, their) /\ y \in U /\ other.fields[h] = n[y]
      /\ (h \in DOMAIN Q[o].fields => x \in S /\ node.fields[h] = m[x])
  <2> HIDE DEF their, k, piece, C
  <2>1. QED  BY <1>1 DEF FieldsMirror, their
<1>4. their = SortedHashes(sh[p]) /\ their = SortedHashes(other)
  BY <1>3, HashesSame
<1>5. k \in 1 .. Len(their) /\ their[k] = h
  <2>1. /\ Place(sh[p], h) \in 1 .. Len(SortedHashes(sh[p]))
        /\ SortedHashes(sh[p])[Place(sh[p], h)] = h
    BY <1>1, PlaceIs
  <2>2. QED  BY <1>4, <2>1, Zenon
<1>6. piece \in Seq(Bytes)
  BY <1>1, <1>2, <1>3 DEF Writes
<1>7. ASSUME h \in DOMAIN node.fields, NEW pos \in Position, Holds(b, pos, piece)
      PROVE  Outcome(below[own][node.fields[h]][other.fields[h]][pos], C, pos + Len(piece), names)
  <2> HIDE DEF their, k, x, y
  <2>1. x \in S /\ y \in U /\ u \in Values /\ fits[y][u] /\ alike[x][y][u]
        /\ node.fields[h] = m[x] /\ other.fields[h] = n[y]
    BY <1>1, <1>3, <1>7, Zenon DEF x, y
  <2>2. Outcome(below[own][m[x]][n[y]][pos], coerced[x][y][u], pos + Len(bytes[y][u]), names)
    BY <1>2, <1>7, <2>1 DEF ReadsBelow
  <2>3. QED  BY <2>1, <2>2
<1>8. other.con = "variant" /\ h = their[k] /\ code = EncodeU(k - 1) \o piece
  BY <1>1, <1>5, Zenon
<1> HIDE DEF x, y, their, k, piece, C
<1>9. h \in DOMAIN node.fields => \A pos \in Position : Holds(b, pos, piece) =>
        Outcome(below[own][node.fields[h]][other.fields[h]][pos], C, pos + Len(piece), names)
  BY <1>7
<1>10. TagHeld(b, at, below, own, node, other, k, h, piece, code, C, names)
  BY <1>3, <1>4, <1>5, <1>6, <1>8, <1>9 DEF TagHeld
<1>11. Outcome(ReadVariant(b, below, own, node, other, at),
               IF h \notin DOMAIN node.fields THEN {} ELSE {Tagged(h, c) : c \in C}, at + Len(code), names)
  BY <1>10, VariantOutcome, Zenon
<1>12. TagSet(coerced, Q[o], sh[p], h, u) = IF h \notin DOMAIN node.fields THEN {} ELSE {Tagged(h, c) : c \in C}
  BY <1>3 DEF C, x, y, TagSet
<1>13. QED  BY <1>11, <1>12, Zenon

---------------------------------------------------------------------------

(* Reading what was written, a type *)

(* A value of the sender's type t is at position at, and the receiver asks for its type q. *)
PartsAsked(b, Q, S, sh, U, fits, bytes, alike, coerced, q, t, v, at, code, C) ==
  /\ q \in S /\ t \in U /\ v \in Values
  /\ FitsParts(sh, fits, t, v)
  /\ code = EncodeParts(sh, bytes, t, v) /\ Holds(b, at, code)
  /\ AlikeParts(Q, sh, alike, q, t, v)
  /\ C = CoercedParts(Q, sh, coerced, q, t, v)
  /\ GetType(Q, q) = TypeIds.reserved => GetType(sh, t) = TypeIds.reserved

(* It is read, if what is nested in it is. *)
LEMMA PartsOutcome ==
  ASSUME NEW b, NEW below, NEW own, NEW R, NEW Q, NEW S, NEW m, NEW W, NEW sh, NEW U, NEW n,
         NEW fits, NEW bytes, NEW alike, NEW coerced, NEW names,
         Reading(b, below, own, R, Q, S, m, W, sh, U, n, fits, bytes, alike, coerced, names),
         NEW q, NEW t, NEW v, NEW at, NEW code, NEW C,
         PartsAsked(b, Q, S, sh, U, fits, bytes, alike, coerced, q, t, v, at, code, C)
  PROVE  Outcome(DecodeParts(R, W, b, below, own, GetType(R, m[q]), GetType(W, n[t]), at),
                 C, at + Len(code), names)
<1> DEFINE r == GetType(R, m[q])
           o == GetType(Q, q)
           w == GetType(W, n[t])
           p == GetType(sh, t)
           node == R[r]
           other == W[w]
           result == DecodeParts(R, W, b, below, own, r, w, at)
           end == at + Len(code)
<1>0. /\ q \in S /\ t \in U /\ v \in Values
      /\ FitsParts(sh, fits, t, v)
      /\ code = EncodeParts(sh, bytes, t, v) /\ Holds(b, at, code)
      /\ AlikeParts(Q, sh, alike, q, t, v)
      /\ C = CoercedParts(Q, sh, coerced, q, t, v)
      /\ (o = TypeIds.reserved => p = TypeIds.reserved)
  BY DEF PartsAsked
<1>1. /\ Mirror(R, Q, S, m) /\ Mirror(W, sh, U, n) /\ IsHeap(sh)
  BY DEF Reading, Mirror
<1>2. /\ r \in Int /\ o \in Int
      /\ o < 0 => r = o /\ IsPrimitive(o)
      /\ ~ (o < 0) =>
           /\ ~ (r < 0) /\ o \in DOMAIN Q /\ node.con = Q[o].con
           /\ node.con \in {"opt", "vec", "func", "record", "variant", "service"}
           /\ node.con \in {"opt", "vec"} => Q[o].arg \in S /\ node.arg = m[Q[o].arg]
           /\ node.con \in {"record", "variant", "service"} =>
                /\ DOMAIN node.fields = DOMAIN Q[o].fields
                /\ \A h \in DOMAIN node.fields : Q[o].fields[h] \in S /\ node.fields[h] = m[Q[o].fields[h]]
                /\ DOMAIN node.fields \subseteq Nat
                /\ Sorted(DOMAIN node.fields, SortedHashes(node))
  BY <1>0, <1>1, MirrorNode
<1>3. /\ w \in Int /\ p \in Int
      /\ p < 0 => w = p /\ IsPrimitive(p)
      /\ ~ (p < 0) =>
           /\ ~ (w < 0) /\ p \in DOMAIN sh /\ other.con = sh[p].con
           /\ other.con \in {"opt", "vec", "func", "record", "variant", "service"}
           /\ other.con \in {"opt", "vec"} => sh[p].arg \in U /\ other.arg = n[sh[p].arg]
           /\ other.con \in {"record", "variant", "service"} =>
                /\ DOMAIN other.fields = DOMAIN sh[p].fields
                /\ \A h \in DOMAIN other.fields : sh[p].fields[h] \in U /\ other.fields[h] = n[sh[p].fields[h]]
                /\ DOMAIN other.fields \subseteq Nat
                /\ Sorted(DOMAIN other.fields, SortedHashes(other))
  BY <1>0, <1>1, MirrorNode
<1>4. o = GetType(Q, q) /\ p = GetType(sh, t) /\ TypeIds.reserved < 0
  BY DEF TypeIds
<1>5. /\ r < 0 => result = IF PrimitiveMatches(r, w) THEN DecodePrimitive(w, b, at) ELSE Raise(at)
      /\ ~ (r < 0) /\ ~ (w >= 0) => result = Raise(at)
  BY DecodePrimitiveIs
<1> HIDE DEF r, o, w, p, result, end
<1>6. CASE o < 0
  <2> DEFINE made == IF PrimitiveMatches(o, w) THEN DecodePrimitive(w, b, at) ELSE Raise(at)
  <2>1. result = made
    BY <1>2, <1>5, <1>6
  <2>2. p < 0 => FitsPrimitive(p, v)
    BY <1>0, <1>4 DEF FitsParts
  <2>3. p < 0 => code = EncodePrimitive(p, v)
    BY <1>0, <1>4, EncodePrimitiveIs
  <2>4. /\ o = TypeIds.reserved => C = {None}
        /\ o # TypeIds.reserved => C = IF PrimitiveMatches(o, p) THEN {v} ELSE {}
    BY <1>0, <1>4, <1>6, CoercedPrimitiveIs
  <2>5. PrimitiveAsked(b, o, p, w, v, at, code, C)
    BY <1>0, <1>2, <1>3, <1>6, <2>2, <2>3, <2>4 DEF PrimitiveAsked
  <2>6. Outcome(result, C, at + Len(code), names)
    BY <2>1, <2>5, PrimitiveOutcome
  <2>7. QED  BY <2>6 DEF result, r, w
<1>7. CASE ~ (o < 0) /\ p < 0
  <2>1. result = Raise(at)
    BY <1>2, <1>3, <1>5, <1>7
  <2>2. C = {}
    BY <1>0, <1>4, <1>7, CoercedPrimitiveIs
  <2>3. Outcome(Raise(at), {}, end, names)
    BY PlainOutcomes
  <2>4. QED  BY <2>1, <2>2, <2>3 DEF result, r, w, end
<1>8. CASE ~ (o < 0) /\ ~ (p < 0)
  <2>1. Q[o].con = sh[p].con
    BY <1>0, <1>4, <1>8, AlikePrimitiveIs
  <2>2. Paired(Q, sh, q, t, o, p)
    BY <1>4, <1>8, <2>1 DEF Paired
  <2>3. /\ ~ (r < 0) /\ w >= 0 /\ node.con = Q[o].con /\ other.con = sh[p].con
        /\ sh[p].con \in {"opt", "vec", "func", "record", "variant", "service"}
    BY <1>2, <1>3, <1>8
  <2>4. CASE sh[p].con \in {"opt", "vec"}
    <3> DEFINE x == Q[o].arg
               y == sh[p].arg
               s == v[2]
               D == {List(c) : c \in All(ListSets(coerced, x, y, s))}
    <3>1. /\ s \in Seq(Values) /\ (sh[p].con = "opt" => Len(s) <= 1)
          /\ \A i \in DOMAIN s : fits[y][s[i]]
      BY <1>0, <1>4, <1>8, <2>4, FitsShapes
    <3>2. x \in S /\ node.arg = m[x] /\ y \in U /\ other.arg = n[y]
      BY <1>2, <1>3, <1>8, <2>1, <2>3, <2>4
    <3>3. /\ sh[p].con = "vec" /\ GetType(sh, y) = TypeIds.nat8 => GetType(Q, x) = TypeIds.nat8
          /\ \A i \in DOMAIN s : alike[x][y][s[i]]
      <4>1. AlikeParts(Q, sh, alike, q, t, v)
              <=> /\ Q[o].con = "vec" /\ GetType(sh, sh[p].arg) = TypeIds.nat8 => GetType(Q, Q[o].arg) = TypeIds.nat8
                  /\ \A i \in DOMAIN v[2] : alike[Q[o].arg][sh[p].arg][v[2][i]]
        BY <2>1, <2>2, <2>4, AlikeListIs, Zenon
      <4>2. QED  BY <1>0, <2>1, <4>1, Zenon
    <3>4. C = D
      BY <1>0, <2>1, <2>2, <2>4, CoercedListIs
    <3>5. code = EncodeU(Len(s)) \o FlattenSeq(ListPieces(bytes, y, s))
      BY <1>0, <1>4, <1>8, <2>4, EncodeListIs, ZenonT(40)
    <3> HIDE DEF x, y, s, D, node, other
    <3>6. ListAsked(S, m, U, n, fits, bytes, alike, x, y, s, node, other, code)
      BY <3>1, <3>2, <3>3, <3>5 DEF ListAsked
    <3>7. /\ other.con = "vec" /\ (GetType(sh, y) = TypeIds.nat8 => GetType(Q, x) = TypeIds.nat8) =>
               Outcome(ReadVec(b, below, own, node, other, at), D, at + Len(code), names)
          /\ other.con = "opt" /\ Len(s) <= 1 =>
               Outcome(ReadOpt(b, below, own, node, other, at), D, at + Len(code), names)
      BY <1>0, <3>6, ListOutcome DEF D
    <3>8. CASE sh[p].con = "vec"
      <4>1. Outcome(ReadVec(b, below, own, node, other, at), D, at + Len(code), names)
        BY <2>3, <3>3, <3>7, <3>8
      <4>2. result = ReadVec(b, below, own, node, other, at)
        BY <2>1, <2>3, <3>8, DecodeVecIs DEF result, node, other
      <4>3. QED  BY <3>4, <4>1, <4>2, Zenon DEF result, r, w
    <3>9. CASE sh[p].con = "opt"
      <4>1. Outcome(ReadOpt(b, below, own, node, other, at), D, at + Len(code), names)
        BY <2>3, <3>1, <3>7, <3>9
      <4>2. result = ReadOpt(b, below, own, node, other, at)
        BY <2>1, <2>3, <3>9, DecodeOptionIs DEF result, node, other
      <4>3. QED  BY <3>4, <4>1, <4>2, Zenon DEF result, r, w
    <3>10. QED  BY <2>4, <3>8, <3>9
  <2>5. ASSUME sh[p].con \in {"record", "variant"}
        PROVE  /\ FieldsMirror(node, Q[o], S, m) /\ FieldsMirror(other, sh[p], U, n)
               /\ p \in DOMAIN sh /\ HasFields(sh[p])
    <3>1. node.con \in {"record", "variant", "service"} /\ other.con \in {"record", "variant", "service"}
      BY <2>1, <2>3, <2>5
    <3>2. FieldsMirror(node, Q[o], S, m)
      BY <1>2, <1>8, <3>1 DEF FieldsMirror
    <3>3. FieldsMirror(other, sh[p], U, n)
      BY <1>3, <1>8, <3>1 DEF FieldsMirror
    <3>4. QED  BY <1>3, <1>8, <2>5, <3>2, <3>3 DEF HasFields
  <2>6. CASE sh[p].con = "record"
    <3> DEFINE f == v[2]
               D == {Dict(g) : g \in All(RecordSets(Q, coerced, Q[o], sh[p], f))}
               fields == DecodeFields(R, below, own, node, other, at)
    <3>1. f \in [DOMAIN sh[p].fields -> Values] /\ \A h \in DOMAIN sh[p].fields : fits[sh[p].fields[h]][f[h]]
      BY <1>0, <1>4, <1>8, <2>6, FitsShapes
    <3>2. \A h \in DOMAIN Q[o].fields \cap DOMAIN sh[p].fields : alike[Q[o].fields[h]][sh[p].fields[h]][f[h]]
      BY <1>0, <2>1, <2>2, <2>6, AlikeRecordIs, Zenon
    <3>3. C = D
      BY <1>0, <2>1, <2>2, <2>6, CoercedRecordIs
    <3>4. code = FlattenSeq(RecordPieces(bytes, sh[p], f))
      BY <1>0, <1>4, <1>8, <2>6, EncodeRecordIs
    <3>5. result = Shaped(fields, "dict")
      BY <2>1, <2>3, <2>6, DecodeRecordIs DEF result
    <3> HIDE DEF f, node, other
    <3>6. RecordAsked(Q, S, m, sh, U, n, fits, alike, o, p, f, node, other)
      BY <2>5, <2>6, <3>1, <3>2, Zenon DEF RecordAsked
    <3>7. Outcome(Shaped(fields, "dict"), D, at + Len(code), names)
      BY <1>0, <3>4, <3>6, FieldsOutcome, Zenon
    <3> HIDE DEF D, fields
    <3>8. QED  BY <3>3, <3>5, <3>7, Zenon DEF result, r, w
  <2>7. CASE sh[p].con = "variant"
    <3> DEFINE h == v[2]
               u == v[3]
               D == TagSet(coerced, Q[o], sh[p], h, u)
    <3>1. h \in DOMAIN sh[p].fields /\ u \in Values /\ fits[sh[p].fields[h]][u]
      BY <1>0, <1>4, <1>8, <2>7, FitsShapes
    <3>2. h \in DOMAIN Q[o].fields => alike[Q[o].fields[h]][sh[p].fields[h]][u]
      BY <1>0, <2>1, <2>2, <2>7, AlikeVariantIs, Zenon
    <3>3. C = D
      BY <1>0, <2>1, <2>2, <2>7, CoercedVariantIs
    <3>4. code = EncodeU(Place(sh[p], h) - 1) \o bytes[sh[p].fields[h]][u]
      BY <1>0, <1>4, <1>8, <2>7, EncodeVariantIs, ZenonT(40)
    <3>5. result = ReadVariant(b, below, own, node, other, at)
      BY <2>1, <2>3, <2>7, DecodeVariantIs DEF result
    <3>6. other.con = "variant"
      BY <2>3, <2>7
    <3> HIDE DEF h, u, node, other
    <3>7. VariantAsked(Q, S, m, sh, U, n, fits, bytes, alike, o, p, h, u, node, other, code)
      BY <1>1, <2>5, <2>7, <3>1, <3>2, <3>4, <3>6 DEF VariantAsked
    <3>8. Outcome(ReadVariant(b, below, own, node, other, at), D, at + Len(code), names)
      BY <1>0, <3>7, TagOutcome
    <3> HIDE DEF D
    <3>9. QED  BY <3>3, <3>5, <3>8, Zenon DEF result, r, w
  <2>8. CASE sh[p].con \in {"service", "func"}
    <3>1. v = None \/ (v = Ref(v[2]) /\ v[2] \in Seq(Bytes))
      BY <1>0, <1>4, <1>8, <2>8, FitsShapes
    <3>2. C = {v}
      BY <1>0, <2>1, <2>2, <2>8, CoercedReferenceIs
    <3>3. code = IF sh[p].con = "service" THEN EncodeService(v) ELSE EncodeFunc(v)
      BY <1>0, <1>4, <1>8, <2>8, EncodeReferenceIs
    <3>4. /\ sh[p].con = "service" => result = DecodeService(b, at)
          /\ sh[p].con = "func" => result = DecodeFunc(b, at)
      BY <2>1, <2>3, DecodeReferenceIs DEF result
    <3>5. result = Got(v, at + Len(code))
      <4>1. CASE sh[p].con = "service"
        BY <1>0, <3>1, <3>3, <3>4, <4>1, ServiceHeld
      <4>2. CASE sh[p].con = "func"
        BY <1>0, <3>1, <3>3, <3>4, <4>2, FuncHeld
      <4>3. QED  BY <2>8, <4>1, <4>2
    <3>6. Outcome(Got(v, at + Len(code)), {v}, at + Len(code), names)
      BY PlainOutcomes
    <3>7. QED  BY <3>2, <3>5, <3>6, Zenon DEF result, r, w
  <2>9. QED  BY <2>3, <2>4, <2>6, <2>7, <2>8
<1>9. QED  BY <1>6, <1>7, <1>8

(* A value of the sender's type t is at position at, and the receiver reads it as its type q. *)
TypeAsked(b, Q, S, sh, U, fits, bytes, alike, coerced, q, t, v, at, code, C) ==
  /\ q \in S /\ t \in U /\ v \in Values
  /\ FitsParts(sh, fits, t, v)
  /\ code = EncodeParts(sh, bytes, t, v) /\ Holds(b, at, code)
  /\ AlikeParts(Q, sh, alike, q, t, v)
  /\ C = CoercedParts(Q, sh, coerced, q, t, v)

(* What was sent is passed when it is read by its own type. *)
LEMMA OwnPasses ==
  ASSUME NEW b, NEW below, NEW W, NEW sh, NEW U, NEW n, NEW fits, NEW bytes, NEW alike, NEW coerced, NEW names,
         Reading(b, below, TRUE, W, sh, U, n, W, sh, U, n, fits, bytes, alike, coerced, names),
         Agrees(sh, fits, alike, coerced),
         NEW t \in U, NEW v \in Values, FitsParts(sh, fits, t, v),
         NEW at, NEW code, code = EncodeParts(sh, bytes, t, v), Holds(b, at, code)
  PROVE  Passes(DecodeParts(W, W, b, below, TRUE, GetType(W, n[t]), GetType(W, n[t]), at),
                at + Len(code), names)
<1> DEFINE C == CoercedParts(sh, sh, coerced, t, t, v)
           read == DecodeParts(W, W, b, below, TRUE, GetType(W, n[t]), GetType(W, n[t]), at)
<1>1. IsHeap(sh) /\ t \in Refs(sh)
  BY DEF Reading, Mirror
<1>2. AlikeParts(sh, sh, alike, t, t, v) /\ C # {}
  BY <1>1, PartsAgree
<1> HIDE DEF C
<1>3. PartsAsked(b, sh, U, sh, U, fits, bytes, alike, coerced, t, t, v, at, code, C)
  BY <1>2 DEF PartsAsked, C
<1>4. Outcome(read, C, at + Len(code), names)
  BY <1>3, PartsOutcome, Zenon
<1> HIDE DEF read
<1>5. Passes(read, at + Len(code), names)
  BY <1>2, <1>4 DEF Outcome, Passes
<1>6. QED  BY <1>5, Zenon DEF read

(* decodeValue, if what is nested is read: by the receiver's types and by the types of the wire. *)
LEMMA TypeOutcome ==
  ASSUME NEW b, NEW below, NEW own, NEW lh, NEW R, NEW Q, NEW S, NEW m, NEW W, NEW sh, NEW U, NEW n,
         NEW fits, NEW bytes, NEW alike, NEW coerced, NEW names,
         Reading(b, below, own, R, Q, S, m, W, sh, U, n, fits, bytes, alike, coerced, names),
         R = IF own THEN W ELSE lh,
         NEW alikeU, NEW coercedU,
         Reading(b, below, TRUE, W, sh, U, n, W, sh, U, n, fits, bytes, alikeU, coercedU, names),
         Agrees(sh, fits, alikeU, coercedU),
         NEW q, NEW t, NEW v, NEW at, NEW code, NEW C,
         TypeAsked(b, Q, S, sh, U, fits, bytes, alike, coerced, q, t, v, at, code, C),
         names => HasName(W, n[t])
  PROVE  Outcome(DecodeType(lh, W, b, below, own, m[q], n[t], at), C, at + Len(code), names)
<1> DEFINE mine == GetType(R, m[q])
           theirs == GetType(W, n[t])
           sent == DecodeParts(W, W, b, below, TRUE, theirs, theirs, at)
           parts == DecodeParts(R, W, b, below, own, mine, theirs, at)
           dropped == Got(None, sent.at)
           result == DecodeType(lh, W, b, below, own, m[q], n[t], at)
           o == GetType(Q, q)
           end == at + Len(code)
<1>0. /\ q \in S /\ t \in U /\ v \in Values
      /\ FitsParts(sh, fits, t, v)
      /\ code = EncodeParts(sh, bytes, t, v) /\ Holds(b, at, code)
      /\ AlikeParts(Q, sh, alike, q, t, v)
      /\ C = CoercedParts(Q, sh, coerced, q, t, v)
  BY DEF TypeAsked
<1>1. result = IF mine # TypeIds.reserved THEN parts
               ELSE IF ~ HasName(W, n[t]) THEN Raise(at) ELSE IF sent.ok THEN dropped ELSE sent
  BY DEF DecodeType
<1>2. mine = TypeIds.reserved <=> o = TypeIds.reserved
  <2>1. Mirror(R, Q, S, m)
    BY DEF Reading
  <2>2. TypeIds.reserved < 0
    BY DEF TypeIds
  <2>3. (o < 0 => mine = o) /\ (~ (o < 0) => ~ (mine < 0)) /\ mine \in Int /\ o \in Int
    BY <1>0, <2>1, MirrorNode
  <2> HIDE DEF mine, o
  <2>4. QED  BY <2>2, <2>3
<1>3. CASE mine # TypeIds.reserved
  <2>1. PartsAsked(b, Q, S, sh, U, fits, bytes, alike, coerced, q, t, v, at, code, C)
    BY <1>0, <1>2, <1>3 DEF PartsAsked
  <2>2. Outcome(parts, C, end, names)
    BY <2>1, PartsOutcome
  <2> HIDE DEF parts, result, end
  <2>3. Outcome(result, C, end, names)
    BY <1>1, <1>3, <2>2
  <2>4. QED  BY <2>3 DEF result, end
<1>4. CASE mine = TypeIds.reserved
  <2>1. C = {None}
    BY <1>0, <1>2, <1>4, CoercedPrimitiveIs
  <2>2. Passes(sent, end, names)
    BY <1>0, OwnPasses, Zenon
  <2>3. dropped.ok = TRUE /\ dropped.val = None /\ dropped.at = sent.at
    <3> HIDE DEF sent
    <3>1. QED  BY GotIs
  <2>4. Raise(at).ok = FALSE
    BY DEF Raise
  <2> HIDE DEF sent, parts, dropped, result, end, mine
  <2>5. Outcome(result, C, end, names)
    BY <1>1, <1>4, <2>1, <2>2, <2>3, <2>4, Zenon DEF Outcome, Passes
  <2>6. QED  BY <2>5 DEF result, end
<1>5. QED  BY <1>3, <1>4

---------------------------------------------------------------------------

(* Reading what was written, a message *)

(* The receiver's types and those of the wire are mirrors of types of two heaps. *)
Mirrors(R, Q, S, m, W, sh, U, n) ==
  /\ Mirror(R, Q, S, m) /\ Mirror(W, sh, U, n)
  /\ \A y \in U : n[y] = TypeIds.nat8 <=> GetType(sh, y) = TypeIds.nat8

(* What nests less deep than d is read. *)
ReadsTo(d, b, lh, W, own, Q, S, m, sh, U, n, names) ==
  ReadsBelow(b, Decoder(lh, W, b)[d], own, S, m, U, n,
             Fitting(sh)[d], Encoder(sh)[d], Likeness(Q, sh)[d], Coercion(Q, sh)[d], names)

(* The element of a blob is what it is, on both sides. *)
LEMMA BlobElement ==
  ASSUME NEW Q, NEW sh, NEW q \in Int, NEW t \in Int, NEW v \in Values, NEW d \in 1 .. MaxDepth,
         GetType(Q, q) = TypeIds.nat8, GetType(sh, t) = TypeIds.nat8
  PROVE  Coercion(Q, sh)[d][q][t][v] = {v}
<1>1. Coerces(Q, sh, q, t, v)
  BY CoercionLevels
<1>2. Coercion(Q, sh)[d][q][t][v] = CoercedParts(Q, sh, Coercion(Q, sh)[d - 1], q, t, v)
  BY <1>1 DEF Coerces
<1> DEFINE below == Coercion(Q, sh)[d - 1]
           p == TypeIds.nat8
<1>3. p # TypeIds.reserved /\ p < 0 /\ PrimitiveMatches(p, p)
  BY DEF TypeIds, PrimitiveMatches
<1>4. p = GetType(Q, q) /\ p = GetType(sh, t)
  OBVIOUS
<1> HIDE DEF below, p
<1>5. CoercedParts(Q, sh, below, q, t, v) = IF PrimitiveMatches(p, p) THEN {v} ELSE {}
  BY <1>3, <1>4, CoercedPrimitiveIs
<1>6. QED  BY <1>2, <1>3, <1>5 DEF below

(* What is read by its own type is passed, and so are the bytes of blobs. *)
LEMMA LevelReading ==
  ASSUME NEW b, NEW lh, NEW own, NEW R, NEW Q, NEW S, NEW m, NEW W, NEW sh, NEW U, NEW n, NEW names,
         Mirrors(R, Q, S, m, W, sh, U, n), NEW d \in 0 .. MaxDepth,
         ReadsTo(d, b, lh, W, own, Q, S, m, sh, U, n, names),
         ReadsTo(d, b, lh, W, TRUE, sh, U, n, sh, U, n, names)
  PROVE  Reading(b, Decoder(lh, W, b)[d], own, R, Q, S, m, W, sh, U, n,
                 Fitting(sh)[d], Encoder(sh)[d], Likeness(Q, sh)[d], Coercion(Q, sh)[d], names)
<1> DEFINE below == Decoder(lh, W, b)[d]
           fits == Fitting(sh)[d]
           bytes == Encoder(sh)[d]
           alike == Likeness(Q, sh)[d]
           coerced == Coercion(Q, sh)[d]
           alikeU == Likeness(sh, sh)[d]
           coercedU == Coercion(sh, sh)[d]
<1>1. IsHeap(Q) /\ IsHeap(sh) /\ S \subseteq Refs(Q) /\ U \subseteq Refs(sh)
      /\ Mirror(R, Q, S, m) /\ Mirror(W, sh, U, n)
      /\ (\A y \in U : n[y] = TypeIds.nat8 <=> GetType(sh, y) = TypeIds.nat8)
  BY DEF Mirrors, Mirror
<1>2. (\A q \in Refs(Q) : q \in Int) /\ (\A t \in Refs(sh) : t \in Int)
  <2>1. DOMAIN Q \subseteq Nat /\ DOMAIN sh \subseteq Nat
    BY <1>1 DEF IsHeap
  <2>2. QED  BY <2>1, RefNumbers
<1>3. Writes(sh, fits, bytes) /\ Agrees(sh, fits, alikeU, coercedU)
  BY <1>1, EncoderWrites, LevelsAgree
<1>4. /\ ReadsBelow(b, below, own, S, m, U, n, fits, bytes, alike, coerced, names)
      /\ ReadsBelow(b, below, TRUE, U, n, U, n, fits, bytes, alikeU, coercedU, names)
  BY Zenon DEF ReadsTo
<1>5. d = 0 => \A t \in U, v \in Values : ~ fits[t][v]
  BY <1>1, <1>2, FittingLevels, Zenon
<1>6. \A q \in S, t \in U, v \in Values :
        GetType(Q, q) = TypeIds.nat8 /\ GetType(sh, t) = TypeIds.nat8 /\ fits[t][v] =>
          coerced[q][t][v] = {v} /\ coercedU[t][t][v] = {v}
  <2> SUFFICES ASSUME NEW q \in S, NEW t \in U, NEW v \in Values,
                      GetType(Q, q) = TypeIds.nat8, GetType(sh, t) = TypeIds.nat8, fits[t][v]
               PROVE  coerced[q][t][v] = {v} /\ coercedU[t][t][v] = {v}
    OBVIOUS
  <2>1. d # 0
    BY <1>5
  <2>2. d \in 1 .. MaxDepth /\ q \in Int /\ t \in Int
    BY <1>1, <1>2, <2>1, DepthAssumption
  <2>3. QED  BY <2>2, BlobElement
<1> HIDE DEF below, fits, bytes, alike, coerced, alikeU, coercedU
<1>7. ASSUME NEW t \in U, NEW v \in Values, NEW at \in Position, fits[t][v], Holds(b, at, bytes[t][v])
      PROVE  Outcome(below[TRUE][n[t]][n[t]][at], coercedU[t][t][v], at + Len(bytes[t][v]), names)
             /\ coercedU[t][t][v] # {}
  <2>1. alikeU[t][t][v] /\ coercedU[t][t][v] # {}
    BY <1>1, <1>3, <1>7 DEF Agrees
  <2>2. QED  BY <1>4, <1>7, <2>1, Zenon DEF ReadsBelow
<1>8. PassesBelow(b, below, U, n, fits, bytes, names)
  <2> SUFFICES ASSUME NEW t \in U, NEW v \in Values, NEW at \in Position, fits[t][v], Holds(b, at, bytes[t][v])
               PROVE  Passes(below[TRUE][n[t]][n[t]][at], at + Len(bytes[t][v]), names)
    BY Zenon DEF PassesBelow
  <2>1. QED  BY <1>7, Zenon DEF Outcome, Passes
<1>9. BlobsBelow(b, below, Q, S, U, n, fits, bytes, coerced, names)
  <2> SUFFICES ASSUME NEW q \in S, NEW t \in U, NEW v \in Values, NEW at \in Position,
                      GetType(Q, q) = TypeIds.nat8, n[t] = TypeIds.nat8, fits[t][v], Holds(b, at, bytes[t][v])
               PROVE  Outcome(below[TRUE][n[t]][n[t]][at], coerced[q][t][v], at + Len(bytes[t][v]), names)
    BY Zenon DEF BlobsBelow
  <2>1. coerced[q][t][v] = coercedU[t][t][v]
    BY <1>1, <1>6, Zenon
  <2>2. Outcome(below[TRUE][n[t]][n[t]][at], coercedU[t][t][v], at + Len(bytes[t][v]), names)
    BY <1>7, Zenon
  <2>3. QED  BY <2>1, <2>2, Zenon
<1>10. Reading(b, below, own, R, Q, S, m, W, sh, U, n, fits, bytes, alike, coerced, names)
  BY <1>1, <1>3, <1>4, <1>8, <1>9 DEF Reading
<1>11. QED  BY <1>10 DEF below, fits, bytes, alike, coerced

(* The next level is read. *)
LEMMA LevelGrows ==
  ASSUME NEW b, NEW lh, NEW own \in BOOLEAN, NEW R, NEW Q, NEW S, NEW m, NEW W, NEW sh, NEW U, NEW n, NEW names,
         Mirrors(R, Q, S, m, W, sh, U, n), R = IF own THEN W ELSE lh,
         names => \A x \in DOMAIN W : HasName(W, x), NEW d \in 1 .. MaxDepth,
         ReadsTo(d - 1, b, lh, W, own, Q, S, m, sh, U, n, names),
         ReadsTo(d - 1, b, lh, W, TRUE, sh, U, n, sh, U, n, names)
  PROVE  ReadsTo(d, b, lh, W, own, Q, S, m, sh, U, n, names)
<1> DEFINE below == Decoder(lh, W, b)[d - 1]
           fits == Fitting(sh)[d - 1]
           bytes == Encoder(sh)[d - 1]
           alike == Likeness(Q, sh)[d - 1]
           coerced == Coercion(Q, sh)[d - 1]
           alikeU == Likeness(sh, sh)[d - 1]
           coercedU == Coercion(sh, sh)[d - 1]
<1>1. d - 1 \in 0 .. MaxDepth /\ MaxDepth \in Nat
  BY DepthAssumption
<1>2. Mirrors(W, sh, U, n, W, sh, U, n)
  BY DEF Mirrors
<1>3. Reading(b, below, own, R, Q, S, m, W, sh, U, n, fits, bytes, alike, coerced, names)
  BY <1>1, LevelReading, Zenon
<1>4. Reading(b, below, TRUE, W, sh, U, n, W, sh, U, n, fits, bytes, alikeU, coercedU, names)
  BY <1>1, <1>2, LevelReading, Zenon
<1>5. IsHeap(Q) /\ IsHeap(sh) /\ S \subseteq Refs(Q) /\ U \subseteq Refs(sh)
      /\ (\A q \in S : m[q] \in Int)
      /\ (\A y \in U : n[y] \in Int /\ (n[y] >= 0 => n[y] \in DOMAIN W))
  BY DEF Mirrors, Mirror
<1>6. Agrees(sh, fits, alikeU, coercedU)
  BY <1>1, <1>5, LevelsAgree
<1>7. (\A q \in Refs(Q) : q \in Int) /\ (\A t \in Refs(sh) : t \in Int)
  <2>1. DOMAIN Q \subseteq Nat /\ DOMAIN sh \subseteq Nat
    BY <1>5 DEF IsHeap
  <2>2. QED  BY <2>1, RefNumbers
<1>8. ASSUME NEW q \in S, NEW t \in U, NEW v \in Values, NEW at \in Position,
             Fitting(sh)[d][t][v], Holds(b, at, Encoder(sh)[d][t][v]), Likeness(Q, sh)[d][q][t][v]
      PROVE  Outcome(Decoder(lh, W, b)[d][own][m[q]][n[t]][at], Coercion(Q, sh)[d][q][t][v],
                     at + Len(Encoder(sh)[d][t][v]), names)
  <2> DEFINE code == Encoder(sh)[d][t][v]
             C == Coercion(Q, sh)[d][q][t][v]
  <2>1. q \in Int /\ t \in Int /\ m[q] \in Int /\ n[t] \in Int
    BY <1>5, <1>7
  <2>2. Fitting(sh)[d][t][v] = FitsParts(sh, fits, t, v)
    BY <2>1, FittingLevels, Zenon
  <2>3. code = EncodeParts(sh, bytes, t, v)
    BY <2>1, EncoderLevels, Zenon
  <2>4. Likeness(Q, sh)[d][q][t][v] = AlikeParts(Q, sh, alike, q, t, v)
    <3>1. Resembles(Q, sh, q, t, v)
      BY <2>1, LikenessLevels
    <3>2. QED  BY <3>1 DEF Resembles
  <2>5. C = CoercedParts(Q, sh, coerced, q, t, v)
    <3>1. Coerces(Q, sh, q, t, v)
      BY <2>1, CoercionLevels
    <3>2. QED  BY <3>1 DEF Coerces
  <2>6. Decoder(lh, W, b)[d][own][m[q]][n[t]][at] = DecodeType(lh, W, b, below, own, m[q], n[t], at)
    <3>1. Deepens(lh, W, b, own, m[q], n[t], at)
      BY <2>1, DecoderLevels
    <3>2. QED  BY <3>1 DEF Deepens
  <2> HIDE DEF code, C, below, fits, bytes, alike, coerced, alikeU, coercedU
  <2>7. TypeAsked(b, Q, S, sh, U, fits, bytes, alike, coerced, q, t, v, at, code, C)
    BY <1>8, <2>2, <2>3, <2>4, <2>5 DEF TypeAsked, code
  <2>8. names => HasName(W, n[t])
    <3>1. CASE n[t] \in DOMAIN W
      BY <3>1
    <3>2. CASE n[t] \notin DOMAIN W
      BY <3>2 DEF HasName
    <3>3. QED  BY <3>1, <3>2
  <2>9. Outcome(DecodeType(lh, W, b, below, own, m[q], n[t], at), C, at + Len(code), names)
    BY <1>3, <1>4, <1>6, <2>7, <2>8, TypeOutcome, Zenon
  <2>10. QED  BY <2>6, <2>9 DEF code, C
<1>9. QED  BY <1>8 DEF ReadsTo, ReadsBelow

(* Everything is read. *)
LEMMA DecoderReads ==
  ASSUME NEW b, NEW R, NEW Q, NEW S, NEW m, NEW W, NEW sh, NEW U, NEW n, NEW names,
         Mirrors(R, Q, S, m, W, sh, U, n), names => \A x \in DOMAIN W : HasName(W, x)
  PROVE  ReadsTo(MaxDepth, b, R, W, FALSE, Q, S, m, sh, U, n, names)
<1> DEFINE T == {d \in 0 .. MaxDepth : /\ ReadsTo(d, b, R, W, FALSE, Q, S, m, sh, U, n, names)
                                       /\ ReadsTo(d, b, R, W, TRUE, sh, U, n, sh, U, n, names)}
<1>1. MaxDepth \in Nat
  BY DepthAssumption
<1>2. 0 \in T
  <2>1. \A t \in U, v \in Values : ~ Fitting(sh)[0][t][v]
    <3>1. DOMAIN sh \subseteq Nat /\ U \subseteq Refs(sh)
      BY DEF Mirrors, Mirror, IsHeap
    <3>2. \A t \in U : t \in Int
      BY <3>1, RefNumbers
    <3>3. QED  BY <3>2, FittingLevels, Zenon
  <2>2. ReadsTo(0, b, R, W, FALSE, Q, S, m, sh, U, n, names)
    BY <2>1 DEF ReadsTo, ReadsBelow
  <2>3. ReadsTo(0, b, R, W, TRUE, sh, U, n, sh, U, n, names)
    BY <2>1 DEF ReadsTo, ReadsBelow
  <2>4. 0 \in 0 .. MaxDepth
    BY <1>1
  <2>5. QED  BY <2>2, <2>3, <2>4, Zenon
<1>3. ASSUME NEW d \in 1 .. MaxDepth, d - 1 \in T PROVE d \in T
  <2>1. /\ ReadsTo(d - 1, b, R, W, FALSE, Q, S, m, sh, U, n, names)
        /\ ReadsTo(d - 1, b, R, W, TRUE, sh, U, n, sh, U, n, names)
    BY <1>3, Zenon
  <2>2. Mirrors(W, sh, U, n, W, sh, U, n)
    BY DEF Mirrors
  <2>3. R = (IF FALSE THEN W ELSE R) /\ W = (IF TRUE THEN W ELSE R)
    OBVIOUS
  <2>4. ReadsTo(d, b, R, W, FALSE, Q, S, m, sh, U, n, names)
    BY <2>1, <2>3, LevelGrows, Zenon
  <2>5. ReadsTo(d, b, R, W, TRUE, sh, U, n, sh, U, n, names)
    BY <2>1, <2>2, <2>3, LevelGrows, Zenon
  <2>6. d \in 0 .. MaxDepth
    OBVIOUS
  <2>7. QED  BY <2>4, <2>5, <2>6, Zenon
<1> HIDE DEF T
<1>4. \A d \in 0 .. MaxDepth : d \in T
  BY <1>1, <1>2, <1>3, BoundedInduction
<1>5. MaxDepth \in 0 .. MaxDepth
  BY <1>1
<1>6. QED  BY <1>4, <1>5, Zenon DEF T

(* What an argument can be read as, and whether the constructors agree on it *)
ArgSets(Q, my, sh, their, vals) ==
  [i \in 1 .. Len(my) |-> Coercion(Q, sh)[MaxDepth][my[i]][their[i]][vals[i]]]
ArgsAlike(Q, my, sh, their, vals, k) ==
  \A j \in 1 .. k : Likeness(Q, sh)[MaxDepth][my[j]][their[j]][vals[j]]

(* The values of some types their are at their places; they are read as the types my. *)
ArgsAsked(b, mine, Q, S, m, my, sent, sh, U, n, their, vals, place, names) ==
  /\ Receives(mine, Q, S, m, my) /\ Receives(sent, sh, U, n, their)
  /\ Mirrors(mine.heap, Q, S, m, sent.heap, sh, U, n)
  /\ Len(my) <= Len(their) /\ vals \in Seq(Values) /\ Len(vals) = Len(their)
  /\ \A i \in 1 .. Len(their) : Fitting(sh)[MaxDepth][their[i]][vals[i]]
  /\ place[0] \in Position
  /\ \A i \in 1 .. Len(their) :
       /\ place[i] = place[i - 1] + Len(Encoder(sh)[MaxDepth][their[i]][vals[i]])
       /\ Holds(b, place[i - 1], Encoder(sh)[MaxDepth][their[i]][vals[i]])
  /\ names => /\ \A x \in DOMAIN sent.heap : HasName(sent.heap, x)
              /\ \A i \in 1 .. Len(my) : HasName(mine.heap, mine.types[i])

(* One argument is read. *)
LEMMA ArgOutcome ==
  ASSUME NEW b, NEW mine, NEW Q, NEW S, NEW m, NEW my, NEW sent, NEW sh, NEW U, NEW n, NEW their,
         NEW vals, NEW place, NEW names,
         ArgsAsked(b, mine, Q, S, m, my, sent, sh, U, n, their, vals, place, names),
         NEW i \in 1 .. Len(my), Likeness(Q, sh)[MaxDepth][my[i]][their[i]][vals[i]]
  PROVE  Outcome(DecodeValue(mine.heap, mine.types[i], sent.heap, sent.types[i], b, place[i - 1]),
                 ArgSets(Q, my, sh, their, vals)[i], place[i], names)
<1>1. i \in 1 .. Len(their) /\ my \in Seq(S) /\ their \in Seq(U)
  BY DEF ArgsAsked, Receives
<1>2. my[i] \in S /\ mine.types[i] = m[my[i]]
  BY <1>1 DEF ArgsAsked, Receives
<1>3. their[i] \in U /\ sent.types[i] = n[their[i]]
  BY <1>1 DEF ArgsAsked, Receives
<1>4. vals[i] \in Values
  BY <1>1 DEF ArgsAsked
<1> DEFINE q == my[i]
           t == their[i]
           v == vals[i]
           at == place[i - 1]
<1>5. /\ Fitting(sh)[MaxDepth][t][v] /\ Holds(b, at, Encoder(sh)[MaxDepth][t][v])
      /\ place[i] = at + Len(Encoder(sh)[MaxDepth][t][v])
  BY <1>1 DEF ArgsAsked
<1>6. at \in Position
  BY <1>5 DEF Holds
<1>7. ReadsTo(MaxDepth, b, mine.heap, sent.heap, FALSE, Q, S, m, sh, U, n, names)
  <2>1. names => \A x \in DOMAIN sent.heap : HasName(sent.heap, x)
    BY DEF ArgsAsked
  <2>2. Mirrors(mine.heap, Q, S, m, sent.heap, sh, U, n)
    BY DEF ArgsAsked
  <2>3. QED  BY <2>1, <2>2, DecoderReads, Zenon
<1>8. ArgSets(Q, my, sh, their, vals)[i] = Coercion(Q, sh)[MaxDepth][q][t][v]
  BY DEF ArgSets
<1>9. Likeness(Q, sh)[MaxDepth][q][t][v]
  OBVIOUS
<1> HIDE DEF q, t, v, at
<1>10. Outcome(Decoder(mine.heap, sent.heap, b)[MaxDepth][FALSE][m[q]][n[t]][at],
               Coercion(Q, sh)[MaxDepth][q][t][v], at + Len(Encoder(sh)[MaxDepth][t][v]), names)
  <2>1. q \in S /\ t \in U /\ v \in Values
    BY <1>2, <1>3, <1>4 DEF q, t, v
  <2>2. QED  BY <1>5, <1>6, <1>7, <1>9, <2>1, Zenon DEF ReadsTo, ReadsBelow
<1>11. mine.types[i] = m[q] /\ sent.types[i] = n[t]
  BY <1>2, <1>3 DEF q, t
<1>12. QED  BY <1>5, <1>8, <1>10, <1>11, Zenon DEF DecodeValue, at

(* The arguments are read. *)
LEMMA ArgsOutcome ==
  ASSUME NEW b, NEW mine, NEW Q, NEW S, NEW m, NEW my, NEW sent, NEW sh, NEW U, NEW n, NEW their,
         NEW vals, NEW place, NEW names,
         ArgsAsked(b, mine, Q, S, m, my, sent, sh, U, n, their, vals, place, names),
         NEW result, result = DecodeArgs(mine, sent, b, place[0]),
         NEW sets, sets = ArgSets(Q, my, sh, their, vals)
  PROVE  /\ result.ok => \A i \in 1 .. Len(my) : ArgsAlike(Q, my, sh, their, vals, i) => sets[i] # {}
         /\ ArgsAlike(Q, my, sh, their, vals, Len(my)) => ListSoFar(result, sets, Len(my), place[Len(my)], names)
<1> DEFINE k == Len(my)
           alike(i) == ArgsAlike(Q, my, sh, their, vals, i)
<1>1. k \in Nat /\ Len(mine.types) = k
  BY DEF ArgsAsked, Receives
<1>2. PICK f : /\ f[0] = Got(<< >>, place[0])
               /\ \A d \in 1 .. k : f[d] = DecodeArg(mine, sent, b, d, f[d - 1])
               /\ DecodeArgs(mine, sent, b, place[0]) = f[k]
  <2>1. \E f : DecodesArgs(mine, sent, b, place[0], f)
    BY <1>1, DecodeArgsRuns
  <2>2. QED  BY <1>1, <2>1 DEF DecodesArgs
<1> HIDE DEF k
<1> DEFINE T == {i \in 0 .. k : /\ f[i].ok => \A j \in 1 .. i : alike(j) => sets[j] # {}
                                /\ alike(i) => ListSoFar(f[i], sets, i, place[i], names)}
<1>3. 0 \in T
  <2>1. f[0].ok = TRUE /\ f[0].val = << >> /\ f[0].at = place[0]
    BY <1>2, GotIs
  <2> DEFINE read == f[0]
             none == << >>
  <2>2. none = [j \in 1 .. 0 |-> none[j]] /\ \A j \in 1 .. 0 : FALSE
    OBVIOUS
  <2> HIDE DEF read, none
  <2>3. ListSoFar(read, sets, 0, place[0], names)
    <3>1. read.ok = TRUE /\ read.val = none /\ read.at = place[0]
      BY <2>1 DEF read, none
    <3>2. QED  BY <2>2, <3>1, Zenon DEF ListSoFar
  <2>4. 0 \in 0 .. k
    BY <1>1
  <2> HIDE DEF alike
  <2>5. QED  BY <2>3, <2>4 DEF read
<1>4. ASSUME NEW i \in 1 .. k, i - 1 \in T PROVE i \in T
  <2> DEFINE l == i - 1
             read == f[l]
             value == DecodeValue(mine.heap, mine.types[i], sent.heap, sent.types[i], b, read.at)
             step == DecodeArg(mine, sent, b, i, read)
             noname == ~ HasName(mine.heap, mine.types[i])
  <2>1. /\ read.ok => \A j \in 1 .. l : alike(j) => sets[j] # {}
        /\ alike(l) => ListSoFar(read, sets, l, place[l], names)
    BY <1>4
  <2>2. f[i] = step
    BY <1>2
  <2>3. step = IF read.ok /\ noname THEN Raise(read.at) ELSE Added(read, value)
    BY DEF DecodeArg
  <2>4. names => ~ noname
    <3>1. i \in 1 .. Len(my)
      BY DEF k
    <3>2. QED  BY <3>1 DEF ArgsAsked
  <2>5. l \in Nat /\ l + 1 = i /\ i \in 0 .. k
    BY <1>1
  <2>6. alike(i) => alike(l) /\ Likeness(Q, sh)[MaxDepth][my[i]][their[i]][vals[i]]
    BY <1>1 DEF ArgsAlike
  <2>7. Raise(read.at).ok = FALSE
    BY DEF Raise
  <2>8. Added(read, value).ok => read.ok
    BY DEF Added
  <2> HIDE DEF step, noname, alike
  <2>9. ASSUME alike(i) PROVE ListSoFar(step, sets, i, place[i], names)
    <3>1. ListSoFar(read, sets, l, place[l], names)
      BY <2>1, <2>6, <2>9
    <3>2. read.ok => Outcome(value, sets[i], place[i], names)
      <4>1. Outcome(DecodeValue(mine.heap, mine.types[i], sent.heap, sent.types[i], b, place[i - 1]),
                    sets[i], place[i], names)
        <5>1. i \in 1 .. Len(my)
          BY DEF k
        <5>2. QED  BY <2>6, <2>9, <5>1, ArgOutcome
      <4>2. read.ok => read.at = place[l]
        BY <3>1 DEF ListSoFar
      <4>3. QED  BY <4>1, <4>2
    <3> HIDE DEF l, read, value
    <3>3. ListSoFar(Added(read, value), sets, l + 1, place[i], names)
      <4>1. read.ok => Outcome(value, sets[l + 1], place[i], names)
        BY <2>5, <3>2
      <4>2. QED  BY <2>5, <3>1, <4>1, ListGrows, Zenon
    <3>4. names => step = Added(read, value)
      BY <2>3, <2>4
    <3>5. CASE read.ok /\ noname
      <4>1. step.ok = FALSE /\ ~ names
        BY <2>3, <2>4, <2>7, <3>5
      <4>2. QED  BY <4>1, Zenon DEF ListSoFar
    <3>6. CASE ~ (read.ok /\ noname)
      BY <2>3, <2>5, <3>3, <3>6
    <3>7. QED  BY <3>5, <3>6
  <2>10. step.ok => read.ok
    BY <2>3, <2>7, <2>8
  <2>11. ASSUME step.ok, NEW j \in 1 .. i, alike(j) PROVE sets[j] # {}
    <3>1. CASE j = i
      <4>1. ListSoFar(step, sets, i, place[i], names)
        BY <2>9, <2>11, <3>1
      <4>2. step.val[i] \in sets[i]
        BY <2>11, <4>1 DEF ListSoFar
      <4>3. QED  BY <3>1, <4>2
    <3>2. CASE j # i
      <4>1. j \in 1 .. l
        BY <3>2
      <4>2. QED  BY <2>1, <2>10, <2>11, <4>1
    <3>3. QED  BY <3>1, <3>2
  <2> HIDE DEF l, read, value
  <2>12. QED  BY <2>2, <2>5, <2>9, <2>11
<1> HIDE DEF T
<1>5. \A i \in 0 .. k : i \in T
  BY <1>1, <1>3, <1>4, BoundedInduction, Zenon
<1>6. k \in T
  BY <1>1, <1>5
<1>7. result = f[k]
  BY <1>2
<1>8. QED  BY <1>6, <1>7 DEF T, k

(* The types a message is read as, before they are on the wire *)
ReadingTypes(msg, expected) ==
  IF expected.types = << >> THEN [heap |-> msg.heap, types |-> msg.types] ELSE expected

(* The receiver's types are mirrored. *)
LEMMA ReceiverMirrors ==
  ASSUME NEW msg, IsMessage(msg), NEW expected, IsHeap(expected.heap), expected.types \in Seq(Refs(expected.heap)),
         NEW mine, mine = ReadingTypes(msg, expected)
  PROVE  \E S, m : Receives(Taken(msg, expected), mine.heap, S, m, mine.types)
<1>1. CASE expected.types = << >>
  <2>1. Taken(msg, expected) = SentTypes(msg)
    BY <1>1 DEF Taken
  <2>2. mine.heap = msg.heap /\ mine.types = msg.types
    BY <1>1 DEF ReadingTypes
  <2>3. Receives(SentTypes(msg), msg.heap, Known(msg.heap, TableOf(msg)), OnWire(msg.heap, TableOf(msg)), msg.types)
    BY SentReceives
  <2>4. QED  BY <2>1, <2>2, <2>3
<1>2. CASE expected.types # << >>
  <2>1. Taken(msg, expected) = expected /\ mine = expected
    BY <1>2 DEF Taken, ReadingTypes
  <2>2. Receives(expected, expected.heap, Refs(expected.heap), [t \in Refs(expected.heap) |-> t], expected.types)
    BY ExpectedReceives
  <2>3. QED  BY <2>1, <2>2
<1>3. QED  BY <1>1, <1>2

(* The names that a reading evaluates end. *)
NamesEndAt(msg, expected) ==
  /\ \A x \in DOMAIN SentTypes(msg).heap : HasName(SentTypes(msg).heap, x)
  /\ \A t \in ToSet(expected.types) : HasName(expected.heap, t)

(* So do those of the types it reads. *)
LEMMA NamesTaken ==
  ASSUME NEW msg, NEW expected, expected.types \in Seq(Refs(expected.heap)),
         NamesEndAt(msg, expected), NEW i \in 1 .. Len(Taken(msg, expected).types)
  PROVE  HasName(Taken(msg, expected).heap, Taken(msg, expected).types[i])
<1>1. CASE expected.types = << >>
  <2>1. Taken(msg, expected) = SentTypes(msg)
    BY <1>1 DEF Taken
  <2> DEFINE t == SentTypes(msg).types[i]
             heap == SentTypes(msg).heap
  <2>2. HasName(heap, t)
    <3>1. CASE t \in DOMAIN heap
      BY <3>1 DEF NamesEndAt
    <3> HIDE DEF t, heap
    <3>2. CASE t \notin DOMAIN heap
      BY <3>2 DEF HasName
    <3>3. QED  BY <3>1, <3>2
  <2>3. QED  BY <2>1, <2>2
<1>2. CASE expected.types # << >>
  <2>1. Taken(msg, expected) = expected
    BY <1>2 DEF Taken
  <2>2. expected.types[i] \in ToSet(expected.types)
    BY <2>1 DEF ToSet
  <2>3. QED  BY <2>1, <2>2 DEF NamesEndAt
<1>3. QED  BY <1>1, <1>2

(* A reading asks for the arguments one after the other. *)
LEMMA MessageAsked ==
  ASSUME NEW msg, IsMessage(msg), NEW expected, IsHeap(expected.heap), expected.types \in Seq(Refs(expected.heap)),
         NEW mine, mine = ReadingTypes(msg, expected), Len(mine.types) <= Len(msg.types)
  PROVE  \E S, m, U, n, place :
           /\ ArgsAsked(Encode(msg), Taken(msg, expected), mine.heap, S, m, mine.types,
                        SentTypes(msg), msg.heap, U, n, msg.types, msg.values, place, NamesEndAt(msg, expected))
           /\ place[0] = ValuesAt(msg)
           /\ place[Len(msg.types)] = Len(Encode(msg)) + 1
<1> DEFINE b == Encode(msg)
           taken == Taken(msg, expected)
           sent == SentTypes(msg)
           U == Known(msg.heap, TableOf(msg))
           n == OnWire(msg.heap, TableOf(msg))
           pieces == ValuePieces(msg)
           names == NamesEndAt(msg, expected)
           heap == msg.heap
           their == msg.types
           vals == msg.values
<1>1. PICK S, m : Receives(taken, mine.heap, S, m, mine.types)
  BY ReceiverMirrors
<1>2. Receives(sent, heap, U, n, their)
  BY SentReceives
<1>3. \A y \in U : n[y] = TypeIds.nat8 <=> GetType(heap, y) = TypeIds.nat8
  <2>1. IsHeap(heap) /\ IsTable(heap, TableOf(msg)) /\ Closed(heap, ToSet(TableOf(msg)))
    BY MessageBytes DEF IsMessage
  <2>2. QED  BY <2>1, MirrorWire
<1>4. /\ Holds(b, ValuesAt(msg), FlattenSeq(pieces)) /\ ValuesAt(msg) + Len(FlattenSeq(pieces)) = Len(b) + 1
      /\ pieces \in Seq(Seq(Bytes)) /\ Len(pieces) = Len(their)
  BY HeaderRead, MessageBytes
<1>5. PICK place : Places(b, ValuesAt(msg), pieces, place)
  <2> HIDE DEF pieces, b
  <2>1. QED  BY <1>4, HoldsEach
<1>6. /\ their \in Seq(Refs(heap)) /\ vals \in Seq(Values) /\ Len(vals) = Len(their)
      /\ \A i \in 1 .. Len(their) : Fitting(heap)[MaxDepth][their[i]][vals[i]]
  <2>1. /\ their \in Seq(Refs(heap)) /\ vals \in Seq(Values) /\ DOMAIN vals = DOMAIN their
        /\ \A i \in DOMAIN their : Fits(heap, their[i], vals[i])
    BY DEF IsMessage
  <2>2. Len(vals) = Len(their) /\ DOMAIN their = 1 .. Len(their)
    BY <2>1
  <2>3. QED  BY <2>1, <2>2 DEF Fits
<1>7. \A i \in 1 .. Len(their) : pieces[i] = Encoder(heap)[MaxDepth][their[i]][vals[i]]
  <2>1. DOMAIN their = 1 .. Len(their)
    BY <1>6
  <2>2. QED  BY <2>1 DEF ValuePieces, EncodeValue
<1>8. place[0] = ValuesAt(msg) /\ place[0] \in Position /\ place[Len(their)] = Len(b) + 1
  BY <1>4, <1>5 DEF Places, Holds
<1>9. \A i \in 1 .. Len(their) :
        /\ place[i] = place[i - 1] + Len(Encoder(heap)[MaxDepth][their[i]][vals[i]])
        /\ Holds(b, place[i - 1], Encoder(heap)[MaxDepth][their[i]][vals[i]])
  <2> HIDE DEF pieces, b, heap, their, vals
  <2>1. QED  BY <1>4, <1>5, <1>7, Zenon DEF Places
<1>10. names => /\ \A x \in DOMAIN sent.heap : HasName(sent.heap, x)
                /\ \A i \in 1 .. Len(mine.types) : HasName(taken.heap, taken.types[i])
  <2> SUFFICES ASSUME names
               PROVE  /\ \A x \in DOMAIN sent.heap : HasName(sent.heap, x)
                      /\ \A i \in 1 .. Len(mine.types) : HasName(taken.heap, taken.types[i])
    OBVIOUS
  <2>1. \A x \in DOMAIN sent.heap : HasName(sent.heap, x)
    BY DEF NamesEndAt
  <2>2. Len(mine.types) = Len(taken.types)
    BY <1>1 DEF Receives
  <2>3. \A i \in 1 .. Len(taken.types) : HasName(taken.heap, taken.types[i])
    BY NamesTaken
  <2>4. QED  BY <2>1, <2>2, <2>3
<1> HIDE DEF b, taken, sent, U, n, pieces, names, heap, their, vals
<1>11. Mirrors(taken.heap, mine.heap, S, m, sent.heap, heap, U, n)
  BY <1>1, <1>2, <1>3 DEF Receives, Mirrors
<1>12. Len(mine.types) <= Len(their)
  BY DEF their
<1>13. ArgsAsked(b, taken, mine.heap, S, m, mine.types, sent, heap, U, n, their, vals, place, names)
  BY <1>1, <1>2, <1>6, <1>8, <1>9, <1>10, <1>11, <1>12 DEF ArgsAsked
<1>14. /\ ArgsAsked(Encode(msg), Taken(msg, expected), mine.heap, S, m, mine.types,
                    SentTypes(msg), msg.heap, U, n, msg.types, msg.values, place, NamesEndAt(msg, expected))
       /\ place[0] = ValuesAt(msg)
       /\ place[Len(msg.types)] = Len(Encode(msg)) + 1
  BY <1>8, <1>13 DEF b, taken, sent, names, heap, their, vals
<1>15. QED  BY <1>14

(* What may come out of a message that is read as the types of mine *)
ComesOut(msg, expected, mine, result) ==
  LET sets     == ArgSets(mine.heap, mine.types, msg.heap, msg.types, msg.values)
      k        == Len(mine.types)
      alike(i) == ArgsAlike(mine.heap, mine.types, msg.heap, msg.types, msg.values, i)
  IN  /\ k \in Nat /\ Len(msg.types) \in Nat
      /\ result.ok => k <= Len(msg.types)
      /\ k <= Len(msg.types) =>
           /\ result.ok => \A i \in 1 .. k : alike(i) => sets[i] # {}
           /\ alike(k) /\ NamesEndAt(msg, expected) /\ (\A i \in 1 .. k : sets[i] # {}) =>
                /\ result.ok /\ Len(result.val) = k
                /\ \A i \in 1 .. k : result.val[i] \in sets[i]
                /\ k = Len(msg.types) => result.at = Len(Encode(msg)) + 1

(* The reading of a message *)
LEMMA MessageOutcome ==
  ASSUME NEW msg, IsMessage(msg), NEW expected, IsHeap(expected.heap), expected.types \in Seq(Refs(expected.heap)),
         NEW mine, mine = ReadingTypes(msg, expected),
         NEW result, result = Decode(Encode(msg), expected)
  PROVE  ComesOut(msg, expected, mine, result)
<1> DEFINE sets == ArgSets(mine.heap, mine.types, msg.heap, msg.types, msg.values)
           k == Len(mine.types)
           taken == Taken(msg, expected)
           sent == SentTypes(msg)
           b == Encode(msg)
           at == ValuesAt(msg)
           names == NamesEndAt(msg, expected)
           alike(i) == ArgsAlike(mine.heap, mine.types, msg.heap, msg.types, msg.values, i)
<1>1. result = IF Len(sent.types) < Len(taken.types) THEN Raise(at) ELSE DecodeArgs(taken, sent, b, at)
  BY ReadAs
<1>2. Len(taken.types) = k /\ k \in Nat
  <2>1. PICK S, m : Receives(taken, mine.heap, S, m, mine.types)
    BY ReceiverMirrors
  <2>2. QED  BY <2>1 DEF Receives
<1>3. Len(sent.types) = Len(msg.types) /\ Len(msg.types) \in Nat
  <2>1. Receives(sent, msg.heap, Known(msg.heap, TableOf(msg)), OnWire(msg.heap, TableOf(msg)), msg.types)
    BY SentReceives
  <2>2. QED  BY <2>1 DEF Receives
<1>4. Raise(at).ok = FALSE
  BY DEF Raise
<1>5. result.ok => k <= Len(msg.types)
  BY <1>1, <1>2, <1>3, <1>4
<1>6. ASSUME k <= Len(msg.types)
      PROVE  /\ result.ok => \A i \in 1 .. k : alike(i) => sets[i] # {}
             /\ alike(k) /\ names /\ (\A i \in 1 .. k : sets[i] # {}) =>
                  /\ result.ok /\ Len(result.val) = k
                  /\ \A i \in 1 .. k : result.val[i] \in sets[i]
                  /\ k = Len(msg.types) => result.at = Len(b) + 1
  <2>1. PICK S, m, U, n, place :
           /\ ArgsAsked(b, taken, mine.heap, S, m, mine.types,
                        sent, msg.heap, U, n, msg.types, msg.values, place, names)
           /\ place[0] = at
           /\ place[Len(msg.types)] = Len(b) + 1
    BY <1>6, MessageAsked
  <2>2. result = DecodeArgs(taken, sent, b, place[0])
    BY <1>1, <1>2, <1>3, <1>6, <2>1
  <2> HIDE DEF taken, sent, b, names
  <2>3. /\ result.ok => \A i \in 1 .. k : alike(i) => sets[i] # {}
        /\ alike(k) => ListSoFar(result, sets, k, place[k], names)
    BY <2>1, <2>2, ArgsOutcome
  <2> HIDE DEF alike, sets, k
  <2>4. ASSUME alike(k), names, \A i \in 1 .. k : sets[i] # {}
        PROVE  /\ result.ok /\ Len(result.val) = k
               /\ \A i \in 1 .. k : result.val[i] \in sets[i]
               /\ k = Len(msg.types) => result.at = Len(b) + 1
    <3>1. result.ok /\ (result.val = [i \in 1 .. k |-> result.val[i]])
          /\ (\A i \in 1 .. k : result.val[i] \in sets[i]) /\ result.at = place[k]
      BY <2>3, <2>4 DEF ListSoFar
    <3>2. Len(result.val) = k
      <4>1. Len([i \in 1 .. k |-> result.val[i]]) = k
        BY <1>2
      <4>2. QED  BY <3>1, <4>1, Zenon
    <3>3. QED  BY <2>1, <3>1, <3>2, Zenon
  <2>5. QED  BY <2>3, <2>4
<1> HIDE DEF taken, sent
<1>7. QED  BY <1>2, <1>3, <1>5, <1>6 DEF ComesOut

(* A reading, what it was done with and what came out *)
LEMMA ReadingIs ==
  ASSUME Exchanged, reading # NoReading
  PROVE  /\ IsMessage(message) /\ wire = Encode(message)
         /\ IsHeap(reading.expected.heap) /\ reading.expected.types \in Seq(Refs(reading.expected.heap))
         /\ reading.result = Decode(Encode(message), reading.expected)
         /\ Receiver = ReadingTypes(message, reading.expected)
<1>1. message \in Messages /\ IsMessage(message)
  BY MessagesAssumption DEF Exchanged, Sent
<1>2. wire = Encode(message) /\ reading.expected \in Expected /\ reading.result = Decode(wire, reading.expected)
  BY DEF Exchanged, Sent
<1>3. IsHeap(reading.expected.heap) /\ reading.expected.types \in Seq(Refs(reading.expected.heap))
  BY <1>2, MessagesAssumption
<1>4. QED  BY <1>1, <1>2, <1>3 DEF Receiver, ReadingTypes

(* What the arguments can be read as, in the words of the properties *)
LEMMA ArgsAre ==
  ASSUME NEW sets, sets = ArgSets(Receiver.heap, Receiver.types, message.heap, message.types, message.values),
         NEW k, k = Len(Receiver.types), k \in Nat, k <= Len(message.types), Len(message.types) \in Nat,
         DOMAIN message.types = 1 .. Len(message.types)
  PROVE  /\ \A i \in 1 .. k : CoercedArg(i) = sets[i]
         /\ \A i \in 1 .. k : (\A j \in 1 .. i : AlikeArg(j))
              <=> ArgsAlike(Receiver.heap, Receiver.types, message.heap, message.types, message.values, i)
         /\ (\A j \in 1 .. k : AlikeArg(j))
              <=> ArgsAlike(Receiver.heap, Receiver.types, message.heap, message.types, message.values, k)
<1>1. ASSUME NEW i \in 1 .. k PROVE CoercedArg(i) = sets[i]
  <2>1. i \in DOMAIN message.types
    OBVIOUS
  <2>2. QED  BY <2>1, Zenon DEF CoercedArg, Coerced, ArgSets
<1>2. \A j : AlikeArg(j) <=> Likeness(Receiver.heap, message.heap)[MaxDepth][Receiver.types[j]][message.types[j]][message.values[j]]
  BY DEF AlikeArg, Alike
<1>3. QED  BY <1>1, <1>2, Zenon DEF ArgsAlike

(* Decoding is sound and complete where the constructors agree. *)
LEMMA ReadingHolds == Exchanged => CompatibleIsRead /\ IncompatibleIsRefused
<1> SUFFICES ASSUME Exchanged, reading # NoReading PROVE CompatibleIsRead /\ IncompatibleIsRefused
  BY DEF CompatibleIsRead, IncompatibleIsRefused
<1> DEFINE mine == Receiver
           expected == reading.expected
           result == reading.result
           sets == ArgSets(mine.heap, mine.types, message.heap, message.types, message.values)
           k == Len(mine.types)
           l == Len(message.types)
           alike(i) == ArgsAlike(mine.heap, mine.types, message.heap, message.types, message.values, i)
           names == NamesEndAt(message, expected)
<1>1. /\ IsMessage(message) /\ wire = Encode(message)
      /\ IsHeap(expected.heap) /\ expected.types \in Seq(Refs(expected.heap))
      /\ result = Decode(Encode(message), expected) /\ mine = ReadingTypes(message, expected)
  BY ReadingIs
<1>2. /\ k \in Nat /\ l \in Nat
      /\ result.ok => k <= l
      /\ k <= l => 
           /\ result.ok => \A i \in 1 .. k : alike(i) => sets[i] # {}
           /\ alike(k) /\ names /\ (\A i \in 1 .. k : sets[i] # {})
                => /\ result.ok /\ Len(result.val) = k
                   /\ \A i \in 1 .. k : result.val[i] \in sets[i]
                   /\ k = l => result.at = Len(Encode(message)) + 1
  <2>1. ComesOut(message, expected, mine, result)
    BY <1>1, MessageOutcome
  <2> HIDE DEF mine, expected, result
  <2>2. QED  BY <2>1 DEF ComesOut
<1>3. Covered = 1 .. k /\ DOMAIN message.types = 1 .. l
  <2>1. \E A : mine.types \in Seq(A)
    BY <1>1 DEF ReadingTypes, IsMessage
  <2>2. \E A : message.types \in Seq(A)
    BY <1>1 DEF IsMessage
  <2>3. QED  BY <2>1, <2>2 DEF Covered
<1>4. k <= l => /\ \A i \in 1 .. k : CoercedArg(i) = sets[i]
                /\ \A i \in 1 .. k : (\A j \in 1 .. i : AlikeArg(j)) <=> alike(i)
                /\ (\A j \in 1 .. k : AlikeArg(j)) <=> alike(k)
  BY <1>2, <1>3, ArgsAre
<1>5. NamesEnd => names
  <2>1. DecodeTable(wire, 1).val = SentTypes(message).heap
    <3>1. DecodeTable(Encode(message), 1) = Got(WireHeap(message.heap, TableOf(message)), TypesAt(message))
      BY <1>1, HeaderRead
    <3>2. DecodeTable(wire, 1).val = WireHeap(message.heap, TableOf(message))
      BY <1>1, <3>1, GotIs
    <3>3. QED  BY <3>2 DEF SentTypes
  <2>2. NamesEnd =>
          /\ \A x \in DOMAIN DecodeTable(wire, 1).val : HasName(DecodeTable(wire, 1).val, x)
          /\ \A t \in ToSet(reading.expected.types) : HasName(reading.expected.heap, t)
    BY DEF NamesEnd
  <2>3. QED  BY <2>1, <2>2 DEF NamesEndAt
<1>6. \A i : i \notin DOMAIN message.types => CoercedArg(i) = {}
  BY DEF CoercedArg
<1> HIDE DEF mine, sets, k, l, alike, names
<1>7. IncompatibleIsRefused
  <2> SUFFICES ASSUME result.ok, NEW i \in Covered
               PROVE  i \in DOMAIN message.types /\ ((\A j \in 1 .. i : AlikeArg(j)) => CoercedArg(i) # {})
    BY DEF IncompatibleIsRefused
  <2>1. k <= l /\ i \in 1 .. k
    BY <1>2, <1>3
  <2>2. i \in DOMAIN message.types
    BY <1>2, <1>3, <2>1
  <2>3. alike(i) => sets[i] # {}
    BY <1>2, <2>1
  <2>4. QED  BY <1>4, <2>1, <2>2, <2>3
<1>8. CompatibleIsRead
  <2> SUFFICES ASSUME NamesEnd, \A i \in Covered : CoercedArg(i) # {} /\ AlikeArg(i)
               PROVE  /\ result.ok
                      /\ Len(result.val) = Cardinality(Covered)
                      /\ \A i \in Covered : result.val[i] \in CoercedArg(i)
                      /\ Covered = DOMAIN message.types => result.at = Len(wire) + 1
    BY DEF CompatibleIsRead
  <2>1. k <= l
    <3>1. CASE k = 0
      BY <1>2, <3>1
    <3>2. CASE k # 0
      <4>1. k \in Covered
        BY <1>2, <1>3, <3>2
      <4>2. k \in 1 .. l
        BY <1>3, <1>6, <4>1
      <4>3. QED  BY <1>2, <4>2
    <3>3. QED  BY <3>1, <3>2
  <2>2. alike(k) /\ names /\ \A i \in 1 .. k : sets[i] # {}
    BY <1>3, <1>4, <1>5, <2>1
  <2>3. /\ result.ok /\ Len(result.val) = k
        /\ \A i \in 1 .. k : result.val[i] \in sets[i]
        /\ k = l => result.at = Len(Encode(message)) + 1
    BY <1>2, <2>1, <2>2
  <2>4. Cardinality(Covered) = k
    <3>1. Cardinality(1 .. k) = k
      BY <1>2, FS_Interval
    <3>2. QED  BY <1>3, <3>1
  <2>5. Covered = DOMAIN message.types => k = l
    BY <1>2, <1>3
  <2>6. QED  BY <1>1, <1>3, <1>4, <2>1, <2>3, <2>4, <2>5
<1>9. QED  BY <1>7, <1>8

(* CompatibleIsRead: a receiver whose types agree with the sender's, read    *)
(* from finite names, gets what was sent.                                    *)
THEOREM CompatibleRead == Spec => []CompatibleIsRead
BY ReadingHolds, ExchangedAlways, PTL

(* IncompatibleIsRefused: where the constructors agree, a receiver never     *)
(* gets a value the types do not agree on.                                   *)
THEOREM IncompatibleRefused == Spec => []IncompatibleIsRefused
BY ReadingHolds, ExchangedAlways, PTL
===========================================================================
