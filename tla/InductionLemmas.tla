--------------------------- MODULE InductionLemmas ---------------------------
(***************************************************************************)
(* Induction over the natural numbers, with the statement to be proved     *)
(* given as the set of the numbers it holds of, and what it says of the    *)
(* functions that are defined by recursion on an initial segment of them.  *)
(***************************************************************************)
EXTENDS Integers, WellFoundedInduction, TLAPS

(* A set of natural numbers has a least one. *)
LEMMA Smallest ==
  ASSUME NEW S, S \subseteq Nat, S # {}
  PROVE  \E m \in S : \A k \in S : m <= k
<1>1. IsWellFoundedOn(OpToRel(<, Nat), Nat)
  BY NatLessThanWellFounded
<1>2. \E x \in S : \A y \in S : ~ (<<y, x>> \in OpToRel(<, Nat))
  BY <1>1, WFMin
<1>3. \A x, y \in Nat : <<y, x>> \in OpToRel(<, Nat) <=> y < x
  BY DEF OpToRel
<1>4. \E x \in S : \A y \in S : ~ (y < x)
  BY <1>2, <1>3, Zenon
<1>5. QED  BY <1>4

(* What holds of 0 and goes on to the next number holds of all. *)
LEMMA Induction ==
  ASSUME NEW S, 0 \in S, \A n \in Nat : n \in S => n + 1 \in S
  PROVE  \A n \in Nat : n \in S
<1> SUFFICES ASSUME ~(Nat \subseteq S) PROVE FALSE
  OBVIOUS
<1>1. PICK m \in Nat \ S : \A k \in Nat \ S : m <= k
  BY Smallest, Nat \ S # {}
<1>2. m - 1 \in Nat /\ m - 1 \in S
  BY <1>1
<1>3. QED  BY <1>1, <1>2

(* Induction up to a bound *)
LEMMA BoundedInduction ==
  ASSUME NEW n \in Nat, NEW S, 0 \in S, \A k \in 1 .. n : k - 1 \in S => k \in S
  PROVE  \A k \in 0 .. n : k \in S
<1> DEFINE T == {k \in Nat : k <= n => k \in S}
<1>1. 0 \in T
  OBVIOUS
<1>2. \A k \in Nat : k \in T => k + 1 \in T
  <2> SUFFICES ASSUME NEW k \in Nat, k \in T, k + 1 <= n PROVE k + 1 \in S
    OBVIOUS
  <2>1. k \in S /\ k + 1 \in 1 .. n /\ (k + 1) - 1 = k
    OBVIOUS
  <2>2. QED  BY <2>1
<1> HIDE DEF T
<1>3. \A k \in Nat : k \in T
  BY <1>1, <1>2, Induction
<1>4. QED  BY <1>3 DEF T

(* f starts with a and applies step[k] to get from its value at k - 1 to *)
(* that at k.                                                            *)
Follows(f, n, S, a, step) ==
  /\ f \in [0 .. n -> S]
  /\ f[0] = a
  /\ \A k \in 1 .. n : f[k] = step[k][f[k - 1]]

(* Such a function exists. *)
LEMMA Recursion ==
  ASSUME NEW n \in Nat, NEW S, NEW a \in S, NEW step \in [1 .. n -> [S -> S]]
  PROVE  \E f : Follows(f, n, S, a, step)
<1> DEFINE Good(m, f) == Follows(f, m, S, a, step)
           T == {m \in 0 .. n : \E f : Good(m, f)}
<1> HIDE DEF Good, T
<1>1. 0 \in T
  <2>1. Good(0, [k \in 0 .. 0 |-> a])
    BY DEF Good, Follows
  <2>2. \E f : Good(0, f)
    BY <2>1
  <2>3. QED  BY <2>2 DEF T
<1>2. ASSUME NEW m \in 1 .. n, m - 1 \in T PROVE m \in T
  <2>1. PICK f : Good(m - 1, f)
    BY <1>2 DEF T
  <2> DEFINE g == [k \in 0 .. m |-> IF k = m THEN step[m][f[m - 1]] ELSE f[k]]
  <2>2. m - 1 \in 0 .. m - 1 /\ f[m - 1] \in S
    BY <2>1 DEF Good, Follows
  <2>3. step[m][f[m - 1]] \in S
    BY <2>2
  <2>4. g \in [0 .. m -> S]
    BY <2>1, <2>3 DEF Good, Follows
  <2>5. g[0] = a
    BY <2>1 DEF Good, Follows
  <2>6. \A k \in 1 .. m : g[k] = step[k][g[k - 1]]
    BY <2>1 DEF Good, Follows
  <2>7. Good(m, g)
    BY <2>4, <2>5, <2>6 DEF Good, Follows
  <2> HIDE DEF g
  <2>8. \E h : Good(m, h)
    BY <2>7
  <2>9. QED  BY <2>8 DEF T
<1>3. \A m \in 0 .. n : m \in T
  BY <1>1, <1>2, BoundedInduction
<1>4. n \in T
  BY <1>3
<1>5. QED  BY <1>4 DEF T, Good

(* Induction from what is below *)
LEMMA StrongInduction ==
  ASSUME NEW S, \A n \in Nat : (\A m \in Nat : m < n => m \in S) => n \in S
  PROVE  \A n \in Nat : n \in S
<1> SUFFICES ASSUME ~ (Nat \subseteq S) PROVE FALSE
  OBVIOUS
<1>1. PICK n \in Nat \ S : \A m \in Nat \ S : n <= m
  BY Smallest, Nat \ S # {}
<1>2. \A m \in Nat : m < n => m \in S
  BY <1>1
<1>3. QED  BY <1>1, <1>2

(* G makes of a function on D another one, whose value at x rests on the    *)
(* first one's values of lower rank.                                        *)
RestsBelow(D, S, rank, G) ==
  /\ G \in [[D -> S] -> [D -> S]]
  /\ \A f, g \in [D -> S] : \A x \in D :
       (\A y \in D : rank[y] < rank[x] => f[y] = g[y]) => G[f][x] = G[g][x]

FixedBy(D, S, G) == \E f \in [D -> S] : f = G[f]

(* A function that G leaves alone exists: a recursive definition defines. *)
LEMMA RankRecursion ==
  ASSUME NEW D, NEW S, NEW a \in S, NEW rank \in [D -> Nat], NEW G, RestsBelow(D, S, rank, G)
  PROVE  FixedBy(D, S, G)
<1> DEFINE Good(k, f) == f \in [D -> S] /\ \A x \in D : rank[x] < k => f[x] = G[f][x]
           T == {k \in Nat : \E f : Good(k, f)}
<1>1. G \in [[D -> S] -> [D -> S]]
  BY DEF RestsBelow
<1>2. ASSUME NEW f \in [D -> S], NEW g \in [D -> S], NEW x \in D,
             \A y \in D : rank[y] < rank[x] => f[y] = g[y]
      PROVE  G[f][x] = G[g][x]
  BY <1>2 DEF RestsBelow
<1>3. \A k \in Nat : k \in T
  <2>1. 0 \in T
    <3>1. Good(0, [x \in D |-> a])
      BY DEF Good
    <3> HIDE DEF Good
    <3>2. QED  BY <3>1
  <2>2. ASSUME NEW k \in Nat, k \in T PROVE k + 1 \in T
    <3>1. PICK f : Good(k, f)
      BY <2>2
    <3>2. f \in [D -> S] /\ G[f] \in [D -> S]
      BY <1>1, <3>1
    <3>3. ASSUME NEW x \in D, rank[x] < k + 1 PROVE G[f][x] = G[G[f]][x]
      <4>1. \A y \in D : rank[y] < rank[x] => f[y] = G[f][y]
        BY <3>1, <3>3
      <4>2. QED  BY <1>2, <3>2, <4>1
    <3>4. Good(k + 1, G[f])
      BY <3>2, <3>3
    <3> HIDE DEF Good
    <3>5. QED  BY <3>4
  <2> HIDE DEF T
  <2>3. QED  BY <2>1, <2>2, Induction
<1>4. ASSUME NEW k \in Nat, NEW f, NEW g, Good(k, f), Good(k, g)
      PROVE  \A x \in D : rank[x] < k => f[x] = g[x]
  <2> DEFINE U == {m \in Nat : \A x \in D : rank[x] = m /\ m < k => f[x] = g[x]}
  <2>1. ASSUME NEW m \in Nat, \A l \in Nat : l < m => l \in U PROVE m \in U
    <3> SUFFICES ASSUME NEW x \in D, rank[x] = m, m < k PROVE f[x] = g[x]
      OBVIOUS
    <3>1. \A y \in D : rank[y] < rank[x] => f[y] = g[y]
      BY <2>1
    <3>2. G[f][x] = G[g][x]
      BY <1>2, <1>4, <3>1
    <3>3. QED  BY <1>4, <3>2
  <2> HIDE DEF U
  <2>2. \A m \in Nat : m \in U
    BY <2>1, StrongInduction
  <2>3. QED  BY <2>2 DEF U
<1> DEFINE F(x) == CHOOSE f : Good(rank[x] + 1, f)
           h == [x \in D |-> F(x)[x]]
<1>5. ASSUME NEW x \in D PROVE Good(rank[x] + 1, F(x))
  <2>1. rank[x] + 1 \in T
    BY <1>3
  <2>2. \E f : Good(rank[x] + 1, f)
    BY <2>1
  <2> HIDE DEF Good
  <2>3. QED  BY <2>2
<1> HIDE DEF F
<1>6. h \in [D -> S]
  BY <1>5
<1>7. ASSUME NEW x \in D PROVE h[x] = G[h][x]
  <2>1. ASSUME NEW y \in D, rank[y] < rank[x] PROVE h[y] = F(x)[y]
    <3>1. Good(rank[y] + 1, F(x)) /\ Good(rank[y] + 1, F(y))
      BY <1>5, <2>1
    <3>2. rank[y] + 1 \in Nat /\ rank[y] < rank[y] + 1
      OBVIOUS
    <3> HIDE DEF Good
    <3>3. F(x)[y] = F(y)[y]
      BY <1>4, <3>1, <3>2
    <3>4. QED  BY <3>3
  <2>2. F(x) \in [D -> S] /\ F(x)[x] = G[F(x)][x]
    BY <1>5
  <2> HIDE DEF h
  <2>3. G[h][x] = G[F(x)][x]
    BY <1>2, <1>6, <2>1, <2>2
  <2>4. QED  BY <2>2, <2>3 DEF h
<1>8. h = G[h]
  <2>1. G[h] \in [D -> S]
    BY <1>1, <1>6
  <2> HIDE DEF h
  <2>2. QED  BY <1>6, <1>7, <2>1
<1> HIDE DEF h
<1>9. QED  BY <1>6, <1>8 DEF FixedBy
=============================================================================
