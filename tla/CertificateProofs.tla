------------------------ MODULE CertificateProofs -------------------------
(*************************************************************************)
(* Proofs about Certificate: what pruning leaves of a signed tree        *)
(* (PruningOnlyHides), and that check_delegation lets the certificates of*)
(* the subnets that host a canister pass, and no others (ValidIsHosted,  *)
(* HostedIsValid), for any number of canisters, subnets, tables and cuts,*)
(* any shard size and either nesting of the trees.                       *)
(*                                                                       *)
(* The first half is about HashTree: what lookup, list_paths, tree_digest*)
(* and the cutting back do to trees of any height, labels and values.    *)
(* Trees are nested sets, so that induction over them needs no operator  *)
(* parameter (TreeInduction), and a recursive function on them exists    *)
(* because each of its values rests on lower trees (TreeRecursion); every*)
(* definition of HashTree is then unfolded once, as ...Step, and never   *)
(* again.                                                                *)
(*                                                                       *)
(* In the second half, what a subnet signed is never changed: every tree *)
(* on its way is a tree whose digest is the signed one (Inv).  The rest  *)
(* is about single trees: which nodes are at the end of a path of the    *)
(* root subnet's tree, and that there is at most one.                    *)
(*************************************************************************)
EXTENDS Certificate, SequenceTheorems, FiniteSetTheorems, InductionLemmas

(* The trees one level higher *)
Grown(ends, below) ==
  ends \cup ({"labeled"} \X Labels \X below) \cup ({"fork"} \X below \X below)

(* level[h] for h up to n is what Nested makes of ends. *)
Over(f, n) == f = [h \in 0 .. n |-> f[h]]

Levels(level, ends, n) ==
  /\ Over(level, n)
  /\ level[0] = ends
  /\ \A h \in 1 .. n : level[h] = Grown(ends, level[h - 1])

(* The levels up to any height are there. *)
LEMMA LevelsExist ==
  ASSUME NEW ends, NEW n \in Nat
  PROVE  \E level : Levels(level, ends, n)
<1> DEFINE T == {m \in 0 .. n : \E f : Levels(f, ends, m)}
<1>1. 0 \in T
  <2>1. Levels([h \in 0 .. 0 |-> ends], ends, 0)
    BY DEF Levels, Over
  <2>2. QED  BY <2>1
<1>2. ASSUME NEW m \in 1 .. n, m - 1 \in T PROVE m \in T
  <2>1. PICK f : Levels(f, ends, m - 1)
    BY <1>2
  <2> DEFINE g == [h \in 0 .. m |-> IF h = m THEN Grown(ends, f[m - 1]) ELSE f[h]]
  <2>2. g[0] = ends
    BY <2>1 DEF Levels
  <2>3. ASSUME NEW h \in 1 .. m PROVE g[h] = Grown(ends, g[h - 1])
    <3>1. g[h - 1] = f[h - 1] /\ (h # m => g[h] = f[h]) /\ (h = m => g[h] = Grown(ends, f[m - 1]))
      OBVIOUS
    <3>2. h # m => h \in 1 .. m - 1
      OBVIOUS
    <3>3. QED  BY <2>1, <3>1, <3>2 DEF Levels
  <2>4. Over(g, m)
    BY DEF Over
  <2>5. Levels(g, ends, m)
    BY <2>2, <2>3, <2>4 DEF Levels
  <2> HIDE DEF g
  <2>6. QED  BY <2>5
<1> HIDE DEF T
<1>3. \A m \in 0 .. n : m \in T
  BY <1>1, <1>2, BoundedInduction
<1>4. n \in T
  BY <1>3
<1>5. QED  BY <1>4 DEF T

(* The recursive function in Nested has the levels. *)
LEMMA NestedLevels ==
  ASSUME NEW ends, NEW n \in Nat
  PROVE  \E level : Levels(level, ends, n) /\ Nested(ends, n) = level[n]
<1> DEFINE Def(f) == f = [h \in 0 .. n |->
             IF h = 0 THEN ends
             ELSE ends \cup ({"labeled"} \X Labels \X f[h - 1]) \cup ({"fork"} \X f[h - 1] \X f[h - 1])]
           level == CHOOSE f : Def(f)
<1>1. Nested(ends, n) = level[n]
  BY DEF Nested
<1>2. PICK f : Levels(f, ends, n)
  BY LevelsExist
<1>3. Def(f)
  BY <1>2 DEF Levels, Over, Grown
<1> HIDE DEF Def
<1>4. Def(level)
  BY <1>3
<1> HIDE DEF level
<1>5. Levels(level, ends, n)
  <2>1. level[0] = ends
    BY <1>4 DEF Def
  <2>3. ASSUME NEW h \in 1 .. n PROVE level[h] = Grown(ends, level[h - 1])
    <3>1. h \in 0 .. n /\ h # 0
      OBVIOUS
    <3>2. QED  BY <1>4, <3>1 DEF Def, Grown
  <2>2. Over(level, n)
    BY <1>4 DEF Def, Over
  <2>4. QED  BY <2>1, <2>2, <2>3 DEF Levels
<1>6. QED  BY <1>1, <1>5

(* Nested grows one level at a time. *)
LEMMA NestedSteps ==
  ASSUME NEW ends, NEW n \in Nat
  PROVE  /\ Nested(ends, 0) = ends
         /\ Nested(ends, n + 1) = Grown(ends, Nested(ends, n))
<1>1. PICK u : Levels(u, ends, 0) /\ Nested(ends, 0) = u[0]
  BY NestedLevels
<1>2. PICK v : Levels(v, ends, n) /\ Nested(ends, n) = v[n]
  BY NestedLevels
<1>3. PICK w : Levels(w, ends, n + 1) /\ Nested(ends, n + 1) = w[n + 1]
  <2>1. n + 1 \in Nat
    OBVIOUS
  <2>2. QED  BY <2>1, NestedLevels
<1> DEFINE T == {h \in 0 .. n : v[h] = w[h]}
<1>4. 0 \in T
  BY <1>2, <1>3 DEF Levels
<1>5. ASSUME NEW h \in 1 .. n, h - 1 \in T PROVE h \in T
  <2>1. v[h] = Grown(ends, v[h - 1]) /\ w[h] = Grown(ends, w[h - 1])
    BY <1>2, <1>3 DEF Levels
  <2>2. QED  BY <1>5, <2>1
<1> HIDE DEF T
<1>6. \A h \in 0 .. n : h \in T
  BY <1>4, <1>5, BoundedInduction
<1>7. v[n] = w[n]
  BY <1>6 DEF T
<1>8. w[n + 1] = Grown(ends, w[n])
  <2>1. n + 1 \in 1 .. n + 1 /\ (n + 1) - 1 = n
    OBVIOUS
  <2>2. QED  BY <1>3, <2>1 DEF Levels
<1>9. QED  BY <1>1, <1>2, <1>3, <1>7, <1>8 DEF Levels

(* A tree of a level is one of every higher level. *)
LEMMA NestedMonotone ==
  ASSUME NEW ends, NEW m \in Nat, NEW n \in Nat, m <= n
  PROVE  Nested(ends, m) \subseteq Nested(ends, n)
<1> DEFINE S == {k \in Nat : Nested(ends, k) \subseteq Nested(ends, k + 1)}
<1>1. 0 \in S
  <2>1. Nested(ends, 0) = ends /\ Nested(ends, 0 + 1) = Grown(ends, Nested(ends, 0))
    BY NestedSteps
  <2>2. QED  BY <2>1 DEF Grown
<1>2. ASSUME NEW k \in Nat, k \in S PROVE k + 1 \in S
  <2>1. k + 1 \in Nat
    OBVIOUS
  <2>2. /\ Nested(ends, k + 1) = Grown(ends, Nested(ends, k))
        /\ Nested(ends, (k + 1) + 1) = Grown(ends, Nested(ends, k + 1))
    BY <2>1, NestedSteps
  <2>3. Nested(ends, k) \subseteq Nested(ends, k + 1)
    BY <1>2
  <2>4. Grown(ends, Nested(ends, k)) \subseteq Grown(ends, Nested(ends, k + 1))
    BY <2>3 DEF Grown
  <2>5. QED  BY <2>2, <2>4
<1> HIDE DEF S
<1>3. \A k \in Nat : k \in S
  BY <1>1, <1>2, Induction
<1> DEFINE R == {k \in Nat : Nested(ends, m) \subseteq Nested(ends, m + k)}
<1>4. 0 \in R
  OBVIOUS
<1>5. ASSUME NEW k \in Nat, k \in R PROVE k + 1 \in R
  <2>1. m + k \in S /\ m + (k + 1) = (m + k) + 1
    BY <1>3
  <2>2. Nested(ends, m + k) \subseteq Nested(ends, (m + k) + 1)
    BY <2>1 DEF S
  <2>3. QED  BY <1>5, <2>1, <2>2
<1> HIDE DEF R
<1>6. \A k \in Nat : k \in R
  BY <1>4, <1>5, Induction
<1>7. n - m \in R /\ m + (n - m) = n
  BY <1>6
<1>8. QED  BY <1>7 DEF R
-----------------------------------------------------------------------------
(* Induction and recursion over trees                                       *)

(* The nodes right below a node *)
Parts(t) ==
  IF Tag(t) = "labeled" THEN {t[3]} ELSE IF Tag(t) = "fork" THEN {t[2], t[3]} ELSE {}

(* Nothing is below an end. *)
AreEnds(ends) == \A e \in ends : Tag(e) \notin {"labeled", "fork"}

(* The parts of a tree are one level below it. *)
LEMMA PartsOfGrown ==
  ASSUME NEW ends, AreEnds(ends), NEW below, NEW t \in Grown(ends, below)
  PROVE  Parts(t) \subseteq below /\ (t \in ends => Parts(t) = {})
<1>1. CASE t \in ends
  BY <1>1 DEF AreEnds, Parts
<1>2. CASE t \in {"labeled"} \X Labels \X below
  <2>1. Tag(t) = "labeled" /\ t[3] \in below
    BY <1>2 DEF Tag
  <2>2. t \notin ends
    BY <2>1 DEF AreEnds
  <2>3. QED  BY <2>1, <2>2 DEF Parts
<1>3. CASE t \in {"fork"} \X below \X below
  <2>1. Tag(t) = "fork" /\ t[2] \in below /\ t[3] \in below
    BY <1>3 DEF Tag
  <2>2. t \notin ends
    BY <2>1 DEF AreEnds
  <2>3. QED  BY <2>1, <2>2 DEF Parts
<1>4. QED  BY <1>1, <1>2, <1>3 DEF Grown

(* The parts of a tree of some height have less. *)
LEMMA PartsAreLower ==
  ASSUME NEW ends, AreEnds(ends), NEW n \in Nat, NEW t \in Nested(ends, n)
  PROVE  /\ n = 0 => Parts(t) = {}
         /\ n > 0 => Parts(t) \subseteq Nested(ends, n - 1)
<1>1. CASE n = 0
  <2>1. t \in ends
    BY <1>1, NestedSteps
  <2>2. t \in Grown(ends, {})
    BY <2>1 DEF Grown
  <2>3. QED  BY <1>1, <2>1, <2>2, PartsOfGrown
<1>2. CASE n > 0
  <2>1. n - 1 \in Nat /\ (n - 1) + 1 = n
    BY <1>2
  <2>2. Nested(ends, (n - 1) + 1) = Grown(ends, Nested(ends, n - 1))
    BY <2>1, NestedSteps
  <2>3. t \in Grown(ends, Nested(ends, n - 1))
    BY <2>1, <2>2
  <2>4. QED  BY <1>2, <2>3, PartsOfGrown
<1>3. QED  BY <1>1, <1>2

(* So they are among the trees of that height as well. *)
LEMMA PartsAreTrees ==
  ASSUME NEW ends, AreEnds(ends), NEW n \in Nat, NEW t \in Nested(ends, n)
  PROVE  Parts(t) \subseteq Nested(ends, n)
<1>1. CASE n = 0
  BY <1>1, PartsAreLower
<1>2. CASE n > 0
  <2>1. n - 1 \in Nat /\ n - 1 <= n
    BY <1>2
  <2>2. Nested(ends, n - 1) \subseteq Nested(ends, n)
    BY <2>1, NestedMonotone
  <2>3. QED  BY <1>2, <2>2, PartsAreLower
<1>3. QED  BY <1>1, <1>2

(* Induction over the trees of Nested *)
LEMMA TreeInduction ==
  ASSUME NEW ends, AreEnds(ends), NEW n \in Nat, NEW S,
         \A t \in Nested(ends, n) : Parts(t) \subseteq S => t \in S
  PROVE  Nested(ends, n) \subseteq S
<1> DEFINE H == {h \in 0 .. n : Nested(ends, h) \subseteq S}
<1>1. ASSUME NEW h \in 0 .. n, h = 0 \/ h - 1 \in H PROVE h \in H
  <2>1. h \in Nat /\ h <= n
    OBVIOUS
  <2>2. Nested(ends, h) \subseteq Nested(ends, n)
    BY <2>1, NestedMonotone
  <2>3. ASSUME NEW t \in Nested(ends, h) PROVE Parts(t) \subseteq S
    <3>1. h = 0 => Parts(t) = {}
      BY <2>1, PartsAreLower
    <3>2. h > 0 => Parts(t) \subseteq Nested(ends, h - 1)
      BY <2>1, PartsAreLower
    <3>3. h > 0 => Nested(ends, h - 1) \subseteq S
      BY <1>1, <2>1
    <3>4. QED  BY <2>1, <3>1, <3>2, <3>3
  <2>4. QED  BY <2>2, <2>3
<1> HIDE DEF H
<1>2. 0 \in H
  BY <1>1
<1>3. \A h \in 1 .. n : h - 1 \in H => h \in H
  <2>1. \A h \in 1 .. n : h \in 0 .. n
    OBVIOUS
  <2>2. QED  BY <1>1, <2>1
<1>4. \A h \in 0 .. n : h \in H
  BY <1>2, <1>3, BoundedInduction
<1>5. QED  BY <1>4 DEF H

(* G makes a function on T from one, and its value at a tree depends only on *)
(* the values of that one at the tree's parts.                               *)
Descends(T, S, G) ==
  /\ G \in [[T -> S] -> [T -> S]]
  /\ \A f, g \in [T -> S] : \A t \in T :
       (\A c \in Parts(t) : f[c] = g[c]) => G[f][t] = G[g][t]

Defines(T, S, G) == \E f \in [T -> S] : f = G[f]

(* A function is defined by recursion over the trees if the value it has at *)
(* a tree depends on its values at the parts of the tree only.              *)
LEMMA TreeRecursion ==
  ASSUME NEW ends, AreEnds(ends), NEW n \in Nat, NEW T, T = Nested(ends, n),
         NEW S, NEW a \in S, NEW G, Descends(T, S, G)
  PROVE  Defines(T, S, G)
<1>0. /\ G \in [[T -> S] -> [T -> S]]
      /\ \A f, g \in [T -> S] : \A t \in T :
           (\A c \in Parts(t) : f[c] = g[c]) => G[f][t] = G[g][t]
  BY DEF Descends
<1> DEFINE X == [T -> S]
           step == [k \in 1 .. n + 2 |-> G]
<1>1. [t \in T |-> a] \in X
  OBVIOUS
<1>2. n + 2 \in Nat /\ step \in [1 .. n + 2 -> [X -> X]]
  BY <1>0
<1>3. PICK F : Follows(F, n + 2, X, [t \in T |-> a], step)
  <2> HIDE DEF X, step
  <2>1. QED  BY <1>1, <1>2, Recursion
<1>4. F \in [0 .. n + 2 -> X] /\ \A k \in 1 .. n + 2 : F[k] = G[F[k - 1]]
  BY <1>3 DEF Follows
<1> DEFINE Settled(h, k) == \A t \in Nested(ends, h) : F[k][t] = F[h + 1][t]
           C == {h \in 0 .. n : \A k \in h + 1 .. n + 2 : Settled(h, k)}
<1> HIDE DEF X, step
<1>5. ASSUME NEW h \in 0 .. n, h = 0 \/ h - 1 \in C PROVE h \in C
  <2> SUFFICES ASSUME NEW k \in h + 1 .. n + 2, NEW t \in Nested(ends, h)
               PROVE  F[k][t] = F[h + 1][t]
    OBVIOUS
  <2>1. h \in Nat /\ h <= n
    OBVIOUS
  <2>2. t \in T
    BY <2>1, NestedMonotone
  <2>3. k \in 1 .. n + 2 /\ h + 1 \in 1 .. n + 2 /\ (h + 1) - 1 = h /\ k - 1 \in 0 .. n + 2 /\ h \in 0 .. n + 2
    OBVIOUS
  <2>4. F[k] = G[F[k - 1]] /\ F[h + 1] = G[F[h]] /\ F[k - 1] \in X /\ F[h] \in X
    BY <1>4, <2>3
  <2>5. ASSUME NEW c \in Parts(t) PROVE F[k - 1][c] = F[h][c]
    <3>1. CASE h = 0
      <4>1. Parts(t) = {}
        BY <2>1, <3>1, PartsAreLower
      <4>2. QED  BY <4>1
    <3>2. CASE h > 0
      <4>1. c \in Nested(ends, h - 1)
        BY <2>1, <3>2, PartsAreLower
      <4>2. k - 1 \in (h - 1) + 1 .. n + 2 /\ (h - 1) + 1 = h
        BY <2>1, <3>2
      <4>3. Settled(h - 1, k - 1)
        BY <1>5, <3>2, <4>2
      <4>4. QED  BY <4>1, <4>2, <4>3
    <3>3. QED  BY <2>1, <3>1, <3>2
  <2>6. G[F[k - 1]][t] = G[F[h]][t]
    BY <1>0, <2>2, <2>4, <2>5 DEF X
  <2>7. QED  BY <2>4, <2>6
<1> HIDE DEF C
<1>6. 0 \in C
  BY <1>5
<1>7. \A h \in 1 .. n : h - 1 \in C => h \in C
  <2>1. \A h \in 1 .. n : h \in 0 .. n
    OBVIOUS
  <2>2. QED  BY <1>5, <2>1
<1>8. n \in C
  <2>1. \A h \in 0 .. n : h \in C
    BY <1>6, <1>7, BoundedInduction
  <2>2. QED  BY <2>1
<1>9. \A t \in T : F[n + 2][t] = F[n + 1][t]
  <2>1. n + 2 \in n + 1 .. n + 2
    OBVIOUS
  <2>2. QED  BY <1>8, <2>1 DEF C
<1>10. F[n + 1] \in X /\ F[n + 2] \in X /\ F[n + 2] = G[F[n + 1]]
  <2>1. n + 1 \in 0 .. n + 2 /\ n + 2 \in 1 .. n + 2 /\ (n + 2) - 1 = n + 1
    OBVIOUS
  <2>2. QED  BY <1>4, <2>1
<1>11. F[n + 2] = F[n + 1]
  BY <1>9, <1>10 DEF X
<1>12. QED  BY <1>10, <1>11 DEF X, Defines

-----------------------------------------------------------------------------
(* The trees of the model *)
Tree     == Trees(MaxHeight)
FullTree == FullTrees(MaxHeight)

CutEnds == Ends \cup ({"pruned"} \X FullTree)

(* The trees of certificates, whole and cut back, are nested this way. *)
LEMMA TreesAreNested ==
  /\ MaxHeight \in Nat
  /\ AreEnds(Ends) /\ AreEnds(CutEnds)
  /\ Tree = Nested(CutEnds, MaxHeight) /\ FullTree = Nested(Ends, MaxHeight)
<1>1. AreEnds(Ends)
  BY DEF AreEnds, Ends, Empty, Tag
<1>2. AreEnds(CutEnds)
  BY DEF AreEnds, CutEnds, Ends, Empty, Tag
<1>3. QED  BY <1>1, <1>2, HashTreeAssumption DEF Tree, FullTree, Trees, FullTrees, CutEnds

(* The parts of a tree by its kind *)
LEMMA NestedKinds ==
  ASSUME NEW ends, AreEnds(ends), NEW n \in Nat, NEW t \in Nested(ends, n)
  PROVE  \/ t \in ends
         \/ /\ Tag(t) = "labeled" /\ t = Labeled(t[2], t[3])
            /\ t[2] \in Labels /\ t[3] \in Nested(ends, n)
         \/ /\ Tag(t) = "fork" /\ t = Fork(t[2], t[3])
            /\ t[2] \in Nested(ends, n) /\ t[3] \in Nested(ends, n)
<1>1. \E below : t \in Grown(ends, below)
  <2>1. CASE n = 0
    <3>1. t \in ends
      BY <2>1, NestedSteps
    <3>2. t \in Grown(ends, {})
      BY <3>1 DEF Grown
    <3>3. QED  BY <3>2
  <2>2. CASE n > 0
    <3>1. n - 1 \in Nat /\ (n - 1) + 1 = n
      BY <2>2
    <3>2. Nested(ends, (n - 1) + 1) = Grown(ends, Nested(ends, n - 1))
      BY <3>1, NestedSteps
    <3>3. t \in Grown(ends, Nested(ends, n - 1))
      BY <3>1, <3>2
    <3>4. QED  BY <3>3
  <2>3. QED  BY <2>1, <2>2
<1>2. PICK below : t \in Grown(ends, below)
  BY <1>1
<1>3. Parts(t) \subseteq Nested(ends, n)
  BY PartsAreTrees
<1>4. CASE t \in {"labeled"} \X Labels \X below
  <2>1. Tag(t) = "labeled" /\ t = Labeled(t[2], t[3]) /\ t[2] \in Labels
    BY <1>4 DEF Tag, Labeled
  <2>2. t[3] \in Nested(ends, n)
    BY <1>3, <2>1 DEF Parts
  <2>3. QED  BY <2>1, <2>2
<1>5. CASE t \in {"fork"} \X below \X below
  <2>1. Tag(t) = "fork" /\ t = Fork(t[2], t[3])
    BY <1>5 DEF Tag, Fork
  <2>2. t[2] \in Nested(ends, n) /\ t[3] \in Nested(ends, n)
    BY <1>3, <2>1 DEF Parts
  <2>3. QED  BY <2>1, <2>2
<1>6. QED  BY <1>2, <1>4, <1>5 DEF Grown

(* The five kinds of nodes and what they are made of *)
LEMMA TreeKinds ==
  ASSUME NEW t \in Tree
  PROVE  /\ Tag(t) \in {"empty", "leaf", "pruned", "labeled", "fork"}
         /\ Tag(t) = "empty" => t = Empty
         /\ Tag(t) = "leaf" => t = Leaf(t[2]) /\ t[2] \in Values
         /\ Tag(t) = "pruned" => t = Pruned(t[2]) /\ t[2] \in FullTree
         /\ Tag(t) = "labeled" => t = Labeled(t[2], t[3]) /\ t[2] \in Labels /\ t[3] \in Tree
         /\ Tag(t) = "fork" => t = Fork(t[2], t[3]) /\ t[2] \in Tree /\ t[3] \in Tree
<1>1. CASE t \in CutEnds
  <2>1. CASE t = Empty
    BY <2>1 DEF Empty, Tag
  <2>2. CASE t \in {"leaf"} \X Values
    <3>1. Tag(t) = "leaf" /\ t = Leaf(t[2]) /\ t[2] \in Values
      BY <2>2 DEF Tag, Leaf
    <3>2. QED  BY <3>1
  <2>3. CASE t \in {"pruned"} \X FullTree
    <3>1. Tag(t) = "pruned" /\ t = Pruned(t[2]) /\ t[2] \in FullTree
      BY <2>3 DEF Tag, Pruned
    <3>2. QED  BY <3>1
  <2>4. QED  BY <1>1, <2>1, <2>2, <2>3 DEF CutEnds, Ends
<1>2. CASE t \notin CutEnds
  <2>1. \/ /\ Tag(t) = "labeled" /\ t = Labeled(t[2], t[3]) /\ t[2] \in Labels /\ t[3] \in Tree
        \/ /\ Tag(t) = "fork" /\ t = Fork(t[2], t[3]) /\ t[2] \in Tree /\ t[3] \in Tree
    BY <1>2, TreesAreNested, NestedKinds
  <2>2. QED  BY <2>1
<1>3. QED  BY <1>1, <1>2

(* Induction over the trees of certificates *)
LEMMA NodeInduction ==
  ASSUME NEW P, \A t \in Tree : Parts(t) \subseteq P => t \in P
  PROVE  \A t \in Tree : t \in P
<1>1. Tree \subseteq P
  BY TreesAreNested, TreeInduction
<1>2. QED  BY <1>1

(* Recursion over them *)
LEMMA NodeRecursion ==
  ASSUME NEW S, NEW a \in S, NEW G, Descends(Tree, S, G)
  PROVE  Defines(Tree, S, G)
BY TreesAreNested, TreeRecursion

(* The parts are the subtrees of labels and forks. *)
LEMMA PartsOfNodes ==
  ASSUME NEW t
  PROVE  /\ Tag(t) = "labeled" => t[3] \in Parts(t)
         /\ Tag(t) = "fork" => t[2] \in Parts(t) /\ t[3] \in Parts(t)
BY DEF Parts

(* One step of LookupPath, with f for what it finds in the parts *)
PathStep(f, n, p) ==
  IF Opaque(n) THEN NotFound
  ELSE IF p = << >> THEN IF Tag(n) = "leaf" THEN n ELSE NotFound
  ELSE IF Tag(n) = "fork"
       THEN IF f[n[2]][p] # NotFound THEN f[n[2]][p] ELSE f[n[3]][p]
  ELSE IF Tag(n) = "labeled" /\ Head(p) = n[2] THEN f[n[3]][Tail(p)]
  ELSE NotFound

(* A path is its head and the path of the rest. *)
LEMMA TailIsPath ==
  ASSUME NEW p \in Path, p # << >>
  PROVE  Head(p) \in Labels /\ Tail(p) \in Path /\ p = <<Head(p)>> \o Tail(p)
BY DEF Path

(* _lookup_path is what its recursion says. *)
LEMMA LookupPathStep ==
  ASSUME NEW n \in Tree, NEW p \in Path
  PROVE  LookupPath(p, n) =
           IF Opaque(n) THEN NotFound
           ELSE IF p = << >> THEN IF Tag(n) = "leaf" THEN n ELSE NotFound
           ELSE IF Tag(n) = "fork"
                THEN IF LookupPath(p, n[2]) # NotFound THEN LookupPath(p, n[2])
                     ELSE LookupPath(p, n[3])
           ELSE IF Tag(n) = "labeled" /\ Head(p) = n[2] THEN LookupPath(Tail(p), n[3])
           ELSE NotFound
<1> DEFINE S == [Path -> Tree \cup {NotFound}]
           G == [f \in [Tree -> S] |-> [m \in Tree |-> [q \in Path |-> PathStep(f, m, q)]]]
<1>1. ASSUME NEW f \in [Tree -> S], NEW m \in Tree, NEW q \in Path
      PROVE  PathStep(f, m, q) \in Tree \cup {NotFound}
  <2>1. ASSUME Tag(m) = "fork" PROVE f[m[2]][q] \in Tree \cup {NotFound} /\ f[m[3]][q] \in Tree \cup {NotFound}
    BY <2>1, TreeKinds
  <2>2. ASSUME Tag(m) = "labeled", q # << >> PROVE f[m[3]][Tail(q)] \in Tree \cup {NotFound}
    <3>1. f[m[3]] \in S /\ Tail(q) \in Path
      BY <2>2, TreeKinds, TailIsPath
    <3>2. QED  BY <3>1
  <2>3. QED  BY <2>1, <2>2 DEF PathStep
<1>2. G \in [[Tree -> S] -> [Tree -> S]]
  <2>1. ASSUME NEW f \in [Tree -> S]
        PROVE  [m \in Tree |-> [q \in Path |-> PathStep(f, m, q)]] \in [Tree -> S]
    BY <1>1
  <2> HIDE DEF S
  <2>2. QED  BY <2>1
<1>3. ASSUME NEW f \in [Tree -> S], NEW g \in [Tree -> S], NEW t \in Tree,
             \A c \in Parts(t) : f[c] = g[c]
      PROVE  G[f][t] = G[g][t]
  <2>1. ASSUME NEW q \in Path PROVE PathStep(f, t, q) = PathStep(g, t, q)
    BY <1>3, PartsOfNodes DEF PathStep
  <2>2. G[f][t] = [q \in Path |-> PathStep(f, t, q)] /\ G[g][t] = [q \in Path |-> PathStep(g, t, q)]
    <3> HIDE DEF S
    <3>1. QED  OBVIOUS
  <2>3. QED  BY <2>1, <2>2
<1>4. [q \in Path |-> NotFound] \in S
  OBVIOUS
<1> HIDE DEF S, G
<1>5. PICK h \in [Tree -> S] : h = G[h]
  <2>1. Descends(Tree, S, G)
    BY <1>2, <1>3 DEF Descends
  <2>2. QED  BY <2>1, <1>4, NodeRecursion DEF Defines
<1> DEFINE Def(f) == f = [m \in Tree |-> [q \in Path |-> PathStep(f, m, q)]]
           look == CHOOSE f : Def(f)
<1>6. Def(h)
  BY <1>5 DEF G
<1> HIDE DEF Def
<1>7. Def(look)
  BY <1>6
<1>8. ASSUME NEW m, NEW q PROVE LookupPath(q, m) = look[m][q]
  BY DEF LookupPath, Def, PathStep, Matches, Tree
<1> HIDE DEF look
<1>9. look[n][p] = PathStep(look, n, p)
  BY <1>7 DEF Def
<1>10. QED  BY <1>8, <1>9 DEF PathStep

(* The same for LookupTree *)
TreeStep(f, n, p) ==
  IF Opaque(n) THEN NotFound
  ELSE IF p = << >> THEN n
  ELSE IF Tag(n) = "fork"
       THEN IF f[n[2]][p] # NotFound THEN f[n[2]][p] ELSE f[n[3]][p]
  ELSE IF Tag(n) = "labeled" /\ Head(p) = n[2] THEN f[n[3]][Tail(p)]
  ELSE NotFound

(* _lookup_tree_path is what its recursion says. *)
LEMMA LookupTreeStep ==
  ASSUME NEW n \in Tree, NEW p \in Path
  PROVE  LookupTree(p, n) =
           IF Opaque(n) THEN NotFound
           ELSE IF p = << >> THEN n
           ELSE IF Tag(n) = "fork"
                THEN IF LookupTree(p, n[2]) # NotFound THEN LookupTree(p, n[2])
                     ELSE LookupTree(p, n[3])
           ELSE IF Tag(n) = "labeled" /\ Head(p) = n[2] THEN LookupTree(Tail(p), n[3])
           ELSE NotFound
<1> DEFINE S == [Path -> Tree \cup {NotFound}]
           G == [f \in [Tree -> S] |-> [m \in Tree |-> [q \in Path |-> TreeStep(f, m, q)]]]
<1>1. ASSUME NEW f \in [Tree -> S], NEW m \in Tree, NEW q \in Path
      PROVE  TreeStep(f, m, q) \in Tree \cup {NotFound}
  <2>1. ASSUME Tag(m) = "fork" PROVE f[m[2]][q] \in Tree \cup {NotFound} /\ f[m[3]][q] \in Tree \cup {NotFound}
    BY <2>1, TreeKinds
  <2>2. ASSUME Tag(m) = "labeled", q # << >> PROVE f[m[3]][Tail(q)] \in Tree \cup {NotFound}
    <3>1. f[m[3]] \in S /\ Tail(q) \in Path
      BY <2>2, TreeKinds, TailIsPath
    <3>2. QED  BY <3>1
  <2>3. QED  BY <2>1, <2>2 DEF TreeStep
<1>2. G \in [[Tree -> S] -> [Tree -> S]]
  <2>1. ASSUME NEW f \in [Tree -> S]
        PROVE  [m \in Tree |-> [q \in Path |-> TreeStep(f, m, q)]] \in [Tree -> S]
    BY <1>1
  <2> HIDE DEF S
  <2>2. QED  BY <2>1
<1>3. ASSUME NEW f \in [Tree -> S], NEW g \in [Tree -> S], NEW t \in Tree,
             \A c \in Parts(t) : f[c] = g[c]
      PROVE  G[f][t] = G[g][t]
  <2>1. ASSUME NEW q \in Path PROVE TreeStep(f, t, q) = TreeStep(g, t, q)
    BY <1>3, PartsOfNodes DEF TreeStep
  <2>2. G[f][t] = [q \in Path |-> TreeStep(f, t, q)] /\ G[g][t] = [q \in Path |-> TreeStep(g, t, q)]
    <3> HIDE DEF S
    <3>1. QED  OBVIOUS
  <2>3. QED  BY <2>1, <2>2
<1>4. [q \in Path |-> NotFound] \in S
  OBVIOUS
<1> HIDE DEF S, G
<1>5. PICK h \in [Tree -> S] : h = G[h]
  <2>1. Descends(Tree, S, G)
    BY <1>2, <1>3 DEF Descends
  <2>2. QED  BY <2>1, <1>4, NodeRecursion DEF Defines
<1> DEFINE Def(f) == f = [m \in Tree |-> [q \in Path |-> TreeStep(f, m, q)]]
           look == CHOOSE f : Def(f)
<1>6. Def(h)
  BY <1>5 DEF G
<1> HIDE DEF Def
<1>7. Def(look)
  BY <1>6
<1>8. ASSUME NEW m, NEW q PROVE LookupTree(q, m) = look[m][q]
  BY DEF LookupTree, Def, TreeStep, Matches, Tree
<1> HIDE DEF look
<1>9. look[n][p] = TreeStep(look, n, p)
  BY <1>7 DEF Def
<1>10. QED  BY <1>8, <1>9 DEF TreeStep

(* and ListPaths *)
PathsStep(f, n, p) ==
  IF Opaque(n) THEN {}
  ELSE IF Tag(n) = "leaf" THEN {p}
  ELSE IF Tag(n) = "labeled" THEN f[n[3]][Append(p, n[2])]
  ELSE f[n[2]][p] \cup f[n[3]][p]

(* list_paths is what its recursion says. *)
LEMMA ListPathsStep ==
  ASSUME NEW n \in Tree, NEW p \in Path
  PROVE  ListPaths(n, p) =
           IF Opaque(n) THEN {}
           ELSE IF Tag(n) = "leaf" THEN {p}
           ELSE IF Tag(n) = "labeled" THEN ListPaths(n[3], Append(p, n[2]))
           ELSE ListPaths(n[2], p) \cup ListPaths(n[3], p)
<1> DEFINE S == [Path -> SUBSET Path]
           G == [f \in [Tree -> S] |-> [m \in Tree |-> [q \in Path |-> PathsStep(f, m, q)]]]
<1>1. ASSUME NEW f \in [Tree -> S], NEW m \in Tree, NEW q \in Path
      PROVE  PathsStep(f, m, q) \in SUBSET Path
  <2>1. ASSUME Tag(m) = "fork" PROVE f[m[2]][q] \in SUBSET Path /\ f[m[3]][q] \in SUBSET Path
    BY <2>1, TreeKinds
  <2>2. ASSUME Tag(m) = "labeled" PROVE f[m[3]][Append(q, m[2])] \in SUBSET Path
    <3>1. f[m[3]] \in S /\ Append(q, m[2]) \in Path
      BY <2>2, TreeKinds DEF Path
    <3>2. QED  BY <3>1
  <2>3. QED  BY <2>1, <2>2, TreeKinds DEF PathsStep, Opaque
<1>2. G \in [[Tree -> S] -> [Tree -> S]]
  <2>1. ASSUME NEW f \in [Tree -> S]
        PROVE  [m \in Tree |-> [q \in Path |-> PathsStep(f, m, q)]] \in [Tree -> S]
    BY <1>1
  <2> HIDE DEF S
  <2>2. QED  BY <2>1
<1>3. ASSUME NEW f \in [Tree -> S], NEW g \in [Tree -> S], NEW t \in Tree,
             \A c \in Parts(t) : f[c] = g[c]
      PROVE  G[f][t] = G[g][t]
  <2>1. ASSUME NEW q \in Path PROVE PathsStep(f, t, q) = PathsStep(g, t, q)
    BY <1>3, PartsOfNodes, TreeKinds DEF PathsStep, Opaque
  <2>2. G[f][t] = [q \in Path |-> PathsStep(f, t, q)] /\ G[g][t] = [q \in Path |-> PathsStep(g, t, q)]
    <3> HIDE DEF S
    <3>1. QED  OBVIOUS
  <2>3. QED  BY <2>1, <2>2
<1>4. [q \in Path |-> {}] \in S
  OBVIOUS
<1> HIDE DEF S, G
<1>5. PICK h \in [Tree -> S] : h = G[h]
  <2>1. Descends(Tree, S, G)
    BY <1>2, <1>3 DEF Descends
  <2>2. QED  BY <2>1, <1>4, NodeRecursion DEF Defines
<1> DEFINE Def(f) == f = [m \in Tree |-> [q \in Path |-> PathsStep(f, m, q)]]
           look == CHOOSE f : Def(f)
<1>6. Def(h)
  BY <1>5 DEF G
<1> HIDE DEF Def
<1>7. Def(look)
  BY <1>6
<1>8. ASSUME NEW m, NEW q PROVE ListPaths(m, q) = look[m][q]
  BY DEF ListPaths, Def, PathsStep, Tree
<1> HIDE DEF look
<1>9. look[n][p] = PathsStep(look, n, p)
  BY <1>7 DEF Def
<1>10. QED  BY <1>8, <1>9 DEF PathsStep

(* The trees of any height *)
AnyNested(ends) == UNION {Nested(ends, h) : h \in Nat}

(* Trees of any height are closed under labels and forks. *)
LEMMA AnyNestedGrows ==
  ASSUME NEW ends, NEW a \in AnyNested(ends), NEW b \in AnyNested(ends)
  PROVE  /\ Fork(a, b) \in AnyNested(ends)
         /\ \A l \in Labels : Labeled(l, a) \in AnyNested(ends)
<1>1. PICK i \in Nat : a \in Nested(ends, i)
  BY DEF AnyNested
<1>2. PICK j \in Nat : b \in Nested(ends, j)
  BY DEF AnyNested
<1>3. PICK k \in Nat : i <= k /\ j <= k
  <2>1. CASE i <= j
    BY <2>1
  <2>2. CASE j <= i
    BY <2>2
  <2>3. QED  BY <2>1, <2>2
<1>4. a \in Nested(ends, k) /\ b \in Nested(ends, k)
  BY <1>1, <1>2, <1>3, NestedMonotone
<1>5. /\ Fork(a, b) \in Grown(ends, Nested(ends, k))
      /\ \A l \in Labels : Labeled(l, a) \in Grown(ends, Nested(ends, k))
  BY <1>4 DEF Labeled, Fork, Grown
<1>6. Grown(ends, Nested(ends, k)) = Nested(ends, k + 1) /\ k + 1 \in Nat
  BY NestedSteps
<1>7. QED  BY <1>5, <1>6 DEF AnyNested

(* They have the nodes without children. *)
LEMMA AnyNestedEnds ==
  ASSUME NEW ends
  PROVE  ends \subseteq AnyNested(ends)
<1>1. Nested(ends, 0) = ends
  BY NestedSteps
<1>2. QED  BY <1>1 DEF AnyNested

(* One step of Digest *)
DigestOf(f, n) ==
  IF Tag(n) = "pruned" THEN n[2]
  ELSE IF Tag(n) = "labeled" THEN Labeled(n[2], f[n[3]])
  ELSE IF Tag(n) = "fork" THEN Fork(f[n[2]], f[n[3]])
  ELSE n

(* tree_digest is what its recursion says. *)
LEMMA DigestStep ==
  ASSUME NEW n \in Tree
  PROVE  Digest(n) =
           IF Tag(n) = "pruned" THEN n[2]
           ELSE IF Tag(n) = "labeled" THEN Labeled(n[2], Digest(n[3]))
           ELSE IF Tag(n) = "fork" THEN Fork(Digest(n[2]), Digest(n[3]))
           ELSE n
<1> DEFINE S == AnyNested(Tree \cup FullTree)
           G == [f \in [Tree -> S] |-> [m \in Tree |-> DigestOf(f, m)]]
<1>0. Tree \cup FullTree \subseteq S
  BY AnyNestedEnds
<1>1. ASSUME NEW f \in [Tree -> S], NEW m \in Tree
      PROVE  DigestOf(f, m) \in S
  <2>1. ASSUME Tag(m) = "fork" PROVE Fork(f[m[2]], f[m[3]]) \in S
    <3>1. f[m[2]] \in S /\ f[m[3]] \in S
      BY <2>1, TreeKinds
    <3>2. QED  BY <3>1, AnyNestedGrows
  <2>2. ASSUME Tag(m) = "labeled" PROVE Labeled(m[2], f[m[3]]) \in S
    <3>1. f[m[3]] \in S /\ m[2] \in Labels
      BY <2>2, TreeKinds
    <3>2. QED  BY <3>1, AnyNestedGrows
  <2>3. Tag(m) = "pruned" => m[2] \in S
    BY <1>0, TreeKinds
  <2>4. m \in S
    BY <1>0
  <2>5. QED  BY <2>1, <2>2, <2>3, <2>4 DEF DigestOf
<1> HIDE DEF S
<1>2. G \in [[Tree -> S] -> [Tree -> S]]
  BY <1>1
<1>3. ASSUME NEW f \in [Tree -> S], NEW g \in [Tree -> S], NEW t \in Tree,
             \A c \in Parts(t) : f[c] = g[c]
      PROVE  G[f][t] = G[g][t]
  BY <1>3, PartsOfNodes DEF DigestOf
<1> HIDE DEF G
<1>4. PICK h \in [Tree -> S] : h = G[h]
  <2>1. Descends(Tree, S, G)
    BY <1>2, <1>3 DEF Descends
  <2>2. n \in S
    BY <1>0
  <2>3. QED  BY <2>1, <2>2, NodeRecursion DEF Defines
<1> DEFINE Def(f) == f = [m \in Tree |-> DigestOf(f, m)]
           digest == CHOOSE f : Def(f)
<1>5. Def(h)
  BY <1>4 DEF G
<1> HIDE DEF Def
<1>6. Def(digest)
  BY <1>5
<1>7. ASSUME NEW m PROVE Digest(m) = digest[m]
  BY DEF Digest, Def, DigestOf, Tree
<1> HIDE DEF digest
<1>8. digest[n] = DigestOf(digest, n)
  BY <1>6 DEF Def
<1>9. QED  BY <1>7, <1>8 DEF DigestOf

(* One step of Cutbacks *)
CutStep(f, n) ==
  IF Opaque(n) THEN {}
  ELSE {Pruned(Digest(n))}
       \cup (IF Tag(n) = "fork"
             THEN {Fork(t, n[3]) : t \in f[n[2]]} \cup {Fork(n[2], t) : t \in f[n[3]]}
             ELSE IF Tag(n) = "labeled" THEN {Labeled(n[2], t) : t \in f[n[3]]}
             ELSE {})

(* Cutbacks is what its recursion says. *)
LEMMA CutbacksStep ==
  ASSUME NEW n \in Tree
  PROVE  Cutbacks(n) =
           IF Opaque(n) THEN {}
           ELSE {Pruned(Digest(n))}
                \cup (IF Tag(n) = "fork"
                      THEN {Fork(t, n[3]) : t \in Cutbacks(n[2])}
                           \cup {Fork(n[2], t) : t \in Cutbacks(n[3])}
                      ELSE IF Tag(n) = "labeled" THEN {Labeled(n[2], t) : t \in Cutbacks(n[3])}
                      ELSE {})
<1> DEFINE A == AnyNested(Tree \cup {Pruned(Digest(m)) : m \in Tree})
           S == SUBSET A
           G == [f \in [Tree -> S] |-> [m \in Tree |-> CutStep(f, m)]]
<1>0. Tree \subseteq A /\ \A m \in Tree : Pruned(Digest(m)) \in A
  <2>1. Tree \cup {Pruned(Digest(m)) : m \in Tree} \subseteq A
    BY AnyNestedEnds
  <2> HIDE DEF A
  <2>2. QED  BY <2>1
<1>a. \A a, b \in A : Fork(a, b) \in A /\ \A l \in Labels : Labeled(l, a) \in A
  BY AnyNestedGrows
<1> HIDE DEF A
<1>1. ASSUME NEW f \in [Tree -> S], NEW m \in Tree
      PROVE  CutStep(f, m) \in S
  <2>1. ASSUME Tag(m) = "fork"
        PROVE  {Fork(t, m[3]) : t \in f[m[2]]} \cup {Fork(m[2], t) : t \in f[m[3]]} \in S
    <3>1. f[m[2]] \subseteq A /\ f[m[3]] \subseteq A /\ m[2] \in A /\ m[3] \in A
      BY <1>0, <2>1, TreeKinds
    <3>2. QED  BY <1>a, <3>1
  <2>2. ASSUME Tag(m) = "labeled" PROVE {Labeled(m[2], t) : t \in f[m[3]]} \in S
    <3>1. f[m[3]] \subseteq A /\ m[2] \in Labels
      BY <2>2, TreeKinds
    <3>2. QED  BY <1>a, <3>1
  <2>3. {Pruned(Digest(m))} \in S
    BY <1>0
  <2>4. QED  BY <2>1, <2>2, <2>3 DEF CutStep
<1> HIDE DEF S
<1>2. G \in [[Tree -> S] -> [Tree -> S]]
  BY <1>1
<1>3. ASSUME NEW f \in [Tree -> S], NEW g \in [Tree -> S], NEW t \in Tree,
             \A c \in Parts(t) : f[c] = g[c]
      PROVE  G[f][t] = G[g][t]
  BY <1>3, PartsOfNodes DEF CutStep
<1> HIDE DEF G
<1>4. PICK h \in [Tree -> S] : h = G[h]
  <2>1. Descends(Tree, S, G)
    BY <1>2, <1>3 DEF Descends
  <2>2. {} \in S
    BY DEF S
  <2>3. QED  BY <2>1, <2>2, NodeRecursion DEF Defines
<1> DEFINE Def(f) == f = [m \in Tree |-> CutStep(f, m)]
           cut == CHOOSE f : Def(f)
<1>5. Def(h)
  BY <1>4 DEF G
<1> HIDE DEF Def
<1>6. Def(cut)
  BY <1>5
<1>7. ASSUME NEW m PROVE Cutbacks(m) = cut[m]
  BY DEF Cutbacks, Def, CutStep, Tree
<1> HIDE DEF cut
<1>8. cut[n] = CutStep(cut, n)
  BY <1>6 DEF Def
<1>9. QED  BY <1>7, <1>8 DEF CutStep
-----------------------------------------------------------------------------
(* What is at the end of a path                                             *)

(* All the nodes at the end of a path: what a lookup may find there *)
NodesStep(f, n, p) ==
  IF Opaque(n) THEN {}
  ELSE IF p = << >> THEN {n}
  ELSE IF Tag(n) = "fork" THEN f[n[2]][p] \cup f[n[3]][p]
  ELSE IF Tag(n) = "labeled" /\ Head(p) = n[2] THEN f[n[3]][Tail(p)]
  ELSE {}

NodesAt(path, node) ==
  LET nodes[n \in Tree] == [p \in Path |-> NodesStep(nodes, n, p)]
  IN  nodes[node][path]

(* NodesAt is what its recursion says. *)
LEMMA NodesAtStep ==
  ASSUME NEW n \in Tree, NEW p \in Path
  PROVE  NodesAt(p, n) =
           IF Opaque(n) THEN {}
           ELSE IF p = << >> THEN {n}
           ELSE IF Tag(n) = "fork" THEN NodesAt(p, n[2]) \cup NodesAt(p, n[3])
           ELSE IF Tag(n) = "labeled" /\ Head(p) = n[2] THEN NodesAt(Tail(p), n[3])
           ELSE {}
<1> DEFINE S == [Path -> SUBSET Tree]
           G == [f \in [Tree -> S] |-> [m \in Tree |-> [q \in Path |-> NodesStep(f, m, q)]]]
<1>1. ASSUME NEW f \in [Tree -> S], NEW m \in Tree, NEW q \in Path
      PROVE  NodesStep(f, m, q) \in SUBSET Tree
  <2>1. ASSUME Tag(m) = "fork" PROVE f[m[2]][q] \in SUBSET Tree /\ f[m[3]][q] \in SUBSET Tree
    BY <2>1, TreeKinds
  <2>2. ASSUME Tag(m) = "labeled", q # << >> PROVE f[m[3]][Tail(q)] \in SUBSET Tree
    <3>1. f[m[3]] \in S /\ Tail(q) \in Path
      BY <2>2, TreeKinds, TailIsPath
    <3>2. QED  BY <3>1
  <2>3. QED  BY <2>1, <2>2 DEF NodesStep
<1>2. G \in [[Tree -> S] -> [Tree -> S]]
  <2>1. ASSUME NEW f \in [Tree -> S]
        PROVE  [m \in Tree |-> [q \in Path |-> NodesStep(f, m, q)]] \in [Tree -> S]
    BY <1>1
  <2> HIDE DEF S
  <2>2. QED  BY <2>1
<1>3. ASSUME NEW f \in [Tree -> S], NEW g \in [Tree -> S], NEW t \in Tree,
             \A c \in Parts(t) : f[c] = g[c]
      PROVE  G[f][t] = G[g][t]
  <2>1. ASSUME NEW q \in Path PROVE NodesStep(f, t, q) = NodesStep(g, t, q)
    BY <1>3, PartsOfNodes DEF NodesStep
  <2>2. G[f][t] = [q \in Path |-> NodesStep(f, t, q)] /\ G[g][t] = [q \in Path |-> NodesStep(g, t, q)]
    <3> HIDE DEF S
    <3>1. QED  OBVIOUS
  <2>3. QED  BY <2>1, <2>2
<1>4. [q \in Path |-> {}] \in S
  OBVIOUS
<1> HIDE DEF S, G
<1>5. PICK h \in [Tree -> S] : h = G[h]
  <2>1. Descends(Tree, S, G)
    BY <1>2, <1>3 DEF Descends
  <2>2. QED  BY <2>1, <1>4, NodeRecursion DEF Defines
<1> DEFINE Def(f) == f = [m \in Tree |-> [q \in Path |-> NodesStep(f, m, q)]]
           nodes == CHOOSE f : Def(f)
<1>6. Def(h)
  BY <1>5 DEF G
<1> HIDE DEF Def
<1>7. Def(nodes)
  BY <1>6
<1>8. ASSUME NEW m, NEW q PROVE NodesAt(q, m) = nodes[m][q]
  BY DEF NodesAt, Def
<1> HIDE DEF nodes
<1>9. nodes[n][p] = NodesStep(nodes, n, p)
  BY <1>7 DEF Def
<1>10. QED  BY <1>8, <1>9 DEF NodesStep

-----------------------------------------------------------------------------
(* What a lookup finds, and what a digest keeps                            *)

(* What a lookup returns for nothing is no tree. *)
LEMMA NotFoundIsNoTree == NotFound \notin Tree
<1> SUFFICES ASSUME NotFound \in Tree PROVE FALSE
  OBVIOUS
<1>1. Tag(NotFound) = "not found"
  BY DEF NotFound, Tag
<1>2. Tag(NotFound) \in {"empty", "leaf", "pruned", "labeled", "fork"}
  BY TreeKinds
<1>3. QED  BY <1>1, <1>2

(* Nodes at the end of a path are trees, and a lookup can look into them. *)
LEMMA NodesAreTrees ==
  ASSUME NEW t \in Tree, NEW p \in Path, NEW u \in NodesAt(p, t)
  PROVE  u \in Tree /\ ~ Opaque(u) /\ u # NotFound
<1> DEFINE P == {n \in Tree : \A q \in Path : \A v \in NodesAt(q, n) : v \in Tree /\ ~ Opaque(v)}
<1>1. ASSUME NEW n \in Tree, Parts(n) \subseteq P PROVE n \in P
  <2> SUFFICES ASSUME NEW q \in Path, NEW v \in NodesAt(q, n) PROVE v \in Tree /\ ~ Opaque(v)
    OBVIOUS
  <2>1. CASE q = << >>
    BY <2>1, NodesAtStep
  <2>2. CASE q # << >> /\ Tag(n) = "fork"
    BY <1>1, <2>2, NodesAtStep, PartsOfNodes
  <2>3. CASE q # << >> /\ Tag(n) = "labeled"
    BY <1>1, <2>3, NodesAtStep, PartsOfNodes, TailIsPath
  <2>4. QED  BY <2>1, <2>2, <2>3, NodesAtStep
<1> HIDE DEF P
<1>2. t \in P
  BY <1>1, NodeInduction
<1>3. u \in Tree /\ ~ Opaque(u)
  BY <1>2 DEF P
<1>4. QED  BY <1>3, NotFoundIsNoTree

(* A lookup finds a leaf at the end of the path, and one if there is any. *)
LEMMA LookupPathFinds ==
  ASSUME NEW t \in Tree, NEW p \in Path
  PROVE  /\ LookupPath(p, t) # NotFound =>
              LookupPath(p, t) \in NodesAt(p, t) /\ Tag(LookupPath(p, t)) = "leaf"
         /\ (\E u \in NodesAt(p, t) : Tag(u) = "leaf") => LookupPath(p, t) # NotFound
<1> DEFINE Q(n, q) ==
             /\ LookupPath(q, n) # NotFound =>
                  LookupPath(q, n) \in NodesAt(q, n) /\ Tag(LookupPath(q, n)) = "leaf"
             /\ (\E u \in NodesAt(q, n) : Tag(u) = "leaf") => LookupPath(q, n) # NotFound
           P == {n \in Tree : \A q \in Path : Q(n, q)}
<1>1. ASSUME NEW n \in Tree, Parts(n) \subseteq P PROVE n \in P
  <2> SUFFICES ASSUME NEW q \in Path PROVE Q(n, q)
    OBVIOUS
  <2>1. CASE Opaque(n)
    BY <2>1, NodesAtStep, LookupPathStep
  <2>2. CASE ~ Opaque(n) /\ q = << >>
    <3>1. n # NotFound
      BY NotFoundIsNoTree
    <3>2. QED  BY <2>2, <3>1, NodesAtStep, LookupPathStep
  <2>3. CASE ~ Opaque(n) /\ q # << >> /\ Tag(n) = "fork"
    <3>1. Q(n[2], q) /\ Q(n[3], q)
      BY <1>1, <2>3, PartsOfNodes
    <3>2. NodesAt(q, n) = NodesAt(q, n[2]) \cup NodesAt(q, n[3])
      BY <2>3, NodesAtStep
    <3>3. LookupPath(q, n) = IF LookupPath(q, n[2]) # NotFound THEN LookupPath(q, n[2])
                             ELSE LookupPath(q, n[3])
      BY <2>3, LookupPathStep
    <3>4. QED  BY <3>1, <3>2, <3>3
  <2>4. CASE ~ Opaque(n) /\ q # << >> /\ Tag(n) = "labeled" /\ Head(q) = n[2]
    <3>1. Q(n[3], Tail(q))
      BY <1>1, <2>4, PartsOfNodes, TailIsPath
    <3>2. NodesAt(q, n) = NodesAt(Tail(q), n[3]) /\ LookupPath(q, n) = LookupPath(Tail(q), n[3])
      BY <2>4, NodesAtStep, LookupPathStep
    <3>3. QED  BY <3>1, <3>2
  <2>5. CASE ~ Opaque(n) /\ q # << >> /\ Tag(n) # "fork" /\ ~ (Tag(n) = "labeled" /\ Head(q) = n[2])
    BY <2>5, NodesAtStep, LookupPathStep
  <2>6. QED  BY <2>1, <2>2, <2>3, <2>4, <2>5
<1> HIDE DEF P
<1>2. t \in P
  BY <1>1, NodeInduction
<1>3. QED  BY <1>2 DEF P

(* The same for the node, whatever it is *)
LEMMA LookupTreeFinds ==
  ASSUME NEW t \in Tree, NEW p \in Path
  PROVE  /\ LookupTree(p, t) # NotFound => LookupTree(p, t) \in NodesAt(p, t)
         /\ NodesAt(p, t) # {} => LookupTree(p, t) # NotFound
<1> DEFINE Q(n, q) ==
             /\ LookupTree(q, n) # NotFound => LookupTree(q, n) \in NodesAt(q, n)
             /\ NodesAt(q, n) # {} => LookupTree(q, n) # NotFound
           P == {n \in Tree : \A q \in Path : Q(n, q)}
<1>1. ASSUME NEW n \in Tree, Parts(n) \subseteq P PROVE n \in P
  <2> SUFFICES ASSUME NEW q \in Path PROVE Q(n, q)
    OBVIOUS
  <2>1. CASE Opaque(n)
    BY <2>1, NodesAtStep, LookupTreeStep
  <2>2. CASE ~ Opaque(n) /\ q = << >>
    <3>1. n # NotFound
      BY NotFoundIsNoTree
    <3>2. QED  BY <2>2, <3>1, NodesAtStep, LookupTreeStep
  <2>3. CASE ~ Opaque(n) /\ q # << >> /\ Tag(n) = "fork"
    <3>1. Q(n[2], q) /\ Q(n[3], q)
      BY <1>1, <2>3, PartsOfNodes
    <3>2. NodesAt(q, n) = NodesAt(q, n[2]) \cup NodesAt(q, n[3])
      BY <2>3, NodesAtStep
    <3>3. LookupTree(q, n) = IF LookupTree(q, n[2]) # NotFound THEN LookupTree(q, n[2])
                             ELSE LookupTree(q, n[3])
      BY <2>3, LookupTreeStep
    <3>4. QED  BY <3>1, <3>2, <3>3
  <2>4. CASE ~ Opaque(n) /\ q # << >> /\ Tag(n) = "labeled" /\ Head(q) = n[2]
    <3>1. Q(n[3], Tail(q))
      BY <1>1, <2>4, PartsOfNodes, TailIsPath
    <3>2. NodesAt(q, n) = NodesAt(Tail(q), n[3]) /\ LookupTree(q, n) = LookupTree(Tail(q), n[3])
      BY <2>4, NodesAtStep, LookupTreeStep
    <3>3. QED  BY <3>1, <3>2
  <2>5. CASE ~ Opaque(n) /\ q # << >> /\ Tag(n) # "fork" /\ ~ (Tag(n) = "labeled" /\ Head(q) = n[2])
    BY <2>5, NodesAtStep, LookupTreeStep
  <2>6. QED  BY <2>1, <2>2, <2>3, <2>4, <2>5
<1> HIDE DEF P
<1>2. t \in P
  BY <1>1, NodeInduction
<1>3. QED  BY <1>2 DEF P

(* A tree without pruned parts is a tree, and its own digest. *)
LEMMA FullTreesAreTrees == FullTree \subseteq Tree
<1> DEFINE S == {h \in Nat : Nested(Ends, h) \subseteq Nested(CutEnds, h)}
<1>1. 0 \in S
  BY NestedSteps DEF CutEnds
<1>2. ASSUME NEW h \in Nat, h \in S PROVE h + 1 \in S
  <2>1. /\ Nested(Ends, h + 1) = Grown(Ends, Nested(Ends, h))
        /\ Nested(CutEnds, h + 1) = Grown(CutEnds, Nested(CutEnds, h))
    BY NestedSteps
  <2>2. Nested(Ends, h) \subseteq Nested(CutEnds, h) /\ Ends \subseteq CutEnds
    BY <1>2 DEF CutEnds
  <2>3. Grown(Ends, Nested(Ends, h)) \subseteq Grown(CutEnds, Nested(CutEnds, h))
    BY <2>2 DEF Grown
  <2>4. QED  BY <2>1, <2>3
<1> HIDE DEF S
<1>3. \A h \in Nat : h \in S
  BY <1>1, <1>2, Induction
<1>4. QED  BY <1>3, TreesAreNested DEF S

(* A whole tree has no pruned part. *)
LEMMA FullTreeKinds ==
  ASSUME NEW t \in FullTree
  PROVE  /\ t \in Tree
         /\ Tag(t) \in {"empty", "leaf", "labeled", "fork"}
         /\ Tag(t) = "labeled" => t[3] \in FullTree
         /\ Tag(t) = "fork" => t[2] \in FullTree /\ t[3] \in FullTree
<1>1. t \in Tree
  BY FullTreesAreTrees
<1>2. CASE t \in Ends
  BY <1>1, <1>2 DEF Ends, Empty, Tag
<1>3. CASE t \notin Ends
  <2>1. \/ Tag(t) = "labeled" /\ t[3] \in FullTree
        \/ Tag(t) = "fork" /\ t[2] \in FullTree /\ t[3] \in FullTree
    BY <1>3, TreesAreNested, NestedKinds
  <2>2. QED  BY <1>1, <2>1
<1>4. QED  BY <1>2, <1>3

(* A whole tree is its own digest. *)
LEMMA DigestOfFull ==
  ASSUME NEW t \in FullTree
  PROVE  Digest(t) = t
<1> DEFINE P == {n \in FullTree : Digest(n) = n}
<1>1. ASSUME NEW n \in FullTree, Parts(n) \subseteq P PROVE n \in P
  <2>1. n \in Tree /\ Tag(n) # "pruned"
    BY FullTreeKinds
  <2>2. CASE Tag(n) = "labeled"
    <3>1. Digest(n) = Labeled(n[2], Digest(n[3])) /\ n = Labeled(n[2], n[3])
      BY <2>1, <2>2, DigestStep, TreeKinds
    <3>2. Digest(n[3]) = n[3]
      BY <1>1, <2>2, PartsOfNodes
    <3>3. QED  BY <3>1, <3>2
  <2>3. CASE Tag(n) = "fork"
    <3>1. Digest(n) = Fork(Digest(n[2]), Digest(n[3])) /\ n = Fork(n[2], n[3])
      BY <2>1, <2>3, DigestStep, TreeKinds
    <3>2. Digest(n[2]) = n[2] /\ Digest(n[3]) = n[3]
      BY <1>1, <2>3, PartsOfNodes
    <3>3. QED  BY <3>1, <3>2
  <2>4. CASE Tag(n) # "labeled" /\ Tag(n) # "fork"
    BY <2>1, <2>4, DigestStep
  <2>5. QED  BY <2>2, <2>3, <2>4
<1> HIDE DEF P
<1>2. FullTree \subseteq P
  BY <1>1, TreesAreNested, TreeInduction
<1>3. QED  BY <1>2 DEF P

(* The parts of a tree have digests that are parts of its digest. *)
LEMMA DigestParts ==
  ASSUME NEW t \in Tree, Digest(t) \in FullTree
  PROVE  /\ Tag(t) = "labeled" => Digest(t[3]) \in FullTree
         /\ Tag(t) = "fork" => Digest(t[2]) \in FullTree /\ Digest(t[3]) \in FullTree
<1>1. CASE Tag(t) = "labeled"
  <2>1. Digest(t) = Labeled(t[2], Digest(t[3]))
    BY <1>1, DigestStep
  <2>2. Tag(Digest(t)) = "labeled" /\ Digest(t)[3] = Digest(t[3])
    BY <2>1 DEF Labeled, Tag
  <2>3. QED  BY <1>1, <2>2, FullTreeKinds
<1>2. CASE Tag(t) = "fork"
  <2>1. Digest(t) = Fork(Digest(t[2]), Digest(t[3]))
    BY <1>2, DigestStep
  <2>2. Tag(Digest(t)) = "fork" /\ Digest(t)[2] = Digest(t[2]) /\ Digest(t)[3] = Digest(t[3])
    BY <2>1 DEF Fork, Tag
  <2>3. QED  BY <1>2, <2>2, FullTreeKinds
<1>3. QED  BY <1>1, <1>2

(* A node in sight is of the kind of its digest, and so are its parts. *)
LEMMA DigestTag ==
  ASSUME NEW t \in Tree, ~ Opaque(t)
  PROVE  /\ Tag(Digest(t)) = Tag(t)
         /\ Tag(t) = "leaf" => Digest(t) = t
         /\ Tag(t) = "labeled" => Digest(t)[2] = t[2] /\ Digest(t)[3] = Digest(t[3])
         /\ Tag(t) = "fork" => Digest(t)[2] = Digest(t[2]) /\ Digest(t)[3] = Digest(t[3])
<1>1. CASE Tag(t) = "labeled"
  <2>1. Digest(t) = Labeled(t[2], Digest(t[3]))
    BY <1>1, DigestStep
  <2>2. QED  BY <1>1, <2>1 DEF Labeled, Tag
<1>2. CASE Tag(t) = "fork"
  <2>1. Digest(t) = Fork(Digest(t[2]), Digest(t[3]))
    BY <1>2, DigestStep
  <2>2. QED  BY <1>2, <2>1 DEF Fork, Tag
<1>3. CASE Tag(t) = "leaf"
  BY <1>3, DigestStep
<1>4. QED  BY <1>1, <1>2, <1>3, TreeKinds DEF Opaque

(* What a pruned tree shows is in the signed tree, at the same path. *)
LEMMA NodesOfDigest ==
  ASSUME NEW t \in Tree, Digest(t) \in FullTree, NEW p \in Path, NEW u \in NodesAt(p, t)
  PROVE  Digest(u) \in NodesAt(p, Digest(t)) /\ Digest(u) \in FullTree
<1> DEFINE Q(n, q) == \A v \in NodesAt(q, n) :
                         Digest(v) \in NodesAt(q, Digest(n)) /\ Digest(v) \in FullTree
           P == {n \in Tree : Digest(n) \in FullTree => \A q \in Path : Q(n, q)}
<1>1. ASSUME NEW n \in Tree, Parts(n) \subseteq P PROVE n \in P
  <2> SUFFICES ASSUME Digest(n) \in FullTree, NEW q \in Path PROVE Q(n, q)
    OBVIOUS
  <2>0. Digest(n) \in Tree
    BY FullTreesAreTrees
  <2>1. CASE Opaque(n)
    BY <2>1, NodesAtStep
  <2>2. CASE ~ Opaque(n) /\ q = << >>
    <3>1. ~ Opaque(Digest(n))
      BY <2>2, DigestTag DEF Opaque
    <3>2. QED  BY <2>0, <2>2, <3>1, NodesAtStep
  <2>3. CASE ~ Opaque(n) /\ q # << >> /\ Tag(n) = "fork"
    <3>1. Q(n[2], q) /\ Q(n[3], q)
      BY <1>1, <2>3, PartsOfNodes, DigestParts
    <3>2. NodesAt(q, n) = NodesAt(q, n[2]) \cup NodesAt(q, n[3])
      BY <2>3, NodesAtStep
    <3>3. ~ Opaque(Digest(n)) /\ Tag(Digest(n)) = "fork"
      BY <2>3, DigestTag DEF Opaque
    <3>4. NodesAt(q, Digest(n)) = NodesAt(q, Digest(n[2])) \cup NodesAt(q, Digest(n[3]))
      BY <2>0, <2>3, <3>3, NodesAtStep, DigestTag
    <3>5. QED  BY <3>1, <3>2, <3>4
  <2>4. CASE ~ Opaque(n) /\ q # << >> /\ Tag(n) = "labeled" /\ Head(q) = n[2]
    <3>1. Q(n[3], Tail(q))
      BY <1>1, <2>4, PartsOfNodes, DigestParts, TailIsPath
    <3>2. NodesAt(q, n) = NodesAt(Tail(q), n[3])
      BY <2>4, NodesAtStep
    <3>3. ~ Opaque(Digest(n)) /\ Tag(Digest(n)) = "labeled"
      BY <2>4, DigestTag DEF Opaque
    <3>4. NodesAt(q, Digest(n)) = NodesAt(Tail(q), Digest(n[3]))
      BY <2>0, <2>4, <3>3, NodesAtStep, DigestTag
    <3>5. QED  BY <3>1, <3>2, <3>4
  <2>5. CASE ~ Opaque(n) /\ q # << >> /\ Tag(n) # "fork" /\ ~ (Tag(n) = "labeled" /\ Head(q) = n[2])
    BY <2>5, NodesAtStep
  <2>6. QED  BY <2>1, <2>2, <2>3, <2>4, <2>5
<1> HIDE DEF P
<1>2. t \in P
  BY <1>1, NodeInduction
<1>3. QED  BY <1>2 DEF P

(* Pruning once more keeps the digest. *)
LEMMA CutbacksKeep ==
  ASSUME NEW t \in Tree, Digest(t) \in FullTree, NEW u \in Cutbacks(t)
  PROVE  u \in Tree /\ Digest(u) = Digest(t)
<1> DEFINE N(h) == Nested(CutEnds, h)
           Q(n, h) == \A v \in Cutbacks(n) : v \in N(h) /\ Digest(v) = Digest(n)
           H == {h \in 0 .. MaxHeight : \A n \in N(h) : Digest(n) \in FullTree => Q(n, h)}
<1>0. MaxHeight \in Nat /\ AreEnds(CutEnds) /\ Tree = N(MaxHeight)
  BY TreesAreNested
<1>1. ASSUME NEW h \in 0 .. MaxHeight, h = 0 \/ h - 1 \in H PROVE h \in H
  <2> SUFFICES ASSUME NEW n \in N(h), Digest(n) \in FullTree, NEW v \in Cutbacks(n)
               PROVE  v \in N(h) /\ Digest(v) = Digest(n)
    OBVIOUS
  <2>1. h \in Nat /\ h <= MaxHeight
    BY <1>0
  <2>2. n \in Tree /\ N(h) \subseteq Tree
    BY <1>0, <2>1, NestedMonotone
  <2>3. CASE v = Pruned(Digest(n))
    <3>1. v \in CutEnds
      BY <2>3 DEF CutEnds, Pruned
    <3>2. CutEnds \subseteq N(h)
      <4>1. 0 \in Nat /\ 0 <= h /\ Nested(CutEnds, 0) = CutEnds
        BY <2>1, NestedSteps
      <4>2. Nested(CutEnds, 0) \subseteq Nested(CutEnds, h)
        BY <2>1, <4>1, NestedMonotone
      <4>3. QED  BY <4>1, <4>2
    <3>3. Tag(v) = "pruned" /\ v[2] = Digest(n)
      BY <2>3 DEF Pruned, Tag
    <3>4. Digest(v) = Digest(n)
      BY <2>2, <3>1, <3>2, <3>3, DigestStep
    <3>5. QED  BY <3>1, <3>2, <3>4
  <2>4. ASSUME Parts(n) # {}
        PROVE  /\ h - 1 \in H /\ Parts(n) \subseteq N(h - 1)
               /\ \A a, b \in N(h - 1) : Fork(a, b) \in N(h)
               /\ \A l \in Labels, a \in N(h - 1) : Labeled(l, a) \in N(h)
    <3>1. h # 0
      BY <2>1, <2>4, <1>0, PartsAreLower
    <3>2. h - 1 \in Nat /\ (h - 1) + 1 = h /\ h > 0
      BY <2>1, <3>1
    <3>3. N((h - 1) + 1) = Grown(CutEnds, N(h - 1))
      BY <3>2, NestedSteps
    <3>4. N(h) = Grown(CutEnds, N(h - 1))
      BY <3>2, <3>3
    <3>5. Parts(n) \subseteq N(h - 1)
      BY <1>0, <2>1, <3>2, PartsAreLower
    <3>6. \A a, b \in N(h - 1) : Fork(a, b) \in N(h)
      BY <3>4 DEF Grown, Fork
    <3>7. \A l \in Labels, a \in N(h - 1) : Labeled(l, a) \in N(h)
      BY <3>4 DEF Grown, Labeled
    <3>8. QED  BY <1>1, <3>1, <3>5, <3>6, <3>7
  <2>5. CASE Tag(n) = "labeled" /\ v \in {Labeled(n[2], t1) : t1 \in Cutbacks(n[3])}
    <3>1. PICK w \in Cutbacks(n[3]) : v = Labeled(n[2], w)
      BY <2>5
    <3>2. n[3] \in Parts(n) /\ Digest(n[3]) \in FullTree /\ n[2] \in Labels
      BY <2>2, <2>5, PartsOfNodes, DigestParts, TreeKinds
    <3>3. w \in N(h - 1) /\ Digest(w) = Digest(n[3])
      BY <2>4, <3>2
    <3>4. v \in N(h)
      BY <2>4, <3>1, <3>2, <3>3
    <3>5. Tag(v) = "labeled" /\ v[2] = n[2] /\ v[3] = w
      BY <3>1 DEF Labeled, Tag
    <3>6. Digest(v) = Labeled(n[2], Digest(w))
      BY <2>2, <3>4, <3>5, DigestStep
    <3>7. Digest(n) = Labeled(n[2], Digest(n[3]))
      BY <2>2, <2>5, DigestStep
    <3>8. QED  BY <3>3, <3>4, <3>6, <3>7
  <2>6. CASE Tag(n) = "fork" /\ v \in {Fork(t1, n[3]) : t1 \in Cutbacks(n[2])}
    <3>1. PICK w \in Cutbacks(n[2]) : v = Fork(w, n[3])
      BY <2>6
    <3>2. n[2] \in Parts(n) /\ n[3] \in Parts(n) /\ Digest(n[2]) \in FullTree
      BY <2>2, <2>6, PartsOfNodes, DigestParts
    <3>3. w \in N(h - 1) /\ Digest(w) = Digest(n[2]) /\ n[3] \in N(h - 1)
      BY <2>4, <3>2
    <3>4. v \in N(h)
      BY <2>4, <3>1, <3>2, <3>3
    <3>5. Tag(v) = "fork" /\ v[2] = w /\ v[3] = n[3]
      BY <3>1 DEF Fork, Tag
    <3>6. Digest(v) = Fork(Digest(w), Digest(n[3]))
      BY <2>2, <3>4, <3>5, DigestStep
    <3>7. Digest(n) = Fork(Digest(n[2]), Digest(n[3]))
      BY <2>2, <2>6, DigestStep
    <3>8. QED  BY <3>3, <3>4, <3>6, <3>7
  <2>7. CASE Tag(n) = "fork" /\ v \in {Fork(n[2], t1) : t1 \in Cutbacks(n[3])}
    <3>1. PICK w \in Cutbacks(n[3]) : v = Fork(n[2], w)
      BY <2>7
    <3>2. n[2] \in Parts(n) /\ n[3] \in Parts(n) /\ Digest(n[3]) \in FullTree
      BY <2>2, <2>7, PartsOfNodes, DigestParts
    <3>3. w \in N(h - 1) /\ Digest(w) = Digest(n[3]) /\ n[2] \in N(h - 1)
      BY <2>4, <3>2
    <3>4. v \in N(h)
      BY <2>4, <3>1, <3>2, <3>3
    <3>5. Tag(v) = "fork" /\ v[2] = n[2] /\ v[3] = w
      BY <3>1 DEF Fork, Tag
    <3>6. Digest(v) = Fork(Digest(n[2]), Digest(w))
      BY <2>2, <3>4, <3>5, DigestStep
    <3>7. Digest(n) = Fork(Digest(n[2]), Digest(n[3]))
      BY <2>2, <2>7, DigestStep
    <3>8. QED  BY <3>3, <3>4, <3>6, <3>7
  <2>8. Opaque(n) => Cutbacks(n) = {}
    BY <2>2, CutbacksStep
  <2>9. QED
    BY <2>2, <2>3, <2>5, <2>6, <2>7, <2>8, CutbacksStep
<1> HIDE DEF H
<1>2. 0 \in H
  BY <1>0, <1>1
<1>3. \A h \in 1 .. MaxHeight : h - 1 \in H => h \in H
  <2>1. \A h \in 1 .. MaxHeight : h \in 0 .. MaxHeight
    OBVIOUS
  <2>2. QED  BY <1>1, <2>1
<1>4. MaxHeight \in H
  <2>1. \A h \in 0 .. MaxHeight : h \in H
    BY <1>0, <1>2, <1>3, BoundedInduction
  <2>2. QED  BY <1>0, <2>1
<1>5. QED  BY <1>0, <1>4 DEF H

(* A path goes on by a label. *)
LEMMA PathAppend ==
  ASSUME NEW p \in Path, NEW q \in Path, NEW l \in Labels
  PROVE  /\ Append(p, l) \in Path
         /\ Append(p, l) \o q = p \o (<<l>> \o q)
         /\ <<l>> \in Path /\ <<l>> \o q \in Path /\ <<l>> \o q # << >>
         /\ Head(<<l>> \o q) = l /\ Tail(<<l>> \o q) = q
<1> USE DEF Path
<1>2. Append(p, l) \in Path /\ <<l>> \in Path /\ <<l>> \o q \in Path /\ <<l>> \o q # << >>
  OBVIOUS
<1>3. Append(p, l) \o q = p \o (<<l>> \o q)
  <2>1. Append(p, l) = p \o <<l>>
    OBVIOUS
  <2>2. <<l>> \in Seq(Labels)
    OBVIOUS
  <2>3. (p \o <<l>>) \o q = p \o (<<l>> \o q)
    BY <2>2, ConcatAssociative
  <2>4. QED  BY <2>1, <2>3
<1>4. Head(<<l>> \o q) = l /\ Tail(<<l>> \o q) = q
  OBVIOUS
<1>5. QED  BY <1>2, <1>3, <1>4

(* A path that begins another gives it its head. *)
LEMMA PathConcat ==
  ASSUME NEW p \in Path, NEW q \in Path, p # << >>
  PROVE  /\ p \o q # << >>
         /\ Head(p \o q) = Head(p) /\ Tail(p \o q) = Tail(p) \o q
<1> USE DEF Path
<1>1. Len(p) \in Nat \ {0} /\ Len(p \o q) = Len(p) + Len(q) /\ Len(q) \in Nat
  OBVIOUS
<1>2. \A i \in 1 .. Len(p) + Len(q) :
        (p \o q)[i] = IF i <= Len(p) THEN p[i] ELSE q[i - Len(p)]
  OBVIOUS
<1>3. p \o q # << >> /\ Head(p \o q) = Head(p)
  BY <1>1, <1>2
<1>4. Tail(p \o q) = Tail(p) \o q
  <2>1. Len(Tail(p \o q)) = Len(Tail(p) \o q)
    BY <1>1, <1>3
  <2>2. ASSUME NEW i \in 1 .. Len(p) + Len(q) - 1
        PROVE  Tail(p \o q)[i] = (Tail(p) \o q)[i]
    <3>1. Tail(p \o q)[i] = (p \o q)[i + 1]
      BY <1>1, <1>3
    <3>2. (Tail(p) \o q)[i] = IF i <= Len(p) - 1 THEN p[i + 1] ELSE q[i - (Len(p) - 1)]
      BY <1>1
    <3>3. (p \o q)[i + 1] = IF i + 1 <= Len(p) THEN p[i + 1] ELSE q[(i + 1) - Len(p)]
      BY <1>1, <1>2
    <3>4. QED  BY <1>1, <3>1, <3>2, <3>3
  <2>3. Tail(p \o q) \in Seq(Labels) /\ Tail(p) \o q \in Seq(Labels)
    BY <1>3
  <2>4. Len(Tail(p \o q)) = Len(p) + Len(q) - 1
    BY <1>1, <1>3
  <2>5. QED  BY <2>1, <2>2, <2>3, <2>4, SeqEqual
<1>5. QED  BY <1>3, <1>4

ShowsLeaf(p, t) == \E u \in NodesAt(p, t) : Tag(u) = "leaf"

(* list_paths lists every path to a leaf, *)
LEMMA LeavesAreListed ==
  ASSUME NEW t \in Tree, NEW before \in Path, NEW r \in Path, ShowsLeaf(r, t)
  PROVE  before \o r \in ListPaths(t, before)
<1> DEFINE P == {n \in Tree : \A b, q \in Path : ShowsLeaf(q, n) => b \o q \in ListPaths(n, b)}
<1>1. ASSUME NEW n \in Tree, Parts(n) \subseteq P PROVE n \in P
  <2> SUFFICES ASSUME NEW b \in Path, NEW q \in Path, ShowsLeaf(q, n) PROVE b \o q \in ListPaths(n, b)
    OBVIOUS
  <2>1. CASE Opaque(n)
    BY <2>1, NodesAtStep DEF ShowsLeaf
  <2>2. CASE Tag(n) = "leaf"
    <3>1. ~ Opaque(n)
      BY <2>2 DEF Opaque
    <3>2. q = << >>
      BY <2>2, <3>1, NodesAtStep DEF ShowsLeaf
    <3>3. ListPaths(n, b) = {b}
      BY <2>2, <3>1, ListPathsStep
    <3>4. b \o << >> = b
      BY DEF Path
    <3>5. QED  BY <3>2, <3>3, <3>4
  <2>3. CASE Tag(n) = "fork"
    <3>1. ~ Opaque(n)
      BY <2>3 DEF Opaque
    <3>2. ListPaths(n, b) = ListPaths(n[2], b) \cup ListPaths(n[3], b)
      BY <2>3, <3>1, ListPathsStep
    <3>3. ShowsLeaf(q, n[2]) \/ ShowsLeaf(q, n[3])
      BY <2>3, <3>1, NodesAtStep DEF ShowsLeaf
    <3>4. QED  BY <1>1, <2>3, <3>2, <3>3, PartsOfNodes
  <2>4. CASE Tag(n) = "labeled"
    <3>1. ~ Opaque(n) /\ n[2] \in Labels
      BY <2>4, TreeKinds DEF Opaque
    <3>2. ListPaths(n, b) = ListPaths(n[3], Append(b, n[2]))
      BY <2>4, <3>1, ListPathsStep
    <3>3. q # << >> /\ Head(q) = n[2] /\ ShowsLeaf(Tail(q), n[3])
      BY <2>4, <3>1, NodesAtStep DEF ShowsLeaf
    <3>4. Tail(q) \in Path
      BY <3>3, TailIsPath
    <3>5. Append(b, n[2]) \in Path /\ b \o q = Append(b, n[2]) \o Tail(q)
      <4>1. Append(b, n[2]) \in Path /\ Append(b, n[2]) \o Tail(q) = b \o (<<n[2]>> \o Tail(q))
        BY ZenonT(40), <3>1, <3>4, PathAppend
      <4>2. q = <<n[2]>> \o Tail(q)
        BY <3>3, TailIsPath
      <4>3. QED  BY <4>1, <4>2
    <3>6. QED  BY <1>1, <2>4, <3>2, <3>3, <3>4, <3>5, PartsOfNodes
  <2>5. QED  BY <2>1, <2>2, <2>3, <2>4, TreeKinds DEF Opaque
<1> HIDE DEF P
<1>2. t \in P
  BY <1>1, NodeInduction
<1>3. QED  BY <1>2 DEF P

(* What it lists goes on from the path before. *)
LEMMA ListedGoesOn ==
  ASSUME NEW t \in Tree, NEW before \in Path, NEW p \in ListPaths(t, before)
  PROVE  \E r \in Path : p = before \o r
<1> DEFINE P == {n \in Tree : \A b \in Path : \A q \in ListPaths(n, b) : \E r \in Path : q = b \o r}
<1>1. ASSUME NEW n \in Tree, Parts(n) \subseteq P PROVE n \in P
  <2> SUFFICES ASSUME NEW b \in Path, NEW q \in ListPaths(n, b)
               PROVE  \E r \in Path : q = b \o r
    OBVIOUS
  <2>1. ~ Opaque(n)
    BY ListPathsStep
  <2>2. CASE Tag(n) = "leaf"
    <3>1. q = b
      BY <2>1, <2>2, ListPathsStep
    <3>2. << >> \in Path /\ b \o << >> = b
      BY DEF Path
    <3>3. QED  BY <3>1, <3>2
  <2>3. CASE Tag(n) = "fork"
    <3>1. q \in ListPaths(n[2], b) \/ q \in ListPaths(n[3], b)
      BY <2>1, <2>3, ListPathsStep
    <3>2. n[2] \in P /\ n[3] \in P
      BY <1>1, <2>3, PartsOfNodes
    <3>3. QED  BY <3>1, <3>2
  <2>4. CASE Tag(n) = "labeled"
    <3>1. n[2] \in Labels /\ n[3] \in P
      BY <1>1, <2>4, TreeKinds, PartsOfNodes
    <3>2. q \in ListPaths(n[3], Append(b, n[2]))
      BY <2>1, <2>4, ListPathsStep
    <3>3. Append(b, n[2]) \in Path
      BY <3>1, PathAppend
    <3>4. PICK r \in Path : q = Append(b, n[2]) \o r
      BY <3>1, <3>2, <3>3
    <3>5. <<n[2]>> \o r \in Path /\ Append(b, n[2]) \o r = b \o (<<n[2]>> \o r)
      BY <3>1, PathAppend
    <3>6. QED  BY <3>4, <3>5
  <2>5. QED  BY <2>1, <2>2, <2>3, <2>4, TreeKinds DEF Opaque
<1> HIDE DEF P
<1>2. t \in P
  BY <1>1, NodeInduction
<1>3. QED  BY <1>2 DEF P

(* and no path that the signed tree does not have. *)
LEMMA ListedInDigest ==
  ASSUME NEW t \in Tree, Digest(t) \in FullTree, NEW before \in Path
  PROVE  ListPaths(t, before) \subseteq ListPaths(Digest(t), before)
<1> DEFINE P == {n \in Tree : Digest(n) \in FullTree =>
                    \A b \in Path : ListPaths(n, b) \subseteq ListPaths(Digest(n), b)}
<1>1. ASSUME NEW n \in Tree, Parts(n) \subseteq P PROVE n \in P
  <2> SUFFICES ASSUME Digest(n) \in FullTree, NEW b \in Path
               PROVE  ListPaths(n, b) \subseteq ListPaths(Digest(n), b)
    OBVIOUS
  <2>0. Digest(n) \in Tree
    BY FullTreesAreTrees
  <2>1. CASE Opaque(n)
    BY <2>1, ListPathsStep
  <2>2. CASE Tag(n) = "leaf"
    <3>1. ~ Opaque(n)
      BY <2>2 DEF Opaque
    <3>2. QED  BY <2>2, <3>1, DigestTag
  <2>3. CASE Tag(n) = "fork"
    <3>1. ~ Opaque(n)
      BY <2>3 DEF Opaque
    <3>2. ListPaths(n, b) = ListPaths(n[2], b) \cup ListPaths(n[3], b)
      BY <2>3, <3>1, ListPathsStep
    <3>3. ~ Opaque(Digest(n)) /\ Tag(Digest(n)) = "fork"
      BY <2>3, <3>1, DigestTag DEF Opaque
    <3>4. ListPaths(Digest(n), b) = ListPaths(Digest(n[2]), b) \cup ListPaths(Digest(n[3]), b)
      BY <2>0, <2>3, <3>1, <3>3, ListPathsStep, DigestTag
    <3>5. QED  BY <1>1, <2>3, <3>2, <3>4, PartsOfNodes, DigestParts
  <2>4. CASE Tag(n) = "labeled"
    <3>1. ~ Opaque(n) /\ n[2] \in Labels
      BY <2>4, TreeKinds DEF Opaque
    <3>2. ListPaths(n, b) = ListPaths(n[3], Append(b, n[2])) /\ Append(b, n[2]) \in Path
      BY <2>4, <3>1, ListPathsStep, PathAppend
    <3>3. ~ Opaque(Digest(n)) /\ Tag(Digest(n)) = "labeled"
      BY <2>4, <3>1, DigestTag DEF Opaque
    <3>4. ListPaths(Digest(n), b) = ListPaths(Digest(n[3]), Append(b, n[2]))
      BY <2>0, <2>4, <3>1, <3>3, ListPathsStep, DigestTag
    <3>5. QED  BY <1>1, <2>4, <3>2, <3>4, PartsOfNodes, DigestParts
  <2>5. QED  BY <2>1, <2>2, <2>3, <2>4, TreeKinds DEF Opaque
<1> HIDE DEF P
<1>2. t \in P
  BY <1>1, NodeInduction
<1>3. QED  BY <1>2 DEF P

(* What is at the end of a path is found by way of its beginning. *)
LEMMA NodesByWayOf ==
  ASSUME NEW t \in Tree, NEW p \in Path, NEW q \in Path
  PROVE  NodesAt(p \o q, t) = UNION {NodesAt(q, u) : u \in NodesAt(p, t)}
<1> DEFINE Q(n, r) == NodesAt(r \o q, n) = UNION {NodesAt(q, u) : u \in NodesAt(r, n)}
           P == {n \in Tree : \A r \in Path : Q(n, r)}
<1>1. ASSUME NEW n \in Tree, Parts(n) \subseteq P PROVE n \in P
  <2> SUFFICES ASSUME NEW r \in Path PROVE Q(n, r)
    OBVIOUS
  <2>0. r \o q \in Path
    BY DEF Path
  <2>1. CASE Opaque(n)
    BY <2>0, <2>1, NodesAtStep
  <2>2. CASE ~ Opaque(n) /\ r = << >>
    <3>1. r \o q = q
      BY <2>2 DEF Path
    <3>2. NodesAt(r, n) = {n}
      BY <2>2, NodesAtStep
    <3>3. QED  BY <3>1, <3>2
  <2>3. CASE ~ Opaque(n) /\ r # << >>
    <3>1. r \o q # << >> /\ Head(r \o q) = Head(r) /\ Tail(r \o q) = Tail(r) \o q /\ Tail(r) \in Path
      BY <2>3, PathConcat, TailIsPath
    <3>2. CASE Tag(n) = "fork"
      <4>1. NodesAt(r \o q, n) = NodesAt(r \o q, n[2]) \cup NodesAt(r \o q, n[3])
        BY <2>0, <2>3, <3>1, <3>2, NodesAtStep
      <4>2. NodesAt(r, n) = NodesAt(r, n[2]) \cup NodesAt(r, n[3])
        BY <2>3, <3>2, NodesAtStep
      <4>3. Q(n[2], r) /\ Q(n[3], r)
        BY <1>1, <3>2, PartsOfNodes
      <4>4. QED  BY <4>1, <4>2, <4>3
    <3>3. CASE Tag(n) = "labeled" /\ Head(r) = n[2]
      <4>1. NodesAt(r \o q, n) = NodesAt(Tail(r) \o q, n[3])
        BY <2>0, <2>3, <3>1, <3>3, NodesAtStep
      <4>2. NodesAt(r, n) = NodesAt(Tail(r), n[3])
        BY <2>3, <3>3, NodesAtStep
      <4>3. Q(n[3], Tail(r))
        BY <1>1, <3>1, <3>3, PartsOfNodes
      <4>4. QED  BY <4>1, <4>2, <4>3
    <3>4. CASE Tag(n) # "fork" /\ ~ (Tag(n) = "labeled" /\ Head(r) = n[2])
      BY <2>0, <2>3, <3>1, <3>4, NodesAtStep
    <3>5. QED  BY <3>2, <3>3, <3>4
  <2>4. QED  BY <2>1, <2>2, <2>3
<1> HIDE DEF P
<1>2. t \in P
  BY <1>1, NodeInduction
<1>3. QED  BY <1>2 DEF P

-----------------------------------------------------------------------------
(* Trees in which a path leads to one place                                 *)

(* No path leads into both of two trees. *)
Apart(t, u) == \A p \in Path : p # << >> => NodesAt(p, t) = {} \/ NodesAt(p, u) = {}

(* Every path leads to one place of the tree at most: the tree is in a set  *)
(* of trees with their parts in which the two sides of a fork are apart.    *)
AllClear(S) ==
  \A n \in S : /\ Tag(n) = "fork" => Apart(n[2], n[3]) /\ n[2] \in S /\ n[3] \in S
               /\ Tag(n) = "labeled" => n[3] \in S

Clear(t) == \E S : AllClear(S) /\ t \in S

(* The parts of a clear tree are clear, and those of a fork are apart. *)
LEMMA ClearParts ==
  ASSUME NEW t, Clear(t)
  PROVE  /\ Tag(t) = "fork" => Apart(t[2], t[3]) /\ Clear(t[2]) /\ Clear(t[3])
         /\ Tag(t) = "labeled" => Clear(t[3])
<1>1. PICK S : AllClear(S) /\ t \in S
  BY DEF Clear
<1>2. /\ Tag(t) = "fork" => Apart(t[2], t[3]) /\ t[2] \in S /\ t[3] \in S
      /\ Tag(t) = "labeled" => t[3] \in S
  BY <1>1 DEF AllClear
<1>3. QED  BY <1>1, <1>2 DEF Clear

(* The other way round *)
LEMMA ClearIfParts ==
  ASSUME NEW t,
         Tag(t) = "fork" => Apart(t[2], t[3]) /\ Clear(t[2]) /\ Clear(t[3]),
         Tag(t) = "labeled" => Clear(t[3])
  PROVE  Clear(t)
<1>1. CASE Tag(t) = "fork"
  <2>1. PICK S : AllClear(S) /\ t[2] \in S
    BY <1>1 DEF Clear
  <2>2. PICK U : AllClear(U) /\ t[3] \in U
    BY <1>1 DEF Clear
  <2>3. AllClear(S \cup U \cup {t})
    BY <1>1, <2>1, <2>2 DEF AllClear
  <2>4. QED  BY <2>3 DEF Clear
<1>2. CASE Tag(t) = "labeled"
  <2>1. PICK S : AllClear(S) /\ t[3] \in S
    BY <1>2 DEF Clear
  <2>2. AllClear(S \cup {t})
    BY <1>2, <2>1 DEF AllClear
  <2>3. QED  BY <2>2 DEF Clear
<1>3. CASE Tag(t) # "fork" /\ Tag(t) # "labeled"
  <2>1. AllClear({t})
    BY <1>3 DEF AllClear
  <2>2. QED  BY <2>1 DEF Clear
<1>4. QED  BY <1>1, <1>2, <1>3

(* A pruned tree shows one node at a path if the signed tree is clear. *)
LEMMA OneNodeAtAPath ==
  ASSUME NEW t \in Tree, Digest(t) \in FullTree, Clear(Digest(t)), NEW p \in Path,
         NEW u \in NodesAt(p, t), NEW v \in NodesAt(p, t)
  PROVE  u = v
<1> DEFINE Q(n, q) == \A x, y \in NodesAt(q, n) : x = y
           P == {n \in Tree : Digest(n) \in FullTree /\ Clear(Digest(n)) => \A q \in Path : Q(n, q)}
<1>1. ASSUME NEW n \in Tree, Parts(n) \subseteq P PROVE n \in P
  <2> SUFFICES ASSUME Digest(n) \in FullTree, Clear(Digest(n)), NEW q \in Path PROVE Q(n, q)
    OBVIOUS
  <2>1. CASE Opaque(n) \/ q = << >>
    BY <2>1, NodesAtStep
  <2>2. CASE ~ Opaque(n) /\ q # << >> /\ Tag(n) = "fork"
    <3>1. NodesAt(q, n) = NodesAt(q, n[2]) \cup NodesAt(q, n[3])
      BY <2>2, NodesAtStep
    <3>2. Tag(Digest(n)) = "fork" /\ Digest(n)[2] = Digest(n[2]) /\ Digest(n)[3] = Digest(n[3])
      BY <2>2, DigestTag
    <3>3. /\ Digest(n[2]) \in FullTree /\ Digest(n[3]) \in FullTree
          /\ n[2] \in Tree /\ n[3] \in Tree
      BY <2>2, DigestParts, TreeKinds
    <3>4. Apart(Digest(n[2]), Digest(n[3])) /\ Clear(Digest(n[2])) /\ Clear(Digest(n[3]))
      BY <3>2, ClearParts
    <3>5. Q(n[2], q) /\ Q(n[3], q)
      BY <1>1, <2>2, <3>3, <3>4, PartsOfNodes
    <3>6. NodesAt(q, n[2]) = {} \/ NodesAt(q, n[3]) = {}
      BY <2>2, <3>3, <3>4, NodesOfDigest DEF Apart
    <3>7. QED  BY <3>1, <3>5, <3>6
  <2>3. CASE ~ Opaque(n) /\ q # << >> /\ Tag(n) = "labeled" /\ Head(q) = n[2]
    <3>1. NodesAt(q, n) = NodesAt(Tail(q), n[3]) /\ Tail(q) \in Path
      BY <2>3, NodesAtStep, TailIsPath
    <3>2. Tag(Digest(n)) = "labeled" /\ Digest(n)[3] = Digest(n[3])
      BY <2>3, DigestTag
    <3>3. Digest(n[3]) \in FullTree /\ Clear(Digest(n[3]))
      BY <2>3, <3>2, DigestParts, ClearParts
    <3>4. QED  BY <1>1, <2>3, <3>1, <3>3, PartsOfNodes
  <2>4. CASE ~ Opaque(n) /\ q # << >> /\ Tag(n) # "fork" /\ ~ (Tag(n) = "labeled" /\ Head(q) = n[2])
    BY <2>4, NodesAtStep
  <2>5. QED  BY <2>1, <2>2, <2>3, <2>4
<1> HIDE DEF P
<1>2. t \in P
  BY <1>1, NodeInduction
<1>3. QED  BY <1>2 DEF P
-----------------------------------------------------------------------------
(* Directories                                                              *)

(* The entry that is put in i-th, and how *)
PutIn(entries, nesting, i) ==
  LET at == IF nesting = "left" THEN i ELSE Len(entries) + 1 - i
  IN  Labeled(entries[at][1], entries[at][2])

Joined(nesting, t, u) == IF nesting = "left" THEN Fork(t, u) ELSE Fork(u, t)

Put(f, entries, nesting, i) ==
  IF i = 1 THEN PutIn(entries, nesting, 1)
  ELSE Joined(nesting, f[i - 1], PutIn(entries, nesting, i))

(* f[i] is the directory of the i entries that are put in first. *)
From1(f, n) == f = [i \in 1 .. n |-> f[i]]

Grows(f, entries, nesting, n) ==
  /\ From1(f, n)
  /\ \A i \in 1 .. n : f[i] = Put(f, entries, nesting, i)

(* The recursive function in Directory exists. *)
LEMMA GrowthExists ==
  ASSUME NEW entries, NEW nesting, NEW n \in Nat
  PROVE  \E f : Grows(f, entries, nesting, n)
<1> DEFINE T == {m \in 0 .. n : \E f : Grows(f, entries, nesting, m)}
<1>1. 0 \in T
  <2>1. Grows([i \in 1 .. 0 |-> i], entries, nesting, 0)
    BY DEF Grows, From1
  <2>2. QED  BY <2>1
<1>2. ASSUME NEW m \in 1 .. n, m - 1 \in T PROVE m \in T
  <2>1. PICK f : Grows(f, entries, nesting, m - 1)
    BY <1>2
  <2> DEFINE g == [i \in 1 .. m |-> IF i = m THEN Put(f, entries, nesting, m) ELSE f[i]]
  <2>2. ASSUME NEW i \in 1 .. m PROVE g[i] = Put(g, entries, nesting, i)
    <3>1. i # 1 => i - 1 \in 1 .. m /\ g[i - 1] = f[i - 1]
      OBVIOUS
    <3>2. Put(g, entries, nesting, i) = Put(f, entries, nesting, i)
      <4> HIDE DEF g
      <4>1. QED  BY <3>1 DEF Put
    <3>3. i # m => i \in 1 .. m - 1
      OBVIOUS
    <3>4. i # m => f[i] = Put(f, entries, nesting, i)
      BY <2>1, <3>3 DEF Grows
    <3>5. g[i] = IF i = m THEN Put(f, entries, nesting, m) ELSE f[i]
      OBVIOUS
    <3>6. QED  BY <3>2, <3>4, <3>5
  <2>3. From1(g, m)
    BY DEF From1
  <2> HIDE DEF g
  <2>4. Grows(g, entries, nesting, m)
    BY <2>2, <2>3 DEF Grows
  <2>5. QED  BY <2>4
<1> HIDE DEF T
<1>3. \A m \in 0 .. n : m \in T
  BY <1>1, <1>2, BoundedInduction
<1>4. n \in T
  BY <1>3
<1>5. QED  BY <1>4 DEF T

(* A directory is the last tree of a growth. *)
LEMMA DirectoryGrows ==
  ASSUME NEW entries, NEW nesting, Len(entries) \in Nat \ {0}
  PROVE  \E f : /\ Grows(f, entries, nesting, Len(entries))
                /\ Directory(entries, nesting) = f[Len(entries)]
<1> DEFINE n == Len(entries)
           Def(f) == f = [i \in 1 .. n |->
                            IF i = 1 THEN PutIn(entries, nesting, 1)
                            ELSE Joined(nesting, f[i - 1], PutIn(entries, nesting, i))]
           nest == CHOOSE f : Def(f)
<1>1. Directory(entries, nesting) = nest[n]
  BY DEF Directory, PutIn, Joined
<1>2. n \in Nat
  OBVIOUS
<1> HIDE DEF n
<1>3. PICK f : Grows(f, entries, nesting, n)
  BY <1>2, GrowthExists
<1>4. Def(f)
  BY <1>3 DEF Grows, From1, Put
<1> HIDE DEF Def
<1>5. Def(nest)
  BY <1>4
<1> HIDE DEF nest
<1>6. From1(nest, n)
  BY <1>5 DEF Def, From1
<1>7. ASSUME NEW i \in 1 .. n PROVE nest[i] = Put(nest, entries, nesting, i)
  BY <1>5 DEF Def, Put
<1>8. Grows(nest, entries, nesting, n)
  BY <1>6, <1>7 DEF Grows
<1>9. QED  BY <1>1, <1>8 DEF n

(* The parts of a whole tree are whole. *)
LEMMA PartsOfBuilt ==
  ASSUME NEW nesting, NEW l, NEW a, NEW b
  PROVE  /\ Labeled(l, a) \in FullTree => l \in Labels /\ a \in FullTree
         /\ Joined(nesting, a, b) \in FullTree => a \in FullTree /\ b \in FullTree
<1>1. ASSUME Labeled(l, a) \in FullTree PROVE l \in Labels /\ a \in FullTree
  <2>1. Tag(Labeled(l, a)) = "labeled" /\ Labeled(l, a)[2] = l /\ Labeled(l, a)[3] = a
    BY DEF Labeled, Tag
  <2>2. Labeled(l, a)[3] \in FullTree
    BY <1>1, <2>1, FullTreeKinds
  <2>3. Labeled(l, a)[2] \in Labels
    BY <1>1, <2>1, FullTreesAreTrees, TreeKinds
  <2>4. QED  BY <2>1, <2>2, <2>3
<1>2. ASSUME NEW c, NEW d, Fork(c, d) \in FullTree PROVE c \in FullTree /\ d \in FullTree
  <2>1. Tag(Fork(c, d)) = "fork" /\ Fork(c, d)[2] = c /\ Fork(c, d)[3] = d
    BY DEF Fork, Tag
  <2>2. Fork(c, d)[2] \in FullTree /\ Fork(c, d)[3] \in FullTree
    BY <1>2, <2>1, FullTreeKinds
  <2>3. QED  BY <2>1, <2>2
<1>3. QED  BY <1>1, <1>2 DEF Joined

(* The nodes below a label *)
LEMMA NodesOfLabeled ==
  ASSUME NEW l, NEW a, NEW p \in Path, p # << >>, Labeled(l, a) \in FullTree
  PROVE  NodesAt(p, Labeled(l, a)) = IF Head(p) = l THEN NodesAt(Tail(p), a) ELSE {}
<1>1. Tag(Labeled(l, a)) = "labeled" /\ Labeled(l, a)[2] = l /\ Labeled(l, a)[3] = a
  BY DEF Labeled, Tag
<1>2. Labeled(l, a) \in Tree /\ ~ Opaque(Labeled(l, a))
  BY <1>1, FullTreesAreTrees DEF Opaque
<1>3. QED  BY <1>1, <1>2, NodesAtStep

(* The nodes below a fork *)
LEMMA NodesOfJoined ==
  ASSUME NEW nesting, NEW a, NEW b, NEW p \in Path, p # << >>, Joined(nesting, a, b) \in FullTree
  PROVE  NodesAt(p, Joined(nesting, a, b)) = NodesAt(p, a) \cup NodesAt(p, b)
<1>1. ASSUME NEW c, NEW d, Fork(c, d) \in FullTree
      PROVE  NodesAt(p, Fork(c, d)) = NodesAt(p, c) \cup NodesAt(p, d)
  <2>1. Tag(Fork(c, d)) = "fork" /\ Fork(c, d)[2] = c /\ Fork(c, d)[3] = d
    BY DEF Fork, Tag
  <2>2. Fork(c, d) \in Tree /\ ~ Opaque(Fork(c, d))
    BY <1>1, <2>1, FullTreesAreTrees DEF Opaque
  <2>3. QED  BY <2>1, <2>2, NodesAtStep
<1>2. QED  BY <1>1 DEF Joined

(* The paths listed below a label *)
LEMMA ListedOfLabeled ==
  ASSUME NEW l, NEW a, NEW p \in Path, Labeled(l, a) \in FullTree
  PROVE  ListPaths(Labeled(l, a), p) = ListPaths(a, Append(p, l))
<1>1. Tag(Labeled(l, a)) = "labeled" /\ Labeled(l, a)[2] = l /\ Labeled(l, a)[3] = a
  BY DEF Labeled, Tag
<1>2. Labeled(l, a) \in Tree /\ ~ Opaque(Labeled(l, a))
  BY <1>1, FullTreesAreTrees DEF Opaque
<1>3. QED  BY <1>1, <1>2, ListPathsStep

(* The paths listed below a fork *)
LEMMA ListedOfJoined ==
  ASSUME NEW nesting, NEW a, NEW b, NEW p \in Path, Joined(nesting, a, b) \in FullTree
  PROVE  ListPaths(Joined(nesting, a, b), p) = ListPaths(a, p) \cup ListPaths(b, p)
<1>1. ASSUME NEW c, NEW d, Fork(c, d) \in FullTree
      PROVE  ListPaths(Fork(c, d), p) = ListPaths(c, p) \cup ListPaths(d, p)
  <2>1. Tag(Fork(c, d)) = "fork" /\ Fork(c, d)[2] = c /\ Fork(c, d)[3] = d
    BY DEF Fork, Tag
  <2>2. Fork(c, d) \in Tree /\ ~ Opaque(Fork(c, d))
    BY <1>1, <2>1, FullTreesAreTrees DEF Opaque
  <2>3. QED  BY <2>1, <2>2, ListPathsStep
<1>2. QED  BY <1>1 DEF Joined

(* The trees a directory grows through are full trees. *)
Growing(f, entries, nesting) ==
  LET n == Len(entries) IN
  /\ f[n] = Directory(entries, nesting)
  /\ f[1] = PutIn(entries, nesting, 1)
  /\ \A i \in 2 .. n : f[i] = Joined(nesting, f[i - 1], PutIn(entries, nesting, i))
  /\ \A i \in 1 .. n : f[i] \in FullTree /\ PutIn(entries, nesting, i) \in FullTree

(* A growth of whole trees *)
LEMMA DirectoryParts ==
  ASSUME NEW entries, NEW nesting, Len(entries) \in Nat \ {0},
         Directory(entries, nesting) \in FullTree
  PROVE  \E f : Growing(f, entries, nesting)
<1> DEFINE n == Len(entries)
<1>0. n \in Nat \ {0}
  OBVIOUS
<1>1. PICK f : Grows(f, entries, nesting, n) /\ Directory(entries, nesting) = f[n]
  BY DirectoryGrows
<1> HIDE DEF n
<1>2. f[1] = PutIn(entries, nesting, 1)
  BY <1>0, <1>1 DEF Grows, Put
<1>3. ASSUME NEW i \in 2 .. n PROVE f[i] = Joined(nesting, f[i - 1], PutIn(entries, nesting, i))
  <2>1. i \in 1 .. n /\ i # 1
    BY <1>0
  <2>2. QED  BY <1>1, <2>1 DEF Grows, Put
<1> DEFINE C == {k \in 0 .. n - 1 : f[n - k] \in FullTree}
<1>4. 0 \in C
  BY <1>0, <1>1
<1>5. ASSUME NEW k \in 1 .. n - 1, k - 1 \in C PROVE k \in C
  <2>1. n - (k - 1) \in 2 .. n /\ (n - (k - 1)) - 1 = n - k
    BY <1>0
  <2>2. f[n - (k - 1)] = Joined(nesting, f[n - k], PutIn(entries, nesting, n - (k - 1)))
    BY <1>3, <2>1
  <2>3. f[n - (k - 1)] \in FullTree
    BY <1>5
  <2>4. f[n - k] \in FullTree
    BY <2>2, <2>3, PartsOfBuilt
  <2>5. k \in 0 .. n - 1
    BY <1>0
  <2>6. QED  BY <2>4, <2>5
<1> HIDE DEF C
<1>6. \A k \in 0 .. n - 1 : k \in C
  <2>1. n - 1 \in Nat
    BY <1>0
  <2>2. QED  BY <1>4, <1>5, <2>1, BoundedInduction
<1>7. ASSUME NEW i \in 1 .. n PROVE f[i] \in FullTree
  <2>1. n - i \in 0 .. n - 1 /\ n - (n - i) = i
    BY <1>0
  <2>2. f[n - (n - i)] \in FullTree
    BY <1>6, <2>1 DEF C
  <2>3. QED  BY <2>1, <2>2
<1>8. ASSUME NEW i \in 1 .. n PROVE PutIn(entries, nesting, i) \in FullTree
  <2>1. CASE i = 1
    BY <1>2, <1>7, <2>1
  <2>2. CASE i # 1
    <3>1. i \in 2 .. n
      BY <1>0, <2>2
    <3>2. f[i] = Joined(nesting, f[i - 1], PutIn(entries, nesting, i))
      BY <1>3, <3>1
    <3>3. QED  BY <1>7, <3>2, PartsOfBuilt
  <2>3. QED  BY <2>1, <2>2
<1>9. Growing(f, entries, nesting)
  BY <1>1, <1>2, <1>3, <1>7, <1>8 DEF Growing, n
<1>10. QED  BY <1>9

Total(part, n) == UNION {part[i] : i \in 1 .. n}

(* What accumulates over the steps is the union of what each adds. *)
LEMMA Accumulated ==
  ASSUME NEW n \in Nat \ {0}, NEW sum, NEW part, sum[1] = part[1],
         \A i \in 2 .. n : sum[i] = sum[i - 1] \cup part[i]
  PROVE  sum[n] = Total(part, n)
<1> DEFINE T == {m \in 0 .. n : m # 0 => sum[m] = UNION {part[i] : i \in 1 .. m}}
<1>1. 0 \in T
  OBVIOUS
<1>2. ASSUME NEW m \in 1 .. n, m - 1 \in T PROVE m \in T
  <2>1. CASE m = 1
    <3>1. 1 .. 1 = {1}
      OBVIOUS
    <3>2. UNION {part[i] : i \in 1 .. 1} = part[1]
      BY <3>1
    <3>3. QED  BY <2>1, <3>2
  <2>2. CASE m # 1
    <3>1. m \in 2 .. n /\ m - 1 # 0
      BY <2>2
    <3>2. sum[m] = sum[m - 1] \cup part[m] /\ sum[m - 1] = UNION {part[i] : i \in 1 .. m - 1}
      BY <1>2, <3>1
    <3>3. 1 .. m = 1 .. m - 1 \cup {m}
      OBVIOUS
    <3>4. QED  BY <3>2, <3>3
  <2>3. QED  BY <2>1, <2>2
<1> HIDE DEF T
<1>3. \A m \in 0 .. n : m \in T
  BY <1>1, <1>2, BoundedInduction
<1>4. QED  BY <1>3 DEF T, Total

(* Everything that is put in is an entry, and the other way round. *)
LEMMA PutInEntries ==
  ASSUME NEW entries, NEW nesting, Len(entries) \in Nat
  PROVE  /\ \A i \in 1 .. Len(entries) : \E j \in 1 .. Len(entries) :
              PutIn(entries, nesting, i) = Labeled(entries[j][1], entries[j][2])
         /\ \A j \in 1 .. Len(entries) : \E i \in 1 .. Len(entries) :
              PutIn(entries, nesting, i) = Labeled(entries[j][1], entries[j][2])
<1> DEFINE n == Len(entries)
           at(i) == IF nesting = "left" THEN i ELSE n + 1 - i
<1>1. \A i \in 1 .. n : at(i) \in 1 .. n /\ at(at(i)) = i
  OBVIOUS
<1>2. \A i : PutIn(entries, nesting, i) = Labeled(entries[at(i)][1], entries[at(i)][2])
  BY DEF PutIn
<1> HIDE DEF at
<1>3. \A j \in 1 .. n : PutIn(entries, nesting, at(j)) = Labeled(entries[j][1], entries[j][2])
  BY <1>1, <1>2
<1>4. QED  BY <1>1, <1>2, <1>3

(* The trees in a whole directory are whole. *)
LEMMA EntriesAreFull ==
  ASSUME NEW entries, NEW nesting, Len(entries) \in Nat, Directory(entries, nesting) \in FullTree,
         NEW i \in 1 .. Len(entries)
  PROVE  /\ Labeled(entries[i][1], entries[i][2]) \in FullTree
         /\ entries[i][1] \in Labels /\ entries[i][2] \in FullTree
<1>1. PICK f : Growing(f, entries, nesting)
  BY DirectoryParts
<1>2. PICK k \in 1 .. Len(entries) : PutIn(entries, nesting, k) = Labeled(entries[i][1], entries[i][2])
  BY PutInEntries
<1>3. Labeled(entries[i][1], entries[i][2]) \in FullTree
  BY <1>1, <1>2 DEF Growing
<1>4. QED  BY <1>3, PartsOfBuilt

(* A path leads into a directory by way of an entry with its first label. *)
LEMMA NodesOfDirectory ==
  ASSUME NEW entries, NEW nesting, Len(entries) \in Nat, Directory(entries, nesting) \in FullTree,
         NEW p \in Path, p # << >>, NEW u
  PROVE  u \in NodesAt(p, Directory(entries, nesting)) <=>
           \E i \in 1 .. Len(entries) :
             entries[i][1] = Head(p) /\ u \in NodesAt(Tail(p), entries[i][2])
<1> DEFINE n == Len(entries)
<1>1. CASE n = 0
  <2>1. Directory(entries, nesting) = Empty
    BY <1>1 DEF Directory
  <2>2. Opaque(Directory(entries, nesting)) /\ Directory(entries, nesting) \in Tree
    BY <2>1, FullTreesAreTrees DEF Opaque, Empty, Tag
  <2>3. NodesAt(p, Directory(entries, nesting)) = {}
    BY <2>2, NodesAtStep
  <2>4. QED  BY <1>1, <2>3
<1>2. CASE n # 0
  <2>0. n \in Nat \ {0}
    BY <1>2
  <2>1. PICK f : Growing(f, entries, nesting)
    BY <2>0, DirectoryParts
  <2> DEFINE sum == [i \in 1 .. n |-> NodesAt(p, f[i])]
             part == [i \in 1 .. n |-> NodesAt(p, PutIn(entries, nesting, i))]
  <2>2. sum[1] = part[1]
    BY <2>0, <2>1 DEF Growing
  <2>3. ASSUME NEW i \in 2 .. n PROVE sum[i] = sum[i - 1] \cup part[i]
    <3>1. i \in 1 .. n /\ i - 1 \in 1 .. n
      BY <2>0
    <3>2. f[i] = Joined(nesting, f[i - 1], PutIn(entries, nesting, i)) /\ f[i] \in FullTree
      BY <2>1, <3>1 DEF Growing
    <3>3. NodesAt(p, f[i]) = NodesAt(p, f[i - 1]) \cup NodesAt(p, PutIn(entries, nesting, i))
      BY <3>2, NodesOfJoined
    <3>4. QED  BY <3>1, <3>3
  <2> HIDE DEF sum, part
  <2>4. sum[n] = UNION {part[i] : i \in 1 .. n}
    <3> HIDE DEF n
    <3>1. sum[n] = Total(part, n)
      BY <2>0, <2>2, <2>3, Accumulated
    <3>2. QED  BY <3>1 DEF Total
  <2>5. NodesAt(p, Directory(entries, nesting)) = UNION {NodesAt(p, PutIn(entries, nesting, i)) : i \in 1 .. n}
    <3>1. f[n] = Directory(entries, nesting) /\ n \in 1 .. n
      BY <2>0, <2>1 DEF Growing
    <3>2. QED  BY <2>4, <3>1 DEF sum, part
  <2>6. ASSUME NEW j \in 1 .. n
        PROVE  NodesAt(p, Labeled(entries[j][1], entries[j][2])) =
                 IF Head(p) = entries[j][1] THEN NodesAt(Tail(p), entries[j][2]) ELSE {}
    BY EntriesAreFull, NodesOfLabeled
  <2>7. u \in NodesAt(p, Directory(entries, nesting)) <=>
          \E j \in 1 .. n : u \in NodesAt(p, Labeled(entries[j][1], entries[j][2]))
    <3>1. \A i \in 1 .. n : \E j \in 1 .. n :
            PutIn(entries, nesting, i) = Labeled(entries[j][1], entries[j][2])
      BY PutInEntries
    <3>2. \A j \in 1 .. n : \E i \in 1 .. n :
            PutIn(entries, nesting, i) = Labeled(entries[j][1], entries[j][2])
      BY PutInEntries
    <3>3. QED  BY <2>5, <3>1, <3>2
  <2>8. QED  BY <2>6, <2>7
<1>3. QED  BY <1>1, <1>2

(* list_paths goes through the entries. *)
LEMMA ListedOfDirectory ==
  ASSUME NEW entries, NEW nesting, Len(entries) \in Nat, Directory(entries, nesting) \in FullTree,
         NEW before \in Path, NEW p \in ListPaths(Directory(entries, nesting), before)
  PROVE  \E i \in 1 .. Len(entries) : p \in ListPaths(entries[i][2], Append(before, entries[i][1]))
<1> DEFINE n == Len(entries)
<1>1. CASE n = 0
  <2>1. Directory(entries, nesting) = Empty
    BY <1>1 DEF Directory
  <2>2. Opaque(Directory(entries, nesting)) /\ Directory(entries, nesting) \in Tree
    BY <2>1, FullTreesAreTrees DEF Opaque, Empty, Tag
  <2>3. QED  BY <2>2, ListPathsStep
<1>2. CASE n # 0
  <2>0. n \in Nat \ {0}
    BY <1>2
  <2>1. PICK f : Growing(f, entries, nesting)
    BY <2>0, DirectoryParts
  <2> DEFINE sum == [i \in 1 .. n |-> ListPaths(f[i], before)]
             part == [i \in 1 .. n |-> ListPaths(PutIn(entries, nesting, i), before)]
  <2>2. sum[1] = part[1]
    BY <2>0, <2>1 DEF Growing
  <2>3. ASSUME NEW i \in 2 .. n PROVE sum[i] = sum[i - 1] \cup part[i]
    <3>1. i \in 1 .. n /\ i - 1 \in 1 .. n
      BY <2>0
    <3>2. f[i] = Joined(nesting, f[i - 1], PutIn(entries, nesting, i)) /\ f[i] \in FullTree
      BY <2>1, <3>1 DEF Growing
    <3>3. ListPaths(f[i], before) = ListPaths(f[i - 1], before) \cup ListPaths(PutIn(entries, nesting, i), before)
      BY <3>2, ListedOfJoined
    <3>4. QED  BY <3>1, <3>3
  <2> HIDE DEF sum, part
  <2>4. sum[n] = UNION {part[i] : i \in 1 .. n}
    <3> HIDE DEF n
    <3>1. sum[n] = Total(part, n)
      BY <2>0, <2>2, <2>3, Accumulated
    <3>2. QED  BY <3>1 DEF Total
  <2>5. \E i \in 1 .. n : p \in ListPaths(PutIn(entries, nesting, i), before)
    <3>1. f[n] = Directory(entries, nesting) /\ n \in 1 .. n
      BY <2>0, <2>1 DEF Growing
    <3>2. QED  BY <2>4, <3>1 DEF sum, part
  <2>6. PICK i \in 1 .. n : p \in ListPaths(PutIn(entries, nesting, i), before)
    BY <2>5
  <2>7. PICK j \in 1 .. n : PutIn(entries, nesting, i) = Labeled(entries[j][1], entries[j][2])
    BY PutInEntries
  <2>8. ListPaths(Labeled(entries[j][1], entries[j][2]), before)
          = ListPaths(entries[j][2], Append(before, entries[j][1]))
    BY EntriesAreFull, ListedOfLabeled
  <2>9. QED  BY <2>6, <2>7, <2>8
<1>3. QED  BY <1>1, <1>2

(* A directory whose labels differ is clear if its entries are. *)
LEMMA ClearDirectory ==
  ASSUME NEW entries, NEW nesting, Len(entries) \in Nat, Directory(entries, nesting) \in FullTree,
         \A i, j \in 1 .. Len(entries) : entries[i][1] = entries[j][1] => i = j,
         \A i \in 1 .. Len(entries) : Clear(entries[i][2])
  PROVE  Clear(Directory(entries, nesting))
<1> DEFINE n == Len(entries)
           at(i) == IF nesting = "left" THEN i ELSE n + 1 - i
<1>1. CASE n = 0
  <2>1. Directory(entries, nesting) = Empty
    BY <1>1 DEF Directory
  <2>2. Tag(Directory(entries, nesting)) = "empty"
    BY <2>1 DEF Empty, Tag
  <2>3. QED  BY <2>2, ClearIfParts
<1>2. CASE n # 0
  <2>0. n \in Nat \ {0}
    BY <1>2
  <2>1. PICK f : Growing(f, entries, nesting)
    BY <2>0, DirectoryParts
  <2>2. /\ \A i \in 1 .. n : at(i) \in 1 .. n
        /\ \A i, j \in 1 .. n : at(i) = at(j) => i = j
    OBVIOUS
  <2>3. \A i : PutIn(entries, nesting, i) = Labeled(entries[at(i)][1], entries[at(i)][2])
    BY DEF PutIn
  <2> HIDE DEF at
  <2> DEFINE label(i) == entries[at(i)][1]
  <2>4. ASSUME NEW i \in 1 .. n, NEW p \in Path, p # << >>, Head(p) # label(i)
        PROVE  NodesAt(p, PutIn(entries, nesting, i)) = {}
    <3>1. Labeled(entries[at(i)][1], entries[at(i)][2]) \in FullTree
      BY <2>2, EntriesAreFull
    <3>2. QED  BY <2>3, <2>4, <3>1, NodesOfLabeled
  <2>5. ASSUME NEW i \in 1 .. n PROVE Clear(PutIn(entries, nesting, i))
    <3>1. Tag(PutIn(entries, nesting, i)) = "labeled" /\ PutIn(entries, nesting, i)[3] = entries[at(i)][2]
      BY <2>3 DEF Labeled, Tag
    <3>2. QED  BY <2>2, <3>1, ClearIfParts
  <2> DEFINE U(m) == \A p \in Path : p # << >> /\ NodesAt(p, f[m]) # {} => \E i \in 1 .. m : Head(p) = label(i)
             T == {m \in 0 .. n : m # 0 => Clear(f[m]) /\ U(m)}
  <2>6. 0 \in T
    OBVIOUS
  <2>7. ASSUME NEW m \in 1 .. n, m - 1 \in T PROVE m \in T
    <3>1. CASE m = 1
      <4>1. f[m] = PutIn(entries, nesting, 1) /\ 1 \in 1 .. n /\ 1 \in 1 .. m
        BY <2>1, <3>1 DEF Growing
      <4>2. Clear(f[m]) /\ U(m)
        BY <2>4, <2>5, <4>1
      <4>3. QED  BY <4>2
    <3>2. CASE m # 1
      <4>1. m \in 2 .. n /\ m - 1 # 0 /\ m - 1 \in 1 .. n
        BY <2>0, <3>2
      <4>2. f[m] = Joined(nesting, f[m - 1], PutIn(entries, nesting, m)) /\ f[m] \in FullTree
        BY <2>1, <4>1 DEF Growing
      <4>3. Clear(f[m - 1]) /\ U(m - 1)
        BY <2>7, <4>1
      <4>4. ASSUME NEW p \in Path, p # << >>
            PROVE  NodesAt(p, f[m - 1]) = {} \/ NodesAt(p, PutIn(entries, nesting, m)) = {}
        <5> SUFFICES ASSUME NodesAt(p, f[m - 1]) # {} PROVE Head(p) # label(m)
          BY <2>4, <4>4
        <5>1. PICK i \in 1 .. m - 1 : Head(p) = label(i)
          BY <4>3, <4>4
        <5>2. i \in 1 .. n /\ i # m
          BY <2>0
        <5>3. label(i) # label(m)
          BY <2>2, <5>2
        <5>4. QED  BY <5>1, <5>3
      <4>5. Clear(f[m])
        <5>1. Apart(f[m - 1], PutIn(entries, nesting, m)) /\ Apart(PutIn(entries, nesting, m), f[m - 1])
          BY <4>4 DEF Apart
        <5>2. /\ Tag(f[m]) = "fork"
              /\ \/ f[m][2] = f[m - 1] /\ f[m][3] = PutIn(entries, nesting, m)
                 \/ f[m][2] = PutIn(entries, nesting, m) /\ f[m][3] = f[m - 1]
          BY <4>2 DEF Joined, Fork, Tag
        <5>3. QED  BY <2>5, <4>3, <5>1, <5>2, ClearIfParts
      <4>6. U(m)
        <5> SUFFICES ASSUME NEW p \in Path, p # << >>, NodesAt(p, f[m]) # {}
                     PROVE  \E i \in 1 .. m : Head(p) = label(i)
          OBVIOUS
        <5>1. NodesAt(p, f[m]) = NodesAt(p, f[m - 1]) \cup NodesAt(p, PutIn(entries, nesting, m))
          BY <4>2, NodesOfJoined
        <5>2. CASE NodesAt(p, f[m - 1]) # {}
          <6>1. PICK i \in 1 .. m - 1 : Head(p) = label(i)
            BY <4>3, <5>2
          <6>2. i \in 1 .. m
            OBVIOUS
          <6>3. QED  BY <6>1, <6>2
        <5>3. CASE NodesAt(p, PutIn(entries, nesting, m)) # {}
          <6>1. Head(p) = label(m) /\ m \in 1 .. m
            BY <2>4, <5>3
          <6>2. QED  BY <6>1
        <5>4. QED  BY <5>1, <5>2, <5>3
      <4>7. QED  BY <4>5, <4>6
    <3>3. QED  BY <3>1, <3>2
  <2> HIDE DEF T
  <2>8. n \in T
    <3>1. \A m \in 0 .. n : m \in T
      BY <2>0, <2>6, <2>7, BoundedInduction
    <3>2. QED  BY <2>0, <3>1
  <2>9. f[n] = Directory(entries, nesting)
    BY <2>1 DEF Growing
  <2>10. QED  BY <2>0, <2>8, <2>9 DEF T
<1>3. QED  BY <1>1, <1>2

---------------------------------------------------------------------------

(* Certificates *)

(* A finite set is listed without repetition. *)
LEMMA SetIsListed ==
  ASSUME NEW S, IsFiniteSet(S)
  PROVE  /\ Len(SetToSeq(S)) \in Nat
         /\ SetToSeq(S) \in [1 .. Len(SetToSeq(S)) -> S]
         /\ \A i, j \in 1 .. Len(SetToSeq(S)) : SetToSeq(S)[i] = SetToSeq(S)[j] => i = j
<1> DEFINE n == Cardinality(S)
           P(f) == f \in [1 .. n -> S] /\ IsInjective(f)
<1>1. n \in Nat /\ ExistsBijection(1 .. n, S)
  BY FS_CardinalityType
<1>2. \E f : P(f)
  BY <1>1 DEF ExistsBijection, Bijection, Injection
<1>3. SetToSeq(S) = CHOOSE f : P(f)
  <2>1. SetToSeq(S) = CHOOSE f \in [1 .. n -> S] : IsInjective(f)
    BY DEF SetToSeq
  <2>2. QED  BY <2>1, Zenon
<1> HIDE DEF P
<1>4. P(SetToSeq(S))
  BY <1>2, <1>3
<1>5. SetToSeq(S) \in [1 .. n -> S]
  BY <1>4 DEF P
<1>6. SetToSeq(S) \in Seq(S) /\ Len(SetToSeq(S)) = n
  BY <1>1, <1>5
<1>7. \A i, j \in 1 .. n : SetToSeq(S)[i] = SetToSeq(S)[j] => i = j
  BY <1>4, <1>5 DEF P, IsInjective
<1> HIDE DEF n
<1>8. QED  BY <1>1, <1>5, <1>6, <1>7

(* Canister ids have a greatest one. *)
LEMMA GreatestId ==
  ASSUME NEW T, T \subseteq Canisters, T # {}
  PROVE  Max(T) \in T /\ \A c \in T : c <= Max(T)
<1> DEFINE HasMax(U) == \E x \in U : \A y \in U : x >= y
           S == {n \in Nat : \A U \in SUBSET Canisters : Cardinality(U) = n => U = {} \/ HasMax(U)}
<1>0. IsFiniteSet(Canisters) /\ Canisters \subseteq Int
  BY CertificateAssumption
<1>1. 0 \in S
  BY <1>0, FS_Subset, FS_EmptySet
<1>2. ASSUME NEW n \in Nat, n \in S PROVE n + 1 \in S
  <2> SUFFICES ASSUME NEW U \in SUBSET Canisters, Cardinality(U) = n + 1, U # {} PROVE HasMax(U)
    OBVIOUS
  <2>1. PICK e : e \in U
    OBVIOUS
  <2>2. IsFiniteSet(U)
    BY <1>0, FS_Subset
  <2>3. Cardinality(U \ {e}) = n
    <3>1. Cardinality(U \ {e}) = Cardinality(U) - 1
      BY <2>1, <2>2, FS_RemoveElement
    <3>2. QED  BY <3>1
  <2>4. U \ {e} = {} \/ HasMax(U \ {e})
    <3>1. U \ {e} \in SUBSET Canisters
      OBVIOUS
    <3>2. QED  BY <1>2, <2>3, <3>1
  <2>5. \A x, y \in U : x \in Int /\ y \in Int
    BY <1>0
  <2>6. CASE U \ {e} = {}
    BY <2>1, <2>5, <2>6
  <2>7. CASE HasMax(U \ {e})
    <3>1. PICK m \in U \ {e} : \A y \in U \ {e} : m >= y
      BY <2>7
    <3>2. CASE m >= e
      BY <2>5, <3>1, <3>2
    <3>3. CASE ~ (m >= e)
      <4>1. \A y \in U : e >= y
        BY <2>1, <2>5, <3>1, <3>3
      <4>2. QED  BY <2>1, <4>1
    <3>4. QED  BY <3>2, <3>3
  <2>8. QED  BY <2>4, <2>6, <2>7
<1> HIDE DEF S
<1>3. \A n \in Nat : n \in S
  BY <1>1, <1>2, Induction
<1>4. HasMax(T)
  <2>1. Cardinality(T) \in Nat
    BY <1>0, FS_Subset, FS_CardinalityType
  <2>2. QED  BY <1>3, <2>1 DEF S
<1>5. Max(T) \in T /\ \A y \in T : Max(T) >= y
  BY <1>4 DEF Max
<1>6. QED  BY <1>0, <1>5

-----------------------------------------------------------------------------
(* What the root subnet signs                                               *)

RangesOf(table, nesting) ==
  [i \in DOMAIN SetToSeq(Subnets) |->
     <<SetToSeq(Subnets)[i], Shards(table, SetToSeq(Subnets)[i], nesting)>>]

KeysOf == [i \in DOMAIN SetToSeq(Subnets) |->
             <<SetToSeq(Subnets)[i],
               Labeled(Name("public_key"), Leaf(KeyOf(SetToSeq(Subnets)[i])))>>]

RootEntries(table, nesting) ==
  << <<Name("canister_ranges"), Directory(RangesOf(table, nesting), nesting)>>,
     <<Name("subnet"), Directory(KeysOf, nesting)>>,
     <<Name("time"), Leaf(Text("now"))>> >>

ShardEntries(table, s) ==
  [i \in DOMAIN SetToSeq(Starts(table, s)) |->
     <<Id(SetToSeq(Starts(table, s))[i]),
       Leaf(RangeSet(Shard(table, s, SetToSeq(Starts(table, s))[i])))>>]

(* The trees of the root subnet are directories of these entries. *)
LEMMA RootIsDirectory ==
  ASSUME NEW table, NEW nesting, NEW s
  PROVE  /\ RootTree(table, nesting) = Directory(RootEntries(table, nesting), nesting)
         /\ Shards(table, s, nesting) = Directory(ShardEntries(table, s), nesting)
<1>1. RootTree(table, nesting) = Directory(RootEntries(table, nesting), nesting)
  BY DEF RootTree, RootEntries, RangesOf, KeysOf
<1>2. Shards(table, s, nesting) = Directory(ShardEntries(table, s), nesting)
  BY DEF Shards, ShardEntries
<1>3. QED  BY <1>1, <1>2

(* They are whole trees no higher than MaxHeight. *)
LEMMA RootParts ==
  ASSUME NEW table \in [Canisters -> Subnets], NEW nesting \in Nestings
  PROVE  /\ RootTree(table, nesting) \in FullTree
         /\ Directory(RangesOf(table, nesting), nesting) \in FullTree
         /\ Directory(KeysOf, nesting) \in FullTree
<1>1. RootTree(table, nesting) \in FullTree
  BY LayoutAssumption DEF FullTree
<1>2. Directory(RootEntries(table, nesting), nesting) \in FullTree
  BY <1>1, RootIsDirectory
<1> DEFINE es == RootEntries(table, nesting)
<1>3. /\ Len(es) = 3 /\ es[1][2] = Directory(RangesOf(table, nesting), nesting)
      /\ es[2][2] = Directory(KeysOf, nesting)
  BY DEF RootEntries
<1> HIDE DEF es
<1>4. es[1][2] \in FullTree /\ es[2][2] \in FullTree
  <2>1. Len(es) \in Nat /\ 1 \in 1 .. Len(es) /\ 2 \in 1 .. Len(es)
    BY <1>3
  <2>2. Directory(es, nesting) \in FullTree
    BY <1>2 DEF es
  <2>3. QED  BY <2>1, <2>2, EntriesAreFull
<1>5. QED  BY <1>1, <1>3, <1>4

(* Shards start at canister ids. *)
LEMMA StartsAreIds ==
  ASSUME NEW table, NEW s
  PROVE  Starts(table, s) \subseteq Canisters /\ IsFiniteSet(Starts(table, s))
<1>1. Starts(table, s) \subseteq Canisters
  BY DEF Starts, Ranges
<1>2. QED  BY <1>1, CertificateAssumption, FS_Subset

(* The lists of entries are as long as what they are made of. *)
LEMMA ListLengths ==
  ASSUME NEW table, NEW s, NEW nesting
  PROVE  /\ Len(SetToSeq(Subnets)) \in Nat /\ Len(SetToSeq(Starts(table, s))) \in Nat
         /\ Len(RangesOf(table, nesting)) = Len(SetToSeq(Subnets))
         /\ Len(KeysOf) = Len(SetToSeq(Subnets))
         /\ Len(ShardEntries(table, s)) = Len(SetToSeq(Starts(table, s)))
         /\ DOMAIN SetToSeq(Subnets) = 1 .. Len(SetToSeq(Subnets))
         /\ DOMAIN SetToSeq(Starts(table, s)) = 1 .. Len(SetToSeq(Starts(table, s)))
<1>1. IsFiniteSet(Subnets) /\ IsFiniteSet(Starts(table, s))
  BY StartsAreIds, CertificateAssumption
<1> DEFINE A == SetToSeq(Subnets)
           B == SetToSeq(Starts(table, s))
<1>2. Len(A) \in Nat /\ DOMAIN A = 1 .. Len(A)
  BY <1>1, SetIsListed
<1>3. Len(B) \in Nat /\ DOMAIN B = 1 .. Len(B)
  BY <1>1, SetIsListed
<1> HIDE DEF A, B
<1>4. Len(RangesOf(table, nesting)) = Len(A)
  BY <1>2 DEF RangesOf, A
<1>5. Len(KeysOf) = Len(A)
  BY <1>2 DEF KeysOf, A
<1>6. Len(ShardEntries(table, s)) = Len(B)
  BY <1>3 DEF ShardEntries, B
<1>7. QED  BY <1>2, <1>3, <1>4, <1>5, <1>6 DEF A, B

(* Paths of one label *)
LEMMA PathOf1 ==
  ASSUME NEW a \in Labels
  PROVE  << >> \in Path /\ <<a>> \in Path /\ <<a>> # << >> /\ Head(<<a>>) = a /\ Tail(<<a>>) = << >>
BY DEF Path

(* Paths of two labels *)
LEMMA PathOf2 ==
  ASSUME NEW a \in Labels, NEW b \in Labels
  PROVE  <<a, b>> \in Path /\ <<a, b>> # << >> /\ Head(<<a, b>>) = a /\ Tail(<<a, b>>) = <<b>>
BY DEF Path

(* Paths of three labels *)
LEMMA PathOf3 ==
  ASSUME NEW a \in Labels, NEW b \in Labels, NEW c \in Labels
  PROVE  /\ <<a, b, c>> \in Path /\ <<a, b, c>> # << >>
         /\ Head(<<a, b, c>>) = a /\ Tail(<<a, b, c>>) = <<b, c>>
         /\ <<a, b>> \o <<c>> = <<a, b, c>>
<1>1. <<a, b, c>> \in Path /\ <<a, b, c>> # << >> /\ Head(<<a, b, c>>) = a
  BY DEF Path
<1>2. Tail(<<a, b, c>>) = <<b, c>>
  OBVIOUS
<1>3. <<a, b>> \o <<c>> = <<a, b, c>>
  <2>1. <<a, b, c>> = Append(<<a, b>>, c)
    OBVIOUS
  <2>2. <<a, b>> \in Seq({a, b, c}) /\ c \in {a, b, c}
    OBVIOUS
  <2>3. Append(<<a, b>>, c) = <<a, b>> \o <<c>>
    BY <2>2, AppendIsConcat
  <2>4. QED  BY <2>1, <2>3
<1>4. QED  BY <1>1, <1>2, <1>3

(* Lists made by appending *)
LEMMA Appends ==
  ASSUME NEW a, NEW b, NEW c
  PROVE  /\ Append(<< >>, a) = <<a>> /\ Append(<<a>>, b) = <<a, b>>
         /\ Append(<<a, b>>, c) = <<a, b, c>>
<1>1. Append(<< >>, a) = <<a>>
  OBVIOUS
<1>2. <<a, b>> = Append(<<a>>, b)
  OBVIOUS
<1>3. <<a, b, c>> = Append(<<a, b>>, c)
  OBVIOUS
<1>4. QED  BY <1>1, <1>2, <1>3

(* The labels that check_delegation looks for *)
LEMMA NamesAreLabels ==
  /\ Name("canister_ranges") \in Labels /\ Name("subnet") \in Labels /\ Name("public_key") \in Labels
  /\ Subnets \subseteq Labels
BY LayoutAssumption

(* What is under canister_ranges and under subnet *)
LEMMA NodesOfRoot ==
  ASSUME NEW table \in [Canisters -> Subnets], NEW nesting \in Nestings,
         NEW p \in Path, NEW u
  PROVE  /\ p # << >> /\ Head(p) = Name("canister_ranges") /\ u \in NodesAt(p, RootTree(table, nesting)) =>
              u \in NodesAt(Tail(p), Directory(RangesOf(table, nesting), nesting))
         /\ p # << >> /\ Head(p) = Name("subnet") /\ u \in NodesAt(p, RootTree(table, nesting)) =>
              u \in NodesAt(Tail(p), Directory(KeysOf, nesting))
<1> DEFINE es == RootEntries(table, nesting)
<1>1. /\ Len(es) = 3 /\ es[1][2] = Directory(RangesOf(table, nesting), nesting)
      /\ es[2][2] = Directory(KeysOf, nesting)
      /\ es[1][1] = Name("canister_ranges") /\ es[2][1] = Name("subnet") /\ es[3][1] = Name("time")
  BY DEF RootEntries
<1> HIDE DEF es
<1>2. Directory(es, nesting) \in FullTree /\ RootTree(table, nesting) = Directory(es, nesting)
  BY RootParts, RootIsDirectory DEF es
<1>3. ASSUME p # << >>, u \in NodesAt(p, Directory(es, nesting))
      PROVE  \E i \in 1 .. 3 : es[i][1] = Head(p) /\ u \in NodesAt(Tail(p), es[i][2])
  <2>1. Len(es) \in Nat /\ Len(es) = 3
    BY <1>1
  <2>2. \E i \in 1 .. Len(es) : es[i][1] = Head(p) /\ u \in NodesAt(Tail(p), es[i][2])
    BY <1>2, <1>3, <2>1, NodesOfDirectory
  <2>3. QED  BY <2>1, <2>2
<1>4. /\ Name("canister_ranges") # Name("subnet") /\ Name("canister_ranges") # Name("time")
      /\ Name("subnet") # Name("time")
  <2>1. \A x : Name(x).name = x
    BY DEF Name
  <2>2. Name("canister_ranges").name # Name("subnet").name /\ Name("canister_ranges").name # Name("time").name
        /\ Name("subnet").name # Name("time").name
    BY <2>1
  <2>3. QED  BY <2>2
<1>5. \A i \in 1 .. 3 : i = 1 \/ i = 2 \/ i = 3
  OBVIOUS
<1>6. QED  BY <1>1, <1>2, <1>3, <1>4, <1>5

(* The key of a subnet *)
LEMMA KeysOfRoot ==
  ASSUME NEW table \in [Canisters -> Subnets], NEW nesting \in Nestings, NEW s \in Subnets,
         NEW u \in NodesAt(<<Name("subnet"), s, Name("public_key")>>, RootTree(table, nesting))
  PROVE  u = Leaf(KeyOf(s))
<1> DEFINE p == <<Name("subnet"), s, Name("public_key")>>
<1>1. p \in Path /\ p # << >> /\ Head(p) = Name("subnet") /\ Tail(p) = <<s, Name("public_key")>>
  <2> DEFINE a == Name("subnet")
             c == Name("public_key")
  <2>1. a \in Labels /\ c \in Labels /\ s \in Labels
    BY NamesAreLabels
  <2> HIDE DEF a, c
  <2>2. /\ <<a, s, c>> \in Path /\ <<a, s, c>> # << >>
        /\ Head(<<a, s, c>>) = a /\ Tail(<<a, s, c>>) = <<s, c>>
    BY <2>1, PathOf3
  <2>3. QED  BY <2>2 DEF a, c
<1>2. u \in NodesAt(<<s, Name("public_key")>>, Directory(KeysOf, nesting))
  BY <1>1, NodesOfRoot
<1> HIDE DEF p
<1> DEFINE q == <<s, Name("public_key")>>
<1>3. q \in Path /\ q # << >> /\ Head(q) = s /\ Tail(q) = <<Name("public_key")>>
  BY NamesAreLabels, PathOf2
<1> HIDE DEF q
<1>4. Len(KeysOf) \in Nat /\ Directory(KeysOf, nesting) \in FullTree
  BY ListLengths, RootParts
<1>5. PICK i \in 1 .. Len(KeysOf) : KeysOf[i][1] = s /\ u \in NodesAt(<<Name("public_key")>>, KeysOf[i][2])
  BY <1>2, <1>3, <1>4, NodesOfDirectory DEF q
<1>6. KeysOf[i][1] = SetToSeq(Subnets)[i]
      /\ KeysOf[i][2] = Labeled(Name("public_key"), Leaf(KeyOf(SetToSeq(Subnets)[i])))
  BY ListLengths DEF KeysOf
<1>7. KeysOf[i][2] = Labeled(Name("public_key"), Leaf(KeyOf(s)))
  BY <1>5, <1>6
<1>8. Labeled(Name("public_key"), Leaf(KeyOf(s))) \in FullTree
  BY <1>4, <1>7, EntriesAreFull
<1> DEFINE r == <<Name("public_key")>>
<1>9. r \in Path /\ r # << >> /\ Head(r) = Name("public_key") /\ Tail(r) = << >>
  BY NamesAreLabels, PathOf1
<1>10. u \in NodesAt(<< >>, Leaf(KeyOf(s)))
  <2>1. u \in NodesAt(r, Labeled(Name("public_key"), Leaf(KeyOf(s))))
    BY <1>5, <1>7
  <2> HIDE DEF r
  <2>2. QED  BY <1>8, <1>9, <2>1, NodesOfLabeled
<1>11. << >> \in Path /\ Leaf(KeyOf(s)) \in Tree
  BY <1>8, PartsOfBuilt, FullTreesAreTrees, PathOf1, NamesAreLabels
<1>12. QED  BY <1>10, <1>11, NodesAtStep

(* The shards of a subnet *)
LEMMA ShardsOfRoot ==
  ASSUME NEW table \in [Canisters -> Subnets], NEW nesting \in Nestings, NEW s \in Subnets,
         NEW u \in NodesAt(<<Name("canister_ranges"), s>>, RootTree(table, nesting))
  PROVE  u = Shards(table, s, nesting) /\ u \in FullTree
<1> DEFINE p == <<Name("canister_ranges"), s>>
<1>1. p \in Path /\ p # << >> /\ Head(p) = Name("canister_ranges") /\ Tail(p) = <<s>>
  BY NamesAreLabels, PathOf2
<1>2. u \in NodesAt(<<s>>, Directory(RangesOf(table, nesting), nesting))
  BY <1>1, NodesOfRoot
<1> HIDE DEF p
<1> DEFINE q == <<s>>
           es == RangesOf(table, nesting)
<1>3. q \in Path /\ q # << >> /\ Head(q) = s /\ Tail(q) = << >> /\ << >> \in Path
  BY NamesAreLabels, PathOf1
<1>4. Len(es) \in Nat /\ Directory(es, nesting) \in FullTree
  BY ListLengths, RootParts
<1> HIDE DEF q
<1>5. PICK i \in 1 .. Len(es) : es[i][1] = s /\ u \in NodesAt(<< >>, es[i][2])
  BY <1>2, <1>3, <1>4, NodesOfDirectory DEF q
<1>6. es[i][1] = SetToSeq(Subnets)[i] /\ es[i][2] = Shards(table, SetToSeq(Subnets)[i], nesting)
  BY ListLengths DEF RangesOf
<1>7. es[i][2] = Shards(table, s, nesting)
  BY <1>5, <1>6
<1>8. Shards(table, s, nesting) \in FullTree
  <2>1. es[i][2] \in FullTree
    BY <1>4, EntriesAreFull
  <2>2. QED  BY <1>7, <2>1
<1>9. Shards(table, s, nesting) \in Tree
  BY <1>8, FullTreesAreTrees
<1>10. u \in NodesAt(<< >>, Shards(table, s, nesting))
  BY <1>5, <1>7
<1>11. QED  BY <1>3, <1>8, <1>9, <1>10, NodesAtStep

(* A label tells its canister. *)
LEMMA IdsDiffer ==
  ASSUME NEW c, NEW d, Id(c) = Id(d)
  PROVE  c = d
BY DEF Id

(* What is in a shard's directory *)
LEMMA ShardsEntries ==
  ASSUME NEW table, NEW s, NEW nesting, NEW i \in 1 .. Len(ShardEntries(table, s))
  PROVE  \E start \in Starts(table, s) :
           /\ ShardEntries(table, s)[i][1] = Id(start)
           /\ ShardEntries(table, s)[i][2] = Leaf(RangeSet(Shard(table, s, start)))
<1>1. IsFiniteSet(Starts(table, s))
  BY StartsAreIds
<1>2. i \in 1 .. Len(SetToSeq(Starts(table, s))) /\ i \in DOMAIN SetToSeq(Starts(table, s))
  BY ListLengths
<1>3. SetToSeq(Starts(table, s))[i] \in Starts(table, s)
  BY <1>1, <1>2, SetIsListed
<1>4. QED  BY <1>2, <1>3 DEF ShardEntries

(* What is found in a subnet's shards under a label is that label's shard. *)
LEMMA RangesOfShard ==
  ASSUME NEW table, NEW s, NEW nesting, Shards(table, s, nesting) \in FullTree,
         NEW l \in Labels, NEW u \in NodesAt(<<l>>, Shards(table, s, nesting))
  PROVE  \E start \in Starts(table, s) : l = Id(start) /\ u = Leaf(RangeSet(Shard(table, s, start)))
<1> DEFINE es == ShardEntries(table, s)
           q == <<l>>
<1>1. q \in Path /\ q # << >> /\ Head(q) = l /\ Tail(q) = << >> /\ << >> \in Path
  BY PathOf1
<1> HIDE DEF q
<1>2. Len(es) \in Nat /\ Shards(table, s, nesting) = Directory(es, nesting)
  BY ListLengths, RootIsDirectory
<1>3. PICK i \in 1 .. Len(es) : es[i][1] = l /\ u \in NodesAt(<< >>, es[i][2])
  <2>1. u \in NodesAt(q, Directory(es, nesting)) /\ Directory(es, nesting) \in FullTree
    BY <1>2 DEF q
  <2> HIDE DEF es
  <2>2. \E i \in 1 .. Len(es) : es[i][1] = Head(q) /\ u \in NodesAt(Tail(q), es[i][2])
    BY <1>1, <1>2, <2>1, NodesOfDirectory
  <2>3. QED  BY <1>1, <2>2
<1>4. PICK start \in Starts(table, s) :
        es[i][1] = Id(start) /\ es[i][2] = Leaf(RangeSet(Shard(table, s, start)))
  BY ShardsEntries
<1>5. es[i][2] \in Tree
  BY <1>2, EntriesAreFull, FullTreesAreTrees
<1>6. u = es[i][2]
  BY <1>1, <1>3, <1>5, NodesAtStep
<1>7. QED  BY <1>3, <1>4, <1>6

(* The paths listed in a subnet's shards end in the shards' labels. *)
LEMMA ListedShards ==
  ASSUME NEW table, NEW s, NEW nesting, Shards(table, s, nesting) \in FullTree,
         NEW before \in Path, NEW p \in ListPaths(Shards(table, s, nesting), before)
  PROVE  \E start \in Starts(table, s) : p = Append(before, Id(start)) /\ Id(start) \in Labels
<1> DEFINE es == ShardEntries(table, s)
<1>1. Len(es) \in Nat /\ Shards(table, s, nesting) = Directory(es, nesting)
  BY ListLengths, RootIsDirectory
<1>2. PICK i \in 1 .. Len(es) : p \in ListPaths(es[i][2], Append(before, es[i][1]))
  BY <1>1, ListedOfDirectory
<1>3. PICK start \in Starts(table, s) :
        es[i][1] = Id(start) /\ es[i][2] = Leaf(RangeSet(Shard(table, s, start)))
  BY ShardsEntries
<1>4. es[i][2] \in Tree /\ es[i][1] \in Labels
  BY <1>1, EntriesAreFull, FullTreesAreTrees
<1> DEFINE q == Append(before, es[i][1])
<1>5. q \in Path
  <2> HIDE DEF es
  <2>1. QED  BY <1>4, PathAppend
<1>6. Tag(es[i][2]) = "leaf" /\ ~ Opaque(es[i][2])
  BY <1>3 DEF Leaf, Tag, Opaque
<1> HIDE DEF q, es
<1>7. ListPaths(es[i][2], q) = {q}
  BY <1>4, <1>5, <1>6, ListPathsStep
<1>8. QED  BY <1>2, <1>3, <1>4, <1>7 DEF q

(* A path leads to one place of the root tree and of a state tree. *)
LEMMA RootIsClear ==
  ASSUME NEW table \in [Canisters -> Subnets], NEW nesting \in Nestings
  PROVE  Clear(RootTree(table, nesting))
<1>0. \A x : Clear(Leaf(x)) /\ Clear(Labeled(Name("public_key"), Leaf(x)))
  <2>1. ASSUME NEW x PROVE Clear(Leaf(x))
    <3>1. Tag(Leaf(x)) = "leaf"
      BY DEF Leaf, Tag
    <3>2. QED  BY <3>1, ClearIfParts
  <2>2. ASSUME NEW x PROVE Clear(Labeled(Name("public_key"), Leaf(x)))
    <3>1. Tag(Labeled(Name("public_key"), Leaf(x))) = "labeled"
          /\ Labeled(Name("public_key"), Leaf(x))[3] = Leaf(x)
      BY DEF Labeled, Tag
    <3>2. QED  BY <2>1, <3>1, ClearIfParts
  <2>3. QED  BY <2>1, <2>2
<1>1. IsFiniteSet(Subnets)
  BY CertificateAssumption
<1>2. Clear(Directory(KeysOf, nesting))
  <2>1. \A i \in 1 .. Len(KeysOf) :
          /\ KeysOf[i][1] = SetToSeq(Subnets)[i]
          /\ KeysOf[i][2] = Labeled(Name("public_key"), Leaf(KeyOf(SetToSeq(Subnets)[i])))
    BY ListLengths DEF KeysOf
  <2>2. \A i, j \in 1 .. Len(KeysOf) : KeysOf[i][1] = KeysOf[j][1] => i = j
    BY <1>1, <2>1, ListLengths, SetIsListed
  <2>3. \A i \in 1 .. Len(KeysOf) : Clear(KeysOf[i][2])
    BY <1>0, <2>1
  <2>4. Len(KeysOf) \in Nat /\ Directory(KeysOf, nesting) \in FullTree
    BY ListLengths, RootParts
  <2>5. QED  BY <2>2, <2>3, <2>4, ClearDirectory
<1>3. ASSUME NEW s, Shards(table, s, nesting) \in FullTree PROVE Clear(Shards(table, s, nesting))
  <2> DEFINE es == ShardEntries(table, s)
  <2>1. Len(es) \in Nat /\ Shards(table, s, nesting) = Directory(es, nesting)
    BY ListLengths, RootIsDirectory
  <2>2. \A i \in 1 .. Len(es) : Clear(es[i][2])
    BY <1>0, ShardsEntries
  <2>3. ASSUME NEW i \in 1 .. Len(es), NEW j \in 1 .. Len(es), es[i][1] = es[j][1] PROVE i = j
    <3>1. es[i][1] = Id(SetToSeq(Starts(table, s))[i]) /\ es[j][1] = Id(SetToSeq(Starts(table, s))[j])
      BY ListLengths DEF ShardEntries
    <3>2. SetToSeq(Starts(table, s))[i] = SetToSeq(Starts(table, s))[j]
      BY <2>3, <3>1, IdsDiffer
    <3>3. QED  BY <3>2, StartsAreIds, ListLengths, SetIsListed
  <2> HIDE DEF es
  <2>4. QED  BY <1>3, <2>1, <2>2, <2>3, ClearDirectory
<1>4. Clear(Directory(RangesOf(table, nesting), nesting))
  <2> DEFINE es == RangesOf(table, nesting)
  <2>1. \A i \in 1 .. Len(es) :
          es[i][1] = SetToSeq(Subnets)[i] /\ es[i][2] = Shards(table, SetToSeq(Subnets)[i], nesting)
    BY ListLengths DEF RangesOf
  <2>2. \A i, j \in 1 .. Len(es) : es[i][1] = es[j][1] => i = j
    BY SMTT(30), <1>1, <2>1, ListLengths, SetIsListed
  <2>3. Len(es) \in Nat /\ Directory(es, nesting) \in FullTree
    BY ListLengths, RootParts
  <2>4. \A i \in 1 .. Len(es) : Clear(es[i][2])
    BY <1>3, <2>1, <2>3, EntriesAreFull
  <2> HIDE DEF es
  <2>5. Clear(Directory(es, nesting))
    BY <2>2, <2>3, <2>4, ClearDirectory
  <2>6. QED  BY <2>5 DEF es
<1> DEFINE es == RootEntries(table, nesting)
<1>5. /\ Len(es) = 3 /\ es[1][2] = Directory(RangesOf(table, nesting), nesting)
      /\ es[2][2] = Directory(KeysOf, nesting) /\ es[3][2] = Leaf(Text("now"))
      /\ es[1][1] = Name("canister_ranges") /\ es[2][1] = Name("subnet") /\ es[3][1] = Name("time")
  BY DEF RootEntries
<1>6. Directory(es, nesting) \in FullTree /\ RootTree(table, nesting) = Directory(es, nesting)
  BY RootParts, RootIsDirectory
<1> HIDE DEF es
<1>7. \A i \in 1 .. 3 : i = 1 \/ i = 2 \/ i = 3
  OBVIOUS
<1>8. \A i \in 1 .. 3 : Clear(es[i][2])
  BY <1>0, <1>2, <1>4, <1>5, <1>7
<1>9. \A i, j \in 1 .. 3 : es[i][1] = es[j][1] => i = j
  <2>1. \A x : Name(x).name = x
    BY DEF Name
  <2>2. es[1][1].name = "canister_ranges" /\ es[2][1].name = "subnet" /\ es[3][1].name = "time"
    BY <1>5, <2>1
  <2>3. QED  BY <1>7, <2>2
<1>10. QED  BY <1>5, <1>6, <1>8, <1>9, ClearDirectory

-----------------------------------------------------------------------------
(* What the agent reads in a pruned tree of the root subnet                 *)

IsRootTree(tree, table) ==
  /\ table \in [Canisters -> Subnets] /\ tree \in Tree
  /\ \E nesting \in Nestings : Digest(tree) = RootTree(table, nesting)

(* What a cut-back tree of the root subnet shows is in the whole one. *)
LEMMA ShownInRoot ==
  ASSUME NEW tree, NEW table, NEW nesting \in Nestings, table \in [Canisters -> Subnets],
         tree \in Tree, Digest(tree) = RootTree(table, nesting), NEW p \in Path
  PROVE  /\ \A u \in NodesAt(p, tree) : Digest(u) \in NodesAt(p, RootTree(table, nesting))
         /\ LookupPath(p, tree) # NotFound =>
              /\ LookupPath(p, tree) \in NodesAt(p, tree)
              /\ LookupPath(p, tree) \in NodesAt(p, RootTree(table, nesting))
              /\ Tag(LookupPath(p, tree)) = "leaf"
<1>1. Digest(tree) \in FullTree
  BY RootParts
<1>2. \A u \in NodesAt(p, tree) : Digest(u) \in NodesAt(p, RootTree(table, nesting))
  BY <1>1, NodesOfDigest
<1>3. ASSUME LookupPath(p, tree) # NotFound
      PROVE  /\ LookupPath(p, tree) \in NodesAt(p, tree) /\ Tag(LookupPath(p, tree)) = "leaf"
             /\ Digest(LookupPath(p, tree)) = LookupPath(p, tree)
  <2>1. LookupPath(p, tree) \in NodesAt(p, tree) /\ Tag(LookupPath(p, tree)) = "leaf"
    BY <1>3, LookupPathFinds
  <2>2. LookupPath(p, tree) \in Tree /\ ~ Opaque(LookupPath(p, tree))
    BY <2>1, NodesAreTrees
  <2>3. QED  BY <2>1, <2>2, DigestTag
<1>4. QED  BY <1>2, <1>3

(* The key shown for a subnet is its key. *)
LEMMA KeyShown ==
  ASSUME NEW tree, NEW table, IsRootTree(tree, table), NEW s \in Subnets,
         LookupPath(<<Name("subnet"), s, Name("public_key")>>, tree) # NotFound
  PROVE  LookupPath(<<Name("subnet"), s, Name("public_key")>>, tree) = Leaf(KeyOf(s))
<1> DEFINE p == <<Name("subnet"), s, Name("public_key")>>
<1>1. PICK nesting \in Nestings : Digest(tree) = RootTree(table, nesting)
  BY DEF IsRootTree
<1>2. table \in [Canisters -> Subnets] /\ tree \in Tree
  BY DEF IsRootTree
<1>3. p \in Path
  BY NamesAreLabels, PathOf3
<1>4. LookupPath(p, tree) \in NodesAt(p, RootTree(table, nesting))
  <2> HIDE DEF p
  <2>1. LookupPath(p, tree) # NotFound
    BY DEF p
  <2>2. QED  BY <1>1, <1>2, <1>3, <2>1, ShownInRoot
<1>5. QED  BY <1>2, <1>4, KeysOfRoot

(* The shards shown for a subnet, and the labels list_paths finds there *)
LabelsOf(shards) == {p[Len(p)].id : p \in ListPaths(shards, << >>) \ {<< >>}}

(* They are the labels of shards that were signed. *)
LEMMA ShardsShown ==
  ASSUME NEW tree, NEW table \in [Canisters -> Subnets], NEW nesting \in Nestings,
         tree \in Tree, Digest(tree) = RootTree(table, nesting),
         NEW s \in Subnets, NEW shards \in NodesAt(<<Name("canister_ranges"), s>>, tree)
  PROVE  /\ shards \in Tree
         /\ Digest(shards) = Shards(table, s, nesting) /\ Digest(shards) \in FullTree
         /\ LabelsOf(shards) \subseteq Starts(table, s)
         /\ \A m \in LabelsOf(shards) : Id(m) \in Labels
<1> DEFINE q == <<Name("canister_ranges"), s>>
<1>1. q \in Path
  BY NamesAreLabels, PathOf2
<1>2. Digest(shards) \in NodesAt(q, RootTree(table, nesting))
  <2> HIDE DEF q
  <2>1. shards \in NodesAt(q, tree)
    BY DEF q
  <2>2. QED  BY <1>1, <2>1, ShownInRoot
<1>3. Digest(shards) = Shards(table, s, nesting) /\ Digest(shards) \in FullTree
  BY <1>2, ShardsOfRoot
<1>4. shards \in Tree
  BY <1>1, NodesAreTrees
<1>5. \A p \in ListPaths(shards, << >>) :
        \E start \in Starts(table, s) : p = <<Id(start)>> /\ Id(start) \in Labels
  <2>1. << >> \in Path
    BY DEF Path
  <2>2. ListPaths(shards, << >>) \subseteq ListPaths(Shards(table, s, nesting), << >>)
    BY <1>3, <1>4, <2>1, ListedInDigest
  <2>3. ASSUME NEW p \in ListPaths(shards, << >>)
        PROVE  \E start \in Starts(table, s) : p = <<Id(start)>> /\ Id(start) \in Labels
    <3>1. p \in ListPaths(Shards(table, s, nesting), << >>)
      BY <2>2
    <3>2. PICK start \in Starts(table, s) : p = Append(<< >>, Id(start)) /\ Id(start) \in Labels
      BY ZenonT(40), <1>3, <2>1, <3>1, ListedShards
    <3>3. Append(<< >>, Id(start)) = <<Id(start)>>
      OBVIOUS
    <3>4. QED  BY <3>2, <3>3
  <2>4. QED  BY <2>3
<1>6. ASSUME NEW m \in LabelsOf(shards) PROVE m \in Starts(table, s) /\ Id(m) \in Labels
  <2>1. PICK p \in ListPaths(shards, << >>) \ {<< >>} : m = p[Len(p)].id
    BY DEF LabelsOf
  <2>2. PICK start \in Starts(table, s) : p = <<Id(start)>> /\ Id(start) \in Labels
    BY <1>5, <2>1
  <2>3. p[Len(p)] = Id(start)
    BY <2>2
  <2>4. m = start
    BY <2>1, <2>3 DEF Id
  <2>5. QED  BY <2>2, <2>4
<1>7. QED  BY <1>3, <1>4, <1>6

(* A canister in the ranges shown is hosted by the subnet. *)
LEMMA RangesAreHosted ==
  ASSUME NEW tree, NEW table, IsRootTree(tree, table), NEW s \in Subnets,
         NEW eff \in Canisters, InCanisterRanges(tree, s, eff)
  PROVE  table[eff] = s
<1>1. PICK nesting \in Nestings : Digest(tree) = RootTree(table, nesting)
  BY DEF IsRootTree
<1>2. table \in [Canisters -> Subnets] /\ tree \in Tree
  BY DEF IsRootTree
<1> DEFINE shards == LookupTree(<<Name("canister_ranges"), s>>, tree)
           upTo   == ShardsUpTo(LabelsOf(shards), eff)
           m      == Max(upTo)
           ranges == LookupPath(<<Id(m)>>, shards)
<1>3. /\ shards # NotFound /\ upTo # {} /\ ranges # NotFound
      /\ \E r \in ranges[2].ranges : r[1] <= eff /\ eff <= r[2]
  BY DEF InCanisterRanges, LabelsOf
<1>4. shards \in NodesAt(<<Name("canister_ranges"), s>>, tree)
  <2>1. <<Name("canister_ranges"), s>> \in Path
    BY NamesAreLabels, PathOf2
  <2>2. QED  BY <1>2, <1>3, <2>1, LookupTreeFinds
<1> HIDE DEF shards
<1>5. /\ shards \in Tree
      /\ Digest(shards) = Shards(table, s, nesting) /\ Digest(shards) \in FullTree
      /\ LabelsOf(shards) \subseteq Starts(table, s)
      /\ \A l \in LabelsOf(shards) : Id(l) \in Labels
  BY <1>1, <1>2, <1>4, ShardsShown
<1>6. m \in upTo /\ upTo \subseteq LabelsOf(shards)
  <2>1. upTo \subseteq LabelsOf(shards)
    BY DEF ShardsUpTo
  <2>2. upTo \subseteq Canisters
    BY <1>5, <2>1, StartsAreIds
  <2> HIDE DEF upTo
  <2>3. QED  BY <1>3, <2>1, <2>2, GreatestId
<1>7. Id(m) \in Labels
  BY <1>5, <1>6
<1> HIDE DEF m
<1>8. ranges \in NodesAt(<<Id(m)>>, Shards(table, s, nesting))
  <2> DEFINE q == <<Id(m)>>
  <2>1. q \in Path
    BY <1>7, PathOf1
  <2> HIDE DEF q
  <2>2. LookupPath(q, shards) # NotFound
    BY <1>3 DEF q
  <2>3. LookupPath(q, shards) \in NodesAt(q, shards) /\ Tag(LookupPath(q, shards)) = "leaf"
    BY <1>5, <2>1, <2>2, LookupPathFinds
  <2>4. LookupPath(q, shards) \in Tree /\ ~ Opaque(LookupPath(q, shards))
    BY <1>5, <2>1, <2>3, NodesAreTrees
  <2>5. Digest(LookupPath(q, shards)) = LookupPath(q, shards)
    BY <2>3, <2>4, DigestTag
  <2>6. LookupPath(q, shards) \in NodesAt(q, Digest(shards))
    BY <1>5, <2>1, <2>3, <2>5, NodesOfDigest
  <2>7. QED  BY <1>5, <2>6 DEF q
<1>9. PICK start \in Starts(table, s) : ranges = Leaf(RangeSet(Shard(table, s, start)))
  BY <1>5, <1>7, <1>8, RangesOfShard
<1>10. ranges[2].ranges = Shard(table, s, start)
  BY <1>9 DEF Leaf, RangeSet
<1>11. PICK r \in Shard(table, s, start) : r[1] <= eff /\ eff <= r[2]
  BY <1>3, <1>10
<1>12. r \in Canisters \X Canisters /\ \A c \in r[1] .. r[2] : table[c] = s
  BY <1>11 DEF Shard, Ranges
<1>13. eff \in r[1] .. r[2]
  BY <1>11, <1>12, CertificateAssumption
<1>14. QED  BY <1>12, <1>13

(* The other way round: what a shard in sight shows *)
LEMMA ShardShown ==
  ASSUME NEW table, NEW s, NEW nesting, NEW shards \in Tree,
         Digest(shards) = Shards(table, s, nesting), Digest(shards) \in FullTree,
         NEW start, Id(start) \in Labels,
         NEW u \in NodesAt(<<Id(start)>>, shards), Tag(u) = "leaf"
  PROVE  u = Leaf(RangeSet(Shard(table, s, start)))
<1> DEFINE q == <<Id(start)>>
<1>1. q \in Path
  BY PathOf1
<1> HIDE DEF q
<1>2. u \in NodesAt(q, shards)
  BY DEF q
<1>3. u \in Tree /\ ~ Opaque(u)
  BY <1>1, <1>2, NodesAreTrees
<1>4. Digest(u) = u
  BY <1>3, DigestTag
<1>5. u \in NodesAt(q, Digest(shards))
  BY <1>1, <1>2, <1>4, NodesOfDigest
<1>6. u \in NodesAt(<<Id(start)>>, Shards(table, s, nesting))
  BY <1>5 DEF q
<1>7. PICK other \in Starts(table, s) :
        Id(start) = Id(other) /\ u = Leaf(RangeSet(Shard(table, s, other)))
  BY <1>6, RangesOfShard
<1>8. QED  BY <1>7, IdsDiffer

(* A path listed under a subnet in canister_ranges is a shard's. *)
LEMMA ListedUnderSubnet ==
  ASSUME NEW table \in [Canisters -> Subnets], NEW nesting \in Nestings, NEW s \in Subnets,
         NEW p \in ListPaths(RootTree(table, nesting), << >>),
         p[1] = Name("canister_ranges"), p[2] = s
  PROVE  \E start \in Starts(table, s) :
           p = <<Name("canister_ranges"), s, Id(start)>> /\ Id(start) \in Labels
<1> DEFINE es == RootEntries(table, nesting)
           ranges == RangesOf(table, nesting)
           b == Append(<< >>, Name("canister_ranges"))
           c == Append(b, s)
<1>1. << >> \in Path /\ b \in Path /\ c \in Path
  BY NamesAreLabels, PathAppend DEF Path
<1>2. PICK i \in 1 .. 3 : p \in ListPaths(es[i][2], Append(<< >>, es[i][1]))
  <2>1. Len(es) = 3
    BY DEF RootEntries
  <2>2. Directory(es, nesting) \in FullTree /\ RootTree(table, nesting) = Directory(es, nesting)
    BY RootParts, RootIsDirectory
  <2> HIDE DEF es, b
  <2>3. p \in ListPaths(Directory(es, nesting), << >>)
    BY <2>2
  <2>4. Len(es) \in Nat /\ << >> \in Path
    BY <1>1, <2>1
  <2>5. \E k \in 1 .. Len(es) : p \in ListPaths(es[k][2], Append(<< >>, es[k][1]))
    BY <2>2, <2>3, <2>4, ListedOfDirectory
  <2>6. QED  BY <2>1, <2>5
<1>3. \A k \in 1 .. 3 : es[k][2] \in FullTree /\ es[k][1] \in Labels
  <2>1. Len(es) = 3
    BY DEF RootEntries
  <2>2. Directory(es, nesting) \in FullTree
    BY RootParts, RootIsDirectory
  <2> HIDE DEF es
  <2>3. QED  BY <2>1, <2>2, EntriesAreFull
<1>4. i = 1
  <2> DEFINE l == es[i][1]
  <2>1. l \in Labels /\ es[i][2] \in Tree
    BY <1>3, FullTreesAreTrees
  <2> HIDE DEF l
  <2>2. Append(<< >>, l) \in Path
    BY <1>1, <2>1, PathAppend
  <2>3. PICK r \in Path : p = Append(<< >>, l) \o r
    BY <1>2, <2>1, <2>2, ListedGoesOn DEF l
  <2>4. p[1] = l
    BY <2>1, <2>3 DEF Path
  <2>5. es[1][1] = Name("canister_ranges") /\ es[2][1] = Name("subnet") /\ es[3][1] = Name("time")
    BY DEF RootEntries
  <2>6. l = Name("canister_ranges")
    BY <2>4
  <2>7. \A x : Name(x).name = x
    BY DEF Name
  <2>8. l.name = "canister_ranges" /\ es[2][1].name = "subnet" /\ es[3][1].name = "time"
    BY <2>5, <2>6, <2>7
  <2>9. i # 2 /\ i # 3
    BY <2>8 DEF l
  <2>10. QED  BY <2>9
<1>5. /\ es[1][2] = Directory(ranges, nesting) /\ es[1][1] = Name("canister_ranges")
      /\ Directory(ranges, nesting) \in FullTree
  BY <1>3 DEF RootEntries
<1>6. p \in ListPaths(Directory(ranges, nesting), b)
  BY <1>2, <1>4, <1>5
<1>7. Len(ranges) \in Nat
  BY ListLengths
<1>8. \A k \in 1 .. Len(ranges) :
        ranges[k][1] = SetToSeq(Subnets)[k] /\ ranges[k][2] = Shards(table, SetToSeq(Subnets)[k], nesting)
  BY ListLengths DEF RangesOf
<1> HIDE DEF es, ranges, b
<1>9. PICK j \in 1 .. Len(ranges) : p \in ListPaths(ranges[j][2], Append(b, ranges[j][1]))
  BY <1>1, <1>5, <1>6, <1>7, ListedOfDirectory
<1>10. ranges[j][2] \in FullTree /\ ranges[j][1] \in Labels
  BY <1>5, <1>7, EntriesAreFull
<1>11. ranges[j][1] = s
  <2> DEFINE l == ranges[j][1]
  <2>1. Append(b, l) \in Path
    BY <1>1, <1>10, PathAppend
  <2>2. ranges[j][2] \in Tree
    BY <1>10, FullTreesAreTrees
  <2>3. PICK r \in Path : p = Append(b, l) \o r
    BY <1>9, <2>1, <2>2, ListedGoesOn
  <2> HIDE DEF l
  <2>4. Append(b, l) = <<Name("canister_ranges"), l>>
    BY Appends DEF b
  <2>5. <<Name("canister_ranges"), l>> \in Seq(Labels) /\ r \in Seq(Labels)
    BY <1>10, NamesAreLabels DEF Path, l
  <2>6. (<<Name("canister_ranges"), l>> \o r)[2] = l
    BY <2>5
  <2>7. p[2] = l
    BY <2>3, <2>4, <2>6
  <2>8. QED  BY <2>7 DEF l
<1>12. ranges[j][2] = Shards(table, s, nesting)
  BY <1>8, <1>11
<1> HIDE DEF c
<1>13. PICK start \in Starts(table, s) : p = Append(c, Id(start)) /\ Id(start) \in Labels
  <2>1. p \in ListPaths(Shards(table, s, nesting), c)
    BY <1>9, <1>11, <1>12 DEF c
  <2>2. Shards(table, s, nesting) \in FullTree
    BY <1>10, <1>12
  <2>3. QED  BY <1>1, <2>1, <2>2, ListedShards
<1>14. Append(c, Id(start)) = <<Name("canister_ranges"), s, Id(start)>>
  <2>1. c = <<Name("canister_ranges"), s>>
    BY Appends DEF b, c
  <2>2. QED  BY <2>1, Appends
<1>15. QED  BY <1>13, <1>14

(* Of the shards a canister's ranges are in, the last one in sight that      *)
(* starts no higher than the canister is the one with its range.            *)
LEMMA LastStart ==
  ASSUME NEW table \in [Canisters -> Subnets], NEW s, NEW eff \in Canisters,
         NEW start, NEW r \in Shard(table, s, start), r[1] <= eff, eff <= r[2],
         NEW labels \in SUBSET Starts(table, s), start \in labels
  PROVE  ShardsUpTo(labels, eff) # {} /\ Max(ShardsUpTo(labels, eff)) = start
<1> DEFINE upTo == ShardsUpTo(labels, eff)
           m == Max(upTo)
<1>0. Canisters \subseteq Int /\ \A c, d \in Canisters : c .. d \subseteq Canisters
  BY CertificateAssumption
<1>1. /\ r \in Ranges(table, s) /\ start <= r[1]
      /\ \A other \in Starts(table, s) : other <= r[1] => other <= start
  BY DEF Shard
<1>2. /\ r[1] \in Canisters /\ r[2] \in Canisters
      /\ \A c \in r[1] .. r[2] : table[c] = s
  BY <1>1 DEF Ranges
<1>3. \A l \in labels : l \in Starts(table, s) /\ l \in Canisters
  BY StartsAreIds
<1>4. start \in upTo
  <2>1. start \in Int /\ r[1] \in Int /\ eff \in Int
    BY <1>0, <1>2, <1>3
  <2>2. start <= eff
    BY <1>1, <2>1
  <2>3. QED  BY <2>2 DEF ShardsUpTo
<1>5. m \in upTo /\ start <= m
  <2>1. upTo \subseteq Canisters
    BY <1>3 DEF ShardsUpTo
  <2> HIDE DEF upTo
  <2>2. QED  BY <1>4, <2>1, GreatestId
<1>6. m \in labels /\ m <= eff
  BY <1>5 DEF ShardsUpTo
<1> HIDE DEF m
<1>7. m \in Starts(table, s) /\ m \in Int /\ start \in Int /\ eff \in Int /\ r[1] \in Int /\ r[2] \in Int
  BY <1>0, <1>2, <1>3, <1>6
<1>8. CASE m <= r[1]
  <2>1. m <= start
    BY <1>1, <1>7, <1>8
  <2>2. QED  BY <1>4, <1>5, <1>7, <2>1 DEF m
<1>9. CASE ~ (m <= r[1])
  <2>1. PICK q \in Ranges(table, s) : m = q[1]
    BY <1>7 DEF Starts
  <2>2. q[1] - 1 \in Canisters => table[q[1] - 1] # s
    BY <2>1 DEF Ranges
  <2>3. m - 1 \in r[1] .. r[2]
    BY <1>6, <1>7, <1>9
  <2>4. m - 1 \in Canisters
    BY <1>0, <1>2, <2>3
  <2>5. QED  BY <1>2, <2>1, <2>2, <2>3, <2>4
<1>10. QED  BY <1>8, <1>9

(* With a shard of the subnet in sight that has the canister in a range, the *)
(* canister is found in the subnet's ranges.                                *)
LEMMA HostedInRanges ==
  ASSUME NEW tree \in Tree, NEW table \in [Canisters -> Subnets], NEW nesting \in Nestings,
         Digest(tree) = RootTree(table, nesting),
         NEW s \in Subnets, NEW eff \in Canisters,
         NEW p \in ListPaths(Digest(tree), << >>), p[1] = Name("canister_ranges"), p[2] = s,
         NEW r \in LookupPath(p, Digest(tree))[2].ranges, r[1] <= eff, eff <= r[2],
         LookupPath(p, tree) # NotFound
  PROVE  InCanisterRanges(tree, s, eff)
<1> DEFINE w == <<Name("canister_ranges"), s>>
           root == RootTree(table, nesting)
<1>1. PICK start \in Starts(table, s) :
        p = <<Name("canister_ranges"), s, Id(start)>> /\ Id(start) \in Labels
  BY ListedUnderSubnet
<1> DEFINE q == <<Id(start)>>
<1>2. p \in Path /\ w \in Path /\ q \in Path /\ p = w \o q
  <2>1. Name("canister_ranges") \in Labels /\ s \in Labels
    BY NamesAreLabels
  <2>2. p \in Path /\ w \o q = <<Name("canister_ranges"), s, Id(start)>>
    <3> DEFINE a == Name("canister_ranges")
               c == Id(start)
    <3>1. a \in Labels /\ s \in Labels /\ c \in Labels
      BY <1>1, <2>1
    <3> HIDE DEF a, c
    <3>2. <<a, s, c>> \in Path
      BY <3>1, PathOf3
    <3>3. <<a, s>> \o <<c>> = <<a, s, c>>
      BY <3>1, PathOf3
    <3>4. QED  BY <1>1, <3>2, <3>3 DEF a, c
  <2>3. w \in Path
    BY <2>1, PathOf2
  <2>4. q \in Path
    BY <1>1, PathOf1
  <2>5. p = w \o q
    BY <1>1, <2>2
  <2>6. QED  BY <2>2, <2>3, <2>4, <2>5
<1> HIDE DEF w, q
<1>3. root \in FullTree /\ root \in Tree /\ Clear(root)
  BY RootParts, RootIsClear, FullTreesAreTrees
<1> HIDE DEF root
<1>4. /\ LookupPath(p, tree) \in NodesAt(p, tree) /\ Tag(LookupPath(p, tree)) = "leaf"
      /\ LookupPath(p, tree) \in NodesAt(p, root)
  BY <1>2, ShownInRoot DEF root
<1>5. PICK shards \in NodesAt(w, tree) : LookupPath(p, tree) \in NodesAt(q, shards)
  BY <1>2, <1>4, NodesByWayOf
<1>6. /\ shards \in Tree
      /\ Digest(shards) = Shards(table, s, nesting) /\ Digest(shards) \in FullTree
      /\ LabelsOf(shards) \subseteq Starts(table, s)
  BY <1>5, ShardsShown DEF w
<1>7. LookupTree(w, tree) = shards /\ LookupTree(w, tree) # NotFound
  <2>1. LookupTree(w, tree) # NotFound /\ LookupTree(w, tree) \in NodesAt(w, tree)
    BY <1>2, <1>5, LookupTreeFinds
  <2>2. Digest(tree) \in FullTree /\ Clear(Digest(tree))
    BY <1>3 DEF root
  <2>3. QED  BY <1>2, <1>5, <2>1, <2>2, OneNodeAtAPath
(* What is in the shard *)
<1>8. \A u \in NodesAt(q, shards) : Tag(u) = "leaf" => u = Leaf(RangeSet(Shard(table, s, start)))
  BY <1>1, <1>6, ShardShown DEF q
<1>9. LookupPath(p, tree) = Leaf(RangeSet(Shard(table, s, start)))
  BY <1>4, <1>5, <1>8
<1>10. LookupPath(p, root) = LookupPath(p, tree)
  <2>1. LookupPath(p, root) # NotFound
    BY <1>2, <1>3, <1>4, LookupPathFinds
  <2>2. LookupPath(p, root) \in NodesAt(p, root)
    BY <1>2, <1>3, <2>1, LookupPathFinds
  <2>3. Digest(root) \in FullTree /\ Clear(Digest(root))
    BY <1>3, DigestOfFull
  <2>4. QED  BY <1>2, <1>3, <1>4, <2>2, <2>3, OneNodeAtAPath
<1>11. r \in Shard(table, s, start)
  <2>1. LookupPath(p, root)[2].ranges = Shard(table, s, start)
    BY <1>9, <1>10 DEF Leaf, RangeSet
  <2>2. QED  BY <2>1 DEF root
(* The shard is the one that is read. *)
<1>12. start \in LabelsOf(shards)
  <2>1. ShowsLeaf(q, shards)
    BY <1>4, <1>5 DEF ShowsLeaf
  <2>2. << >> \in Path /\ << >> \o q = q
    BY <1>2 DEF Path
  <2>3. q \in ListPaths(shards, << >>)
    BY <1>2, <1>6, <2>1, <2>2, LeavesAreListed
  <2>4. Len(q) = 1 /\ q[1] = Id(start) /\ q # << >>
    BY DEF q
  <2>5. q[Len(q)].id = start
    BY <2>4 DEF Id
  <2>6. QED  BY <2>3, <2>4, <2>5 DEF LabelsOf
<1> DEFINE upTo == ShardsUpTo(LabelsOf(shards), eff)
<1>13. upTo # {} /\ Max(upTo) = start
  BY <1>6, <1>11, <1>12, LastStart
<1> HIDE DEF upTo
<1>14. /\ LookupPath(q, shards) # NotFound
       /\ LookupPath(q, shards) = Leaf(RangeSet(Shard(table, s, start)))
  BY <1>2, <1>4, <1>5, <1>6, <1>8, LookupPathFinds
<1>15. r \in LookupPath(<<Id(Max(upTo))>>, shards)[2].ranges
  BY <1>11, <1>13, <1>14 DEF q, Leaf, RangeSet
<1>16. LookupPath(<<Id(Max(upTo))>>, shards) # NotFound
  BY <1>13, <1>14 DEF q
<1>17. QED  BY <1>7, <1>13, <1>15, <1>16 DEF InCanisterRanges, LabelsOf, upTo, w

-----------------------------------------------------------------------------
(* What a subnet signs                                                      *)

(* A directory of two entries is clear if they are. *)
LEMMA PairIsClear ==
  ASSUME NEW a, NEW b, NEW t, NEW u, NEW nesting, a # b,
         Directory(<< <<a, t>>, <<b, u>> >>, nesting) \in FullTree
  PROVE  /\ t \in FullTree /\ u \in FullTree
         /\ Clear(t) /\ Clear(u) => Clear(Directory(<< <<a, t>>, <<b, u>> >>, nesting))
<1> DEFINE es == << <<a, t>>, <<b, u>> >>
<1>1. Len(es) = 2 /\ es[1][1] = a /\ es[1][2] = t /\ es[2][1] = b /\ es[2][2] = u
  OBVIOUS
<1>2. Directory(es, nesting) \in FullTree
  OBVIOUS
<1> HIDE DEF es
<1>3. Len(es) \in Nat /\ \A i \in 1 .. Len(es) : i = 1 \/ i = 2
  BY <1>1
<1>4. t \in FullTree
  <2>1. 1 \in 1 .. Len(es)
    BY <1>1
  <2>2. es[1][2] \in FullTree
    BY <1>2, <1>3, <2>1, EntriesAreFull
  <2>3. QED  BY <1>1, <2>2
<1>5. u \in FullTree
  <2>1. 2 \in 1 .. Len(es)
    BY <1>1
  <2>2. es[2][2] \in FullTree
    BY <1>2, <1>3, <2>1, EntriesAreFull
  <2>3. QED  BY <1>1, <2>2
<1>6. ASSUME Clear(t), Clear(u) PROVE Clear(Directory(es, nesting))
  <2>1. \A i, j \in 1 .. Len(es) : es[i][1] = es[j][1] => i = j
    BY <1>1, <1>3
  <2>2. \A i \in 1 .. Len(es) : Clear(es[i][2])
    BY <1>1, <1>3, <1>6
  <2>3. QED  BY <1>2, <1>3, <2>1, <2>2, ClearDirectory
<1>7. QED  BY <1>4, <1>5, <1>6 DEF es

(* Leaves are clear, with and without a label. *)
LEMMA LeavesAreClear ==
  ASSUME NEW x, NEW l
  PROVE  Clear(Leaf(x)) /\ Clear(Labeled(l, Leaf(x)))
<1>1. Tag(Leaf(x)) = "leaf"
  BY DEF Leaf, Tag
<1>2. Clear(Leaf(x))
  BY <1>1, ClearIfParts
<1>3. Tag(Labeled(l, Leaf(x))) = "labeled" /\ Labeled(l, Leaf(x))[3] = Leaf(x)
  BY DEF Labeled, Tag
<1>4. QED  BY <1>2, <1>3, ClearIfParts

(* A path leads to one place of a state tree. *)
LEMMA StateIsClear ==
  ASSUME NEW nesting, StateTree(nesting) \in FullTree
  PROVE  Clear(StateTree(nesting))
<1> DEFINE one  == Directory(<< <<Name("reply"), Leaf(Text("yes"))>>,
                                <<Name("status"), Leaf(Text("replied"))>> >>, nesting)
           two  == Labeled(Name("status"), Leaf(Text("received")))
           both == Directory(<< <<Name("one"), one>>, <<Name("two"), two>> >>, nesting)
           now  == Leaf(Text("now"))
<1>1. StateTree(nesting) = Directory(<< <<Name("request_status"), both>>, <<Name("time"), now>> >>, nesting)
  BY DEF StateTree
<1>2. /\ Name("reply") # Name("status") /\ Name("one") # Name("two")
      /\ Name("request_status") # Name("time")
  <2>1. \A x : Name(x).name = x
    BY DEF Name
  <2>2. /\ Name("reply").name # Name("status").name /\ Name("one").name # Name("two").name
        /\ Name("request_status").name # Name("time").name
    BY <2>1
  <2>3. QED  BY <2>2
<1>3. Clear(now) /\ Clear(two) /\ Clear(Leaf(Text("yes"))) /\ Clear(Leaf(Text("replied")))
  BY LeavesAreClear
<1> HIDE DEF both, now
<1>4. both \in FullTree
  BY <1>1, <1>2, PairIsClear
<1> HIDE DEF one, two
<1>5. one \in FullTree
  BY <1>2, <1>4, PairIsClear DEF both
<1>6. Clear(one)
  BY <1>2, <1>3, <1>5, PairIsClear DEF one
<1>7. Clear(both)
  BY <1>2, <1>3, <1>4, <1>6, PairIsClear DEF both
<1>8. QED  BY <1>1, <1>2, <1>3, <1>7, PairIsClear

(* What a cut-back tree shows at a path is what the whole one shows there. *)
LEMMA CutsOnlyHide ==
  ASSUME NEW tree \in Tree, Digest(tree) \in FullTree, Clear(Digest(tree)), NEW p \in Path
  PROVE  LookupPath(p, tree) \in {NotFound, LookupPath(p, Digest(tree))}
<1> DEFINE full == Digest(tree)
           leaf == LookupPath(p, tree)
<1>1. SUFFICES ASSUME leaf # NotFound PROVE leaf = LookupPath(p, full)
  OBVIOUS
<1>2. full \in Tree /\ Digest(full) = full
  BY FullTreesAreTrees, DigestOfFull
<1>3. leaf \in NodesAt(p, tree) /\ Tag(leaf) = "leaf"
  BY <1>1, LookupPathFinds
<1>4. leaf \in NodesAt(p, full)
  <2>1. leaf \in Tree /\ ~ Opaque(leaf)
    BY <1>3, NodesAreTrees
  <2>2. Digest(leaf) = leaf
    BY <1>3, <2>1, DigestTag
  <2>3. QED  BY <1>3, <2>2, NodesOfDigest
<1> HIDE DEF leaf, full
<1>5. LookupPath(p, full) # NotFound /\ LookupPath(p, full) \in NodesAt(p, full)
  BY <1>2, <1>3, <1>4, LookupPathFinds
<1>6. QED  BY <1>2, <1>4, <1>5, OneNodeAtAPath DEF full

-----------------------------------------------------------------------------
(* The invariant                                                            *)

IsSigned(c) == c = Signed(c.tree, c.sig.key, c.delegation)

IsParent(ts, parent) ==
  IsSigned(parent) /\ \E i \in DOMAIN ts : IsRootTree(parent.tree, ts[i])

IsState(tree) == tree \in Tree /\ \E nesting \in Nestings : Digest(tree) = StateTree(nesting)

IsDelegation(ts, d) ==
  d = << >> \/ \E s \in Subnets : \E parent : d = Delegated(s, parent) /\ IsParent(ts, parent)

IsCertificate(ts, c) ==
  IsSigned(c) /\ IsState(c.tree) /\ IsDelegation(ts, c.delegation)

TablesOK == tables \in Seq([Canisters -> Subnets]) /\ Len(tables) \in Nat \ {0}

CertOK == cert = << >> \/ \E c : cert = <<c>> /\ IsCertificate(tables, c)

VerdictOK ==
  verdict = NoVerdict
  \/ /\ cert # << >>
     /\ verdict.kind \in {"valid", "refused"}
     /\ verdict.eff \in Canisters
     /\ verdict.skip \in BOOLEAN
     /\ verdict.kind = "valid" <=> Valid(cert[1], verdict.eff, verdict.skip)

Inv == TablesOK /\ CertOK /\ VerdictOK

(* What is in a signed certificate *)
LEMMA FieldsOfSigned ==
  ASSUME NEW t, NEW k, NEW d
  PROVE  /\ Signed(t, k, d).tree = t /\ Signed(t, k, d).sig.key = k
         /\ Signed(t, k, d).delegation = d
         /\ Signed(t, k, d).sig = [key |-> k, message |-> Digest(t)]
         /\ IsSigned(Signed(t, k, d))
<1>1. /\ Signed(t, k, d).tree = t /\ Signed(t, k, d).sig.key = k
      /\ Signed(t, k, d).delegation = d
      /\ Signed(t, k, d).sig = [key |-> k, message |-> Digest(t)]
  BY DEF Signed
<1>2. QED  BY <1>1 DEF IsSigned

(* What Signed makes is signed. *)
LEMMA SignedIsSigned ==
  ASSUME NEW t, NEW k, NEW d
  PROVE  IsSigned(Signed(t, k, d))
BY FieldsOfSigned

(* What is in a delegation *)
LEMMA FieldsOfDelegated ==
  ASSUME NEW s, NEW parent
  PROVE  /\ Delegated(s, parent) # << >>
         /\ Delegated(s, parent)[1].subnet = s /\ Delegated(s, parent)[1].cert = parent
BY DEF Delegated

(* A state tree is a whole tree no higher than MaxHeight. *)
LEMMA StatesAreFull ==
  ASSUME TablesOK, NEW nesting \in Nestings
  PROVE  StateTree(nesting) \in FullTree
<1>1. tables[1] \in [Canisters -> Subnets]
  BY DEF TablesOK
<1>2. QED  BY <1>1, LayoutAssumption DEF FullTree

(* Pruning a signed tree *)
LEMMA PrunedIsSigned ==
  ASSUME NEW c, IsSigned(c), NEW u, Digest(u) = Digest(c.tree)
  PROVE  [c EXCEPT !.tree = u] = Signed(u, c.sig.key, c.delegation)
<1> DEFINE k == c.sig.key
           d == c.delegation
           t == c.tree
<1>1. c = Signed(t, k, d) /\ Digest(u) = Digest(t)
  BY DEF IsSigned
<1> HIDE DEF k, d, t
<1>2. [Signed(t, k, d) EXCEPT !.tree = u] = Signed(u, k, d)
  BY <1>1 DEF Signed
<1>3. QED  BY <1>1, <1>2 DEF k, d

(* A certificate stays one when its own tree is cut back. *)
LEMMA PrunedState ==
  ASSUME TablesOK, NEW c, IsCertificate(tables, c), NEW u \in Cutbacks(c.tree)
  PROVE  IsCertificate(tables, [c EXCEPT !.tree = u])
<1>1. PICK nesting \in Nestings : c.tree \in Tree /\ Digest(c.tree) = StateTree(nesting)
  BY DEF IsCertificate, IsState
<1>2. u \in Tree /\ Digest(u) = Digest(c.tree)
  BY <1>1, StatesAreFull, CutbacksKeep
<1>3. [c EXCEPT !.tree = u] = Signed(u, c.sig.key, c.delegation)
  BY <1>2, PrunedIsSigned DEF IsCertificate
<1>4. IsState(u)
  BY <1>1, <1>2 DEF IsState
<1>5. IsDelegation(tables, c.delegation)
  BY DEF IsCertificate
<1> DEFINE e == Signed(u, c.sig.key, c.delegation)
<1>6. e.tree = u /\ e.delegation = c.delegation /\ IsSigned(e)
  BY SignedIsSigned DEF Signed
<1> HIDE DEF e
<1>7. IsCertificate(tables, e)
  BY <1>4, <1>5, <1>6 DEF IsCertificate
<1>8. QED  BY <1>3, <1>7 DEF e

(* A parent certificate stays one when its tree is cut back. *)
LEMMA PrunedParent ==
  ASSUME TablesOK, NEW parent, IsParent(tables, parent), NEW u \in Cutbacks(parent.tree)
  PROVE  IsParent(tables, [parent EXCEPT !.tree = u])
<1>1. PICK i \in DOMAIN tables : IsRootTree(parent.tree, tables[i])
  BY DEF IsParent
<1>2. u \in Tree /\ Digest(u) = Digest(parent.tree)
  BY <1>1, RootParts, CutbacksKeep DEF IsRootTree
<1>3. [parent EXCEPT !.tree = u] = Signed(u, parent.sig.key, parent.delegation)
  BY <1>2, PrunedIsSigned DEF IsParent
<1>4. IsRootTree(u, tables[i])
  BY <1>1, <1>2 DEF IsRootTree
<1> DEFINE e == Signed(u, parent.sig.key, parent.delegation)
<1>5. e.tree = u /\ IsSigned(e)
  BY SignedIsSigned DEF Signed
<1> HIDE DEF e
<1>6. IsParent(tables, e)
  BY <1>4, <1>5 DEF IsParent
<1>7. QED  BY <1>3, <1>6 DEF e

(* What a boundary node delegates with shows a tree of the root subnet's,   *)
(* whoever signed it.                                                       *)
LEMMA ServedIsDelegation ==
  ASSUME TablesOK, NEW i \in DOMAIN tables, NEW s \in Subnets, NEW nesting \in Nestings
  PROVE  /\ IsDelegation(tables, Delegation(tables[i], s, nesting))
         /\ IsDelegation(tables, Chained(tables[i], s, nesting))
<1> DEFINE tree == RootTree(tables[i], nesting)
<1>1. tables[i] \in [Canisters -> Subnets]
  BY DEF TablesOK
<1>2. tree \in Tree /\ Digest(tree) = tree
  <2>1. tree \in FullTree
    BY <1>1, RootParts
  <2> HIDE DEF tree
  <2>2. QED  BY <2>1, FullTreesAreTrees, DigestOfFull
<1>3. IsRootTree(tree, tables[i])
  BY <1>1, <1>2 DEF IsRootTree
<1> HIDE DEF tree
<1>4. ASSUME NEW k, NEW d PROVE IsDelegation(tables, Delegated(s, Signed(tree, k, d)))
  <2> DEFINE parent == Signed(tree, k, d)
  <2>1. parent.tree = tree /\ IsSigned(parent)
    BY SignedIsSigned DEF Signed
  <2> HIDE DEF parent
  <2>2. IsParent(tables, parent)
    BY <1>3, <2>1 DEF IsParent
  <2>3. IsDelegation(tables, Delegated(s, parent))
    BY <2>2 DEF IsDelegation
  <2>4. QED  BY <2>3 DEF parent
<1>5. QED  BY <1>4 DEF Delegation, Chained, tree

(* The first state has it. *)
LEMMA InvInit == Init => Inv
<1> SUFFICES ASSUME Init PROVE Inv
  OBVIOUS
<1>1. PICK t \in Tables : tables = <<t>>
  BY DEF Init
<1>2. t \in [Canisters -> Subnets]
  BY CertificateAssumption
<1>3. TablesOK
  BY <1>1, <1>2 DEF TablesOK
<1>4. CertOK /\ VerdictOK
  BY DEF Init, CertOK, VerdictOK
<1>5. QED  BY <1>3, <1>4 DEF Inv

(* Moves, answers, cuts and checks keep it. *)
LEMMA InvNext == Inv /\ [Next]_vars => Inv'
<1> SUFFICES ASSUME Inv, [Next]_vars PROVE Inv'
  OBVIOUS
<1> USE DEF Inv
<1>0. NoVerdict.kind = "none"
  BY DEF NoVerdict
<1>1. ASSUME NEW c \in Canisters, NEW s \in Subnets, Move(c, s) PROVE Inv'
  <2>1. cert = << >> /\ cert' = cert /\ verdict' = verdict
    BY <1>1 DEF Move
  <2>2. TablesOK'
    <3> DEFINE last == tables[Len(tables)]
               new  == [last EXCEPT ![c] = s]
    <3>1. last \in [Canisters -> Subnets]
      BY DEF TablesOK
    <3>2. new \in [Canisters -> Subnets] /\ tables' = Append(tables, new)
      BY <1>1, <3>1 DEF Move
    <3> HIDE DEF new
    <3>3. QED  BY <3>2 DEF TablesOK
  <2>3. CertOK' /\ VerdictOK'
    BY <2>1 DEF CertOK, VerdictOK
  <2>4. QED  BY <2>2, <2>3
<1>2. ASSUME NEW signer \in Subnets \cup {Root}, NEW nesting \in Nestings, Serve(signer, nesting)
      PROVE  Inv'
  <2>1. cert = << >> /\ tables' = tables /\ verdict' = verdict
    BY <1>2 DEF Serve
  <2>2. PICK d : cert' = <<Signed(StateTree(nesting), signer, d)>> /\ IsDelegation(tables, d)
    <3>1. IsDelegation(tables, << >>)
      BY DEF IsDelegation
    <3>2. QED  BY <1>2, <3>1, ServedIsDelegation DEF Serve
  <2> DEFINE c == Signed(StateTree(nesting), signer, d)
  <2>3. c.tree = StateTree(nesting) /\ c.delegation = d /\ IsSigned(c)
    BY SignedIsSigned DEF Signed
  <2>4. cert' = <<c>>
    BY <2>2
  <2> HIDE DEF c
  <2>5. IsState(StateTree(nesting))
    BY StatesAreFull, FullTreesAreTrees, DigestOfFull DEF IsState
  <2>6. IsCertificate(tables, c)
    BY <2>2, <2>3, <2>5 DEF IsCertificate
  <2>7. CertOK'
    BY <2>1, <2>4, <2>6 DEF CertOK
  <2>8. TablesOK' /\ VerdictOK'
    BY <2>1 DEF TablesOK, VerdictOK
  <2>9. QED  BY <2>7, <2>8
<1>3. ASSUME Prune PROVE Inv'
  <2>1. cert # << >> /\ verdict = NoVerdict /\ tables' = tables /\ verdict' = verdict
    BY <1>3 DEF Prune
  <2>2. PICK c : cert = <<c>> /\ IsCertificate(tables, c)
    BY <2>1 DEF CertOK
  <2>3. cert[1] = c
    BY <2>2
  <2>4. \E e : cert' = <<e>> /\ IsCertificate(tables, e)
    <3>1. ASSUME NEW u \in Cutbacks(c.tree), cert' = [cert EXCEPT ![1].tree = u]
          PROVE  \E e : cert' = <<e>> /\ IsCertificate(tables, e)
      <4>1. cert' = <<[c EXCEPT !.tree = u]>>
        BY <2>2, <3>1
      <4>2. QED  BY <2>2, <4>1, PrunedState
    <3>2. ASSUME c.delegation # << >>, NEW u \in Cutbacks(c.delegation[1].cert.tree),
                 cert' = [cert EXCEPT ![1].delegation[1].cert.tree = u]
          PROVE  \E e : cert' = <<e>> /\ IsCertificate(tables, e)
      <4>1. PICK s \in Subnets : \E parent :
              c.delegation = Delegated(s, parent) /\ IsParent(tables, parent)
        BY <2>2, <3>2 DEF IsCertificate, IsDelegation
      <4>2. PICK parent : c.delegation = Delegated(s, parent) /\ IsParent(tables, parent)
        BY <4>1
      <4>3. c.delegation[1].cert = parent
        BY <4>2 DEF Delegated
      <4> DEFINE cut == [parent EXCEPT !.tree = u]
      <4>4. IsParent(tables, cut)
        BY <3>2, <4>2, <4>3, PrunedParent
      <4>5. cert' = <<Signed(c.tree, c.sig.key, Delegated(s, cut))>>
        <5> DEFINE k == c.sig.key
                   t == c.tree
        <5>1. c = Signed(t, k, Delegated(s, parent))
          BY <2>2, <4>2 DEF IsCertificate, IsSigned
        <5> HIDE DEF k, t
        <5>2. cert = <<Signed(t, k, Delegated(s, parent))>>
          BY <2>2, <5>1
        <5>3. cert' = <<Signed(t, k, Delegated(s, cut))>>
          BY <3>2, <5>2 DEF Signed, Delegated
        <5>4. QED  BY <5>3 DEF k, t
      <4> HIDE DEF cut
      <4> DEFINE e == Signed(c.tree, c.sig.key, Delegated(s, cut))
      <4>6. e.tree = c.tree /\ e.delegation = Delegated(s, cut) /\ IsSigned(e)
        BY SignedIsSigned DEF Signed
      <4>7. cert' = <<e>>
        BY <4>5
      <4> HIDE DEF e
      <4>8. IsDelegation(tables, Delegated(s, cut))
        BY <4>4 DEF IsDelegation
      <4>9. IsCertificate(tables, e)
        BY <2>2, <4>6, <4>8 DEF IsCertificate
      <4>10. QED  BY <4>7, <4>9
    <3>3. QED  BY <1>3, <2>3, <3>1, <3>2 DEF Prune
  <2>5. CertOK'
    BY <2>1, <2>4 DEF CertOK
  <2>6. TablesOK' /\ VerdictOK'
    BY <2>1 DEF TablesOK, VerdictOK
  <2>7. QED  BY <2>5, <2>6
<1>4. ASSUME NEW eff \in Canisters, NEW skip \in BOOLEAN, Check(eff, skip) PROVE Inv'
  <2>1. cert # << >> /\ cert' = cert /\ tables' = tables
    BY <1>4 DEF Check
  <2> DEFINE kind == IF Valid(cert[1], eff, skip) THEN "valid" ELSE "refused"
  <2>2. verdict' = [kind |-> kind, eff |-> eff, skip |-> skip]
    BY <1>4 DEF Check
  <2>3. kind \in {"valid", "refused"} /\ (kind = "valid" <=> Valid(cert[1], eff, skip))
    OBVIOUS
  <2> HIDE DEF kind
  <2>4. verdict'.kind = kind /\ verdict'.eff = eff
    BY <2>2
  <2>5. verdict'.skip = skip
    BY <2>2, Zenon
  <2>6. verdict'.kind = "valid" <=> Valid(cert'[1], verdict'.eff, verdict'.skip)
    BY <2>1, <2>3, <2>4, <2>5, Zenon
  <2>7. VerdictOK'
    BY <2>1, <2>3, <2>4, <2>5, <2>6, Zenon DEF VerdictOK
  <2>8. TablesOK' /\ CertOK'
    BY <2>1 DEF TablesOK, CertOK
  <2>9. QED  BY <2>7, <2>8
<1>5. ASSUME UNCHANGED vars PROVE Inv'
  BY <1>5 DEF vars, TablesOK, CertOK, VerdictOK
<1>6. QED
  BY <1>1, <1>2, <1>3, <1>4, <1>5 DEF Next, Checked

(* So it always holds. *)
LEMMA Invariance == Spec => []Inv
BY InvInit, InvNext, PTL DEF Spec

-----------------------------------------------------------------------------
(* The theorems                                                             *)

(* A certificate that was signed as a whole shows, however it is pruned,    *)
(* either nothing or what was signed at a path (_lookup_path), and its root *)
(* hash stays the signed one (tree_digest).                                 *)
THEOREM PruningHides == Spec => []PruningOnlyHides
<1>1. ASSUME Inv PROVE PruningOnlyHides
  <2> SUFFICES ASSUME cert # << >>
               PROVE  /\ Digest(cert[1].tree) = cert[1].sig.message
                      /\ \A p \in StatePaths : LookupPath(p, cert[1].tree)
                           \in {NotFound, LookupPath(p, Digest(cert[1].tree))}
    BY DEF PruningOnlyHides
  <2>1. PICK c : cert[1] = c /\ IsCertificate(tables, c)
    BY <1>1 DEF Inv, CertOK
  <2>2. PICK nesting \in Nestings : c.tree \in Tree /\ Digest(c.tree) = StateTree(nesting)
    BY <2>1 DEF IsCertificate, IsState
  <2>3. Digest(c.tree) \in FullTree
    BY <1>1, <2>2, StatesAreFull DEF Inv
  <2>4. Clear(Digest(c.tree))
    BY <2>2, <2>3, StateIsClear
  <2>5. Digest(c.tree) = c.sig.message
    <3> DEFINE t == c.tree
               k == c.sig.key
               d == c.delegation
    <3>1. c = Signed(t, k, d)
      BY <2>1 DEF IsCertificate, IsSigned
    <3>2. c.sig.message = Digest(t)
      <4> HIDE DEF t, k, d
      <4>1. QED  BY <3>1 DEF Signed
    <3>3. QED  BY <3>2
  <2>6. StatePaths \subseteq Path
    BY LayoutAssumption
  <2>7. QED  BY <2>1, <2>2, <2>3, <2>4, <2>5, <2>6, CutsOnlyHide
<1>2. QED  BY <1>1, Invariance, PTL

(* A signed certificate's signature holds for the key it was signed with,   *)
(* and for no other.                                                        *)
LEMMA HoldsForSigner ==
  ASSUME NEW c, IsSigned(c), NEW key
  PROVE  SignatureHolds(c, key) <=> c.sig.key = key
<1> DEFINE t == c.tree
           k == c.sig.key
           d == c.delegation
<1>1. c = Signed(t, k, d)
  BY DEF IsSigned
<1>2. c.sig = [key |-> k, message |-> Digest(t)]
  <2> HIDE DEF t, k, d
  <2>1. QED  BY <1>1 DEF Signed
<1> DEFINE want == [key |-> key, message |-> Digest(t)]
<1>3. SignatureHolds(c, key) <=> c.sig = want
  BY DEF SignatureHolds
<1>4. c.sig.key = k /\ want.key = key
  OBVIOUS
<1>5. c.sig = want => k = key
  BY <1>4
<1>6. k = key => c.sig = want
  BY <1>2
<1>7. QED  BY <1>3, <1>5, <1>6

(* What check_delegation accepts and returns, for a delegation *)
LEMMA DelegationRead ==
  ASSUME NEW c, NEW s, NEW parent, c.delegation = Delegated(s, parent), NEW eff, NEW skip \in BOOLEAN
  PROVE  CheckDelegation(c, eff, skip) =
           IF /\ parent.delegation = << >>
              /\ SignatureHolds(parent, Root)
              /\ skip \/ InCanisterRanges(parent.tree, s, eff)
           THEN LookupPath(<<Name("subnet"), s, Name("public_key")>>, parent.tree)
           ELSE NotFound
<1>1. c.delegation # << >> /\ c.delegation[1].subnet = s /\ c.delegation[1].cert = parent
  BY FieldsOfDelegated
<1>2. QED  BY <1>1, Zenon DEF CheckDelegation

(* Without delegation the key is the root key. *)
LEMMA RootKeyRead ==
  ASSUME NEW c, c.delegation = << >>, NEW eff, NEW skip \in BOOLEAN
  PROVE  CheckDelegation(c, eff, skip) = Leaf(KeyOf(Root))
BY DEF CheckDelegation

(* A key is read from its leaf. *)
LEMMA KeyInLeaf ==
  ASSUME NEW s
  PROVE  Leaf(KeyOf(s)) # NotFound /\ Leaf(KeyOf(s))[2].key = s
<1>1. Leaf(KeyOf(s))[2].key = s
  BY DEF Leaf, KeyOf
<1>2. Leaf(KeyOf(s))[1] = "leaf" /\ NotFound[1] = "not found"
  BY DEF Leaf, NotFound
<1>3. QED  BY <1>1, <1>2

(* verify_cert accepts a certificate with a delegation only from the subnet *)
(* the root subnet's certificate names, and only with one that shows the    *)
(* canister among its ranges (check_delegation): so a canister is answered  *)
(* for by a subnet that hosted it according to some signed table.           *)
THEOREM ValidHosted == Spec => []ValidIsHosted
<1>1. ASSUME Inv PROVE ValidIsHosted
  <2> SUFFICES ASSUME verdict.kind = "valid"
               PROVE  IF cert[1].delegation = << >> THEN cert[1].sig.key = Root
                      ELSE /\ cert[1].sig.key \in Subnets
                           /\ verdict.skip \/ \E i \in DOMAIN tables :
                                tables[i][verdict.eff] = cert[1].sig.key
    BY DEF ValidIsHosted, Signer
  <2>1. verdict # NoVerdict
    BY DEF NoVerdict
  <2>2. PICK c : cert[1] = c /\ IsCertificate(tables, c)
    BY <1>1, <2>1 DEF Inv, VerdictOK, CertOK
  <2>3. IsSigned(c) /\ IsDelegation(tables, c.delegation)
    BY <2>2 DEF IsCertificate
  <2>4. PICK eff \in Canisters : verdict.eff = eff
    BY <1>1, <2>1 DEF Inv, VerdictOK
  <2>5. PICK skip \in BOOLEAN : skip = verdict.skip
    BY <1>1, <2>1, Zenon DEF Inv, VerdictOK
  <2>6. Valid(c, eff, skip)
    BY <1>1, <2>1, <2>2, <2>4, <2>5, Zenon DEF Inv, VerdictOK
  <2> DEFINE key == CheckDelegation(c, eff, skip)
  <2>7. key # NotFound /\ SignatureHolds(c, key[2].key)
    BY <2>6 DEF Valid
  <2>8. c.sig.key = key[2].key
    BY <2>3, <2>7, HoldsForSigner
  <2>9. CASE c.delegation = << >>
    <3>1. key = Leaf(KeyOf(Root))
      BY <2>9, RootKeyRead
    <3>2. c.sig.key = Root
      BY <2>8, <3>1, KeyInLeaf
    <3>3. QED  BY <2>2, <2>9, <3>2
  <2>10. CASE c.delegation # << >>
    <3>1. PICK s \in Subnets : \E parent :
            c.delegation = Delegated(s, parent) /\ IsParent(tables, parent)
      BY <2>3, <2>10 DEF IsDelegation
    <3>2. PICK parent : c.delegation = Delegated(s, parent) /\ IsParent(tables, parent)
      BY <3>1
    <3>3. PICK i \in DOMAIN tables : IsRootTree(parent.tree, tables[i])
      BY <3>2 DEF IsParent
    <3>4. /\ skip \/ InCanisterRanges(parent.tree, s, eff)
          /\ key = LookupPath(<<Name("subnet"), s, Name("public_key")>>, parent.tree)
      <4>1. key = IF /\ parent.delegation = << >>
                     /\ SignatureHolds(parent, Root)
                     /\ skip \/ InCanisterRanges(parent.tree, s, eff)
                  THEN LookupPath(<<Name("subnet"), s, Name("public_key")>>, parent.tree)
                  ELSE NotFound
        BY <3>2, DelegationRead
      <4> HIDE DEF key
      <4>2. QED  BY <2>7, <4>1, Zenon
    <3>5. key = Leaf(KeyOf(s))
      BY <2>7, <3>3, <3>4, KeyShown
    <3>6. c.sig.key = s
      BY <2>8, <3>5, KeyInLeaf
    <3>7. skip \/ tables[i][eff] = s
      BY <3>3, <3>4, RangesAreHosted
    <3>8. verdict.skip \/ \E j \in DOMAIN tables : tables[j][verdict.eff] = s
      <4>1. CASE skip
        BY <2>5, <4>1, Zenon
      <4>2. CASE ~ skip
        BY <2>4, <3>7, <4>2
      <4>3. QED  BY <4>1, <4>2
    <3>9. cert[1].delegation # << >> /\ cert[1].sig.key = s /\ s \in Subnets
      BY <2>2, <2>10, <3>6
    <3>10. QED  BY <3>8, <3>9, Zenon
  <2>11. QED  BY <2>9, <2>10
<1>2. QED  BY <1>1, Invariance, PTL

(* What HostedIsValid asks of a certificate and its delegation *)
ShowsHosted(c, parent, eff) ==
  LET full == Digest(parent.tree)
      shown(path) == LookupPath(path, parent.tree) # NotFound
      shards == {p \in ListPaths(full, << >>) :
                   /\ p[1] = Name("canister_ranges") /\ p[2] = c.sig.key
                   /\ \E r \in LookupPath(p, full)[2].ranges : r[1] <= eff /\ eff <= r[2]}
  IN  /\ parent.delegation = << >> /\ parent.sig.key = Root
      /\ c.delegation[1].subnet = c.sig.key
      /\ shown(<<Name("subnet"), c.sig.key, Name("public_key")>>)
      /\ \E p \in shards : shown(p)

(* check_delegation refuses no certificate of a subnet that hosts the       *)
(* canister, as long as the shard the canister is in and the subnet's key   *)
(* are in sight: the shard with the last label up to the canister's id is   *)
(* the one with its range.                                                  *)
THEOREM HostedValid == Spec => []HostedIsValid
<1>1. ASSUME Inv PROVE HostedIsValid
  <2> SUFFICES ASSUME verdict.kind = "refused", cert[1].delegation # << >>,
                      ShowsHosted(cert[1], cert[1].delegation[1].cert, verdict.eff)
               PROVE  FALSE
    BY DEF HostedIsValid, Signer, ShowsHosted
  <2>1. verdict # NoVerdict
    BY DEF NoVerdict
  <2>2. PICK c : cert[1] = c /\ IsCertificate(tables, c)
    BY <1>1, <2>1 DEF Inv, VerdictOK, CertOK
  <2>3. IsSigned(c) /\ IsDelegation(tables, c.delegation) /\ c.delegation # << >>
    BY <2>2 DEF IsCertificate
  <2>4. PICK eff \in Canisters : verdict.eff = eff
    BY <1>1, <2>1 DEF Inv, VerdictOK
  <2>5. PICK skip \in BOOLEAN : skip = verdict.skip
    BY <1>1, <2>1, Zenon DEF Inv, VerdictOK
  <2>6. ~ Valid(c, eff, skip)
    <3>1. verdict.kind # "valid"
      OBVIOUS
    <3>2. QED  BY <1>1, <2>1, <2>2, <2>4, <2>5, <3>1, Zenon DEF Inv, VerdictOK
  <2>7. PICK s \in Subnets : \E parent :
          c.delegation = Delegated(s, parent) /\ IsParent(tables, parent)
    BY <2>3 DEF IsDelegation
  <2>8. PICK parent : c.delegation = Delegated(s, parent) /\ IsParent(tables, parent)
    BY <2>7
  <2>9. c.delegation[1].subnet = s /\ c.delegation[1].cert = parent
    BY <2>8, FieldsOfDelegated
  <2>10. c.sig.key = s
    BY <2>2, <2>9 DEF ShowsHosted
  <2>11. PICK i \in DOMAIN tables : IsRootTree(parent.tree, tables[i])
    BY <2>8 DEF IsParent
  <2>12. PICK nesting \in Nestings :
           /\ tables[i] \in [Canisters -> Subnets] /\ parent.tree \in Tree
           /\ Digest(parent.tree) = RootTree(tables[i], nesting)
    BY <2>11 DEF IsRootTree
  <2>13. /\ parent.delegation = << >> /\ parent.sig.key = Root
         /\ LookupPath(<<Name("subnet"), s, Name("public_key")>>, parent.tree) # NotFound
    BY <2>2, <2>9, <2>10 DEF ShowsHosted
  <2>14. PICK p \in ListPaths(Digest(parent.tree), << >>) :
           /\ p[1] = Name("canister_ranges") /\ p[2] = s
           /\ \E r \in LookupPath(p, Digest(parent.tree))[2].ranges : r[1] <= eff /\ eff <= r[2]
           /\ LookupPath(p, parent.tree) # NotFound
    BY <2>2, <2>4, <2>9, <2>10 DEF ShowsHosted
  <2>15. InCanisterRanges(parent.tree, s, eff)
    <3> DEFINE tree == parent.tree
               table == tables[i]
    <3>1. tree \in Tree /\ table \in [Canisters -> Subnets] /\ Digest(tree) = RootTree(table, nesting)
      BY <2>12
    <3>2. PICK r \in LookupPath(p, Digest(tree))[2].ranges : r[1] <= eff /\ eff <= r[2]
      BY <2>14
    <3>3. p \in ListPaths(Digest(tree), << >>) /\ LookupPath(p, tree) # NotFound
      BY <2>14
    <3> HIDE DEF tree, table
    <3>4. InCanisterRanges(tree, s, eff)
      BY <2>14, <3>1, <3>2, <3>3, HostedInRanges
    <3>5. QED  BY <3>4 DEF tree
  <2>16. SignatureHolds(parent, Root)
    BY <2>8, <2>13, HoldsForSigner DEF IsParent
  <2> DEFINE key == CheckDelegation(c, eff, skip)
  <2>17. key = LookupPath(<<Name("subnet"), s, Name("public_key")>>, parent.tree)
    <3>1. key = IF /\ parent.delegation = << >>
                   /\ SignatureHolds(parent, Root)
                   /\ skip \/ InCanisterRanges(parent.tree, s, eff)
                THEN LookupPath(<<Name("subnet"), s, Name("public_key")>>, parent.tree)
                ELSE NotFound
      BY <2>8, DelegationRead
    <3> HIDE DEF key
    <3>2. QED  BY <2>13, <2>15, <2>16, <3>1, Zenon
  <2>18. key = Leaf(KeyOf(s))
    BY <2>11, <2>13, <2>17, KeyShown
  <2>19. key # NotFound /\ SignatureHolds(c, key[2].key)
    <3>1. key # NotFound /\ key[2].key = s
      BY <2>18, KeyInLeaf
    <3>2. QED  BY <2>3, <2>10, <3>1, HoldsForSigner
  <2>20. QED  BY <2>6, <2>19 DEF Valid
<1>2. QED  BY <1>1, Invariance, PTL
===========================================================================
