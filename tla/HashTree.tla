------------------------------ MODULE HashTree ------------------------------
(***************************************************************************)
(* The hash trees of certificate.py, with an ideal hash: the digest of a   *)
(* tree is the tree with nothing pruned.  What recurses over a tree is a   *)
(* recursive function on the trees of at most MaxHeight levels.            *)
(***************************************************************************)
EXTENDS Integers, Sequences

CONSTANTS
  Labels,     \* the labels
  Values,     \* the contents of leaves
  MaxHeight   \* how deep trees nest

ASSUME HashTreeAssumption == MaxHeight \in Nat

Empty              == <<"empty">>
Fork(left, right)  == <<"fork", left, right>>
Labeled(label, t)  == <<"labeled", label, t>>
Leaf(value)        == <<"leaf", value>>
Pruned(digest)     == <<"pruned", digest>>

NotFound == <<"not found">>

Tag(node) == node[1]

(* What a lookup cannot look into *)
Opaque(node) == Tag(node) \in {"empty", "pruned"}

(* The trees of at most height levels over some nodes without children *)
Nested(ends, height) ==
  LET level[h \in 0 .. height] ==
        IF h = 0 THEN ends
        ELSE LET below == level[h - 1]
             IN  ends \cup ({"labeled"} \X Labels \X below) \cup ({"fork"} \X below \X below)
  IN  level[height]

Ends == {Empty} \cup ({"leaf"} \X Values)

FullTrees(height) == Nested(Ends, height)
Trees(height)     == Nested(Ends \cup ({"pruned"} \X FullTrees(MaxHeight)), height)

Path == Seq(Labels)
-----------------------------------------------------------------------------
(* Mutant: the labels on the way are not compared. *)
AnyLabel(want, have) == TRUE

Matches(want, have) == want = have

(* _lookup_path: the leaf at the end of the path *)
LookupPath(path, node) ==
  LET look[n \in Trees(MaxHeight)] == [p \in Path |->
        IF Opaque(n) THEN NotFound
        ELSE IF p = << >> THEN IF Tag(n) = "leaf" THEN n ELSE NotFound
        ELSE IF Tag(n) = "fork"
             THEN LET left == look[n[2]][p] IN IF left # NotFound THEN left ELSE look[n[3]][p]
        ELSE IF Tag(n) = "labeled" /\ Matches(Head(p), n[2]) THEN look[n[3]][Tail(p)]
        ELSE NotFound]
  IN  look[node][path]

(* _lookup_tree_path: the node at the end of the path, whatever it is *)
LookupTree(path, node) ==
  LET look[n \in Trees(MaxHeight)] == [p \in Path |->
        IF Opaque(n) THEN NotFound
        ELSE IF p = << >> THEN n
        ELSE IF Tag(n) = "fork"
             THEN LET left == look[n[2]][p] IN IF left # NotFound THEN left ELSE look[n[3]][p]
        ELSE IF Tag(n) = "labeled" /\ Matches(Head(p), n[2]) THEN look[n[3]][Tail(p)]
        ELSE NotFound]
  IN  look[node][path]

(* list_paths, as a set: the paths to the leaves in sight *)
ListPaths(node, prefix) ==
  LET paths[n \in Trees(MaxHeight)] == [before \in Path |->
        IF Opaque(n) THEN {}
        ELSE IF Tag(n) = "leaf" THEN {before}
        ELSE IF Tag(n) = "labeled" THEN paths[n[3]][Append(before, n[2])]
        ELSE paths[n[2]][before] \cup paths[n[3]][before]]
  IN  paths[node][prefix]

(* tree_digest *)
Digest(node) ==
  LET digest[n \in Trees(MaxHeight)] ==
        IF Tag(n) = "pruned" THEN n[2]
        ELSE IF Tag(n) = "labeled" THEN Labeled(n[2], digest[n[3]])
        ELSE IF Tag(n) = "fork" THEN Fork(digest[n[2]], digest[n[3]])
        ELSE n
  IN  digest[node]
-----------------------------------------------------------------------------
(* EXTERNAL: how a state tree is laid out and cut back before it is sent.   *)

(* A directory of labelled trees, its forks nested to the left or right *)
Directory(entries, nesting) ==
  LET n          == Len(entries)
      at(i)      == IF nesting = "left" THEN i ELSE n + 1 - i
      entry(i)   == Labeled(entries[at(i)][1], entries[at(i)][2])
      join(t, u) == IF nesting = "left" THEN Fork(t, u) ELSE Fork(u, t)
      nest[i \in 1 .. n] == IF i = 1 THEN entry(1) ELSE join(nest[i - 1], entry(i))
  IN  IF n = 0 THEN Empty ELSE nest[n]

(* The trees that have one more part replaced by its digest *)
Cutbacks(node) ==
  LET cut[n \in Trees(MaxHeight)] ==
        IF Opaque(n) THEN {}
        ELSE {Pruned(Digest(n))}
             \cup (IF Tag(n) = "fork"
                   THEN {Fork(t, n[3]) : t \in cut[n[2]]} \cup {Fork(n[2], t) : t \in cut[n[3]]}
                   ELSE IF Tag(n) = "labeled" THEN {Labeled(n[2], t) : t \in cut[n[3]]}
                   ELSE {})
  IN  cut[node]
=============================================================================
