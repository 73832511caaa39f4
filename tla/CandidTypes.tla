----------------------------- MODULE CandidTypes -----------------------------
(***************************************************************************)
(* The type table of candid.py.  Python's type objects are the nodes of a  *)
(* heap, [identities -> nodes]; a reference to a type is an identity (0 or *)
(* more) or, for a primitive type, its opcode (below 0), as on the wire.   *)
(* Bytes are numbers, field labels are their hashes.  What recurses is a   *)
(* recursive function of the levels that are left to go down.              *)
(***************************************************************************)
EXTENDS SequencesExt, LEB128

CONSTANT MaxDepth   \* how deep Python recurses

ASSUME DepthAssumption == MaxDepth \in Nat \ {0}

TypeIds == [null |-> -1, nat |-> -3, int |-> -4, nat8 |-> -5, text |-> -15, reserved |-> -16,
            empty |-> -17, opt |-> -18, vec |-> -19, record |-> -20, variant |-> -21,
            func |-> -22, service |-> -23, principal |-> -24]

Primitives == {"null", "nat", "int", "nat8", "text", "reserved", "empty", "principal"}

Opt(t)             == [con |-> "opt", arg |-> t]
Vec(t)             == [con |-> "vec", arg |-> t]
Record(fields)     == [con |-> "record", fields |-> fields]
Variant(fields)    == [con |-> "variant", fields |-> fields]
Func(args, rets)   == [con |-> "func", args |-> args, rets |-> rets]
Service(methods)   == [con |-> "service", fields |-> methods]
Rec(t)             == [con |-> "rec", arg |-> t]

Bytes == 0 .. 255

HasFields(node) == node.con \in {"record", "variant", "service"}

(* The references there can be in a heap *)
Refs(heap) == DOMAIN heap \cup {TypeIds[p] : p \in Primitives}

(* _sorted_hashes: each label at the place of the number of those below it *)
SortedHashes(node) ==
  LET labels == DOMAIN node.fields
  IN  [i \in 1 .. Cardinality(labels) |->
         CHOOSE h \in labels : Cardinality({g \in labels : g < h}) = i - 1]

(* The types a constructed type is made of *)
Parts(node) ==
  IF HasFields(node)
  THEN [i \in DOMAIN SortedHashes(node) |-> node.fields[SortedHashes(node)[i]]]
  ELSE IF node.con = "func" THEN node.args \o node.rets ELSE <<node.arg>>

(* What a RecClass object was filled with *)
Filled(heap, t) == IF t >= 0 /\ heap[t].con = "rec" THEN heap[t].arg ELSE t

(* RecClass.get_type, through the RecClass objects in a row *)
GetType(heap, t) ==
  LET type[d \in 0 .. MaxDepth] == IF d = 0 THEN t ELSE Filled(heap, type[d - 1])
  IN  type[MaxDepth]

(* A type object is made of types; a method's name is one letter. *)
IsNode(heap, node) ==
  \/ node.con \in {"opt", "vec", "rec"} /\ node.arg \in Refs(heap)
  \/ node.con = "func" /\ node.args \in Seq(Refs(heap)) /\ node.rets \in Seq(Refs(heap))
  \/ /\ HasFields(node)
     /\ IsFiniteSet(DOMAIN node.fields)
     /\ DOMAIN node.fields \subseteq (IF node.con = "service" THEN 0 .. 127 ELSE Nat)
     /\ \A h \in DOMAIN node.fields : node.fields[h] \in Refs(heap)

(* Fewer objects than levels, and no circle of RecClass objects *)
IsHeap(heap) ==
  /\ IsFiniteSet(DOMAIN heap) /\ DOMAIN heap \subseteq Nat
  /\ Cardinality(DOMAIN heap) < MaxDepth
  /\ \A o \in DOMAIN heap : IsNode(heap, heap[o])
  /\ \A o \in DOMAIN heap : LET t == GetType(heap, o) IN t >= 0 => heap[t].con # "rec"
-----------------------------------------------------------------------------
(* The table being built is the sequence of the type objects that have an   *)
(* index reserved, in the order of their indices.                           *)

(* Mutant: an object is known only as long as it is the latest one. *)
HasLatest(table, obj) == table # << >> /\ Last(table) = obj

(* has *)
Has(table, obj) == obj \in ToSet(table)

(* _buildTypeTableImpl, given buildTypeTable of the parts: the index is     *)
(* reserved before the parts are visited.                                   *)
BuildParts(below, obj, parts, table) ==
  LET visited[i \in 0 .. Len(parts)] ==
        IF i = 0 THEN Append(table, obj) ELSE below[parts[i]][visited[i - 1]]
  IN  visited[Len(parts)]

(* buildTypeTable *)
BuildType(heap, below, t, table) ==
  LET obj == GetType(heap, t)
  IN  IF obj < 0 \/ Has(table, obj) THEN table
      ELSE BuildParts(below, obj, Parts(heap[obj]), table)

Builder(heap) ==
  LET build[d \in 0 .. MaxDepth] == [t \in Int |-> [table \in Seq(Nat) |->
        IF d = 0 THEN table ELSE BuildType(heap, build[d - 1], t, table)]]
  IN  build

(* The table of a message's types *)
BuildTable(heap, types) ==
  LET built[i \in 0 .. Len(types)] ==
        IF i = 0 THEN << >> ELSE Builder(heap)[MaxDepth][types[i]][built[i - 1]]
  IN  built[Len(types)]

(* index_of *)
IndexOf(table, obj) == (CHOOSE i \in DOMAIN table : table[i] = obj) - 1

(* How a type is referred to: by its opcode, or the index of the type *)
WireRef(heap, table, t) ==
  LET obj == GetType(heap, t) IN IF obj < 0 THEN obj ELSE IndexOf(table, obj)

(* encodeType *)
EncodeType(heap, table, t) == EncodeI(WireRef(heap, table, t))

EncodeTypes(heap, table, ts) ==
  EncodeU(Len(ts)) \o FlattenSeq([i \in DOMAIN ts |-> EncodeType(heap, table, ts[i])])

EncodeLabel(node, label) == IF node.con = "service" THEN <<1, label>> ELSE EncodeU(label)

(* What _buildTypeTableImpl puts into the table; a func without modes *)
EncodeNode(heap, table, node) ==
  LET labels == SortedHashes(node)
  IN  EncodeI(TypeIds[node.con]) \o
      (IF HasFields(node)
       THEN EncodeU(Len(labels)) \o
            FlattenSeq([i \in DOMAIN labels |->
                          EncodeLabel(node, labels[i])
                            \o EncodeType(heap, table, node.fields[labels[i]])])
       ELSE IF node.con = "func"
       THEN EncodeTypes(heap, table, node.args) \o EncodeTypes(heap, table, node.rets) \o <<0>>
       ELSE EncodeType(heap, table, node.arg))

(* TypeTable.encode *)
EncodeTable(heap, table) ==
  EncodeU(Len(table)) \o
  FlattenSeq([i \in DOMAIN table |-> EncodeNode(heap, table, heap[table[i]])])
-----------------------------------------------------------------------------
(* Reading the table back.  Messages are well formed, so nothing raises.    *)
ReadType(b, before) ==
  LET t == DecodeI(b, before.at) IN Got(Append(before.val, t.val), t.at)

ReadTypes(b, at, count) ==
  LET types[k \in 0 .. count] ==
        IF k = 0 THEN Got(<< >>, at) ELSE ReadType(b, types[k - 1])
  IN  types[count]

DecodeTypes(b, at) == LET count == DecodeU(b, at) IN ReadTypes(b, count.at, count.val)

(* Python's f[x] = y *)
Put(f, x, y) == [z \in DOMAIN f \cup {x} |-> IF z = x THEN y ELSE f[z]]

ReadField(b, service, before) ==
  LET label == DecodeU(b, IF service THEN before.at + 1 ELSE before.at)
      t     == DecodeI(b, label.at)
  IN  Got(Put(before.val, label.val, t.val), t.at)

ReadFields(b, at, service, count) ==
  LET fields[k \in 0 .. count] ==
        IF k = 0 THEN Got(<< >>, at) ELSE ReadField(b, service, fields[k - 1])
  IN  fields[count]

DecodeNode(b, at) ==
  LET code == DecodeI(b, at)
      con  == CHOOSE c \in DOMAIN TypeIds : TypeIds[c] = code.val
  IN  CASE con \in {"opt", "vec"} ->
             LET t == DecodeI(b, code.at) IN Got([con |-> con, arg |-> t.val], t.at)
        [] con \in {"record", "variant", "service"} ->
             LET count  == DecodeU(b, code.at)
                 fields == ReadFields(b, count.at, con = "service", count.val)
             IN  Got([con |-> con, fields |-> fields.val], fields.at)
        [] con = "func" ->
             LET args == DecodeTypes(b, code.at)
                 rets == DecodeTypes(b, args.at)
             IN  Got(Func(args.val, rets.val), rets.at + 1)

ReadNode(b, before) ==
  LET node == DecodeNode(b, before.at) IN Got(Append(before.val, node.val), node.at)

ReadNodes(b, at, count) ==
  LET nodes[k \in 0 .. count] ==
        IF k = 0 THEN Got(<< >>, at) ELSE ReadNode(b, nodes[k - 1])
  IN  nodes[count]

(* raw_table: the RecClass objects 0 .. n-1, filled with the types n .. 2n-1 *)
DecodeTable(b, at) ==
  LET count == DecodeU(b, at)
      nodes == ReadNodes(b, count.at, count.val)
      n     == count.val
  IN  Got([i \in 0 .. 2 * n - 1 |-> IF i < n THEN Rec(n + i) ELSE nodes.val[i - n + 1]],
          nodes.at)
-----------------------------------------------------------------------------
(* What the name of a type is made of: a RecClass is spelled out at the top *)
(* and below a vec; below an opt and in a record it is a placeholder.       *)
NameParts(heap, t) ==
  CASE heap[t].con \in {"rec", "vec"} -> {heap[t].arg}
    [] heap[t].con = "opt"    -> {p \in {heap[t].arg} : p < 0 \/ heap[p].con # "rec"}
    [] heap[t].con = "record" -> {p \in ToSet(Parts(heap[t])) : p < 0 \/ heap[p].con # "rec"}
    [] OTHER                  -> {}

(* name raises RecursionError on a type whose spelling never ends: one of   *)
(* some types that are each spelled out with one of them.                   *)
HasName(heap, t) ==
  ~ \E S \in SUBSET DOMAIN heap : t \in S /\ \A o \in S : NameParts(heap, o) \cap S # {}
-----------------------------------------------------------------------------
(* A type is an object of a set of objects, or no object. *)
Within(heap, t, S) == LET obj == GetType(heap, t) IN obj >= 0 => obj \in S

AllWithin(heap, types, S) == \A i \in DOMAIN types : Within(heap, types[i], S)

(* The objects that some types are made of: what is in every set that has   *)
(* the types and the parts of its members                                   *)
Reached(heap, types) ==
  {o \in DOMAIN heap :
     \A S \in SUBSET DOMAIN heap :
       AllWithin(heap, types, S) /\ (\A p \in S : AllWithin(heap, Parts(heap[p]), S)) => o \in S}
=============================================================================
