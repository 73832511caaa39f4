------------------------------- MODULE Candid -------------------------------
(***************************************************************************)
(* encode and decode of candid.py: a message is written with the sender's  *)
(* types and read with the receiver's, who may expect other types.         *)
(***************************************************************************)
EXTENDS CandidTypes

CONSTANTS
  Values,     \* the values in messages and what they are made of
  Messages,   \* messages: [heap, types : Seq(references), values : Seq(values)]
  Expected    \* what receivers expect: [heap, types]

VARIABLES
  message,  \* the message, a member of Messages
  wire,     \* its bytes after DIDL, or << >> before it is encoded
  reading   \* what was expected and what came out, or NoReading

vars == <<message, wire, reading>>

NoReading == [expected |-> "nothing"]

(* Values, by the shape Python gives them *)
None         == <<"none">>
Num(n)       == <<"num", n>>
Text(bytes)  == <<"text", bytes>>
List(vals)   == <<"list", vals>>       \* a list, or bytes; of 0 or 1 for opt
Dict(vals)   == <<"dict", vals>>       \* a record, also when it is a tuple
Tagged(l, v) == <<"tagged", l, v>>     \* a variant
Ref(bytes)   == <<"ref", bytes>>       \* a principal, a service, or its method m

(* The name of a primitive type *)
Name(t) == CHOOSE n \in DOMAIN TypeIds : TypeIds[n] = t
-----------------------------------------------------------------------------
(* What encodeValue of type t takes, given what it takes of the parts *)
FitsPrimitive(t, v) ==
  CASE Name(t) = "nat"       -> v \in {"num"} \X Nat
    [] Name(t) = "int"       -> v \in {"num"} \X Int
    [] Name(t) = "nat8"      -> v \in {"num"} \X Bytes
    [] Name(t) = "text"      -> v \in {"text"} \X Seq(Bytes)
    [] Name(t) = "principal" -> v \in {"ref"} \X Seq(Bytes)
    [] Name(t) = "null"      -> v = None
    [] Name(t) = "reserved"  -> TRUE
    [] Name(t) = "empty"     -> FALSE

FitsParts(heap, below, t, v) ==
  LET obj  == GetType(heap, t)
      node == heap[obj]
  IN  IF obj < 0 THEN FitsPrimitive(obj, v)
      ELSE CASE node.con \in {"opt", "vec"} ->
                  /\ v \in {"list"} \X Seq(Values)
                  /\ node.con = "opt" => Len(v[2]) <= 1
                  /\ \A i \in DOMAIN v[2] : below[node.arg][v[2][i]]
             [] node.con = "record" ->
                  /\ v \in {"dict"} \X [DOMAIN node.fields -> Values]
                  /\ \A h \in DOMAIN node.fields : below[node.fields[h]][v[2][h]]
             [] node.con = "variant" ->
                  /\ v \in {"tagged"} \X (DOMAIN node.fields) \X Values
                  /\ below[node.fields[v[2]]][v[3]]
             [] node.con \in {"service", "func"} -> v = None \/ v \in {"ref"} \X Seq(Bytes)

Fitting(heap) ==
  LET fits[d \in 0 .. MaxDepth] == [t \in Int |-> [v \in Values |->
        IF d = 0 THEN FALSE ELSE FitsParts(heap, fits[d - 1], t, v)]]
  IN  fits

(* The value is of the type, and nests less deep than Python recurses. *)
Fits(heap, t, v) == v \in Values /\ Fitting(heap)[MaxDepth][t][v]

IsMessage(msg) ==
  /\ IsHeap(msg.heap)
  /\ msg.types \in Seq(Refs(msg.heap))
  /\ msg.values \in Seq(Values) /\ DOMAIN msg.values = DOMAIN msg.types
  /\ \A i \in DOMAIN msg.types : Fits(msg.heap, msg.types[i], msg.values[i])

ASSUME MessagesAssumption ==
  /\ \A msg \in Messages : IsMessage(msg)
  /\ \A mine \in Expected : IsHeap(mine.heap) /\ mine.types \in Seq(Refs(mine.heap))
-----------------------------------------------------------------------------
EncodeText(bytes) == EncodeU(Len(bytes)) \o bytes

EncodePrincipal(bytes) == <<1>> \o EncodeText(bytes)

(* An opaque reference is None. *)
EncodeService(v) == IF v = None THEN <<0>> ELSE EncodePrincipal(v[2])

EncodeFunc(v) ==
  IF v = None THEN <<0>> ELSE <<1>> \o EncodePrincipal(v[2]) \o EncodeText(<<109>>)

EncodePrimitive(t, v) ==
  CASE Name(t) = "nat"                     -> EncodeU(v[2])
    [] Name(t) = "int"                     -> EncodeI(v[2])
    [] Name(t) = "nat8"                    -> <<v[2]>>
    [] Name(t) = "text"                    -> EncodeText(v[2])
    [] Name(t) = "principal"               -> EncodePrincipal(v[2])
    [] Name(t) \in {"null", "reserved"}    -> << >>

(* encodeValue of type t, given that of the parts *)
EncodeParts(heap, below, t, v) ==
  LET obj    == GetType(heap, t)
      node   == heap[obj]
      labels == SortedHashes(node)
  IN  IF obj < 0 THEN EncodePrimitive(obj, v)
      ELSE CASE node.con \in {"opt", "vec"} ->
                  EncodeU(Len(v[2])) \o FlattenSeq([i \in DOMAIN v[2] |-> below[node.arg][v[2][i]]])
             [] node.con = "record" ->
                  FlattenSeq([i \in DOMAIN labels |-> below[node.fields[labels[i]]][v[2][labels[i]]]])
             [] node.con = "variant" ->
                  EncodeU((CHOOSE i \in DOMAIN labels : labels[i] = v[2]) - 1)
                    \o below[node.fields[v[2]]][v[3]]
             [] node.con = "service" -> EncodeService(v)
             [] node.con = "func"    -> EncodeFunc(v)

Encoder(heap) ==
  LET bytes[d \in 0 .. MaxDepth] == [t \in Int |-> [v \in Values |->
        IF d = 0 THEN << >> ELSE EncodeParts(heap, bytes[d - 1], t, v)]]
  IN  bytes

EncodeValue(heap, t, v) == Encoder(heap)[MaxDepth][t][v]

(* encode, without the prefix *)
Encode(msg) ==
  LET table == BuildTable(msg.heap, msg.types)
  IN  EncodeTable(msg.heap, table) \o
      EncodeTypes(msg.heap, table, msg.types) \o
      FlattenSeq([i \in DOMAIN msg.types |-> EncodeValue(msg.heap, msg.types[i], msg.values[i])])
-----------------------------------------------------------------------------
(* b.read(length) after the length; None when it is out of bounds *)
DecodeText(b, at) ==
  LET length == DecodeU(b, at)
      end    == length.at + length.val
  IN  IF ~length.ok \/ end > Len(b) + 1 THEN Raise(at)
      ELSE Got(SubSeq(b, length.at, end - 1), end)

(* What is read, as a value of a shape *)
Shaped(read, shape) == IF read.ok THEN Got(<<shape, read.val>>, read.at) ELSE read

(* Mutant: either of the two numbers for the other *)
NumberMatches(mine, theirs) ==
  mine = theirs \/ {mine, theirs} = {TypeIds.int, TypeIds.nat}

(* PrimitiveType.checkType: the wire's type is the one expected, but for a  *)
(* nat where an int is.                                                     *)
PrimitiveMatches(mine, theirs) ==
  mine = theirs \/ (mine = TypeIds.int /\ theirs = TypeIds.nat)

(* ConstructType.checkType: any constructed type passes for any other. *)
ConstructMatches(theirs) == theirs >= 0

DecodePrincipal(b, at) ==
  IF at > Len(b) \/ b[at] # 1 THEN Raise(at) ELSE DecodeText(b, at + 1)

(* decodeValue of a primitive type, of the wire's type *)
DecodePrimitive(t, b, at) ==
  CASE Name(t) = "nat"       -> Shaped(DecodeU(b, at), "num")
    [] Name(t) = "int"       -> Shaped(DecodeI(b, at), "num")
    [] Name(t) = "nat8"      -> IF at > Len(b) THEN Raise(at) ELSE Got(Num(b[at]), at + 1)
    [] Name(t) = "text"      -> Shaped(DecodeText(b, at), "text")
    [] Name(t) = "principal" -> Shaped(DecodePrincipal(b, at), "ref")
    [] Name(t) = "empty"     -> Raise(at)
    [] Name(t) \in {"null", "reserved"} -> Got(None, at)

Opaque(b, at) == at <= Len(b) /\ b[at] = 0

DecodeService(b, at) ==
  IF Opaque(b, at) THEN Got(None, at + 1) ELSE Shaped(DecodePrincipal(b, at), "ref")

DecodeFunc(b, at) ==
  LET principal == DecodePrincipal(b, at + 1)
      method    == DecodeText(b, principal.at)
  IN  IF Opaque(b, at) THEN Got(None, at + 1)
      ELSE IF at <= Len(b) /\ b[at] = 1 /\ principal.ok /\ method.ok
      THEN Got(Ref(principal.val), method.at) ELSE Raise(at)

(* Mutant: the bytes of a field the receiver does not know stay unread. *)
Unread(read, at) == Got(None, at)

(* A field the receiver does not know is decoded by its own type. *)
Skipped(read, at) == read

(* What a missing field is set to: _fill_missing raises unless it is an opt *)
(* or reserved.                                                             *)
Missing(heap, t) ==
  LET obj == GetType(heap, t)
  IN  IF obj = TypeIds.reserved THEN {None}
      ELSE IF obj >= 0 /\ heap[obj].con = "opt" THEN {List(<< >>)} ELSE {}

(* A reading with one more value, or what raised *)
Added(read, next) ==
  IF ~read.ok THEN read
  ELSE IF next.ok THEN Got(Append(read.val, next.val), next.at) ELSE next

(* count values of a type one after the other.  below reads what is nested  *)
(* one level deeper, as below[own][l][w][at]: as the receiver's type l or,  *)
(* if own, as the type l of the wire.                                       *)
DecodeList(below, own, l, w, at, count) ==
  LET list[k \in 0 .. count] ==
        IF k = 0 THEN Got(<< >>, at)
        ELSE Added(list[k - 1], below[own][l][w][list[k - 1].at])
  IN  list[count]

(* A reading with one field more, or what raised *)
WithField(read, label, field) ==
  IF field.ok THEN Got(Put(read.val, label, field.val), field.at) ELSE field

(* A field that was not sent is filled, or raises. *)
WithMissing(read, label, fill) ==
  IF fill = {} THEN Raise(read.at)
  ELSE WithField(read, label, Got(CHOOSE v \in fill : TRUE, read.at))

(* Where the loops are that merge the receiver's fields with the wire's:    *)
(* their next ones are the i-th and the j-th.                               *)
Merging(i, j, read) == [i |-> i, j |-> j, read |-> read]

(* One round of them *)
MergeFields(heap, below, own, mine, theirs, s) ==
  LET my        == SortedHashes(mine)
      their     == SortedHashes(theirs)
      isMissing == s.i <= Len(my) /\ (s.j > Len(their) \/ my[s.i] < their[s.j])
      isShared  == s.i <= Len(my) /\ s.j <= Len(their) /\ my[s.i] = their[s.j]
      isUnknown == s.j <= Len(their) /\ ~isMissing /\ ~isShared
      at        == s.read.at
      type      == theirs.fields[their[s.j]]
      skip      == Skipped(below[TRUE][type][type][at], at)
  IN  CASE ~s.read.ok -> s
        [] s.read.ok /\ isMissing ->
             Merging(s.i + 1, s.j,
                     WithMissing(s.read, my[s.i], Missing(heap, mine.fields[my[s.i]])))
        [] s.read.ok /\ isShared ->
             Merging(s.i + 1, s.j + 1,
                     WithField(s.read, my[s.i], below[own][mine.fields[my[s.i]]][type][at]))
        [] s.read.ok /\ isUnknown ->
             Merging(s.i, s.j + 1, IF skip.ok THEN Got(s.read.val, skip.at) ELSE skip)
        [] OTHER -> s

DecodeFields(heap, below, own, mine, theirs, at) ==
  LET rounds == Cardinality(DOMAIN mine.fields) + Cardinality(DOMAIN theirs.fields)
      merged[n \in 0 .. rounds] ==
        IF n = 0 THEN Merging(1, 1, Got(<< >>, at))
        ELSE MergeFields(heap, below, own, mine, theirs, merged[n - 1])
  IN  merged[rounds].read

(* decodeValue of the type object mine, of a heap, for bytes of the wire's  *)
(* type theirs.  What does not exist in the wire's type raises.             *)
DecodeParts(heap, wh, b, below, own, mine, theirs, at) ==
  LET node    == heap[mine]
      other   == wh[theirs]
      length  == DecodeU(b, at)
      HasType == other.con \in {"opt", "vec"}
      tag     == SortedHashes(other)[length.val + 1]
  IN  IF mine < 0
      THEN IF PrimitiveMatches(mine, theirs) THEN DecodePrimitive(theirs, b, at) ELSE Raise(at)
      ELSE IF ~ConstructMatches(theirs) THEN Raise(at)
      ELSE CASE node.con = "vec" ->
                  IF ~length.ok \/ ~HasType THEN Raise(at)
                  ELSE IF other.arg = TypeIds.nat8
                  THEN Shaped(DecodeList(below, TRUE, other.arg, other.arg, length.at, length.val), "list")
                  ELSE Shaped(DecodeList(below, own, node.arg, other.arg, length.at, length.val), "list")
             [] node.con = "opt" ->
                  IF at > Len(b) \/ (b[at] = 1 /\ ~HasType) THEN Raise(at)
                  ELSE IF b[at] # 1 THEN Got(List(<< >>), at + 1)
                  ELSE Shaped(DecodeList(below, own, node.arg, other.arg, at + 1, 1), "list")
             [] node.con = "record" ->
                  IF other.con # "record" THEN Raise(at)
                  ELSE Shaped(DecodeFields(heap, below, own, node, other, at), "dict")
             [] node.con = "variant" ->
                  IF \/ ~length.ok \/ other.con \notin {"record", "variant"}
                     \/ length.val >= Cardinality(DOMAIN other.fields)
                     \/ tag \notin DOMAIN node.fields
                  THEN Raise(at)
                  ELSE LET read == below[own][node.fields[tag]][other.fields[tag]][length.at]
                       IN  IF read.ok THEN Got(Tagged(tag, read.val), read.at) ELSE read
             [] node.con = "service" -> DecodeService(b, at)
             [] node.con = "func"    -> DecodeFunc(b, at)

(* decodeValue: what a reserved is sent is decoded by its own type, and     *)
(* dropped.                                                                 *)
DecodeType(lh, wh, b, below, own, l, w, at) ==
  LET heap   == IF own THEN wh ELSE lh
      mine   == GetType(heap, l)
      theirs == GetType(wh, w)
      sent   == DecodeParts(wh, wh, b, below, TRUE, theirs, theirs, at)
  IN  IF mine # TypeIds.reserved THEN DecodeParts(heap, wh, b, below, own, mine, theirs, at)
      ELSE IF ~HasName(wh, w) THEN Raise(at)
      ELSE IF sent.ok THEN Got(None, sent.at) ELSE sent

Decoder(lh, wh, b) ==
  LET read[d \in 0 .. MaxDepth] ==
        [own \in BOOLEAN |-> [l \in Int |-> [w \in Int |-> [at \in Nat \ {0} |->
           IF d = 0 THEN Raise(at) ELSE DecodeType(lh, wh, b, read[d - 1], own, l, w, at)]]]]
  IN  read

DecodeValue(lh, l, wh, w, b, at) == Decoder(lh, wh, b)[MaxDepth][FALSE][l][w][at]
-----------------------------------------------------------------------------
(* The values one after the other; the name of a type is evaluated before   *)
(* its value is decoded.                                                    *)
DecodeArg(mine, sent, b, i, read) ==
  IF read.ok /\ ~HasName(mine.heap, mine.types[i]) THEN Raise(read.at)
  ELSE Added(read, DecodeValue(mine.heap, mine.types[i], sent.heap, sent.types[i], b, read.at))

DecodeArgs(mine, sent, b, at) ==
  LET args[i \in 0 .. Len(mine.types)] ==
        IF i = 0 THEN Got(<< >>, at) ELSE DecodeArg(mine, sent, b, i, args[i - 1])
  IN  args[Len(mine.types)]

(* Without expected types the wire's own are used. *)
DecodeAs(expected, sent, b, at) ==
  LET mine == IF expected.types = << >> THEN sent ELSE expected
  IN  IF Len(sent.types) < Len(mine.types) THEN Raise(at) ELSE DecodeArgs(mine, sent, b, at)

(* decode, behind the prefix *)
Decode(b, expected) ==
  LET table == DecodeTable(b, 1)
      types == DecodeTypes(b, table.at)
  IN  DecodeAs(expected, [heap |-> table.val, types |-> types.val], b, types.at)

Init ==
  /\ message \in Messages
  /\ wire = << >>
  /\ reading = NoReading

(* The sender encodes its arguments. *)
Send ==
  /\ wire = << >>
  /\ wire' = Encode(message)
  /\ UNCHANGED <<message, reading>>

(* A receiver decodes them; others may decode the same bytes after it. *)
Receive ==
  /\ wire # << >>
  /\ \E expected \in Expected :
       reading' = [expected |-> expected, result |-> Decode(wire, expected)]
  /\ UNCHANGED <<message, wire>>

Next == Send \/ Receive

Spec == Init /\ [][Next]_vars
-----------------------------------------------------------------------------
(* What a message means, without bytes and without a type table: the value  *)
(* v of the sender's type w, as the receiver's type l, in a set that is     *)
(* empty when the two types do not agree on it; given that of the parts.    *)
All(sets) == {f \in [DOMAIN sets -> UNION Range(sets)] : \A i \in DOMAIN sets : f[i] \in sets[i]}

CoercedParts(lh, wh, below, l, w, v) ==
  LET mine   == GetType(lh, l)
      theirs == GetType(wh, w)
      node   == lh[mine]
      other  == wh[theirs]
  IN  IF mine = TypeIds.reserved THEN {None}
      ELSE IF mine < 0
      THEN IF theirs = mine \/ (mine = TypeIds.int /\ theirs = TypeIds.nat) THEN {v} ELSE {}
      ELSE IF theirs < 0 \/ node.con # other.con THEN {}
      ELSE CASE node.con \in {"opt", "vec"} ->
                  {List(s) : s \in All([i \in DOMAIN v[2] |-> below[node.arg][other.arg][v[2][i]]])}
             [] node.con = "record" ->
                  {Dict(f) : f \in All([label \in DOMAIN node.fields |->
                      IF label \in DOMAIN other.fields
                      THEN below[node.fields[label]][other.fields[label]][v[2][label]]
                      ELSE Missing(lh, node.fields[label])])}
             [] node.con = "variant" ->
                  IF v[2] \notin DOMAIN node.fields THEN {}
                  ELSE {Tagged(v[2], u) : u \in below[node.fields[v[2]]][other.fields[v[2]]][v[3]]}
             [] node.con \in {"service", "func"} -> {v}

Coercion(lh, wh) ==
  LET coerced[d \in 0 .. MaxDepth] == [l \in Int |-> [w \in Int |-> [v \in Values |->
        IF d = 0 THEN {} ELSE CoercedParts(lh, wh, coerced[d - 1], l, w, v)]]]
  IN  coerced

Coerced(lh, l, wh, w, v) == Coercion(lh, wh)[MaxDepth][l][w][v]

(* The constructors agree wherever the value is looked at, and the elements *)
(* of a blob are nat8 on both sides: what checkType does not look at.       *)
AlikeParts(lh, wh, below, l, w, v) ==
  LET mine   == GetType(lh, l)
      theirs == GetType(wh, w)
      node   == lh[mine]
      other  == wh[theirs]
  IN  \/ mine < 0 \/ theirs < 0
      \/ /\ node.con = other.con
         /\ CASE node.con \in {"opt", "vec"} ->
                   /\ node.con = "vec" /\ GetType(wh, other.arg) = TypeIds.nat8 => GetType(lh, node.arg) = TypeIds.nat8
                   /\ \A i \in DOMAIN v[2] : below[node.arg][other.arg][v[2][i]]
              [] node.con = "record" ->
                   \A label \in DOMAIN node.fields \cap DOMAIN other.fields :
                     below[node.fields[label]][other.fields[label]][v[2][label]]
              [] node.con = "variant" ->
                   v[2] \in DOMAIN node.fields =>
                     below[node.fields[v[2]]][other.fields[v[2]]][v[3]]
              [] OTHER -> TRUE

Likeness(lh, wh) ==
  LET alike[d \in 0 .. MaxDepth] == [l \in Int |-> [w \in Int |-> [v \in Values |->
        IF d = 0 THEN TRUE ELSE AlikeParts(lh, wh, alike[d - 1], l, w, v)]]]
  IN  alike

Alike(lh, l, wh, w, v) == Likeness(lh, wh)[MaxDepth][l][w][v]

(* The types the reading was done with, and the arguments it covers *)
Receiver ==
  IF reading.expected.types = << >> THEN [heap |-> message.heap, types |-> message.types]
  ELSE reading.expected

Covered == DOMAIN Receiver.types

CoercedArg(i) ==
  IF i \notin DOMAIN message.types THEN {}
  ELSE Coerced(Receiver.heap, Receiver.types[i], message.heap, message.types[i], message.values[i])

AlikeArg(i) ==
  Alike(Receiver.heap, Receiver.types[i], message.heap, message.types[i], message.values[i])

-----------------------------------------------------------------------------
(* The names decode evaluates are finite: those in the wire's table and     *)
(* those of the expected types.                                             *)
NamesEnd ==
  /\ \A table \in {DecodeTable(wire, 1).val} : \A t \in DOMAIN table : HasName(table, t)
  /\ \A t \in ToSet(reading.expected.types) : HasName(reading.expected.heap, t)

(* A message is put on the wire as bytes, and a reading of it by a receiver *)
(* is a success or a failure at a position within the bytes or right behind *)
(* them.                                                                    *)
TypeOK ==
  /\ message \in Messages
  /\ \A i \in DOMAIN wire : wire[i] \in Bytes
  /\ \/ reading = NoReading
     \/ /\ reading.expected \in Expected
        /\ reading.result.ok \in BOOLEAN
        /\ reading.result.at \in 1 .. Len(wire) + 1

(* A receiver whose types agree with the sender's (the same ones, nat read  *)
(* as int, fields missing or extra, more variants) gets what was sent, and  *)
(* nothing is left of the bytes if it asks for all of the arguments:        *)
(* the type table, the numbers, the merge of the fields and the skipping of *)
(* unknown ones fit together.                                               *)
CompatibleIsRead ==
  (reading # NoReading /\ NamesEnd /\ \A i \in Covered : CoercedArg(i) # {} /\ AlikeArg(i)) =>
    /\ reading.result.ok
    /\ Len(reading.result.val) = Cardinality(Covered)
    /\ \A i \in Covered : reading.result.val[i] \in CoercedArg(i)
    /\ Covered = DOMAIN message.types => reading.result.at = Len(wire) + 1

(* Where the constructors agree, in an argument and in those that are read   *)
(* before it, a receiver never gets a value the types do not agree on:      *)
(* another primitive, a mandatory field that was not sent, a variant it     *)
(* does not know, an argument that was not sent.                            *)
IncompatibleIsRefused ==
  (reading # NoReading /\ reading.result.ok) =>
    \A i \in Covered :
      /\ i \in DOMAIN message.types
      /\ (\A j \in 1 .. i : AlikeArg(j)) => CoercedArg(i) # {}

(* Every constructed type has one entry in the table, also one that is used *)
(* in several places, through several RecClass objects or inside itself.    *)
TableIsMinimal ==
  wire # << >> =>
    DecodeU(wire, 1).val = Cardinality(Reached(message.heap, message.types))
-----------------------------------------------------------------------------
(* "Type-safe Candid encoding/decoding" (README.md:33): a receiver whose    *)
(* constructors differ from the sender's is refused.                        *)
MismatchIsRefused ==
  (reading # NoReading /\ reading.result.ok) =>
    \A i \in Covered : AlikeArg(i)

(* "Full support for all Candid primitives, composite types, and recursive  *)
(* types" (ROADMAP.md:83): a receiver whose types agree with the sender's   *)
(* gets what was sent, whatever types they are.                             *)
RecursiveIsRead ==
  (reading # NoReading /\ \A i \in Covered : CoercedArg(i) # {}) => reading.result.ok
=============================================================================
