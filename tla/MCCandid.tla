------------------------------ MODULE MCCandid ------------------------------
(* Small heaps with every constructor, each recursive form and shared type  *)
(* objects; numbers on both sides of the ends of a LEB128 group.            *)
EXTENDS Candid

null == TypeIds.null
nat == TypeIds.nat
int == TypeIds.int
nat8 == TypeIds.nat8
text == TypeIds.text
reserved == TypeIds.reserved
principal == TypeIds.principal

Typed(heap, types) == [heap |-> heap, types |-> types]
With(typed, values) == [heap |-> typed.heap, types |-> typed.types, values |-> values]

(* opt record {1 : nat; 2 : the list} *)
ListType == Typed(0 :> Rec(1) @@ 1 :> Opt(2) @@ 2 :> Record(1 :> nat @@ 2 :> 0), <<0>>)
(* record {1 : nat; 2 : vec tree} *)
TreeType == Typed(0 :> Rec(1) @@ 1 :> Record(1 :> nat @@ 2 :> 2) @@ 2 :> Vec(0), <<0>>)
(* A vec of itself, through two RecClass objects *)
NestType == Typed(0 :> Rec(1) @@ 1 :> Rec(2) @@ 2 :> Vec(0), <<0>>)
PrimTypes == Typed(0 :> Vec(nat), <<nat, int, text, null>>)
VecNat == Typed(0 :> Vec(nat), <<0, nat>>)
OptNat == Typed(0 :> Opt(nat), <<0, nat>>)
(* One opt object in two fields and in the second argument *)
Shared(f) == Typed(0 :> Opt(nat) @@ 1 :> Record(1 :> 0 @@ 2 :> f @@ 3 :> 0), <<1, 0>>)
VariantType == Typed(0 :> Variant(1 :> nat @@ 2 :> 1 @@ 200 :> null) @@ 1 :> Vec(text), <<0>>)
RefTypes == Typed(0 :> Func(<<nat, 1>>, <<1>>) @@ 1 :> Opt(nat) @@ 2 :> Service(97 :> 0), <<0, principal, 2, 1>>)
Blob == Typed(0 :> Vec(nat8) @@ 1 :> Vec(0), <<0, 1>>)

Cell(n, rest) == List(<<Dict(1 :> Num(n) @@ 2 :> rest)>>)
Node(n, children) == Dict(1 :> Num(n) @@ 2 :> List(children))
Some(n) == List(<<Num(n)>>)

MCMessages ==
  { With(ListType, <<Cell(127, Cell(128, List(<< >>)))>>),
    With(ListType, <<List(<< >>)>>),
    With(TreeType, <<Node(1, <<Node(2, << >>), Node(300, <<Node(0, << >>)>>)>>)>>),
    With(NestType, <<List(<<List(<< >>), List(<<List(<< >>)>>)>>)>>),
    With(PrimTypes, <<Num(63), Num(-64), Text(<<97, 98>>), None>>),
    With(PrimTypes, <<Num(64), Num(64), Text(<< >>), None>>),
    With(PrimTypes, <<Num(16384), Num(-65), Text(<<97>>), None>>),
    With(VecNat, <<List(<<Num(5), Num(6)>>), Num(7)>>),
    With(VecNat, <<List(<<Num(5)>>), Num(128)>>),
    With(OptNat, <<Some(129), Num(3)>>),
    With(OptNat, <<List(<< >>), Num(3)>>),
    With(Shared(int), <<Dict(1 :> Some(1) @@ 2 :> Num(-1) @@ 3 :> List(<< >>)), Some(2)>>),
    With(Shared(text), <<Dict(1 :> Some(1) @@ 2 :> Text(<<97>>) @@ 3 :> Some(3)), Some(2)>>),
    With(VariantType, <<Tagged(1, Num(8))>>),
    With(VariantType, <<Tagged(2, List(<<Text(<<97>>), Text(<<98>>)>>))>>),
    With(VariantType, <<Tagged(200, None)>>),
    With(RefTypes, <<Ref(<<7>>), Ref(<<5, 1>>), Ref(<<8, 9>>), Some(0)>>),
    With(RefTypes, <<None, Ref(<<4>>), None, List(<< >>)>>),
    With(Blob, <<List(<<Num(255), Num(0)>>), List(<<List(<< >>), List(<<Num(1)>>)>>)>>) }

(* The same types, none, and types that agree in part or not at all *)
MCExpected ==
  { Typed(0 :> Vec(nat), << >>),
    ListType, TreeType, NestType, PrimTypes, VecNat, OptNat, Shared(int), VariantType, RefTypes, Blob,
    Typed(0 :> Opt(int), <<int, int>>),
    Typed(0 :> Vec(int), <<0, int>>),
    Typed(0 :> Vec(nat), <<nat, reserved, reserved>>),
    Typed(0 :> Vec(nat), <<reserved, reserved>>),
    Typed(0 :> Vec(reserved), <<0>>),
    Typed(0 :> Vec(nat), <<nat, nat, text, null>>),
    Typed(0 :> Vec(nat), <<nat, nat, text, null, nat>>),
    (* narrower, wider, and wider by a field that must be there *)
    Typed(0 :> Record(3 :> 1) @@ 1 :> Opt(nat), <<0, 1>>),
    Typed(0 :> Record(2 :> reserved @@ 4 :> 1 @@ 5 :> reserved) @@ 1 :> Rec(2) @@ 2 :> Opt(nat), <<0, 1>>),
    Typed(0 :> Record(1 :> 1 @@ 4 :> nat) @@ 1 :> Opt(nat), <<0>>),
    (* the list with one field more, and with nothing but the chain *)
    Typed(0 :> Rec(1) @@ 1 :> Opt(2) @@ 2 :> Record(0 :> 3 @@ 1 :> int @@ 2 :> 0) @@ 3 :> Opt(text), <<0>>),
    Typed(0 :> Rec(1) @@ 1 :> Opt(2) @@ 2 :> Record(2 :> 0), <<0>>),
    (* the tree's root and its children's roots *)
    Typed(0 :> Record(1 :> int @@ 2 :> 1) @@ 1 :> Vec(2) @@ 2 :> Record(1 :> nat), <<0>>),
    Typed(0 :> Variant(1 :> int @@ 2 :> 1 @@ 3 :> text @@ 200 :> reserved) @@ 1 :> Vec(text), <<0>>),
    Typed(0 :> Variant(1 :> text @@ 200 :> null), <<0>>) }

(* A list of numbers and a number for a receiver of an optional number and a number,  *)
(* and the tree for a receiver of the same tree                             *)
ShiftedMessages == {With(VecNat, <<List(<<Num(5), Num(6)>>), Num(7)>>)}
ShiftedExpected == {OptNat}
TreeMessages == {With(TreeType, <<Node(1, <<Node(2, << >>)>>)>>)}
TreeExpected == {TreeType}

(* The values in a value, and the value *)
RECURSIVE Inside(_)
Inside(v) ==
  {v} \cup CASE v[1] = "list"   -> UNION {Inside(v[2][i]) : i \in DOMAIN v[2]}
             [] v[1] = "dict"   -> UNION {Inside(v[2][h]) : h \in DOMAIN v[2]}
             [] v[1] = "tagged" -> Inside(v[3])
             [] OTHER           -> {}

MCValues ==
  UNION {UNION {Inside(msg.values[i]) : i \in DOMAIN msg.values} :
           msg \in MCMessages \cup ShiftedMessages \cup TreeMessages}
=============================================================================
