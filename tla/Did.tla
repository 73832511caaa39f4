--------------------------------- MODULE Did ---------------------------------
(***************************************************************************)
(* From a DID to type objects: lib.rs turns the syntax tree of a DID into  *)
(* JSON, did_loader.py the JSON into the types of candid.py.  The nodes of *)
(* the JSON and the type objects are two heaps, [references -> nodes]: a   *)
(* node, and the object made of it, is referred to by the syntax tree that *)
(* it was converted from, and to convert or parse a part is to refer to it.*)
(* A declared name becomes one RecClass object, here its entry of type_env.*)
(***************************************************************************)
EXTENDS SequencesExt, Integers

CONSTANT MaxDepth   \* how deep the types of a DID nest

ASSUME DepthAssumption == MaxDepth \in Nat

(* The syntax tree, an IDLType and its parts *)
PrimT(prim)           == [con |-> "prim", prim |-> prim]
PrincipalT            == [con |-> "principal"]
VarT(name)            == [con |-> "id", name |-> name]
OptT(type)            == [con |-> "opt", type |-> type]
VecT(type)            == [con |-> "vec", type |-> type]
RecordT(fields)       == [con |-> "record", fields |-> fields]
VariantT(fields)      == [con |-> "variant", fields |-> fields]
FuncT(args, rets, ms) == [con |-> "func", args |-> args, rets |-> rets, modes |-> ms]
ServT(ms)             == [con |-> "service", methods |-> ms]
ClassT(args, serv)    == [con |-> "class", args |-> args, serv |-> serv]

Binding(id, type)     == [id |-> id, type |-> type]

(* A declaration is a type definition or an import. *)
TypD(id, type)        == [dec |-> "type", id |-> id, type |-> type]
Import(path)          == [dec |-> "import", id |-> path]

NoActor == [con |-> "none"]
Prog(decs, actor)     == [decs |-> decs, actor |-> actor]

(* A text the parser refuses *)
Garbled == Prog(<< >>, [con |-> "garbled"])

(* A text is digits or a word. *)
Digits(n) == [digits |-> n]
Word(w)   == [word |-> w]

(* A label is a number or a name; a tuple's labels are 0, 1, ... *)
Number(n)  == [n |-> n]
Name(text) == [name |-> text]
Field(label, type) == [label |-> label, type |-> type]

(* What an actor serves, and what its constructor takes *)
Serv(actor)     == IF actor.con = "class" THEN actor.serv ELSE actor
InitArgs(actor) == IF actor.con = "class" THEN actor.args ELSE << >>

(* The types that a type is made of *)
Parts(t) ==
  CASE t.con \in {"opt", "vec"}        -> {t.type}
    [] t.con \in {"record", "variant"} -> {t.fields[i].type : i \in DOMAIN t.fields}
    [] t.con = "func"                  -> ToSet(t.args) \cup ToSet(t.rets)
    [] t.con = "service"               -> {t.methods[i].type : i \in DOMAIN t.methods}
    [] OTHER                           -> {}

(* The types in a DID that has no imports *)
Roots(prog) ==
  {prog.decs[i].type : i \in DOMAIN prog.decs}
    \cup ToSet(InitArgs(prog.actor)) \cup ({Serv(prog.actor)} \ {NoActor})

TypesOf(prog) ==
  LET within[d \in 0 .. MaxDepth] ==
        IF d = 0 THEN Roots(prog) ELSE within[d - 1] \cup UNION {Parts(t) : t \in within[d - 1]}
  IN  within[MaxDepth]
-----------------------------------------------------------------------------
(* convert_type and convert_method.  Wheels from before the correction of    *)
(* mode_to_string write the name of a mode without its underscore.           *)
ModeToString(mode, wheel) ==
  IF mode = "composite_query" /\ wheel = "old" THEN "compositequery" ELSE mode

LabelToString(label) == IF "n" \in DOMAIN label THEN Digits(label.n) ELSE label.name

Modes(modes, wheel) == [i \in DOMAIN modes |-> ModeToString(modes[i], wheel)]

(* A method whose type is a name has no arguments, results or modes. *)
ConvertMethod(m, wheel) ==
  IF m.type.con = "func"
  THEN [name |-> m.id, args |-> m.type.args, rets |-> m.type.rets,
        modes |-> Modes(m.type.modes, wheel)]
  ELSE [name |-> m.id, args |-> << >>, rets |-> << >>, modes |-> << >>]

ConvertMethods(ms, wheel) == [i \in DOMAIN ms |-> ConvertMethod(ms[i], wheel)]

ConvertFields(fields) ==
  [i \in DOMAIN fields |-> <<LabelToString(fields[i].label), fields[i].type>>]

ConvertType(t, wheel) ==
  CASE t.con = "prim"      -> [type |-> "Prim", value |-> t.prim]
    [] t.con = "principal" -> [type |-> "Principal", value |-> "null"]
    [] t.con = "id"        -> [type |-> "Id", value |-> t.name]
    [] t.con = "opt"       -> [type |-> "Opt", value |-> t.type]
    [] t.con = "vec"       -> [type |-> "Vec", value |-> t.type]
    [] t.con = "record"    -> [type |-> "Record", value |-> ConvertFields(t.fields)]
    [] t.con = "variant"   -> [type |-> "Variant", value |-> ConvertFields(t.fields)]
    [] t.con = "func"      -> [type |-> "Func", value |-> [args |-> t.args, rets |-> t.rets,
                                                           modes |-> Modes(t.modes, wheel)]]
    [] t.con = "service"   -> [type |-> "Service", value |-> ConvertMethods(t.methods, wheel)]

(* The declarations of a name, and the first one's type *)
DeclaredAt(decs, name) == {i \in DOMAIN decs : decs[i].id = name}
Definition(decs, name) == decs[Min(DeclaredAt(decs, name))].type

NoEntry == [methods |-> << >>, init |-> << >>]

(* lookup_service_type: below looks up the name that a name stands for. *)
LookupName(decs, below, name, init, wheel) ==
  LET type == Definition(decs, name)
  IN  CASE DeclaredAt(decs, name) = {} -> NoEntry
        [] DeclaredAt(decs, name) # {} /\ type.con = "service" ->
             [methods |-> ConvertMethods(type.methods, wheel), init |-> init]
        [] DeclaredAt(decs, name) # {} /\ type.con = "id" -> below[type.name]
        [] OTHER -> NoEntry

(* A name is met once at most: they do not go round in a circle. *)
LookupServiceType(decs, name, init, wheel) ==
  LET entry[k \in 0 .. Len(decs)] == [x \in STRING |->
        IF k = 0 THEN NoEntry ELSE LookupName(decs, entry[k - 1], x, init, wheel)]
  IN  entry[Len(decs)][name]

(* The actor of parse_did *)
ActorEntry(prog, wheel) ==
  LET serv == Serv(prog.actor)
      init == InitArgs(prog.actor)
  IN  CASE serv.con = "service" -> [methods |-> ConvertMethods(serv.methods, wheel), init |-> init]
        [] serv.con = "id"      -> LookupServiceType(prog.decs, serv.name, init, wheel)
        [] OTHER                -> NoEntry

(* parse_did raises what this does not admit. *)
Importing(prog) == \E i \in DOMAIN prog.decs : prog.decs[i].dec = "import"
Parses(prog) == prog.actor.con # "garbled" /\ ~Importing(prog)

Env(prog) == [i \in DOMAIN prog.decs |-> [name |-> prog.decs[i].id, datatype |-> prog.decs[i].type]]

ParseDid(prog, wheel) ==
  [nodes |-> [t \in TypesOf(prog) |-> ConvertType(t, wheel)],
   env   |-> Env(prog),
   actor |-> ActorEntry(prog, wheel)]
-----------------------------------------------------------------------------
(* The types of candid.py, as far as they are built here.  A RecClass that   *)
(* is no entry of type_env is never filled.                                  *)
Rec(name) == [con |-> "rec", name |-> name]
Unfilled  == [con |-> "unfilled"]

(* Canonical modes; anything else is passed through. *)
NormalizeModes(modes) ==
  [i \in DOMAIN modes |-> IF modes[i] = "compositequery" THEN "composite_query" ELSE modes[i]]

Prims == {"nat", "int", "text", "bool", "null", "float64", "float32", "nat8", "nat16", "nat32",
          "nat64", "int8", "int16", "int32", "int64", "empty", "reserved"}

PrimType(t) == [con |-> "prim", prim |-> IF t \in Prims THEN t ELSE "null"]

(* A label of digits is a number. *)
Key(k) == IF "digits" \in DOMAIN k THEN Number(k.digits) ELSE Name(k)

(* A Python dict: of equal keys the last one counts. *)
ParseFields(items) ==
  [key \in {Key(items[i][1]) : i \in DOMAIN items} |->
     items[Max({i \in DOMAIN items : Key(items[i][1]) = key})][2]]

FuncType(f) ==
  [con |-> "func", args |-> f.args, rets |-> f.rets, annotations |-> NormalizeModes(f.modes)]

(* _parse_json_type, with the names that type_env holds *)
ParseJsonType(names, node) ==
  CASE node.type = "Prim"      -> PrimType(node.value)
    [] node.type = "Principal" -> [con |-> "principal"]
    [] node.type = "Opt"       -> [con |-> "opt", type |-> node.value]
    [] node.type = "Vec"       -> [con |-> "vec", type |-> node.value]
    [] node.type = "Record"    -> [con |-> "record", fields |-> ParseFields(node.value)]
    [] node.type = "Variant"   -> [con |-> "variant", fields |-> ParseFields(node.value)]
    [] node.type = "Id"        -> IF node.value \in names THEN Rec(node.value) ELSE Unfilled
    [] node.type = "Func"      -> FuncType(node.value)
    [] node.type = "Service"   -> [con |-> "service"]

(* Mutant: the last entry is not declared before the types are filled. *)
EnteredButLast(env) == {env[i].name : i \in 1 .. Len(env) - 1}

(* The names in type_env while the types are filled: all of them *)
Entered(env) == {env[i].name : i \in DOMAIN env}

(* What the entries are filled with: of equal names the last one counts. *)
TypeEnv(env) ==
  [name \in {env[i].name : i \in DOMAIN env} |->
     env[Max({i \in DOMAIN env : env[i].name = name})].datatype]

(* The methods of the actor; when there are none, of the last service type *)
MethodNodes(data) ==
  LET services == {i \in DOMAIN data.env : data.nodes[data.env[i].datatype].type = "Service"}
  IN  CASE data.actor.methods # << >> -> data.actor.methods
        [] data.actor.methods = << >> /\ services # {} ->
             data.nodes[data.env[Max(services)].datatype].value
        [] OTHER -> << >>

(* The dict of the methods: of equal names the last one counts, in the place *)
(* of the first.                                                             *)
MethodsByName(nodes) ==
  LET firsts   == {i \in DOMAIN nodes : \A j \in DOMAIN nodes : j < i => nodes[j].name # nodes[i].name}
      first(k) == CHOOSE i \in firsts : Cardinality({j \in firsts : j <= i}) = k
      last(i)  == Max({j \in DOMAIN nodes : nodes[j].name = nodes[i].name})
  IN  [k \in 1 .. Cardinality(firsts) |-> nodes[last(first(k))]]

(* load_did_source: the type objects, the entries of type_env, the           *)
(* constructor's arguments, and the methods in the order of the dict         *)
LoadDidSource(prog, wheel) ==
  LET data  == ParseDid(prog, wheel)
      names == Entered(data.env)
      nodes == MethodsByName(MethodNodes(data))
  IN  [objects   |-> [t \in DOMAIN data.nodes |-> ParseJsonType(names, data.nodes[t])],
       type_env  |-> TypeEnv(data.env),
       arguments |-> data.actor.init,
       methods   |-> [i \in DOMAIN nodes |-> [name |-> nodes[i].name,
                                              type |-> FuncType(nodes[i])]]]
=============================================================================
