--------------------------- MODULE DeclaredCanister ---------------------------
(***************************************************************************)
(* The canister of a DID: Canister with the loader of Did, and what a DID  *)
(* declares.  By UsableIsBound and CallsAsNamed, which hold of every       *)
(* loader, a canister that loads its DID as declared is called as          *)
(* declared.                                                               *)
(***************************************************************************)
EXTENDS Canister, Did

CONSTANT Unfoldings   \* how deep types are compared

ASSUME UnfoldingsAssumption == Unfoldings \in Nat

(* load_did_source, of every DID that parse_did does not refuse *)
Loader == [p \in {q \in Programs : Parses(q)} \X Wheels |-> LoadDidSource(p[1], p[2])]

ASSUME LoaderAssumption == Load = Loader

Labels == [n : Nat] \cup [name : [word : STRING] \cup [digits : Nat]]

(* The types that candid_parser makes *)
IsType(t) ==
  \/ t.con = "prim" /\ t.prim \in Prims
  \/ t.con = "principal"
  \/ t.con = "id" /\ t.name \in STRING
  \/ t.con \in {"opt", "vec"}
  \/ /\ t.con \in {"record", "variant"}
     /\ t.fields \in Seq([label : Labels, type : {t.fields[i].type : i \in DOMAIN t.fields}])
  \/ /\ t.con = "func"
     /\ t.args \in Seq(ToSet(t.args)) /\ t.rets \in Seq(ToSet(t.rets))
     /\ t.modes \in Seq({"query", "composite_query", "oneway"})
  \/ t.con = "service" /\ t.methods \in Seq(ToSet(t.methods))

(* A DID is made of types that nest as deep as MaxDepth says at most, and an *)
(* actor is a service or the name of one.                                    *)
ASSUME ProgramsAssumption ==
  \A p \in {q \in Programs : Parses(q)} :
    /\ p.decs \in Seq(ToSet(p.decs))
    /\ p.actor # NoActor => Serv(p.actor).con \in {"service", "id"}
    /\ \A t \in TypesOf(p) : IsType(t) /\ Parts(t) \subseteq TypesOf(p)
-----------------------------------------------------------------------------
(* Where a link from x leads, and n of them, or as many as there are *)
Linked(links, x) == IF x \in DOMAIN links THEN links[x] ELSE x

Through(links, n, x) ==
  LET end[k \in 0 .. n] == IF k = 0 THEN x ELSE Linked(links, end[k - 1])
  IN  end[n]

(* What a type is by the declarations alone: a name is what it is declared   *)
(* to be.                                                                    *)
Links(prog) ==
  [t \in {x \in TypesOf(prog) : x.con = "id" /\ DeclaredAt(prog.decs, x.name) # {}} |->
     Definition(prog.decs, t.name)]

Denoted(prog, t) == Through(Links(prog), Len(prog.decs), t)

(* A DID's methods are its service's, or its last service type's when it has *)
(* none, as did_loader.py promises.                                          *)
Interface(prog) ==
  LET services == {i \in DOMAIN prog.decs : prog.decs[i].type.con = "service"}
  IN  IF prog.actor # NoActor THEN Denoted(prog, Serv(prog.actor)).methods
      ELSE IF services = {} THEN << >> ELSE prog.decs[Max(services)].type.methods

(* What the loader cannot carry: two fields of one label, and a name that is *)
(* a number.                                                                 *)
KeepsLabels(fields) ==
  /\ \A i, j \in DOMAIN fields : fields[i].label = fields[j].label => i = j
  /\ \A i \in DOMAIN fields : fields[i].label \notin [name : [digits : Nat]]

(* A DID that is valid and in which the loader drops nothing.  Every name is *)
(* declared once, and not in a circle; an actor is a service, and if it has  *)
(* no methods, no other service is declared; the methods of a service differ *)
(* in their names and are not declared by the name of a func type.           *)
Regular(prog) ==
  /\ \A i, j \in DOMAIN prog.decs : prog.decs[i].id = prog.decs[j].id => i = j
  /\ prog.actor # NoActor =>
       /\ Denoted(prog, Serv(prog.actor)).con = "service"
       /\ Interface(prog) = << >> =>
            \A i \in DOMAIN prog.decs : prog.decs[i].type.con # "service"
  /\ \A t \in TypesOf(prog) :
       /\ Denoted(prog, t).con # "id"
       /\ t.con \in {"record", "variant"} => KeepsLabels(t.fields)
       /\ t.con = "service" =>
            /\ \A i, j \in DOMAIN t.methods : t.methods[i].id = t.methods[j].id => i = j
            /\ \A i \in DOMAIN t.methods : t.methods[i].type.con = "func"
-----------------------------------------------------------------------------
(* RecClass.get_type, through the RecClass objects in a row *)
FilledWith ==
  [u \in {x \in DOMAIN loaded.objects : loaded.objects[x].con = "rec"} |->
     loaded.type_env[loaded.objects[u].name]]

GetType(u) == Through(FilledWith, Len(did.decs), u)

(* A declared type and a type object are of one form, and their parts are    *)
(* the same as far as is compared; a service is loaded without its methods.  *)
SameAll(below, ts, us) == DOMAIN ts = DOMAIN us /\ \A i \in DOMAIN ts : below[ts[i]][us[i]]

SameFields(below, fields, types) ==
  /\ {fields[i].label : i \in DOMAIN fields} = DOMAIN types
  /\ \A i \in DOMAIN fields : below[fields[i].type][types[fields[i].label]]

SameForm(below, t, u) ==
  /\ t.con = u.con
  /\ t.con = "prim" => t.prim = u.prim
  /\ t.con \in {"opt", "vec"} => below[t.type][u.type]
  /\ t.con \in {"record", "variant"} => SameFields(below, t.fields, u.fields)
  /\ t.con = "func" => /\ SameAll(below, t.args, u.args)
                       /\ SameAll(below, t.rets, u.rets)
                       /\ t.modes = u.annotations

(* Same[n][t][u]: unfolded n times *)
Same ==
  LET same[n \in 0 .. Unfoldings] == [t \in TypesOf(did) |-> [u \in DOMAIN loaded.objects |->
        n = 0 \/ SameForm(same[n - 1], Denoted(did, t), loaded.objects[GetType(u)])]]
  IN  same

(* A DID is loaded with the types it declares: those of its methods, in      *)
(* their order, and of its constructor's arguments, whatever is declared     *)
(* after its use, in terms of itself, or under a second name.                *)
LoadsAsDeclared ==
  loaded # None /\ Regular(did) =>
    /\ DOMAIN loaded.methods = DOMAIN Interface(did)
    /\ \A i \in DOMAIN loaded.methods :
         /\ loaded.methods[i].name = Interface(did)[i].id
         /\ SameForm(Same[Unfoldings], Interface(did)[i].type, loaded.methods[i].type)
    /\ SameAll(Same[Unfoldings], InitArgs(did.actor), loaded.arguments)
=============================================================================
