---------------------------- MODULE CanisterProofs ----------------------------
(***************************************************************************)
(* Proofs about Canister: what is bound under which name, and what a call  *)
(* reaches, for every DID and every sequence of calls.  They ask of what   *)
(* is loaded no more than that methods are sequences (LoadAssumption).     *)
(* Then about DeclaredCanister, whose loader is Did's (LoaderAssumption):  *)
(* what is loaded is what the DID declares.                                *)
(***************************************************************************)
EXTENDS DeclaredCanister, InductionLemmas, FiniteSetTheorems

(* The name under which the loop binds the i-th method *)
NameOf(i, async) ==
  IF async THEN AsyncName(loaded.methods[i].name) ELSE loaded.methods[i].name

(* The binding of methods starts when a DID is loaded and ends with the last *)
(* of them.                                                                  *)
Phases ==
  /\ pc \in {"new", "public", "private"} =>
       loaded = None /\ bound = 0 /\ methods = {}
  /\ loaded = None => bound = 0 /\ attrs = [name \in OwnAttributes |-> Own]
  /\ pc = "binding" => loaded # None /\ bound < Len(loaded.methods)
  /\ pc = "ready" /\ loaded # None => bound = Len(loaded.methods)
  /\ pc # "ready" => sent = None
  /\ bound \in Nat
  /\ loaded # None => <<did, wheel>> \in DOMAIN Load

(* An attribute is the instance's own or a method bound under its name. *)
Named ==
  \A x \in DOMAIN attrs :
    \/ attrs[x] = Own /\ x \in OwnAttributes
    \/ /\ loaded # None
       /\ \E i \in 1..bound, async \in BOOLEAN :
            attrs[x] = Bound(i, async) /\ x = NameOf(i, async)

(* A usable interface replaces no attribute, neither the instance's own nor *)
(* one bound before.                                                        *)
Kept ==
  loaded # None /\ Usable(loaded.methods) =>
    /\ pc # "failed"
    /\ \A x \in OwnAttributes : x \in DOMAIN attrs /\ attrs[x] = Own
    /\ \A i \in 1..bound, async \in BOOLEAN :
         NameOf(i, async) \in DOMAIN attrs /\ attrs[NameOf(i, async)] = Bound(i, async)

(* self.methods is looked up on every turn. *)
OwnMethods == <<"methods">> \in DOMAIN attrs

IInv == TypeOK /\ Phases /\ Named /\ OwnMethods /\ Kept /\ CallsAsNamed
-----------------------------------------------------------------------------
(* What is loaded is a sequence of methods with names. *)
LEMMA LoadedMethods ==
  ASSUME NEW p \in DOMAIN Load
  PROVE  /\ Load[p].methods \in Seq(ToSet(Load[p].methods))
         /\ Len(Load[p].methods) \in Nat
         /\ DOMAIN Load[p].methods = 1 .. Len(Load[p].methods)
         /\ \A i \in DOMAIN Load[p].methods : Load[p].methods[i].name \in Seq(STRING)
BY LoadAssumption DEF LoadAssumption

(* A name and its async name: the suffix is a word of its own. *)
LEMMA AsyncNames ==
  ASSUME NEW m \in Seq(STRING), NEW n \in Seq(STRING)
  PROVE  /\ AsyncName(m) = AsyncName(n) => m = n
         /\ AsyncName(m) # m
         /\ AsyncName(m) \notin OwnAttributes
<1>1. Len(AsyncName(m)) = Len(m) + 1 /\ Len(AsyncName(n)) = Len(n) + 1
  BY DEF AsyncName
<1>2. AsyncName(m) # m
  BY <1>1
<1>3. ASSUME AsyncName(m) = AsyncName(n) PROVE m = n
  <2>1. Len(m) = Len(n)
    BY <1>1, <1>3
  <2>2. \A i \in 1 .. Len(m) : AsyncName(m)[i] = m[i] /\ AsyncName(n)[i] = n[i]
    BY <2>1 DEF AsyncName
  <2>3. \A i \in 1 .. Len(m) : m[i] = n[i]
    BY <1>3, <2>2
  <2>4. QED  BY <2>1, <2>3
<1>4. AsyncName(m)[Len(m) + 1] = "async"
  BY DEF AsyncName
<1>5. AsyncName(m) \notin OwnAttributes
  <2> SUFFICES ASSUME AsyncName(m) \in OwnAttributes PROVE FALSE
    OBVIOUS
  <2>1. Len(AsyncName(m)) = 1
    BY DEF OwnAttributes
  <2>2. AsyncName(m)[1] = "async"
    BY <1>1, <1>4, <2>1
  <2>3. QED  BY <2>2 DEF OwnAttributes
<1>6. QED  BY <1>2, <1>3, <1>5
-----------------------------------------------------------------------------
(***************************************************************************)
(* The inductive invariant.                                                *)
(***************************************************************************)
LEMMA InitIInv == Init => IInv
<1> SUFFICES ASSUME Init PROVE IInv
  OBVIOUS
<1>1. TypeOK
  <2>1. Own.method = 0 /\ Own.async \in BOOLEAN
    BY DEF Own, Bound
  <2>2. \A name \in DOMAIN attrs : attrs[name].method \in 0 .. bound /\ attrs[name].async \in BOOLEAN
    BY <2>1 DEF Init
  <2>3. QED  BY <2>2 DEF Init, TypeOK
<1>2. Phases /\ Named /\ OwnMethods
  BY DEF Init, Phases, Named, OwnMethods, OwnAttributes
<1>3. Kept /\ CallsAsNamed
  BY DEF Init, Kept, CallsAsNamed
<1>4. QED  BY <1>1, <1>2, <1>3 DEF IInv

(* A DID is parsed before anything is bound. *)
LEMMA ParseIInv ==
  ASSUME IInv, pc \in {"new", "public", "private"}, NEW text \in Programs, Parse(text),
         UNCHANGED <<wheel, bound, methods, attrs, call, sent>>
  PROVE  IInv'
<1> USE DEF Parse
<1>1. /\ loaded = None /\ bound = 0 /\ methods = {} /\ sent = None
      /\ attrs = [name \in OwnAttributes |-> Own]
  BY DEF IInv, Phases
<1>2. pc' \in {"binding", "failed"}
  OBVIOUS
<1>3. ASSUME loaded' # None
      PROVE  /\ <<text, wheel>> \in DOMAIN Load
             /\ loaded' = Load[<<text, wheel>>]
             /\ Len(loaded'.methods) \in Nat
             /\ pc' = "binding" => Len(loaded'.methods) > 0
  BY <1>3, LoadedMethods
<1>4. TypeOK'
  BY <1>1, <1>2, <1>3 DEF IInv, TypeOK
<1>5. Phases'
  BY <1>1, <1>2, <1>3 DEF IInv, Phases
<1>6. Named'
  BY <1>1 DEF Named
<1>7. OwnMethods'
  BY DEF IInv, OwnMethods
<1>8. Kept'
  BY <1>1, <1>2 DEF Kept, Usable
<1>9. CallsAsNamed'
  BY <1>1 DEF CallsAsNamed
<1>10. QED  BY <1>4, <1>5, <1>6, <1>7, <1>8, <1>9 DEF IInv

(* One turn of the loop. *)
LEMMA BindAttrs ==
  ASSUME IInv, Bind, attrs[<<"methods">>] = Own
  PROVE  /\ \A async \in BOOLEAN : NameOf(bound + 1, async) \in DOMAIN attrs'
         /\ DOMAIN attrs \subseteq DOMAIN attrs'
         /\ \A x \in DOMAIN attrs' :
              \/ \E async \in BOOLEAN : /\ x = NameOf(bound + 1, async)
                                      /\ attrs'[x] = Bound(bound + 1, async)
              \/ /\ \A async \in BOOLEAN : x # NameOf(bound + 1, async)
                 /\ x \in DOMAIN attrs
                 /\ attrs'[x] = attrs[x]
<1> DEFINE n == loaded.methods[bound + 1].name
<1>1. attrs' = SetAttr(SetAttr(attrs, n, Bound(bound + 1, FALSE)),
                       AsyncName(n), Bound(bound + 1, TRUE))
  BY DEF Bind, CreateMethod
<1>2. NameOf(bound + 1, TRUE) = AsyncName(n) /\ NameOf(bound + 1, FALSE) = n
  BY DEF NameOf
<1> HIDE DEF n
<1>3. DOMAIN attrs' = {AsyncName(n), n} \cup DOMAIN attrs
  BY <1>1 DEF SetAttr
<1>4. \A x \in DOMAIN attrs' :
        attrs'[x] = IF x = AsyncName(n) THEN Bound(bound + 1, TRUE)
                    ELSE IF x = n THEN Bound(bound + 1, FALSE) ELSE attrs[x]
  BY <1>1 DEF SetAttr
<1>5. QED  BY <1>2, <1>3, <1>4

(* A usable interface has no two names alike, and none of the instance's. *)
LEMMA UsableNames ==
  ASSUME IInv, loaded # None, Usable(loaded.methods),
         NEW i \in DOMAIN loaded.methods, NEW async \in BOOLEAN
  PROVE  /\ NameOf(i, async) \notin OwnAttributes
         /\ \A j \in DOMAIN loaded.methods, a \in BOOLEAN :
              NameOf(i, async) = NameOf(j, a) => i = j /\ async = a
<1>1. loaded = Load[<<did, wheel>>] /\ <<did, wheel>> \in DOMAIN Load
  BY DEF IInv, TypeOK, Phases
<1>2. \A k \in DOMAIN loaded.methods : loaded.methods[k].name \in Seq(STRING)
  BY <1>1, LoadedMethods
<1> DEFINE n(k) == loaded.methods[k].name
<1>3. \A k, l \in DOMAIN loaded.methods :
        /\ n(k) = n(l) => k = l
        /\ n(k) \notin OwnAttributes
        /\ n(k) # AsyncName(n(l))
  BY DEF Usable
<1>4. \A k, l \in DOMAIN loaded.methods :
        /\ AsyncName(n(k)) = AsyncName(n(l)) => n(k) = n(l)
        /\ AsyncName(n(k)) \notin OwnAttributes
  BY <1>2, AsyncNames
<1>5. \A k \in DOMAIN loaded.methods, a \in BOOLEAN :
        NameOf(k, a) = IF a THEN AsyncName(n(k)) ELSE n(k)
  BY DEF NameOf
<1> HIDE DEF n
<1>6. QED  BY <1>3, <1>4, <1>5

LEMMA BindIInv == IInv /\ Bind => IInv'
<1> SUFFICES ASSUME IInv, Bind PROVE IInv'
  OBVIOUS
<1>1. /\ pc = "binding" /\ loaded # None /\ sent = None /\ bound \in Nat
      /\ <<did, wheel>> \in DOMAIN Load
      /\ loaded = Load[<<did, wheel>>]
      /\ bound < Len(loaded.methods)
      /\ UNCHANGED <<wheel, did, loaded, call, sent>>
  BY DEF IInv, TypeOK, Phases, Bind
<1>2. Len(loaded.methods) \in Nat /\ DOMAIN loaded.methods = 1 .. Len(loaded.methods)
  BY <1>1, LoadedMethods
<1>3. bound + 1 \in DOMAIN loaded.methods
  BY <1>1, <1>2
<1>4. \A i, async : NameOf(i, async)' = NameOf(i, async)
  BY <1>1 DEF NameOf
<1>5. CallsAsNamed'
  BY <1>1 DEF CallsAsNamed
<1>6. CASE attrs[<<"methods">>] = Own
  <2>1. /\ bound' = bound + 1
        /\ methods' = methods \cup {loaded.methods[bound + 1].name}
        /\ pc' = IF bound' = Len(loaded.methods) THEN "ready" ELSE pc
    BY <1>6 DEF Bind
  <2>2. TypeOK'
    <3>1. bound' \in Nat /\ bound' <= Len(loaded.methods) /\ 1 .. bound' = 1 .. bound \cup {bound'}
      BY <1>1, <1>2, <2>1
    <3>2. methods' = {loaded.methods[i].name : i \in 1 .. bound'}
      BY <1>1, <2>1, <3>1 DEF IInv, TypeOK
    <3>3. \A x \in DOMAIN attrs' : attrs'[x].method \in 0 .. bound' /\ attrs'[x].async \in BOOLEAN
      BY <1>1, <1>6, <2>1, BindAttrs DEF IInv, TypeOK, Bound
    <3>4. QED  BY <1>1, <2>1, <3>1, <3>2, <3>3 DEF IInv, TypeOK
  <2>3. Phases'
    BY <1>1, <1>2, <2>1 DEF Phases
  <2>4. Named'
    <3> SUFFICES ASSUME NEW x \in DOMAIN attrs'
                 PROVE  \/ attrs'[x] = Own /\ x \in OwnAttributes
                        \/ \E i \in 1 .. bound + 1, async \in BOOLEAN :
                             attrs'[x] = Bound(i, async) /\ x = NameOf(i, async)
      BY <1>1, <1>4, <2>1 DEF Named
    <3>1. CASE \E async \in BOOLEAN : /\ x = NameOf(bound + 1, async)
                                     /\ attrs'[x] = Bound(bound + 1, async)
      BY <1>1, <3>1
    <3>2. CASE x \in DOMAIN attrs /\ attrs'[x] = attrs[x]
      BY <1>1, <3>2 DEF IInv, Named
    <3>3. QED  BY <1>6, <3>1, <3>2, BindAttrs
  <2>5. OwnMethods'
    BY <1>6, BindAttrs DEF IInv, OwnMethods
  <2>6. Kept'
    <3> SUFFICES ASSUME Usable(loaded.methods)
                 PROVE  /\ pc' # "failed"
                        /\ \A x \in OwnAttributes : x \in DOMAIN attrs' /\ attrs'[x] = Own
                        /\ \A i \in 1 .. bound + 1, async \in BOOLEAN :
                             /\ NameOf(i, async) \in DOMAIN attrs'
                             /\ attrs'[NameOf(i, async)] = Bound(i, async)
      BY <1>1, <1>4, <2>1 DEF Kept
    <3>1. pc' # "failed"
      BY <1>1, <2>1
    <3>2. \A x \in OwnAttributes : x \in DOMAIN attrs' /\ attrs'[x] = Own
      BY <1>1, <1>3, <1>6, BindAttrs, UsableNames DEF IInv, Kept
    <3>3. ASSUME NEW i \in 1 .. bound + 1, NEW async \in BOOLEAN
          PROVE  NameOf(i, async) \in DOMAIN attrs' /\ attrs'[NameOf(i, async)] = Bound(i, async)
      <4>1. i \in DOMAIN loaded.methods
        BY <1>1, <1>2
      <4>2. CASE i = bound + 1
        BY <1>1, <1>3, <1>6, <4>2, BindAttrs, UsableNames
      <4>3. CASE i # bound + 1
        <5>1. i \in 1 .. bound
          BY <1>1, <4>3
        <5>2. NameOf(i, async) \in DOMAIN attrs /\ attrs[NameOf(i, async)] = Bound(i, async)
          BY <1>1, <5>1 DEF IInv, Kept
        <5>3. \A a \in BOOLEAN : NameOf(i, async) # NameOf(bound + 1, a)
          BY <1>1, <1>3, <4>1, <4>3, UsableNames
        <5>4. QED  BY <1>6, <5>2, <5>3, BindAttrs
      <4>4. QED  BY <4>2, <4>3
    <3>4. QED  BY <3>1, <3>2, <3>3
  <2>7. QED  BY <1>5, <2>2, <2>3, <2>4, <2>5, <2>6 DEF IInv
<1>7. CASE attrs[<<"methods">>] # Own
  <2>1. pc' = "failed" /\ UNCHANGED <<bound, methods, attrs>>
    BY <1>7 DEF Bind
  <2>2. ~Usable(loaded.methods)
    BY <1>1, <1>7 DEF IInv, Kept, OwnAttributes
  <2>3. TypeOK' /\ Phases' /\ OwnMethods'
    BY <1>1, <2>1 DEF IInv, TypeOK, Phases, OwnMethods
  <2>4. Named' /\ Kept'
    BY <1>1, <1>4, <2>1, <2>2 DEF IInv, Named, Kept
  <2>5. QED  BY <1>5, <2>3, <2>4 DEF IInv
<1>8. QED  BY <1>6, <1>7

(* A call that asks the agent for something asks for what its attribute's    *)
(* method is.                                                                *)
LEMMA CallIInv == ASSUME IInv, NEW c \in Calls, Call(c) PROVE IInv'
<1>1. /\ pc = "ready" /\ call' = c
      /\ UNCHANGED <<pc, wheel, did, loaded, bound, methods, attrs>>
  BY DEF Call
<1>2. \A i, async : NameOf(i, async)' = NameOf(i, async)
  BY <1>1 DEF NameOf
<1>3. Phases' /\ Named' /\ OwnMethods' /\ Kept'
  BY <1>1, <1>2 DEF IInv, Phases, Named, OwnMethods, Kept
<1>4. CASE sent' = None
  BY <1>1, <1>3, <1>4 DEF IInv, TypeOK, CallsAsNamed
<1>5. CASE sent' # None
  <2>1. c.attr \in DOMAIN attrs /\ ~ (c.attr \in OwnAttributes /\ attrs[c.attr] = Own)
        /\ sent' = Request(attrs[c.attr], c)
    BY <1>5 DEF Call
  <2>2. loaded # None
    BY <2>1 DEF IInv, Named
  <2>3. PICK i \in 1 .. bound, async \in BOOLEAN :
          attrs[c.attr] = Bound(i, async) /\ c.attr = NameOf(i, async)
    BY <2>1 DEF IInv, Named
  <2>4. attrs[c.attr].method = i /\ attrs[c.attr].async = async
    BY <2>3 DEF Bound
  <2>5. <<did, wheel>> \in DOMAIN Load /\ loaded = Load[<<did, wheel>>]
    BY <2>2 DEF IInv, TypeOK, Phases
  <2>6. i \in DOMAIN loaded.methods
    BY <2>2, <2>5, LoadedMethods DEF IInv, TypeOK, Phases
  <2> DEFINE method == loaded.methods[i]
             args == Arguments(c, method.type)
  <2>7. /\ sent' = [con    |-> Endpoint(method.type),
                   async  |-> async,
                   method |-> method.name,
                   arg    |-> [a \in DOMAIN args |-> [type |-> method.type.args[a], value |-> args[a]]],
                   rets   |-> method.type.rets]
        /\ Len(args) = Len(method.type.args)
    BY <1>5, <2>1, <2>4 DEF Request
  <2>8. \/ args = c.args
        \/ c.args = << >> /\ args = <<c.kwargs \ Control>>
    BY DEF Arguments
  <2>9. c.args \in Seq(ToSet(c.args))
    BY CallAssumption DEF CallAssumption
  <2>10. \E S : args \in Seq(S)
    <3>1. CASE args = c.args
      BY <2>9, <3>1
    <3>2. CASE args = <<c.kwargs \ Control>>
      <4>1. args \in Seq({c.kwargs \ Control})
        BY <3>2
      <4>2. QED  BY <4>1
    <3>3. QED  BY <2>8, <3>1, <3>2
  <2> HIDE DEF args
  <2>11. /\ Len(sent'.arg) = Len(args)
         /\ DOMAIN sent'.arg = DOMAIN args
         /\ [a \in DOMAIN sent'.arg |-> sent'.arg[a].value] = args
         /\ \A a \in DOMAIN sent'.arg : sent'.arg[a].type = method.type.args[a]
    <3>1. sent'.arg = [a \in DOMAIN args |-> [type |-> method.type.args[a], value |-> args[a]]]
      BY <2>7
    <3> DEFINE types == method.type.args
    <3> HIDE DEF types, method
    <3>2. PICK S : args \in Seq(S)
      BY <2>10
    <3>3. Len(args) \in Nat /\ DOMAIN args = 1 .. Len(args) /\ args = [a \in 1 .. Len(args) |-> args[a]]
      BY <3>2
    <3>4. DOMAIN sent'.arg = DOMAIN args
          /\ \A a \in DOMAIN args : sent'.arg[a].value = args[a] /\ sent'.arg[a].type = types[a]
      BY <3>1 DEF types
    <3>5. [a \in DOMAIN sent'.arg |-> sent'.arg[a].value] = args
      BY <3>3, <3>4
    <3>6. Len(sent'.arg) = Len(args)
      BY <3>1, <3>3
    <3>7. QED  BY <3>4, <3>5, <3>6 DEF types
  <2>12. Endpoint(method.type) =
           IF \E a \in DOMAIN method.type.annotations :
                method.type.annotations[a] \in {"query", "composite_query"}
           THEN "query" ELSE "update"
    BY DEF Endpoint, ToSet
  <2>13. CallsAsNamed'
    BY ZenonT(40), <1>1, <2>3, <2>6, <2>7, <2>8, <2>11, <2>12 DEF CallsAsNamed, NameOf
  <2>14. TypeOK'
    BY SMTT(30), <1>1, <2>7 DEF IInv, TypeOK, Endpoint
  <2>15. QED  BY <1>3, <2>13, <2>14 DEF IInv
<1>6. QED  BY <1>4, <1>5

LEMMA NextIInv == IInv /\ [Next]_vars => IInv'
<1> SUFFICES ASSUME IInv, [Next]_vars PROVE IInv'
  OBVIOUS
<1>1. CASE Given
  <2>1. PICK text \in Programs : Parse(text)
    BY <1>1 DEF Given
  <2>2. QED  BY <1>1, <2>1, ParseIInv DEF Given
<1>2. CASE Fetch
  BY <1>2 DEF Fetch, IInv, TypeOK, Phases, Named, NameOf, OwnMethods, Kept, CallsAsNamed
<1>3. CASE Bare
  BY <1>3 DEF Bare, IInv, TypeOK, Phases, Named, NameOf, OwnMethods, Kept, CallsAsNamed
<1>4. ASSUME NEW section \in {"public", "private"}, NEW next \in {"private", "failed"},
             ReadMetadata(section, next)
      PROVE  IInv'
  <2>1. CASE \E text \in Programs : Parse(text)
    <3>1. PICK text \in Programs : Parse(text)
      BY <2>1
    <3>2. QED  BY <1>4, <3>1, ParseIInv DEF ReadMetadata
  <2>2. CASE pc' = next /\ UNCHANGED <<did, loaded>>
    BY <1>4, <2>2 DEF ReadMetadata, IInv, TypeOK, Phases, Named, NameOf, OwnMethods, Kept, CallsAsNamed
  <2>3. QED  BY <1>4, <2>1, <2>2 DEF ReadMetadata
<1>5. CASE Bind
  BY <1>5, BindIInv
<1>6. CASE \E c \in Calls : Call(c)
  BY <1>6, CallIInv
<1>7. CASE UNCHANGED vars
  BY SMTT(30), <1>7 DEF vars, IInv, TypeOK, Phases, Named, NameOf, OwnMethods, Kept, CallsAsNamed
<1>8. QED
  BY <1>1, <1>2, <1>3, <1>4, <1>5, <1>6, <1>7 DEF Next, ReadPublic, ReadPrivate

LEMMA AlwaysIInv == Spec => []IInv
BY InitIInv, NextIInv, PTL DEF Spec

(* A loaded DID stays the one that was parsed, what is bound of it is the    *)
(* methods up to the loop's place, and every attribute is one of them or the *)
(* instance's own.                                                           *)
THEOREM CanisterTypes == Spec => []TypeOK
<1>1. IInv => TypeOK
  BY DEF IInv
<1>2. QED  BY <1>1, AlwaysIInv, PTL

(* Whatever a loader returns, a DID whose methods have names of their own    *)
(* makes a canister, with every method under both of its names.              *)
THEOREM UsableBound == Spec => []UsableIsBound
<1>1. IInv => UsableIsBound
  <2> SUFFICES ASSUME IInv, loaded # None, Usable(loaded.methods)
               PROVE  /\ pc # "failed"
                      /\ pc = "ready" =>
                           \A i \in DOMAIN loaded.methods :
                             /\ loaded.methods[i].name \in DOMAIN attrs
                             /\ AsyncName(loaded.methods[i].name) \in DOMAIN attrs
                             /\ attrs[loaded.methods[i].name] = Bound(i, FALSE)
                             /\ attrs[AsyncName(loaded.methods[i].name)] = Bound(i, TRUE)
    BY DEF UsableIsBound
  <2>1. pc # "failed"
    BY DEF IInv, Kept
  <2>2. ASSUME pc = "ready", NEW i \in DOMAIN loaded.methods
        PROVE  \A async \in BOOLEAN : NameOf(i, async) \in DOMAIN attrs
                                    /\ attrs[NameOf(i, async)] = Bound(i, async)
    <3>1. i \in 1 .. bound
      BY <2>2, LoadedMethods DEF IInv, TypeOK, Phases
    <3>2. QED  BY <3>1 DEF IInv, Kept
  <2>3. \A i : NameOf(i, FALSE) = loaded.methods[i].name
            /\ NameOf(i, TRUE) = AsyncName(loaded.methods[i].name)
    BY DEF NameOf
  <2>4. QED  BY <2>1, <2>2, <2>3
<1>2. QED  BY <1>1, AlwaysIInv, PTL

(* Whatever the methods of a DID are called, and whichever of them replace   *)
(* each other or the instance's own attributes, a call that is made at all   *)
(* is one of the method that its attribute is named for.                     *)
THEOREM CallsNamed == Spec => []CallsAsNamed
<1>1. IInv => CallsAsNamed
  BY DEF IInv
<1>2. QED  BY <1>1, AlwaysIInv, PTL
-----------------------------------------------------------------------------
(* The loader.  A DID's types are closed, its names lead from one to another *)
(* (Links), and get_type goes through the entries of type_env as they do     *)
(* (FilledAsLinked).  An object has the form of its type when those of its   *)
(* parts have theirs (FormRead), so all have, to any depth (SameAsDeclared). *)

(* A DID's types are closed: those it declares, its constructor's arguments  *)
(* and its service, and what they are made of.                               *)
LEMMA TypesClosed ==
  ASSUME NEW p \in Programs, Parses(p)
  PROVE  /\ \A t \in TypesOf(p) : IsType(t) /\ Parts(t) \subseteq TypesOf(p)
         /\ \A i \in DOMAIN p.decs : p.decs[i].type \in TypesOf(p)
         /\ \A i \in DOMAIN InitArgs(p.actor) : InitArgs(p.actor)[i] \in TypesOf(p)
         /\ p.actor # NoActor => Serv(p.actor) \in TypesOf(p) /\ Serv(p.actor).con \in {"service", "id"}
         /\ p.decs \in Seq(ToSet(p.decs))
<1> DEFINE n == MaxDepth
           Grow(S) == S \cup UNION {Parts(t) : t \in S}
           Good(m, f) == f = [d \in 0 .. m |-> IF d = 0 THEN Roots(p) ELSE f[d - 1] \cup UNION {Parts(t) : t \in f[d - 1]}]
           T == {m \in 0 .. n : \E f : Good(m, f)}
           fn == CHOOSE f : Good(n, f)
<1>1. n \in Nat
  BY DepthAssumption
<1>2. TypesOf(p) = fn[n]
  BY DEF TypesOf
<1> HIDE DEF n, fn
<1>3. 0 \in T
  <2>1. Good(0, [d \in 0 .. 0 |-> Roots(p)])
    OBVIOUS
  <2> HIDE DEF Good
  <2>2. QED  BY <1>1, <2>1
<1>4. ASSUME NEW m \in 1 .. n, m - 1 \in T PROVE m \in T
  <2>1. PICK f : Good(m - 1, f)
    BY <1>4
  <2> DEFINE g == [d \in 0 .. m |-> IF d = m THEN Grow(f[m - 1]) ELSE f[d]]
  <2>2. ASSUME NEW d \in 0 .. m PROVE g[d] = IF d = 0 THEN Roots(p) ELSE Grow(g[d - 1])
    <3> HIDE DEF Grow
    <3>1. f = [e \in 0 .. m - 1 |-> IF e = 0 THEN Roots(p) ELSE Grow(f[e - 1])]
      BY <2>1 DEF Grow
    <3> HIDE DEF Good
    <3>2. QED  BY <1>1, <3>1
  <2>3. Good(m, g)
    BY <2>2, Zenon
  <2> HIDE DEF Good, g
  <2>4. QED  BY <1>1, <2>3
<1> HIDE DEF T
<1>5. n \in T
  <2>1. \A k \in 0 .. n : k \in T
    BY <1>1, <1>3, <1>4, BoundedInduction
  <2>2. QED  BY <1>1, <2>1
<1>6. Good(n, fn)
  <2>1. \E f : Good(n, f)
    BY <1>5 DEF T
  <2> HIDE DEF Good
  <2>2. QED  BY <2>1 DEF fn
<1>7. fn[0] = Roots(p) /\ \A d \in 1 .. n : fn[d] = Grow(fn[d - 1])
  <2> HIDE DEF Grow
  <2>1. fn = [d \in 0 .. n |-> IF d = 0 THEN Roots(p) ELSE Grow(fn[d - 1])]
    BY <1>6 DEF Grow
  <2> HIDE DEF Good
  <2>2. QED  BY <1>1, <2>1
<1> HIDE DEF Good
<1>8. Roots(p) \subseteq fn[n]
  <2> DEFINE U == {d \in 0 .. n : Roots(p) \subseteq fn[d]}
  <2>1. 0 \in U
    BY <1>1, <1>7
  <2>2. \A d \in 1 .. n : d - 1 \in U => d \in U
    BY <1>7
  <2> HIDE DEF U
  <2>3. \A d \in 0 .. n : d \in U
    BY <1>1, <2>1, <2>2, BoundedInduction
  <2>4. QED  BY <1>1, <2>3 DEF U
<1>9. Roots(p) \subseteq TypesOf(p)
  BY <1>2, <1>8
<1>10. /\ p.decs \in Seq(ToSet(p.decs))
       /\ \A t \in TypesOf(p) : IsType(t) /\ Parts(t) \subseteq TypesOf(p)
  BY ProgramsAssumption
<1>11. p.actor # NoActor => Serv(p.actor).con \in {"service", "id"}
  BY ProgramsAssumption
<1>12. p.actor # NoActor => Serv(p.actor) # NoActor
  BY <1>11 DEF NoActor
<1>13. QED  BY <1>9, <1>10, <1>11, <1>12 DEF Roots, ToSet

(* What a declared name is declared to be, where each is declared once *)
NamesOnce(p) == \A i, j \in DOMAIN p.decs : p.decs[i].id = p.decs[j].id => i = j

LEMMA DeclaredOnce ==
  ASSUME NEW p \in Programs, Parses(p), NamesOnce(p), NEW i \in DOMAIN p.decs
  PROVE  DeclaredAt(p.decs, p.decs[i].id) = {i} /\ Definition(p.decs, p.decs[i].id) = p.decs[i].type
<1>1. DeclaredAt(p.decs, p.decs[i].id) = {i}
  BY DEF DeclaredAt, NamesOnce
<1>2. i \in Int
  BY TypesClosed
<1>3. Min({i}) = i
  BY <1>2 DEF Min
<1>4. QED  BY <1>1, <1>3 DEF Definition

LEMMA DefinitionIs ==
  ASSUME NEW p \in Programs, Parses(p), NamesOnce(p), NEW x, DeclaredAt(p.decs, x) # {}
  PROVE  \E i \in DOMAIN p.decs : p.decs[i].id = x /\ Definition(p.decs, x) = p.decs[i].type
                                  /\ Definition(p.decs, x) \in TypesOf(p)
<1>1. PICK i \in DOMAIN p.decs : p.decs[i].id = x
  BY DEF DeclaredAt
<1>2. QED  BY <1>1, DeclaredOnce, TypesClosed

(* The links are followed one by one. *)
LEMMA ThroughRuns ==
  ASSUME NEW links, NEW n \in Nat, NEW x
  PROVE  \E f : /\ f[0] = x /\ Through(links, n, x) = f[n]
                /\ \A k \in 1 .. n : f[k] = Linked(links, f[k - 1])
<1> DEFINE Good(m, f) == f = [k \in 0 .. m |-> IF k = 0 THEN x ELSE Linked(links, f[k - 1])]
           T == {m \in 0 .. n : \E f : Good(m, f)}
           fn == CHOOSE f : Good(n, f)
<1>1. Through(links, n, x) = fn[n]
  BY DEF Through
<1> HIDE DEF fn
<1>2. 0 \in T
  <2>1. Good(0, [k \in 0 .. 0 |-> x])
    OBVIOUS
  <2> HIDE DEF Good
  <2>2. QED  BY <2>1
<1>3. ASSUME NEW m \in 1 .. n, m - 1 \in T PROVE m \in T
  <2>1. PICK f : Good(m - 1, f)
    BY <1>3
  <2> DEFINE g == [k \in 0 .. m |-> IF k = m THEN Linked(links, f[m - 1]) ELSE f[k]]
  <2>2. ASSUME NEW k \in 0 .. m PROVE g[k] = IF k = 0 THEN x ELSE Linked(links, g[k - 1])
    BY <2>1
  <2>3. Good(m, g)
    BY <2>2, Zenon
  <2> HIDE DEF Good, g
  <2>4. QED  BY <2>3
<1> HIDE DEF T
<1>4. n \in T
  <2>1. \A k \in 0 .. n : k \in T
    BY <1>2, <1>3, BoundedInduction
  <2>2. QED  BY <2>1
<1>5. Good(n, fn)
  <2>1. \E f : Good(n, f)
    BY <1>4 DEF T
  <2> HIDE DEF Good
  <2>2. QED  BY <2>1 DEF fn
<1>6. fn[0] = x /\ \A k \in 1 .. n : fn[k] = Linked(links, fn[k - 1])
  BY <1>5
<1> HIDE DEF Good
<1>7. QED  BY <1>1, <1>6

(* The end of the first k links from x *)
LEMMA ThroughStep ==
  ASSUME NEW links, NEW x
  PROVE  /\ Through(links, 0, x) = x
         /\ \A n \in Nat : x \notin DOMAIN links => Through(links, n, x) = x
         /\ \A n \in Nat : x \in DOMAIN links => Through(links, n + 1, x) = Through(links, n, links[x])
<1>1. ASSUME NEW n \in Nat, NEW y
      PROVE \E f : f[0] = y /\ Through(links, n, y) = f[n] /\ \A k \in 1 .. n : f[k] = Linked(links, f[k - 1])
  BY ThroughRuns
<1>2. Through(links, 0, x) = x
  BY <1>1
<1>3. ASSUME NEW n \in Nat, x \notin DOMAIN links PROVE Through(links, n, x) = x
  <2>1. PICK f : f[0] = x /\ Through(links, n, x) = f[n] /\ \A k \in 1 .. n : f[k] = Linked(links, f[k - 1])
    BY <1>1
  <2> DEFINE U == {k \in 0 .. n : f[k] = x}
  <2>2. Linked(links, x) = x
    BY <1>3 DEF Linked
  <2>3. 0 \in U /\ \A k \in 1 .. n : k - 1 \in U => k \in U
    BY <2>1, <2>2
  <2> HIDE DEF U
  <2>4. \A k \in 0 .. n : k \in U
    BY <2>3, BoundedInduction
  <2>5. QED  BY <2>1, <2>4 DEF U
<1>4. ASSUME NEW n \in Nat, x \in DOMAIN links PROVE Through(links, n + 1, x) = Through(links, n, links[x])
  <2>1. PICK f : f[0] = x /\ Through(links, n + 1, x) = f[n + 1] /\ \A k \in 1 .. n + 1 : f[k] = Linked(links, f[k - 1])
    BY <1>1
  <2>2. PICK g : g[0] = links[x] /\ Through(links, n, links[x]) = g[n] /\ \A k \in 1 .. n : g[k] = Linked(links, g[k - 1])
    BY <1>1
  <2> DEFINE U == {k \in 0 .. n : f[k + 1] = g[k]}
  <2>3. 0 \in U
    <3>1. f[1] = Linked(links, f[0])
      BY <2>1
    <3>2. QED  BY <1>4, <2>1, <2>2, <3>1 DEF Linked
  <2>4. ASSUME NEW k \in 1 .. n, k - 1 \in U PROVE k \in U
    <3>1. f[(k - 1) + 1] = g[k - 1] /\ (k - 1) + 1 = k
      BY <2>4
    <3>2. f[k + 1] = Linked(links, f[k])
      <4>1. k + 1 \in 1 .. n + 1 /\ (k + 1) - 1 = k
        OBVIOUS
      <4>2. QED  BY <2>1, <4>1
    <3>3. QED  BY <2>2, <3>1, <3>2
  <2> HIDE DEF U
  <2>5. \A k \in 0 .. n : k \in U
    BY <2>3, <2>4, BoundedInduction
  <2>6. QED  BY <2>1, <2>2, <2>5 DEF U
<1>5. QED  BY <1>2, <1>3, <1>4

(* Links lead from types of a DID to types of it. *)
LEMMA LinksClosed ==
  ASSUME NEW p \in Programs, Parses(p), NamesOnce(p)
  PROVE  \A t \in DOMAIN Links(p) : t \in TypesOf(p) /\ Links(p)[t] \in TypesOf(p)
BY DefinitionIs DEF Links

LEMMA DenotedType ==
  ASSUME NEW p \in Programs, Parses(p), NamesOnce(p), NEW t \in TypesOf(p)
  PROVE  Denoted(p, t) \in TypesOf(p)
<1> DEFINE n == Len(p.decs)
<1>1. n \in Nat
  BY TypesClosed
<1>. Denoted(p, t) = Through(Links(p), n, t)
  BY DEF Denoted
<1> HIDE DEF n
<1>2. PICK f : /\ f[0] = t /\ Through(Links(p), n, t) = f[n]
               /\ \A k \in 1 .. n : f[k] = Linked(Links(p), f[k - 1])
  BY <1>1, ThroughRuns
<1> DEFINE U == {k \in 0 .. n : f[k] \in TypesOf(p)}
<1>3. 0 \in U
  BY <1>1, <1>2
<1>4. ASSUME NEW k \in 1 .. n, k - 1 \in U PROVE k \in U
  <2>1. f[k - 1] \in TypesOf(p)
    BY <1>4
  <2>2. f[k] = Linked(Links(p), f[k - 1])
    BY <1>2
  <2>3. f[k] \in TypesOf(p)
    BY <2>1, <2>2, LinksClosed DEF Linked
  <2>4. QED  BY <1>1, <2>3
<1> HIDE DEF U
<1>5. \A k \in 0 .. n : k \in U
  BY <1>1, <1>3, <1>4, BoundedInduction
<1>6. QED  BY <1>1, <1>2, <1>5 DEF U

(* The entry of a service *)
EntryOf(t, init, w) == [methods |-> ConvertMethods(t.methods, w), init |-> init]

(* Every level of the lookup is one round through the declarations. *)
Rounds(f, decs, init, w) ==
  /\ \A x \in STRING : LookupServiceType(decs, x, init, w) = f[Len(decs)][x]
  /\ \A k \in 1 .. Len(decs) : \A x \in STRING : f[k][x] = LookupName(decs, f[k - 1], x, init, w)

LEMMA LookupRuns ==
  ASSUME NEW decs, NEW init, NEW w, Len(decs) \in Nat
  PROVE  \E f : Rounds(f, decs, init, w)
<1> DEFINE n == Len(decs)
           Level(f, k) == [x \in STRING |-> IF k = 0 THEN NoEntry ELSE LookupName(decs, f[k - 1], x, init, w)]
           Good(m, f) == f = [k \in 0 .. m |-> [x \in STRING |-> IF k = 0 THEN NoEntry ELSE LookupName(decs, f[k - 1], x, init, w)]]
           T == {m \in 0 .. n : \E f : Good(m, f)}
           fn == CHOOSE f : Good(n, f)
<1>1. \A x : LookupServiceType(decs, x, init, w) = fn[n][x]
  BY DEF LookupServiceType
<1>2. n \in Nat
  OBVIOUS
<1> HIDE DEF n, fn
<1>3. 0 \in T
  <2>1. Good(0, [k \in 0 .. 0 |-> [x \in STRING |-> NoEntry]])
    OBVIOUS
  <2> HIDE DEF Good
  <2>2. QED  BY <1>2, <2>1
<1>4. ASSUME NEW m \in 1 .. n, m - 1 \in T PROVE m \in T
  <2>1. PICK f : Good(m - 1, f)
    BY <1>4
  <2> DEFINE g == [k \in 0 .. m |-> IF k = m THEN Level(f, m) ELSE f[k]]
  <2>2. ASSUME NEW k \in 0 .. m PROVE g[k] = Level(g, k)
    <3>1. CASE k = m
      <4>1. m - 1 \in 0 .. m /\ m - 1 # m
        BY <1>2
      <4> HIDE DEF Good
      <4>2. g[m - 1] = f[m - 1]
        BY <4>1
      <4>3. g[m] = Level(f, m)
        BY <1>2
      <4> HIDE DEF g
      <4>4. Level(f, m) = Level(g, m)
        BY <4>2
      <4>5. QED  BY <3>1, <4>3, <4>4
    <3>2. CASE k # m
      <4>1. k \in 0 .. m - 1 /\ (k # 0 => k - 1 \in 0 .. m /\ k - 1 # m)
        BY <1>2, <3>2
      <4>2. f[k] = Level(f, k)
        BY <2>1, <4>1
      <4> HIDE DEF Good
      <4>3. g[k] = f[k] /\ (k # 0 => g[k - 1] = f[k - 1])
        BY <3>2, <4>1
      <4> HIDE DEF g
      <4>4. Level(f, k) = Level(g, k)
        BY <4>3
      <4>5. QED  BY <4>2, <4>3, <4>4
    <3>3. QED  BY <3>1, <3>2
  <2>3. Good(m, g)
    BY <2>2, Zenon
  <2> HIDE DEF Good, g
  <2>4. QED  BY <1>2, <2>3
<1> HIDE DEF T
<1>5. n \in T
  <2>1. \A k \in 0 .. n : k \in T
    BY <1>2, <1>3, <1>4, BoundedInduction
  <2>2. QED  BY <1>2, <2>1
<1>6. Good(n, fn)
  <2>1. \E f : Good(n, f)
    BY <1>5 DEF T
  <2> HIDE DEF Good
  <2>2. QED  BY <2>1 DEF fn
<1>7. ASSUME NEW k \in 1 .. n, NEW x \in STRING PROVE fn[k][x] = LookupName(decs, fn[k - 1], x, init, w)
  <2>1. k \in 0 .. n /\ k # 0
    BY <1>2
  <2>2. fn[k] = Level(fn, k)
    BY <1>6, <2>1
  <2>3. QED  BY <2>1, <2>2
<1> HIDE DEF Good
<1>8. Rounds(fn, decs, init, w)
  BY <1>1, <1>7 DEF Rounds, n
<1>9. QED  BY <1>8

(* A name is looked up to the entry of the service that it denotes. *)
LEMMA LookupIs ==
  ASSUME NEW p \in Programs, Parses(p), NamesOnce(p), NEW w, NEW init,
         NEW t \in TypesOf(p), t.con = "id", Denoted(p, t).con = "service"
  PROVE  LookupServiceType(p.decs, t.name, init, w) = EntryOf(Denoted(p, t), init, w)
<1> DEFINE n == Len(p.decs)
           ends(k, x) == Through(Links(p), k, x)
<1>1. n \in Nat
  BY TypesClosed
<1> HIDE DEF n
<1>2. PICK f : /\ \A x \in STRING : LookupServiceType(p.decs, x, init, w) = f[n][x]
               /\ \A k \in 1 .. n : \A x \in STRING : f[k][x] = LookupName(p.decs, f[k - 1], x, init, w)
  <2>1. PICK f : Rounds(f, p.decs, init, w)
    BY <1>1, LookupRuns DEF n
  <2>2. QED  BY <2>1 DEF Rounds, n
<1>3. \A x \in TypesOf(p) : x.con = "id" => x.name \in STRING
  BY TypesClosed DEF IsType
<1>4. ASSUME NEW x PROVE /\ ends(0, x) = x
                         /\ \A k \in Nat : x \notin DOMAIN Links(p) => ends(k, x) = x
                         /\ \A k \in Nat : x \in DOMAIN Links(p) => ends(k + 1, x) = ends(k, Links(p)[x])
  BY ThroughStep
<1>5. Denoted(p, t) = ends(n, t)
  BY DEF Denoted, n
<1> HIDE DEF ends
<1> DEFINE U == {k \in 0 .. n : \A x \in TypesOf(p) :
                   x.con = "id" /\ ends(k, x).con = "service" => f[k][x.name] = EntryOf(ends(k, x), init, w)}
<1>6. 0 \in U
  BY <1>1, <1>4
<1>7. ASSUME NEW k \in 1 .. n, k - 1 \in U PROVE k \in U
  <2> SUFFICES ASSUME NEW x \in TypesOf(p), x.con = "id", ends(k, x).con = "service"
               PROVE  f[k][x.name] = EntryOf(ends(k, x), init, w)
    OBVIOUS
  <2> DEFINE d == Definition(p.decs, x.name)
  <2>1. k \in Nat /\ k - 1 \in Nat /\ (k - 1) + 1 = k
    BY <1>1
  <2>2. x \in DOMAIN Links(p)
    BY <1>4, <2>1
  <2>3. DeclaredAt(p.decs, x.name) # {} /\ Links(p)[x] = d /\ d \in TypesOf(p)
    BY <2>2, LinksClosed DEF Links
  <2>4. ends(k, x) = ends(k - 1, d)
    BY <1>4, <2>1, <2>2, <2>3
  <2>5. f[k][x.name] = LookupName(p.decs, f[k - 1], x.name, init, w)
    BY <1>2, <1>3
  <2>6. d.con # "id" => ends(k - 1, d) = d
    <3>1. d.con # "id" => d \notin DOMAIN Links(p)
      BY DEF Links
    <3>2. QED  BY <1>4, <2>1, <3>1
  <2>7. CASE d.con = "service"
    <3>1. LookupName(p.decs, f[k - 1], x.name, init, w) = EntryOf(d, init, w)
      BY <2>3, <2>7 DEF LookupName, EntryOf
    <3>2. QED  BY <2>4, <2>5, <2>6, <2>7, <3>1
  <2>8. CASE d.con = "id"
    <3>1. LookupName(p.decs, f[k - 1], x.name, init, w) = f[k - 1][d.name]
      BY <2>3, <2>8 DEF LookupName
    <3>2. f[k - 1][d.name] = EntryOf(ends(k - 1, d), init, w)
      BY <1>7, <2>3, <2>4, <2>8
    <3>3. QED  BY <2>4, <2>5, <3>1, <3>2
  <2>9. QED  BY <2>4, <2>6, <2>7, <2>8
<1> HIDE DEF U
<1>8. n \in U
  <2>1. \A k \in 0 .. n : k \in U
    BY <1>1, <1>6, <1>7, BoundedInduction
  <2>2. QED  BY <1>1, <2>1
<1>9. QED  BY <1>2, <1>3, <1>5, <1>8 DEF U

(* The names a DID declares, and the type object of a type *)
DeclaredNames(p) == {p.decs[i].id : i \in DOMAIN p.decs}

ObjectOf(p, w, t) == ParseJsonType(DeclaredNames(p), ConvertType(t, w))

(* Whichever wheel writes them, the loader reads the modes of the DID. *)
LEMMA ModesRead ==
  ASSUME NEW modes \in Seq({"query", "composite_query", "oneway"}), NEW w
  PROVE  NormalizeModes(Modes(modes, w)) = modes
<1> DEFINE read == NormalizeModes(Modes(modes, w))
<1>1. read = [i \in DOMAIN modes |-> read[i]]
  BY DEF NormalizeModes, Modes
<1>2. ASSUME NEW i \in DOMAIN modes PROVE read[i] = modes[i]
  <2>1. Modes(modes, w)[i] = ModeToString(modes[i], w)
    BY DEF Modes
  <2>2. read[i] = IF Modes(modes, w)[i] = "compositequery" THEN "composite_query" ELSE Modes(modes, w)[i]
    BY DEF NormalizeModes, Modes
  <2>3. modes[i] \in {"query", "composite_query", "oneway"}
    OBVIOUS
  <2>4. QED  BY <2>1, <2>2, <2>3 DEF ModeToString
<1>3. modes = [i \in DOMAIN modes |-> modes[i]]
  OBVIOUS
<1> HIDE DEF read
<1>4. [i \in DOMAIN modes |-> read[i]] = [i \in DOMAIN modes |-> modes[i]]
  BY <1>2
<1>5. QED  BY <1>1, <1>3, <1>4 DEF read

(* A label that is no name of digits is read as what it was. *)
LEMMA LabelRead ==
  ASSUME NEW label \in Labels, label \notin [name : [digits : Nat]]
  PROVE  Key(LabelToString(label)) = label
<1>1. CASE label \in [n : Nat]
  <2>1. PICK n \in Nat : label = [n |-> n]
    BY <1>1
  <2>2. LabelToString(label) = [digits |-> n]
    BY <2>1 DEF LabelToString, Digits
  <2>3. QED  BY <2>1, <2>2 DEF Key, Number
<1>2. CASE label \in [name : [word : STRING]]
  <2>1. PICK v \in STRING : label = [name |-> [word |-> v]]
    BY <1>2
  <2>2. LabelToString(label) = [word |-> v]
    BY <2>1 DEF LabelToString
  <2>3. QED  BY <2>1, <2>2 DEF Key, Name
<1>3. QED  BY <1>1, <1>2 DEF Labels

(* The fields of a record or a variant come through under their labels. *)
LEMMA FieldsRead ==
  ASSUME NEW fields, NEW S, fields \in Seq([label : Labels, type : S]), KeepsLabels(fields)
  PROVE  LET read == ParseFields(ConvertFields(fields))
         IN  /\ DOMAIN read = {fields[i].label : i \in DOMAIN fields}
             /\ \A i \in DOMAIN fields : read[fields[i].label] = fields[i].type
<1> DEFINE items == ConvertFields(fields)
           at(key) == {i \in DOMAIN items : Key(items[i][1]) = key}
<1>1. DOMAIN items = DOMAIN fields
  BY DEF ConvertFields
<1>2. ASSUME NEW i \in DOMAIN fields PROVE Key(items[i][1]) = fields[i].label /\ items[i][2] = fields[i].type
  <2>1. items[i] = <<LabelToString(fields[i].label), fields[i].type>>
    BY DEF ConvertFields
  <2>2. fields[i].label \in Labels
    <3> DEFINE F == [label : Labels, type : S]
    <3>1. fields \in Seq(F)
      OBVIOUS
    <3> HIDE DEF F
    <3>2. fields[i] \in F
      BY <3>1
    <3>3. QED  BY <3>2 DEF F
  <2>3. fields[i].label \notin [name : [digits : Nat]]
    BY DEF KeepsLabels
  <2>4. QED  BY <2>1, <2>2, <2>3, LabelRead
<1>3. ASSUME NEW i \in DOMAIN fields PROVE at(fields[i].label) = {i}
  BY <1>1, <1>2 DEF KeepsLabels
<1>4. ParseFields(items) = [key \in {Key(items[i][1]) : i \in DOMAIN items} |-> items[Max(at(key))][2]]
  BY DEF ParseFields
<1> HIDE DEF items, at
<1>5. {Key(items[i][1]) : i \in DOMAIN items} = {fields[i].label : i \in DOMAIN fields}
  BY <1>1, <1>2
<1>6. ASSUME NEW i \in DOMAIN fields PROVE Max({i}) = i
  BY DEF Max
<1>7. ASSUME NEW i \in DOMAIN fields PROVE ParseFields(items)[fields[i].label] = fields[i].type
  <2>1. ParseFields(items)[fields[i].label] = items[Max(at(fields[i].label))][2]
    BY <1>4, <1>5
  <2>2. QED  BY <1>2, <1>3, <1>6, <2>1
<1>8. QED  BY <1>4, <1>5, <1>7 DEF items

(* The object of a type that is no name has the type's form, if the objects  *)
(* of its parts are the same as they are.                                    *)
LEMMA FormRead ==
  ASSUME NEW p \in Programs, Parses(p), NEW w, NEW t \in TypesOf(p), t.con # "id",
         t.con \in {"record", "variant"} => KeepsLabels(t.fields),
         NEW below, \A x \in Parts(t) : below[x][x] = TRUE
  PROVE  SameForm(below, t, ObjectOf(p, w, t)) /\ ObjectOf(p, w, t).con # "rec"
<1> DEFINE u == ObjectOf(p, w, t)
<1>0. IsType(t)
  BY TypesClosed
<1>1. CASE t.con = "prim"
  <2>1. ConvertType(t, w) = [type |-> "Prim", value |-> t.prim]
    BY <1>1 DEF ConvertType
  <2>2. t.prim \in Prims
    BY <1>0, <1>1 DEF IsType
  <2>3. u = [con |-> "prim", prim |-> t.prim]
    BY <2>1, <2>2 DEF ObjectOf, ParseJsonType, PrimType
  <2>4. QED  BY <1>1, <2>3 DEF SameForm
<1>2. CASE t.con = "principal"
  <2>1. ConvertType(t, w) = [type |-> "Principal", value |-> "null"]
    BY <1>2 DEF ConvertType
  <2>2. u = [con |-> "principal"]
    BY <2>1 DEF ObjectOf, ParseJsonType
  <2>3. QED  BY <1>2, <2>2 DEF SameForm
<1>3. CASE t.con = "opt"
  <2>1. ConvertType(t, w) = [type |-> "Opt", value |-> t.type]
    BY <1>3 DEF ConvertType
  <2>2. u = [con |-> "opt", type |-> t.type]
    BY <2>1 DEF ObjectOf, ParseJsonType
  <2>3. below[t.type][t.type]
    BY <1>3 DEF Parts
  <2>4. QED  BY <1>3, <2>2, <2>3 DEF SameForm
<1>4. CASE t.con = "vec"
  <2>1. ConvertType(t, w) = [type |-> "Vec", value |-> t.type]
    BY <1>4 DEF ConvertType
  <2>2. u = [con |-> "vec", type |-> t.type]
    BY <2>1 DEF ObjectOf, ParseJsonType
  <2>3. below[t.type][t.type]
    BY <1>4 DEF Parts
  <2>4. QED  BY <1>4, <2>2, <2>3 DEF SameForm
<1>5. CASE t.con \in {"record", "variant"}
  <2> DEFINE read == ParseFields(ConvertFields(t.fields))
  <2>1. ConvertType(t, w) = [type |-> IF t.con = "record" THEN "Record" ELSE "Variant",
                             value |-> ConvertFields(t.fields)]
    BY <1>5 DEF ConvertType
  <2>2. u = [con |-> t.con, fields |-> read]
    BY <1>5, <2>1 DEF ObjectOf, ParseJsonType
  <2>3. t.fields \in Seq([label : Labels, type : {t.fields[i].type : i \in DOMAIN t.fields}])
    BY <1>0, <1>5 DEF IsType
  <2>4. /\ DOMAIN read = {t.fields[i].label : i \in DOMAIN t.fields}
        /\ \A i \in DOMAIN t.fields : read[t.fields[i].label] = t.fields[i].type
    BY <1>5, <2>3, FieldsRead
  <2>5. \A i \in DOMAIN t.fields : below[t.fields[i].type][t.fields[i].type]
    BY <1>5 DEF Parts
  <2> HIDE DEF read
  <2>6. SameFields(below, t.fields, read)
    BY <2>4, <2>5 DEF SameFields
  <2>7. QED  BY <1>5, <2>2, <2>6 DEF SameForm
<1>6. CASE t.con = "func"
  <2>1. ConvertType(t, w) = [type |-> "Func", value |-> [args |-> t.args, rets |-> t.rets,
                                                         modes |-> Modes(t.modes, w)]]
    BY <1>6 DEF ConvertType
  <2>2. u = FuncType([args |-> t.args, rets |-> t.rets, modes |-> Modes(t.modes, w)])
    BY <2>1 DEF ObjectOf, ParseJsonType
  <2>3. NormalizeModes(Modes(t.modes, w)) = t.modes
    BY <1>0, <1>6, ModesRead DEF IsType
  <2>4. u = [con |-> "func", args |-> t.args, rets |-> t.rets, annotations |-> t.modes]
    BY <2>2, <2>3 DEF FuncType
  <2>5. SameAll(below, t.args, t.args) /\ SameAll(below, t.rets, t.rets)
    BY <1>6 DEF SameAll, Parts, ToSet
  <2>6. QED  BY <1>6, <2>4, <2>5 DEF SameForm
<1>7. CASE t.con = "service"
  <2>1. ConvertType(t, w) = [type |-> "Service", value |-> ConvertMethods(t.methods, w)]
    BY <1>7 DEF ConvertType
  <2>2. u = [con |-> "service"]
    BY <2>1 DEF ObjectOf, ParseJsonType
  <2>3. QED  BY <1>7, <2>2 DEF SameForm
<1>8. QED  BY <1>0, <1>1, <1>2, <1>3, <1>4, <1>5, <1>6, <1>7 DEF IsType

(* Methods of different names are all kept, in their order. *)
LEMMA DistinctMethods ==
  ASSUME NEW n \in Nat, NEW nodes, DOMAIN nodes = 1 .. n,
         \A i, j \in 1 .. n : nodes[i].name = nodes[j].name => i = j
  PROVE  /\ DOMAIN MethodsByName(nodes) = DOMAIN nodes
         /\ \A i \in DOMAIN nodes : MethodsByName(nodes)[i] = nodes[i]
<1> DEFINE firsts   == {i \in DOMAIN nodes : \A j \in DOMAIN nodes : j < i => nodes[j].name # nodes[i].name}
           first(k) == CHOOSE i \in firsts : Cardinality({j \in firsts : j <= i}) = k
           last(i)  == Max({j \in DOMAIN nodes : nodes[j].name = nodes[i].name})
<1>1. firsts = 1 .. n
  OBVIOUS
<1>2. \A i \in 1 .. n : {j \in firsts : j <= i} = 1 .. i
  BY <1>1
<1>3. \A i \in Nat : Cardinality(1 .. i) = i
  BY FS_Interval
<1> HIDE DEF firsts
<1>4. \A k \in 1 .. n : first(k) = k
  <2> SUFFICES ASSUME NEW k \in 1 .. n PROVE first(k) = k
    OBVIOUS
  <2>1. ASSUME NEW i \in firsts PROVE Cardinality({j \in firsts : j <= i}) = i
    <3>1. i \in 1 .. n /\ i \in Nat
      BY <1>1
    <3>2. {j \in firsts : j <= i} = 1 .. i
      BY <1>2, <3>1
    <3>3. Cardinality(1 .. i) = i
      BY <1>3, <3>1
    <3>4. QED  BY <3>2, <3>3
  <2>2. \E i \in firsts : Cardinality({j \in firsts : j <= i}) = k
    BY <1>1, <2>1
  <2>3. QED  BY <2>1, <2>2
<1>5. \A i \in 1 .. n : last(i) = i
  <2> SUFFICES ASSUME NEW i \in 1 .. n PROVE last(i) = i
    OBVIOUS
  <2>1. {j \in DOMAIN nodes : nodes[j].name = nodes[i].name} = {i}
    OBVIOUS
  <2>2. Max({i}) = i
    BY DEF Max
  <2>3. QED  BY <2>1, <2>2
<1>6. MethodsByName(nodes) = [k \in 1 .. Cardinality(firsts) |-> nodes[last(first(k))]]
  BY DEF MethodsByName, firsts
<1>7. Cardinality(firsts) = n
  BY <1>1, <1>3
<1> HIDE DEF first, last
<1>8. QED  BY <1>4, <1>5, <1>6, <1>7

(* What load_did_source makes of a DID, part by part *)
LEMMA LoadedParts ==
  ASSUME NEW p \in Programs, Parses(p), NEW w
  PROVE  LET got == LoadDidSource(p, w)
         IN  /\ got.objects = [t \in TypesOf(p) |-> ObjectOf(p, w, t)]
             /\ got.type_env = TypeEnv(Env(p))
             /\ got.arguments = ActorEntry(p, w).init
             /\ DOMAIN got.methods = DOMAIN MethodsByName(MethodNodes(ParseDid(p, w)))
             /\ \A i \in DOMAIN got.methods :
                  got.methods[i] =
                    [name |-> MethodsByName(MethodNodes(ParseDid(p, w)))[i].name,
                     type |-> FuncType(MethodsByName(MethodNodes(ParseDid(p, w)))[i])]
<1> DEFINE data == ParseDid(p, w)
           nodes == MethodsByName(MethodNodes(data))
           got == LoadDidSource(p, w)
<1>1. /\ data.nodes = [t \in TypesOf(p) |-> ConvertType(t, w)]
      /\ data.env = Env(p)
      /\ data.actor = ActorEntry(p, w)
  BY DEF ParseDid
<1>2. got = [objects   |-> [t \in DOMAIN data.nodes |-> ParseJsonType(Entered(data.env), data.nodes[t])],
             type_env  |-> TypeEnv(data.env),
             arguments |-> data.actor.init,
             methods   |-> [i \in DOMAIN nodes |-> [name |-> nodes[i].name, type |-> FuncType(nodes[i])]]]
  BY DEF LoadDidSource
<1> HIDE DEF data, nodes, got
<1>3. Entered(Env(p)) = DeclaredNames(p)
  BY DEF Entered, Env, DeclaredNames
<1>4. got.objects = [t \in TypesOf(p) |-> ObjectOf(p, w, t)]
  <2>1. got.objects = [t \in DOMAIN data.nodes |-> ParseJsonType(DeclaredNames(p), data.nodes[t])]
    BY <1>1, <1>2, <1>3
  <2>2. DOMAIN data.nodes = TypesOf(p) /\ \A t \in TypesOf(p) : data.nodes[t] = ConvertType(t, w)
    BY <1>1
  <2>3. QED  BY <2>1, <2>2 DEF ObjectOf
<1>5. got.type_env = TypeEnv(Env(p)) /\ got.arguments = ActorEntry(p, w).init
  BY <1>1, <1>2
<1>6. got.methods = [i \in DOMAIN nodes |-> [name |-> nodes[i].name, type |-> FuncType(nodes[i])]]
  BY <1>2
<1>7. DOMAIN got.methods = DOMAIN nodes /\ \A i \in DOMAIN got.methods : got.methods[i] = [name |-> nodes[i].name, type |-> FuncType(nodes[i])]
  BY <1>6
<1>8. QED  BY <1>4, <1>5, <1>7 DEF got, nodes, data

(* Where names are declared once, an entry is filled with its declaration. *)
LEMMA EntryFilled ==
  ASSUME NEW p \in Programs, Parses(p), NamesOnce(p), NEW i \in DOMAIN p.decs
  PROVE  TypeEnv(Env(p))[p.decs[i].id] = p.decs[i].type
<1> DEFINE env == Env(p)
           of(name) == {j \in DOMAIN env : env[j].name = name}
<1>1. DOMAIN env = DOMAIN p.decs
      /\ \A j \in DOMAIN p.decs : env[j].name = p.decs[j].id /\ env[j].datatype = p.decs[j].type
  BY DEF Env
<1>2. TypeEnv(env) = [name \in {env[j].name : j \in DOMAIN env} |-> env[Max(of(name))].datatype]
  BY DEF TypeEnv
<1>3. of(p.decs[i].id) = {i}
  BY <1>1 DEF NamesOnce
<1>4. i \in Int
  BY TypesClosed
<1>5. Max({i}) = i
  BY <1>4 DEF Max
<1> HIDE DEF env, of
<1>6. p.decs[i].id \in {env[j].name : j \in DOMAIN env}
  BY <1>1
<1>7. TypeEnv(env)[p.decs[i].id] = env[Max(of(p.decs[i].id))].datatype
  BY <1>2, <1>6
<1>8. QED  BY <1>1, <1>3, <1>5, <1>7 DEF env

(* The object of a name is the entry of that name, if it is declared. *)
LEMMA NameRead ==
  ASSUME NEW p, NEW w, NEW t, t.con = "id"
  PROVE  /\ DeclaredAt(p.decs, t.name) # {} => ObjectOf(p, w, t) = Rec(t.name)
         /\ DeclaredAt(p.decs, t.name) = {} => ObjectOf(p, w, t) = Unfilled
<1>1. ConvertType(t, w) = [type |-> "Id", value |-> t.name]
  BY DEF ConvertType
<1>2. ObjectOf(p, w, t) = IF t.name \in DeclaredNames(p) THEN Rec(t.name) ELSE Unfilled
  BY <1>1 DEF ObjectOf, ParseJsonType
<1>3. t.name \in DeclaredNames(p) <=> DeclaredAt(p.decs, t.name) # {}
  BY DEF DeclaredNames, DeclaredAt
<1>4. QED  BY <1>2, <1>3

(* get_type goes through the entries as the names go through declarations. *)
LEMMA FilledAsLinked ==
  ASSUME NEW w, did \in Programs, Parses(did), NamesOnce(did),
         \A t \in TypesOf(did) : t.con \in {"record", "variant"} => KeepsLabels(t.fields),
         loaded = LoadDidSource(did, w)
  PROVE  \A t : GetType(t) = Denoted(did, t)
<1> DEFINE ends == {t \in TypesOf(did) : t.con = "id" /\ DeclaredAt(did.decs, t.name) # {}}
           recs == {t \in DOMAIN loaded.objects : loaded.objects[t].con = "rec"}
<1>1. DOMAIN loaded.objects = TypesOf(did) /\ \A t \in TypesOf(did) : loaded.objects[t] = ObjectOf(did, w, t)
  <2>1. loaded.objects = [t \in TypesOf(did) |-> ObjectOf(did, w, t)]
    BY LoadedParts
  <2>2. QED  BY <2>1
<1>2. loaded.type_env = TypeEnv(Env(did))
  BY LoadedParts
<1>3. ASSUME NEW t \in TypesOf(did), t.con = "id"
      PROVE  /\ DeclaredAt(did.decs, t.name) # {} => loaded.objects[t] = Rec(t.name)
             /\ DeclaredAt(did.decs, t.name) = {} => loaded.objects[t] = Unfilled
  BY <1>1, <1>3, NameRead
<1>4. ASSUME NEW t \in TypesOf(did), t.con # "id" PROVE loaded.objects[t].con # "rec"
  <2> DEFINE below == [x \in Parts(t) |-> [y \in Parts(t) |-> TRUE]]
  <2>1. \A x \in Parts(t) : below[x][x] = TRUE
    OBVIOUS
  <2> HIDE DEF below
  <2>2. ObjectOf(did, w, t).con # "rec"
    BY <1>4, <2>1, FormRead
  <2>3. QED  BY <1>1, <2>2
<1>5. Rec("a").con = "rec" /\ Unfilled.con # "rec" /\ \A x : Rec(x).con = "rec" /\ Rec(x).name = x
  BY DEF Rec, Unfilled
<1>6. recs = ends
  <2>1. ASSUME NEW t \in TypesOf(did) PROVE loaded.objects[t].con = "rec" <=> t \in ends
    BY <1>3, <1>4, <1>5
  <2>2. QED  BY <1>1, <2>1
<1>7. ASSUME NEW t \in ends PROVE loaded.type_env[loaded.objects[t].name] = Definition(did.decs, t.name)
  <2>1. loaded.objects[t].name = t.name
    BY <1>3, <1>5
  <2>2. PICK i \in DOMAIN did.decs : did.decs[i].id = t.name /\ Definition(did.decs, t.name) = did.decs[i].type
    BY DefinitionIs
  <2>3. TypeEnv(Env(did))[t.name] = did.decs[i].type
    BY <2>2, EntryFilled
  <2>4. QED  BY <1>2, <2>1, <2>2, <2>3
<1>8. FilledWith = [t \in recs |-> loaded.type_env[loaded.objects[t].name]]
  BY DEF FilledWith
<1>9. Links(did) = [t \in ends |-> Definition(did.decs, t.name)]
  BY DEF Links
<1> HIDE DEF ends, recs
<1>10. FilledWith = Links(did)
  BY <1>6, <1>7, <1>8, <1>9
<1>11. QED  BY <1>10 DEF GetType, Denoted

(* A type that the declarations leave no name stands for no more names. *)
LEMMA DenotedEnds ==
  ASSUME NEW p \in Programs, Parses(p), NEW t, t.con # "id"
  PROVE  Denoted(p, t) = t
<1>1. t \notin DOMAIN Links(p)
  BY DEF Links
<1>2. Len(p.decs) \in Nat
  BY TypesClosed
<1>3. QED  BY <1>1, <1>2, ThroughStep DEF Denoted

(* What the last lemmas ask of a DID: the parts of Regular *)
LEMMA RegularParts ==
  ASSUME NEW p, Regular(p)
  PROVE  /\ NamesOnce(p)
         /\ p.actor # NoActor => Denoted(p, Serv(p.actor)).con = "service"
         /\ p.actor # NoActor /\ Interface(p) = << >> =>
              \A i \in DOMAIN p.decs : p.decs[i].type.con # "service"
         /\ \A t \in TypesOf(p) : t.con \in {"record", "variant"} => KeepsLabels(t.fields)
         /\ \A t \in TypesOf(p) : Denoted(p, t).con # "id"
         /\ \A t \in TypesOf(p) : t.con = "service" => \A i \in DOMAIN t.methods : t.methods[i].type.con = "func"
BY DEF Regular, NamesOnce

(* The definition of Same, unfolded once *)
LEMMA SameUnfolds ==
  ASSUME NEW n \in 0 .. Unfoldings
  PROVE  Same[n] = [t \in TypesOf(did) |-> [u \in DOMAIN loaded.objects |->
                      n = 0 \/ SameForm(Same[n - 1], Denoted(did, t), loaded.objects[GetType(u)])]]
<1> DEFINE Entry(f, k, t, u) == k = 0 \/ SameForm(f[k - 1], Denoted(did, t), loaded.objects[GetType(u)])
           Level(f, k) == [t \in TypesOf(did) |-> [u \in DOMAIN loaded.objects |-> Entry(f, k, t, u)]]
           Good(m, f) == f = [k \in 0 .. m |-> [t \in TypesOf(did) |-> [u \in DOMAIN loaded.objects |-> Entry(f, k, t, u)]]]
           N == Unfoldings
           T == {m \in 0 .. N : \E f : Good(m, f)}
           fn == CHOOSE f : Good(N, f)
<1>1. Same = fn
  BY DEF Same
<1>2. N \in Nat
  BY UnfoldingsAssumption
<1>start. \A f, t, u : Entry(f, 0, t, u) = TRUE
  OBVIOUS
<1>step. \A f, g, k, t, u : f[k - 1] = g[k - 1] => Entry(f, k, t, u) = Entry(g, k, t, u)
  OBVIOUS
<1>same. \A f, g, t, u : Entry(f, 0, t, u) = Entry(g, 0, t, u)
  BY <1>start
<1> HIDE DEF N, fn, Entry
<1>3. 0 \in T
  <2> DEFINE g == [k \in 0 .. 0 |-> Level(<< >>, 0)]
  <2>a. ASSUME NEW k \in 0 .. 0 PROVE g[k] = Level(g, k)
    <3>1. k = 0 /\ g[0] = Level(<< >>, 0)
      OBVIOUS
    <3> HIDE DEF g
    <3>2. Level(<< >>, 0) = Level(g, 0)
      BY <1>same
    <3>3. QED  BY <3>1, <3>2
  <2>1. Good(0, g)
    BY <2>a, Zenon
  <2> HIDE DEF g
  <2> HIDE DEF Good
  <2>2. QED  BY <1>2, <2>1
<1>4. ASSUME NEW m \in 1 .. N, m - 1 \in T PROVE m \in T
  <2>1. PICK f : Good(m - 1, f)
    BY <1>4
  <2> DEFINE g == [k \in 0 .. m |-> IF k = m THEN Level(f, m) ELSE f[k]]
  <2>2. ASSUME NEW k \in 0 .. m PROVE g[k] = Level(g, k)
    <3>1. CASE k = m
      <4>1. m - 1 \in 0 .. m /\ m - 1 # m
        BY <1>2
      <4> HIDE DEF Good
      <4>2. g[m - 1] = f[m - 1]
        BY <4>1
      <4>3. g[m] = Level(f, m)
        BY <1>2
      <4> HIDE DEF g
      <4>4. Level(f, m) = Level(g, m)
        BY <1>step, <4>2
      <4>5. QED  BY <3>1, <4>3, <4>4
    <3>2. CASE k # m
      <4>1. k \in 0 .. m - 1 /\ (k # 0 => k - 1 \in 0 .. m /\ k - 1 # m)
        BY <1>2, <3>2
      <4>2. f[k] = Level(f, k)
        BY <2>1, <4>1
      <4> HIDE DEF Good
      <4>3. g[k] = f[k] /\ (k # 0 => g[k - 1] = f[k - 1])
        BY <3>2, <4>1
      <4> HIDE DEF g
      <4>4. Level(f, k) = Level(g, k)
        BY <1>step, <1>same, <4>3
      <4>5. QED  BY <4>2, <4>3, <4>4
    <3>3. QED  BY <3>1, <3>2
  <2>3. Good(m, g)
    BY <2>2, Zenon
  <2> HIDE DEF Good, g
  <2>4. QED  BY <1>2, <2>3
<1> HIDE DEF T
<1>5. N \in T
  <2>1. \A k \in 0 .. N : k \in T
    BY <1>2, <1>3, <1>4, BoundedInduction
  <2>2. QED  BY <1>2, <2>1
<1>6. Good(N, fn)
  <2>1. \E f : Good(N, f)
    BY <1>5 DEF T
  <2> HIDE DEF Good
  <2>2. QED  BY <2>1 DEF fn
<1>7. fn[n] = Level(fn, n)
  <2>1. n \in 0 .. N
    BY DEF N
  <2>2. QED  BY <1>6, <2>1
<1> HIDE DEF Good
<1>8. QED  BY <1>1, <1>7 DEF Entry

(* Every type of a DID is loaded the same as it is declared. *)
LEMMA SameAsDeclared ==
  ASSUME NEW w, did \in Programs, Parses(did), Regular(did), loaded = LoadDidSource(did, w)
  PROVE  \A n \in 0 .. Unfoldings : \A t \in TypesOf(did) : Same[n][t][t] = TRUE
<1> DEFINE All(n) == \A t \in TypesOf(did) : Same[n][t][t] = TRUE
           U == {n \in 0 .. Unfoldings : All(n)}
<1>1. DOMAIN loaded.objects = TypesOf(did) /\ \A t \in TypesOf(did) : loaded.objects[t] = ObjectOf(did, w, t)
  <2>1. loaded.objects = [t \in TypesOf(did) |-> ObjectOf(did, w, t)]
    BY LoadedParts
  <2>2. QED  BY <2>1
<1>2. \A t : GetType(t) = Denoted(did, t)
  BY RegularParts, FilledAsLinked
<1>3. ASSUME NEW n \in 0 .. Unfoldings, NEW t \in TypesOf(did)
      PROVE  (n = 0 \/ SameForm(Same[n - 1], Denoted(did, t), loaded.objects[GetType(t)])) => Same[n][t][t] = TRUE
  <2> DEFINE F(x, u) == n = 0 \/ SameForm(Same[n - 1], Denoted(did, x), loaded.objects[GetType(u)])
  <2>1. Same[n] = [x \in TypesOf(did) |-> [u \in DOMAIN loaded.objects |-> F(x, u)]]
    BY SameUnfolds
  <2> HIDE DEF F
  <2>2. Same[n][t] = [u \in DOMAIN loaded.objects |-> F(t, u)]
    BY <2>1
  <2>3. Same[n][t][t] = F(t, t)
    BY <1>1, <2>2
  <2>4. QED  BY <2>3 DEF F
<1>4. Unfoldings \in Nat
  BY UnfoldingsAssumption
<1>5. 0 \in U
  <2>1. 0 \in 0 .. Unfoldings
    BY <1>4
  <2>2. All(0)
    BY <1>3, <2>1, Zenon
  <2> HIDE DEF All
  <2>3. QED  BY <2>1, <2>2
<1>6. ASSUME NEW n \in 1 .. Unfoldings, n - 1 \in U PROVE n \in U
  <2>a. n \in 0 .. Unfoldings /\ All(n - 1)
    <3> HIDE DEF All
    <3>1. QED  BY <1>4, <1>6
  <2> SUFFICES ASSUME NEW t \in TypesOf(did) PROVE Same[n][t][t] = TRUE
    <3>1. All(n) => n \in U
      <4> HIDE DEF All
      <4>1. QED  BY <2>a
    <3> HIDE DEF U
    <3>2. QED  BY <3>1, Zenon
  <2> DEFINE d == Denoted(did, t)
  <2>1. d \in TypesOf(did) /\ d.con # "id" /\ (d.con \in {"record", "variant"} => KeepsLabels(d.fields))
    BY RegularParts, DenotedType
  <2>2. \A x \in Parts(d) : Same[n - 1][x][x] = TRUE
    BY <2>a, <2>1, TypesClosed
  <2> HIDE DEF d
  <2>3. SameForm(Same[n - 1], d, ObjectOf(did, w, d))
    BY <2>1, <2>2, FormRead
  <2>4. loaded.objects[GetType(t)] = ObjectOf(did, w, d)
    BY <1>1, <1>2, <2>1 DEF d
  <2>5. SameForm(Same[n - 1], d, loaded.objects[GetType(t)]) => Same[n][t][t] = TRUE
    BY <1>3, <2>a DEF d
  <2>6. QED  BY <2>3, <2>4, <2>5
<1> HIDE DEF U
<1>7. \A n \in 0 .. Unfoldings : n \in U
  BY <1>4, <1>5, <1>6, BoundedInduction
<1>8. \A n \in 0 .. Unfoldings : All(n)
  <2> HIDE DEF All
  <2>1. QED  BY <1>7 DEF U
<1>9. QED  BY <1>8, Zenon

(* The last of some declarations is one of them. *)
LEMMA LastIsOne ==
  ASSUME NEW n \in Nat, NEW S \in SUBSET (1 .. n), S # {}
  PROVE  Max(S) \in S
<1> DEFINE T == {k \in 0 .. n : S \cap (1 .. k) # {} => \E m \in S \cap (1 .. k) : \A i \in S \cap (1 .. k) : m >= i}
<1>1. 0 \in T
  OBVIOUS
<1>2. ASSUME NEW k \in 1 .. n, k - 1 \in T PROVE k \in T
  <2>1. CASE k \in S
    BY <2>1
  <2>2. CASE k \notin S
    <3>1. S \cap (1 .. k) = S \cap (1 .. k - 1)
      BY <2>2
    <3>2. QED  BY <1>2, <3>1
  <2>3. QED  BY <2>1, <2>2
<1> HIDE DEF T
<1>3. \A k \in 0 .. n : k \in T
  BY <1>1, <1>2, BoundedInduction
<1>4. n \in T /\ S \cap (1 .. n) = S
  <2>1. n \in T
    BY <1>3
  <2>2. QED  BY <2>1
<1>5. \E m \in S : \A i \in S : m >= i
  BY <1>4 DEF T
<1>6. QED  BY <1>5 DEF Max

(* A node is a service's when its type is a service. *)
LEMMA ServiceNode ==
  ASSUME NEW t, NEW w, IsType(t)
  PROVE  /\ ConvertType(t, w).type = "Service" <=> t.con = "service"
         /\ t.con = "service" => ConvertType(t, w).value = ConvertMethods(t.methods, w)
<1>1. t.con \in {"prim", "principal", "id", "opt", "vec", "record", "variant", "func", "service"}
  BY DEF IsType
<1>2. CASE t.con = "service"
  <2>1. ConvertType(t, w) = [type |-> "Service", value |-> ConvertMethods(t.methods, w)]
    BY <1>2 DEF ConvertType
  <2>2. QED  BY <1>2, <2>1
<1>3. CASE t.con = "prim"
  BY <1>3 DEF ConvertType
<1>4. CASE t.con = "principal"
  BY <1>4 DEF ConvertType
<1>5. CASE t.con = "id"
  BY <1>5 DEF ConvertType
<1>6. CASE t.con = "opt"
  BY <1>6 DEF ConvertType
<1>7. CASE t.con = "vec"
  BY <1>7 DEF ConvertType
<1>8. CASE t.con = "record"
  BY <1>8 DEF ConvertType
<1>9. CASE t.con = "variant"
  BY <1>9 DEF ConvertType
<1>10. CASE t.con = "func"
  BY <1>10 DEF ConvertType
<1>11. QED  BY <1>1, <1>2, <1>3, <1>4, <1>5, <1>6, <1>7, <1>8, <1>9, <1>10

(* The declarations of service types *)
Services(p) == {i \in DOMAIN p.decs : p.decs[i].type.con = "service"}

LEMMA ServicesLoaded ==
  ASSUME NEW p \in Programs, Parses(p), NEW w
  PROVE  LET data == ParseDid(p, w)
         IN  {i \in DOMAIN data.env : data.nodes[data.env[i].datatype].type = "Service"} = Services(p)
<1> DEFINE data == ParseDid(p, w)
<1>1. /\ data.nodes = [t \in TypesOf(p) |-> ConvertType(t, w)]
      /\ data.env = Env(p)
  BY DEF ParseDid
<1> HIDE DEF data
<1>2. DOMAIN data.env = DOMAIN p.decs /\ \A i \in DOMAIN p.decs : data.env[i].datatype = p.decs[i].type
  BY <1>1 DEF Env
<1>3. \A i \in DOMAIN p.decs : data.nodes[data.env[i].datatype] = ConvertType(p.decs[i].type, w)
  BY <1>1, <1>2, TypesClosed
<1>4. \A i \in DOMAIN p.decs : ConvertType(p.decs[i].type, w).type = "Service" <=> p.decs[i].type.con = "service"
  BY TypesClosed, ServiceNode
<1>5. QED  BY <1>2, <1>3, <1>4 DEF Services, data

(* The last service type of a DID, and the node that it is converted to *)
LEMMA LastService ==
  ASSUME NEW p \in Programs, Parses(p), NEW w, Services(p) # {}
  PROVE  LET data == ParseDid(p, w)
             last == p.decs[Max(Services(p))].type
         IN  /\ last \in TypesOf(p) /\ last.con = "service"
             /\ data.nodes[data.env[Max(Services(p))].datatype].value = ConvertMethods(last.methods, w)
<1> DEFINE data == ParseDid(p, w)
           m == Max(Services(p))
<1>1. Len(p.decs) \in Nat /\ DOMAIN p.decs = 1 .. Len(p.decs)
  BY TypesClosed
<1>2. Services(p) \in SUBSET (1 .. Len(p.decs))
  BY <1>1 DEF Services
<1>3. m \in Services(p)
  BY <1>1, <1>2, LastIsOne
<1> HIDE DEF m
<1>4. m \in DOMAIN p.decs /\ p.decs[m].type.con = "service"
  BY <1>3 DEF Services
<1>5. p.decs[m].type \in TypesOf(p) /\ IsType(p.decs[m].type)
  BY <1>4, TypesClosed
<1>6. /\ data.nodes = [t \in TypesOf(p) |-> ConvertType(t, w)]
      /\ data.env = Env(p)
  BY DEF ParseDid
<1> HIDE DEF data
<1>7. data.env[m].datatype = p.decs[m].type
  BY <1>4, <1>6 DEF Env
<1>8. data.nodes[p.decs[m].type] = ConvertType(p.decs[m].type, w)
  BY <1>5, <1>6
<1>9. data.nodes[p.decs[m].type].value = ConvertMethods(p.decs[m].type.methods, w)
  BY <1>4, <1>5, <1>8, ServiceNode
<1>10. QED  BY <1>4, <1>5, <1>7, <1>9 DEF data, m

(* The entry of the actor: that of the service it is, with the arguments of  *)
(* the constructor, or none.                                                 *)
LEMMA ActorRead ==
  ASSUME NEW p \in Programs, Parses(p), Regular(p), NEW w
  PROVE  /\ ActorEntry(p, w).init = InitArgs(p.actor)
         /\ p.actor = NoActor => ActorEntry(p, w).methods = << >>
         /\ p.actor # NoActor => ActorEntry(p, w).methods = ConvertMethods(Denoted(p, Serv(p.actor)).methods, w)
<1> DEFINE s == Serv(p.actor)
           init == InitArgs(p.actor)
<1>1. CASE p.actor = NoActor
  <2>1. s = NoActor /\ init = << >> /\ NoActor.con = "none"
    BY <1>1 DEF Serv, InitArgs, NoActor
  <2>2. ActorEntry(p, w) = NoEntry
    BY <2>1 DEF ActorEntry
  <2>3. QED  BY <1>1, <2>1, <2>2 DEF NoEntry
<1>2. CASE p.actor # NoActor
  <2>1. s \in TypesOf(p) /\ s.con \in {"service", "id"}
    BY <1>2, TypesClosed
  <2>2. ActorEntry(p, w) = EntryOf(Denoted(p, s), init, w)
    <3>1. CASE s.con = "service"
      <4>1. Denoted(p, s) = s
        BY <3>1, DenotedEnds
      <4>2. QED  BY <3>1, <4>1 DEF ActorEntry, EntryOf
    <3>2. CASE s.con = "id"
      <4>1. NamesOnce(p) /\ Denoted(p, s).con = "service"
        BY <1>2, RegularParts
      <4>2. LookupServiceType(p.decs, s.name, init, w) = EntryOf(Denoted(p, s), init, w)
        BY <2>1, <3>2, <4>1, LookupIs
      <4>3. QED  BY <3>2, <4>2 DEF ActorEntry
    <3>3. QED  BY <2>1, <3>1, <3>2
  <2>3. QED  BY <1>2, <2>2 DEF EntryOf
<1>3. QED  BY <1>1, <1>2

(* The interface is that of one service type of the DID, or empty. *)
LEMMA InterfaceIs ==
  ASSUME NEW p \in Programs, Parses(p), Regular(p)
  PROVE  Interface(p) = << >> \/ \E s \in TypesOf(p) : s.con = "service" /\ Interface(p) = s.methods
<1>1. CASE p.actor # NoActor
  <2>1. Serv(p.actor) \in TypesOf(p)
    BY <1>1, TypesClosed
  <2>2. Denoted(p, Serv(p.actor)) \in TypesOf(p) /\ Denoted(p, Serv(p.actor)).con = "service"
    BY <1>1, <2>1, RegularParts, DenotedType
  <2>3. Interface(p) = Denoted(p, Serv(p.actor)).methods
    BY <1>1 DEF Interface
  <2>4. QED  BY <2>2, <2>3
<1>2. CASE p.actor = NoActor
  <2>1. Interface(p) = IF Services(p) = {} THEN << >> ELSE p.decs[Max(Services(p))].type.methods
    BY <1>2 DEF Interface, Services
  <2>2. QED  BY <2>1, LastService
<1>3. QED  BY <1>1, <1>2

(* The loader binds the methods of the interface. *)
LEMMA MethodsRead ==
  ASSUME NEW p \in Programs, Parses(p), Regular(p), NEW w
  PROVE  MethodNodes(ParseDid(p, w)) = ConvertMethods(Interface(p), w)
<1> DEFINE data == ParseDid(p, w)
           m == Max(Services(p))
<1>1. data.actor = ActorEntry(p, w)
  BY DEF ParseDid
<1>2. MethodNodes(data) = CASE data.actor.methods # << >> -> data.actor.methods
                            [] data.actor.methods = << >> /\ Services(p) # {} -> data.nodes[data.env[m].datatype].value
                            [] OTHER -> << >>
  BY ServicesLoaded DEF MethodNodes
<1>3. Services(p) # {} => data.nodes[data.env[m].datatype].value = ConvertMethods(p.decs[m].type.methods, w)
  BY LastService
<1> HIDE DEF data, m
<1>4. ConvertMethods(<< >>, w) = << >>
  BY DEF ConvertMethods
<1>5. CASE p.actor = NoActor
  <2>1. data.actor.methods = << >>
    BY <1>1, <1>5, ActorRead
  <2>2. Interface(p) = IF Services(p) = {} THEN << >> ELSE p.decs[m].type.methods
    BY <1>5 DEF Interface, Services, m
  <2>3. CASE Services(p) = {}
    BY <1>2, <1>4, <2>1, <2>2, <2>3 DEF data
  <2>4. CASE Services(p) # {}
    BY <1>2, <1>3, <2>1, <2>2, <2>4 DEF data
  <2>5. QED  BY <2>3, <2>4
<1>6. CASE p.actor # NoActor
  <2>1. Interface(p) = Denoted(p, Serv(p.actor)).methods
    BY <1>6 DEF Interface
  <2>2. data.actor.methods = ConvertMethods(Interface(p), w)
    BY <1>1, <1>6, <2>1, ActorRead
  <2>3. CASE data.actor.methods # << >>
    BY <1>2, <2>2, <2>3 DEF data
  <2>4. CASE data.actor.methods = << >>
    <3>1. \E S : Interface(p) \in Seq(S)
      <4>1. CASE Interface(p) = << >>
        BY <4>1
      <4>2. CASE \E s \in TypesOf(p) : s.con = "service" /\ Interface(p) = s.methods
        BY <4>2, TypesClosed DEF IsType
      <4>3. QED  BY <4>1, <4>2, InterfaceIs
    <3>2. DOMAIN ConvertMethods(Interface(p), w) = DOMAIN Interface(p)
      BY DEF ConvertMethods
    <3>3. DOMAIN Interface(p) = {}
      BY <2>2, <2>4, <3>2
    <3>4. Interface(p) = << >>
      BY <3>1, <3>3
    <3>5. Services(p) = {}
      BY <1>6, <3>4, RegularParts DEF Services
    <3>6. QED  BY <1>2, <1>4, <2>4, <3>4, <3>5 DEF data
  <2>5. QED  BY <2>3, <2>4
<1>7. QED  BY <1>5, <1>6

(* A method declared with a func type is bound with its type. *)
LEMMA MethodRead ==
  ASSUME NEW p \in Programs, Parses(p), NEW w, NEW m, m.type \in TypesOf(p), m.type.con = "func",
         NEW below, \A x \in TypesOf(p) : below[x][x] = TRUE
  PROVE  ConvertMethod(m, w).name = m.id /\ SameForm(below, m.type, FuncType(ConvertMethod(m, w)))
<1> DEFINE t == m.type
<1>1. IsType(t) /\ Parts(t) \subseteq TypesOf(p)
  BY TypesClosed
<1>2. ConvertMethod(m, w) = [name |-> m.id, args |-> t.args, rets |-> t.rets, modes |-> Modes(t.modes, w)]
  BY DEF ConvertMethod
<1>3. NormalizeModes(Modes(t.modes, w)) = t.modes
  BY <1>1, ModesRead DEF IsType
<1>4. FuncType(ConvertMethod(m, w)) = [con |-> "func", args |-> t.args, rets |-> t.rets, annotations |-> t.modes]
  BY <1>2, <1>3 DEF FuncType
<1>5. SameAll(below, t.args, t.args) /\ SameAll(below, t.rets, t.rets)
  BY <1>1 DEF SameAll, Parts, ToSet
<1>6. SameForm(below, t, FuncType(ConvertMethod(m, w)))
  BY <1>4, <1>5 DEF SameForm
<1>7. QED  BY <1>2, <1>6

(* An interface is a sequence of methods, ... *)
LEMMA InterfaceSequence ==
  ASSUME NEW p \in Programs, Parses(p), Regular(p)
  PROVE  \E n \in Nat : DOMAIN Interface(p) = 1 .. n
<1>1. CASE Interface(p) = << >>
  BY <1>1
<1>2. CASE \E s \in TypesOf(p) : s.con = "service" /\ Interface(p) = s.methods
  <2>1. PICK S : Interface(p) \in Seq(S)
    BY <1>2, TypesClosed DEF IsType
  <2>2. QED  BY <2>1
<1>3. QED  BY <1>1, <1>2, InterfaceIs

(* ... whose names differ. *)
LEMMA InterfaceNames ==
  ASSUME NEW p \in Programs, Parses(p), Regular(p)
  PROVE  \A i, j \in DOMAIN Interface(p) : Interface(p)[i].id = Interface(p)[j].id => i = j
<1>1. CASE Interface(p) = << >>
  BY <1>1
<1>2. CASE \E s \in TypesOf(p) : s.con = "service" /\ Interface(p) = s.methods
  BY <1>2 DEF Regular
<1>3. QED  BY <1>1, <1>2, InterfaceIs

(* What LoadsAsDeclared says, of the DID and what is loaded *)
LEMMA LoadedAll ==
  ASSUME NEW w, did \in Programs, Parses(did), Regular(did), loaded = LoadDidSource(did, w)
  PROVE  /\ DOMAIN loaded.methods = DOMAIN Interface(did)
         /\ \A i \in DOMAIN loaded.methods :
              /\ loaded.methods[i].name = Interface(did)[i].id
              /\ SameForm(Same[Unfoldings], Interface(did)[i].type, loaded.methods[i].type)
         /\ SameAll(Same[Unfoldings], InitArgs(did.actor), loaded.arguments)
<1> DEFINE below == Same[Unfoldings]
           nodes == ConvertMethods(Interface(did), w)
<1>1. \A t \in TypesOf(did) : below[t][t] = TRUE
  <2>1. Unfoldings \in 0 .. Unfoldings
    BY UnfoldingsAssumption
  <2>2. QED  BY <2>1, SameAsDeclared
<1>2. /\ loaded.arguments = ActorEntry(did, w).init
      /\ DOMAIN loaded.methods = DOMAIN MethodsByName(MethodNodes(ParseDid(did, w)))
      /\ \A i \in DOMAIN loaded.methods :
           loaded.methods[i] = [name |-> MethodsByName(MethodNodes(ParseDid(did, w)))[i].name,
                                type |-> FuncType(MethodsByName(MethodNodes(ParseDid(did, w)))[i])]
  BY LoadedParts
<1>3. /\ DOMAIN MethodsByName(MethodNodes(ParseDid(did, w))) = DOMAIN nodes
      /\ \A i \in DOMAIN nodes : MethodsByName(MethodNodes(ParseDid(did, w)))[i] = nodes[i]
  <2>1. MethodNodes(ParseDid(did, w)) = nodes
    BY MethodsRead
  <2>2. /\ DOMAIN nodes = DOMAIN Interface(did)
        /\ \A i \in DOMAIN nodes : nodes[i].name = Interface(did)[i].id
    BY DEF ConvertMethods, ConvertMethod
  <2>3. PICK n \in Nat : DOMAIN Interface(did) = 1 .. n
    BY InterfaceSequence
  <2>4. \A i, j \in 1 .. n : Interface(did)[i].id = Interface(did)[j].id => i = j
    BY <2>3, InterfaceNames
  <2> HIDE DEF nodes
  <2>5. \A i, j \in 1 .. n : nodes[i].name = nodes[j].name => i = j
    BY <2>2, <2>3, <2>4
  <2>6. QED  BY <2>1, <2>2, <2>3, <2>5, DistinctMethods
<1>4. DOMAIN nodes = DOMAIN Interface(did) /\ \A i \in DOMAIN Interface(did) : nodes[i] = ConvertMethod(Interface(did)[i], w)
  BY DEF ConvertMethods
<1> HIDE DEF below, nodes
<1>5. ASSUME NEW i \in DOMAIN Interface(did)
      PROVE  Interface(did)[i].type \in TypesOf(did) /\ Interface(did)[i].type.con = "func"
  <2>1. PICK s \in TypesOf(did) : s.con = "service" /\ Interface(did) = s.methods
    BY InterfaceIs
  <2>2. s.methods[i].type \in Parts(s)
    BY <2>1 DEF Parts
  <2>3. s.methods[i].type.con = "func"
    BY <2>1, RegularParts
  <2>4. QED  BY <2>1, <2>2, <2>3, TypesClosed
<1>6. ASSUME NEW i \in DOMAIN loaded.methods
      PROVE  /\ loaded.methods[i].name = Interface(did)[i].id
             /\ SameForm(below, Interface(did)[i].type, loaded.methods[i].type)
  <2>1. i \in DOMAIN Interface(did)
    BY <1>2, <1>3, <1>4
  <2> DEFINE m == Interface(did)[i]
  <2>2. loaded.methods[i] = [name |-> ConvertMethod(m, w).name, type |-> FuncType(ConvertMethod(m, w))]
    BY <1>2, <1>3, <1>4, <2>1
  <2>3. m.type \in TypesOf(did) /\ m.type.con = "func"
    BY <1>5, <2>1
  <2> HIDE DEF m
  <2>4. ConvertMethod(m, w).name = m.id /\ SameForm(below, m.type, FuncType(ConvertMethod(m, w)))
    BY <1>1, <2>3, MethodRead
  <2>5. QED  BY <2>2, <2>4 DEF m
<1>7. SameAll(below, InitArgs(did.actor), loaded.arguments)
  <2>1. loaded.arguments = InitArgs(did.actor)
    BY <1>2, ActorRead
  <2>2. \A i \in DOMAIN InitArgs(did.actor) : InitArgs(did.actor)[i] \in TypesOf(did)
    BY TypesClosed
  <2>3. QED  BY <1>1, <2>1, <2>2 DEF SameAll
<1>8. QED  BY <1>2, <1>3, <1>4, <1>6, <1>7 DEF below
-----------------------------------------------------------------------------
(* Whatever a DID declares, if the loader drops nothing of it, its methods   *)
(* and its constructor's arguments are loaded with the types that it         *)
(* declares, to any depth and with either wheel.                             *)
THEOREM LoadedAsDeclared == Spec => []LoadsAsDeclared
<1>1. IInv => LoadsAsDeclared
  <2> SUFFICES ASSUME IInv, loaded # None, Regular(did) PROVE LoadsAsDeclared
    BY DEF LoadsAsDeclared
  <2>1. <<did, wheel>> \in DOMAIN Load /\ loaded = Load[<<did, wheel>>]
    BY DEF IInv, Phases, TypeOK
  <2>2. Load = [p \in {q \in Programs : Parses(q)} \X Wheels |-> LoadDidSource(p[1], p[2])]
    BY LoaderAssumption DEF Loader
  <2>3. did \in Programs /\ Parses(did) /\ loaded = LoadDidSource(did, wheel)
    BY <2>1, <2>2
  <2>4. QED  BY <2>3, LoadedAll DEF LoadsAsDeclared
<1>2. QED  BY <1>1, AlwaysIInv, PTL
=============================================================================
