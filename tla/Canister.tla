------------------------------- MODULE Canister -------------------------------
(***************************************************************************)
(* Canister: the DID is given or fetched with two reads of the canister's  *)
(* metadata, loaded, and each of its methods bound to two attributes; a    *)
(* call through an attribute becomes a query or an update of the agent.    *)
(* Names are sequences of words, <<"get", "async">> for get_async; a value *)
(* is the set of its fields.  What the loader makes of a DID is the        *)
(* constant Load here, and Did's in DeclaredCanister.                      *)
(***************************************************************************)
EXTENDS SequencesExt, Integers

CONSTANTS
  Programs,    \* DIDs a caller may give or a canister publish
  Wheels,      \* versions of the Rust extension: {"new", "old"} or one of them
  Load,        \* Load[<<text, wheel>>]: what load_did_source returns, if parse_did
               \* does not raise
  Calls        \* what a caller does: [attr, args, kwargs]

(* The methods, and a method's argument types, are sequences. *)
LoadAssumption ==
  /\ DOMAIN Load \subseteq Programs \X Wheels
  /\ \A p \in DOMAIN Load :
       LET ms == Load[p].methods
       IN  /\ ms \in Seq(ToSet(ms))
           /\ \A i \in DOMAIN ms :
                /\ ms[i].name \in Seq(STRING)
                /\ ms[i].type.args \in Seq(ToSet(ms[i].type.args))

(* So are the positional arguments of a call. *)
CallAssumption == \A c \in Calls : c.args \in Seq(ToSet(c.args))

ASSUME LoadAssumption
ASSUME CallAssumption

None == [con |-> "absent"]

VARIABLES
  pc,          \* "new", "public", "private", "binding", "ready" or "failed"
  wheel,       \* the Rust extension installed
  did,         \* candid_str
  loaded,      \* what load_did_source returned
  bound,       \* the number of methods bound
  methods,     \* the keys of self.methods
  attrs,       \* the instance's attributes
  call,        \* the call made last
  sent         \* what it had the agent send, or None

vars == <<pc, wheel, did, loaded, bound, methods, attrs, call, sent>>

(* A bound method, and what __init__ sets *)
Bound(method, async) == [method |-> method, async |-> async]
Own == Bound(0, FALSE)

OwnAttributes ==
  {<<"agent">>, <<"canister_id">>, <<"candid_str">>, <<"methods">>, <<"actor">>, <<"init_args">>}

AsyncName(name) == Append(name, "async")

Init ==
  /\ pc = "new"
  /\ wheel \in Wheels
  /\ did = None
  /\ loaded = None
  /\ bound = 0
  /\ methods = {}
  /\ attrs = [name \in OwnAttributes |-> Own]
  /\ call = None
  /\ sent = None
-----------------------------------------------------------------------------
(* _parse_did up to its loop: parse_did raises, or there is no method. *)
Parse(text) ==
  /\ did' = text
  /\ loaded' = IF <<text, wheel>> \in DOMAIN Load THEN Load[<<text, wheel>>] ELSE None
  /\ pc' = IF loaded' # None /\ loaded'.methods # << >> THEN "binding" ELSE "failed"

(* __init__ with candid_str, with auto_fetch_candid, and with neither *)
Given ==
  /\ pc = "new"
  /\ \E text \in Programs : Parse(text)
  /\ UNCHANGED <<wheel, bound, methods, attrs, call, sent>>

Fetch ==
  /\ pc = "new"
  /\ pc' = "public"
  /\ UNCHANGED <<wheel, did, loaded, bound, methods, attrs, call, sent>>

Bare ==
  /\ pc = "new"
  /\ pc' = "ready"
  /\ UNCHANGED <<wheel, did, loaded, bound, methods, attrs, call, sent>>

(* _fetch_candid_from_ic: one read after the other.  A read that raises, for *)
(* whatever reason, is one that found nothing.                               *)
ReadMetadata(section, next) ==
  /\ pc = section
  /\ \/ \E text \in Programs : Parse(text)
     \/ /\ pc' = next
        /\ UNCHANGED <<did, loaded>>
  /\ UNCHANGED <<wheel, bound, methods, attrs, call, sent>>

ReadPublic == ReadMetadata("public", "private")
ReadPrivate == ReadMetadata("private", "failed")

(* Mutant: what is bound is the method that the loop ends with. *)
LastMethod(i, async) == Bound(Len(loaded.methods), async)

(* Mutant: both attributes get the synchronous method. *)
SyncMethod(i, async) == Bound(i, FALSE)

(* _create_method and _create_async_method close over name and method_type. *)
CreateMethod(i, async) == Bound(i, async)

(* setattr *)
SetAttr(as, name, value) ==
  [x \in DOMAIN as \cup {name} |-> IF x = name THEN value ELSE as[x]]

(* One turn of the loop of _parse_did; self.methods may be a method by now. *)
Bind ==
  LET name == loaded.methods[bound + 1].name
  IN  /\ pc = "binding"
      /\ IF attrs[<<"methods">>] = Own
         THEN /\ methods' = methods \cup {name}
              /\ bound' = bound + 1
              /\ attrs' = SetAttr(SetAttr(attrs, name, CreateMethod(bound + 1, FALSE)),
                                  AsyncName(name), CreateMethod(bound + 1, TRUE))
              /\ pc' = IF bound' = Len(loaded.methods) THEN "ready" ELSE pc
         ELSE /\ pc' = "failed"
              /\ UNCHANGED <<bound, methods, attrs>>
      /\ UNCHANGED <<wheel, did, loaded, call, sent>>
-----------------------------------------------------------------------------
Control == {"verify_certificate", "timeout"}

(* Keywords make one record, when nothing else is given. *)
Arguments(c, type) ==
  IF c.kwargs \ Control # {} /\ c.args = << >> /\ Len(type.args) = 1
  THEN <<c.kwargs \ Control>> ELSE c.args

(* Mutant: the mode is taken for the endpoint. *)
ModeAsEndpoint(type) == IF type.annotations = << >> THEN "update" ELSE type.annotations[1]

Endpoint(type) ==
  IF ToSet(type.annotations) \cap {"query", "composite_query"} # {} THEN "query" ELSE "update"

(* The bodies of method and async_method: the agent is asked only with as    *)
(* many arguments as there are types, and if agent and canister_id are what  *)
(* __init__ made them.                                                       *)
Request(attr, c) ==
  LET type == loaded.methods[attr.method].type
      args == Arguments(c, type)
  IN  IF \/ Len(args) # Len(type.args)
         \/ attrs[<<"agent">>] # Own
         \/ attrs[<<"canister_id">>] # Own
      THEN None
      ELSE [con    |-> Endpoint(type),
            async  |-> attr.async,
            method |-> loaded.methods[attr.method].name,
            arg    |-> [i \in DOMAIN args |-> [type |-> type.args[i], value |-> args[i]]],
            rets   |-> type.rets]

(* An attribute is found, or __getattr__ raises; one that is no method is    *)
(* not called.                                                               *)
Call(c) ==
  /\ pc = "ready"
  /\ call' = c
  /\ sent' = IF c.attr \in DOMAIN attrs \ {name \in OwnAttributes : attrs[name] = Own}
             THEN Request(attrs[c.attr], c) ELSE None
  /\ UNCHANGED <<pc, wheel, did, loaded, bound, methods, attrs>>

Next ==
  \/ Given \/ Fetch \/ Bare
  \/ ReadPublic \/ ReadPrivate
  \/ Bind
  \/ \E c \in Calls : Call(c)

Spec == Init /\ [][Next]_vars
-----------------------------------------------------------------------------
TypeOK ==
  /\ pc \in {"new", "public", "private", "binding", "ready", "failed"}
  /\ wheel \in Wheels
  /\ did \in Programs \cup {None}
  /\ loaded # None => /\ loaded = Load[<<did, wheel>>]
                      /\ bound <= Len(loaded.methods)
                      /\ methods = {loaded.methods[i].name : i \in 1..bound}
  /\ \A name \in DOMAIN attrs :
       attrs[name].method \in 0..bound /\ attrs[name].async \in BOOLEAN
  /\ call \in Calls \cup {None}
  /\ sent # None => sent.con \in {"query", "update"} /\ sent.async \in BOOLEAN

(* An interface whose methods' names, with and without async, are all        *)
(* different, from each other and from what the instance keeps               *)
Usable(ms) ==
  LET names == {ms[i].name : i \in DOMAIN ms}
  IN  /\ ms # << >>
      /\ \A i, j \in DOMAIN ms : ms[i].name = ms[j].name => i = j
      /\ names \cap (OwnAttributes \cup {AsyncName(name) : name \in names}) = {}

(* The constructor accepts every DID whose methods have names of their own,  *)
(* and binds each of them under both of its names.                           *)
UsableIsBound ==
  loaded # None /\ Usable(loaded.methods) =>
    /\ pc # "failed"
    /\ pc = "ready" =>
         \A i \in DOMAIN loaded.methods :
           LET name == loaded.methods[i].name
           IN  /\ {name, AsyncName(name)} \subseteq DOMAIN attrs
               /\ attrs[name] = Bound(i, FALSE)
               /\ attrs[AsyncName(name)] = Bound(i, TRUE)

(* The call of an attribute reaches, if anything, the method it is named     *)
(* for: at the endpoint that its modes ask for, with the values the caller   *)
(* gave, or its keywords as one record, each with the declared type;         *)
(* whatever the methods are called and in whichever order they are bound.    *)
CallsAsNamed ==
  sent # None =>
    \E i \in DOMAIN loaded.methods :
      LET method == loaded.methods[i]
          values == [a \in DOMAIN sent.arg |-> sent.arg[a].value]
      IN  /\ call.attr = IF sent.async THEN AsyncName(method.name) ELSE method.name
          /\ sent.method = method.name
          /\ sent.con = IF \E a \in DOMAIN method.type.annotations :
                             method.type.annotations[a] \in {"query", "composite_query"}
                        THEN "query" ELSE "update"
          /\ Len(sent.arg) = Len(method.type.args)
          /\ \A a \in DOMAIN sent.arg : sent.arg[a].type = method.type.args[a]
          /\ \/ values = call.args
             \/ /\ call.args = << >>
                /\ values = <<call.kwargs \ Control>>
          /\ sent.rets = method.type.rets
=============================================================================
