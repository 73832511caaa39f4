------------------------------ MODULE MCCanister ------------------------------
(* DIDs with the forms that the loader treats apart, and every way to call   *)
(* an attribute with up to two arguments.                                    *)
EXTENDS DeclaredCanister

nat == PrimT("nat")
text == PrimT("text")

Method(words, args, rets, modes) == Binding(words, FuncT(args, rets, modes))

get == <<"get">>
set == <<"set">>

(* A list, and a tree used before it is declared; the service has two names. *)
Recursive ==
  Prog(<<TypD("List", OptT(RecordT(<<Field(Number(0), nat), Field(Number(1), VarT("List"))>>))),
         TypD("Self", VarT("Actor")),
         TypD("Forest", VecT(VarT("Tree"))),
         TypD("Tree", VariantT(<<Field(Name(Word("leaf")), PrimT("null")),
                                 Field(Name(Word("node")), VarT("Forest"))>>)),
         TypD("Actor", ServT(<<Method(get, <<VarT("Tree")>>, <<VarT("List")>>, <<"query">>),
                               Method(set, <<VarT("List"), PrincipalT>>, << >>, << >>)>>)),
         TypD("Other", ServT(<<Method(get, << >>, << >>, << >>)>>))>>,
       ClassT(<<VarT("Forest"), text>>, VarT("Self")))

(* Every mode, and references to functions and services *)
Modal ==
  Prog(<<TypD("Callback", FuncT(<<nat>>, << >>, <<"composite_query">>))>>,
       ServT(<<Method(get, << >>, <<nat>>, <<"query">>),
               Method(<<"scan">>, <<VarT("Callback")>>, <<text>>, <<"composite_query">>),
               Method(<<"ping">>, <<RecordT(<<Field(Name(Word("a")), nat), Field(Name(Word("b")), text)>>)>>,
                      << >>, <<"oneway">>),
               Method(set, <<nat, ServT(<<Method(get, << >>, << >>, << >>)>>)>>, << >>, << >>)>>))

(* No service: the last service type is taken for it. *)
TypesOnly ==
  Prog(<<TypD("First", ServT(<<Method(set, << >>, << >>, << >>)>>)),
         TypD("Last", ServT(<<Method(get, <<text>>, <<VarT("First")>>, <<"query">>)>>)),
         TypD("Pair", RecordT(<<Field(Number(0), nat), Field(Number(1), text)>>))>>,
       NoActor)

Serving(ms) == Prog(<< >>, ServT(ms))

(* Methods named for each other or for what the instance keeps *)
GetAsync == Method(<<"get", "async">>, <<text>>, << >>, << >>)
Get == Method(get, <<nat>>, << >>, <<"query">>)
Clashing ==
  {Serving(<<Get, GetAsync>>), Serving(<<GetAsync, Get>>)}
    \cup {Serving(<<Method(name, << >>, << >>, << >>), Get>>) : name \in OwnAttributes}
    \cup {Serving(<<Get, Method(name, << >>, << >>, << >>)>>) : name \in OwnAttributes}

Unusable ==
  {Garbled, Serving(<< >>), Prog(<<TypD("T", nat)>>, NoActor),
   Prog(<<Import("other.did")>>, ServT(<<Method(get, <<VarT("Elsewhere")>>, << >>, << >>)>>))}

ByName ==
  Prog(<<TypD("Getter", FuncT(<<nat>>, <<text>>, <<"query">>))>>,
       ServT(<<Binding(get, VarT("Getter"))>>))

(* What the loader does not carry: a method declared by a name, two methods  *)
(* of one name, an empty actor beside another service type, a label of       *)
(* digits, an undeclared name, a name declared twice                         *)
Irregular ==
  {ByName,
   Serving(<<Get, Method(set, << >>, << >>, << >>), Method(get, <<text, text>>, << >>, << >>)>>),
   Prog(<<TypD("Other", ServT(<<Get>>))>>, ServT(<< >>)),
   Serving(<<Method(get, <<RecordT(<<Field(Name(Digits(0)), nat), Field(Number(0), text)>>)>>,
                    << >>, << >>)>>),
   Serving(<<Method(get, <<VarT("Elsewhere")>>, << >>, << >>)>>),
   Prog(<<TypD("T", nat), TypD("T", text)>>, ServT(<<Method(get, <<VarT("T")>>, << >>, << >>)>>))}

MCPrograms == {Recursive, Modal, TypesOnly} \cup Clashing \cup Unusable \cup Irregular

MCCalls ==
  [attr   : {get, set, <<"scan">>, <<"ping">>, <<"agent">>, <<"methods">>, <<"unknown">>,
             <<"get", "async">>, <<"ping", "async">>, <<"get", "async", "async">>},
   args   : {<< >>, <<{"x"}>>, <<{"x"}, {"y"}>>},
   kwargs : {{}, {"a"}, {"a", "b", "timeout"}}]
=============================================================================
