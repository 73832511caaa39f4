---------------------------- MODULE MCAgentCalls ----------------------------
(* Two calls of one agent, to one or two canisters, the second one with the *)
(* text of a canister or with a mistyped one.                               *)
EXTENDS AgentCalls, SequencesExt

CONSTANTS c1, c2

CanisterA == <<0, 1>>
CanisterB == <<200, 17, 5>>

MCCanisters == {CanisterA, CanisterB}

TextA == ToStr(CanisterA)
TextB == ToStr(CanisterB)

(* A character replaced, left out, doubled, or exchanged with the next one; *)
(* the sixth is the dash, and of the bits of the last one some are unused.  *)
Mistyped(text) ==
  UNION {{[text EXCEPT ![i] = (@ + 1) % 34], RemoveAt(text, i), InsertAt(text, i, text[i])}
           : i \in {1, 6, Len(text)}}
  \cup {[text EXCEPT ![i] = text[i + 1], ![i + 1] = text[i]] : i \in {2, 6}}

InUpperCase(text) == [i \in DOMAIN text |-> Upper(text[i])]

MCTexts ==
  [c \in {c1, c2} |->
     IF c = c1 THEN {TextA}
     ELSE {TextB, InUpperCase(TextA)} \cup Mistyped(TextA)]

Link(signer, pubkey, expires, targets, form, digits) ==
  [signer |-> signer, pubkey |-> pubkey, expires |-> expires, targets |-> targets,
   expiration |-> [form |-> form, digits |-> digits]]

AnonymousLogin == [key |-> Unsigned, root |-> Unsigned, links |-> << >>]

KeyLogin == [key |-> "k", root |-> "k", links |-> << >>]

(* Time starts at 10; a link expires at 11, another one after the run. *)
DelegatedLogin ==
  [key |-> "k", root |-> "r",
   links |-> <<Link("r", "m", 20, Everywhere, "0x", <<1, 4>>),
               Link("m", "k", 11, Everywhere, "decimal", <<1, 1>>)>>]

(* A delegation whose expiration is in hex, as its other numbers are. *)
ExportedLogin(expires, digits) ==
  [key |-> "k", root |-> "r",
   links |-> <<Link("r", "k", expires, Everywhere, "hex", digits)>>]

MCLogins == {AnonymousLogin, KeyLogin, DelegatedLogin, ExportedLogin(26, <<1, 10>>)}

SomeSkew == {-1, 0}
=============================================================================
