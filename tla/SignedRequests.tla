--------------------------- MODULE SignedRequests ---------------------------
(***************************************************************************)
(* What an Agent puts its name to: identities (Identity, DelegateIdentity, *)
(* _map_delegation), request ids (to_request_id, encode_list) and envelopes *)
(* (sign_request).  Hashes and signatures are ideal: a hash is the term     *)
(* that was hashed, a signature says who signed what for which purpose.     *)
(***************************************************************************)
EXTENDS Integers, Sequences

Hash(content) == <<"sha256", content>>

Signature(key, domain, content) == <<key, domain, content>>

Unsigned == "None"                     \* the pubkey and the signature of nobody

(* principals of users *)
Anonymous               == <<"anonymous">>
SelfAuthenticating(key) == <<"self", key>>
-----------------------------------------------------------------------------
(***************************************************************************)
(* A delegation as a wallet exports it.  Every link passes the right to    *)
(* sign on to the key pubkey until expires, for all canisters or for       *)
(* targets; its signer's signature covers these three.  expiration is how  *)
(* the time is written: digits, in a form.                                 *)
(***************************************************************************)
Forms == {"decimal", "0x", "hex"}     \* 26 or "26"; "0x1a"; "1a"

Everywhere == "everywhere"             \* no targets

Positional(digits, base) ==
  LET value[k \in 0 .. Len(digits)] ==
        IF k = 0 THEN 0 ELSE base * value[k - 1] + digits[k]
  IN  value[Len(digits)]

Unreadable == -1                       \* int() raises ValueError

(* Without the prefix the digits are taken as decimal ones. *)
Expiration(written) ==
  IF written.form = "0x" THEN Positional(written.digits, 16)
  ELSE IF \A i \in DOMAIN written.digits : written.digits[i] < 10
       THEN Positional(written.digits, 10) ELSE Unreadable

MapDelegation(link) ==
  [pubkey     |-> link.pubkey,
   expiration |-> Expiration(link.expiration),
   signature  |-> Signature(link.signer, "delegation",
                            <<link.pubkey, link.expires, link.targets>>)]

(***************************************************************************)
(* An identity: the key it signs with, the key whose principal it acts as  *)
(* (publicKey; its own without a delegation), and the delegations from the *)
(* one to the other.                                                       *)
(***************************************************************************)
Identity(login) ==
  [key  |-> login.key,
   root |-> login.root,
   chain |-> [i \in DOMAIN login.links |-> MapDelegation(login.links[i])]]

(* Mutant: the ValueError is caught. *)
ReadSomehow(login) == TRUE

Readable(login) ==
  \A i \in DOMAIN login.links : Expiration(login.links[i].expiration) # Unreadable

Sender(iden) ==
  IF iden.root = Unsigned THEN Anonymous ELSE SelfAuthenticating(iden.root)
-----------------------------------------------------------------------------
(***************************************************************************)
(* to_request_id: the hash of the set of the hashed fields and values.  A  *)
(* field that a request does not have is one whose value is Absent.        *)
(***************************************************************************)
Absent == "absent"

EncodeList(labels) == [i \in DOMAIN labels |-> Hash(labels[i])]

EncodePaths(paths) == EncodeList([i \in DOMAIN paths |-> EncodeList(paths[i])])

HashValue(field, value) ==
  Hash(IF field = "paths" THEN EncodePaths(value) ELSE value)

(* Mutant: the nonce is no part of the id. *)
IdWithoutNonce(req) ==
  Hash({<<Hash(f), HashValue(f, req[f])>> : f \in DOMAIN req \ {"nonce"}})

(* Mutant: the expiry is no part of the id. *)
IdWithoutExpiry(req) ==
  Hash({<<Hash(f), HashValue(f, req[f])>> : f \in DOMAIN req \ {"ingress_expiry"}})

ToRequestId(req) ==
  Hash({<<Hash(f), HashValue(f, req[f])>> : f \in DOMAIN req})

(* Mutant: the public key in the envelope is the one that signed. *)
SignedByItself(req, iden) ==
  [content |-> req, sender_pubkey |-> iden.key,
   sender_sig |-> Signature(iden.key, "ic-request", ToRequestId(req)),
   sender_delegation |-> iden.chain]

SignRequest(req, iden) ==
  [content           |-> req,
   sender_pubkey     |-> iden.root,
   sender_sig        |-> IF iden.key = Unsigned THEN <<Unsigned>>
                         ELSE Signature(iden.key, "ic-request", ToRequestId(req)),
   sender_delegation |-> iden.chain]
=============================================================================
