---------------------------- MODULE NodeKeyCache ----------------------------
(***************************************************************************)
(* The NodeKeyCache of an Agent: node id |-> (public key, valid_until).    *)
(* The subnet's id is fixed here, and so is a node's key once it is known  *)
(* (a node id is derived from its key), so an entry is its valid_until and, *)
(* as history, the clear() after which its lookup was sent.                *)
(***************************************************************************)
EXTENDS Integers

CONSTANTS
  Nodes,  \* the node ids that occur in signatures
  TTL     \* ttl_ns

ASSUME TTLAssumption == TTL \in Nat \ {0}

VARIABLES
  now,    \* time.time_ns(), in ticks
  cache,  \* NodeKeyCache.cache
  clears  \* how many times clear() was called

NoEntry == [until |-> -1, since |-> -1]

Entries == [until : Nat, since : Nat]

CacheTypeOK ==
  /\ now \in Nat
  /\ cache \in [Nodes -> Entries \cup {NoEntry}]
  /\ clears \in Nat

CacheInit ==
  /\ now = 0
  /\ cache = [n \in Nodes |-> NoEntry]
  /\ clears = 0

(* Mutant: an entry never expires. *)
HitAnyAge(n) == cache[n] # NoEntry

(* get(): a key still valid is returned, ... *)
Hit(n) == cache[n] # NoEntry /\ now < cache[n].until

(* ... and an expired one is removed on the way. *)
Get(n) ==
  cache' = IF Hit(n) THEN cache ELSE [cache EXCEPT ![n] = NoEntry]

(* set(): the time to live counts from now, not from the time of the state *)
(* that was read.                                                          *)
Set(n, since) ==
  cache' = [cache EXCEPT ![n] = [until |-> now + TTL, since |-> since]]

Clear ==
  /\ cache' = [n \in Nodes |-> NoEntry]
  /\ clears' = clears + 1
=============================================================================
