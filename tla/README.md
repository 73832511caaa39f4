# Formal models of icp-py-core

TLA+ models of the Python agent for the Internet Computer in `src/`, checked
with TLC on small instances, with proofs checked by TLAPS for every value of
the constants. Source lines are given as `agent.py:1810` for
`src/src/icp_agent/agent.py`, and so on; `PROJECT.json` maps every definition
to its lines.

## 1. The system

| component | state | operations | modelled in |
|---|---|---|---|
| Update calls (`agent.py` `update*`, `update_raw*`, `poll*`) | none between calls; within one: start, backoff, request_accepted | post the signed call, conclude from its certificate, or poll until terminal or timed out | UpdateCall, Subnet, CallPromise |
| Query calls (`query*`, `_verify_query_response_signatures*`) | none between calls | query, find the subnet, check each signature's time, fetch the node's key, verify | QueryCall |
| NodeKeyCache (`agent.py:418`) | entries with expiry, shared by all queries of an Agent | get, set, clear | NodeKeyCache |
| Reading state (`read_state_raw`, `request_status_raw`, `_get_node_public_key`) | none | one exchange, then certificate checks | steps of UpdateCall and QueryCall |
| HTTP client (`client.py`) | httpx clients | exchanges with timeouts; turns httpx errors into TransportError | steps of UpdateCall and QueryCall |
| Certificates (`certificate.py`) | the parsed certificate | lookup, list_paths, tree_digest, check_delegation, verify_cert, freshness | HashTree, Certificate, freshness in UpdateCall |
| Candid (`candid.py`) | the type table while encoding, the pipe while decoding | encode, decode, checkType, name | LEB128, CandidTypes, Candid |
| Request ids, signing (`agent.py:112-222`, `369-411`) | nonce factory | to_request_id, encode_list, sign_request | SignedRequests, AgentCalls |
| Identity, delegation (`identity.py`) | the key, the delegations read | sign, sender, from_json | SignedRequests; key derivation and PEM are not modelled |
| Principal (`principal.py`) | the bytes | to_str, from_str | PrincipalText; account ids and from_hex are not modelled |
| DID loader, Rust parser (`did_loader.py`, `lib.rs`) | type_env while a DID is loaded | parse_did, load_did_source | Did |
| Canister (`canister.py`) | DID, methods, bound attributes | the constructor and its fetch, calls of attributes | Canister, DeclaredCanister |
| Ready-made canisters, system state, errors | none | one-line calls | not modelled |

How they interact: a `Canister` reads its DID through the loader and binds
methods that call `Agent.update` or `Agent.query`; these resolve the canister's
id with `Principal`, sign with the identity, and use Candid on both sides. An update posts through `Client.call`, hands a returned
certificate to `Certificate`, and otherwise polls through
`request_status_raw` -> `read_state_raw` -> `Client.read_state` ->
`Certificate`. A query goes through `Client.query`; its verification reads the
subnet and node keys by `read_state_raw` and the shared `NodeKeyCache`. All
shared state is in the Agent (the cache) and on the Internet Computer; the
async variants interleave at each await. Nothing is persisted, so there is no
restart to recover from.

What is hard here:

* the network: an exchange fails after the subnet took the message in; polls
  are answered by replicas that lag; a boundary node replays or prunes
  certificates, or invents answers;
* time: a monotonic clock for the deadline, the wall clock for freshness,
  subnet time in certificates, a cache with a time to live, requests that
  expire;
* interleaving: queries of one event loop share the key cache and await between
  a check and its use;
* partial knowledge: pruned hash trees, sharded canister ranges, delegations;
* Candid's recursive, shared and mutually converted types, and DIDs that use
  them before they are declared;
* repetition: envelopes are delivered late and more than once, and the subnet
  forgets what it ran; requests of equal content are one request;
* delegations that expire while a call is polled, and are exported in several
  forms.

What makes each component correct is stated by its properties, section 4. The
hazards they are for are listed in `PROJECT.json` with their lines.

## 2. Modules

**Subnet** (external; what `agent.py` relies on). The life of one ingress
message on its subnet, the states certified, and what a state tree shows below
`/request_status/<id>`. A message is taken in at most once, before its expiry;
its answer may give way to "done" at any time, and its trace vanishes only
after the expiry.

**UpdateCall** extends Subnet: one `update_raw` or `update_raw_async`, with or
without verification (`Options`). Actions and code:

| action | code |
|---|---|
| Submit | the signed post, `Client.call` |
| ExchangeFails, PostUnusable | TransportError, a response of no use |
| PostAccepted, PostUndecided, StartPolling | HTTP 202; a certificate that is not terminal; `poll`'s first lines |
| PostRejected | `non_replicated_rejection`, unsigned and believed as it is (`agent.py:1412`) |
| PostCertified / FastConclusion | the post's own certificate is terminal |
| Refuse | `assert_certificate_valid`, `verify_cert_timestamp` raise |
| PollTerminal / PollConclusion | replied, rejected, done |
| PollAgain, PollTimesOut | backoff and deadline, `agent.py:1842-1856`, `1887-1911` |
| Wake | the sleep ends, the next poll is sent |
| Tick, Environment | time passes, with a new certified state; the subnet works |

`opts.async` decides the only difference of the two paths, what becomes of a
polled reply (`_finalize_update_result`). A certificate is a *view*: its time,
status and content, each possibly pruned away, and whether it is genuine; that
"genuine" means what the code's verification tests is the subject of module
Certificate. With `Faulty`, the boundary node may prune and replay genuine
certificates and invent others. `FalseRejects` is the one thing that no
check of the code defends it against: a node that rejects a call, unsigned, and
passes it on all the same. `hand` is a history variable, what the agent has read
in a certificate it believed: each takes the place of the one before (`Take`),
but for an answer, which stays in hand for good. The post's certificate counts like
a poll's, and no action's guard looks at `hand`.

**CallPromise** is the abstract specification: the canister answers at most
once, and the caller is told once: the canister's reply (`TellReply`), that the
call is rejected, and then it is not replied to any more (`TellRejected`), or
nothing certain (`TellDoubt`). The refinement (`UpdateCall!Told`) sees what the
caller sees, the kind of the outcome and its value: a ReplicaReject is "reject"
whether or not a certificate was behind it, and every other exception is doubt.

**NodeKeyCache**: `get`, `set`, `clear` as operators on entries with an expiry.
A ghost `since` counts the clears before the lookup that an entry came from.

**QueryCall** extends it: several `query_raw_async` as tasks of one event loop.
`loop` names the running task, and only an await (`querying`, `locating`,
`fetching`) gives the loop up; between two awaits a task has it to itself, as
in asyncio. A key is an ideal signature's node; a lookup is answered with the
membership up to `MaxStale` ago. Node-key lookups use
`verify_certificate=False` (`agent.py:564`, `592`), so that nothing in the code
defends them against an untruthful boundary node: the model takes their
answers as honest. The loop over the signatures leaves an entry in three ways. One
that is incomplete, of an unexpected type, out of the window or not to be verified
is passed over (`Skip`); one with a known key is verified (`Verify`); and one whose
identity, signature or timestamp is a text that does not parse raises ValueError
through the whole query (`Unparsable`, `agent.py:814`, `821`, `828`), whatever
signatures follow it (`Forms`).

**HashTree**: nodes, `lookup`, `list_paths`, `Digest` with ideal hashes, and
pruning. The trees are nested sets, level by level up to `MaxHeight`, over the
constants `Labels` and `Values`, and what recurses over a tree is a recursive
function on them. **Certificate** extends it: what subnets and the root subnet
sign, delegations, canister ranges in shards, moves of canisters between subnets,
a boundary node that assembles and prunes, and the agent's `verify_cert` and
`check_delegation`. The root public key is hard-coded, as in the code.
`LayoutAssumption` says that labels and heights are enough for what is signed:
without it nothing would be, and TLC evaluates it on every run.

**LEB128**: `encode_u`, `encode_i`, `decode_u`, `decode_i` on bytes.
**CandidTypes** extends it: the type table's construction, writing and reading.
Python's type objects are nodes of a heap, so that sharing, `RecClass` chains
and cycles are there. **Candid**: `encode` and `decode` of values byte by byte,
with `checkType`, the record merge and `name` (evaluated before each value, and
infinite for some types). Next to it stands `Coerced`, the meaning of a message
without bytes: the specification `decode` is compared with.

What recurses over types or values is a recursive function of the levels left to
go down, at most `MaxDepth`, Python's recursion limit: `Builder`, `Encoder`,
`Decoder` and, for the specification, `Fitting`, `Coercion` and `Likeness`, each
made of an operator (`BuildType`, `EncodeParts`, `DecodeType`, ...) that is the
method's body and takes the level below for its recursive calls. A loop is a
recursive function of its rounds (`DecodeList`, `MergeFields` in `DecodeFields`,
`ReadNodes`). `IsMessage` and `IsHeap` say what a sender has: types made of types
of its heap, fewer objects than `MaxDepth`, no circle of nothing but `RecClass`
objects (`get_type` would not end), and values of these types (what `covariant`
asks of them) that nest less deep than Python recurses. `MessagesAssumption` asks
it of all messages, and of what receivers expect that it is a heap; TLC evaluates
it on every run.

**PrincipalText**: `to_str` and `from_str` bit by bit: CRC32, base32, groups,
case, and the comparison with the text written anew. **SignedRequests**:
identities, delegations as they are exported and read (`_map_delegation`),
`to_request_id` and `sign_request`, with a hash for the term hashed and a
signature for who signed what for which purpose.

**AgentCalls** extends both: calls that threads or tasks make through one Agent
at the same time, each from the text of a canister id to its answer. How one
call waits for its answer is UpdateCall's subject; here each poll is one
exchange. Call and poll ask the nonce factory each for itself (`Nonce`, `PollNonce`).

| action | code |
|---|---|
| Login | `DelegateIdentity.from_json`, `Agent.__init__` |
| BadCanisterId | `Principal.from_str` raises ValueError (`agent.py:1318`) |
| Call / Post | `_encode_arg`, the request, `sign_request`, the post (`agent.py:1312-1329`) |
| PostAccepted, PollAgain / Poll | HTTP 202 or no final status, and the next `request_status_raw` |
| Refused | the subnet refuses the envelope: expired, unauthentic |
| GivesUp | a transport error, or the polling time is over |
| Answered | the status found is final |
| Redeliver, Execute, Prune, Tick | external: a copy of an envelope arrives, a request runs, its record goes, time passes |

The subnet's side is what the interface specification demands of an ingress
message: an expiry within its window, a sender whose key signs or has delegated,
and each id taken in at most once while it is remembered.

**Did**: the syntax tree of a DID (candid_parser's), `convert_type`,
`lookup_service_type` and `parse_did` of `lib.rs`, the JSON in between by what it
carries, and `load_did_source`. The JSON nodes and the type objects are two heaps:
a node, and the object made of it, goes by the syntax tree it was converted from,
so that `convert_type` and `_parse_json_type` are one level each; a declared name
is its entry of `type_env`. The loader keeps methods in a dict: of two of one name
the last counts, at the place of the first (`MethodsByName`). **Canister** knows the
loader only by what it returns, the constant `Load`, for each DID that parses and each wheel: `wheel` is the Rust
extension installed, and the loader promises to read the modes older wheels write.

| action | code |
|---|---|
| Given, Fetch, Bare | the three branches of `__init__` |
| ReadPublic, ReadPrivate | `_fetch_candid_from_ic`, one read each, found or not |
| Bind | one turn of `_parse_did`'s loop: two attributes, one entry of `methods` |
| Call | `method`, `async_method` and `__getattr__`, up to what the agent is asked |

The methods' functions close over a name and a type; an attribute is the index
of the method it was made for. Attributes that `__init__` sets are among them,
since a DID's methods may be called `agent` or `methods`. **DeclaredCanister** puts
the two together: `Load` is Did's loader, and what is loaded is compared with what
the DID declares, where the DID is `Regular`: valid Candid, and with nothing in it
that the loader drops (section 4).

Each module MC... gives its module's constants their values for TLC; the
modules ...Proofs hold the theorems.

## 3. Runs

| run | question | instance |
|---|---|---|
| update_loop | does an honest node's certificate ever fail? Does the loop end in time, does a timeout drop an answer, does the backoff restart once? | three modes (all but async without verification), host clock 3 behind or 1 ahead, window 3, states up to 2 old, timeout 4, delays 1, 2, 4: the backoff grows, is capped and starts over |
| update_promise | is the caller told anything untrue, by a node that replays, prunes and invents? Does the call end? | four modes, faulty node that rejects truthfully (`FalseRejects` FALSE), window 1 |
| query_loop | may an answer rest on a node that left, or on an old signature? Does one good signature do? Does every query end? | two tasks, two nodes (one a stranger), verification on and off, failures, time to live 1, one clear, responses with up to six signatures, among them incomplete, late, wrong and unparsable ones, rejected and unknown responses |
| certificate | do exactly the hosts' certificates pass, whatever is pruned? | two subnets, three canisters in alternating ranges, a shard per range, one move, two cuts |
| agent_calls | does a call run once, and is its caller told of that run? Is a mistyped canister id noticed? Is a sound agent refused only for its age? | two calls, two canisters, 14 texts, with and without nonces, four logins (anonymous, a key, a chain of two delegations one of which expires, an export in hex), host clock right or 1 behind, expiry 1, three instants |
| canister | is a DID loaded with the types it declares, are its methods bound and called at the right endpoint? | 26 DIDs, five of them not `Regular`, old and new wheels, ten attributes, calls with up to two arguments and three keywords |
| candid | is every compatible message read as what was sent, every incompatible one refused, and every type sent once? | 19 messages, each read by 26 receivers, `MaxDepth` 8 |

Why the bounds are enough. In the update runs the timeout covers several polls
and one more than the backoff's cap. The freshness window, node lag and clock skew
of update_loop are chosen so that both of the window's ends are met and neither is
passed, which is what `HonestNodeIsBelieved` is about (`SomeSkew`: 3 behind is the
window itself, 1 ahead is the window less the lag); certificates from before the
window are met in update_promise, where old ones are replayed. update_loop leaves
out the async path without verification: without it the two paths differ only in
what becomes of a reply, which update_promise has in all four modes.
Subnet and agent clocks are unbounded in the specification; every behaviour is
finite because time stops with the call's end (`Tick` needs an exchange or a
sleep), so no state constraint is used. Two queries are the fewest that
interleave through the cache, and more add only more of the same: each
property speaks of one task and the shared entries. `StartBy` and `MaxClears`
bound the time of the last query's start and the clears; with `StartBy` 0 a
query still meets entries that another one stored up to a lookup's time before,
and that expire or outlive a departed node while it waits. In agent_calls
`MaxTime` bounds the clock: the two instants after the start are enough for a
request to expire, to be forgotten by the subnet, to be delivered again, and
for a delegation to end between post and poll; a call may be made at each. Of the
texts, every kind of slip (a character replaced, left out, doubled, exchanged
with the next) is made at the first character, at a dash and at the last
character, whose spare bits base32 drops. In canister `Unfoldings` bounds the
depth to which recursive types are compared: twice round the longest cycle
of the instances; `MaxDepth` 6 is more than their types nest. `MaxMoves` and
`MaxPruned` bound the moves and the cuts: with two cuts a shard's label and its
neighbour, or its range and a key, can be gone; three canisters that alternate
give a subnet a shard on either side of another's, and a move merges two ranges;
`MaxHeight` 8 holds the deepest tree of the instance. No bound of this run is
needed by the proofs about it. Candid's messages have every
constructor, a list, a tree, a type of nothing but itself, a type object used
in three places, and numbers on both sides of the ends of LEB128 groups (63/64,
127/128, 16384, -64/-65); the receivers have the same types, wider and narrower
ones, none, and ones that agree in part or not at all. `MaxDepth` 8 is more than
the objects of any of the heaps and the levels of any of the values.
Symmetry is not used. Two runs do not check for deadlock: in agent_calls
calls and time run out, and in canister a constructor that raised leaves nothing.

Fairness. `HttpTimeout` and `Jitter` are named assumptions: an exchange ends
within the first, a sleep at most the second late. httpx's timeouts
are for inactivity rather than for the whole exchange, so a server that
trickles bytes can exceed it; `EndsInTime` and `CallEnds` hold under that
assumption only. Weak fairness is given to Submit, the expiry of an exchange's
timeout, Wake and Tick in UpdateCall, and in QueryCall to Tick, to what the
event loop has ready (`Run`) and to timeouts: the program goes on and time
passes. Nothing is assumed of the network or of the subnets: no answer need
come, no message be executed.

## 4. Properties

* `HonestNodeIsBelieved`: an honest certificate is refused at neither end of the
  freshness window.
* `AnswerIsReal`: a certified value or rejection is what the canister did, under
  replay, reordering, pruning and invention.
* `KeepsPromise`: UpdateCall implements CallPromise: in particular a value is the
  canister's reply, and a caller with a ReplicaReject is never replied to
  afterwards. "Done" is the case where this could go wrong: its answer is gone, and
  it may have been a reply. The run assumes that a node's own, unsigned rejections
  are true; unsigned_rejection shows what becomes of `RejectedIsNotReplied`, which is
  this part of the promise, when they need not be.
* `TimeoutIsNoLostAnswer`: whenever a believed certificate, the post's or a poll's,
  before or after the deadline, showed an answer, the call ends at once with what
  comes of that answer, and not with a timeout. A timeout means that no believed
  certificate ever showed one; it is not early, and what was seen last is no older
  than the freshness window (if verified) and than the node's lag (if honest).
* `EndsInTime`, `BackoffRestartsOnce`, `CallEnds`: the poll loop.
* `SignerWasMember`: an answer's signer was a member at most a time to live and
  a state's lag before. `SignatureIsRecent`: the time check before the await
  costs at most one exchange. `GoodSignatureSuffices`: incomplete, late and
  wrong signatures and those of unknown nodes do no harm before a good one; an entry
  that does not parse does, and the property says so (see the divergences).
  `QueriesEnd`.
* `ValidIsHosted`, `HostedIsValid`, `PruningOnlyHides`: certificates.
* `CompatibleIsRead`: a receiver whose types agree with the sender's gets what
  was sent, as the coercion of the values says, and all of the bytes.
  `IncompatibleIsRefused`: it never gets a value the types do not agree on, in
  the arguments up to the first whose constructors differ: behind that one
  nothing can be said, as candid_mismatch shows. `TableIsMinimal`: every type
  goes into the table once. The first two say where they hold: where the
  constructors agree and the elements of a blob are nat8 on both sides
  (`AlikeArg`), as far as the value is looked at, which `checkType` does not
  look at, and where `name` ends (`NamesEnd`). The nat8 is asked for because a
  receiver of `vec reserved` gets the bytes of a blob where the types say a list
  of None (`candid.py:626`).
* `RunsOnce`: a signed request runs at most once, however often and late it is
  delivered, because the expiry is part of its id and the subnet forgets an id
  only after it.
* `OwnExecution`: a caller is told of a run of its own request, and two callers
  of one run only if there are no nonces and both asked for the same at the same
  instant: what `agent.py:1322-1325` leaves open.
* `TextNamesCanister`: a call is made exactly of the texts of principals, in any
  case, and goes to the principal whose text it is; every slip is a ValueError,
  although base32 and the checksum alone let some pass.
* `RefusedOnlyWhenExpired`: with a sound identity, posts and polls are refused
  for their age or an expired delegation only.
* `LoadsAsDeclared`: the types, names and modes of a DID come through parser and
  loader, in whatever order and under however many names they are declared. It is
  asked where every name is declared once and not in a circle, no label occurs
  twice in a record and no method twice in a service (all of which Candid demands),
  and where the DID has nothing
  that the divergences below say is lost: quoted labels of digits, methods
  declared by name, an empty actor beside a service type.
  `UsableIsBound`: a DID whose methods have names of their own makes a canister with
  each of them under both names. `CallsAsNamed`: what a call of an attribute asks of
  the agent is the method so named, at the endpoint its modes say, whatever replaced
  what. Together: a canister is called as its DID declares.

Every one of them is violated when a plausible bug is put in the place of the
code's definition (the definitions marked "Mutant", listed in `PROJECT.json`).

### Where the code differs from its documentation

Each of these has a run that shows it.

* unsigned_rejection: "ReplicaReject: If the call is rejected" (`agent.py:1311`). The
  status `non_replicated_rejection` raises it from the response's unsigned body, with
  verification on as well, and the agent does not poll: a call that the node passed
  on nevertheless runs and is replied to, and the caller, to whom it looks like a
  certified rejection, may make it again. `RejectionCorrect` proves that this is the
  only way to it.
* clear_during_lookup: a key lookup in flight during `NodeKeyCache.clear()`
  stores its result afterwards, so that the next `get` does not force a lookup.
* query_reject: with verification on, a rejected query ends in
  QuerySignatureVerificationFailed and not in ReplicaReject, because
  `build_query_response_signable` expects a "reject" entry.
* candid_mismatch: `ConstructType.checkType` lets any constructed type pass for
  any other; ([5, 6], 7) of (vec nat, nat) is read as ([], 5) of (opt nat, nat).
* candid_recursive: `name` of a tree (record { nat; vec tree }) is infinite, and
  decode evaluates it: a RecursionError.

Others that the models show in passing, without a run:

* "We verify each signature individually and require at least one to pass"
  (`agent.py:793-795`): an entry of the response's signatures whose identity,
  signature or timestamp is a text that does not parse raises ValueError, outside
  of any try, and the good signatures behind it are never tried (`Unparsable`);
  every other bad entry is passed over;
* a method declared by the name of a func type (`service : { get : Getter }`) loses
  its arguments, results and modes in `convert_method` (`lib.rs:129-131`, "defensive
  code"): it is sent as an update, and calling it with its argument raises
  TypeError (`ConvertMethod`; `Regular` leaves it out);
* a query that times out raises TransportError and never
  TimeoutWaitingForResponse (`EndpointRaises`, `agent.py:907`), and a decoded
  value is returned also without a return type;
* `_finalize_update_result` (`agent.py:1577`) returns a polled reply without the
  DIDL prefix as it is, where the sync path raises ValueError (`Finalized`; its
  docstring says "matching the sync/async update_raw contract");
* `_map_delegation` says that an expiration "can be hex string", but reads hex
  only with the prefix 0x (`Expiration`): an export without it raises, or, when
  its digits happen to be decimal, is read as another time, whose delegation
  the subnet refuses (`Proper` leaves that case out of RefusedOnlyWhenExpired);
* the same function drops a delegation's `targets`, which its signature covers
  (`MapDelegation`), so that no request under it is authentic; again outside
  `Proper`;
* the loader falls back to the last service type also when the actor is there
  and has no methods, against its comment "when actor is null"
  (`did_loader.py:120-122`, `MethodNodes`; `Regular` leaves that case out of
  LoadsAsDeclared);
* a service type loses its methods in the loader (`did_loader.py:237`), and a
  quoted field name of digits becomes a number (`Key`);
* of two methods `x` and `x_async`, the one bound last has the attribute
  `x_async` (`Bind`), and a method called `methods` makes the constructor raise
  if another follows it (`Usable` leaves these DIDs out of UsableIsBound;
  CallsAsNamed holds for them).

## 5. Proofs

For all values of the constants that the named assumptions allow (naturals for
times, subsets of the stated sets): any timeout, backoff and skew, any number of
tasks, nodes, signatures, calls, canisters, delegations and DIDs, trees of any
height, texts and numbers of any length, heaps of types of any size and shape.

UpdateCallProofs, QueryCallProofs, AgentCallsProofs:

* `TypeCorrect` (in each): type correctness is inductive.
* `AnswerCorrect`: `AnswerIsReal`. By itself it is not inductive: a conclusion
  is true because the certificate it came from is. `AnswerInv` adds that the
  message's stage and its answer go together (`EffectMatchesStage`) and that
  every certified state tells the truth for ever (`CertsAreTrue`), which needs
  that an answer never changes. `RefusalIsFinal` adds that a call told as rejected
  has been rejected or dropped, of nodes that reject truthfully.
* `HonestCorrect`: `HonestNodeIsBelieved`.
* `TimeoutCorrect`: `TimeoutIsNoLostAnswer`, with the history in `hand`. Inductive
  with `NothingInHand`: while the call is going on no answer is in hand. What the last
  conjuncts say of the age is said at the timeout, and time stops with the call's
  end.
* `DeadlineCorrect`: `EndsInTime`, by `DeadlineInv`, which says where the clock
  may be at each point of the loop; the last sleep starts before the deadline.
* `BackoffCorrect`: the action property `BackoffRestartsOnce`.
* `Refinement`: every step of UpdateCall is a step of CallPromise or a stutter,
  by `AnswerInv`; the safety part of `KeepsPromise`. It assumes ~FalseRejects, and
  so does `RejectionCorrect`, that a ReplicaReject, certified or not, is never
  followed or preceded by a reply (`RejectedIsNotReplied`).
* `SignerCorrect`, `RecencyCorrect`: `SignerWasMember` and `SignatureIsRecent`,
  by `QueryInv`: a cache entry's expiry is bounded by the departure of its node
  (`CacheIsSound`), a pending lookup began with a signature in the window
  (`LookupIsRecent`), and time only moves on (`AnswerIsLast`, `LeftBefore`).
  The task-local facts are proved once, for the running task, and once for the
  others (`TaskStep`, `Others`).
* `SearchCorrect`: `GoodSignatureSuffices`, by `SearchInv`: every signature
  before the index that has no unparsable entry before it (`Reachable`) has failed
  for good. What it failed for (too late, wrong, of
  an unknown node, or a lookup that found no key) is a fact about the moment it
  was looked at, and the property speaks of the end; `Lasting` says which of
  these stay true as time passes.
* `RunsOnceCorrect`, `OwnExecutionCorrect`, `RefusalCorrect` (AgentCallsProofs):
  by one inductive invariant, `IInv`, the conjunction of
  - `Types`, with the shape of `calls`, a readable login of an agent that was
    made, and the envelope of a pending post on the wire;
  - `Signed`: a call under way knows the id of the request it made;
  - `ToldById`: an answered call's run has that id;
  - `TakenInOnce`: what is queued or has run and can still be accepted is
    remembered, so that neither a copy nor a second caller brings it in again;
    the expiry in the pool is the request's because an id tells the request;
  - `Asking`: the envelope waited for was signed with the agent's identity, not
    later than now, for ingress_expiry;
  - `RefusedOnlyWhenExpired` itself.
  `RunsOnce` and `OwnExecution` follow by `IdInjective`: to_request_id covers
  every field, so that equal ids are equal requests. For a refusal,
  `ProperIsAuthentic` shows that an envelope of a proper identity passes every
  check of the subnet but those of time, whatever the length of its chain.

* `TextNamed`: `TextNamesCanister`, by `ReadText` (a call under way has a text
  that `from_str` reads, one that ended in ValueError has not) and what
  is proved of texts below.

InductionLemmas. The library's induction theorems take an operator as a
parameter, which the provers cannot instantiate; here the statement to be proved
is given as the set of the numbers it holds of, and the least number outside of
it, which exists by `WFMin`, is the contradiction (`Induction`,
`BoundedInduction`, `StrongInduction`). `Recursion` and `RankRecursion` say that a
recursive function exists when each value rests on values of lower rank only, so
that the CHOOSE behind `f[x \in S] == ...` may be unfolded. The modules
proved about use recursive functions and no RECURSIVE operator for this reason.

Texts, in AgentCallsProofs:

* `RoundTrip`: `from_str` reads the text that `to_str` wrote of any bytes. Bits
  that numbers write are the numbers' bits again (`Number` as a fold over positions,
  for bytes and for base32 characters); the spare bits of the last character
  are zero and no byte is made of them; taking the dashes out undoes the groups.
  The checksum is a function of the bytes and so the same on both sides; no more
  is needed of it. `ReadInAnyCase`: the texts read as some bytes are the one
  written of them and its variants in case, because of the comparison at
  `from_str`'s end. `TextsDiffer`: `to_str` is injective.

CandidTypesProofs:

* `UnsignedRead`, `SignedRead`: a number of any size is read as itself wherever
  it stands in a message, and reading goes on right behind it. By strong
  induction on the number (for integers, on its distance from 0 or -1, which falls
  with every group), for all bytes before and after it; the lemmas `...Step` unfold
  the four recursive functions once.
* `TableBuilt`: for any heap, buildTypeTable lists the objects that the types
  are made of, each once, and no other. `Builds` says what putting some types
  into a table makes of it: it keeps what it listed, lists the types, has the
  parts of every new entry, and lists nothing that need not be there. By
  induction on the levels left (`Visits`): each visit of a new object leaves
  fewer objects outside of the table (`Remaining`), so that the levels are never
  used up, which is where `IsHeap`'s bound is needed.

CandidProofs, for any values, heaps, messages and receivers. `Exchanged` is the
inductive invariant: what is on the wire is what `Encode` makes of the message, and
what was read is what `Decode` makes of the wire. The rest is about these two
functions.

* `TableMinimal`: `TableIsMinimal`, from TableBuilt and UnsignedRead.
* `TableRead`: `DecodeTable` reads back what `EncodeTable` wrote, wherever it stands
  among other bytes (`Holds`): node by node and field by field, each piece at the
  place the ones before it end at (`Places`). What it reads is not the sender's heap
  but one of RecClass objects in front of the same types under their indices;
  `Mirror` says that two heaps are the same types under a renaming of references,
  and WireHeap mirrors the sender's.
* `TypeCorrect`: `TypeOK`. Whatever types a receiver expects, a reading that ends in
  a value or an error has not gone past the bytes (`InBounds`, by levels).
* `CompatibleRead` and `IncompatibleRefused`: `CompatibleIsRead` and
  `IncompatibleIsRefused`. Both follow from one statement about one reading,
  `Outcome`: where the constructors agree, a reading that succeeds gives one of
  the values that the coercion gives and ends where the value's bytes end, so that
  it raises if there are none; and it succeeds if there are some and the names on
  its way end. It is proved of a type from what holds of its parts
  (`TypeOutcome`): for lists element by element, for records round by round of the
  merge (`FieldsSoFar`: the receiver's fields before i and the sender's before j
  are done, and the bytes of the j-th are next), and for what is skipped and for
  reserved by `Passes`, that bytes read by their own type are passed, whatever
  value they stand for; then level by level (`DecoderReads`) and argument by
  argument (`ArgsOutcome`), where the coercion, the bytes and the likeness of a
  value go down the levels together with the reading.

The hypotheses are `MessagesAssumption` and `DepthAssumption`; what senders and
receivers have in common is nowhere assumed. Two things came to light when these
were first stated: `CompatibleIsRead` did not hold for a receiver of `vec reserved`
of a blob, and `IncompatibleIsRefused` not for an argument behind one whose
constructors differ. No receiver of the instance then showed either; both
properties now say what holds, and the instance has the first one's receiver.

CanisterProofs, first for every function `Load` a loader may be: `IInv` adds to the types
where the binding stands (`Phases`), that an attribute is the instance's own or
a method bound under its name (`Named`), and that a usable interface replaces nothing
(`Kept`). From it `CanisterTypes`, `UsableBound` (`UsableIsBound`) and `CallsNamed`
(`CallsAsNamed`), which cite nothing about Did.

Then for the loader of Did (`LoaderAssumption`): `LoadedAsDeclared`, that is
`LoadsAsDeclared` for every DID, order of declarations, depth of types and number
of unfoldings. What a name leads to is followed link by link on both sides, and
`FilledAsLinked` shows the links equal: the filled entries of `type_env` are the
declarations. `FormRead` shows that the object of a type has the type's form when
those of its parts do (labels by `FieldsRead`, modes of either wheel by
`ModesRead`), and `SameAsDeclared` takes that to any depth, recursive types
included. For the methods, `LookupIs` shows that `lookup_service_type` finds the
service that the actor's name denotes, `DistinctMethods` that the dict loses no
method where the names differ, and `MethodsRead` that the loader's fallback
to the last service type is taken just for a DID without an actor. The
hypotheses say what candid_parser makes of a text: types of its constructors
(`IsType`) that nest to some finite depth `MaxDepth`, and an actor that is a
service or a name (`ProgramsAssumption`).

CertificateProofs. About trees, `TreeInduction` and `TreeRecursion` do for trees what
InductionLemmas does for numbers; the lemmas `...Step` unfold `LookupPath`,
`ListPaths`, `Digest` and `Cutbacks` once. The results that Certificate rests on:
`CutbacksKeep`, that a cut leaves a tree with the same root hash, and
`OneNodeAtAPath`, that a pruned tree shows one node at a path at most, the signed
one, if no label occurs twice among siblings of the signed tree (`Clear`):
`lookup` takes the first match, and a pruned one must not expose a second.

About certificates, `Inv` says that every tree under way, the certificate's and its
delegation's, digests to one that was signed by the one whose signature it bears
(`CertOK`), whatever was cut, and that the verdict is what the code computes
of it.

* `PruningHides`: `PruningOnlyHides`, by OneNodeAtAPath, as what is signed is clear.
* `ValidHosted`: `ValidIsHosted`. The delegation's tree digests to the root
  subnet's of some table, so the ranges it shows below the signer are the
  signer's in that table.
* `HostedValid`: `HostedIsValid`. The shard the code picks, the one with the last
  label up to the canister's id, is the one with its range (`LastStart`): shards
  are labelled by their first range's start, and ranges do not overlap.

Only model-checked: liveness (`CallEnds`, `QueriesEnd`, the fairness of
`KeepsPromise`), since ENABLED is out of the prover's reach. Every invariant that
a run checks, and expects to hold, is a theorem.

## 6. Not modelled

Cryptography (signatures and hashes are ideal; keys, seeds and PEM files are
none), CBOR, URLs and headers, the wording of errors, threads sharing a
NodeKeyCache (it has no lock; `agent.py:439` deletes an entry two threads may
have found), malformed Candid and hash trees, the fixed-width numbers but nat8,
floats, bool, func modes on the wire, and Candid's text labels (their hashes
stand for them); a method's name is one letter. Account identifiers and from_hex of Principal,
and the values to_request_id could hash but no request has (bools, negative
numbers, nested dicts). Of DIDs: their text, `lookup_service_type` on names that
go round in a circle (it recurses until the stack is gone), and methods named
like the class's own functions. The ready-made canisters (ledger, governance, cycles
wallet, management) are DID texts and one-line calls, the system state helpers
one read and one lookup each: neither has state or control of its own beyond what
Canister and UpdateCall show.

## 7. What could follow

1. Threads on NodeKeyCache, and the sync path's interleavings.
2. The cache's part of `ClearForcesLookup` under a corrected `set`, proved.
3. Account identifiers, and the ledger's arguments made of them.
