----------------------------- MODULE QueryCall ------------------------------
(***************************************************************************)
(* Queries of one Agent, run as tasks of one event loop: query_raw_async   *)
(* with _verify_query_response_signatures_async, which looks node keys up  *)
(* through the agent's shared NodeKeyCache.  Between two awaits a task has  *)
(* the loop to itself.  A single task is the synchronous query_raw.        *)
(***************************************************************************)
EXTENDS NodeKeyCache, Sequences

CONSTANTS
  Tasks,          \* the queries
  Responses,      \* responses: [status, sigs : Seq([node, age, good, form])]
  VerifyModes,    \* values of should_verify
  IngressExpiry,  \* Agent.ingress_expiry, the window for a signature's timestamp
  Failures,       \* how exchanges fail: "timeout", "connection", "malformed"
  HttpTimeout,    \* how long an HTTP exchange may take
  MaxStale,       \* the age of the oldest state read_state may show
  Strangers,      \* nodes that never belonged to the subnet
  StartBy,        \* bound: no query starts later
  MaxClears       \* bound: how often clear() is called

(* How an entry of "signatures" is written: all parts there and readable,   *)
(* one missing or of no type expected, or a text that does not parse.       *)
Forms == {"whole", "partial", "unparsable"}

ASSUME QueryAssumption ==
  /\ IngressExpiry \in Nat
  /\ HttpTimeout \in Nat
  /\ MaxStale \in Nat
  /\ Strangers \subseteq Nodes
  /\ VerifyModes \subseteq BOOLEAN
  /\ Failures \subseteq {"timeout", "connection", "malformed"}
  /\ Responses \subseteq [status : {"replied", "rejected", "unknown"},
                          sigs : Seq([node : Nodes, age : Int, good : BOOLEAN, form : Forms])]

Never  == -1
Nobody == "nobody"
NoNode == "no node"

ASSUME NamesAssumption == Nobody \notin Tasks /\ NoNode \notin Nodes

VARIABLES
  left,    \* when a node left the subnet, or Never
  loop,    \* the task the event loop is running, or Nobody
  pc,      \* of each task, the await it is at, or "checking"
  verify,  \* should_verify
  resp,    \* the response received, its signatures with absolute timestamps
  got,     \* when it was received
  index,   \* the signature looked at
  asked,   \* the number of clear()s when the pending key lookup was sent
  due,     \* when the pending exchange is given up
  outcome  \* what the query ended with

taskVars  == <<loop, pc, verify, resp, got, index, asked, due, outcome>>
cacheVars == <<now, cache, clears>>
vars      == <<cacheVars, left, taskVars>>

Awaits == {"querying", "locating", "fetching"}
Pcs    == {"idle", "checking", "ended"} \cup Awaits

Signatures  == [node : Nodes, stamp : Int, good : BOOLEAN, form : Forms]
NoResponse  == [status |-> "none", sigs |-> << >>]
Received    == [status : {"none", "replied", "rejected", "unknown"}, sigs : Seq(Signatures)]

(* cause: what happened to the exchange that raised *)
Outcome(kind, by, stamp, cause) ==
  [kind |-> kind, by |-> by, stamp |-> stamp, at |-> now, cause |-> cause]
NoOutcome == [kind |-> "none", by |-> NoNode, stamp |-> 0, at |-> 0, cause |-> "none"]

Kinds == {"none", "returned", "ReplicaReject", "RuntimeError", "MissingSignature",
          "QuerySignatureVerificationFailed", "TransportError", "ValueError",
          "TimeoutWaitingForResponse"}
Causes   == {"none"} \cup Failures
Outcomes == [kind : Kinds, by : Nodes \cup {NoNode}, stamp : Int, at : Nat, cause : Causes]

(* resp[t] while t is checking *)
Sig(t) == resp[t].sigs[index[t]]
-----------------------------------------------------------------------------
Init ==
  /\ CacheInit
  /\ left = [n \in Nodes |-> Never]
  /\ loop = Nobody
  /\ pc = [t \in Tasks |-> "idle"]
  /\ verify = [t \in Tasks |-> FALSE]
  /\ resp = [t \in Tasks |-> NoResponse]
  /\ got = [t \in Tasks |-> 0]
  /\ index = [t \in Tasks |-> 1]
  /\ asked = [t \in Tasks |-> 0]
  /\ due = [t \in Tasks |-> 0]
  /\ outcome = [t \in Tasks |-> NoOutcome]

(* Mutant: the client lets httpx's exception through. *)
RaisesAsIs(cause) ==
  IF cause = "malformed" THEN "ValueError" ELSE "TimeoutException"

(* httpx.TimeoutException is an httpx.RequestError, which Client.query turns *)
(* into a TransportError, ...                                               *)
ClientRaises(cause) ==
  IF cause = "malformed" THEN "ValueError" ELSE "TransportError"

(* ... so that query_endpoint's own handler never sees a timeout. *)
EndpointRaises(cause) ==
  IF cause = "timeout" /\ ClientRaises(cause) = "TimeoutException"
  THEN "TimeoutWaitingForResponse" ELSE ClientRaises(cause)

(* How query_raw ends once the response is accepted. *)
Dispatch(status) ==
  IF status = "replied" THEN "returned"
  ELSE IF status = "rejected" THEN "ReplicaReject" ELSE "RuntimeError"

Ends(t, kind, by, stamp, cause) ==
  /\ pc' = [pc EXCEPT ![t] = "ended"]
  /\ outcome' = [outcome EXCEPT ![t] = Outcome(kind, by, stamp, cause)]
  /\ loop' = Nobody

(* The task awaits its next exchange and gives the loop up. *)
Await(t, where) ==
  /\ pc' = [pc EXCEPT ![t] = where]
  /\ due' = [due EXCEPT ![t] = now + HttpTimeout]
  /\ loop' = Nobody

(* The answer awaited is in, or its timeout: the loop runs the task. *)
Resumed(t, where) == loop = Nobody /\ pc[t] = where
-----------------------------------------------------------------------------
Start(t) ==
  /\ Resumed(t, "idle")
  /\ now <= StartBy
  /\ \E v \in VerifyModes : verify' = [verify EXCEPT ![t] = v]
  /\ Await(t, "querying")
  /\ UNCHANGED <<cacheVars, left, resp, got, index, asked, outcome>>

(* Not a mapping with a status *)
Malformed(t) ==
  /\ Resumed(t, "querying")
  /\ Ends(t, "RuntimeError", NoNode, 0, "none")
  /\ UNCHANGED <<cacheVars, left, verify, resp, got, index, asked, due>>

Stamped(r) ==
  [status |-> r.status,
   sigs |-> [i \in DOMAIN r.sigs |->
               [node |-> r.sigs[i].node, stamp |-> now - r.sigs[i].age,
                good |-> r.sigs[i].good, form |-> r.sigs[i].form]]]

Respond(t, r) ==
  /\ Resumed(t, "querying")
  /\ resp' = [resp EXCEPT ![t] = Stamped(r)]
  /\ got' = [got EXCEPT ![t] = now]
  /\ \/ /\ ~verify[t]
        /\ Ends(t, Dispatch(r.status), NoNode, 0, "none")
        /\ UNCHANGED due
     \/ /\ verify[t] /\ r.sigs = << >>
        /\ Ends(t, "MissingSignature", NoNode, 0, "none")
        /\ UNCHANGED due
     \/ /\ verify[t] /\ r.sigs # << >>
        /\ Await(t, "locating")
        /\ UNCHANGED outcome
  /\ UNCHANGED <<cacheVars, left, verify, index, asked>>

(* _get_subnet_by_canister_async has the subnet's id: the loop over the     *)
(* signatures begins.                                                       *)
Locate(t) ==
  /\ Resumed(t, "locating")
  /\ pc' = [pc EXCEPT ![t] = "checking"]
  /\ index' = [index EXCEPT ![t] = 1]
  /\ loop' = t
  /\ UNCHANGED <<cacheVars, left, verify, resp, got, asked, due, outcome>>

(* Mutant: a query without a timeout of its own. *)
NeverFails(t) ==
  /\ \/ Resumed(t, "locating")
     \/ Resumed(t, "fetching")
  /\ \E cause \in Failures :
       Ends(t, ClientRaises(cause), NoNode, 0, cause)
  /\ UNCHANGED <<cacheVars, left, verify, resp, got, index, asked, due>>

(* An exchange raises, at its timeout or before: of the exceptions of a key *)
(* lookup only NodeKeyNotFoundError lets the loop go on.                    *)
Fail(t) ==
  /\ \E cause \in Failures :
       \/ /\ Resumed(t, "querying")
          /\ Ends(t, EndpointRaises(cause), NoNode, 0, cause)
       \/ /\ Resumed(t, "locating") \/ Resumed(t, "fetching")
          /\ Ends(t, ClientRaises(cause), NoNode, 0, cause)
  /\ UNCHANGED <<cacheVars, left, verify, resp, got, index, asked, due>>

Checking(t) ==
  /\ loop = t
  /\ pc[t] = "checking"
  /\ index[t] <= Len(resp[t].sigs)

(* Mutant: the sign of the difference is lost. *)
PastInTime(stamp) == now - stamp <= IngressExpiry

(* abs(now_ns - timestamp_ns) > max_age_ns, negated *)
InTime(stamp) == now - stamp <= IngressExpiry /\ stamp - now <= IngressExpiry

(* build_query_response_signable raises without result["reject"], and a     *)
(* query response has its reject fields at the top level.                   *)
Buildable(status) == status = "replied"

Considered(t) ==
  Sig(t).form = "whole" /\ InTime(Sig(t).stamp) /\ Buildable(resp[t].status)

(* The next signature is looked at next; past the last one it is over. *)
Advance(t) == index' = [index EXCEPT ![t] = @ + 1]

Skip(t) ==
  /\ Checking(t)
  /\ Sig(t).form # "unparsable" /\ ~Considered(t)
  /\ Advance(t)
  /\ UNCHANGED <<cacheVars, left, loop, pc, verify, resp, got, asked, due, outcome>>

(* Principal.from_str, bytes.fromhex or int raises ValueError, and nothing  *)
(* catches it: this is the end of the query, whatever signatures follow.    *)
Unparsable(t) ==
  /\ Checking(t)
  /\ Sig(t).form = "unparsable"
  /\ Ends(t, "ValueError", NoNode, 0, "none")
  /\ UNCHANGED <<cacheVars, left, verify, resp, got, index, asked, due>>

(* The key is known: accept, or try the next signature. *)
Verify(t) ==
  \/ /\ Sig(t).good
     /\ Ends(t, Dispatch(resp[t].status), Sig(t).node, Sig(t).stamp, "none")
     /\ UNCHANGED index
  \/ /\ ~Sig(t).good
     /\ pc' = [pc EXCEPT ![t] = "checking"]
     /\ loop' = t
     /\ Advance(t)
     /\ UNCHANGED outcome

UseCachedKey(t) ==
  /\ Checking(t)
  /\ Considered(t)
  /\ Hit(Sig(t).node)
  /\ Get(Sig(t).node)
  /\ Verify(t)
  /\ UNCHANGED <<now, clears, left, verify, resp, got, asked, due>>

AskForKey(t) ==
  /\ Checking(t)
  /\ Considered(t)
  /\ ~Hit(Sig(t).node)
  /\ Get(Sig(t).node)
  /\ asked' = [asked EXCEPT ![t] = clears]
  /\ Await(t, "fetching")
  /\ UNCHANGED <<now, clears, left, verify, resp, got, index, outcome>>

(* The state read shows the node's key: it was a member not long ago. *)
Known(n) == n \notin Strangers /\ (left[n] = Never \/ now - left[n] <= MaxStale)

Unknown(n) == n \in Strangers \/ left[n] # Never

KeyArrives(t) ==
  /\ Resumed(t, "fetching")
  /\ Known(Sig(t).node)
  /\ Set(Sig(t).node, asked[t])
  /\ Verify(t)
  /\ UNCHANGED <<now, clears, left, verify, resp, got, asked, due>>

(* Mutant: a node that is not found ends the verification. *)
UnknownNodeFails(t) ==
  /\ Resumed(t, "fetching")
  /\ Unknown(Sig(t).node)
  /\ Ends(t, "QuerySignatureVerificationFailed", NoNode, 0, "none")
  /\ UNCHANGED <<cacheVars, left, verify, resp, got, index, asked, due>>

(* NodeKeyNotFoundError: the state read does not show the node. *)
KeyUnknown(t) ==
  /\ Resumed(t, "fetching")
  /\ Unknown(Sig(t).node)
  /\ pc' = [pc EXCEPT ![t] = "checking"]
  /\ loop' = t
  /\ Advance(t)
  /\ UNCHANGED <<cacheVars, left, verify, resp, got, asked, due, outcome>>

NoneVerified(t) ==
  /\ loop = t
  /\ pc[t] = "checking"
  /\ index[t] > Len(resp[t].sigs)
  /\ Ends(t, "QuerySignatureVerificationFailed", NoNode, 0, "none")
  /\ UNCHANGED <<cacheVars, left, verify, resp, got, index, asked, due>>
-----------------------------------------------------------------------------
(* Another coroutine of the program calls agent.node_key_cache.clear(). *)
ClearCache ==
  /\ loop = Nobody
  /\ clears < MaxClears
  /\ Clear
  /\ UNCHANGED <<now, left, taskVars>>

(* EXTERNAL: a node leaves the subnet, for good. *)
Leave(n) ==
  /\ n \notin Strangers /\ left[n] = Never
  /\ left' = [left EXCEPT ![n] = now]
  /\ UNCHANGED <<cacheVars, taskVars>>

(* No exchange outlasts its timeout; the model stops with the last query. *)
Tick ==
  /\ loop = Nobody
  /\ \A t \in Tasks : pc[t] \in Awaits => now < due[t]
  /\ \E t \in Tasks : pc[t] \in Awaits \/ (pc[t] = "idle" /\ now < StartBy)
  /\ now' = now + 1
  /\ UNCHANGED <<cache, clears, left, taskVars>>

Step(t) ==
  \/ Malformed(t)
  \/ \E r \in Responses : Respond(t, r)
  \/ Locate(t)
  \/ KeyArrives(t)
  \/ KeyUnknown(t)

(* What the program does by itself, without an answer from outside *)
Run(t) ==
  \/ Skip(t)
  \/ Unparsable(t)
  \/ UseCachedKey(t)
  \/ AskForKey(t)
  \/ NoneVerified(t)

AllEnded == (\A t \in Tasks : pc[t] \in {"idle", "ended"}) /\ UNCHANGED vars

Next ==
  \/ \E t \in Tasks : Start(t) \/ Fail(t) \/ Step(t) \/ Run(t)
  \/ \E n \in Nodes : Leave(n)
  \/ ClearCache
  \/ Tick
  \/ AllEnded

Spec == Init /\ [][Next]_vars

TimesOut(t) == now >= due[t] /\ Fail(t)

(* The loop runs what is ready and exchanges time out; no answer need come. *)
FairSpec ==
  Spec /\ WF_vars(Tick) /\ \A t \in Tasks : WF_vars(Run(t)) /\ WF_vars(TimesOut(t))
-----------------------------------------------------------------------------
TypeOK ==
  /\ CacheTypeOK
  /\ left \in [Nodes -> Nat \cup {Never}]
  /\ loop \in Tasks \cup {Nobody}
  /\ pc \in [Tasks -> Pcs]
  /\ verify \in [Tasks -> BOOLEAN]
  /\ resp \in [Tasks -> Received]
  /\ got \in [Tasks -> Nat]
  /\ index \in [Tasks -> Nat \ {0}]
  /\ asked \in [Tasks -> Nat]
  /\ due \in [Tasks -> Nat]
  /\ outcome \in [Tasks -> Outcomes]

Answered(t) == outcome[t].kind \in {"returned", "ReplicaReject"}

(* A verified answer carries a signature of a node that the subnet had not  *)
(* long ago: membership is trusted for the cache's time to live plus the    *)
(* lag of the state that was cached, through every interleaving of lookups, *)
(* expiries, clears and departures.                                         *)
SignerWasMember ==
  \A t \in Tasks :
    Answered(t) /\ verify[t] =>
      /\ \E i \in DOMAIN resp[t].sigs :
           resp[t].sigs[i] = [node |-> outcome[t].by, stamp |-> outcome[t].stamp,
                              good |-> TRUE, form |-> "whole"]
      /\ outcome[t].by \notin Strangers
      /\ \/ left[outcome[t].by] = Never
         \/ outcome[t].at < left[outcome[t].by] + MaxStale + TTL

(* The time check comes before the await of the key, so that an accepted    *)
(* signature may be older than the window, but by one exchange at most, and *)
(* it is never from further ahead than the window.                          *)
SignatureIsRecent ==
  \A t \in Tasks :
    Answered(t) /\ verify[t] =>
      /\ outcome[t].at - outcome[t].stamp <= IngressExpiry + HttpTimeout
      /\ outcome[t].stamp - outcome[t].at <= IngressExpiry

(* Verification failed: no signature passed, or an entry did not parse.     *)
Unverified(t) ==
  \/ outcome[t].kind = "QuerySignatureVerificationFailed"
  \/ outcome[t].kind = "ValueError" /\ outcome[t].cause = "none"

(* "We verify each signature individually and require at least one to pass" *)
(* (the loop's comment), as far as the code keeps to it: verification does  *)
(* not fail while a signature is there that was made by a lasting member    *)
(* and in the window all along, unless an entry before it does not parse.   *)
(* Entries that are incomplete, late, wrong or of unknown nodes do no harm. *)
GoodSignatureSuffices ==
  \A t \in Tasks :
    /\ Unverified(t)
    /\ resp[t].status = "replied"
    => ~ \E i \in DOMAIN resp[t].sigs :
           LET s == resp[t].sigs[i] IN
           /\ s.good /\ s.form = "whole"
           /\ s.node \notin Strangers /\ left[s.node] = Never
           /\ outcome[t].at - s.stamp <= IngressExpiry
           /\ s.stamp - got[t] <= IngressExpiry
           /\ \A j \in DOMAIN resp[t].sigs : j < i => resp[t].sigs[j].form # "unparsable"

(* Every query started ends, one task's waiting never holding up another's. *)
QueriesEnd == \A t \in Tasks : pc[t] = "querying" ~> pc[t] = "ended"
-----------------------------------------------------------------------------
(* The inductive strengthening of SignerWasMember and SignatureIsRecent.    *)

(* An entry is of a member, and outlives its departure by a bounded time.   *)
CacheIsSound ==
  \A n \in Nodes :
    cache[n] # NoEntry =>
      /\ n \notin Strangers
      /\ cache[n].until <= now + TTL
      /\ left[n] = Never \/ cache[n].until <= left[n] + MaxStale + TTL

LeftBefore == \A n \in Nodes : left[n] <= now

(* A pending lookup is for a signature that was in the window when it began. *)
LookupIsRecent ==
  \A t \in Tasks :
    pc[t] = "fetching" =>
      /\ index[t] \in DOMAIN resp[t].sigs /\ Sig(t).form = "whole"
      /\ now <= due[t] /\ due[t] <= now + HttpTimeout
      /\ due[t] - HttpTimeout - Sig(t).stamp <= IngressExpiry
      /\ Sig(t).stamp - (due[t] - HttpTimeout) <= IngressExpiry

AnswerIsLast == \A t \in Tasks : Answered(t) => pc[t] = "ended" /\ outcome[t].at <= now

QueryInv ==
  /\ CacheIsSound
  /\ LeftBefore
  /\ LookupIsRecent
  /\ AnswerIsLast
  /\ SignerWasMember
  /\ SignatureIsRecent
-----------------------------------------------------------------------------
(* What the documentation says and the code does not do.                    *)

(* clear(), "removes all entries from the cache, forcing fresh lookups on   *)
(* the next get() call": no entry stems from a lookup sent before it.       *)
ClearForcesLookup ==
  \A n \in Nodes : cache[n] # NoEntry => cache[n].since = clears

(* query_raw, "ReplicaReject: If the query is rejected."                    *)
RejectIsReported ==
  \A t \in Tasks :
    /\ resp[t].status = "rejected"
    /\ pc[t] = "ended"
    /\ \A i \in DOMAIN resp[t].sigs : /\ resp[t].sigs[i].good /\ resp[t].sigs[i].form = "whole"
                                      /\ resp[t].sigs[i].stamp = got[t]
    /\ outcome[t].cause = "none" /\ resp[t].sigs # << >>
    => outcome[t].kind = "ReplicaReject"
=============================================================================
