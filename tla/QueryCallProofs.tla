--------------------------- MODULE QueryCallProofs ---------------------------
(***************************************************************************)
(* Machine-checked proofs about QueryCall, for any number of tasks, nodes  *)
(* and responses: type correctness, and what a verified answer vouches for *)
(* although tasks share the key cache and await in the middle of a check.  *)
(***************************************************************************)
EXTENDS QueryCall, TLAPS

(* A response is stamped with times and keeps its signatures. *)
LEMMA StampedType ==
  ASSUME NEW r \in Responses, now \in Nat
  PROVE  /\ Stamped(r) \in Received
         /\ Stamped(r).status = r.status
<1> DEFINE Given    == [node : Nodes, age : Int, good : BOOLEAN, form : Forms]
           Stamp(i) == [node |-> r.sigs[i].node, stamp |-> now - r.sigs[i].age,
                        good |-> r.sigs[i].good, form |-> r.sigs[i].form]
<1>1. r \in [status : {"replied", "rejected", "unknown"}, sigs : Seq(Given)]
  BY QueryAssumption
<1>2. r.sigs \in Seq(Given)
  BY <1>1
<1>3. \A i \in DOMAIN r.sigs : r.sigs[i] \in Given
  <2> HIDE DEF Given
  <2>1. QED
    BY <1>2
<1>4. \A i \in DOMAIN r.sigs : Stamp(i) \in Signatures
  BY <1>3 DEF Signatures
<1> HIDE DEF Stamp
<1>5. DOMAIN r.sigs = 1 .. Len(r.sigs) /\ Len(r.sigs) \in Nat
  <2> HIDE DEF Given
  <2>1. QED
    BY <1>2
<1>6. [i \in DOMAIN r.sigs |-> Stamp(i)] \in Seq(Signatures)
  BY <1>4, <1>5
<1>7. QED
  BY <1>1, <1>6 DEF Stamped, Received, Stamp

(* Whatever a query ends with is an outcome. *)
LEMMA OutcomeType ==
  ASSUME NEW kind \in Kinds, NEW by \in Nodes \cup {NoNode}, NEW stamp \in Int,
         NEW cause \in Causes, now \in Nat
  PROVE  Outcome(kind, by, stamp, cause) \in Outcomes
BY DEF Outcome, Outcomes

(* An exception of an exchange is one of the kinds. *)
LEMMA RaisesType ==
  ASSUME NEW cause \in Failures
  PROVE  ClientRaises(cause) \in Kinds /\ EndpointRaises(cause) \in Kinds /\ cause \in Causes
BY DEF ClientRaises, EndpointRaises, Kinds, Causes

(* So is every way to end once the response is accepted. *)
LEMMA DispatchType ==
  ASSUME NEW status
  PROVE  Dispatch(status) \in Kinds
BY DEF Dispatch, Kinds

(* The signature a task looks at is a signature. *)
LEMMA SigType ==
  ASSUME TypeOK, NEW t \in Tasks, index[t] \in DOMAIN resp[t].sigs
  PROVE  Sig(t) \in Signatures
<1>1. resp[t].sigs \in Seq(Signatures)
  BY DEF TypeOK, Received
<1>2. QED
  BY <1>1 DEF Sig

(* While a task checks, its index is one of a signature. *)
LEMMA CheckingIndex ==
  ASSUME TypeOK, NEW t \in Tasks, Checking(t)
  PROVE  index[t] \in DOMAIN resp[t].sigs /\ Sig(t) \in Signatures
<1>1. resp[t].sigs \in Seq(Signatures) /\ index[t] \in Nat \ {0}
  BY DEF TypeOK, Received
<1>2. DOMAIN resp[t].sigs = 1 .. Len(resp[t].sigs) /\ Len(resp[t].sigs) \in Nat
  BY <1>1
<1>3. index[t] \in DOMAIN resp[t].sigs
  BY <1>1, <1>2 DEF Checking
<1>4. QED
  BY <1>3, SigType
-----------------------------------------------------------------------------
(* Setting and getting keeps the cache's type. *)
LEMMA CacheType ==
  ASSUME CacheTypeOK, NEW n \in Nodes
  PROVE  /\ Get(n) => cache' \in [Nodes -> Entries \cup {NoEntry}]
         /\ \A since \in Nat : Set(n, since) => cache' \in [Nodes -> Entries \cup {NoEntry}]
<1>1. now + TTL \in Nat
  BY TTLAssumption DEF CacheTypeOK
<1>2. \A since \in Nat : [until |-> now + TTL, since |-> since] \in Entries
  BY <1>1 DEF Entries
<1>3. QED
  BY <1>2 DEF CacheTypeOK, Get, Set

(* The end of a query is well typed. *)
LEMMA EndsType ==
  ASSUME TypeOK, NEW t \in Tasks, NEW kind \in Kinds, NEW by \in Nodes \cup {NoNode},
         NEW stamp \in Int, NEW cause \in Causes, Ends(t, kind, by, stamp, cause)
  PROVE  /\ pc' \in [Tasks -> Pcs] /\ loop' \in Tasks \cup {Nobody}
         /\ outcome' \in [Tasks -> Outcomes]
<1>1. Outcome(kind, by, stamp, cause) \in Outcomes
  BY OutcomeType DEF TypeOK, CacheTypeOK
<1>2. QED
  BY <1>1 DEF Ends, TypeOK, Pcs

(* So are an await, ... *)
LEMMA AwaitType ==
  ASSUME TypeOK, NEW t \in Tasks, NEW where \in Awaits, Await(t, where)
  PROVE  /\ pc' \in [Tasks -> Pcs] /\ loop' \in Tasks \cup {Nobody}
         /\ due' \in [Tasks -> Nat]
<1>1. now + HttpTimeout \in Nat
  BY QueryAssumption DEF TypeOK, CacheTypeOK
<1>2. QED
  BY <1>1 DEF Await, TypeOK, Pcs

(* ... the step to the next signature, ... *)
LEMMA AdvanceType ==
  ASSUME TypeOK, NEW t \in Tasks, Advance(t)
  PROVE  index' \in [Tasks -> Nat \ {0}]
BY DEF Advance, TypeOK

(* ... and the verification of one. *)
LEMMA VerifyType ==
  ASSUME TypeOK, NEW t \in Tasks, Sig(t) \in Signatures, Verify(t)
  PROVE  /\ pc' \in [Tasks -> Pcs] /\ loop' \in Tasks \cup {Nobody}
         /\ outcome' \in [Tasks -> Outcomes] /\ index' \in [Tasks -> Nat \ {0}]
<1>1. CASE /\ Ends(t, Dispatch(resp[t].status), Sig(t).node, Sig(t).stamp, "none")
           /\ UNCHANGED index
  <2>1. Dispatch(resp[t].status) \in Kinds
    BY DispatchType
  <2>2. Sig(t).node \in Nodes /\ Sig(t).stamp \in Int /\ "none" \in Causes
    BY DEF Signatures, Causes
  <2>3. QED
    BY <1>1, <2>1, <2>2, EndsType DEF TypeOK
<1>2. CASE /\ pc' = [pc EXCEPT ![t] = "checking"]
           /\ loop' = t
           /\ Advance(t)
           /\ UNCHANGED outcome
  BY <1>2, AdvanceType DEF TypeOK, Pcs
<1>3. QED
  BY <1>1, <1>2 DEF Verify
-----------------------------------------------------------------------------
(* A step of task t leaves the other tasks alone. *)
TaskStep(t) == Start(t) \/ Fail(t) \/ Step(t) \/ Run(t)

Others(t) ==
  \A u \in Tasks \ {t} :
    /\ pc'[u] = pc[u] /\ verify'[u] = verify[u] /\ resp'[u] = resp[u]
    /\ index'[u] = index[u] /\ due'[u] = due[u] /\ outcome'[u] = outcome[u]
    /\ got'[u] = got[u]

(* What one task does is invisible in the variables of the others. *)
LEMMA TasksAreApart ==
  ASSUME TypeOK, NEW t \in Tasks, TaskStep(t)
  PROVE  Others(t)
<1> USE DEF TypeOK, Others
<1>1. CASE Start(t)
  BY <1>1 DEF Start, Await
<1>2. CASE Fail(t)
  BY <1>2 DEF Fail, Ends
<1>3. CASE Malformed(t)
  BY <1>3 DEF Malformed, Ends
<1>4. ASSUME NEW r \in Responses, Respond(t, r)
      PROVE  Others(t)
  BY <1>4 DEF Respond, Ends, Await
<1>5. CASE Locate(t)
  BY <1>5 DEF Locate
<1>6. CASE KeyArrives(t)
  BY <1>6 DEF KeyArrives, Verify, Ends, Advance
<1>7. CASE KeyUnknown(t)
  BY <1>7 DEF KeyUnknown, Advance
<1>8. CASE Skip(t)
  BY <1>8 DEF Skip, Advance
<1>9. CASE UseCachedKey(t)
  BY <1>9 DEF UseCachedKey, Verify, Ends, Advance
<1>10. CASE AskForKey(t)
  BY <1>10 DEF AskForKey, Await
<1>11. CASE NoneVerified(t) \/ Unparsable(t)
  BY <1>11 DEF NoneVerified, Unparsable, Ends
<1>12. QED
  BY <1>1, <1>2, <1>3, <1>4, <1>5, <1>6, <1>7, <1>8, <1>9, <1>10, <1>11
     DEF TaskStep, Step, Run

(* Only AskForKey makes a task fetch. *)
LEMMA OnlyAskingFetches ==
  ASSUME TypeOK, NEW t \in Tasks, TaskStep(t), pc'[t] = "fetching"
  PROVE  AskForKey(t)
<1> USE DEF TypeOK
<1>1. CASE Start(t)
  BY <1>1 DEF Start, Await
<1>2. CASE Fail(t)
  BY <1>2 DEF Fail, Ends
<1>3. CASE Malformed(t)
  BY <1>3 DEF Malformed, Ends
<1>4. ASSUME NEW r \in Responses, Respond(t, r)
      PROVE  FALSE
  BY <1>4 DEF Respond, Ends, Await
<1>5. CASE Locate(t)
  BY <1>5 DEF Locate
<1>6. CASE KeyArrives(t)
  BY <1>6 DEF KeyArrives, Verify, Ends, Advance
<1>7. CASE KeyUnknown(t)
  BY <1>7 DEF KeyUnknown, Advance
<1>8. CASE Skip(t)
  BY <1>8 DEF Skip, Checking
<1>9. CASE UseCachedKey(t)
  BY <1>9 DEF UseCachedKey, Verify, Ends, Advance
<1>10. CASE NoneVerified(t) \/ Unparsable(t)
  BY <1>10 DEF NoneVerified, Unparsable, Ends
<1>11. QED
  BY <1>1, <1>2, <1>3, <1>4, <1>5, <1>6, <1>7, <1>8, <1>9, <1>10
     DEF TaskStep, Step, Run

(* Every step is one of a task or of the environment. *)
LEMMA StepsAre ==
  ASSUME [Next]_vars
  PROVE  \/ \E t \in Tasks : TaskStep(t)
         \/ \E n \in Nodes : Leave(n)
         \/ ClearCache
         \/ Tick
         \/ UNCHANGED vars
BY DEF Next, TaskStep, AllEnded

LookupHasIndex ==
  \A t \in Tasks : pc[t] = "fetching" => index[t] \in DOMAIN resp[t].sigs

(* A pending lookup is for one of the response's signatures. *)
LEMMA LookupHasIndexStep ==
  ASSUME TypeOK, LookupHasIndex, [Next]_vars
  PROVE  LookupHasIndex'
<1>1. ASSUME NEW t \in Tasks, TaskStep(t)
      PROVE  LookupHasIndex'
  <2> SUFFICES ASSUME NEW u \in Tasks, pc'[u] = "fetching"
               PROVE  index'[u] \in DOMAIN resp'[u].sigs
    BY DEF LookupHasIndex
  <2>1. CASE u # t
    BY <1>1, <2>1, TasksAreApart DEF Others, LookupHasIndex
  <2>2. CASE u = t
    <3>1. AskForKey(t)
      BY <1>1, <2>2, OnlyAskingFetches
    <3>2. QED
      BY <2>2, <3>1, CheckingIndex DEF AskForKey
  <2>3. QED
    BY <2>1, <2>2
<1>2. ASSUME UNCHANGED taskVars
      PROVE  LookupHasIndex'
  BY <1>2 DEF taskVars, LookupHasIndex
<1>3. QED
  BY <1>1, <1>2, StepsAre DEF Leave, ClearCache, Tick, vars
-----------------------------------------------------------------------------
(***************************************************************************)
(* Every variable keeps its type.                                          *)
(***************************************************************************)
LEMMA TypeInvariant == Spec => [](TypeOK /\ LookupHasIndex)
<1>1. Init => TypeOK
  <2> SUFFICES ASSUME Init
               PROVE  TypeOK
    OBVIOUS
  <2>1. CacheTypeOK
    BY DEF Init, CacheInit, CacheTypeOK
  <2>2. NoResponse \in Received /\ NoOutcome \in Outcomes
    BY DEF NoResponse, Received, NoOutcome, Outcomes, Kinds, Causes
  <2>3. QED
    BY <2>1, <2>2 DEF Init, TypeOK, Pcs
<1>2. TypeOK /\ LookupHasIndex /\ [Next]_vars => TypeOK'
  <2> SUFFICES ASSUME TypeOK, LookupHasIndex, [Next]_vars
               PROVE  TypeOK'
    OBVIOUS
  <2>0. now \in Nat /\ clears \in Nat /\ 0 \in Int /\ "none" \in Causes
    BY DEF TypeOK, CacheTypeOK, Causes
  <2>1. ASSUME NEW t \in Tasks, Start(t)
        PROVE  TypeOK'
    <3>1. verify' \in [Tasks -> BOOLEAN]
      BY <2>1, QueryAssumption DEF Start, TypeOK
    <3>2. "querying" \in Awaits
      BY DEF Awaits
    <3>3. QED
      BY <2>1, <3>1, <3>2, AwaitType DEF Start, TypeOK, cacheVars, CacheTypeOK
  <2>2. ASSUME NEW t \in Tasks, Fail(t)
        PROVE  TypeOK'
    <3>1. PICK kind \in Kinds, cause \in Causes : Ends(t, kind, NoNode, 0, cause)
      BY <2>2, RaisesType DEF Fail
    <3>2. QED
      BY <2>0, <2>2, <3>1, EndsType DEF Fail, TypeOK, cacheVars, CacheTypeOK
  <2>3. ASSUME NEW t \in Tasks, Malformed(t)
        PROVE  TypeOK'
    <3>1. "RuntimeError" \in Kinds
      BY DEF Kinds
    <3>2. QED
      BY <2>0, <2>3, <3>1, EndsType DEF Malformed, TypeOK, cacheVars, CacheTypeOK
  <2>4. ASSUME NEW t \in Tasks, NEW r \in Responses, Respond(t, r)
        PROVE  TypeOK'
    <3>1. resp' \in [Tasks -> Received] /\ got' \in [Tasks -> Nat]
      BY <2>0, <2>4, StampedType DEF Respond, TypeOK
    <3>2. /\ pc' \in [Tasks -> Pcs] /\ loop' \in Tasks \cup {Nobody}
          /\ outcome' \in [Tasks -> Outcomes] /\ due' \in [Tasks -> Nat]
      <4>1. CASE Ends(t, Dispatch(r.status), NoNode, 0, "none") /\ UNCHANGED due
        BY <2>0, <4>1, DispatchType, EndsType DEF TypeOK
      <4>2. CASE Ends(t, "MissingSignature", NoNode, 0, "none") /\ UNCHANGED due
        <5>1. "MissingSignature" \in Kinds
          BY DEF Kinds
        <5>2. QED
          BY <2>0, <4>2, <5>1, EndsType DEF TypeOK
      <4>3. CASE Await(t, "locating") /\ UNCHANGED outcome
        <5>1. "locating" \in Awaits
          BY DEF Awaits
        <5>2. QED
          BY <4>3, <5>1, AwaitType DEF TypeOK
      <4>4. QED
        BY <2>4, <4>1, <4>2, <4>3 DEF Respond
    <3>3. QED
      BY <2>4, <3>1, <3>2 DEF Respond, TypeOK, cacheVars, CacheTypeOK
  <2>5. ASSUME NEW t \in Tasks, Locate(t)
        PROVE  TypeOK'
    BY <2>5 DEF Locate, TypeOK, cacheVars, CacheTypeOK, Pcs
  <2>6. ASSUME NEW t \in Tasks, Skip(t)
        PROVE  TypeOK'
    BY <2>6, AdvanceType DEF Skip, TypeOK, cacheVars, CacheTypeOK
  <2>7. ASSUME NEW t \in Tasks, UseCachedKey(t)
        PROVE  TypeOK'
    <3>1. Sig(t) \in Signatures /\ Sig(t).node \in Nodes
      BY <2>7, CheckingIndex DEF UseCachedKey, Signatures
    <3>2. cache' \in [Nodes -> Entries \cup {NoEntry}]
      BY <2>7, <3>1, CacheType DEF UseCachedKey, TypeOK
    <3>3. QED
      BY <2>7, <3>1, <3>2, VerifyType DEF UseCachedKey, TypeOK, CacheTypeOK
  <2>8. ASSUME NEW t \in Tasks, AskForKey(t)
        PROVE  TypeOK'
    <3>1. Sig(t) \in Signatures /\ Sig(t).node \in Nodes /\ "fetching" \in Awaits
      BY <2>8, CheckingIndex DEF AskForKey, Signatures, Awaits
    <3>2. cache' \in [Nodes -> Entries \cup {NoEntry}]
      BY <2>8, <3>1, CacheType DEF AskForKey, TypeOK
    <3>3. QED
      BY <2>0, <2>8, <3>1, <3>2, AwaitType DEF AskForKey, TypeOK, CacheTypeOK
  <2>9. ASSUME NEW t \in Tasks, NoneVerified(t) \/ Unparsable(t)
        PROVE  TypeOK'
    <3>1. PICK kind \in Kinds : Ends(t, kind, NoNode, 0, "none")
      BY <2>9 DEF NoneVerified, Unparsable, Kinds
    <3>2. QED
      BY <2>0, <2>9, <3>1, EndsType
         DEF NoneVerified, Unparsable, TypeOK, cacheVars, CacheTypeOK
  <2>10. ASSUME NEW t \in Tasks, KeyArrives(t)
         PROVE  TypeOK'
    <3>1. Sig(t) \in Signatures /\ Sig(t).node \in Nodes /\ asked[t] \in Nat
      BY <2>10, SigType DEF KeyArrives, Resumed, LookupHasIndex, TypeOK, Signatures
    <3>2. cache' \in [Nodes -> Entries \cup {NoEntry}]
      BY <2>10, <3>1, CacheType DEF KeyArrives, TypeOK
    <3>3. QED
      BY <2>10, <3>1, <3>2, VerifyType DEF KeyArrives, TypeOK, CacheTypeOK
  <2>11. ASSUME NEW t \in Tasks, KeyUnknown(t)
         PROVE  TypeOK'
    BY <2>11, AdvanceType DEF KeyUnknown, TypeOK, cacheVars, CacheTypeOK, Pcs
  <2>12. ASSUME NEW n \in Nodes, Leave(n)
         PROVE  TypeOK'
    BY <2>0, <2>12 DEF Leave, TypeOK, cacheVars, taskVars, CacheTypeOK
  <2>13. CASE ClearCache
    BY <2>13 DEF ClearCache, Clear, TypeOK, taskVars, CacheTypeOK
  <2>14. CASE Tick
    BY <2>14 DEF Tick, TypeOK, taskVars, CacheTypeOK
  <2>15. CASE UNCHANGED vars
    BY <2>15 DEF vars, cacheVars, taskVars, TypeOK, CacheTypeOK
  <2>16. QED
    BY <2>1, <2>2, <2>3, <2>4, <2>5, <2>6, <2>7, <2>8, <2>9, <2>10, <2>11, <2>12, <2>13,
       <2>14, <2>15
       DEF Next, Step, Run, AllEnded
<1>3. Init => LookupHasIndex
  BY DEF Init, LookupHasIndex
<1>4. QED
  BY <1>1, <1>2, <1>3, LookupHasIndexStep, PTL DEF Spec

(* The type invariant by itself. *)
THEOREM TypeCorrect == Spec => []TypeOK
BY TypeInvariant, PTL
-----------------------------------------------------------------------------
(* The signature a verified answer of t rests on. *)
Vouched(t) ==
  /\ \E i \in DOMAIN resp[t].sigs :
       resp[t].sigs[i] = [node |-> outcome[t].by, stamp |-> outcome[t].stamp,
                          good |-> TRUE, form |-> "whole"]
  /\ outcome[t].by \notin Strangers
  /\ \/ left[outcome[t].by] = Never
     \/ outcome[t].at < left[outcome[t].by] + MaxStale + TTL
  /\ outcome[t].at - outcome[t].stamp <= IngressExpiry + HttpTimeout
  /\ outcome[t].stamp - outcome[t].at <= IngressExpiry

(* The two properties of verified answers, together. *)
LEMMA VouchedIs ==
  SignerWasMember /\ SignatureIsRecent
    <=> \A t \in Tasks : Answered(t) /\ verify[t] => Vouched(t)
BY DEF SignerWasMember, SignatureIsRecent, Vouched

(* A key that is believed, and used now, is of a node that was a member. *)
MemberNow(n) ==
  n \notin Strangers /\ (left[n] = Never \/ now < left[n] + MaxStale + TTL)

(* A query is answered by a task's own step, once: without verification, or *)
(* for a good signature whose key is cached or has just arrived.            *)
LEMMA NewAnswer ==
  ASSUME TypeOK, LookupIsRecent, AnswerIsLast, NEW t \in Tasks, TaskStep(t), Answered(t)'
  PROVE  /\ pc'[t] = "ended" /\ outcome'[t].at = now
         /\ verify'[t] =>
              /\ UseCachedKey(t) \/ KeyArrives(t)
              /\ Sig(t).good /\ Sig(t).form = "whole" /\ resp' = resp
              /\ outcome'[t].by = Sig(t).node /\ outcome'[t].stamp = Sig(t).stamp
<1> USE DEF TypeOK, Answered, Outcome
<1>0. pc[t] # "ended" => outcome[t].kind \notin {"returned", "ReplicaReject"}
  BY DEF AnswerIsLast
<1>1. CASE Start(t)
  BY <1>0, <1>1 DEF Start, Resumed
<1>2. CASE Fail(t)
  BY <1>2 DEF Fail, Ends, ClientRaises, EndpointRaises
<1>3. CASE Malformed(t)
  BY <1>3 DEF Malformed, Ends
<1>4. ASSUME NEW r \in Responses, Respond(t, r)
      PROVE  pc'[t] = "ended" /\ outcome'[t].at = now /\ ~verify'[t]
  <2>1. pc[t] # "ended"
    BY <1>4 DEF Respond, Resumed
  <2>2. CASE ~verify[t] /\ Ends(t, Dispatch(r.status), NoNode, 0, "none")
    BY <1>4, <2>2 DEF Respond, Ends
  <2>3. CASE Ends(t, "MissingSignature", NoNode, 0, "none")
    BY <2>3 DEF Ends
  <2>4. CASE UNCHANGED outcome
    BY <1>0, <2>1, <2>4
  <2>5. QED
    BY <1>4, <2>2, <2>3, <2>4 DEF Respond
<1>5. CASE Locate(t)
  BY <1>0, <1>5 DEF Locate, Resumed
<1>6. CASE KeyArrives(t)
  BY <1>0, <1>6 DEF KeyArrives, Resumed, Verify, Ends, LookupIsRecent
<1>7. CASE KeyUnknown(t)
  BY <1>0, <1>7 DEF KeyUnknown, Resumed
<1>8. CASE Skip(t)
  BY <1>0, <1>8 DEF Skip, Checking
<1>9. CASE UseCachedKey(t)
  BY <1>0, <1>9 DEF UseCachedKey, Considered, Checking, Verify, Ends
<1>10. CASE AskForKey(t)
  BY <1>0, <1>10 DEF AskForKey, Checking
<1>11. CASE NoneVerified(t) \/ Unparsable(t)
  BY <1>11 DEF NoneVerified, Unparsable, Ends
<1>12. QED
  BY <1>1, <1>2, <1>3, <1>4, <1>5, <1>6, <1>7, <1>8, <1>9, <1>10, <1>11
     DEF TaskStep, Step, Run

(* The cache stays sound through every step of a task: a hit leaves it, a   *)
(* miss drops an entry, and a lookup stores a node that is known.           *)
LEMMA CacheStep ==
  ASSUME TypeOK, LookupHasIndex, CacheIsSound, LeftBefore, NEW t \in Tasks, TaskStep(t)
  PROVE  CacheIsSound' /\ LeftBefore'
<1>1. UNCHANGED <<now, left>>
  BY DEF TaskStep, Step, Run, Start, Fail, Malformed, Respond, Locate, KeyArrives, KeyUnknown,
         Skip, Unparsable, UseCachedKey, AskForKey, NoneVerified, cacheVars
<1>2. /\ now \in Nat /\ cache \in [Nodes -> Entries \cup {NoEntry}]
      /\ left \in [Nodes -> Nat \cup {Never}] /\ TTL \in Nat /\ MaxStale \in Nat
  BY TTLAssumption, QueryAssumption DEF TypeOK, CacheTypeOK
<1>3. ASSUME NEW m \in Nodes, Get(m)
      PROVE  CacheIsSound'
  BY <1>1, <1>2, <1>3 DEF Get, CacheIsSound
<1>4. CASE KeyArrives(t)
  <2>1. Sig(t).node \in Nodes
    BY <1>4, SigType DEF KeyArrives, Resumed, LookupHasIndex, Signatures
  <2>2. cache' = [cache EXCEPT ![Sig(t).node] = [until |-> now + TTL, since |-> asked[t]]]
    BY <1>4 DEF KeyArrives, Set
  <2>3. Known(Sig(t).node)
    BY <1>4 DEF KeyArrives
  <2> SUFFICES ASSUME NEW n \in Nodes, cache'[n] # NoEntry
               PROVE  /\ n \notin Strangers
                      /\ cache'[n].until <= now + TTL
                      /\ left[n] = Never \/ cache'[n].until <= left[n] + MaxStale + TTL
    BY <1>1 DEF CacheIsSound, LeftBefore
  <2>4. CASE n = Sig(t).node
    <3>1. cache'[n].until = now + TTL
      BY <1>2, <2>1, <2>2, <2>4
    <3>2. QED
      BY <1>2, <2>3, <2>4, <3>1 DEF Known, Never
  <2>5. CASE n # Sig(t).node
    BY <1>2, <2>2, <2>5 DEF CacheIsSound
  <2>6. QED
    BY <2>4, <2>5
<1>5. CASE UseCachedKey(t) \/ AskForKey(t)
  <2>1. Sig(t).node \in Nodes /\ Get(Sig(t).node)
    BY <1>5, CheckingIndex DEF UseCachedKey, AskForKey, Signatures
  <2>2. QED
    BY <1>1, <1>3, <2>1 DEF LeftBefore
<1>6. CASE UNCHANGED cache
  BY <1>1, <1>6 DEF CacheIsSound, LeftBefore
<1>7. QED
  BY <1>4, <1>5, <1>6
     DEF TaskStep, Step, Run, Start, Fail, Malformed, Respond, Locate, KeyUnknown, Skip,
         Unparsable, NoneVerified, cacheVars

(* What a task concludes is vouched for at that moment. *)
LEMMA AnswerStep ==
  ASSUME TypeOK, LookupHasIndex, CacheIsSound, LookupIsRecent, AnswerIsLast,
         NEW t \in Tasks, TaskStep(t), Answered(t)', verify'[t]
  PROVE  Vouched(t)'
<1>1. /\ UseCachedKey(t) \/ KeyArrives(t)
      /\ outcome'[t].at = now
      /\ Sig(t).good /\ Sig(t).form = "whole" /\ resp' = resp /\ verify' = verify
      /\ outcome'[t].by = Sig(t).node /\ outcome'[t].stamp = Sig(t).stamp
  BY NewAnswer DEF UseCachedKey, KeyArrives
<1>2. index[t] \in DOMAIN resp[t].sigs /\ Sig(t) \in Signatures /\ left' = left
  BY <1>1, CheckingIndex, SigType DEF UseCachedKey, KeyArrives, Resumed, LookupHasIndex
<1>3. Sig(t).node \in Nodes /\ Sig(t).stamp \in Int
  BY <1>2 DEF Signatures
<1>4. Sig(t) = [node |-> Sig(t).node, stamp |-> Sig(t).stamp, good |-> TRUE, form |-> "whole"]
  BY <1>1, <1>2 DEF Signatures
<1>5. \E i \in DOMAIN resp'[t].sigs :
        resp'[t].sigs[i] = [node |-> outcome'[t].by, stamp |-> outcome'[t].stamp,
                            good |-> TRUE, form |-> "whole"]
  BY <1>1, <1>2, <1>4 DEF Sig
<1>6. /\ now \in Nat /\ cache \in [Nodes -> Entries \cup {NoEntry}] /\ due[t] \in Nat
      /\ left \in [Nodes -> Nat \cup {Never}] /\ TTL \in Nat \ {0} /\ MaxStale \in Nat
      /\ IngressExpiry \in Nat /\ HttpTimeout \in Nat
  BY TTLAssumption, QueryAssumption DEF TypeOK, CacheTypeOK
<1>7. CASE UseCachedKey(t)
  <2>1. Hit(Sig(t).node) /\ InTime(Sig(t).stamp)
    BY <1>7 DEF UseCachedKey, Considered
  <2>2. MemberNow(Sig(t).node)
    <3>1. cache[Sig(t).node] \in Entries
      BY <1>3, <1>6, <2>1 DEF Hit
    <3>2. cache[Sig(t).node].until \in Nat
      BY <3>1 DEF Entries
    <3>3. QED
      BY <1>3, <1>6, <2>1, <3>2 DEF Hit, CacheIsSound, MemberNow, Never
  <2>3. /\ now - Sig(t).stamp <= IngressExpiry + HttpTimeout
        /\ Sig(t).stamp - now <= IngressExpiry
    BY <1>3, <1>6, <2>1 DEF InTime
  <2>4. QED
    BY <1>1, <1>2, <1>5, <2>2, <2>3 DEF Vouched, MemberNow
<1>8. CASE KeyArrives(t)
  <2>1. Known(Sig(t).node) /\ pc[t] = "fetching"
    BY <1>8 DEF KeyArrives, Resumed
  <2>2. MemberNow(Sig(t).node)
    BY <1>3, <1>6, <2>1 DEF Known, MemberNow, Never
  <2>3. /\ now - Sig(t).stamp <= IngressExpiry + HttpTimeout
        /\ Sig(t).stamp - now <= IngressExpiry
    BY <1>3, <1>6, <2>1 DEF LookupIsRecent
  <2>4. QED
    BY <1>1, <1>2, <1>5, <2>2, <2>3 DEF Vouched, MemberNow
<1>9. QED
  BY <1>1, <1>7, <1>8

(* The pending lookups and the answers, of the task that moves and of the   *)
(* others, through a step of a task.                                        *)
LEMMA AnswersStep ==
  ASSUME TypeOK, LookupHasIndex, QueryInv, NEW t \in Tasks, TaskStep(t)
  PROVE  /\ LookupIsRecent' /\ AnswerIsLast'
         /\ \A u \in Tasks : Answered(u)' /\ verify'[u] => Vouched(u)'
<1>1. UNCHANGED <<now, left>>
  BY DEF TaskStep, Step, Run, Start, Fail, Malformed, Respond, Locate, KeyArrives, KeyUnknown,
         Skip, Unparsable, UseCachedKey, AskForKey, NoneVerified, cacheVars
<1>2. now \in Nat /\ HttpTimeout \in Nat
  BY QueryAssumption DEF TypeOK, CacheTypeOK
<1>3. LookupIsRecent'
  <2> SUFFICES ASSUME NEW u \in Tasks, pc'[u] = "fetching"
               PROVE  /\ index'[u] \in DOMAIN resp'[u].sigs
                      /\ resp'[u].sigs[index'[u]].form = "whole"
                      /\ now <= due'[u] /\ due'[u] <= now + HttpTimeout
                      /\ due'[u] - HttpTimeout - resp'[u].sigs[index'[u]].stamp <= IngressExpiry
                      /\ resp'[u].sigs[index'[u]].stamp - (due'[u] - HttpTimeout) <= IngressExpiry
    BY <1>1 DEF LookupIsRecent, Sig
  <2>1. CASE u # t
    BY <2>1, TasksAreApart DEF Others, QueryInv, LookupIsRecent, Sig
  <2>2. CASE u = t
    <3>1. AskForKey(t)
      BY <2>2, OnlyAskingFetches
    <3>2. /\ index' = index /\ resp' = resp /\ due'[t] = now + HttpTimeout
          /\ InTime(Sig(t).stamp) /\ Sig(t).form = "whole"
      BY <3>1 DEF AskForKey, Await, Considered, TypeOK
    <3>3. index[t] \in DOMAIN resp[t].sigs /\ Sig(t).stamp \in Int
      BY <3>1, CheckingIndex DEF AskForKey, Signatures
    <3>4. QED
      BY <1>2, <2>2, <3>2, <3>3 DEF InTime, Sig
  <2>3. QED
    BY <2>1, <2>2
<1>4. ASSUME NEW u \in Tasks, Answered(u)'
      PROVE  /\ pc'[u] = "ended" /\ outcome'[u].at <= now
             /\ verify'[u] => Vouched(u)'
  <2>1. CASE u # t
    <3>1. /\ pc'[u] = pc[u] /\ verify'[u] = verify[u] /\ resp'[u] = resp[u]
          /\ outcome'[u] = outcome[u]
      BY <2>1, TasksAreApart DEF Others
    <3>2. Answered(u) /\ (verify[u] => Vouched(u))
      BY <1>4, <3>1, VouchedIs DEF Answered, QueryInv
    <3>3. Vouched(u) => Vouched(u)'
      BY <1>1, <3>1 DEF Vouched
    <3>4. QED
      BY <3>1, <3>2, <3>3 DEF QueryInv, AnswerIsLast
  <2>2. CASE u = t
    <3>1. pc'[t] = "ended" /\ outcome'[t].at = now
      BY <1>4, <2>2, NewAnswer DEF QueryInv
    <3>2. verify'[t] => Vouched(t)'
      BY <1>4, <2>2, AnswerStep DEF QueryInv
    <3>3. QED
      BY <1>2, <2>2, <3>1, <3>2
  <2>3. QED
    BY <2>1, <2>2
<1>5. QED
  BY <1>1, <1>3, <1>4 DEF AnswerIsLast

(* A departure spoils no answer given before it, nor any entry's bound. *)
LEMMA LeaveStep ==
  ASSUME TypeOK, QueryInv, NEW n \in Nodes, Leave(n)
  PROVE  QueryInv'
<1>1. /\ UNCHANGED <<now, cache, clears, taskVars>> /\ left' = [left EXCEPT ![n] = now]
      /\ left[n] = Never
  BY DEF Leave, cacheVars
<1>2. /\ now \in Nat /\ cache \in [Nodes -> Entries \cup {NoEntry}]
      /\ left \in [Nodes -> Nat \cup {Never}] /\ TTL \in Nat \ {0} /\ MaxStale \in Nat
  BY TTLAssumption, QueryAssumption DEF TypeOK, CacheTypeOK
<1>3. CacheIsSound'
  <2> SUFFICES ASSUME NEW m \in Nodes, cache[m] # NoEntry
               PROVE  /\ m \notin Strangers
                      /\ cache[m].until <= now + TTL
                      /\ left'[m] = Never \/ cache[m].until <= left'[m] + MaxStale + TTL
    BY <1>1 DEF CacheIsSound
  <2>1. cache[m].until \in Nat
    BY <1>2 DEF Entries
  <2>2. QED
    BY <1>1, <1>2, <2>1 DEF QueryInv, CacheIsSound
<1>4. LeftBefore'
  BY <1>1, <1>2 DEF QueryInv, LeftBefore
<1>5. LookupIsRecent' /\ AnswerIsLast'
  BY <1>1 DEF QueryInv, LookupIsRecent, AnswerIsLast, Answered, Sig, taskVars
<1>6. ASSUME NEW t \in Tasks, Answered(t), verify[t]
      PROVE  Vouched(t)'
  <2>1. Vouched(t) /\ outcome[t].at <= now
    BY <1>6, VouchedIs DEF QueryInv, AnswerIsLast
  <2>2. outcome[t].at \in Nat
    BY DEF TypeOK, Outcomes
  <2>3. outcome[t].at < now + MaxStale + TTL
    BY <1>2, <2>1, <2>2
  <2>4. left'[outcome[t].by] = left[outcome[t].by] \/ left'[outcome[t].by] = now
    BY <1>1, <1>2
  <2>5. QED
    BY <1>1, <2>1, <2>3, <2>4 DEF Vouched, taskVars
<1>7. \A t \in Tasks : Answered(t)' /\ verify'[t] => Vouched(t)'
  BY <1>1, <1>6 DEF Answered, taskVars
<1>8. SignerWasMember' /\ SignatureIsRecent'
  BY <1>7 DEF SignerWasMember, SignatureIsRecent, Vouched
<1>9. QED
  BY <1>3, <1>4, <1>5, <1>8 DEF QueryInv

(***************************************************************************)
(* A verified answer rests on one good signature, from inside the window   *)
(* but for one exchange, of a node that was a member not long ago.         *)
(***************************************************************************)
LEMMA QueryInvariant == Spec => []QueryInv
<1>1. Init => QueryInv
  BY TTLAssumption, QueryAssumption
     DEF Init, CacheInit, QueryInv, CacheIsSound, LeftBefore, LookupIsRecent, AnswerIsLast,
         SignerWasMember, SignatureIsRecent, Answered, NoOutcome, Never
<1>2. TypeOK /\ LookupHasIndex /\ QueryInv /\ [Next]_vars => QueryInv'
  <2> SUFFICES ASSUME TypeOK, LookupHasIndex, QueryInv, [Next]_vars
               PROVE  QueryInv'
    OBVIOUS
  <2>1. ASSUME NEW t \in Tasks, TaskStep(t)
        PROVE  QueryInv'
    <3>1. CacheIsSound' /\ LeftBefore'
      BY <2>1, CacheStep DEF QueryInv
    <3>2. LookupIsRecent' /\ AnswerIsLast'
      BY <2>1, AnswersStep
    <3>3. SignerWasMember' /\ SignatureIsRecent'
      BY <2>1, AnswersStep DEF SignerWasMember, SignatureIsRecent, Vouched
    <3>4. QED
      BY <3>1, <3>2, <3>3 DEF QueryInv
  <2>2. ASSUME NEW n \in Nodes, Leave(n)
        PROVE  QueryInv'
    BY <2>2, LeaveStep
  <2>3. CASE ClearCache
    <3>1. UNCHANGED <<now, left, taskVars>> /\ \A n \in Nodes : cache'[n] = NoEntry
      BY <2>3 DEF ClearCache, Clear
    <3>2. QED
      BY <3>1 DEF taskVars, QueryInv, CacheIsSound, LeftBefore, LookupIsRecent, AnswerIsLast,
                  SignerWasMember, SignatureIsRecent, Answered, Sig
  <2>4. CASE Tick
    <3>1. /\ now' = now + 1 /\ UNCHANGED <<cache, left, taskVars>>
          /\ \A t \in Tasks : pc[t] \in Awaits => now < due[t]
      BY <2>4 DEF Tick
    <3>2. /\ now \in Nat /\ cache \in [Nodes -> Entries \cup {NoEntry}]
          /\ due \in [Tasks -> Nat] /\ left \in [Nodes -> Nat \cup {Never}]
          /\ TTL \in Nat /\ HttpTimeout \in Nat
      BY TTLAssumption, QueryAssumption DEF TypeOK, CacheTypeOK
    <3>3. CacheIsSound'
      <4> SUFFICES ASSUME NEW n \in Nodes, cache[n] # NoEntry
                   PROVE  cache[n].until <= now + 1 + TTL
        BY <3>1 DEF QueryInv, CacheIsSound
      <4>1. cache[n].until \in Nat /\ cache[n].until <= now + TTL
        BY <3>2 DEF Entries, QueryInv, CacheIsSound
      <4>2. QED
        BY <3>2, <4>1
    <3>4. LeftBefore'
      <4>1. \A n \in Nodes : left[n] \in Int /\ left[n] <= now
        BY <3>2 DEF Never, QueryInv, LeftBefore
      <4>2. QED
        BY <3>1, <3>2, <4>1 DEF LeftBefore
    <3>5. LookupIsRecent'
      BY <3>1, <3>2 DEF QueryInv, LookupIsRecent, Awaits, Sig, taskVars
    <3>6. AnswerIsLast'
      <4>1. \A t \in Tasks : outcome[t].at \in Nat
        BY DEF TypeOK, Outcomes
      <4>2. QED
        BY <3>1, <3>2, <4>1 DEF QueryInv, AnswerIsLast, Answered, taskVars
    <3>7. SignerWasMember' /\ SignatureIsRecent'
      BY <3>1 DEF QueryInv, SignerWasMember, SignatureIsRecent, Answered, taskVars
    <3>8. QED
      BY <3>3, <3>4, <3>5, <3>6, <3>7 DEF QueryInv
  <2>5. CASE UNCHANGED vars
    BY <2>5 DEF vars, cacheVars, taskVars, QueryInv, CacheIsSound, LeftBefore, LookupIsRecent,
                AnswerIsLast, SignerWasMember, SignatureIsRecent, Answered, Sig
  <2>6. QED
    BY <2>1, <2>2, <2>3, <2>4, <2>5, StepsAre
<1>3. QED
  BY <1>1, <1>2, TypeInvariant, PTL DEF Spec

(* The signer of a verified answer was a member. *)
THEOREM SignerCorrect == Spec => []SignerWasMember
<1>1. QueryInv => SignerWasMember
  BY DEF QueryInv
<1>2. QED
  BY <1>1, QueryInvariant, PTL

(* Its signature was made lately. *)
THEOREM RecencyCorrect == Spec => []SignatureIsRecent
<1>1. QueryInv => SignatureIsRecent
  BY DEF QueryInv
<1>2. QED
  BY <1>1, QueryInvariant, PTL
-----------------------------------------------------------------------------
(* Of task t's response: a signature that must not go unnoticed until then. *)
Lasting(t, s, then) ==
  /\ s.good /\ s.form = "whole"
  /\ s.node \notin Strangers /\ left[s.node] = Never
  /\ then - s.stamp <= IngressExpiry
  /\ s.stamp - got[t] <= IngressExpiry

(* The signatures that a task has put behind it did not last. *)
TriedInVain(t) ==
  pc[t] \in {"checking", "fetching"} /\ resp[t].status = "replied" =>
    \A i \in DOMAIN resp[t].sigs : i < index[t] => ~Lasting(t, resp[t].sigs[i], now)

(* The loop may get to signature i: what is before it parses. *)
Reachable(t, i) == \A j \in DOMAIN resp[t].sigs : j < i => resp[t].sigs[j].form # "unparsable"

FailedInVain(t) ==
  Unverified(t) =>
    /\ pc[t] = "ended"
    /\ resp[t].status = "replied" =>
         \A i \in DOMAIN resp[t].sigs :
           Reachable(t, i) => ~Lasting(t, resp[t].sigs[i], outcome[t].at)

SearchInv == \A t \in Tasks : got[t] <= now /\ TriedInVain(t) /\ FailedInVain(t)

(* A task that is not looking at signatures has nothing to have tried. *)
LEMMA NotSearching ==
  ASSUME NEW t \in Tasks, pc'[t] \notin {"checking", "fetching"}, ~Unverified(t)'
  PROVE  TriedInVain(t)' /\ FailedInVain(t)'
BY DEF TriedInVain, FailedInVain

(* The signature put aside is the one that did not last. *)
LEMMA NextSignature ==
  ASSUME TypeOK, SearchInv, NEW t \in Tasks, UNCHANGED <<now, left, resp, got, outcome>>,
         pc[t] \in {"checking", "fetching"}, Advance(t),
         resp[t].status = "replied" => ~Lasting(t, Sig(t), now)
  PROVE  TriedInVain(t)' /\ FailedInVain(t)'
<1>1. index'[t] = index[t] + 1 /\ index[t] \in Nat
  BY DEF Advance, TypeOK
<1>2. resp[t].sigs \in Seq(Signatures)
  BY DEF TypeOK, Received
<1>3. ASSUME NEW i \in DOMAIN resp[t].sigs, resp[t].status = "replied", i < index'[t]
      PROVE  ~Lasting(t, resp[t].sigs[i], now)
  <2>1. i \in Nat
    BY <1>2
  <2>2. i < index[t] \/ i = index[t]
    BY <1>1, <1>3, <2>1
  <2>3. QED
    BY <1>3, <2>2 DEF SearchInv, TriedInVain, Sig
<1>4. TriedInVain(t)'
  BY <1>3 DEF TriedInVain, Lasting
<1>5. ~Unverified(t)
  BY DEF SearchInv, FailedInVain
<1>6. QED
  BY <1>4, <1>5 DEF FailedInVain, Reachable, Unverified

(* A signature outside the window now is outside of it, seen from the past. *)
LEMMA OutOfTime ==
  ASSUME TypeOK, SearchInv, NEW t \in Tasks, Sig(t) \in Signatures, ~InTime(Sig(t).stamp)
  PROVE  ~Lasting(t, Sig(t), now)
<1>1. now \in Nat /\ got[t] \in Nat /\ got[t] <= now /\ Sig(t).stamp \in Int /\ IngressExpiry \in Nat
  BY QueryAssumption DEF TypeOK, CacheTypeOK, SearchInv, Signatures
<1>2. QED
  BY <1>1 DEF Lasting, InTime

(* A step of the task itself keeps the search's invariant for it. *)
LEMMA SearchStep ==
  ASSUME TypeOK, LookupHasIndex, SearchInv, NEW t \in Tasks, TaskStep(t)
  PROVE  got'[t] <= now' /\ TriedInVain(t)' /\ FailedInVain(t)'
<1>0. /\ now \in Nat /\ got[t] <= now /\ TriedInVain(t) /\ FailedInVain(t)
      /\ Unverified(t) => pc[t] = "ended"
  BY DEF TypeOK, CacheTypeOK, SearchInv, FailedInVain
<1>1. CASE Start(t)
  <2>1. pc'[t] = "querying" /\ ~Unverified(t)'
    BY <1>0, <1>1 DEF Start, Await, Resumed, TypeOK, Unverified
  <2>2. QED
    BY <1>0, <1>1, <2>1, NotSearching DEF Start, cacheVars
<1>2. CASE Fail(t) \/ Malformed(t)
  <2>1. pc'[t] = "ended" /\ ~Unverified(t)'
    BY <1>2, QueryAssumption
       DEF Fail, Malformed, Ends, ClientRaises, EndpointRaises, TypeOK, Unverified, Outcome
  <2>2. QED
    BY <1>0, <1>2, <2>1, NotSearching DEF Fail, Malformed, cacheVars
<1>3. ASSUME NEW r \in Responses, Respond(t, r)
      PROVE  got'[t] <= now' /\ TriedInVain(t)' /\ FailedInVain(t)'
  <2>1. got'[t] = now /\ now' = now /\ pc[t] # "ended"
    BY <1>3 DEF Respond, Resumed, TypeOK, cacheVars
  <2>2. pc'[t] \in {"ended", "locating"} /\ ~Unverified(t)'
    <3>1. CASE Ends(t, Dispatch(r.status), NoNode, 0, "none")
      BY <3>1 DEF Ends, Dispatch, TypeOK, Unverified, Outcome
    <3>2. CASE Ends(t, "MissingSignature", NoNode, 0, "none")
      BY <3>2 DEF Ends, TypeOK, Unverified, Outcome
    <3>3. CASE Await(t, "locating") /\ UNCHANGED outcome
      BY <1>0, <2>1, <3>3 DEF Await, TypeOK, Unverified
    <3>4. QED
      BY <1>3, <3>1, <3>2, <3>3 DEF Respond
  <2>3. QED
    BY <1>0, <2>1, <2>2, NotSearching
<1>4. CASE Locate(t)
  <2>1. index'[t] = 1 /\ pc[t] # "ended" /\ UNCHANGED <<now, got, resp, outcome>>
    BY <1>4 DEF Locate, Resumed, TypeOK, cacheVars
  <2>2. DOMAIN resp[t].sigs = 1 .. Len(resp[t].sigs)
    <3>1. resp[t].sigs \in Seq(Signatures)
      BY DEF TypeOK, Received
    <3>2. QED
      BY <3>1
  <2>3. TriedInVain(t)'
    BY <2>1, <2>2 DEF TriedInVain
  <2>4. FailedInVain(t)'
    BY <1>0, <2>1 DEF FailedInVain, Reachable, Unverified
  <2>5. QED
    BY <1>0, <2>1, <2>3, <2>4
<1>5. CASE Skip(t)
  <2>1. Sig(t) \in Signatures /\ pc[t] = "checking" /\ Advance(t)
    BY <1>5, CheckingIndex DEF Skip, Checking
  <2>2. resp[t].status = "replied" => ~Lasting(t, Sig(t), now)
    BY <1>5, <2>1, OutOfTime DEF Skip, Considered, Buildable, Lasting
  <2>3. UNCHANGED <<now, left, resp, got, outcome>>
    BY <1>5 DEF Skip, cacheVars
  <2>4. TriedInVain(t)' /\ FailedInVain(t)'
    BY <2>1, <2>2, <2>3, NextSignature
  <2>5. QED
    BY <1>0, <2>3, <2>4
<1>6. CASE UseCachedKey(t) \/ KeyArrives(t)
  <2>1. /\ UNCHANGED <<now, left, resp, got>> /\ Verify(t)
        /\ pc[t] \in {"checking", "fetching"}
    BY <1>6 DEF UseCachedKey, KeyArrives, Checking, Resumed
  <2>2. CASE Ends(t, Dispatch(resp[t].status), Sig(t).node, Sig(t).stamp, "none")
    <3>1. pc'[t] = "ended" /\ ~Unverified(t)'
      BY <2>2 DEF Ends, Dispatch, TypeOK, Unverified, Outcome
    <3>2. QED
      BY <1>0, <2>1, <3>1, NotSearching
  <2>3. CASE ~Sig(t).good /\ Advance(t) /\ UNCHANGED outcome
    <3>1. ~Lasting(t, Sig(t), now)
      BY <2>3 DEF Lasting
    <3>2. TriedInVain(t)' /\ FailedInVain(t)'
      BY <2>1, <2>3, <3>1, NextSignature
    <3>3. QED
      BY <1>0, <2>1, <3>2
  <2>4. QED
    BY <2>1, <2>2, <2>3 DEF Verify
<1>7. CASE KeyUnknown(t)
  <2>1. /\ UNCHANGED <<now, left, resp, got, outcome>> /\ Advance(t) /\ pc[t] = "fetching"
        /\ ~Lasting(t, Sig(t), now)
    BY <1>7 DEF KeyUnknown, Resumed, Unknown, Lasting, cacheVars
  <2>2. TriedInVain(t)' /\ FailedInVain(t)'
    BY <2>1, NextSignature
  <2>3. QED
    BY <1>0, <2>1, <2>2
<1>8. CASE AskForKey(t)
  <2>1. UNCHANGED <<now, left, resp, got, outcome, index>> /\ pc[t] = "checking"
    BY <1>8 DEF AskForKey, Checking
  <2>2. TriedInVain(t)'
    BY <1>0, <2>1 DEF TriedInVain, Lasting
  <2>3. FailedInVain(t)'
    BY <1>0, <2>1 DEF FailedInVain, Reachable, Unverified
  <2>4. QED
    BY <1>0, <2>1, <2>2, <2>3
<1>9. CASE NoneVerified(t)
  <2>1. /\ UNCHANGED <<now, left, resp, got>> /\ pc'[t] = "ended" /\ outcome'[t].at = now
        /\ pc[t] = "checking" /\ index[t] > Len(resp[t].sigs)
    BY <1>9 DEF NoneVerified, Ends, Outcome, TypeOK, cacheVars
  <2>2. \A i \in DOMAIN resp[t].sigs : i < index[t]
    <3>1. resp[t].sigs \in Seq(Signatures) /\ index[t] \in Nat
      BY DEF TypeOK, Received
    <3>2. QED
      BY <2>1, <3>1
  <2>3. resp[t].status = "replied" =>
          \A i \in DOMAIN resp[t].sigs : ~Lasting(t, resp[t].sigs[i], now)
    BY <1>0, <2>1, <2>2 DEF TriedInVain
  <2>4. FailedInVain(t)'
    BY <2>1, <2>3 DEF FailedInVain, Lasting
  <2>5. QED
    BY <1>0, <2>1, <2>4 DEF TriedInVain
<1>10. CASE Unparsable(t)
  <2>1. /\ UNCHANGED <<now, left, resp, got>> /\ pc'[t] = "ended" /\ outcome'[t].at = now
        /\ pc[t] = "checking" /\ Sig(t).form = "unparsable" /\ index[t] \in DOMAIN resp[t].sigs
    BY <1>10, CheckingIndex DEF Unparsable, Checking, Ends, Outcome, TypeOK, cacheVars
  <2>2. ASSUME NEW i \in DOMAIN resp[t].sigs, Reachable(t, i)
        PROVE  i < index[t] \/ i = index[t]
    <3>1. ~(index[t] < i)
      BY <2>1, <2>2 DEF Reachable, Sig
    <3>2. resp[t].sigs \in Seq(Signatures) /\ index[t] \in Nat
      BY DEF TypeOK, Received
    <3>3. i \in Nat
      BY <3>2
    <3>4. QED
      BY <3>1, <3>2, <3>3
  <2>3. ~Lasting(t, Sig(t), now)
    BY <2>1 DEF Lasting
  <2>4. resp[t].status = "replied" =>
          \A i \in DOMAIN resp[t].sigs : Reachable(t, i) => ~Lasting(t, resp[t].sigs[i], now)
    BY <1>0, <2>1, <2>2, <2>3 DEF TriedInVain, Sig
  <2>5. FailedInVain(t)'
    BY <2>1, <2>4 DEF FailedInVain, Reachable, Lasting
  <2>6. QED
    BY <1>0, <2>1, <2>5 DEF TriedInVain
<1>11. QED
  BY <1>1, <1>2, <1>3, <1>4, <1>5, <1>6, <1>7, <1>8, <1>9, <1>10 DEF TaskStep, Step, Run

(* Time and departures make no signature last that did not. *)
LEMMA SearchAges ==
  ASSUME TypeOK, SearchInv, UNCHANGED taskVars, now' \in Nat, now <= now',
         \A n \in Nodes : left'[n] = Never => left[n] = Never
  PROVE  SearchInv'
<1> SUFFICES ASSUME NEW t \in Tasks
             PROVE  got'[t] <= now' /\ TriedInVain(t)' /\ FailedInVain(t)'
  BY DEF SearchInv
<1>1. /\ now \in Nat /\ got[t] \in Nat /\ got[t] <= now /\ IngressExpiry \in Nat
      /\ TriedInVain(t) /\ FailedInVain(t)
      /\ UNCHANGED <<pc, resp, got, index, outcome>>
  BY QueryAssumption DEF TypeOK, CacheTypeOK, SearchInv, taskVars
<1>2. \A i \in DOMAIN resp[t].sigs : resp[t].sigs[i] \in Signatures
  <2>1. resp[t].sigs \in Seq(Signatures)
    BY DEF TypeOK, Received
  <2>2. QED
    BY <2>1
<1>3. ASSUME NEW i \in DOMAIN resp[t].sigs, ~Lasting(t, resp[t].sigs[i], now)
      PROVE  ~Lasting(t, resp[t].sigs[i], now)'
  <2>1. resp[t].sigs[i].stamp \in Int /\ resp[t].sigs[i].node \in Nodes
    BY <1>2 DEF Signatures
  <2>2. QED
    BY <1>1, <1>3, <2>1 DEF Lasting
<1>4. ASSUME NEW i \in DOMAIN resp[t].sigs, ~Lasting(t, resp[t].sigs[i], outcome[t].at)
      PROVE  ~Lasting(t, resp[t].sigs[i], outcome[t].at)'
  <2>1. resp[t].sigs[i].node \in Nodes
    BY <1>2 DEF Signatures
  <2>2. QED
    BY <1>1, <1>4, <2>1 DEF Lasting
<1>5. TriedInVain(t)'
  BY <1>1, <1>3 DEF TriedInVain
<1>6. FailedInVain(t)'
  BY <1>1, <1>4 DEF FailedInVain, Reachable, Unverified
<1>7. QED
  BY <1>1, <1>5, <1>6

(***************************************************************************)
(* Verification fails only when no lasting member's signature is at hand   *)
(* ahead of an entry that does not parse.                                  *)
(***************************************************************************)
THEOREM SearchCorrect == Spec => []GoodSignatureSuffices
<1>1. Init => SearchInv
  BY DEF Init, CacheInit, SearchInv, TriedInVain, FailedInVain, Unverified, NoOutcome
<1>2. TypeOK /\ TypeOK' /\ LookupHasIndex /\ SearchInv /\ [Next]_vars => SearchInv'
  <2> SUFFICES ASSUME TypeOK, TypeOK', LookupHasIndex, SearchInv, [Next]_vars
               PROVE  SearchInv'
    OBVIOUS
  <2>1. ASSUME NEW t \in Tasks, TaskStep(t)
        PROVE  SearchInv'
    <3>1. UNCHANGED <<now, left>>
      BY <2>1 DEF TaskStep, Step, Run, Start, Fail, Malformed, Respond, Locate, KeyArrives,
                  KeyUnknown, Skip, Unparsable, UseCachedKey, AskForKey, NoneVerified, cacheVars
    <3>2. ASSUME NEW u \in Tasks \ {t}
          PROVE  got'[u] <= now' /\ TriedInVain(u)' /\ FailedInVain(u)'
      <4>1. /\ pc'[u] = pc[u] /\ resp'[u] = resp[u] /\ index'[u] = index[u]
            /\ outcome'[u] = outcome[u] /\ got'[u] = got[u]
        BY <2>1, TasksAreApart DEF Others
      <4>2. QED
        BY <3>1, <4>1 DEF SearchInv, TriedInVain, FailedInVain, Reachable, Unverified, Lasting
    <3>3. QED
      BY <2>1, <3>2, SearchStep DEF SearchInv
  <2>2. ASSUME NEW n \in Nodes, Leave(n)
        PROVE  SearchInv'
    BY <2>2, SearchAges DEF Leave, TypeOK, CacheTypeOK, cacheVars
  <2>3. CASE ClearCache \/ Tick \/ UNCHANGED vars
    BY <2>3, SearchAges DEF ClearCache, Clear, Tick, TypeOK, CacheTypeOK, vars, cacheVars
  <2>4. QED
    BY <2>1, <2>2, <2>3, StepsAre
<1>3. SearchInv => GoodSignatureSuffices
  BY DEF SearchInv, FailedInVain, Reachable, Unverified, Lasting, GoodSignatureSuffices
<1>4. QED
  BY <1>1, <1>2, <1>3, TypeInvariant, PTL DEF Spec
=============================================================================
