-------------------------- MODULE UpdateCallProofs --------------------------
(***************************************************************************)
(* Machine-checked proofs about UpdateCall, for every value of its         *)
(* constants: type correctness, the truth of what the caller is told, that *)
(* no answer in hand is lost, the bound on the polling time, and, of nodes *)
(* that reject truthfully, the refinement of CallPromise.                  *)
(***************************************************************************)
EXTENDS UpdateCall, TLAPS

(***************************************************************************)
(* What the agent reads off a certificate has the type of a view.          *)
(***************************************************************************)
LEMMA ServedType == SubnetTypeOK => Served \subseteq Views
<1> SUFFICES ASSUME SubnetTypeOK, NEW v \in Served
             PROVE  v \in Views
  OBVIOUS
<1>1. CASE v \in HonestViews
  <2>1. PICK c \in certs : v = [time |-> c.time, status |-> c.status,
                                content |-> c.content, valid |-> TRUE]
    BY <1>1 DEF HonestViews
  <2>2. c \in Certs
    BY DEF SubnetTypeOK
  <2>3. QED
    BY <2>1, <2>2 DEF Views, Certs
<1>2. CASE v \in PrunedViews
  <2>1. PICK c \in certs : v \in [time : {c.time, NoTime}, status : {c.status, "absent"},
                                  content : {c.content, "none"}, valid : {TRUE}]
    BY <1>2 DEF PrunedViews
  <2>2. c \in Certs
    BY DEF SubnetTypeOK
  <2>3. QED
    BY <2>1, <2>2 DEF Views, Certs, Statuses, Contents
<1>3. CASE v \in ForgedViews
  BY <1>3 DEF ForgedViews, Views, SubnetTypeOK
<1>4. QED
  BY <1>1, <1>2, <1>3 DEF Served

(* What a call concludes from a view is an outcome. *)
LEMMA ConclusionTypes ==
  ASSUME NEW v \in Views
  PROVE  FastConclusion(v) \in Outcomes /\ PollConclusion(v) \in Outcomes
BY DEF Views, Outcomes, Outcome, Kinds, Raised, FastConclusion, PollConclusion, Rejection,
       Decoded, Finalized, Contents, Answers, Replies

(* The next backoff is a natural number again. *)
LEMMA BackoffType ==
  ASSUME NEW d \in Nat
  PROVE  NextBackoff(d) \in Nat
<1>1. d * Multiplier \in Nat
  BY DurationsAssumption
<1>2. QED
  BY <1>1, DurationsAssumption DEF NextBackoff

(* Every exception of the code is an outcome. *)
LEMMA RaisedType == \A kind \in Kinds : Raised(kind) \in Outcomes
BY DEF Raised, Outcome, Outcomes, Contents

(* What is in hand is the time and the status of a view. *)
LEMMA TakeType ==
  ASSUME NEW v \in Views, hand \in Hands, Take(v)
  PROVE  hand' \in Hands
BY DEF Take, Views, Hands

(* The first lines of poll leave all variables well typed. *)
LEMMA StartPollingType ==
  ASSUME TypeOK, StartPolling, UNCHANGED subnetVars, hand' \in Hands
  PROVE  TypeOK'
<1>1. SubnetTypeOK' /\ now \in Nat
  BY DEF TypeOK, subnetVars, SubnetTypeOK
<1>2. start' \in Nat /\ due' \in Nat /\ backoff' \in Nat
  BY <1>1, DurationsAssumption DEF StartPolling
<1>3. QED
  BY <1>1, <1>2 DEF TypeOK, StartPolling

(***************************************************************************)
(* Every variable keeps its type.                                          *)
(***************************************************************************)
THEOREM TypeCorrect == Spec => []TypeOK
<1>1. Init => TypeOK
  <2> SUFFICES ASSUME Init
               PROVE  TypeOK
    OBVIOUS
  <2>1. SubnetTypeOK
    BY DEF Init, SubnetInit, SubnetTypeOK, Stages, Statuses, Certs, Contents
  <2>2. outcome \in Outcomes
    BY RaisedType DEF Init, NoOutcome, Kinds
  <2>3. hand \in Hands
    BY DEF Init, Hands
  <2>4. QED
    BY <2>1, <2>2, <2>3, DurationsAssumption DEF Init, TypeOK
<1>2. TypeOK /\ [Next]_vars => TypeOK'
  <2> SUFFICES ASSUME TypeOK, [Next]_vars
               PROVE  TypeOK'
    OBVIOUS
  <2> USE DEF TypeOK
  <2>1. CASE Submit
    <3>1. skew \in Int
      BY OptionsAssumption
    <3>2. QED
      BY <2>1, <3>1, DurationsAssumption
         DEF Submit, SubnetTypeOK, Stages, Wall
  <2>2. CASE ExchangeFails
    BY <2>2, RaisedType DEF ExchangeFails, End, subnetVars, SubnetTypeOK, Kinds
  <2>3. CASE PostUnusable
    BY <2>3, RaisedType DEF PostUnusable, End, subnetVars, SubnetTypeOK, Kinds
  <2>4. CASE PostAccepted
    BY <2>4, StartPollingType DEF PostAccepted
  <2>5. CASE PostRejected
    BY <2>5 DEF PostRejected, End, Outcome, Outcomes, Kinds, Contents, Answers,
                SubnetTypeOK, Stages
  <2>6. ASSUME NEW v \in Served,
               \/ PostUndecided(v) \/ PostCertified(v) \/ Refuse(v)
               \/ PollTerminal(v) \/ PollAgain(v) \/ PollTimesOut(v)
        PROVE  TypeOK'
    <3>0. v \in Views /\ (Take(v) => hand' \in Hands)
      BY ServedType, TakeType
    <3>1. CASE PostUndecided(v)
      BY <3>0, <3>1, StartPollingType DEF PostUndecided
    <3>2. CASE PostCertified(v)
      BY <3>0, <3>2, ConclusionTypes DEF PostCertified, End, subnetVars, SubnetTypeOK
    <3>3. CASE Refuse(v)
      BY <3>3, RaisedType DEF Refuse, Refusal, End, subnetVars, SubnetTypeOK, Kinds
    <3>4. CASE PollTerminal(v)
      BY <3>0, <3>4, ConclusionTypes DEF PollTerminal, End, subnetVars, SubnetTypeOK
    <3>5. CASE PollAgain(v)
      <4>1. Delay(v) \in Nat
        BY DurationsAssumption DEF Delay
      <4>2. QED
        BY <3>0, <3>5, <4>1, BackoffType DEF PollAgain, Underway, subnetVars, SubnetTypeOK
    <3>6. CASE PollTimesOut(v)
      BY <3>0, <3>6, RaisedType DEF PollTimesOut, End, subnetVars, SubnetTypeOK, Kinds
    <3>7. QED
      BY <2>6, <3>1, <3>2, <3>3, <3>4, <3>5, <3>6
  <2>7. CASE Wake
    BY <2>7, DurationsAssumption DEF Wake, subnetVars, SubnetTypeOK
  <2>8. CASE Environment
    BY <2>8 DEF Environment, SubnetStep, Receive, Process, Respond, Forget, Prune,
                agentVars, SubnetTypeOK, Stages, Statuses, Contents
  <2>9. CASE Tick
    <3>1. Snapshot(now + 1) \in Certs
      BY DEF SubnetTypeOK, Snapshot, Certs, Statuses, Contents
    <3>2. QED
      BY <2>9, <3>1 DEF Tick, Certify, agentVars, SubnetTypeOK
  <2>10. CASE UNCHANGED vars
    BY <2>10 DEF vars, subnetVars, agentVars, SubnetTypeOK
  <2>11. QED
    BY <2>1, <2>2, <2>3, <2>4, <2>5, <2>6, <2>7, <2>8, <2>9, <2>10
       DEF Next, AgentStep, Ended
<1>3. QED
  BY <1>1, <1>2, PTL DEF Spec
-----------------------------------------------------------------------------
(***************************************************************************)
(* What a trusted agent reads is true: a genuine view, pruned or not, shows *)
(* no other answer than the canister's.                                    *)
(***************************************************************************)
LEMMA BelievedIsTrue ==
  ASSUME CertsAreTrue, Trusted, NEW v \in Served, Believed(v)
  PROVE  /\ v.content # "none" => v.content = effect
         /\ v.status = "rejected" => effect = "reject"
<1>1. CASE v \in HonestViews
  <2>1. PICK c \in certs : v = [time |-> c.time, status |-> c.status,
                                content |-> c.content, valid |-> TRUE]
    BY <1>1 DEF HonestViews
  <2>2. QED
    BY <2>1 DEF CertsAreTrue
<1>2. CASE v \in PrunedViews
  <2>1. PICK c \in certs : v \in [time : {c.time, NoTime}, status : {c.status, "absent"},
                                  content : {c.content, "none"}, valid : {TRUE}]
    BY <1>2 DEF PrunedViews
  <2>2. v.status \in {c.status, "absent"} /\ v.content \in {c.content, "none"}
    BY <2>1
  <2>3. QED
    BY <2>2 DEF CertsAreTrue
<1>3. CASE Faulty /\ v \in ForgedViews
  <2>1. ~v.valid /\ opts.verify
    BY <1>3 DEF ForgedViews, Trusted
  <2>2. QED
    BY <2>1 DEF Believed
<1>4. QED
  BY <1>1, <1>2, <1>3 DEF Served

(* What is concluded from a true view is true. *)
LEMMA ConclusionIsTrue ==
  ASSUME CertsAreTrue, Trusted, NEW v \in Served, Believed(v),
         NEW o \in {FastConclusion(v), PollConclusion(v)}, o.via = "certificate"
  PROVE  \/ o.kind = "returned" /\ o.content = effect /\ effect \in Replies
         \/ o.kind = "ReplicaReject" /\ effect = "reject"
<1>1. /\ v.content # "none" => v.content = effect
      /\ v.status = "rejected" => effect = "reject"
  BY BelievedIsTrue
<1>2. CASE v.status = "rejected"
  BY <1>1, <1>2 DEF FastConclusion, PollConclusion, Rejection, Outcome
<1>3. CASE v.status # "rejected"
  BY <1>1, <1>3
     DEF FastConclusion, PollConclusion, Decoded, Finalized, Raised, Outcome, Replies
<1>4. QED
  BY <1>2, <1>3

(* A value is returned, and a rejection raised, of what a certificate says. *)
LEMMA ConclusionSources ==
  ASSUME NEW v, NEW o \in {FastConclusion(v), PollConclusion(v)}
  PROVE  /\ o.via \in {"none", "certificate"}
         /\ o.kind \in {"returned", "ReplicaReject"} => o.via = "certificate"
BY DEF FastConclusion, PollConclusion, Rejection, Decoded, Finalized, Raised, Outcome

(***************************************************************************)
(* The message's life, the certified states and the answer stay in accord. *)
(***************************************************************************)
LEMMA AnswerInvariant == Spec => []AnswerInv
<1>1. Init => AnswerInv
  BY DEF Init, SubnetInit, AnswerInv, EffectMatchesStage, CertsAreTrue, AnswerIsFinal,
         RefusalIsFinal, NoOutcome, Raised, Outcome
<1>2. TypeOK /\ AnswerInv /\ [Next]_vars => AnswerInv'
  <2> SUFFICES ASSUME TypeOK, AnswerInv, [Next]_vars
               PROVE  AnswerInv'
    OBVIOUS
  <2>1. ASSUME UNCHANGED subnetVars, UNCHANGED opts, UNCHANGED outcome,
               (pc # "ended" /\ pc' # "idle") \/ pc' = pc
        PROVE  AnswerInv'
    BY <2>1 DEF AnswerInv, EffectMatchesStage, CertsAreTrue, AnswerIsFinal, RefusalIsFinal,
                Trusted, subnetVars
  <2>2. ASSUME UNCHANGED subnetVars, UNCHANGED opts, pc' # "idle", outcome'.via # "unsigned",
               Trusted /\ outcome'.via = "certificate" =>
                  \/ outcome'.kind = "returned" /\ outcome'.content = effect /\ effect \in Replies
                  \/ outcome'.kind = "ReplicaReject" /\ effect = "reject"
        PROVE  AnswerInv'
    BY <2>2 DEF AnswerInv, EffectMatchesStage, CertsAreTrue, AnswerIsFinal, RefusalIsFinal,
                Trusted, subnetVars
  <2>3. CASE Submit
    BY <2>3 DEF Submit, AnswerInv, EffectMatchesStage, CertsAreTrue, AnswerIsFinal,
                RefusalIsFinal, Trusted, TypeOK
  <2>4. CASE ExchangeFails
    BY <2>2, <2>4 DEF ExchangeFails, End, Raised, Outcome
  <2>5. CASE PostUnusable
    BY <2>2, <2>5 DEF PostUnusable, End, Raised, Outcome
  <2>6. CASE PostAccepted
    BY <2>1, <2>6 DEF PostAccepted, StartPolling
  <2>7. CASE PostRejected
    BY <2>7 DEF PostRejected, End, Outcome, AnswerInv, EffectMatchesStage, CertsAreTrue,
                AnswerIsFinal, RefusalIsFinal
  <2>8. ASSUME NEW v \in Served,
               \/ PostUndecided(v) \/ PostCertified(v) \/ Refuse(v)
               \/ PollTerminal(v) \/ PollAgain(v) \/ PollTimesOut(v)
        PROVE  AnswerInv'
    <3>1. CASE PostUndecided(v)
      BY <2>1, <3>1 DEF PostUndecided, StartPolling
    <3>2. CASE PostCertified(v)
      BY <2>2, <3>2, ConclusionIsTrue, ConclusionSources DEF PostCertified, End, AnswerInv
    <3>3. CASE Refuse(v)
      BY <2>2, <3>3 DEF Refuse, End, Raised, Outcome
    <3>4. CASE PollTerminal(v)
      BY <2>2, <3>4, ConclusionIsTrue, ConclusionSources DEF PollTerminal, End, AnswerInv
    <3>5. CASE PollAgain(v)
      BY <2>1, <3>5 DEF PollAgain
    <3>6. CASE PollTimesOut(v)
      BY <2>2, <3>6 DEF PollTimesOut, End, Raised, Outcome
    <3>7. QED
      BY <2>8, <3>1, <3>2, <3>3, <3>4, <3>5, <3>6
  <2>9. CASE Wake
    BY <2>1, <2>9 DEF Wake
  <2>10. CASE Environment
    <3>1. UNCHANGED <<opts, outcome, certs, now, pc>>
      BY <2>10 DEF Environment, agentVars, SubnetStep, Receive, Process, Respond, Forget, Prune
    <3>2. effect # "none" => effect' = effect
      BY <2>10 DEF Environment, SubnetStep, Receive, Process, Respond, Forget, Prune,
                   AnswerInv, EffectMatchesStage
    <3>3. EffectMatchesStage'
      BY <2>10, <3>1 DEF Environment, SubnetStep, Receive, Process, Respond, Forget, Prune,
                   AnswerInv, EffectMatchesStage, Answers
    <3>4. CertsAreTrue' /\ AnswerIsFinal'
      BY <3>1, <3>2 DEF AnswerInv, CertsAreTrue, AnswerIsFinal, Trusted, Replies
    <3>5. RefusalIsFinal'
      BY <2>10, <3>1 DEF Environment, SubnetStep, Receive, Process, Respond, Forget, Prune,
                   AnswerInv, RefusalIsFinal
    <3>6. QED
      BY <3>3, <3>4, <3>5 DEF AnswerInv
  <2>11. CASE Tick
    <3>1. /\ Snapshot(now + 1).content # "none" => Snapshot(now + 1).content = effect
          /\ Snapshot(now + 1).status = "rejected" => effect = "reject"
          /\ Snapshot(now + 1).time = now + 1
      BY DEF Snapshot, AnswerInv, EffectMatchesStage
    <3>2. CertsAreTrue'
      BY <2>11, <3>1 DEF Tick, Certify, AnswerInv, CertsAreTrue, TypeOK, SubnetTypeOK, Certs
    <3>3. QED
      BY <2>11, <3>2 DEF Tick, Certify, agentVars, AnswerInv, EffectMatchesStage,
                         AnswerIsFinal, RefusalIsFinal, Trusted
  <2>12. CASE UNCHANGED vars
    BY <2>1, <2>12 DEF vars, agentVars
  <2>13. QED
    BY <2>3, <2>4, <2>5, <2>6, <2>7, <2>8, <2>9, <2>10, <2>11, <2>12
       DEF Next, AgentStep, Ended
<1>3. QED
  BY <1>1, <1>2, TypeCorrect, PTL DEF Spec

(***************************************************************************)
(* The answer a trusted caller is given is the canister's.                 *)
(***************************************************************************)
THEOREM AnswerCorrect == Spec => []AnswerIsReal
<1>1. AnswerInv => AnswerIsReal
  BY DEF AnswerInv, AnswerIsFinal, AnswerIsReal
<1>2. QED
  BY <1>1, AnswerInvariant, PTL
-----------------------------------------------------------------------------
(***************************************************************************)
(* An honest view is a certified state that is not too old.                *)
(***************************************************************************)
LEMMA HonestView ==
  ASSUME ~Faulty, NEW v \in Served
  PROVE  /\ v.valid
         /\ \E c \in certs : /\ v.time = c.time /\ v.status = c.status
                            /\ now - c.time <= MaxStale
BY OptionsAssumption DEF Served, HonestViews

(* Within the window of clock skew and lag, an honest view is believed. *)
LEMMA HonestViewIsBelieved ==
  ASSUME TypeOK, CertsAreTrue, ~Faulty, NEW v \in Served,
         skew >= -IngressExpiry, skew + MaxStale <= IngressExpiry
  PROVE  Believed(v)
<1>1. PICK c \in certs : v.time = c.time /\ now - c.time <= MaxStale
  BY HonestView
<1>2. c.time \in Nat /\ c.time <= now /\ now \in Nat /\ skew \in Int
  BY OptionsAssumption DEF TypeOK, SubnetTypeOK, Certs, CertsAreTrue
<1>3. Fresh(v)
  BY <1>1, <1>2, DurationsAssumption DEF Fresh, Wall, NoTime
<1>4. QED
  BY <1>3, HonestView DEF Believed

(* No conclusion is a failed verification, and one that is a failed         *)
(* decoding is about a reply that is not Candid.                            *)
LEMMA ConclusionErrors ==
  ASSUME CertsAreTrue, Trusted, NEW v \in Served, Believed(v),
         NEW o \in {FastConclusion(v), PollConclusion(v)}
  PROVE  /\ o.kind \notin {"CertificateVerificationError", "TimeoutWaitingForResponse"}
         /\ o.kind = "ValueError" => effect = "plain"
BY BelievedIsTrue
   DEF FastConclusion, PollConclusion, Rejection, Decoded, Finalized, Raised, Outcome, Replies

(***************************************************************************)
(* No honest node's certificate is refused.                                *)
(***************************************************************************)
THEOREM HonestCorrect == Spec => []HonestNodeIsBelieved
<1> DEFINE Window == skew >= -IngressExpiry /\ skew + MaxStale <= IngressExpiry
           Inv    == ~Faulty /\ Window =>
                       /\ outcome.kind # "CertificateVerificationError"
                       /\ outcome.kind = "ValueError" => effect = "plain"
<1>1. Init => Inv
  BY DEF Init, NoOutcome, Raised, Outcome
<1>2. TypeOK /\ AnswerInv /\ Inv /\ [Next]_vars => Inv'
  <2> SUFFICES ASSUME TypeOK, AnswerInv, Inv, [Next]_vars
               PROVE  Inv'
    OBVIOUS
  <2>1. ASSUME UNCHANGED skew,
               outcome'.kind \notin {"CertificateVerificationError", "ValueError"}
        PROVE  Inv'
    BY <2>1
  <2>2. ASSUME UNCHANGED skew, UNCHANGED effect, UNCHANGED outcome
        PROVE  Inv'
    BY <2>2
  <2>3. CASE Submit
    BY <2>2, <2>3 DEF Submit
  <2>4. CASE ExchangeFails \/ PostUnusable \/ PostRejected
    BY <2>1, <2>4 DEF ExchangeFails, PostUnusable, PostRejected, End, Raised, Outcome
  <2>5. CASE PostAccepted \/ Wake
    BY <2>2, <2>5 DEF PostAccepted, StartPolling, Wake, subnetVars
  <2>6. ASSUME NEW v \in Served,
               \/ PostUndecided(v) \/ PostCertified(v) \/ Refuse(v)
               \/ PollTerminal(v) \/ PollAgain(v) \/ PollTimesOut(v)
        PROVE  Inv'
    <3>1. CASE PostUndecided(v) \/ PollAgain(v)
      BY <2>2, <3>1 DEF PostUndecided, PollAgain, StartPolling, subnetVars
    <3>2. CASE PostCertified(v) \/ PollTerminal(v)
      <4>1. PICK o \in {FastConclusion(v), PollConclusion(v)} : outcome' = o
        BY <3>2 DEF PostCertified, PollTerminal, End
      <4>2. Believed(v) /\ UNCHANGED effect /\ UNCHANGED skew
        BY <3>2 DEF PostCertified, PollTerminal, End, subnetVars
      <4>3. ~Faulty => /\ o.kind # "CertificateVerificationError"
                       /\ o.kind = "ValueError" => effect = "plain"
        BY <4>2, ConclusionErrors DEF AnswerInv, Trusted
      <4>4. QED
        BY <4>1, <4>2, <4>3
    <3>3. CASE Refuse(v)
      <4>1. ~(~Faulty /\ Window)
        BY <3>3, HonestViewIsBelieved DEF Refuse, AnswerInv
      <4>2. UNCHANGED skew
        BY <3>3 DEF Refuse, End
      <4>3. QED
        BY <4>1, <4>2
    <3>4. CASE PollTimesOut(v)
      BY <2>1, <3>4 DEF PollTimesOut, End, Raised, Outcome
    <3>5. QED
      BY <2>6, <3>1, <3>2, <3>3, <3>4
  <2>7. CASE Environment
    <3>1. UNCHANGED <<outcome, skew>>
      BY <2>7 DEF Environment, agentVars
    <3>2. effect # "none" => effect' = effect
      BY <2>7 DEF Environment, SubnetStep, Receive, Process, Respond, Forget, Prune,
                  AnswerInv, EffectMatchesStage
    <3>3. QED
      BY <3>1, <3>2
  <2>8. CASE Tick \/ UNCHANGED vars
    BY <2>2, <2>8 DEF Tick, Certify, agentVars, subnetVars, vars
  <2>9. QED
    BY <2>3, <2>4, <2>5, <2>6, <2>7, <2>8 DEF Next, AgentStep, Ended
<1>3. Inv => HonestNodeIsBelieved
  BY DEF HonestNodeIsBelieved
<1>4. QED
  BY <1>1, <1>2, <1>3, TypeCorrect, AnswerInvariant, PTL DEF Spec
-----------------------------------------------------------------------------
(* No sleep, and no backoff, is longer than the longest sleep. *)
LEMMA DelayBounds ==
  ASSUME TypeOK, DeadlineInv, NEW v
  PROVE  /\ Delay(v) \in Nat /\ Delay(v) <= LongestSleep
         /\ NextBackoff(Delay(v)) \in Nat /\ NextBackoff(Delay(v)) <= LongestSleep
<1>1. Delay(v) \in Nat /\ Delay(v) <= LongestSleep
  BY DurationsAssumption DEF Delay, LongestSleep, TypeOK, DeadlineInv
<1>2. NextBackoff(Delay(v)) \in Nat
  BY <1>1, BackoffType
<1>3. NextBackoff(Delay(v)) <= MaxInterval
  <2>1. Delay(v) * Multiplier \in Nat
    BY <1>1, DurationsAssumption
  <2>2. QED
    BY <2>1, DurationsAssumption DEF NextBackoff
<1>4. MaxInterval <= LongestSleep
  BY DurationsAssumption DEF LongestSleep
<1>5. QED
  BY <1>1, <1>2, <1>3, <1>4, DurationsAssumption DEF LongestSleep

(* The bounds of the loop are natural numbers. *)
LEMMA LastRequestType == LastRequest \in Nat /\ LongestSleep \in Nat
BY DurationsAssumption DEF LastRequest, LongestSleep

(***************************************************************************)
(* The clock is where the loop's place says.                               *)
(***************************************************************************)
LEMMA DeadlineInvariant == Spec => []DeadlineInv
<1>1. Init => DeadlineInv
  BY DurationsAssumption DEF Init, SubnetInit, DeadlineInv, Deadlines, EndsInTime, LongestSleep
<1>2. TypeOK /\ DeadlineInv /\ [Next]_vars => DeadlineInv'
  <2> SUFFICES ASSUME TypeOK, DeadlineInv, [Next]_vars
               PROVE  DeadlineInv'
    OBVIOUS
  <2>0. now \in Nat /\ due \in Nat /\ start \in Int /\ backoff \in Nat
    BY DEF TypeOK, SubnetTypeOK
  <2> USE LastRequestType, DurationsAssumption DEF DeadlineInv
  <2>1. ASSUME UNCHANGED now, UNCHANGED start, UNCHANGED backoff, pc' = "ended"
        PROVE  DeadlineInv'
    BY <2>1 DEF Deadlines, EndsInTime, LongestSleep, LastRequest
  <2>2. ASSUME UNCHANGED now, StartPolling
        PROVE  DeadlineInv'
    BY <2>0, <2>2 DEF StartPolling, Deadlines, EndsInTime, LongestSleep
  <2>3. CASE Submit
    BY <2>0, <2>3 DEF Submit, Deadlines, EndsInTime
  <2>4. CASE ExchangeFails \/ PostUnusable
    BY <2>1, <2>4 DEF ExchangeFails, PostUnusable, End, subnetVars
  <2>5. CASE PostAccepted
    BY <2>2, <2>5 DEF PostAccepted, subnetVars
  <2>6. CASE PostRejected
    BY <2>1, <2>6 DEF PostRejected, End
  <2>7. ASSUME NEW v \in Served,
               \/ PostUndecided(v) \/ PostCertified(v) \/ Refuse(v)
               \/ PollTerminal(v) \/ PollAgain(v) \/ PollTimesOut(v)
        PROVE  DeadlineInv'
    <3>1. CASE PostUndecided(v)
      BY <2>2, <3>1 DEF PostUndecided, subnetVars
    <3>2. CASE PostCertified(v) \/ Refuse(v) \/ PollTerminal(v) \/ PollTimesOut(v)
      BY <2>1, <3>2 DEF PostCertified, Refuse, PollTerminal, PollTimesOut, End, subnetVars
    <3>3. CASE PollAgain(v)
      <4>1. Delay(v) \in Nat /\ Delay(v) <= LongestSleep /\ backoff' <= LongestSleep
        BY <3>3, DelayBounds DEF PollAgain
      <4>2. /\ pc' = "sleeping" /\ due' = now + Delay(v)
            /\ now' = now /\ start' = start
            /\ now - start < PollTimeout /\ start # -1 /\ start <= now
        BY <3>3 DEF PollAgain, Deadlines, subnetVars
      <4>3. Deadlines'
        BY <2>0, <4>1, <4>2 DEF Deadlines, LongestSleep
      <4>4. QED
        BY <4>1, <4>2, <4>3 DEF EndsInTime, LongestSleep, LastRequest
    <3>4. QED
      BY <2>7, <3>1, <3>2, <3>3
  <2>8. CASE Wake
    <3>1. due + Jitter <= start + LastRequest
      BY <2>0, <2>8 DEF Wake, Deadlines, LastRequest, LongestSleep
    <3>2. QED
      BY <2>0, <2>8, <3>1
         DEF Wake, Deadlines, EndsInTime, LongestSleep, LastRequest, subnetVars
  <2>9. CASE Environment
    BY <2>9 DEF Environment, SubnetStep, Receive, Process, Respond, Forget, Prune,
                agentVars, Deadlines, EndsInTime, LongestSleep, LastRequest
  <2>10. CASE Tick
    <3>1. /\ now' = now + 1 /\ start' = start /\ pc' = pc /\ due' = due /\ backoff' = backoff
          /\ pc \in {"posting", "asking", "sleeping"}
          /\ pc \in {"posting", "asking"} => now < due
          /\ pc = "sleeping" => now < due + Jitter
      BY <2>10 DEF Tick, Certify, agentVars
    <3>2. Deadlines'
      BY <2>0, <3>1 DEF Deadlines, LongestSleep, LastRequest
    <3>3. EndsInTime'
      <4>1. CASE pc = "posting"
        BY <3>1, <4>1 DEF Deadlines, EndsInTime
      <4>2. CASE pc = "asking"
        BY <2>0, <3>1, <4>2 DEF Deadlines, EndsInTime, LastRequest, LongestSleep
      <4>3. CASE pc = "sleeping"
        BY <2>0, <3>1, <4>3 DEF Deadlines, EndsInTime, LastRequest, LongestSleep
      <4>4. QED
        BY <3>1, <4>1, <4>2, <4>3
    <3>4. QED
      BY <2>0, <3>1, <3>2, <3>3 DEF LongestSleep
  <2>11. CASE UNCHANGED vars
    BY <2>11 DEF vars, subnetVars, agentVars, Deadlines, EndsInTime, LongestSleep, LastRequest
  <2>12. QED
    BY <2>3, <2>4, <2>5, <2>6, <2>7, <2>8, <2>9, <2>10, <2>11 DEF Next, AgentStep, Ended
<1>3. QED
  BY <1>1, <1>2, TypeCorrect, PTL DEF Spec

(***************************************************************************)
(* Polling is over in time.                                                *)
(***************************************************************************)
THEOREM DeadlineCorrect == Spec => []EndsInTime
BY DeadlineInvariant, PTL DEF DeadlineInv
-----------------------------------------------------------------------------
(* A call that goes on has no answer in hand and no timeout to its name. *)
NothingInHand == pc # "ended" => /\ hand.status \notin Final
                                 /\ outcome.kind # "TimeoutWaitingForResponse"

(* What a call ends with after an answer is what this answer comes to. *)
LEMMA ConclusionKinds ==
  ASSUME NEW v, NEW o \in {FastConclusion(v), PollConclusion(v)}
  PROVE  /\ o.kind # "TimeoutWaitingForResponse"
         /\ v.status = "rejected" => o.kind = "ReplicaReject"
         /\ v.status = "replied" => o.kind \in {"returned", "ValueError", "RuntimeError"}
BY DEF FastConclusion, PollConclusion, Rejection, Decoded, Finalized, Raised, Outcome

(***************************************************************************)
(* No answer in hand is dropped, for the timeout or otherwise.             *)
(***************************************************************************)
THEOREM TimeoutCorrect == Spec => []TimeoutIsNoLostAnswer
<1>1. Init => TimeoutIsNoLostAnswer /\ NothingInHand
  BY DEF Init, NoOutcome, Raised, Outcome, TimeoutIsNoLostAnswer, NothingInHand, Final
<1>2. /\ TypeOK /\ DeadlineInv /\ TimeoutIsNoLostAnswer /\ NothingInHand
      /\ [Next]_vars
      => (TimeoutIsNoLostAnswer /\ NothingInHand)'
  <2> SUFFICES ASSUME TypeOK, DeadlineInv, TimeoutIsNoLostAnswer, NothingInHand, [Next]_vars
               PROVE  TimeoutIsNoLostAnswer' /\ NothingInHand'
    OBVIOUS
  <2>1. ASSUME pc # "ended", outcome'.kind # "TimeoutWaitingForResponse",
               hand'.status \notin Final
        PROVE  TimeoutIsNoLostAnswer' /\ NothingInHand'
    BY <2>1 DEF TimeoutIsNoLostAnswer, NothingInHand, Final
  <2>2. ASSUME pc # "ended", UNCHANGED hand,
               UNCHANGED outcome \/ outcome'.kind # "TimeoutWaitingForResponse"
        PROVE  TimeoutIsNoLostAnswer' /\ NothingInHand'
    BY <2>1, <2>2 DEF NothingInHand
  <2>3. CASE Submit
    BY <2>2, <2>3 DEF Submit
  <2>4. CASE ExchangeFails \/ PostUnusable \/ PostRejected
    BY <2>2, <2>4 DEF ExchangeFails, PostUnusable, PostRejected, End, Raised, Outcome
  <2>5. CASE PostAccepted \/ Wake
    BY <2>2, <2>5 DEF PostAccepted, StartPolling, Wake
  <2>6. ASSUME NEW v \in Served,
               \/ PostUndecided(v) \/ PostCertified(v) \/ Refuse(v)
               \/ PollTerminal(v) \/ PollAgain(v) \/ PollTimesOut(v)
        PROVE  TimeoutIsNoLostAnswer' /\ NothingInHand'
    <3>0. pc # "ended" /\ hand.status \notin Final
      BY <2>6 DEF PostUndecided, PostCertified, Refuse, PollTerminal, PollAgain, PollTimesOut,
                  NothingInHand
    <3>1. Take(v) => hand'.status = v.status /\ hand'.time = v.time
      BY <3>0 DEF Take
    <3>2. CASE PostUndecided(v) \/ PollAgain(v)
      <4>1. v.status \notin Final /\ Take(v) /\ UNCHANGED outcome
        BY <3>2 DEF PostUndecided, PollAgain, StartPolling, Final
      <4>2. QED
        BY <2>1, <3>0, <3>1, <4>1 DEF NothingInHand
    <3>3. CASE PostCertified(v) \/ PollTerminal(v)
      <4>1. PICK o \in {FastConclusion(v), PollConclusion(v)} : outcome' = o
        BY <3>3 DEF PostCertified, PollTerminal, End
      <4>2. Take(v) /\ pc' = "ended"
        BY <3>3 DEF PostCertified, PollTerminal, End
      <4>3. QED
        BY <3>1, <4>1, <4>2, ConclusionKinds DEF TimeoutIsNoLostAnswer, NothingInHand
    <3>4. CASE Refuse(v)
      BY <2>2, <3>0, <3>4 DEF Refuse, Refusal, End, Raised, Outcome
    <3>5. CASE PollTimesOut(v)
      <4>1. /\ v.status \in {"absent", "received", "processing"} /\ Believed(v)
            /\ now - start >= PollTimeout /\ pc = "asking"
        BY <3>5 DEF PollTimesOut
      <4>2. UNCHANGED <<now, certs, start, opts, skew>> /\ pc' = "ended"
        BY <3>5 DEF PollTimesOut, End, subnetVars
      <4>3. hand'.status = v.status /\ hand'.time = v.time
        BY <3>1, <3>5 DEF PollTimesOut
      <4>4. start # -1
        BY <4>1 DEF DeadlineInv, Deadlines
      <4>5. opts.verify => Wall - v.time <= IngressExpiry
        BY <4>1 DEF Believed, Fresh
      <4>6. ~Faulty => /\ now - v.time <= MaxStale
                       /\ \E c \in certs : c.time = v.time /\ c.status = v.status
        BY HonestView
      <4>7. QED
        BY <4>1, <4>2, <4>3, <4>4, <4>5, <4>6
           DEF TimeoutIsNoLostAnswer, NothingInHand, Wall
    <3>6. QED
      BY <2>6, <3>2, <3>3, <3>4, <3>5
  <2>7. CASE Environment \/ UNCHANGED vars
    <3>1. UNCHANGED <<now, certs>> /\ UNCHANGED agentVars
      BY <2>7 DEF Environment, SubnetStep, Receive, Process, Respond, Forget, Prune, vars,
                  subnetVars
    <3>2. QED
      BY <3>1 DEF agentVars, TimeoutIsNoLostAnswer, NothingInHand, Wall
  <2>8. CASE Tick
    BY <2>2, <2>8 DEF Tick, agentVars
  <2>9. QED
    BY <2>3, <2>4, <2>5, <2>6, <2>7, <2>8 DEF Next, AgentStep, Ended
<1>3. QED
  BY <1>1, <1>2, TypeCorrect, DeadlineInvariant, PTL DEF Spec
-----------------------------------------------------------------------------
(***************************************************************************)
(* The backoff starts over once, when the request first shows up.          *)
(***************************************************************************)
THEOREM BackoffCorrect == Spec => BackoffRestartsOnce
<1> DEFINE Capped == /\ InitialDelay <= MaxInterval => backoff <= MaxInterval
                     /\ pc \in {"idle", "posting"} => backoff = InitialDelay
           Step   == InitialDelay <= MaxInterval /\ Multiplier >= 1 /\ backoff' < backoff
                       => ~accepted /\ accepted'
<1>1. Init => Capped
  BY DurationsAssumption DEF Init
<1>2. TypeOK /\ Capped /\ [Next]_vars => Capped' /\ (Step \/ UNCHANGED vars)
  <2> SUFFICES ASSUME TypeOK, Capped, [Next]_vars
               PROVE  Capped' /\ Step
    OBVIOUS
  <2>0. backoff \in Nat
    BY DEF TypeOK
  <2> USE DurationsAssumption
  <2>1. ASSUME UNCHANGED backoff, pc' \notin {"idle", "posting"} \/ UNCHANGED pc
        PROVE  Capped' /\ Step
    BY <2>0, <2>1
  <2>2. ASSUME StartPolling, pc = "posting"
        PROVE  Capped' /\ Step
    BY <2>2 DEF StartPolling
  <2>3. CASE Submit
    BY <2>0, <2>3 DEF Submit
  <2>4. CASE ExchangeFails \/ PostUnusable \/ PostRejected
    BY <2>1, <2>4 DEF ExchangeFails, PostUnusable, PostRejected, End
  <2>5. CASE PostAccepted
    BY <2>2, <2>5 DEF PostAccepted
  <2>6. ASSUME NEW v \in Served,
               \/ PostUndecided(v) \/ PostCertified(v) \/ Refuse(v)
               \/ PollTerminal(v) \/ PollAgain(v) \/ PollTimesOut(v)
        PROVE  Capped' /\ Step
    <3>1. CASE PostUndecided(v)
      BY <2>2, <3>1 DEF PostUndecided
    <3>2. CASE PostCertified(v) \/ Refuse(v) \/ PollTerminal(v) \/ PollTimesOut(v)
      BY <2>1, <3>2 DEF PostCertified, Refuse, PollTerminal, PollTimesOut, End
    <3>3. CASE PollAgain(v)
      <4>1. CASE Underway(v) /\ ~accepted
        <5>1. accepted' /\ pc' = "sleeping" /\ backoff' = NextBackoff(Delay(v))
          BY <3>3, <4>1 DEF PollAgain
        <5>2. Delay(v) \in Nat
          BY <2>0 DEF Delay
        <5>3. Delay(v) * Multiplier \in Nat
          BY <5>2
        <5>4. backoff' <= MaxInterval
          BY <5>1, <5>3 DEF NextBackoff
        <5>5. QED
          BY <4>1, <5>1, <5>4
      <4>2. CASE ~(Underway(v) /\ ~accepted)
        <5>1. pc' = "sleeping" /\ backoff' = NextBackoff(backoff)
          BY <3>3, <4>2 DEF PollAgain, Delay
        <5>2. backoff * Multiplier \in Nat
          BY <2>0
        <5>3. Multiplier >= 1 => backoff * Multiplier >= backoff
          BY <2>0
        <5>4. backoff' <= MaxInterval /\ backoff' \in Nat
          BY <5>1, <5>2 DEF NextBackoff
        <5>5. InitialDelay <= MaxInterval /\ Multiplier >= 1 => backoff' >= backoff
          BY <2>0, <5>1, <5>2, <5>3 DEF NextBackoff
        <5>6. QED
          BY <2>0, <5>1, <5>4, <5>5
      <4>3. QED
        BY <4>1, <4>2
    <3>4. QED
      BY <2>6, <3>1, <3>2, <3>3
  <2>7. CASE Wake
    BY <2>1, <2>7 DEF Wake
  <2>8. CASE Environment \/ Tick \/ UNCHANGED vars
    BY <2>1, <2>8 DEF Environment, Tick, agentVars, vars
  <2>9. QED
    BY <2>3, <2>4, <2>5, <2>6, <2>7, <2>8 DEF Next, AgentStep, Ended
<1>3. TypeOK /\ Capped /\ [Next]_vars => [Step]_vars
  BY <1>2
<1>4. QED
  BY <1>1, <1>2, <1>3, TypeCorrect, PTL DEF Spec, BackoffRestartsOnce
-----------------------------------------------------------------------------
(***************************************************************************)
(* A value returned is certified; a ReplicaReject is, or is the node's own. *)
(***************************************************************************)
Sourced ==
  /\ outcome.kind = "returned" => outcome.via = "certificate"
  /\ outcome.kind = "ReplicaReject" => outcome.via \in {"certificate", "unsigned"}

LEMMA AnswersAreSourced == Spec => []Sourced
<1>1. Init => Sourced
  BY DEF Init, NoOutcome, Raised, Outcome, Sourced
<1>2. Sourced /\ [Next]_vars => Sourced'
  <2> SUFFICES ASSUME Sourced, [Next]_vars
               PROVE  Sourced'
    OBVIOUS
  <2>1. CASE UNCHANGED outcome
    BY <2>1 DEF Sourced
  <2>2. ASSUME NEW v \in Served, PostCertified(v) \/ PollTerminal(v)
        PROVE  Sourced'
    BY <2>2, ConclusionSources DEF PostCertified, PollTerminal, End, Sourced
  <2>3. ASSUME NEW v \in Served, Refuse(v) \/ PollTimesOut(v)
        PROVE  Sourced'
    BY <2>3 DEF Refuse, Refusal, PollTimesOut, End, Raised, Outcome, Sourced
  <2>4. CASE ExchangeFails \/ PostUnusable \/ PostRejected
    BY <2>4 DEF ExchangeFails, PostUnusable, PostRejected, End, Raised, Outcome, Sourced
  <2>5. QED
    BY <2>1, <2>2, <2>3, <2>4
       DEF Next, AgentStep, Submit, PostAccepted, PostUndecided, PollAgain, StartPolling, Wake,
           Environment, Tick, Ended, agentVars, vars
<1>3. QED
  BY <1>1, <1>2, PTL DEF Spec

(* Of a truthful node, no rejection that a caller may rely on is of a call  *)
(* that has been replied to, or that the canister will still answer.        *)
LEMMA RejectionIsFinal ==
  ASSUME AnswerInv, Sourced, ~FalseRejects, Trusted, outcome.kind = "ReplicaReject"
  PROVE  effect = "reject" \/ (effect = "none" /\ ingress = "refused")
BY DEF AnswerInv, AnswerIsFinal, RefusalIsFinal, EffectMatchesStage, Sourced

(***************************************************************************)
(* As long as nodes reject truthfully, certified or not, "ReplicaReject: If *)
(* the call is rejected" is so.                                             *)
(***************************************************************************)
THEOREM RejectionCorrect ==
  ASSUME ~FalseRejects
  PROVE  Spec => []RejectedIsNotReplied
<1>1. AnswerInv /\ Sourced => RejectedIsNotReplied
  BY RejectionIsFinal DEF RejectedIsNotReplied, Replies
<1>2. QED
  BY <1>1, AnswerInvariant, AnswersAreSourced, PTL
-----------------------------------------------------------------------------
(***************************************************************************)
(* As long as nodes reject truthfully, every step of the call is a step of *)
(* CallPromise or leaves it alone.                                         *)
(***************************************************************************)
THEOREM Refinement ==
  ASSUME ~FalseRejects
  PROVE  Spec => Promise!Init /\ [][Promise!Next]_(Promise!vars)
<1>1. Init => Promise!Init
  BY DEF Init, SubnetInit, Promise!Init, Told
<1>2. AnswerInv /\ AnswerInv' /\ Sourced /\ Sourced' /\ [Next]_vars
        => [Promise!Next]_(Promise!vars)
  <2> SUFFICES ASSUME AnswerInv, AnswerInv', Sourced, Sourced', [Next]_vars
               PROVE  [Promise!Next]_(Promise!vars)
    OBVIOUS
  <2>1. CASE pc # "ended" /\ pc' = "ended" /\ UNCHANGED effect
    <3>1. Told = "pending"
      BY <2>1 DEF Told
    <3>2. CASE Trusted' /\ outcome'.kind = "returned"
      <4>1. outcome'.content = effect' /\ effect' \in Replies
        BY <3>2 DEF AnswerInv, AnswerIsFinal, Sourced
      <4>2. Promise!TellReply
        BY <2>1, <3>1, <3>2, <4>1 DEF Told, Promise!TellReply, Promise!Reply, Replies
      <4>3. QED
        BY <4>2 DEF Promise!Next, Promise!Tell
    <3>3. CASE Trusted' /\ outcome'.kind = "ReplicaReject"
      <4>1. effect' \in {"reject", "none"}
        BY <3>3 DEF AnswerInv, AnswerIsFinal, RefusalIsFinal, EffectMatchesStage, Sourced
      <4>2. Promise!TellRejected
        BY <2>1, <3>1, <3>3, <4>1 DEF Told, Promise!TellRejected, Promise!Reply
      <4>3. QED
        BY <4>2 DEF Promise!Next, Promise!Tell
    <3>4. CASE ~(Trusted' /\ outcome'.kind \in {"returned", "ReplicaReject"})
      <4>1. Promise!TellDoubt
        BY <2>1, <3>1, <3>4 DEF Told, Promise!TellDoubt
      <4>2. QED
        BY <4>1 DEF Promise!Next, Promise!Tell
    <3>5. QED
      BY <3>2, <3>3, <3>4
  <2>2. CASE UNCHANGED effect /\ UNCHANGED Told
    BY <2>2 DEF Promise!vars
  <2>3. CASE AgentStep
    <3>1. UNCHANGED effect /\ pc # "ended" /\ (pc' = "ended" \/ Told' = "pending")
      BY <2>3 DEF AgentStep, Submit, ExchangeFails, PostUnusable, PostAccepted, PostRejected,
                  PostUndecided, PostCertified, Refuse, PollTerminal, PollAgain, PollTimesOut,
                  Wake, End, StartPolling, subnetVars, Told
    <3>2. Told = "pending"
      BY <3>1 DEF Told
    <3>3. QED
      BY <2>1, <2>2, <3>1, <3>2
  <2>4. CASE Environment
    <3>1. UNCHANGED Told
      BY <2>4 DEF Environment, agentVars, Told, Trusted
    <3>2. UNCHANGED effect \/ (effect = "none" /\ effect' \in Answers /\ ingress # "refused")
      BY <2>4 DEF Environment, SubnetStep, Receive, Process, Respond, Forget, Prune,
                  AnswerInv, EffectMatchesStage
    <3>3. CASE effect = "none" /\ effect' \in Answers /\ ingress # "refused"
      <4>1. Told # "reject"
        BY <3>3, RejectionIsFinal DEF Told, AnswerInv, AnswerIsFinal, Sourced, Replies
      <4>2. Promise!Execute
        BY <3>1, <3>3, <4>1 DEF Promise!Execute, Promise!Reply, Answers, Replies
      <4>3. QED
        BY <4>2 DEF Promise!Next
    <3>4. QED
      BY <2>2, <3>1, <3>2, <3>3
  <2>5. CASE Tick \/ UNCHANGED vars
    BY <2>2, <2>5 DEF Tick, Certify, agentVars, vars, subnetVars, Told, Trusted
  <2>6. QED
    BY <2>3, <2>4, <2>5 DEF Next, Ended
<1>3. QED
  BY <1>1, <1>2, AnswerInvariant, AnswersAreSourced, PTL DEF Spec
=============================================================================
