----------------------------- MODULE UpdateCall -----------------------------
(***************************************************************************)
(* One update call of an Agent: update_raw / update_raw_async post the     *)
(* call, take a certified answer from the post's own response when there   *)
(* is one, and otherwise poll read_state with a backoff (poll,             *)
(* poll_and_wait, poll_async, _finalize_update_result) until the request   *)
(* reaches a terminal status or the polling time is over.  The subnet, its *)
(* boundary nodes and the host's clock are the environment.                *)
(***************************************************************************)
EXTENDS Subnet

CONSTANTS
  Options,        \* the calls considered: [async, verify]
  IngressExpiry,  \* Agent.ingress_expiry: of a request, and of a certificate
  PollTimeout,    \* timeout
  InitialDelay,   \* initial_delay
  MaxInterval,    \* max_interval
  Multiplier,     \* multiplier
  HttpTimeout,    \* how long one HTTP exchange may take (client.DEFAULT_TIMEOUT)
  Jitter,         \* how much longer than asked a sleep may take
  MaxStale,       \* the age of the oldest state an honest boundary node serves
  Skews,          \* the differences of the host's clock from the subnet's time
  Faulty,         \* may the boundary node prune, replay and invent answers?
  FalseRejects    \* may it reject, unsigned, a call that it passes on?

ASSUME OptionsAssumption ==
  /\ Options \subseteq [async : BOOLEAN, verify : BOOLEAN]
  /\ Skews \subseteq Int
  /\ Faulty \in BOOLEAN
  /\ FalseRejects \in BOOLEAN

ASSUME DurationsAssumption ==
  /\ IngressExpiry \in Nat
  /\ PollTimeout \in Nat
  /\ InitialDelay \in Nat
  /\ MaxInterval \in Nat
  /\ Multiplier \in Nat
  /\ HttpTimeout \in Nat
  /\ Jitter \in Nat
  /\ MaxStale \in Nat

VARIABLES
  pc,        \* "idle", "posting", "asking", "sleeping" or "ended"
  opts,      \* the call's options, a member of Options
  skew,      \* the host's clock minus the subnet's time
  start,     \* start_monotonic of the poll loop; -1 before it
  backoff,   \* the length of the next sleep
  accepted,  \* request_accepted
  due,       \* when the exchange is given up, or the sleep is over
  outcome,   \* what the caller got
  hand       \* history: the certified state in hand (see Take)

agentVars == <<pc, opts, skew, start, backoff, accepted, due, outcome, hand>>
vars      == <<subnetVars, agentVars>>

Kinds == {"none", "returned", "ReplicaReject", "TimeoutWaitingForResponse",
          "TransportError", "RuntimeError", "ValueError",
          "CertificateVerificationError", "malformed"}

(* via: the source of the answer; form: whether a returned value is decoded. *)
Outcome(kind, content, via, form) ==
  [kind |-> kind, content |-> content, via |-> via, form |-> form]

Raised(kind) == Outcome(kind, "none", "none", "none")
NoOutcome    == Raised("none")

Outcomes == [kind : Kinds, content : Contents,
             via : {"none", "certificate", "unsigned"},
             form : {"none", "decoded", "raw"}]
-----------------------------------------------------------------------------
(***************************************************************************)
(* Certificates.  A view is what the agent reads in one: the time, the     *)
(* request's status and the answer, each possibly hidden, and whether      *)
(* assert_certificate_valid accepts it for the effective canister id.      *)
(***************************************************************************)
NoTime == -1

Views == [time : Nat \cup {NoTime}, status : Statuses, content : Contents,
          valid : BOOLEAN]

HonestViews ==
  {[time |-> c.time, status |-> c.status, content |-> c.content,
    valid |-> TRUE] : c \in {d \in certs : now - d.time <= MaxStale}}

(* Pruning keeps the root hash, so a pruned certificate stays valid. *)
PrunedViews ==
  UNION {[time : {c.time, NoTime}, status : {c.status, "absent"},
          content : {c.content, "none"}, valid : {TRUE}] : c \in certs}

ForgedViews ==
  [time : {now}, status : Statuses, content : Contents, valid : {FALSE}]

Served == IF Faulty THEN PrunedViews \cup ForgedViews ELSE HonestViews

(* time.time_ns() of the host *)
Wall == now + skew

(* Mutant: the window excludes its own end. *)
FreshStrictly(v) ==
  /\ v.time # NoTime
  /\ Wall - v.time < IngressExpiry
  /\ v.time - Wall < IngressExpiry

(* verify_cert_timestamp: neither too old nor too far in the future *)
Fresh(v) ==
  /\ v.time # NoTime
  /\ Wall - v.time <= IngressExpiry
  /\ v.time - Wall <= IngressExpiry

(* Mutant: the timestamp is checked, the signature is not. *)
BelievedIfFresh(v) == opts.verify => Fresh(v)

Believed(v) == opts.verify => v.valid /\ Fresh(v)

Final == {"replied", "rejected"}
Hands == [time : Nat \cup {NoTime}, status : Statuses \cup {"none"}]

(* Every certificate believed is taken in hand, in place of an earlier one  *)
(* unless that one showed an answer: an answer once read stays in hand.     *)
Take(v) ==
  hand' = IF hand.status \in Final THEN hand ELSE [time |-> v.time, status |-> v.status]

Refusal(v) == IF v.valid THEN "ValueError" ELSE "CertificateVerificationError"
-----------------------------------------------------------------------------
(* decode() of a reply: it fails without the DIDL prefix. *)
Decoded(content) ==
  IF content = "didl" THEN Outcome("returned", content, "certificate", "decoded")
                      ELSE Raised("ValueError")

(* _finalize_update_result: a polled reply without the prefix is passed on. *)
Finalized(content) ==
  IF content = "didl" THEN Decoded(content)
                      ELSE Outcome("returned", content, "certificate", "raw")

(* lookup_reply and lookup_request_rejection: either may find nothing, then *)
(* a reply is an error and a rejection gets code 0 and a default message.   *)
Rejection(v) ==
  Outcome("ReplicaReject", IF v.content = "reject" THEN "reject" ELSE "none",
          "certificate", "none")

FastConclusion(v) ==
  IF v.status = "rejected"           THEN Rejection(v)
  ELSE IF v.content \notin Replies   THEN Raised("RuntimeError")
  ELSE Decoded(v.content)

(* Mutant: a request that is done and shows no reply is taken as rejected. *)
DoneIsRejected(v) ==
  IF v.status \in {"rejected", "done"} THEN Rejection(v)
  ELSE IF v.content \notin Replies     THEN Raised("RuntimeError")
  ELSE IF opts.async                   THEN Finalized(v.content)
  ELSE Decoded(v.content)

PollConclusion(v) ==
  IF v.status = "rejected"                               THEN Rejection(v)
  ELSE IF v.status = "done" \/ v.content \notin Replies  THEN Raised("RuntimeError")
  ELSE IF opts.async                                     THEN Finalized(v.content)
  ELSE Decoded(v.content)
-----------------------------------------------------------------------------
Init ==
  /\ SubnetInit
  /\ pc = "idle"
  /\ opts \in Options
  /\ skew \in Skews
  /\ start = -1
  /\ backoff = InitialDelay
  /\ accepted = FALSE
  /\ due = 0
  /\ outcome = NoOutcome
  /\ hand = [time |-> NoTime, status |-> "none"]

End(result) ==
  /\ pc' = "ended"
  /\ outcome' = result
  /\ UNCHANGED <<opts, skew, start, backoff, accepted, due>>

(* Mutant: the poll's start is read from the wall clock. *)
StartOnWallClock ==
  /\ pc' = "asking"
  /\ start' = Wall
  /\ backoff' = InitialDelay
  /\ accepted' = FALSE
  /\ due' = now + HttpTimeout
  /\ UNCHANGED <<opts, skew, outcome>>

(* poll()'s first lines, and its first request_status_raw *)
StartPolling ==
  /\ pc' = "asking"
  /\ start' = now
  /\ backoff' = InitialDelay
  /\ accepted' = FALSE
  /\ due' = now + HttpTimeout
  /\ UNCHANGED <<opts, skew, outcome>>

(* The signed call goes out once; nothing ever posts it again. *)
Submit ==
  /\ pc = "idle"
  /\ pc' = "posting"
  /\ due' = now + HttpTimeout
  /\ expiry' = Wall + IngressExpiry
  /\ ingress' = "inflight"
  /\ UNCHANGED <<now, effect, certs, opts, skew, start, backoff, accepted, outcome, hand>>

(* Mutant: the post is sent without a timeout. *)
OnlyPollsFail ==
  /\ pc = "asking"
  /\ \E kind \in {"TransportError", "malformed"} : End(Raised(kind))
  /\ UNCHANGED <<subnetVars, hand>>

(* TransportError of either exchange, at its timeout or before; or a body   *)
(* that holds no certificate.  The message may have got through.            *)
ExchangeFails ==
  /\ pc \in {"posting", "asking"}
  /\ \E kind \in {"TransportError", "malformed"} : End(Raised(kind))
  /\ UNCHANGED <<subnetVars, hand>>

(* A response that is neither HTTP 202 nor of a known status. *)
PostUnusable ==
  /\ pc = "posting"
  /\ End(Raised("RuntimeError"))
  /\ UNCHANGED <<subnetVars, hand>>

(* HTTP 202 without a usable body, or status "accepted" *)
PostAccepted ==
  /\ pc = "posting"
  /\ StartPolling
  /\ UNCHANGED <<subnetVars, hand>>

(* "non_replicated_rejection": a truthful node then drops the message. *)
PostRejected ==
  /\ pc = "posting"
  /\ End(Outcome("ReplicaReject", "reject", "unsigned", "none"))
  /\ \/ ingress = "inflight" /\ ingress' = "refused"
     \/ FalseRejects /\ UNCHANGED ingress
  /\ UNCHANGED <<now, expiry, effect, certs, hand>>

(* "replied" with a certificate that is not terminal after all *)
PostUndecided(v) ==
  /\ pc = "posting"
  /\ Believed(v)
  /\ Take(v)
  /\ v.status \notin Final
  /\ StartPolling
  /\ UNCHANGED subnetVars

PostCertified(v) ==
  /\ pc = "posting"
  /\ Believed(v)
  /\ Take(v)
  /\ v.status \in Final
  /\ End(FastConclusion(v))
  /\ UNCHANGED subnetVars

(* assert_certificate_valid or verify_cert_timestamp raises; no retry. *)
Refuse(v) ==
  /\ pc \in {"posting", "asking"}
  /\ ~Believed(v)
  /\ End(Raised(Refusal(v)))
  /\ UNCHANGED <<subnetVars, hand>>

PollTerminal(v) ==
  /\ pc = "asking"
  /\ Believed(v)
  /\ Take(v)
  /\ v.status \in Final \cup {"done"}
  /\ End(PollConclusion(v))
  /\ UNCHANGED subnetVars

Underway(v) == v.status \in {"received", "processing"}

(* Mutant: every sign of the request starts the backoff over. *)
DelayAnew(v) == IF Underway(v) THEN InitialDelay ELSE backoff

(* The backoff slept for: the first sign of the request starts it over. *)
Delay(v) == IF Underway(v) /\ ~accepted THEN InitialDelay ELSE backoff

NextBackoff(delay) ==
  IF delay * Multiplier <= MaxInterval THEN delay * Multiplier ELSE MaxInterval

(* Mutant: the deadline itself still counts as in time. *)
PollAgainAtDeadline(v) ==
  /\ pc = "asking"
  /\ Believed(v)
  /\ Take(v)
  /\ v.status \in {"absent", "received", "processing"}
  /\ now - start <= PollTimeout
  /\ pc' = "sleeping"
  /\ due' = now + Delay(v)
  /\ backoff' = NextBackoff(Delay(v))
  /\ accepted' = (accepted \/ Underway(v))
  /\ UNCHANGED <<subnetVars, opts, skew, start, outcome>>

PollAgain(v) ==
  /\ pc = "asking"
  /\ Believed(v)
  /\ Take(v)
  /\ v.status \in {"absent", "received", "processing"}
  /\ now - start < PollTimeout
  /\ pc' = "sleeping"
  /\ due' = now + Delay(v)
  /\ backoff' = NextBackoff(Delay(v))
  /\ accepted' = (accepted \/ Underway(v))
  /\ UNCHANGED <<subnetVars, opts, skew, start, outcome>>

(* Mutant: the deadline is looked at before the answer is. *)
DeadlineFirst(v) ==
  /\ pc = "asking"
  /\ Believed(v)
  /\ Take(v)
  /\ now - start >= PollTimeout
  /\ End(Raised("TimeoutWaitingForResponse"))
  /\ UNCHANGED subnetVars

PollTimesOut(v) ==
  /\ pc = "asking"
  /\ Believed(v)
  /\ Take(v)
  /\ v.status \in {"absent", "received", "processing"}
  /\ now - start >= PollTimeout
  /\ End(Raised("TimeoutWaitingForResponse"))
  /\ UNCHANGED subnetVars

(* The sleep is over: the next request_status_raw goes out. *)
Wake ==
  /\ pc = "sleeping"
  /\ now >= due
  /\ pc' = "asking"
  /\ due' = now + HttpTimeout
  /\ UNCHANGED <<subnetVars, opts, skew, start, backoff, accepted, outcome, hand>>

(* An exchange does not outlast HttpTimeout, a sleep not its end by Jitter. *)
Tick ==
  /\ \/ pc \in {"posting", "asking"} /\ now < due
     \/ pc = "sleeping" /\ now < due + Jitter
  /\ Certify
  /\ UNCHANGED agentVars

Environment == SubnetStep /\ UNCHANGED agentVars

(* The call has ended; the environment may still go on. *)
Ended == pc = "ended" /\ UNCHANGED vars

AgentStep ==
  \/ Submit
  \/ ExchangeFails
  \/ PostUnusable
  \/ PostAccepted
  \/ PostRejected
  \/ \E v \in Served :
       \/ PostUndecided(v)
       \/ PostCertified(v)
       \/ Refuse(v)
       \/ PollTerminal(v)
       \/ PollAgain(v)
       \/ PollTimesOut(v)
  \/ Wake

Next == AgentStep \/ Environment \/ Tick \/ Ended

Spec == Init /\ [][Next]_vars

(* HTTP timeouts and sleeps run out, time passes and the program goes on.   *)
(* Nothing is assumed of the network or the subnet: no answer need arrive   *)
(* and the message need not be taken in.                                    *)
ExchangeTimesOut == now >= due /\ ExchangeFails

FairSpec ==
  Spec /\ WF_vars(Submit) /\ WF_vars(ExchangeTimesOut) /\ WF_vars(Wake) /\ WF_vars(Tick)
-----------------------------------------------------------------------------
TypeOK ==
  /\ SubnetTypeOK
  /\ pc \in {"idle", "posting", "asking", "sleeping", "ended"}
  /\ opts \in Options
  /\ skew \in Skews
  /\ start \in Nat \cup {-1}
  /\ backoff \in Nat
  /\ accepted \in BOOLEAN
  /\ due \in Nat
  /\ outcome \in Outcomes
  /\ hand \in Hands

(* What a caller may rely on: with a verified certificate, or from an       *)
(* honest boundary node.                                                    *)
Trusted == opts.verify \/ ~Faulty

(* The caller is told only what happened: a certified value returned by     *)
(* update_raw or its polling is the canister's reply to this very call, and *)
(* a certified ReplicaReject means it was rejected, however the node delays, *)
(* replays, prunes or (under verification) invents certificates.            *)
AnswerIsReal ==
  Trusted /\ outcome.via = "certificate" =>
    /\ outcome.kind = "returned" => outcome.content = effect
    /\ outcome.kind = "ReplicaReject" => effect = "reject"

LongestSleep == IF InitialDelay <= MaxInterval THEN MaxInterval ELSE InitialDelay

(* How long after its first poll the loop may still send a request. *)
LastRequest == IF PollTimeout = 0 THEN 0
               ELSE PollTimeout - 1 + LongestSleep + Jitter

(* The deadline, although it is looked at only between two polls, bounds    *)
(* the loop: one last sleep and one last exchange may overrun it, no more.  *)
EndsInTime == start # -1 => now - start <= LastRequest + HttpTimeout

(* A timeout is no lost answer.  Whenever a certificate believed, of the    *)
(* post or of a poll, before or after the deadline, shows an answer, the    *)
(* call ends at once with what is concluded from it.  So poll gives up only *)
(* when no certificate it believed ever showed one; it is not early; and    *)
(* what it saw last is no older than the freshness window if verified, and  *)
(* no older than the node's lag if the node is honest.                      *)
TimeoutIsNoLostAnswer ==
  /\ hand.status = "rejected" => pc = "ended" /\ outcome.kind = "ReplicaReject"
  /\ hand.status = "replied" =>
       pc = "ended" /\ outcome.kind \in {"returned", "ValueError", "RuntimeError"}
  /\ outcome.kind = "TimeoutWaitingForResponse" =>
       /\ hand.status \in {"absent", "received", "processing"}
       /\ start # -1 /\ now - start >= PollTimeout
       /\ opts.verify => Wall - hand.time <= IngressExpiry
       /\ ~Faulty => /\ now - hand.time <= MaxStale
                     /\ \E c \in certs : c.time = hand.time /\ c.status = hand.status

(* An honest node's certificate passes both checks, at the very ends of the *)
(* freshness window too, as long as the host's clock and the node's lag     *)
(* together stay inside it.                                                 *)
HonestNodeIsBelieved ==
  /\ ~Faulty
  /\ skew >= -IngressExpiry
  /\ skew + MaxStale <= IngressExpiry
  => /\ outcome.kind # "CertificateVerificationError"
     /\ outcome.kind = "ValueError" => effect = "plain"

(* The backoff shrinks at most once, on the first sign that the request is  *)
(* being worked on, and only if the delays were meant to grow.              *)
BackoffRestartsOnce ==
  [][InitialDelay <= MaxInterval /\ Multiplier >= 1 /\ backoff' < backoff
       => ~accepted /\ accepted']_vars

(* Every call ends with a value or an exception, whatever the subnet does.  *)
CallEnds == <>(pc = "ended")

-----------------------------------------------------------------------------
(* The inductive strengthening of AnswerIsReal: the message's life and its  *)
(* answer go together, every certified state tells the truth for ever, and  *)
(* so does what was concluded from one.                                     *)
EffectMatchesStage ==
  /\ ingress = "replied" => effect \in Replies
  /\ ingress = "rejected" => effect = "reject"
  /\ ingress \in {"unsent", "inflight", "refused", "received", "processing"} => effect = "none"
  /\ pc = "idle" => ingress = "unsent"

CertsAreTrue ==
  \A c \in certs :
    /\ c.time <= now
    /\ c.content # "none" => c.content = effect
    /\ c.status = "rejected" => effect = "reject"

AnswerIsFinal ==
  Trusted /\ outcome.via = "certificate" =>
    \/ outcome.kind = "returned" /\ outcome.content = effect /\ effect \in Replies
    \/ outcome.kind = "ReplicaReject" /\ effect = "reject"

(* A truthful node's rejection is final: the message it refused never runs. *)
RefusalIsFinal ==
  outcome.via = "unsigned" /\ ~FalseRejects => pc = "ended" /\ ingress = "refused"

AnswerInv == EffectMatchesStage /\ CertsAreTrue /\ AnswerIsFinal /\ RefusalIsFinal

(* The inductive strengthening of EndsInTime: where the clock may be at     *)
(* each point of the loop.                                                  *)
Deadlines ==
  /\ pc = "idle" => start = -1
  /\ pc = "posting" => start = -1 /\ now <= due
  /\ pc = "asking" => /\ start # -1
                      /\ now <= due
                      /\ due <= start + LastRequest + HttpTimeout
  /\ pc = "sleeping" => /\ start # -1
                        /\ now <= due + Jitter
                        /\ PollTimeout >= 1
                        /\ due <= start + PollTimeout - 1 + LongestSleep

DeadlineInv == Deadlines /\ EndsInTime /\ start <= now /\ backoff <= LongestSleep
-----------------------------------------------------------------------------
(* update_raw, "ReplicaReject: If the call is rejected."  A caller that     *)
(* gets it never finds out that the canister has replied after all.  This   *)
(* is the node's word alone when the rejection came without a certificate.  *)
RejectedIsNotReplied ==
  Trusted /\ outcome.kind = "ReplicaReject" => effect \notin Replies

(* The refinement: what the call promises.  What the caller is told is what *)
(* it gets, a value, a ReplicaReject (which does not say whether it was     *)
(* certified) or another exception, which leaves it in doubt.  Who turns    *)
(* the verification off is promised nothing by a faulty node.               *)
Told ==
  IF pc # "ended" THEN "pending"
  ELSE IF Trusted /\ outcome.kind = "returned" THEN outcome.content
  ELSE IF Trusted /\ outcome.kind = "ReplicaReject" THEN "reject"
  ELSE "unknown"

Promise == INSTANCE CallPromise WITH told <- Told

(* The call implements CallPromise: it tells the canister's own answer, a   *)
(* rejection only of a call that is not and will not be replied to, and     *)
(* whatever the network does it tells something, once.                      *)
KeepsPromise == Promise!Spec
=============================================================================
