------------------------------- MODULE Subnet -------------------------------
(***************************************************************************)
(* EXTERNAL.  The Internet Computer subnet behind a boundary node, as      *)
(* agent.py relies on it: the life of one ingress message (update_raw's    *)
(* request_status values "received", "processing", "replied", "rejected",  *)
(* "done", and no status at all) and the states of it that the subnet has  *)
(* certified.  A certified state stays available for ever: a boundary node *)
(* or a lagging replica may serve an old one.                              *)
(***************************************************************************)
EXTENDS Integers

VARIABLES
  now,      \* time in ticks; the subnet certifies one state per tick
  ingress,  \* where the message is, from the agent to its last trace
  expiry,   \* the message's ingress_expiry
  effect,   \* how the canister answered it ("none": it has not run)
  certs     \* the certified states of the message, one record per tick

subnetVars == <<now, ingress, expiry, effect, certs>>

Replies  == {"didl", "plain"}      \* a Candid reply; bytes that are not Candid
Answers  == Replies \cup {"reject"}
Contents == Answers \cup {"none"}
Statuses == {"absent", "received", "processing", "replied", "rejected", "done"}
Stages   == {"unsent", "inflight", "refused", "gone"} \cup (Statuses \ {"absent"})

Certs == [time : Nat, status : Statuses, content : Contents]

SubnetTypeOK ==
  /\ now \in Nat
  /\ ingress \in Stages
  /\ expiry \in Int
  /\ effect \in Contents
  /\ certs \subseteq Certs

SubnetInit ==
  /\ now = 0
  /\ ingress = "unsent"
  /\ expiry = 0
  /\ effect = "none"
  /\ certs = {[time |-> 0, status |-> "absent", content |-> "none"]}

(* What the state tree shows of the message. *)
Snapshot(t) ==
  [time    |-> t,
   status  |-> IF ingress \in Statuses THEN ingress ELSE "absent",
   content |-> IF ingress \in {"replied", "rejected"} THEN effect ELSE "none"]

(* A message in flight is taken in before it expires, late, or never. *)
Receive ==
  /\ ingress = "inflight"
  /\ now <= expiry
  /\ ingress' = "received"
  /\ UNCHANGED <<now, expiry, effect, certs>>

Process ==
  /\ ingress = "received"
  /\ ingress' = "processing"
  /\ UNCHANGED <<now, expiry, effect, certs>>

(* The canister answers; the system may reject before execution starts. *)
Respond ==
  /\ ingress \in {"received", "processing"}
  /\ \E a \in Answers :
       /\ a \in Replies => ingress = "processing"
       /\ effect' = a
       /\ ingress' = IF a = "reject" THEN "rejected" ELSE "replied"
  /\ UNCHANGED <<now, expiry, certs>>

(* The answer is dropped before the message's trace is ("done"), ... *)
Forget ==
  /\ ingress \in {"replied", "rejected"}
  /\ ingress' = "done"
  /\ UNCHANGED <<now, expiry, effect, certs>>

(* ... and the trace once the message could no longer be taken in again. *)
Prune ==
  /\ ingress \in {"replied", "rejected", "done"}
  /\ now > expiry
  /\ ingress' = "gone"
  /\ UNCHANGED <<now, expiry, effect, certs>>

SubnetStep == Receive \/ Process \/ Respond \/ Forget \/ Prune

(* Time passes and the state of the new instant is certified. *)
Certify ==
  /\ now' = now + 1
  /\ certs' = certs \cup {Snapshot(now + 1)}
  /\ UNCHANGED <<ingress, expiry, effect>>
=============================================================================
