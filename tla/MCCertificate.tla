---------------------------- MODULE MCCertificate ----------------------------
(* Instances of Certificate for TLC. *)
EXTENDS Certificate

CONSTANTS A, B

(* Ranges that alternate, so that a subnet has a shard on either side of another's *)
Alternating == {[c \in Canisters |-> IF c % 2 = 0 THEN A ELSE B]}

MCLabels ==
  {Name(n) : n \in {"request_status", "one", "two", "reply", "status",
                    "canister_ranges", "subnet", "public_key", "time"}}
  \cup {Id(c) : c \in Canisters} \cup Subnets

MCValues ==
  {Text(x) : x \in {"yes", "replied", "received", "now"}}
  \cup [key : Subnets] \cup [ranges : SUBSET (Canisters \X Canisters)]

RightNested == {"right"}
=============================================================================
