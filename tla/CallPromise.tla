---------------------------- MODULE CallPromise -----------------------------
(***************************************************************************)
(* What an update call promises its caller, with everything about HTTP,    *)
(* certificates, polling and time left out.  The canister answers the call *)
(* at most once.  The caller is told once: the canister's own reply; that  *)
(* the call is rejected, and then it will never be replied to; or nothing  *)
(* certain ("unknown": the call may have taken effect, may still do so, or *)
(* never will).                                                            *)
(***************************************************************************)
VARIABLES
  effect,  \* the canister's answer, "none" before it
  told     \* what the caller was told, "pending" before it

Reply == {"didl", "plain"}

Init == effect = "none" /\ told = "pending"

(* A call that the caller knows to be rejected is not executed any more. *)
Execute ==
  /\ effect = "none"
  /\ told # "reject"
  /\ effect' \in Reply \cup {"reject"}
  /\ UNCHANGED told

TellReply ==
  /\ told = "pending"
  /\ effect \in Reply
  /\ told' = effect
  /\ UNCHANGED effect

(* The canister or the system rejected it, or it was never taken in. *)
TellRejected ==
  /\ told = "pending"
  /\ effect \notin Reply
  /\ told' = "reject"
  /\ UNCHANGED effect

TellDoubt ==
  /\ told = "pending"
  /\ told' = "unknown"
  /\ UNCHANGED effect

Tell == TellReply \/ TellRejected \/ TellDoubt

Next == Execute \/ Tell

vars == <<effect, told>>

Spec == Init /\ [][Next]_vars /\ WF_vars(Tell)
=============================================================================
