----------------------------- MODULE MCQueryCall -----------------------------
(* Instances of QueryCall for TLC. *)
EXTENDS QueryCall

CONSTANTS a, b

Entry(n, age, ok, form) == [node |-> n, age |-> age, good |-> ok, form |-> form]
Signed(n, age, ok)      == Entry(n, age, ok, "whole")
Partial                 == Entry(a, 0, TRUE, "partial")
Garbled                 == Entry(a, 0, TRUE, "unparsable")
Reply(sigs)             == [status |-> "replied", sigs |-> sigs]

(* A lone good signature at the end of the window; a good one behind one    *)
(* from beyond the window, an incomplete entry, a bad one and a stranger's, *)
(* and before an entry that does not parse; such an entry before a good one. *)
MCResponses ==
  { Reply(<<Signed(a, 1, TRUE)>>),
    Reply(<<Signed(a, -2, TRUE), Partial, Signed(a, 0, FALSE), Signed(b, 0, TRUE),
            Signed(a, -1, TRUE), Garbled>>),
    Reply(<<Signed(a, 0, FALSE), Garbled, Signed(a, 0, TRUE)>>) }

OddResponses ==
  { Reply(<< >>),
    Reply(<<Signed(a, 0, TRUE)>>),
    [status |-> "rejected", sigs |-> <<Signed(a, 0, TRUE)>>],
    [status |-> "unknown", sigs |-> << >>] }

AllResponses ==
  MCResponses \cup {[status |-> "rejected", sigs |-> <<Signed(a, 0, TRUE)>>],
                   [status |-> "unknown", sigs |-> << >>]}

Verified == {TRUE}
MCStrangers == {b}
=============================================================================
