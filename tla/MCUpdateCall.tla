---------------------------- MODULE MCUpdateCall ----------------------------
(* Instances of UpdateCall for TLC. *)
EXTENDS UpdateCall

AllOptions == [async : BOOLEAN, verify : BOOLEAN]

(* Without verification the two paths differ in nothing that ends a loop. *)
LoopOptions == AllOptions \ {[async |-> TRUE, verify |-> FALSE]}

Verifying  == [async : {FALSE}, verify : {TRUE}]

NoSkew     == {0}
SomeSkew   == {-3, 1}
=============================================================================
