---------------------------- MODULE MCJsonObject ----------------------------
(* Keys that collide, alone and across the end of the table, for model checking. *)
EXTENDS JsonObject

ThreeKeys == {"a", "b", "c"}

\* The first and the last slot of a table of two and of four; the keys are alike
\* otherwise, so that only how many of them are at either end makes a difference.
AtTheEnds == {h \in [ThreeKeys -> {0, 3}] : h["a"] <= h["b"] /\ h["b"] <= h["c"]}

=============================================================================
