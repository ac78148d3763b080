----------------------------- MODULE MCFlowLane -----------------------------
(* FlowLane for TLC: three prompts, so that one can come while a second is
   shown and a third waits; one of them has a condition, two are the same.   *)
EXTENDS FlowLane

CONSTANTS r1, r2, r3, r4, a, b, c

MCThree == {r1, r2, r3}
MCSecond == {r2}
MCThreeIntents == {a, b, c}
=============================================================================
