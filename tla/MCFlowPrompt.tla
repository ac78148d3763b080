---------------------------- MODULE MCFlowPrompt ----------------------------
(* FlowPrompt for TLC: prompts of two tabs, the first of which the user may
   reload.                                                                   *)
EXTENDS FlowPrompt

CONSTANTS p1, p2

MCPrompts == {p1, p2}
MCFirst == {p1}
=============================================================================
