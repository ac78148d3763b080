--------------------------- MODULE MCKeyRotation ---------------------------
(* KeyRotation for TLC.  A nonce modulus of 2 makes every second rotation
   wrap around, as 2^128 does.                                               *)
EXTENDS KeyRotation, TLC

CONSTANTS w1, w2, s1, s2, p1, p2

MCOneWindow == {w1}
MCTwoWindows == {w1, w2}
MCAnyWindow == Permutations(MCTwoWindows)
MCTwoStores == {s1, s2}
MCOneStore == {s1}
MCTwoPhrases == {p1, p2}
MCOnePhrase == {p1}
=============================================================================
