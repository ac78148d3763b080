--------------------------- MODULE MCStoreAccess ---------------------------
(* StoreAccess for TLC: three calls, two of them in the same frame, so that
   calls share a frame's default object and also compete across frames.      *)
EXTENDS StoreAccess

CONSTANTS a, b, d, sw, popup

MCCaller  == {a, b, d}
MCFrame   == {sw, popup}
MCFrameOf == [c \in MCCaller |-> IF c = d THEN popup ELSE sw]

MCPair       == {a, b}
MCPairFrames == [c \in MCPair |-> IF c = b THEN popup ELSE sw]
=============================================================================
