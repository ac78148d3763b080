------------------------- MODULE MCRateLimitingPool -------------------------
(* RateLimitingPool for TLC: as in the code's defaults, calls > slots > locks. *)
EXTENDS RateLimitingPool

CONSTANTS c1, c2, c3, c4, c5

MCFive == {c1, c2, c3, c4, c5}
=============================================================================
