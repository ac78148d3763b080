--------------------------- MODULE MCNetworkFeeds ---------------------------
(* NetworkFeeds for TLC: two requests of popups, so that they may overlap.    *)
EXTENDS NetworkFeeds

CONSTANTS w1, w2

MCWaker == {w1, w2}
=============================================================================
