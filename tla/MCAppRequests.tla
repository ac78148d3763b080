--------------------------- MODULE MCAppRequests ----------------------------
(* AppRequests for TLC: three requests of two tabs, so that a lane and the lock
   both have a queue; the second request wants both chains.                  *)
EXTENDS AppRequests

CONSTANTS r1, r2, r3, t1, t2, ca, cb, x, y, all

MCRequests == {r1, r2, r3}
MCTabs == {t1, t2}
MCChains == {ca, cb}
MCAccount == {x}
MCSlow == {r3}
MCTabOf == [r \in MCRequests |-> IF r = r3 THEN t2 ELSE t1]
MCWants == [r \in MCRequests |->
              [chains |-> IF r = r2 THEN {ca, cb} ELSE {ca},
               account |-> IF r = r3 /\ y \in Account THEN y ELSE x, perms |-> all]]
=============================================================================
