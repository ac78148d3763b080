------------------------------ MODULE MCTxSync ------------------------------
(* TxSync for TLC: on one chain a transaction of the wallet that may fail and one
   that comes in; the feed of another chain looks for what is pending, too.  *)
EXTENDS TxSync

CONSTANTS t1, t2, ca, cb

MCTxs == {t1, t2}
MCChains == {ca, cb}
MCChainOf == [t \in MCTxs |-> ca]
MCOut == {t1}
MCFailing == {t1}
=============================================================================
