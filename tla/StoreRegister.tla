--------------------------- MODULE StoreRegister ---------------------------
(* What one store of the vault promises its callers, with no lock, cipher or
   timer in sight: a set of items to which each call of dc_store.open() adds
   its own in one step.  The promise ends when a write lands after its lease
   (Tear), and starts anew at the next reset.  StoreAccess implements it.    *)
EXTENDS FiniteSets

CONSTANT Caller     \* the calls of dc_store.open()

VARIABLES
    value,  \* the items in the store
    acked,  \* the items whose call has been told they are in the store
    relics, \* items of before a reset that a frame may still hold
    torn    \* a write has landed after its lease

vars == <<value, acked, relics, torn>>

Init == value = {} /\ acked = {} /\ relics = {} /\ torn = FALSE

(* A call's update takes effect: nothing else in the store changes.          *)
Update(c) ==
    /\ ~torn
    /\ value' = value \union {c}
    /\ UNCHANGED <<acked, relics, torn>>

(* A call returns, and only then its caller relies on the update.            *)
Acknowledge(c) ==
    /\ ~torn
    /\ c \in value
    /\ acked' = acked \union {c}
    /\ UNCHANGED <<value, relics, torn>>

(* A frame that lived through a reset creates the store again with what its
   default object held.                                                      *)
Revive ==
    /\ ~torn
    /\ value = {}
    /\ value' \in SUBSET relics
    /\ UNCHANGED <<acked, relics, torn>>

(* A write lands after its lease has ended: from then on updates get lost.   *)
Tear ==
    /\ torn'
    /\ value' \in SUBSET Caller
    /\ acked' \in SUBSET Caller
    /\ UNCHANGED relics

Wipe ==
    /\ value' = {}
    /\ acked' = {}
    /\ relics' \in SUBSET Caller
    /\ relics \subseteq relics'
    /\ torn' = FALSE

Next == (\E c \in Caller : Update(c) \/ Acknowledge(c)) \/ Revive \/ Tear \/ Wipe

Spec == Init /\ [][Next]_vars
=============================================================================
