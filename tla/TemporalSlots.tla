--------------------------- MODULE TemporalSlots ---------------------------
(* TemporalSlots (src/src/util/temporal-slots.ts): a number of slots, each of
   which becomes available again some time after its release.  A slot that
   cools down goes to the first call in the queue, if there is one.          *)
EXTENDS Naturals, Sequences

CONSTANTS
    Call,    \* calls of acquire()
    Capacity \* slots that are available at first

VARIABLES
    slotsFree, \* _c_slots_free
    queue,     \* _a_queue
    cooling,   \* timeouts that release() has started
    slot       \* what each call of acquire() has got

slotVars == <<slotsFree, queue, cooling, slot>>

SlotState == {"none", "queued", "held", "released"}

Init ==
    /\ slotsFree = Capacity
    /\ queue = <<>>
    /\ cooling = 0
    /\ slot = [c \in Call |-> "none"]

(* acquire(): take an available slot, or wait in the queue.                  *)
Acquire(c) ==
    /\ slot[c] = "none"
    /\ IF slotsFree > 0
       THEN /\ slotsFree' = slotsFree - 1
            /\ slot' = [slot EXCEPT ![c] = "held"]
            /\ UNCHANGED queue
       ELSE /\ queue' = Append(queue, c)
            /\ slot' = [slot EXCEPT ![c] = "queued"]
            /\ UNCHANGED slotsFree
    /\ UNCHANGED cooling

(* The function that acquire() returns starts the timeout.                   *)
Release(c) ==
    /\ slot[c] = "held"
    /\ slot' = [slot EXCEPT ![c] = "released"]
    /\ cooling' = cooling + 1
    /\ UNCHANGED <<slotsFree, queue>>

(* _dequeue(), when a timeout fires.  A mutant leaves the queue to the next
   call of acquire().                                                        *)
DequeueToFree ==
    /\ cooling > 0
    /\ cooling' = cooling - 1
    /\ slotsFree' = slotsFree + 1
    /\ UNCHANGED <<queue, slot>>
Dequeue ==
    /\ cooling > 0
    /\ cooling' = cooling - 1
    /\ IF queue # <<>>
       THEN /\ slot' = [slot EXCEPT ![Head(queue)] = "held"]
            /\ queue' = Tail(queue)
            /\ UNCHANGED slotsFree
       ELSE /\ slotsFree' = slotsFree + 1
            /\ UNCHANGED <<queue, slot>>

-----------------------------------------------------------------------------
SlotsTypeOK ==
    /\ slotsFree \in 0..Capacity
    /\ cooling \in 0..Capacity
    /\ slot \in [Call -> SlotState]
    /\ queue \in Seq(Call)

SlotHolders == {c \in Call : slot[c] = "held"}
=============================================================================
