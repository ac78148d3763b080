-------------------------- MODULE RateLimitingPool --------------------------
(* RateLimitingPool (src/src/util/rate-limiting-pool.ts), which limits the
   queries sent to one host (query_snip(), cached_fetch()): a call waits for a
   temporal slot first, then for a lock of the pool, and a release frees both. *)
EXTENDS Naturals, Sequences, FiniteSets

CONSTANTS
    Call,       \* calls of acquire()
    Capacity,   \* gc_rate.capacity
    Concurrency \* gc_rate.concurrency

ASSUME RateAssumption ==
    /\ Capacity \in Nat \ {0} /\ Concurrency \in Nat \ {0}
    /\ IsFiniteSet(Call)

VARIABLES slotsFree, queue, cooling, slot,
          free, awaits, tasks, lock

Slots == INSTANCE TemporalSlots
Pool == INSTANCE AsyncLockPool
            WITH Caller <- Call, Locks <- Concurrency

slotVars == <<slotsFree, queue, cooling, slot>>
poolVars == <<free, awaits, tasks, lock>>
vars == <<slotVars, poolVars>>

Init == Slots!Init /\ Pool!Init

(* acquire(): the slot, then, when its promise has resolved, the lock.  A
   mutant does not wait for the promise.                                     *)
AcquireSlot(c) == Slots!Acquire(c) /\ UNCHANGED poolVars
AcquireLockUnslotted(c) ==
    /\ slot[c] # "none"
    /\ Pool!Acquire(c)
    /\ UNCHANGED slotVars
AcquireLock(c) ==
    /\ slot[c] = "held"
    /\ Pool!Acquire(c)
    /\ UNCHANGED slotVars

(* The microtask of the pool, and the timeout of a slot.                     *)
HandOff == Pool!HandOff /\ UNCHANGED slotVars
Cooled == Slots!Dequeue /\ UNCHANGED poolVars

(* The function that acquire() resolves with.  A mutant forgets the slot.    *)
ReleaseLockOnly(c) == Pool!Free(c) /\ UNCHANGED slotVars
Release(c) == Pool!Free(c) /\ Slots!Release(c)

Next ==
    \/ \E c \in Call : AcquireSlot(c) \/ AcquireLock(c) \/ Release(c)
    \/ HandOff \/ Cooled

Spec == Init /\ [][Next]_vars

(* Promises resolve, microtasks and timeouts run, and every caller releases in
   a finally block once its query has ended.                                 *)
Fairness ==
    /\ WF_vars(HandOff) /\ WF_vars(Cooled)
    /\ \A c \in Call : WF_vars(AcquireLock(c)) /\ WF_vars(Release(c))
FairSpec == Spec /\ Fairness

-----------------------------------------------------------------------------
TypeOK == Slots!SlotsTypeOK /\ Pool!PoolTypeOK

(* Every slot is available, held or cooling down, and no slot is available
   while a call waits for one: the host's rate never exceeds the capacity and
   never stays below it for nothing (temporal-slots.ts:4, 8).                *)
SlotsConserved ==
    /\ slotsFree + Cardinality(Slots!SlotHolders) + cooling = Capacity
    /\ queue # <<>> => slotsFree = 0

(* No call gets a slot before one that has waited longer.                    *)
NoOvertaking ==
    [][\A c \in Call : slot[c] # "held" /\ slot'[c] = "held" =>
                          queue = <<>> \/ Head(queue) = c]_vars

(* The operations that run at once.                                          *)
InFlight == Pool!Holders

(* A host never sees more requests at once than there are slots, even when the
   pool has handed out more locks than it has: only who holds a slot may ask
   for a lock.                                                               *)
SlotsCapThePool ==
    /\ Cardinality(InFlight) + Cardinality(Pool!Waiting) + cooling <= Capacity
    /\ \A c \in Call : lock[c] \in {"waiting", "held"} => slot[c] = "held"

(* The pool is there to "limit number of concurrent operations"
   (rate-limiting-pool.ts:19).                                               *)
ConcurrencyKept == Pool!AtMostLocks

(* Every call that waits for a slot gets to run.                             *)
EveryCallRuns == \A c \in Call : slot[c] = "queued" ~> lock[c] = "held"
=============================================================================
