--------------------------- MODULE AsyncLockPool ---------------------------
(* AsyncLockPool (src/src/util/async-lock-pool.ts): a number of locks, and a
   queue of promises for those who have to wait.  A lock that is freed is
   counted as free at once; a microtask hands it to the first waiter later.
   No caller gives acquire() a timeout, and none is modelled.                *)
EXTENDS Naturals, Sequences, FiniteSets

CONSTANTS
    Caller,   \* calls of acquire()
    Locks     \* locks the pool was made with

VARIABLES
    free,   \* _c_free
    awaits, \* _a_awaits
    tasks,  \* queued microtasks
    lock    \* what each call has got

LockState == {"none", "waiting", "held", "freed"}

Init ==
    /\ free = Locks
    /\ awaits = <<>>
    /\ tasks = 0
    /\ lock = [c \in Caller |-> "none"]

(* acquire().                                                                *)
Acquire(c) ==
    /\ lock[c] = "none"
    /\ IF free > 0
       THEN /\ free' = free - 1
            /\ lock' = [lock EXCEPT ![c] = "held"]
            /\ UNCHANGED awaits
       ELSE /\ awaits' = Append(awaits, c)
            /\ lock' = [lock EXCEPT ![c] = "waiting"]
            /\ UNCHANGED free
    /\ UNCHANGED tasks

(* The function that acquire() resolves with.                                *)
Free(c) ==
    /\ lock[c] = "held"
    /\ lock' = [lock EXCEPT ![c] = "freed"]
    /\ free' = free + 1
    /\ tasks' = tasks + 1
    /\ UNCHANGED awaits

(* The microtask: resolve the promise of the first waiter.                   *)
HandOff ==
    /\ tasks > 0
    /\ tasks' = tasks - 1
    /\ IF awaits # <<>>
       THEN /\ lock' = [lock EXCEPT ![Head(awaits)] = "held"]
            /\ awaits' = Tail(awaits)
       ELSE UNCHANGED <<awaits, lock>>
    /\ UNCHANGED free

-----------------------------------------------------------------------------
Holders == {c \in Caller : lock[c] = "held"}
Waiting == {c \in Caller : lock[c] = "waiting"}

PoolTypeOK ==
    /\ free \in Nat /\ tasks \in Nat
    /\ lock \in [Caller -> LockState]
    /\ awaits \in Seq(Caller)

(* No more callers than locks hold one (async-lock-pool.ts:49).              *)
AtMostLocks == Cardinality(Holders) <= Locks
=============================================================================
