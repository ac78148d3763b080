----------------------- MODULE RateLimitingPoolProofs -----------------------
(* Proofs about RateLimitingPool for any calls, capacity and concurrency.    *)
EXTENDS RateLimitingPool, FiniteSetTheorems, TLAPS

-----------------------------------------------------------------------------
(* Calls wait in line: each once, and all in the state v of f.               *)
InLine(q, f, v) ==
  /\ \A i \in DOMAIN q : f[q[i]] = v
  /\ \A i, j \in DOMAIN q : q[i] = q[j] => i = j

(* The first of a line leaves it.                                            *)
LEMMA Leaves ==
  ASSUME NEW q \in Seq(Call), q # <<>>, NEW S, NEW f \in [Call -> S], NEW v, NEW w \in S,
         InLine(q, f, v)
  PROVE  /\ Head(q) \in Call /\ f[Head(q)] = v
         /\ Tail(q) \in Seq(Call)
         /\ InLine(Tail(q), [f EXCEPT ![Head(q)] = w], v)
<1>1. /\ Len(q) \in Nat /\ Len(q) >= 1 /\ DOMAIN q = 1..Len(q)
      /\ Tail(q) \in Seq(Call) /\ DOMAIN Tail(q) = 1..(Len(q) - 1)
      /\ \A i \in 1..(Len(q) - 1) : Tail(q)[i] = q[i + 1]
      /\ Head(q) = q[1] /\ \A i \in 1..Len(q) : q[i] \in Call
  OBVIOUS
<1>2. 1 \in DOMAIN q /\ Head(q) = q[1] /\ Head(q) \in Call
  BY <1>1
<1>3. ASSUME NEW i \in DOMAIN Tail(q)
      PROVE  i \in Int /\ i + 1 \in DOMAIN q /\ i + 1 # 1 /\ Tail(q)[i] = q[i + 1] /\ Tail(q)[i] \in Call
  BY <1>1
<1>4. f[Head(q)] = v
  BY <1>2 DEF InLine
<1>5. ASSUME NEW i \in DOMAIN Tail(q)
      PROVE  [f EXCEPT ![Head(q)] = w][Tail(q)[i]] = v
  BY <1>2, <1>3 DEF InLine
<1>6. ASSUME NEW i \in DOMAIN Tail(q), NEW j \in DOMAIN Tail(q), Tail(q)[i] = Tail(q)[j]
      PROVE  i = j
  <2>1. i + 1 = j + 1
    BY <1>3, <1>6 DEF InLine
  <2>. QED
    BY <1>3, <2>1
<1>. QED
  BY <1>1, <1>2, <1>4, <1>5, <1>6 DEF InLine

(* A call joins the line.                                                    *)
LEMMA Joins ==
  ASSUME NEW q \in Seq(Call), NEW S, NEW f \in [Call -> S], NEW v \in S, InLine(q, f, v),
         NEW c \in Call, f[c] # v
  PROVE  /\ Append(q, c) \in Seq(Call)
         /\ InLine(Append(q, c), [f EXCEPT ![c] = v], v)
<1>1. /\ Len(q) \in Nat /\ DOMAIN q = 1..Len(q) /\ Append(q, c) \in Seq(Call)
      /\ DOMAIN Append(q, c) = 1..(Len(q) + 1)
      /\ \A i \in 1..Len(q) : Append(q, c)[i] = q[i] /\ q[i] \in Call
      /\ Append(q, c)[Len(q) + 1] = c
  OBVIOUS
<1>2. ASSUME NEW i \in DOMAIN Append(q, c)
      PROVE  \/ i \in DOMAIN q /\ Append(q, c)[i] = q[i] /\ q[i] \in Call /\ q[i] # c
             \/ i = Len(q) + 1 /\ Append(q, c)[i] = c
  BY <1>1 DEF InLine
<1>. QED
  BY <1>1, <1>2 DEF InLine

(* A call that is not in the line changes its state.                         *)
LEMMA Elsewhere ==
  ASSUME NEW q \in Seq(Call), NEW S, NEW f \in [Call -> S], NEW v, NEW w \in S, InLine(q, f, v),
         NEW c \in Call, f[c] # v
  PROVE  InLine(q, [f EXCEPT ![c] = w], v)
<1>1. \A i \in DOMAIN q : q[i] \in Call /\ q[i] # c
  BY DEF InLine
<1>. QED
  BY <1>1 DEF InLine

-----------------------------------------------------------------------------
(* The slots: each is available, held or cooling down.                       *)
SlotsInv ==
  /\ slotsFree \in Nat /\ cooling \in Nat
  /\ slot \in [Call -> Slots!SlotState]
  /\ queue \in Seq(Call)
  /\ InLine(queue, slot, "queued")
  /\ slotsFree + Cardinality(Slots!SlotHolders) + cooling = Capacity

(* The pool: who waits for a lock is in line.                                *)
PoolInv ==
  /\ free \in Nat /\ tasks \in Nat
  /\ lock \in [Call -> Pool!LockState]
  /\ awaits \in Seq(Call)
  /\ InLine(awaits, lock, "waiting")

(* Who waits for a lock or has one holds a slot.                             *)
Slotted == \A c \in Call : lock[c] \in {"waiting", "held"} => slot[c] = "held"

(* Nobody waits for a slot while one is available.                           *)
NoneIdle == queue # <<>> => slotsFree = 0

RInv == SlotsInv /\ PoolInv /\ Slotted

(* The calls that hold a slot, when one gets or leaves it.                   *)
LEMMA Count ==
  ASSUME slot \in [Call -> Slots!SlotState], NEW c \in Call, NEW s \in Slots!SlotState,
         slot' = [slot EXCEPT ![c] = s]
  PROVE  /\ Cardinality(Slots!SlotHolders) \in Nat
         /\ slot[c] # "held" /\ s = "held"
              => Cardinality(Slots!SlotHolders)' = Cardinality(Slots!SlotHolders) + 1
         /\ slot[c] # "held" /\ s # "held" => UNCHANGED Slots!SlotHolders
         /\ slot[c] = "held" /\ s # "held"
              => Cardinality(Slots!SlotHolders)' = Cardinality(Slots!SlotHolders) - 1
<1> DEFINE H == Slots!SlotHolders
<1>1. IsFiniteSet(H) /\ Cardinality(H) \in Nat
  BY RateAssumption, FS_Subset, FS_CardinalityType DEF Slots!SlotHolders
<1>2. /\ s = "held" => H' = H \cup {c}
      /\ s # "held" => H' = H \ {c}
      /\ c \in H <=> slot[c] = "held"
  BY DEF Slots!SlotHolders
<1> HIDE DEF H
<1>3. /\ c \notin H => Cardinality(H \cup {c}) = Cardinality(H) + 1 /\ H \ {c} = H
      /\ c \in H => Cardinality(H \ {c}) = Cardinality(H) - 1
  <2>1. /\ c \notin H => Cardinality(H \cup {c}) = Cardinality(H) + 1
        /\ c \in H => Cardinality(H \ {c}) = Cardinality(H) - 1
    BY <1>1, FS_AddElement, FS_RemoveElement
  <2>2. c \notin H => H \ {c} = H
    OBVIOUS
  <2>. QED
    BY <2>1, <2>2
<1>4. Cardinality(H)' = Cardinality(H')
  OBVIOUS
<1>. QED
  BY <1>1, <1>2, <1>3, <1>4 DEF H

(* No call has asked for anything.                                           *)
LEMMA RInit == Init => RInv
<1> SUFFICES ASSUME Init PROVE RInv
  OBVIOUS
<1>1. Slots!SlotHolders = {} /\ Cardinality({}) = 0
  BY FS_EmptySet DEF Init, Slots!Init, Slots!SlotHolders
<1>2. DOMAIN queue = {} /\ DOMAIN awaits = {} /\ queue \in Seq(Call) /\ awaits \in Seq(Call)
  BY DEF Init, Slots!Init, Pool!Init
<1>. QED
  BY <1>1, <1>2, RateAssumption DEF Init, Slots!Init, Pool!Init, RInv, SlotsInv, PoolInv, Slotted,
     InLine, Slots!SlotState, Pool!LockState

(* A call asks for a slot.                                                   *)
LEMMA AcquireSlotStep ==
  ASSUME RInv, NEW c \in Call, AcquireSlot(c)
  PROVE  RInv'
<1>1. /\ slot[c] = "none" /\ UNCHANGED <<free, awaits, tasks, lock, cooling>>
      /\ lock[c] \notin {"waiting", "held"}
  BY DEF AcquireSlot, Slots!Acquire, poolVars, RInv, Slotted
<1>2. CASE slotsFree > 0
  <2>1. slotsFree' = slotsFree - 1 /\ slot' = [slot EXCEPT ![c] = "held"] /\ UNCHANGED queue
    BY <1>2 DEF AcquireSlot, Slots!Acquire
  <2>2. Cardinality(Slots!SlotHolders)' = Cardinality(Slots!SlotHolders) + 1
        /\ Cardinality(Slots!SlotHolders) \in Nat
    BY <1>1, <2>1, Count DEF RInv, SlotsInv, Slots!SlotState
  <2>3. InLine(queue, [slot EXCEPT ![c] = "held"], "queued")
    BY <1>1, Elsewhere DEF RInv, SlotsInv, Slots!SlotState
  <2>4. slotsFree' \in Nat
        /\ slotsFree' + Cardinality(Slots!SlotHolders)' + cooling' = Capacity
    BY <1>1, <1>2, <2>1, <2>2, RateAssumption DEF RInv, SlotsInv
  <2>5. SlotsInv'
    BY <1>1, <2>1, <2>3, <2>4 DEF RInv, SlotsInv, Slots!SlotState
  <2>6. Slotted'
    BY <1>1, <2>1 DEF RInv, SlotsInv, Slotted
  <2>. QED
    BY <1>1, <2>5, <2>6 DEF RInv, PoolInv
<1>3. CASE ~(slotsFree > 0)
  <2>1. queue' = Append(queue, c) /\ slot' = [slot EXCEPT ![c] = "queued"] /\ UNCHANGED slotsFree
    BY <1>3 DEF AcquireSlot, Slots!Acquire
  <2>2. UNCHANGED Slots!SlotHolders
    BY <1>1, <2>1, Count DEF RInv, SlotsInv, Slots!SlotState
  <2>3. InLine(queue', slot', "queued") /\ queue' \in Seq(Call)
    <3>1. /\ queue \in Seq(Call) /\ slot \in [Call -> Slots!SlotState] /\ "queued" \in Slots!SlotState
          /\ InLine(queue, slot, "queued") /\ slot[c] # "queued"
      BY <1>1 DEF RInv, SlotsInv, Slots!SlotState
    <3>2. /\ Append(queue, c) \in Seq(Call)
          /\ InLine(Append(queue, c), [slot EXCEPT ![c] = "queued"], "queued")
      BY <3>1, Joins
    <3>. QED
      BY <2>1, <3>2
  <2>4. SlotsInv'
    BY <1>1, <2>1, <2>2, <2>3 DEF RInv, SlotsInv, Slots!SlotState
  <2>5. Slotted'
    BY <1>1, <2>1 DEF RInv, SlotsInv, Slotted
  <2>. QED
    BY <1>1, <2>4, <2>5 DEF RInv, PoolInv
<1>. QED
  BY <1>2, <1>3

(* A call that holds a slot asks for a lock.                                 *)
LEMMA AcquireLockStep ==
  ASSUME RInv, NEW c \in Call, AcquireLock(c)
  PROVE  RInv'
<1>1. /\ lock[c] = "none" /\ slot[c] = "held" /\ UNCHANGED slotVars /\ UNCHANGED tasks
  BY DEF AcquireLock, Pool!Acquire
<1>2. SlotsInv'
  BY <1>1 DEF RInv, SlotsInv, slotVars, Slots!SlotHolders
<1>3. CASE free > 0
  <2>1. free' = free - 1 /\ lock' = [lock EXCEPT ![c] = "held"] /\ UNCHANGED awaits
    BY <1>3 DEF AcquireLock, Pool!Acquire
  <2>2. InLine(awaits, [lock EXCEPT ![c] = "held"], "waiting")
    <3>1. /\ awaits \in Seq(Call) /\ lock \in [Call -> Pool!LockState]
          /\ "held" \in Pool!LockState /\ InLine(awaits, lock, "waiting")
          /\ lock[c] # "waiting"
      BY <1>1 DEF RInv, PoolInv, Pool!LockState
    <3>. QED
      BY <3>1, Elsewhere
  <2>3. PoolInv'
    BY <1>1, <1>3, <2>1, <2>2 DEF RInv, PoolInv, Pool!LockState
  <2>. QED
    BY <1>1, <1>2, <2>1, <2>3 DEF RInv, PoolInv, Slotted, slotVars
<1>4. CASE ~(free > 0)
  <2>1. awaits' = Append(awaits, c) /\ lock' = [lock EXCEPT ![c] = "waiting"] /\ UNCHANGED free
    BY <1>4 DEF AcquireLock, Pool!Acquire
  <2>2. InLine(awaits', lock', "waiting") /\ awaits' \in Seq(Call)
    <3>1. /\ awaits \in Seq(Call) /\ lock \in [Call -> Pool!LockState] /\ "waiting" \in Pool!LockState
          /\ InLine(awaits, lock, "waiting") /\ lock[c] # "waiting"
      BY <1>1 DEF RInv, PoolInv, Pool!LockState
    <3>2. /\ Append(awaits, c) \in Seq(Call)
          /\ InLine(Append(awaits, c), [lock EXCEPT ![c] = "waiting"], "waiting")
      BY <3>1, Joins
    <3>. QED
      BY <2>1, <3>2
  <2>3. PoolInv'
    BY <1>1, <2>1, <2>2 DEF RInv, PoolInv, Pool!LockState
  <2>. QED
    BY <1>1, <1>2, <2>1, <2>3 DEF RInv, PoolInv, Slotted, slotVars
<1>. QED
  BY <1>3, <1>4

(* A call frees its lock, and its slot with it.                              *)
LEMMA ReleaseStep ==
  ASSUME RInv, NEW c \in Call, Release(c)
  PROVE  RInv'
<1>1. /\ lock[c] = "held" /\ lock' = [lock EXCEPT ![c] = "freed"] /\ free' = free + 1
      /\ slot[c] = "held" /\ slot' = [slot EXCEPT ![c] = "released"] /\ cooling' = cooling + 1
      /\ tasks' = tasks + 1 /\ UNCHANGED <<awaits, slotsFree, queue>>
  BY DEF Release, Pool!Free, Slots!Release
<1>2. /\ Cardinality(Slots!SlotHolders)' = Cardinality(Slots!SlotHolders) - 1
      /\ Cardinality(Slots!SlotHolders) \in Nat
  BY <1>1, Count DEF RInv, SlotsInv, Slots!SlotState
<1>3. InLine(queue, [slot EXCEPT ![c] = "released"], "queued")
  BY <1>1, Elsewhere DEF RInv, SlotsInv, Slots!SlotState
<1>4. InLine(awaits, [lock EXCEPT ![c] = "freed"], "waiting")
  BY <1>1, Elsewhere DEF RInv, PoolInv, Pool!LockState
<1>5. slotsFree' + Cardinality(Slots!SlotHolders)' + cooling' = Capacity /\ cooling' \in Nat
  BY <1>1, <1>2, RateAssumption DEF RInv, SlotsInv
<1>6. SlotsInv'
  BY <1>1, <1>3, <1>5 DEF RInv, SlotsInv, Slots!SlotState
<1>7. PoolInv'
  BY <1>1, <1>4 DEF RInv, PoolInv, Pool!LockState
<1>8. Slotted'
  BY <1>1 DEF RInv, SlotsInv, PoolInv, Slotted
<1>. QED
  BY <1>6, <1>7, <1>8 DEF RInv

(* The microtask hands a lock to the first in line.                          *)
LEMMA HandOffStep ==
  ASSUME RInv, HandOff
  PROVE  RInv'
<1>1. /\ UNCHANGED <<slotsFree, queue, cooling, slot, free>>
      /\ tasks > 0 /\ tasks' = tasks - 1
  BY DEF HandOff, slotVars, Pool!HandOff
<1>2. SlotsInv'
  BY <1>1 DEF RInv, SlotsInv, Slots!SlotHolders
<1>3. CASE awaits = <<>>
  BY <1>1, <1>2, <1>3 DEF HandOff, Pool!HandOff, RInv, PoolInv, Slotted
<1>4. CASE awaits # <<>>
  <2>1. lock' = [lock EXCEPT ![Head(awaits)] = "held"] /\ awaits' = Tail(awaits)
    BY <1>4 DEF HandOff, Pool!HandOff
  <2>2. Head(awaits) \in Call /\ lock[Head(awaits)] = "waiting" /\ awaits' \in Seq(Call)
        /\ InLine(awaits', lock', "waiting")
    <3>1. /\ awaits \in Seq(Call) /\ lock \in [Call -> Pool!LockState] /\ "held" \in Pool!LockState
          /\ InLine(awaits, lock, "waiting")
      BY DEF RInv, PoolInv, Pool!LockState
    <3>2. /\ Head(awaits) \in Call /\ lock[Head(awaits)] = "waiting" /\ Tail(awaits) \in Seq(Call)
          /\ InLine(Tail(awaits), [lock EXCEPT ![Head(awaits)] = "held"], "waiting")
      BY <1>4, <3>1, Leaves
    <3>. QED
      BY <2>1, <3>2
  <2>3. PoolInv'
    BY <1>1, <2>1, <2>2 DEF RInv, PoolInv, Pool!LockState
  <2>4. Slotted'
    BY <1>1, <2>1, <2>2 DEF RInv, PoolInv, Slotted
  <2>. QED
    BY <1>2, <2>3, <2>4 DEF RInv
<1>. QED
  BY <1>3, <1>4

(* A slot has cooled down: the first in line gets it, or it is available.    *)
LEMMA CooledStep ==
  ASSUME RInv, Cooled
  PROVE  RInv'
<1>1. /\ UNCHANGED <<free, awaits, tasks, lock>>
      /\ cooling > 0 /\ cooling' = cooling - 1
  BY DEF Cooled, poolVars, Slots!Dequeue
<1>2. PoolInv'
  BY <1>1 DEF RInv, PoolInv
<1>3. CASE queue = <<>>
  <2>1. slotsFree' = slotsFree + 1 /\ UNCHANGED <<queue, slot>>
    BY <1>3 DEF Cooled, Slots!Dequeue
  <2>2. UNCHANGED Slots!SlotHolders
    BY <2>1 DEF Slots!SlotHolders
  <2>3. Cardinality(Slots!SlotHolders) \in Nat
    BY RateAssumption, FS_Subset, FS_CardinalityType DEF Slots!SlotHolders
  <2>4. slotsFree' + Cardinality(Slots!SlotHolders) + cooling' = Capacity
        /\ slotsFree' \in Nat /\ cooling' \in Nat
    BY <1>1, <2>1, <2>3, RateAssumption DEF RInv, SlotsInv
  <2>. QED
    BY <1>1, <1>2, <2>1, <2>2, <2>4 DEF RInv, SlotsInv, Slotted
<1>4. CASE queue # <<>>
  <2>1. slot' = [slot EXCEPT ![Head(queue)] = "held"] /\ queue' = Tail(queue) /\ UNCHANGED slotsFree
    BY <1>4 DEF Cooled, Slots!Dequeue
  <2>2. Head(queue) \in Call /\ slot[Head(queue)] = "queued" /\ queue' \in Seq(Call)
        /\ InLine(queue', slot', "queued")
    <3>1. /\ queue \in Seq(Call) /\ slot \in [Call -> Slots!SlotState] /\ "held" \in Slots!SlotState
          /\ InLine(queue, slot, "queued")
      BY DEF RInv, SlotsInv, Slots!SlotState
    <3>2. /\ Head(queue) \in Call /\ slot[Head(queue)] = "queued" /\ Tail(queue) \in Seq(Call)
          /\ InLine(Tail(queue), [slot EXCEPT ![Head(queue)] = "held"], "queued")
      BY <1>4, <3>1, Leaves
    <3>. QED
      BY <2>1, <3>2
  <2>3. /\ Cardinality(Slots!SlotHolders)' = Cardinality(Slots!SlotHolders) + 1
        /\ Cardinality(Slots!SlotHolders) \in Nat
    BY <2>1, <2>2, Count DEF RInv, SlotsInv, Slots!SlotState
  <2>4. slotsFree' + Cardinality(Slots!SlotHolders)' + cooling' = Capacity /\ cooling' \in Nat
    BY <1>1, <2>1, <2>3, RateAssumption DEF RInv, SlotsInv
  <2>5. SlotsInv'
    BY <2>1, <2>2, <2>4 DEF RInv, SlotsInv, Slots!SlotState
  <2>6. Slotted'
    BY <1>1, <2>1, <2>2 DEF RInv, SlotsInv, Slotted
  <2>. QED
    BY <1>2, <2>5, <2>6 DEF RInv
<1>. QED
  BY <1>3, <1>4

(* Every step keeps the invariant.                                           *)
LEMMA RStep == RInv /\ [Next]_vars => RInv'
<1> SUFFICES ASSUME RInv, [Next]_vars PROVE RInv'
  OBVIOUS
<1>1. CASE UNCHANGED vars
  BY <1>1 DEF vars, slotVars, poolVars, RInv, SlotsInv, PoolInv, Slotted, Slots!SlotHolders
<1>2. CASE Next
  BY <1>2, AcquireSlotStep, AcquireLockStep, ReleaseStep, HandOffStep, CooledStep DEF Next
<1>. QED
  BY <1>1, <1>2

-----------------------------------------------------------------------------
(* The invariant bounds the slots, so that it implies the types.             *)
THEOREM TypeCorrect == Spec => []TypeOK
<1>1. RInv => TypeOK
  <2> SUFFICES ASSUME RInv PROVE TypeOK
    OBVIOUS
  <2>1. Cardinality(Slots!SlotHolders) \in Nat
    <3>1. Slots!SlotHolders \subseteq Call
      BY DEF Slots!SlotHolders
    <3>. QED
      BY <3>1, RateAssumption, FS_Subset, FS_CardinalityType
  <2>2. slotsFree \in 0..Capacity /\ cooling \in 0..Capacity
    BY <2>1, RateAssumption DEF RInv, SlotsInv
  <2>. QED
    BY <2>2 DEF RInv, SlotsInv, PoolInv, TypeOK, Slots!SlotsTypeOK, Pool!PoolTypeOK
<1>. QED
  BY <1>1, RInit, RStep, PTL DEF Spec

(* Who holds or waits for a lock holds a slot, so that no more can.          *)
LEMMA Capped == RInv => SlotsCapThePool
<1> SUFFICES ASSUME RInv PROVE SlotsCapThePool
  OBVIOUS
<1> DEFINE H == Slots!SlotHolders
           F == InFlight
           W == Pool!Waiting
<1>1. IsFiniteSet(H) /\ F \subseteq H /\ W \subseteq H /\ F \cap W = {}
  <2>1. H \subseteq Call
    BY DEF Slots!SlotHolders
  <2>2. IsFiniteSet(H)
    BY <2>1, RateAssumption, FS_Subset
  <2>. QED
    BY <2>2 DEF RInv, Slotted, Slots!SlotHolders, InFlight, Pool!Holders, Pool!Waiting
<1>2. slotsFree \in Nat /\ cooling \in Nat /\ slotsFree + Cardinality(H) + cooling = Capacity
  BY DEF RInv, SlotsInv
<1>3. \A c \in Call : lock[c] \in {"waiting", "held"} => slot[c] = "held"
  BY DEF RInv, Slotted
<1> HIDE DEF H, F, W
<1>4. IsFiniteSet(F) /\ IsFiniteSet(W) /\ Cardinality(F) \in Nat /\ Cardinality(W) \in Nat
      /\ Cardinality(H) \in Nat
  BY <1>1, FS_Subset, FS_CardinalityType
<1>5. Cardinality(F \cup W) = Cardinality(F) + Cardinality(W) - Cardinality(F \cap W)
  BY <1>4, FS_Union
<1>6. Cardinality(F \cap W) = 0 /\ F \cup W \subseteq H
  BY <1>1, FS_EmptySet
<1>7. Cardinality(F \cup W) <= Cardinality(H)
  BY <1>1, <1>6, FS_Subset
<1>8. Cardinality(F) + Cardinality(W) + cooling <= Capacity
  BY <1>2, <1>4, <1>5, <1>6, <1>7, RateAssumption
<1>. QED
  BY <1>3, <1>8 DEF SlotsCapThePool, F, W

(* A host never sees more requests at once than it has slots, however many calls
   there are and however few locks: the pool, which hands out a lock too many, is
   bounded by the slots that its callers hold.                               *)
THEOREM HostIsSpared == Spec => []SlotsCapThePool
  BY RInit, RStep, Capped, PTL DEF Spec

(* A slot that becomes available finds the queue empty.                      *)
LEMMA NoneIdleStep == RInv /\ NoneIdle /\ [Next]_vars => NoneIdle'
<1> SUFFICES ASSUME RInv, NoneIdle, [Next]_vars PROVE NoneIdle'
  OBVIOUS
<1>1. CASE UNCHANGED vars
  BY <1>1 DEF vars, slotVars, NoneIdle
<1>2. ASSUME NEW c \in Call, AcquireSlot(c) PROVE NoneIdle'
  BY <1>2 DEF AcquireSlot, Slots!Acquire, NoneIdle, RInv, SlotsInv
<1>3. ASSUME NEW c \in Call, AcquireLock(c) \/ Release(c) PROVE NoneIdle'
  BY <1>3 DEF AcquireLock, Release, Slots!Release, slotVars, NoneIdle
<1>4. CASE HandOff
  BY <1>4 DEF HandOff, slotVars, NoneIdle
<1>5. CASE Cooled
  BY <1>5 DEF Cooled, Slots!Dequeue, NoneIdle
<1>. QED
  BY <1>1, <1>2, <1>3, <1>4, <1>5 DEF Next

(* Every slot is available, held or cooling down, and none is available while a
   call waits, whatever calls ask for and release in whatever order.         *)
THEOREM SlotsKept == Spec => []SlotsConserved
<1>1. Init => NoneIdle
  BY DEF Init, Slots!Init, NoneIdle
<1>2. RInv /\ NoneIdle => SlotsConserved
  BY DEF RInv, SlotsInv, NoneIdle, SlotsConserved
<1>. QED
  BY <1>1, <1>2, RInit, RStep, NoneIdleStep, PTL DEF Spec

(* Slots go to calls in the order in which they asked: who gets one while others
   wait is the first of them.                                                *)
THEOREM InTurn == Spec => NoOvertaking
<1> DEFINE Fair == \A c \in Call : slot[c] # "held" /\ slot'[c] = "held" =>
                                      queue = <<>> \/ Head(queue) = c
<1>1. Init => NoneIdle
  BY DEF Init, Slots!Init, NoneIdle
<1>2. RInv /\ NoneIdle /\ [Next]_vars => [Fair]_vars
  <2> SUFFICES ASSUME RInv, NoneIdle, Next, NEW c \in Call, slot[c] # "held", slot'[c] = "held"
               PROVE  queue = <<>> \/ Head(queue) = c
    OBVIOUS
  <2>1. ASSUME NEW d \in Call, AcquireSlot(d) PROVE queue = <<>>
    BY <2>1 DEF AcquireSlot, Slots!Acquire, NoneIdle, RInv, SlotsInv
  <2>2. ASSUME NEW d \in Call, AcquireLock(d) \/ Release(d) PROVE FALSE
    BY <2>2 DEF AcquireLock, Release, Slots!Release, slotVars, RInv, SlotsInv
  <2>3. CASE HandOff
    BY <2>3 DEF HandOff, slotVars
  <2>4. CASE Cooled
    BY <2>4 DEF Cooled, Slots!Dequeue, RInv, SlotsInv
  <2>. QED
    BY <2>1, <2>2, <2>3, <2>4 DEF Next
<1>. QED
  BY <1>1, <1>2, RInit, RStep, NoneIdleStep, PTL DEF Spec, NoOvertaking
=============================================================================
