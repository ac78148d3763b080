------------------------- MODULE StoreAccessProofs -------------------------
(* Proofs about StoreAccess for any number of calls, frames and epochs.      *)
EXTENDS StoreAccess, TLAPS

(* What a call mutates and writes is a set of items.                         *)
LEMMA ObjectType ==
  ASSUME TypeOK, NEW c \in Caller
  PROVE  Object(c) \in SUBSET Caller
  BY ConstantsAssumption DEF TypeOK, Object

(* The object handed to the encryption makes a ciphertext.                   *)
LEMMA SealObjectType ==
  ASSUME TypeOK, NEW c \in Caller, NEW data \in SUBSET Caller,
         SealObject(c, data)
  PROVE  sealed' \in [Caller -> Cipher]
<1>1. [key |-> key[c], vec |-> 0, data |-> data] \in Cipher
  BY ConstantsAssumption DEF TypeOK, Cipher
<1>. QED
  BY <1>1 DEF SealObject, TypeOK

(* The initial state is of the declared types.                               *)
LEMMA TypeInit == Init => TypeOK
<1> SUFFICES ASSUME Init PROVE TypeOK
  OBVIOUS
<1> USE DEF Init, TypeOK
<1>1. Blank \in Cipher /\ 0 \in 0..MaxEpoch /\ 1 \in 1..MaxEpoch /\ 0 \in 0..MaxDeaths
  BY ConstantsAssumption DEF Blank, Cipher
<1>2. 1 \in 0..MaxEpoch
  BY ConstantsAssumption
<1>. QED
  BY <1>1, <1>2 DEF Busy, Opening, Writing, InUse, Settled

(* Every step keeps the types. *)
LEMMA TypeStep == TypeOK /\ [Next]_vars => TypeOK'
<1> SUFFICES ASSUME TypeOK, [Next]_vars PROVE TypeOK'
  OBVIOUS
<1> USE ConstantsAssumption DEF TypeOK, Cipher, Blank, Busy, Opening, Writing,
        InUse, Settled, Goto, lockVars, sessionVars, cacheVars, histVars, lateVars, tornVars
<1>1. ASSUME NEW c \in Caller, Begin(c) PROVE TypeOK'
  <2>1. \/ pc' = [pc EXCEPT ![c] = "failed"] /\ key' = key
        \/ pc' = [pc EXCEPT ![c] = "queued"] /\ key' = [key EXCEPT ![c] = session]
    BY <1>1 DEF Begin
  <2>2. pc' \in [Caller -> Busy \union Settled \union {"idle"}]
    BY <2>1
  <2>3. key' \in [Caller -> 0..MaxEpoch]
    BY <2>1
  <2>. QED
    BY <1>1, <2>2, <2>3 DEF Begin
<1>2. ASSUME NEW c \in Caller, Read(c) PROVE TypeOK'
  BY <1>2 DEF Read
<1>3. ASSUME NEW c \in Caller, Grant(c) PROVE TypeOK'
  BY <1>3 DEF Grant
<1>4. ASSUME NEW c \in Caller, Load(c) PROVE TypeOK'
  BY <1>4 DEF Load
<1>5. ASSUME NEW c \in Caller, LoadFails(c) PROVE TypeOK'
  BY <1>5 DEF LoadFails
<1>6. ASSUME NEW c \in Caller, ReadFails(c) PROVE TypeOK'
  BY <1>6 DEF ReadFails, ReleaseIfLive, Release
<1>7. ASSUME NEW c \in Caller, ReadBlank(c) PROVE TypeOK'
  BY <1>7 DEF ReadBlank
<1>8. ASSUME NEW c \in Caller, ReadStore(c) PROVE TypeOK'
  BY <1>8 DEF ReadStore
<1>9. ASSUME NEW c \in Caller, SaveCreated(c) PROVE TypeOK'
  <2>1. sealed' \in [Caller -> Cipher]
    BY <1>9, ObjectType, SealObjectType DEF SaveCreated
  <2>. QED
    BY <1>9, <2>1 DEF SaveCreated
<1>10. ASSUME NEW c \in Caller, Seal(c) PROVE TypeOK'
  BY <1>10 DEF Seal
<1>11. ASSUME NEW c \in Caller, Land(c) PROVE TypeOK'
  BY <1>11 DEF Land
<1>12. ASSUME NEW c \in Caller, SaveFails(c) PROVE TypeOK'
  BY <1>12 DEF SaveFails, ReleaseIfLive, Release
<1>13. ASSUME NEW c \in Caller, Put(c) PROVE TypeOK'
  <2> DEFINE data == Object(c) \union {c}
  <2>1. data \in SUBSET Caller
    <3>1. Object(c) \in SUBSET Caller
      BY ObjectType
    <3>. QED
      BY <3>1
  <2>2. sealed' \in [Caller -> Cipher]
    BY <1>13, <2>1, SealObjectType DEF Put, PutWhen
  <2>3. default' \in [Frame -> SUBSET Caller]
    <3>1. \/ default' = default
          \/ default' = [default EXCEPT ![FrameOf[c]] = data]
      BY <1>13 DEF Put, PutWhen
    <3>2. default \in [Frame -> SUBSET Caller]
      OBVIOUS
    <3>. HIDE DEF TypeOK, data
    <3>. QED
      BY <2>1, <3>1, <3>2
  <2>4. cache' \in [Caller -> SUBSET Caller]
    <3>1. cache' = cache \/ cache' = [cache EXCEPT ![c] = data]
      BY <1>13 DEF Put, PutWhen
    <3>2. cache \in [Caller -> SUBSET Caller]
      OBVIOUS
    <3>. HIDE DEF TypeOK, data
    <3>. QED
      BY <2>1, <3>1, <3>2
  <2>. QED
    BY <1>13, <2>2, <2>3, <2>4 DEF Put, PutWhen
<1>14. ASSUME NEW c \in Caller, Close(c) PROVE TypeOK'
  <2>1. \/ pc' = [pc EXCEPT ![c] = "done"]
        \/ pc' = [pc EXCEPT ![c] = "failed"]
    BY <1>14 DEF Close
  <2>2. pc' \in [Caller -> Busy \union Settled \union {"idle"}]
    BY <2>1
  <2>3. /\ holder' \in {holder, NoCaller} /\ live' \subseteq live
        /\ acked' \in {acked, acked \union {c}}
    BY <1>14 DEF Close, Release
  <2>. QED
    BY <1>14, <2>2, <2>3 DEF Close
<1>15. ASSUME NEW c \in Caller, UseThrows(c) PROVE TypeOK'
  BY <1>15 DEF UseThrows, ReleaseIfLive, Release
<1>16. ASSUME NEW c \in Caller, Abort(c) PROVE TypeOK'
  BY <1>16 DEF Abort
<1>17. ASSUME NEW c \in Caller, LeaseEnds(c) PROVE TypeOK'
  BY <1>17 DEF LeaseEnds, LeaseEndsWhen, Release
<1>18. CASE Logout
  BY <1>18 DEF Logout
<1>19. CASE Login
  <2>1. epoch \in Nat /\ MaxEpoch \in Nat /\ epoch + 1 \in 1..MaxEpoch
    <3>1. epoch \in 1..MaxEpoch /\ epoch < MaxEpoch /\ MaxEpoch \in Nat
      BY <1>19 DEF Login
    <3>. HIDE DEF TypeOK
    <3>. QED
      BY <3>1
  <2>2. storage' \in Cipher
    <3>1. \/ storage' = Blank
          \/ storage' = [key |-> epoch + 1, vec |-> epoch + 1,
                         data |-> storage.data]
      BY <1>19 DEF Login
    <3>2. epoch + 1 \in 0..MaxEpoch /\ storage.data \in SUBSET Caller
      BY <2>1
    <3>. QED
      BY <3>1, <3>2
  <2>. QED
    BY <1>19, <2>1, <2>2 DEF Login
<1>20. CASE Wipe
  BY <1>20 DEF Wipe
<1>21. ASSUME NEW f \in Frame, FrameDies(f) PROVE TypeOK'
  BY <1>21 DEF FrameDies
<1>22. CASE UNCHANGED vars
  BY <1>22 DEF vars
<1>. QED
  BY <1>1, <1>2, <1>3, <1>4, <1>5, <1>6, <1>7, <1>8, <1>9, <1>10, <1>11,
     <1>12, <1>13, <1>14, <1>15, <1>16, <1>17, <1>18, <1>19, <1>20, <1>21,
     <1>22 DEF Next, Progress, Use, Timeout

(* Every variable of StoreAccess keeps its type, in every run of open().     *)
THEOREM TypeCorrect == Spec => []TypeOK
  BY TypeInit, TypeStep, PTL DEF Spec

-----------------------------------------------------------------------------
(* Only the lock's holder comes to hold a live entry. *)
LEMMA LockStep ==
  ASSUME TypeOK, LockInv, [Next]_vars
  PROVE  LockInv'
<1> USE ConstantsAssumption DEF TypeOK, LockInv, Exclusive,
        Busy, Opening, Writing, InUse, Settled,
        Goto, lockVars, sessionVars, cacheVars, histVars, lateVars, tornVars
<1>1. ASSUME NEW c \in Caller, Begin(c) PROVE LockInv'
  BY <1>1 DEF Begin
<1>2. ASSUME NEW c \in Caller, Read(c) PROVE LockInv'
  BY <1>2 DEF Read
<1>3. ASSUME NEW c \in Caller, Grant(c) PROVE LockInv'
  BY <1>3 DEF Grant
<1>4. ASSUME NEW c \in Caller, Load(c) PROVE LockInv'
  BY <1>4 DEF Load
<1>5. ASSUME NEW c \in Caller, LoadFails(c) PROVE LockInv'
  BY <1>5 DEF LoadFails
<1>6. ASSUME NEW c \in Caller, ReadFails(c) PROVE LockInv'
  BY <1>6 DEF ReadFails, ReleaseIfLive, Release
<1>7. ASSUME NEW c \in Caller, ReadBlank(c) PROVE LockInv'
  BY <1>7 DEF ReadBlank
<1>8. ASSUME NEW c \in Caller, ReadStore(c) PROVE LockInv'
  BY <1>8 DEF ReadStore
<1>9. ASSUME NEW c \in Caller, SaveCreated(c) PROVE LockInv'
  BY <1>9 DEF SaveCreated, SealObject
<1>10. ASSUME NEW c \in Caller, Seal(c) PROVE LockInv'
  BY <1>10 DEF Seal
<1>11. ASSUME NEW c \in Caller, Land(c) PROVE LockInv'
  BY <1>11 DEF Land
<1>12. ASSUME NEW c \in Caller, SaveFails(c) PROVE LockInv'
  BY <1>12 DEF SaveFails, ReleaseIfLive, Release
<1>13. ASSUME NEW c \in Caller, Put(c) PROVE LockInv'
  BY <1>13 DEF Put, PutWhen, SealObject
<1>14. ASSUME NEW c \in Caller, Close(c) PROVE LockInv'
  BY <1>14 DEF Close, Release
<1>15. ASSUME NEW c \in Caller, UseThrows(c) PROVE LockInv'
  BY <1>15 DEF UseThrows, ReleaseIfLive, Release
<1>16. ASSUME NEW c \in Caller, Abort(c) PROVE LockInv'
  BY <1>16 DEF Abort
<1>17. ASSUME NEW c \in Caller, LeaseEnds(c) PROVE LockInv'
  BY <1>17 DEF LeaseEnds, LeaseEndsWhen, Release
<1>18. CASE Logout
  BY <1>18 DEF Logout
<1>19. CASE Login
  BY <1>19 DEF Login
<1>20. CASE Wipe
  BY <1>20 DEF Wipe
<1>21. ASSUME NEW f \in Frame, FrameDies(f) PROVE LockInv'
  BY <1>21 DEF FrameDies
<1>22. CASE UNCHANGED vars
  BY <1>22 DEF vars
<1>. QED
  BY <1>1, <1>2, <1>3, <1>4, <1>5, <1>6, <1>7, <1>8, <1>9, <1>10, <1>11,
     <1>12, <1>13, <1>14, <1>15, <1>16, <1>17, <1>18, <1>19, <1>20, <1>21,
     <1>22
     DEF Next, Progress, Use, Timeout

(* Calls seal with the keys of the latest login. *)
LEMMA KeyStep ==
  ASSUME Orderly, TypeOK, KeyInv, [Next]_vars
  PROVE  KeyInv'
<1> USE ConstantsAssumption DEF Orderly, TypeOK, KeyInv, Readable, IsBlank, Quiet,
        Blank, Cipher, Busy, Opening, Writing, InUse, Settled,
        Goto, lockVars, sessionVars, cacheVars, histVars, lateVars, tornVars
<1>1. ASSUME NEW c \in Caller, Begin(c) PROVE KeyInv'
  BY SMTT(30), <1>1 DEF Begin
<1>2. ASSUME NEW c \in Caller, Read(c) PROVE KeyInv'
  BY <1>2 DEF Read
<1>3. ASSUME NEW c \in Caller, Grant(c) PROVE KeyInv'
  BY <1>3 DEF Grant
<1>4. ASSUME NEW c \in Caller, Load(c) PROVE KeyInv'
  BY <1>4 DEF Load
<1>5. ASSUME NEW c \in Caller, LoadFails(c) PROVE KeyInv'
  BY <1>5 DEF LoadFails
<1>6. ASSUME NEW c \in Caller, ReadFails(c) PROVE KeyInv'
  BY <1>6 DEF ReadFails, ReleaseIfLive, Release
<1>7. ASSUME NEW c \in Caller, ReadBlank(c) PROVE KeyInv'
  BY <1>7 DEF ReadBlank
<1>8. ASSUME NEW c \in Caller, ReadStore(c) PROVE KeyInv'
  BY <1>8 DEF ReadStore
<1>9. ASSUME NEW c \in Caller, SaveCreated(c) PROVE KeyInv'
  <2>1. /\ pc[c] = "create"
        /\ pc' = [pc EXCEPT ![c] = IF c \in live THEN "sealing" ELSE "failed"]
        /\ UNCHANGED <<session, epoch, storage, key>>
    BY <1>9 DEF SaveCreated, SealObject
  <2>2. c \notin live => sealed' = sealed
    BY <1>9 DEF SaveCreated
  <2>3. c \in live => sealed'[c].key = epoch
    BY <1>9 DEF SaveCreated, SealObject
  <2>4. \A e \in Caller \ {c} : sealed'[e] = sealed[e]
    BY <1>9 DEF SaveCreated, SealObject
  <2>5. \A e \in Caller \ {c} : pc'[e] = pc[e]
    BY <2>1
  <2>6. pc'[c] = IF c \in live THEN "sealing" ELSE "failed"
    BY <2>1
  <2>. QED
    BY <2>1, <2>2, <2>3, <2>4, <2>5, <2>6
<1>10. ASSUME NEW c \in Caller, Seal(c) PROVE KeyInv'
  BY <1>10 DEF Seal
<1>11. ASSUME NEW c \in Caller, Land(c) PROVE KeyInv'
  BY <1>11 DEF Land
<1>12. ASSUME NEW c \in Caller, SaveFails(c) PROVE KeyInv'
  BY <1>12 DEF SaveFails, ReleaseIfLive, Release
<1>13. ASSUME NEW c \in Caller, Put(c) PROVE KeyInv'
  <2>1. /\ pc[c] \in InUse
        /\ pc' = [pc EXCEPT ![c] = IF c \in live THEN "sealing" ELSE "failed"]
        /\ UNCHANGED <<session, epoch, storage, key>>
    BY <1>13 DEF Put, PutWhen, SealObject
  <2>2. c \notin live => sealed' = sealed
    BY <1>13 DEF Put, PutWhen
  <2>3. c \in live => sealed'[c].key = epoch
    BY <1>13 DEF Put, PutWhen, SealObject
  <2>4. \A e \in Caller \ {c} : sealed'[e] = sealed[e]
    BY <1>13 DEF Put, PutWhen, SealObject
  <2>5. \A e \in Caller \ {c} : pc'[e] = pc[e]
    BY <2>1
  <2>6. pc'[c] = IF c \in live THEN "sealing" ELSE "failed"
    BY <2>1
  <2>. QED
    BY <2>1, <2>2, <2>3, <2>4, <2>5, <2>6
<1>14. ASSUME NEW c \in Caller, Close(c) PROVE KeyInv'
  BY <1>14 DEF Close, Release
<1>15. ASSUME NEW c \in Caller, UseThrows(c) PROVE KeyInv'
  BY <1>15 DEF UseThrows, ReleaseIfLive, Release
<1>16. ASSUME NEW c \in Caller, Abort(c) PROVE KeyInv'
  BY <1>16 DEF Abort
<1>17. ASSUME NEW c \in Caller, LeaseEnds(c) PROVE KeyInv'
  BY <1>17 DEF LeaseEnds, LeaseEndsWhen, Release
<1>18. CASE Logout
  BY <1>18 DEF Logout
<1>19. CASE Login
  BY <1>19 DEF Login
<1>20. CASE Wipe
  BY <1>20 DEF Wipe
<1>21. ASSUME NEW f \in Frame, FrameDies(f) PROVE KeyInv'
  BY <1>21 DEF FrameDies
<1>22. CASE UNCHANGED vars
  BY <1>22 DEF vars
<1>. QED
  BY <1>1, <1>2, <1>3, <1>4, <1>5, <1>6, <1>7, <1>8, <1>9, <1>10, <1>11,
     <1>12, <1>13, <1>14, <1>15, <1>16, <1>17, <1>18, <1>19, <1>20, <1>21,
     <1>22
     DEF Next, Progress, Use, Timeout

(* A call that writes has a live entry, or its lease ended amid the write. *)
LEMMA PathStep ==
  ASSUME TypeOK, LockInv, PathInv, [Next]_vars
  PROVE  PathInv'
<1> USE ConstantsAssumption DEF TypeOK, LockInv, Exclusive, PathInv,
        Busy, Opening, Writing, InUse, Settled,
        Goto, lockVars, sessionVars, cacheVars, histVars, lateVars, tornVars
<1>1. ASSUME NEW c \in Caller, Begin(c) PROVE PathInv'
  BY <1>1 DEF Begin
<1>2. ASSUME NEW c \in Caller, Read(c) PROVE PathInv'
  BY <1>2 DEF Read
<1>3. ASSUME NEW c \in Caller, Grant(c) PROVE PathInv'
  BY <1>3 DEF Grant
<1>4. ASSUME NEW c \in Caller, Load(c) PROVE PathInv'
  BY <1>4 DEF Load
<1>5. ASSUME NEW c \in Caller, LoadFails(c) PROVE PathInv'
  BY <1>5 DEF LoadFails
<1>6. ASSUME NEW c \in Caller, ReadFails(c) PROVE PathInv'
  BY <1>6 DEF ReadFails, ReleaseIfLive, Release
<1>7. ASSUME NEW c \in Caller, ReadBlank(c) PROVE PathInv'
  BY <1>7 DEF ReadBlank
<1>8. ASSUME NEW c \in Caller, ReadStore(c) PROVE PathInv'
  BY <1>8 DEF ReadStore
<1>9. ASSUME NEW c \in Caller, SaveCreated(c) PROVE PathInv'
  BY <1>9 DEF SaveCreated, SealObject
<1>10. ASSUME NEW c \in Caller, Seal(c) PROVE PathInv'
  BY <1>10 DEF Seal
<1>11. ASSUME NEW c \in Caller, Land(c) PROVE PathInv'
  BY <1>11 DEF Land
<1>12. ASSUME NEW c \in Caller, SaveFails(c) PROVE PathInv'
  BY <1>12 DEF SaveFails, ReleaseIfLive, Release
<1>13. ASSUME NEW c \in Caller, Put(c) PROVE PathInv'
  BY <1>13 DEF Put, PutWhen, SealObject
<1>14. ASSUME NEW c \in Caller, Close(c) PROVE PathInv'
  BY <1>14 DEF Close, Release
<1>15. ASSUME NEW c \in Caller, UseThrows(c) PROVE PathInv'
  BY <1>15 DEF UseThrows, ReleaseIfLive, Release
<1>16. ASSUME NEW c \in Caller, Abort(c) PROVE PathInv'
  BY <1>16 DEF Abort
<1>17. ASSUME NEW c \in Caller, LeaseEnds(c) PROVE PathInv'
  BY <1>17 DEF LeaseEnds, LeaseEndsWhen, Release
<1>18. CASE Logout
  BY <1>18 DEF Logout
<1>19. CASE Login
  BY <1>19 DEF Login
<1>20. CASE Wipe
  BY <1>20 DEF Wipe
<1>21. ASSUME NEW f \in Frame, FrameDies(f) PROVE PathInv'
  BY <1>21 DEF FrameDies
<1>22. CASE UNCHANGED vars
  BY <1>22 DEF vars
<1>. QED
  BY <1>1, <1>2, <1>3, <1>4, <1>5, <1>6, <1>7, <1>8, <1>9, <1>10, <1>11,
     <1>12, <1>13, <1>14, <1>15, <1>16, <1>17, <1>18, <1>19, <1>20, <1>21,
     <1>22
     DEF Next, Progress, Use, Timeout

(* What a call holds stays no older than what is stored. *)
LEMMA HeldStep ==
  ASSUME Orderly, TypeOK, LockInv, PathInv, KeyInv, HeldInv, [Next]_vars
  PROVE  HeldInv'
<1> USE ConstantsAssumption DEF Orderly, TypeOK, LockInv, Exclusive, PathInv, KeyInv,
        HeldInv, NoStaleObject, Object, Quiet, Readable, IsBlank, Blank, Cipher,
        Busy, Opening, Writing, InUse, Settled,
        Goto, lockVars, sessionVars, cacheVars, histVars, lateVars, tornVars
<1>1. ASSUME NEW c \in Caller, Begin(c) PROVE HeldInv'
  <2>1. \A e \in live : e # c /\ pc'[e] = pc[e]
    BY <1>1 DEF Begin
  <2>. QED
    BY <1>1, <2>1 DEF Begin
<1>2. ASSUME NEW c \in Caller, Read(c) PROVE HeldInv'
  BY <1>2 DEF Read
<1>3. ASSUME NEW c \in Caller, Grant(c) PROVE HeldInv'
  BY <1>3 DEF Grant
<1>4. ASSUME NEW c \in Caller, Load(c) PROVE HeldInv'
  BY <1>4 DEF Load
<1>5. ASSUME NEW c \in Caller, LoadFails(c) PROVE HeldInv'
  BY <1>5 DEF LoadFails
<1>6. ASSUME NEW c \in Caller, ReadFails(c) PROVE HeldInv'
  BY <1>6 DEF ReadFails, ReleaseIfLive, Release
<1>7. ASSUME NEW c \in Caller, ReadBlank(c) PROVE HeldInv'
  BY <1>7 DEF ReadBlank
<1>8. ASSUME NEW c \in Caller, ReadStore(c) PROVE HeldInv'
  BY <1>8 DEF ReadStore
<1>9. ASSUME NEW c \in Caller, SaveCreated(c) PROVE HeldInv'
  BY <1>9 DEF SaveCreated, SealObject
<1>10. ASSUME NEW c \in Caller, Seal(c) PROVE HeldInv'
  BY <1>10 DEF Seal
<1>11. ASSUME NEW c \in Caller, Land(c) PROVE HeldInv'
  BY <1>11 DEF Land
<1>12. ASSUME NEW c \in Caller, SaveFails(c) PROVE HeldInv'
  BY <1>12 DEF SaveFails, ReleaseIfLive, Release
<1>13. ASSUME NEW c \in Caller, Put(c) PROVE HeldInv'
  <2> DEFINE data == Object(c) \union {c}
  <2>1. Object(c)' = data
    BY <1>13 DEF Put, PutWhen
  <2>2. \A e \in Caller : Object(e) \subseteq Object(e)'
    <3>1. CASE c \in aliased
      BY SMTT(30), <1>13, <3>1 DEF Put, PutWhen
    <3>2. CASE c \notin aliased
      <4>1. /\ cache' = [cache EXCEPT ![c] = cache[c] \union {c}]
            /\ default' = default /\ aliased' = aliased
        BY <1>13, <3>2 DEF Put, PutWhen
      <4>2. cache \in [Caller -> SUBSET Caller]
        OBVIOUS
      <4>. QED
        BY <4>1, <4>2
    <3>. QED
      BY <3>1, <3>2
  <2>3. c \in live => /\ sealed'[c].data = data
                      /\ \A e \in Caller \ {c} : sealed'[e] = sealed[e]
    BY <1>13 DEF Put, PutWhen, SealObject
  <2>4. c \notin live => sealed' = sealed
    BY <1>13 DEF Put, PutWhen
  <2>5. /\ pc'[c] = IF c \in live THEN "sealing" ELSE "failed"
        /\ \A e \in Caller \ {c} : pc'[e] = pc[e]
        /\ live' = live /\ storage' = storage /\ entry' = entry
        /\ creating' = creating /\ torn' = torn /\ crossed' = crossed
    BY <1>13 DEF Put, PutWhen
  <2>6. c \in live \ crossed => storage.data \subseteq data
    BY <1>13 DEF Put, PutWhen
  <2>. HIDE DEF data, Object
  <2>7. NoStaleObject'
    BY <2>2, <2>5
  <2>8. c \in data
    BY DEF data
  <2>. QED
    BY <2>1, <2>2, <2>3, <2>4, <2>5, <2>6, <2>7, <2>8
<1>14. ASSUME NEW c \in Caller, Close(c) PROVE HeldInv'
  BY <1>14 DEF Close, Release
<1>15. ASSUME NEW c \in Caller, UseThrows(c) PROVE HeldInv'
  BY <1>15 DEF UseThrows, ReleaseIfLive, Release
<1>16. ASSUME NEW c \in Caller, Abort(c) PROVE HeldInv'
  BY <1>16 DEF Abort
<1>17. ASSUME NEW c \in Caller, LeaseEnds(c) PROVE HeldInv'
  BY <1>17 DEF LeaseEnds, LeaseEndsWhen, Release
<1>18. CASE Logout
  BY <1>18 DEF Logout
<1>19. CASE Login
  BY <1>19 DEF Login
<1>20. CASE Wipe
  BY <1>20 DEF Wipe
<1>21. ASSUME NEW f \in Frame, FrameDies(f) PROVE HeldInv'
  BY <1>21 DEF FrameDies
<1>22. CASE UNCHANGED vars
  BY <1>22 DEF vars
<1>. QED
  BY <1>1, <1>2, <1>3, <1>4, <1>5, <1>6, <1>7, <1>8, <1>9, <1>10, <1>11,
     <1>12, <1>13, <1>14, <1>15, <1>16, <1>17, <1>18, <1>19, <1>20, <1>21,
     <1>22
     DEF Next, Progress, Use, Timeout

(* What has been acknowledged stays stored. *)
LEMMA AckStep ==
  ASSUME Orderly, TypeOK, LockInv, PathInv, KeyInv, HeldInv, AckInv, [Next]_vars
  PROVE  AckInv'
<1> USE ConstantsAssumption DEF Orderly, TypeOK, LockInv, Exclusive, PathInv,
        KeyInv, HeldInv, AckInv, Readable, Quiet, IsBlank, Blank,
        Busy, Opening, Writing, InUse, Settled,
        Goto, lockVars, sessionVars, cacheVars, histVars, lateVars, tornVars
<1>1. ASSUME NEW c \in Caller, Begin(c) PROVE AckInv'
  BY <1>1 DEF Begin
<1>2. ASSUME NEW c \in Caller, Read(c) PROVE AckInv'
  BY <1>2 DEF Read
<1>3. ASSUME NEW c \in Caller, Grant(c) PROVE AckInv'
  BY <1>3 DEF Grant
<1>4. ASSUME NEW c \in Caller, Load(c) PROVE AckInv'
  BY <1>4 DEF Load
<1>5. ASSUME NEW c \in Caller, LoadFails(c) PROVE AckInv'
  BY <1>5 DEF LoadFails
<1>6. ASSUME NEW c \in Caller, ReadFails(c) PROVE AckInv'
  BY <1>6 DEF ReadFails, ReleaseIfLive, Release
<1>7. ASSUME NEW c \in Caller, ReadBlank(c) PROVE AckInv'
  BY <1>7 DEF ReadBlank
<1>8. ASSUME NEW c \in Caller, ReadStore(c) PROVE AckInv'
  BY <1>8 DEF ReadStore
<1>9. ASSUME NEW c \in Caller, SaveCreated(c) PROVE AckInv'
  BY <1>9 DEF SaveCreated, SealObject
<1>10. ASSUME NEW c \in Caller, Seal(c) PROVE AckInv'
  BY <1>10 DEF Seal
<1>11. ASSUME NEW c \in Caller, Land(c) PROVE AckInv'
  BY <1>11 DEF Land
<1>12. ASSUME NEW c \in Caller, SaveFails(c) PROVE AckInv'
  BY <1>12 DEF SaveFails, ReleaseIfLive, Release
<1>13. ASSUME NEW c \in Caller, Put(c) PROVE AckInv'
  BY <1>13 DEF Put, PutWhen, SealObject
<1>14. ASSUME NEW c \in Caller, Close(c) PROVE AckInv'
  BY <1>14 DEF Close, Release
<1>15. ASSUME NEW c \in Caller, UseThrows(c) PROVE AckInv'
  BY <1>15 DEF UseThrows, ReleaseIfLive, Release
<1>16. ASSUME NEW c \in Caller, Abort(c) PROVE AckInv'
  BY <1>16 DEF Abort
<1>17. ASSUME NEW c \in Caller, LeaseEnds(c) PROVE AckInv'
  BY <1>17 DEF LeaseEnds, LeaseEndsWhen, Release
<1>18. CASE Logout
  BY <1>18 DEF Logout
<1>19. CASE Login
  <2>1. storage'.data = storage.data
    <3>1. CASE storage = Blank
      BY <1>19, <3>1 DEF Login
    <3>2. CASE storage # Blank
      BY <1>19, <3>2 DEF Login
    <3>. QED
      BY <3>1, <3>2
  <2>. QED
    BY <1>19, <2>1 DEF Login
<1>20. CASE Wipe
  BY <1>20 DEF Wipe
<1>21. ASSUME NEW f \in Frame, FrameDies(f) PROVE AckInv'
  BY <1>21 DEF FrameDies
<1>22. CASE UNCHANGED vars
  BY <1>22 DEF vars
<1>. QED
  BY <1>1, <1>2, <1>3, <1>4, <1>5, <1>6, <1>7, <1>8, <1>9, <1>10, <1>11,
     <1>12, <1>13, <1>14, <1>15, <1>16, <1>17, <1>18, <1>19, <1>20, <1>21,
     <1>22
     DEF Next, Progress, Use, Timeout
-----------------------------------------------------------------------------
(* No store is open in the initial state, so it satisfies the invariant.     *)
LEMMA InvInit == Init => LockInv /\ IInv
  BY ConstantsAssumption DEF Init, IInv, LockInv, Exclusive, KeyInv, PathInv,
     HeldInv, NoStaleObject, AckInv, Blank, Readable, Busy, Opening, Writing,
     InUse

(* Mutual exclusion, under no assumption on timing: at most one call at a time
   loads the store or holds an entry that write() accepts (vault.ts:603).    *)
THEOREM LockIsExclusive == Spec => []Exclusive
<1>1. TypeOK /\ LockInv /\ [Next]_vars => LockInv'
  BY LockStep
<1>2. LockInv => Exclusive
  BY DEF LockInv
<1>. QED
  BY <1>1, <1>2, TypeCorrect, InvInit, PTL DEF Spec

(* The inductive invariant holds when writes end within their leases and no
   login or wipe comes while a store is open.                                *)
THEOREM Invariance == ASSUME Orderly PROVE Spec => []IInv
<1>1. TypeOK /\ IInv /\ [Next]_vars => IInv'
  BY Orderly, LockStep, KeyStep, PathStep, HeldStep, AckStep DEF IInv
<1>. QED
  BY <1>1, TypeCorrect, InvInit, PTL DEF Spec

(* What open() has acknowledged stays in the store, readable with the keys of
   the latest login.                                                         *)
THEOREM AcknowledgedStays == ASSUME Orderly PROVE Spec => []AckedDurable
<1>1. IInv => AckedDurable
  BY DEF IInv, KeyInv, AckInv, AckedDurable, Blank, IsBlank
<1>. QED
  BY <1>1, Invariance, PTL

(* No call that can still save holds an object older than the store.         *)
THEOREM ObjectsAreFresh == ASSUME Orderly PROVE Spec => []NoStaleObject
<1>1. IInv => NoStaleObject
  BY DEF IInv, HeldInv
<1>. QED
  BY <1>1, Invariance, PTL

(* No ciphertext is made with the key 0 of a locked session.                 *)
SealedInv ==
  /\ storage.key = 0 => storage = Blank
  /\ \A c \in Caller : pc[c] \in Busy => key[c] # 0
  /\ \A c \in Caller : pc[c] \in Writing => sealed[c].key # 0

(* Every step keeps it so.                                                   *)
LEMMA SealedStep ==
  ASSUME TypeOK, SealedInv, [Next]_vars
  PROVE  SealedInv'
<1> USE ConstantsAssumption DEF TypeOK, SealedInv, Blank, Cipher, Busy, Opening,
        Writing, InUse, Settled,
        Goto, lockVars, sessionVars, cacheVars, histVars, lateVars, tornVars
<1>1. ASSUME NEW c \in Caller, Begin(c) PROVE SealedInv'
  BY <1>1 DEF Begin
<1>2. ASSUME NEW c \in Caller, Read(c) PROVE SealedInv'
  BY <1>2 DEF Read
<1>3. ASSUME NEW c \in Caller, Grant(c) PROVE SealedInv'
  BY <1>3 DEF Grant
<1>4. ASSUME NEW c \in Caller, Load(c) PROVE SealedInv'
  BY <1>4 DEF Load
<1>5. ASSUME NEW c \in Caller, LoadFails(c) PROVE SealedInv'
  BY <1>5 DEF LoadFails
<1>6. ASSUME NEW c \in Caller, ReadFails(c) PROVE SealedInv'
  BY <1>6 DEF ReadFails, ReleaseIfLive, Release
<1>7. ASSUME NEW c \in Caller, ReadBlank(c) PROVE SealedInv'
  BY <1>7 DEF ReadBlank
<1>8. ASSUME NEW c \in Caller, ReadStore(c) PROVE SealedInv'
  BY <1>8 DEF ReadStore
<1>9. ASSUME NEW c \in Caller, SaveCreated(c) PROVE SealedInv'
  BY <1>9 DEF SaveCreated, SealObject
<1>10. ASSUME NEW c \in Caller, Seal(c) PROVE SealedInv'
  BY <1>10 DEF Seal
<1>11. ASSUME NEW c \in Caller, Land(c) PROVE SealedInv'
  BY <1>11 DEF Land
<1>12. ASSUME NEW c \in Caller, SaveFails(c) PROVE SealedInv'
  BY <1>12 DEF SaveFails, ReleaseIfLive, Release
<1>13. ASSUME NEW c \in Caller, Put(c) PROVE SealedInv'
  <2>1. /\ pc[c] \in InUse
        /\ pc' = [pc EXCEPT ![c] = IF c \in live THEN "sealing" ELSE "failed"]
        /\ UNCHANGED <<storage, key>>
    BY <1>13 DEF Put, PutWhen
  <2>2. c \notin live => sealed' = sealed
    BY <1>13 DEF Put, PutWhen
  <2>3. c \in live => sealed'[c].key = key[c]
    BY <1>13 DEF Put, PutWhen, SealObject
  <2>4. \A e \in Caller \ {c} : sealed'[e] = sealed[e]
    BY <1>13 DEF Put, PutWhen, SealObject
  <2>5. \A e \in Caller \ {c} : pc'[e] = pc[e]
    BY <2>1
  <2>6. pc'[c] = IF c \in live THEN "sealing" ELSE "failed"
    BY <2>1
  <2>. QED
    BY <2>1, <2>2, <2>3, <2>4, <2>5, <2>6
<1>14. ASSUME NEW c \in Caller, Close(c) PROVE SealedInv'
  BY <1>14 DEF Close, Release
<1>15. ASSUME NEW c \in Caller, UseThrows(c) PROVE SealedInv'
  BY <1>15 DEF UseThrows, ReleaseIfLive, Release
<1>16. ASSUME NEW c \in Caller, Abort(c) PROVE SealedInv'
  BY <1>16 DEF Abort
<1>17. ASSUME NEW c \in Caller, LeaseEnds(c) PROVE SealedInv'
  BY <1>17 DEF LeaseEnds, LeaseEndsWhen, Release
<1>18. CASE Logout
  BY <1>18 DEF Logout
<1>19. CASE Login
  BY <1>19 DEF Login
<1>20. CASE Wipe
  BY <1>20 DEF Wipe
<1>21. ASSUME NEW f \in Frame, FrameDies(f) PROVE SealedInv'
  BY <1>21 DEF FrameDies
<1>22. CASE UNCHANGED vars
  BY <1>22 DEF vars
<1>. QED
  BY <1>1, <1>2, <1>3, <1>4, <1>5, <1>6, <1>7, <1>8, <1>9, <1>10, <1>11,
     <1>12, <1>13, <1>14, <1>15, <1>16, <1>17, <1>18, <1>19, <1>20, <1>21,
     <1>22
     DEF Next, Progress, Use, Timeout

(* Under no assumption, the content of the store is written by the lock's
   holder, by a call whose lease ended amid that very write, or wiped.       *)
THEOREM WritesAreFenced == Spec => WritesFenced
<1> DEFINE Inv == LockInv /\ PathInv /\ SealedInv
<1>1. Init => Inv
  BY InvInit, ConstantsAssumption DEF IInv, Init, SealedInv, Blank, Busy, Opening,
     Writing, InUse
<1>2. TypeOK /\ Inv /\ [Next]_vars => Inv'
  BY LockStep, PathStep, SealedStep
<1>3. ASSUME TypeOK, Inv, [Next]_vars PROVE LockedOrOverdue
  <2> USE DEF LockedOrOverdue
  <2>1. ASSUME NEW c \in Caller, Land(c) PROVE LockedOrOverdue
    <3>1. c \in live \/ c \in overdue
      BY <1>3, <2>1 DEF Land, PathInv, Writing
    <3>2. holder = c \/ c \in overdue
      BY <1>3, <3>1 DEF LockInv, Exclusive
    <3>. QED
      BY <2>1, <3>2 DEF Land
  <2>2. CASE Login
    <3>1. IsBlank(storage) => storage = Blank
      BY <1>3 DEF SealedInv, IsBlank
    <3>2. storage'.data = storage.data
      BY <2>2, <3>1 DEF Login, IsBlank, Blank
    <3>. QED
      BY <3>2
  <2>3. CASE Wipe
    BY <2>3 DEF Wipe
  <2>4. CASE UNCHANGED storage
    BY <2>4
  <2>5. \/ \E c \in Caller : Land(c)
        \/ Login \/ Wipe \/ UNCHANGED storage
    BY <1>3 DEF Next, Progress, Use, Timeout, vars, Begin, Read, Grant, Load,
       LoadFails, ReadFails, ReadBlank, ReadStore, SaveCreated, Seal,
       SaveFails, Put, PutWhen, Close, UseThrows, Abort, LeaseEnds, LeaseEndsWhen,
       Logout, FrameDies
  <2>. QED
    BY <2>1, <2>2, <2>3, <2>4, <2>5
<1>4. TypeOK /\ Inv /\ [Next]_vars => [LockedOrOverdue]_vars
  BY <1>3
<1>. QED
  BY <1>1, <1>2, <1>4, TypeCorrect, PTL DEF Spec, WritesFenced

-----------------------------------------------------------------------------
(* Whatever a call or a frame can still write was put since the last wipe, or
   is a relic; a default object holds items of its own frame's calls only.   *)
GhostInv ==
  /\ OnlyRelicsReturn
  /\ \A f \in Frame : default[f] \subseteq updates \union relics
  /\ \A f \in Frame : \A c \in default[f] : c \in aliased /\ FrameOf[c] = f
  /\ \A c \in Caller :
       /\ pc[c] = "create" => c \in aliased
       /\ pc[c] \in InUse \union Writing =>
            c \in aliased \/ cache[c] \subseteq updates \union relics
       /\ pc[c] = "opened" => entry[c].data \subseteq updates \union relics
       /\ pc[c] \in Writing => sealed[c].data \subseteq updates \union relics

(* Every step keeps it so, also when a write outlives its lease.             *)
LEMMA GhostStep ==
  ASSUME Orderly, TypeOK, GhostInv, [Next]_vars
  PROVE  GhostInv'
<1> USE ConstantsAssumption DEF Orderly, TypeOK, GhostInv, OnlyRelicsReturn, Quiet, Blank, Cipher,
        Busy, Opening, Writing, InUse, Settled,
        Goto, lockVars, sessionVars, cacheVars, histVars, lateVars, tornVars
<1>1. ASSUME NEW c \in Caller, Begin(c) PROVE GhostInv'
  <2>1. /\ UNCHANGED <<storage, entry, sealed, aliased, default, cache, updates, relics>>
        /\ \A e \in Caller : pc'[e] = pc[e] \/ pc'[e] \in {"failed", "queued"}
    BY <1>1 DEF Begin
  <2>. HIDE DEF TypeOK, Cipher, Blank
  <2>. QED
    BY <2>1
<1>2. ASSUME NEW c \in Caller, Read(c) PROVE GhostInv'
  BY <1>2 DEF Read
<1>3. ASSUME NEW c \in Caller, Grant(c) PROVE GhostInv'
  BY <1>3 DEF Grant
<1>4. ASSUME NEW c \in Caller, Load(c) PROVE GhostInv'
  BY <1>4 DEF Load
<1>5. ASSUME NEW c \in Caller, LoadFails(c) PROVE GhostInv'
  BY <1>5 DEF LoadFails
<1>6. ASSUME NEW c \in Caller, ReadFails(c) PROVE GhostInv'
  BY <1>6 DEF ReadFails, ReleaseIfLive, Release
<1>7. ASSUME NEW c \in Caller, ReadBlank(c) PROVE GhostInv'
  BY <1>7 DEF ReadBlank
<1>8. ASSUME NEW c \in Caller, ReadStore(c) PROVE GhostInv'
  BY <1>8 DEF ReadStore
<1>9. ASSUME NEW c \in Caller, SaveCreated(c) PROVE GhostInv'
  <2>1. /\ c \in aliased /\ pc[c] = "create"
        /\ UNCHANGED <<storage, entry, aliased, default, cache, updates, relics>>
        /\ \A e \in Caller \ {c} : pc'[e] = pc[e] /\ sealed'[e] = sealed[e]
    BY <1>9 DEF SaveCreated, SealObject
  <2>2. pc'[c] \in {"sealing", "failed"}
    BY <1>9 DEF SaveCreated
  <2>3. pc'[c] = "sealing" => sealed'[c].data \subseteq updates \union relics
    BY <1>9, <2>1 DEF SaveCreated, SealObject, Object
  <2>. QED
    BY <2>1, <2>2, <2>3
<1>10. ASSUME NEW c \in Caller, Seal(c) PROVE GhostInv'
  BY <1>10 DEF Seal
<1>11. ASSUME NEW c \in Caller, Land(c) PROVE GhostInv'
  BY <1>11 DEF Land
<1>12. ASSUME NEW c \in Caller, SaveFails(c) PROVE GhostInv'
  BY <1>12 DEF SaveFails, ReleaseIfLive, Release
<1>13. ASSUME NEW c \in Caller, Put(c) PROVE GhostInv'
  <2>1. Object(c) \subseteq updates \union relics
    BY <1>13 DEF Put, PutWhen, Object
  <2>2. /\ UNCHANGED <<storage, entry, aliased>>
        /\ updates' = updates \union {c} /\ relics' = relics
        /\ \A f \in Frame : default'[f] \subseteq default[f] \union Object(c) \union {c}
        /\ \A e \in Caller : cache'[e] \subseteq cache[e] \union Object(c) \union {c}
        /\ \A e \in Caller : sealed'[e].data \subseteq sealed[e].data \union Object(c) \union {c}
    <3> DEFINE data == Object(c) \union {c}
    <3>1. /\ default' = default \/ default' = [default EXCEPT ![FrameOf[c]] = data]
          /\ cache' = cache \/ cache' = [cache EXCEPT ![c] = data]
          /\ \/ sealed' = sealed
             \/ sealed' = [sealed EXCEPT ![c] = [key |-> key[c], vec |-> 0, data |-> data]]
      BY <1>13 DEF Put, PutWhen, SealObject
    <3>. HIDE DEF data, TypeOK
    <3>0. /\ default \in [Frame -> SUBSET Caller] /\ cache \in [Caller -> SUBSET Caller]
          /\ sealed \in [Caller -> Cipher]
      BY DEF TypeOK
    <3>2. \A f \in Frame : default'[f] \subseteq default[f] \union data
      BY <3>0, <3>1
    <3>3. \A e \in Caller : cache'[e] \subseteq cache[e] \union data
      BY <3>0, <3>1
    <3>4. \A e \in Caller : sealed'[e].data \subseteq sealed[e].data \union data
      <4>1. CASE sealed' = sealed
        BY <4>1
      <4>2. CASE sealed' = [sealed EXCEPT ![c] = [key |-> key[c], vec |-> 0, data |-> data]]
        <5>1. sealed'[c].data = data /\ \A e \in Caller \ {c} : sealed'[e] = sealed[e]
          BY <3>0, <4>2
        <5>. QED
          BY <5>1
      <4>. QED
        BY <3>1, <4>1, <4>2
    <3>5. UNCHANGED <<storage, entry, aliased>> /\ updates' = updates \union {c} /\ relics' = relics
      BY <1>13 DEF Put, PutWhen
    <3>. QED
      BY <3>2, <3>3, <3>4, <3>5 DEF data
  <2>3. /\ pc[c] \in InUse
        /\ \A e \in Caller : pc'[e] = pc[e] \/ (e = c /\ pc'[e] \in {"sealing", "failed"})
    BY <1>13 DEF Put, PutWhen
  <2>4. pc'[c] = "sealing" => sealed'[c].data \subseteq updates \union relics \union {c}
    BY <1>13, <2>1 DEF Put, PutWhen, SealObject
  <2>5. \A f \in Frame : \A e \in default'[f] : e \in aliased /\ FrameOf[e] = f
    <3>1. CASE c \in aliased
      <4>1. default' = [default EXCEPT ![FrameOf[c]] = default[FrameOf[c]] \union {c}]
        BY <1>13, <3>1 DEF Put, PutWhen, Object
      <4>2. FrameOf[c] \in Frame /\ default \in [Frame -> SUBSET Caller]
        OBVIOUS
      <4>. QED
        BY <3>1, <4>1, <4>2
    <3>2. CASE c \notin aliased
      BY <1>13, <3>2 DEF Put, PutWhen
    <3>. QED
      BY <3>1, <3>2
  <2>. HIDE DEF TypeOK, Cipher, Blank
  <2>. QED
    BY <2>1, <2>2, <2>3, <2>4, <2>5
<1>14. ASSUME NEW c \in Caller, Close(c) PROVE GhostInv'
  BY <1>14 DEF Close, Release
<1>15. ASSUME NEW c \in Caller, UseThrows(c) PROVE GhostInv'
  BY <1>15 DEF UseThrows, ReleaseIfLive, Release
<1>16. ASSUME NEW c \in Caller, Abort(c) PROVE GhostInv'
  BY <1>16 DEF Abort
<1>17. ASSUME NEW c \in Caller, LeaseEnds(c) PROVE GhostInv'
  BY <1>17 DEF LeaseEnds, LeaseEndsWhen, Release
<1>18. CASE Logout
  BY <1>18 DEF Logout
<1>19. CASE Login
  BY <1>19 DEF Login
<1>20. CASE Wipe
  BY <1>20 DEF Wipe
<1>21. ASSUME NEW f \in Frame, FrameDies(f) PROVE GhostInv'
  BY <1>21 DEF FrameDies
<1>22. CASE UNCHANGED vars
  BY <1>22 DEF vars
<1>. QED
  BY <1>1, <1>2, <1>3, <1>4, <1>5, <1>6, <1>7, <1>8, <1>9, <1>10, <1>11,
     <1>12, <1>13, <1>14, <1>15, <1>16, <1>17, <1>18, <1>19, <1>20, <1>21,
     <1>22
     DEF Next, Progress, Use, Timeout

-----------------------------------------------------------------------------
(* The call may yet change the default object of its frame for good.         *)
Shapes(c) == pc[c] \in InUse \/ (pc[c] \in Writing /\ c \in live)

(* A store is created with relics only; between two wipes one call creates it,
   and only its object can be the default object of a frame.                 *)
CreatorInv ==
  /\ creating \subseteq aliased
  /\ storage = Blank => \A f \in Frame : default[f] \subseteq relics
  /\ \A c \in aliased : pc[c] \in InUse => storage # Blank /\ c \notin creating
  /\ ~torn =>
       /\ \A c \in aliased \intersect live :
            pc[c] \in Writing => (storage = Blank <=> c \in creating)
       /\ \A c \in aliased, o \in aliased : Shapes(c) /\ Shapes(o) => c = o

(* What a call that can still save holds is what is stored, and what it writes
   adds nothing but its own item, or relics to a store it creates.           *)
ExactInv ==
  ~torn =>
  \A c \in live :
    /\ pc[c] \in InUse => Object(c) \subseteq storage.data
    /\ pc[c] \in Writing =>
         /\ Object(c) \subseteq sealed[c].data
         /\ c \in creating => sealed[c].data \subseteq relics
         /\ c \notin creating => sealed[c].data \subseteq storage.data \union {c}

(* Every step keeps one creator.                                             *)
LEMMA CreatorStep ==
  ASSUME Orderly, TypeOK, LockInv, PathInv, KeyInv, HeldInv, GhostInv, CreatorInv,
         [Next]_vars
  PROVE  CreatorInv'
<1> USE ConstantsAssumption DEF Orderly, TypeOK, LockInv, Exclusive, PathInv, KeyInv,
        HeldInv, CreatorInv, Shapes, Quiet, Readable, IsBlank, Blank,
        Busy, Opening, Writing, InUse, Settled,
        Goto, lockVars, sessionVars, cacheVars, histVars, lateVars, tornVars
<1>1. ASSUME NEW c \in Caller, Begin(c) PROVE CreatorInv'
  BY <1>1 DEF Begin
<1>2. ASSUME NEW c \in Caller, Read(c) PROVE CreatorInv'
  BY <1>2 DEF Read
<1>3. ASSUME NEW c \in Caller, Grant(c) PROVE CreatorInv'
  BY <1>3 DEF Grant
<1>4. ASSUME NEW c \in Caller, Load(c) PROVE CreatorInv'
  BY <1>4 DEF Load
<1>5. ASSUME NEW c \in Caller, LoadFails(c) PROVE CreatorInv'
  BY <1>5 DEF LoadFails
<1>6. ASSUME NEW c \in Caller, ReadFails(c) PROVE CreatorInv'
  BY <1>6 DEF ReadFails, ReleaseIfLive, Release
<1>7. ASSUME NEW c \in Caller, ReadBlank(c) PROVE CreatorInv'
  BY <1>7 DEF ReadBlank
<1>8. ASSUME NEW c \in Caller, ReadStore(c) PROVE CreatorInv'
  BY <1>8 DEF ReadStore
<1>9. ASSUME NEW c \in Caller, SaveCreated(c) PROVE CreatorInv'
  BY <1>9 DEF SaveCreated, SealObject, Object
<1>10. ASSUME NEW c \in Caller, Seal(c) PROVE CreatorInv'
  BY <1>10 DEF Seal
<1>11. ASSUME NEW c \in Caller, Land(c) PROVE CreatorInv'
  BY <1>11 DEF Land
<1>12. ASSUME NEW c \in Caller, SaveFails(c) PROVE CreatorInv'
  BY <1>12 DEF SaveFails, ReleaseIfLive, Release
<1>13. ASSUME NEW c \in Caller, Put(c) PROVE CreatorInv'
  BY <1>13 DEF Put, PutWhen, SealObject
<1>14. ASSUME NEW c \in Caller, Close(c) PROVE CreatorInv'
  BY <1>14 DEF Close, Release
<1>15. ASSUME NEW c \in Caller, UseThrows(c) PROVE CreatorInv'
  BY <1>15 DEF UseThrows, ReleaseIfLive, Release
<1>16. ASSUME NEW c \in Caller, Abort(c) PROVE CreatorInv'
  BY <1>16 DEF Abort
<1>17. ASSUME NEW c \in Caller, LeaseEnds(c) PROVE CreatorInv'
  BY <1>17 DEF LeaseEnds, LeaseEndsWhen, Release
<1>18. CASE Logout
  BY <1>18 DEF Logout
<1>19. CASE Login
  BY <1>19 DEF Login
<1>20. CASE Wipe
  <2>1. \A f \in Frame : default'[f] \subseteq relics'
    <3>1. \A f \in Frame : \A c \in default[f] :
            c \in aliased /\ c \in default[FrameOf[c]]
      BY DEF GhostInv
    <3>2. \A f \in Frame : default[f] \subseteq relics'
      BY <1>20, <3>1 DEF Wipe
    <3>3. default' = default \/ default' = [f \in Frame |-> {}]
      BY <1>20 DEF Wipe
    <3>. QED
      BY <3>2, <3>3
  <2>2. /\ UNCHANGED <<pc, creating, aliased, live>>
        /\ \A c \in Caller : pc[c] \notin InUse \union Writing
    BY <1>20 DEF Wipe
  <2>. QED
    BY <2>1, <2>2
<1>21. ASSUME NEW f \in Frame, FrameDies(f) PROVE CreatorInv'
  BY <1>21 DEF FrameDies
<1>22. CASE UNCHANGED vars
  BY <1>22 DEF vars
<1>. QED
  BY <1>1, <1>2, <1>3, <1>4, <1>5, <1>6, <1>7, <1>8, <1>9, <1>10, <1>11,
     <1>12, <1>13, <1>14, <1>15, <1>16, <1>17, <1>18, <1>19, <1>20, <1>21,
     <1>22
     DEF Next, Progress, Use, Timeout

(* Every step keeps the objects exact.                                       *)
LEMMA ExactStep ==
  ASSUME Orderly, TypeOK, LockInv, PathInv, KeyInv, HeldInv, GhostInv, CreatorInv,
         ExactInv, [Next]_vars
  PROVE  ExactInv'
<1> USE ConstantsAssumption DEF Orderly, TypeOK, LockInv, Exclusive, PathInv,
        HeldInv, CreatorInv, Shapes, ExactInv, Object, Quiet, Blank,
        Busy, Opening, Writing, InUse, Settled,
        Goto, lockVars, sessionVars, cacheVars, histVars, lateVars, tornVars
<1>1. ASSUME NEW c \in Caller, Begin(c) PROVE ExactInv'
  BY <1>1 DEF Begin
<1>2. ASSUME NEW c \in Caller, Read(c) PROVE ExactInv'
  BY <1>2 DEF Read
<1>3. ASSUME NEW c \in Caller, Grant(c) PROVE ExactInv'
  BY <1>3 DEF Grant
<1>4. ASSUME NEW c \in Caller, Load(c) PROVE ExactInv'
  BY <1>4 DEF Load
<1>5. ASSUME NEW c \in Caller, LoadFails(c) PROVE ExactInv'
  BY <1>5 DEF LoadFails
<1>6. ASSUME NEW c \in Caller, ReadFails(c) PROVE ExactInv'
  BY <1>6 DEF ReadFails, ReleaseIfLive, Release
<1>7. ASSUME NEW c \in Caller, ReadBlank(c) PROVE ExactInv'
  BY <1>7 DEF ReadBlank
<1>8. ASSUME NEW c \in Caller, ReadStore(c) PROVE ExactInv'
  BY <1>8 DEF ReadStore
<1>9. ASSUME NEW c \in Caller, SaveCreated(c) PROVE ExactInv'
  <2>1. pc[c] = "create" /\ c \in aliased /\ c \in creating
    BY <1>9 DEF SaveCreated, GhostInv
  <2>2. ~torn /\ c \in live => Object(c) \subseteq relics
    <3>1. ~torn /\ c \in live => storage = Blank
      BY <2>1
    <3>. QED
      BY <2>1, <3>1
  <2>3. /\ UNCHANGED <<storage, live, cache, aliased, default, relics, torn, creating>>
        /\ \A e \in Caller \ {c} : pc'[e] = pc[e] /\ sealed'[e] = sealed[e]
    BY <1>9 DEF SaveCreated, SealObject
  <2>4. c \in live => pc'[c] = "sealing" /\ sealed'[c].data = Object(c)
    BY <1>9 DEF SaveCreated, SealObject
  <2>5. c \notin live => pc'[c] = "failed"
    BY <1>9 DEF SaveCreated
  <2>. QED
    BY <2>1, <2>2, <2>3, <2>4, <2>5
<1>10. ASSUME NEW c \in Caller, Seal(c) PROVE ExactInv'
  BY <1>10 DEF Seal
<1>11. ASSUME NEW c \in Caller, Land(c) PROVE ExactInv'
  BY <1>11 DEF Land
<1>12. ASSUME NEW c \in Caller, SaveFails(c) PROVE ExactInv'
  BY <1>12 DEF SaveFails, ReleaseIfLive, Release
<1>13. ASSUME NEW c \in Caller, Put(c) PROVE ExactInv'
  BY <1>13 DEF Put, PutWhen, SealObject
<1>14. ASSUME NEW c \in Caller, Close(c) PROVE ExactInv'
  BY <1>14 DEF Close, Release
<1>15. ASSUME NEW c \in Caller, UseThrows(c) PROVE ExactInv'
  BY <1>15 DEF UseThrows, ReleaseIfLive, Release
<1>16. ASSUME NEW c \in Caller, Abort(c) PROVE ExactInv'
  BY <1>16 DEF Abort
<1>17. ASSUME NEW c \in Caller, LeaseEnds(c) PROVE ExactInv'
  BY <1>17 DEF LeaseEnds, LeaseEndsWhen, Release
<1>18. CASE Logout
  BY <1>18 DEF Logout
<1>19. CASE Login
  BY <1>19 DEF Login
<1>20. CASE Wipe
  BY <1>20 DEF Wipe
<1>21. ASSUME NEW f \in Frame, FrameDies(f) PROVE ExactInv'
  BY <1>21 DEF FrameDies
<1>22. CASE UNCHANGED vars
  BY <1>22 DEF vars
<1>. QED
  BY <1>1, <1>2, <1>3, <1>4, <1>5, <1>6, <1>7, <1>8, <1>9, <1>10, <1>11,
     <1>12, <1>13, <1>14, <1>15, <1>16, <1>17, <1>18, <1>19, <1>20, <1>21,
     <1>22
     DEF Next, Progress, Use, Timeout

-----------------------------------------------------------------------------
(* Only so much holds at first.                                              *)
LEMMA ExactInit == Init => GhostInv /\ CreatorInv /\ ExactInv
  BY ConstantsAssumption DEF Init, GhostInv, OnlyRelicsReturn, CreatorInv, Shapes,
     ExactInv, Blank, Busy, Opening, Writing, InUse

(* Nothing of before a reset comes back but relics, even when writes outlive
   their leases.                                                             *)
THEOREM NothingElseReturns == ASSUME Orderly PROVE Spec => []OnlyRelicsReturn
<1>1. TypeOK /\ GhostInv /\ [Next]_vars => GhostInv'
  BY Orderly, GhostStep
<1>2. GhostInv => OnlyRelicsReturn
  BY DEF GhostInv
<1>. QED
  BY <1>1, <1>2, ExactInit, TypeCorrect, PTL DEF Spec

(* All parts of the invariant hold together.                                 *)
LEMMA ExactHolds ==
  ASSUME Orderly PROVE Spec => [](TypeOK /\ IInv /\ GhostInv /\ CreatorInv /\ ExactInv)
<1>1. TypeOK /\ IInv /\ GhostInv /\ CreatorInv /\ ExactInv /\ [Next]_vars
        => GhostInv' /\ CreatorInv' /\ ExactInv'
  BY Orderly, GhostStep, CreatorStep, ExactStep DEF IInv
<1>. QED
  BY <1>1, ExactInit, TypeCorrect, Invariance, PTL DEF Spec

(* The register has nothing to say of a step that leaves it torn.            *)
LEMMA TornSteps ==
  ASSUME TypeOK, TypeOK', torn', UNCHANGED relics
  PROVE  Register!Tear
  BY DEF TypeOK, Cipher, Register!Tear

(* A write that lands adds the writer's item or nothing, revives relics in a
   store it creates, or tears the register.                                  *)
LEMMA LandUpdates ==
  ASSUME TypeOK, TypeOK', IInv, CreatorInv, ExactInv, NEW c \in Caller, Land(c)
  PROVE  Register!Next \/ UNCHANGED Register!vars
<1>1. UNCHANGED <<acked, relics>> /\ storage'.data = sealed[c].data
  BY DEF Land
<1>2. CASE c \notin live \/ torn
  <2>1. torn'
    BY <1>2 DEF Land, tornVars
  <2>. QED
    BY <1>1, <2>1, TornSteps DEF Register!Next
<1>3. CASE c \in live /\ ~torn
  <2>1. pc[c] \in Writing /\ torn' = torn /\ c \notin crossed
    BY <1>3 DEF Land, Writing, tornVars, IInv, HeldInv
  <2>2. storage.data \subseteq sealed[c].data
    BY <1>3, <2>1 DEF IInv, HeldInv
  <2>3. CASE c \in creating
    <3>1. storage = Blank /\ sealed[c].data \subseteq relics
      BY <1>3, <2>1, <2>3 DEF CreatorInv, ExactInv
    <3>. QED
      BY <1>1, <1>3, <2>1, <3>1 DEF Blank, Register!Revive, Register!Next
  <2>4. CASE c \notin creating
    <3>1. sealed[c].data \subseteq storage.data \union {c}
      BY <1>3, <2>1, <2>4 DEF ExactInv
    <3>2. storage'.data = storage.data \/ storage'.data = storage.data \union {c}
      BY <1>1, <2>2, <3>1
    <3>. QED
      BY <1>1, <1>3, <2>1, <3>2 DEF Register!Update, Register!Next, Register!vars
  <2>. QED
    BY <2>3, <2>4
<1>. QED
  BY <1>2, <1>3

(* A call that returns after a save acknowledges an item that is stored.     *)
LEMMA CloseAcknowledges ==
  ASSUME TypeOK, TypeOK', IInv, NEW c \in Caller, Close(c)
  PROVE  Register!Next \/ UNCHANGED Register!vars
<1>1. UNCHANGED <<storage, relics, torn>>
  BY DEF Close, lateVars, tornVars
<1>2. CASE torn
  BY <1>1, <1>2, TornSteps DEF Register!Next
<1>3. CASE ~torn
  <2>1. c \in live /\ pc[c] = "saved" => c \in storage.data
    BY <1>3 DEF IInv, HeldInv
  <2>2. \/ acked' = acked
        \/ c \in live /\ pc[c] = "saved" /\ acked' = acked \union {c}
    BY DEF Close
  <2>. QED
    BY <1>1, <1>3, <2>1, <2>2 DEF Register!Acknowledge, Register!Next, Register!vars
<1>. QED
  BY <1>2, <1>3

(* A login changes the keys and not the content.                             *)
LEMMA LoginKeeps ==
  ASSUME TypeOK, IInv, Login
  PROVE  UNCHANGED Register!vars
<1>1. storage = Blank \/ ~IsBlank(storage)
  <2>1. epoch \in 1..MaxEpoch
    BY DEF TypeOK
  <2>2. storage = Blank \/ storage.key = epoch
    BY DEF IInv, KeyInv, Readable
  <2>. QED
    BY <2>1, <2>2, ConstantsAssumption DEF IsBlank
<1>2. CASE storage = Blank
  BY <1>2 DEF Login, IsBlank, Blank, histVars, lateVars, tornVars, Register!vars
<1>3. CASE ~IsBlank(storage)
  BY <1>3 DEF Login, histVars, lateVars, tornVars, Register!vars
<1>. QED
  BY <1>1, <1>2, <1>3

(* open() is atomic: each step of the store is one step of the register, or
   leaves it as it is.                                                       *)
THEOREM OpenIsAtomic == ASSUME Orderly PROVE Spec => RefinesRegister
<1>1. Init => Register!Init
  BY DEF Init, Blank, Register!Init
<1>2. TypeOK /\ TypeOK' /\ IInv /\ CreatorInv /\ ExactInv /\ [Next]_vars
        => [Register!Next]_(Register!vars)
  <2> SUFFICES ASSUME TypeOK, TypeOK', IInv, CreatorInv, ExactInv, [Next]_vars
               PROVE  Register!Next \/ UNCHANGED Register!vars
    OBVIOUS
  <2>1. ASSUME NEW c \in Caller, Land(c) \/ Close(c)
        PROVE  Register!Next \/ UNCHANGED Register!vars
    BY <2>1, LandUpdates, CloseAcknowledges
  <2>2. CASE Login
    BY <2>2, LoginKeeps
  <2>3. CASE Wipe
    <3>1. /\ storage'.data = {} /\ acked' = {} /\ torn' = FALSE
          /\ relics \subseteq relics'
      BY <2>3 DEF Wipe, Blank
    <3>2. relics' \in SUBSET Caller
      BY DEF TypeOK
    <3>. QED
      BY <3>1, <3>2 DEF Register!Next, Register!Wipe
  <2>4. CASE UNCHANGED <<storage, acked, relics, torn>>
    BY <2>4 DEF Register!vars
  <2>5. \/ \E c \in Caller : Land(c) \/ Close(c)
        \/ Login \/ Wipe \/ UNCHANGED <<storage, acked, relics, torn>>
    <3>1. ASSUME NEW c \in Caller,
                 \/ Begin(c) \/ Read(c) \/ Grant(c) \/ Load(c) \/ LoadFails(c)
                 \/ ReadFails(c) \/ ReadBlank(c) \/ ReadStore(c)
          PROVE  UNCHANGED <<storage, acked, relics, torn>>
      BY <3>1 DEF histVars, lateVars, tornVars, Begin, Read, Grant, Load, LoadFails,
         ReadFails, ReadBlank, ReadStore
    <3>2. ASSUME NEW c \in Caller,
                 \/ SaveCreated(c) \/ Seal(c) \/ SaveFails(c) \/ Put(c)
                 \/ UseThrows(c) \/ Abort(c) \/ LeaseEnds(c)
          PROVE  UNCHANGED <<storage, acked, relics, torn>>
      BY <3>2 DEF histVars, lateVars, tornVars, SaveCreated, Seal, SaveFails, Put,
         PutWhen, UseThrows, Abort, LeaseEnds, LeaseEndsWhen
    <3>3. ASSUME Logout \/ (\E f \in Frame : FrameDies(f)) \/ UNCHANGED vars
          PROVE  UNCHANGED <<storage, acked, relics, torn>>
      BY <3>3 DEF vars, histVars, lateVars, tornVars, Logout, FrameDies
    <3>. QED
      BY <3>1, <3>2, <3>3 DEF Next, Progress, Use, Timeout
  <2>. QED
    BY <2>1, <2>2, <2>3, <2>4, <2>5
<1>. QED
  BY <1>1, <1>2, ExactHolds, PTL DEF Spec, RefinesRegister, Register!Spec
=============================================================================
