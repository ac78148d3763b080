---------------------------- MODULE TxSyncProofs ----------------------------
(* Proofs about TxSync for any transactions, chains and pages, and any number of
   troubles.                                                                 *)
EXTENDS TxSync, TLAPS

-----------------------------------------------------------------------------
(* Types.  That the transaction which a synchronization deals with is one of the
   chain's is part of the induction.                                         *)
Paging == {"read", "walk", "recording"}
InPage(s, length) ==
  /\ s.at \in Paging => s.next <= length
  /\ s.at = "recording" => s.key <= s.next
  /\ s.at \in Paging \cup {"fetch"} => s.key - 1 <= length
  /\ s.at \in {"found", "absent"} => s.tx \in Tx
Within(c) == InPage(sync[c], Len(blocks[c]))
TInv == TypeOK /\ \A c \in Chain : Within(c)

Conns == [Chain -> {"none", "up", "away", "healed", "closed"}]
Failed == [Down EXCEPT !.at = "failed"]
Faults(c) == SyncFails(c) \/ Lose(c) \/ Restart(c) \/ Recreate(c)

(* The initial state is of the declared types.                               *)
LEMMA TypeInit == Init => TInv
<1> SUFFICES ASSUME Init PROVE TInv
  OBVIOUS
<1>1. Down \in Sync
  BY DEF Down, Sync, At
<1>2. TypeOK
  BY <1>1, ConstantsAssumption DEF Init, TypeOK, Stage
<1>3. \A c \in Chain : Within(c)
  BY DEF Init, Down, Within, InPage, Paging
<1>. QED
  BY <1>2, <1>3 DEF TInv

(* Whoever saves an incident or its history keeps the types of the stores.   *)
LEMMA StoresType ==
  ASSUME TypeOK, NEW t \in Tx, NEW by \in {"window", "hook", "sync"}, NEW to \in Stage,
         Save(by, t, to) \/ SaveHistory(by, t) \/ Mutate(t, to) \/ MarkAbsent(t)
         \/ UNCHANGED stores
  PROVE  /\ stage' \in [Tx -> Stage] /\ shown' \subseteq Tx
         /\ saving' \in Saver \cup {None} /\ overtaken' \subseteq Tx
<1>1. CASE Save(by, t, to)
  <2>1. [by |-> by, tx |-> t] \in Saver
    BY DEF Saver
  <2>. QED
    BY <1>1, <2>1 DEF Save, Staged, TypeOK
<1>2. CASE SaveHistory(by, t)
  BY <1>2 DEF SaveHistory, TypeOK
<1>3. CASE Mutate(t, to)
  BY <1>3 DEF Mutate, Staged, TypeOK
<1>4. CASE MarkAbsent(t)
  BY <1>4 DEF MarkAbsent, Mutate, Staged, stores, TypeOK, Stage
<1>5. CASE UNCHANGED stores
  BY <1>5 DEF stores, TypeOK
<1>. QED
  BY <1>1, <1>2, <1>3, <1>4, <1>5

(* The steps of a signing screen keep the types.                             *)
LEMMA WindowType ==
  ASSUME TInv, NEW t \in Tx, Window(t)
  PROVE  TInv'
<1> USE DEF TInv
<1>1. UNCHANGED <<blocks, sync>>
  BY DEF Window, Sign, Recorded, Broadcast, Refused, Close, chains
<1>2. \A c \in Chain : Within(c)'
  BY <1>1 DEF Within, InPage
<1>3. CASE Sign(t)
  <2>1. Save("window", t, "pending") /\ "pending" \in Stage
    BY <1>3 DEF Sign, Stage
  <2>2. /\ stage' \in [Tx -> Stage] /\ shown' \subseteq Tx
        /\ saving' \in Saver \cup {None} /\ overtaken' \subseteq Tx
    BY <2>1, StoresType
  <2>. QED
    BY <1>2, <1>3, <2>2 DEF Sign, chains, TypeOK
<1>4. CASE Recorded(t)
  <2>1. SaveHistory("window", t) /\ "pending" \in Stage
    BY <1>4 DEF Recorded, Stage
  <2>2. /\ stage' \in [Tx -> Stage] /\ shown' \subseteq Tx
        /\ saving' \in Saver \cup {None} /\ overtaken' \subseteq Tx
    BY <2>1, StoresType
  <2>. QED
    BY <1>2, <1>4, <2>2 DEF Recorded, chains, TypeOK
<1>5. CASE Broadcast(t)
  <2>1. UNCHANGED stores /\ "pending" \in Stage
    BY <1>5 DEF Broadcast, Stage
  <2>2. /\ stage' \in [Tx -> Stage] /\ shown' \subseteq Tx
        /\ saving' \in Saver \cup {None} /\ overtaken' \subseteq Tx
    BY <2>1, StoresType
  <2>. QED
    BY <1>2, <1>5, <2>2 DEF Broadcast, TypeOK
<1>6. CASE Refused(t)
  <2>1. Mutate(t, "synced") /\ "synced" \in Stage
    BY <1>6 DEF Refused, Stage
  <2>2. /\ stage' \in [Tx -> Stage] /\ shown' \subseteq Tx
        /\ saving' \in Saver \cup {None} /\ overtaken' \subseteq Tx
    BY <2>1, StoresType
  <2>. QED
    BY <1>2, <1>6, <2>2 DEF Refused, chains, TypeOK
<1>7. CASE Close(t)
  BY <1>2, <1>7 DEF Close, chains, TypeOK
<1>. QED
  BY <1>3, <1>4, <1>5, <1>6, <1>7 DEF Window

(* What the chain commits keeps the types.                                   *)
LEMMA CommitType ==
  ASSUME TInv, NEW t \in Tx, Commit(t)
  PROVE  TInv'
<1> USE DEF TInv
<1>1. ChainOf[t] \in Chain
  BY ConstantsAssumption
<1>2. blocks' \in [Chain -> Seq(Tx)]
  BY <1>1 DEF Commit, TypeOK
<1>3. \A c \in Chain : Len(blocks[c]) <= Len(blocks'[c])
  BY <1>1 DEF Commit, TypeOK
<1>4. UNCHANGED sync
  BY DEF Commit
<1>5. \A c \in Chain : Within(c)'
  <2> SUFFICES ASSUME NEW c \in Chain PROVE Within(c)'
    OBVIOUS
  <2>1. Within(c) /\ Len(blocks[c]) <= Len(blocks'[c])
    BY <1>3
  <2>2. Len(blocks[c]) \in Nat /\ Len(blocks'[c]) \in Nat
    BY <1>2 DEF TypeOK
  <2>3. sync[c] \in Sync
    BY DEF TypeOK
  <2>. QED
    BY <1>4, <2>1, <2>2, <2>3 DEF Within, InPage, Sync, Paging
<1>6. /\ pool' \subseteq Tx /\ failed' \subseteq Failing /\ missed' \subseteq Tx
      /\ hook' \in [Tx -> {"none", "event", "found", "absent", "recording"}]
  BY DEF Commit, TypeOK
<1>7. UNCHANGED <<win, stores, height, conn, sync, troubles>>
  BY DEF Commit
<1>. QED
  BY <1>2, <1>5, <1>6, <1>7 DEF TypeOK, stores

(* The steps of an event's handler keep the types.                           *)
LEMMA HandlerType ==
  ASSUME TInv, NEW t \in Tx, Handler(t)
  PROVE  TInv'
<1> USE DEF TInv
<1>1. UNCHANGED <<chains, sync, win, height, conn, troubles>>
  BY DEF Handler, Download, HookAbsent, HookRecord, HookRecorded
<1>2. \A c \in Chain : Within(c)'
  BY <1>1 DEF Within, InPage, chains
<1>3. "synced" \in Stage
  BY DEF Stage
<1>4. /\ stage' \in [Tx -> Stage] /\ shown' \subseteq Tx
      /\ saving' \in Saver \cup {None} /\ overtaken' \subseteq Tx
  <2>1. CASE Download(t)
    BY <1>3, <2>1, StoresType DEF Download
  <2>2. CASE HookAbsent(t)
    BY <1>3, <2>2, StoresType DEF HookAbsent
  <2>3. CASE HookRecord(t)
    BY <1>3, <2>3, StoresType DEF HookRecord
  <2>4. CASE HookRecorded(t)
    BY <1>3, <2>4, StoresType DEF HookRecorded
  <2>. QED
    BY <2>1, <2>2, <2>3, <2>4 DEF Handler
<1>5. /\ hook' \in [Tx -> {"none", "event", "found", "absent", "recording"}]
      /\ missed' \subseteq Tx
  BY DEF Handler, Download, HookAbsent, HookRecord, HookRecorded, TypeOK
<1>. QED
  BY <1>1, <1>2, <1>4, <1>5 DEF TypeOK, chains

(* A step of a feed is one of the chain's and leaves the other feeds alone.  *)
LEMMA FeedStores ==
  ASSUME TInv, NEW c \in Chain, Feed(c)
  PROVE  /\ stage' \in [Tx -> Stage] /\ shown' \subseteq Tx
         /\ saving' \in Saver \cup {None} /\ overtaken' \subseteq Tx
<1> USE DEF TInv
<1>1. "synced" \in Stage /\ sync[c] \in Sync /\ Within(c)
  BY DEF Stage, TypeOK
<1>2. CASE UNCHANGED stores
  BY <1>2 DEF stores, TypeOK
<1>3. CASE Walk(c)
  <2>1. sync[c].next \in 1..Len(blocks[c])
    BY <1>1, <1>3 DEF Walk, Within, InPage, Paging, Sync
  <2>2. blocks[c][sync[c].next] \in Tx
    BY <2>1 DEF TypeOK
  <2>. QED
    BY <1>1, <1>3, <2>2, StoresType DEF Walk
<1>4. CASE SyncRecorded(c)
  <2>1. sync[c].next \in 1..Len(blocks[c])
    BY <1>1, <1>4 DEF SyncRecorded, Within, InPage, Paging, Sync
  <2>2. blocks[c][sync[c].next] \in Tx
    BY <2>1 DEF TypeOK
  <2>. QED
    BY <1>1, <1>4, <2>2, StoresType DEF SyncRecorded
<1>5. CASE Merge(c)
  <2>1. sync[c].tx \in Tx
    BY <1>1, <1>5 DEF Merge, Within, InPage
  <2>. QED
    BY <1>1, <1>5, <2>1, StoresType DEF Merge
<1>. QED
  BY <1>2, <1>3, <1>4, <1>5 DEF Feed, Latest, Subscribe, Fetch, ReadIncidents, PageEnds,
     Pending, Finish, Look

(* A step of a feed keeps the state of its synchronization a state.          *)
LEMMA FeedSync ==
  ASSUME TInv, NEW c \in Chain, Feed(c)
  PROVE  /\ sync'[c] \in Sync /\ InPage(sync'[c], Len(blocks[c]))
         /\ sync' = [sync EXCEPT ![c] = sync'[c]]
<1> DEFINE s == sync[c]
           n == sync'[c]
           length == Len(blocks[c])
           Good(new) == n = new /\ sync' = [sync EXCEPT ![c] = n]
<1>1. s \in Sync /\ InPage(s, length) /\ sync \in [Chain -> Sync]
  BY DEF TInv, TypeOK, Within
<1>2. length \in Nat /\ height[c] \in Nat /\ shown \subseteq Tx
  BY DEF TInv, TypeOK
<1>3. Down \in Sync
  BY DEF Down, Sync, At
<1> HIDE DEF s, n, length
<1>5. CASE Latest(c)
  <2>1. Good([Down EXCEPT !.at = "latest", !.latest = length])
    BY <1>1, <1>5 DEF Latest, s, n, length
  <2>8. n \in Sync
    BY <1>2, <1>3, <2>1 DEF Down, Sync, At
  <2>9. InPage(n, length)
    BY <1>2, <1>3, <2>1 DEF InPage, Down, Sync, At, Paging
  <2>. QED
    BY <2>1, <2>8, <2>9 DEF n, length
<1>6. CASE Subscribe(c)
  <2>1. Good([s EXCEPT !.at = "probe", !.from = height[c]])
    BY <1>1, <1>6 DEF Subscribe, Begun, s, n
  <2>2. s.at = "latest"
    BY <1>6 DEF Subscribe, s
  <2>8. n \in Sync
    BY <1>1, <1>2, <2>1, <2>2 DEF Sync, At
  <2>9. InPage(n, length)
    BY <1>1, <1>2, <2>1, <2>2 DEF InPage, Sync, At, Paging
  <2>. QED
    BY <2>1, <2>8, <2>9 DEF n, length
<1>7. CASE Fetch(c)
  <2> DEFINE top == IF s.at = "probe" THEN length ELSE s.key - 1
             size == IF s.at = "probe" THEN Probe ELSE Limit
             key == IF top > size THEN top - size + 1 ELSE 1
             low == IF key <= top /\ key < s.latest THEN key ELSE s.latest
  <2>1. Good([s EXCEPT !.at = "read", !.next = top, !.key = key,
                       !.low = low])
    BY <1>1, <1>7 DEF Fetch, s, n, length
  <2>7. s.at \in {"probe", "fetch"}
    BY <1>7 DEF Fetch, s
  <2>2. top \in Nat /\ top <= length
    BY <1>1, <1>2, <2>7 DEF InPage, Sync
  <2>3. size \in Nat \ {0}
    BY ConstantsAssumption
  <2> HIDE DEF top, size
  <2>4. key \in Nat \ {0} /\ key - 1 <= length
    BY <1>2, <2>2, <2>3
  <2>5. low \in Nat
    BY <1>1, <2>4 DEF Sync
  <2> HIDE DEF key, low
  <2>8. n \in Sync
    BY <1>1, <1>2, <2>1, <2>2, <2>4, <2>5 DEF Sync, At
  <2>9. InPage(n, length)
    BY <1>1, <1>2, <2>1, <2>2, <2>4, <2>5 DEF InPage, Sync, At, Paging
  <2>. QED
    BY <2>1, <2>8, <2>9 DEF n, length
<1>8. CASE ReadIncidents(c)
  <2>1. Good([s EXCEPT !.at = "walk", !.known = {t \in Tx : stage[t] = "synced"}])
    BY <1>1, <1>8 DEF ReadIncidents, s, n
  <2>2. s.at = "read"
    BY <1>8 DEF ReadIncidents, s
  <2>8. n \in Sync
    BY <1>1, <1>2, <2>1, <2>2 DEF Sync, At
  <2>9. InPage(n, length)
    BY <1>1, <1>2, <2>1, <2>2 DEF InPage, Sync, At, Paging
  <2>. QED
    BY <2>1, <2>8, <2>9 DEF n, length
<1>9. CASE Walk(c)
  <2>1. Good([s EXCEPT !.next = s.next - 1, !.at = "walk"]) \/ Good([s EXCEPT !.at = "recording"])
    BY <1>1, <1>9 DEF Walk, Popped, s, n
  <2>2. s.at = "walk" /\ s.next >= s.key
    BY <1>9 DEF Walk, s
  <2>3. s.key \in Nat \ {0} /\ s.next \in Nat /\ s.next - 1 \in Nat /\ s.key <= s.next
    BY <1>1, <2>2 DEF Sync
  <2>4. CASE Good([s EXCEPT !.next = s.next - 1, !.at = "walk"])
    <3>1. n \in Sync
      BY <1>1, <2>3, <2>4 DEF Sync, At
    <3>2. InPage(n, length)
      BY <1>1, <1>2, <2>2, <2>3, <2>4 DEF InPage, Sync, Paging
    <3>. QED
      BY <2>4, <3>1, <3>2 DEF n, length
  <2>5. CASE Good([s EXCEPT !.at = "recording"])
    <3>1. n \in Sync
      BY <1>1, <2>5 DEF Sync, At
    <3>2. InPage(n, length)
      BY <1>1, <2>2, <2>3, <2>5 DEF InPage, Sync, Paging
    <3>. QED
      BY <2>5, <3>1, <3>2 DEF n, length
  <2>. QED
    BY <2>1, <2>4, <2>5
<1>10. CASE SyncRecorded(c)
  <2>1. Good([s EXCEPT !.next = s.next - 1, !.at = "walk"])
    BY <1>1, <1>10 DEF SyncRecorded, Popped, s, n
  <2>2. s.at = "recording"
    BY <1>10 DEF SyncRecorded, s
  <2>3. s.key \in Nat \ {0} /\ s.next \in Nat /\ s.next - 1 \in Nat /\ s.key <= s.next
    BY <1>1, <2>2 DEF Sync, InPage
  <2>4. n \in Sync
    BY <1>1, <2>1, <2>3 DEF Sync, At
  <2>5. InPage(n, length)
    BY <1>1, <1>2, <2>1, <2>2, <2>3 DEF InPage, Sync, Paging
  <2>. QED
    BY <2>1, <2>4, <2>5 DEF n, length
<1>11. CASE PageEnds(c)
  <2>1. s.at = "walk"
    BY <1>11 DEF PageEnds, s
  <2>2. CASE Good([Down EXCEPT !.at = "pending", !.latest = s.latest])
    <3>1. s.latest \in Nat
      BY <1>1 DEF Sync
    <3>2. n \in Sync
      BY <1>3, <2>2, <3>1 DEF Sync, At
    <3>3. InPage(n, length)
      BY <1>3, <2>2, <3>1 DEF InPage, Down, Paging
    <3>. QED
      BY <2>2, <3>2, <3>3 DEF n, length
  <2>3. CASE Good([s EXCEPT !.at = "fetch", !.known = {}])
    <3>1. n \in Sync
      BY <1>1, <2>3 DEF Sync, At
    <3>2. InPage(n, length)
      BY <1>1, <1>2, <2>1, <2>3 DEF InPage, Sync, Paging
    <3>. QED
      BY <2>3, <3>1, <3>2 DEF n, length
  <2>. QED
    BY <1>1, <1>11, <2>2, <2>3 DEF PageEnds, s, n
<1>12. CASE Pending(c)
  <2>1. Good([s EXCEPT !.at = "check", !.todo = {t \in shown : stage[t] = "pending"}])
    BY <1>1, <1>12 DEF Pending, s, n
  <2>8. n \in Sync
    BY <1>1, <1>2, <2>1 DEF Sync, At
  <2>9. InPage(n, length)
    BY <1>1, <1>2, <2>1 DEF InPage, Sync, At, Paging
  <2>. QED
    BY <2>1, <2>8, <2>9 DEF n, length
<1>13. CASE Merge(c)
  <2>1. Good([s EXCEPT !.at = "check", !.tx = None])
    BY <1>1, <1>13 DEF Merge, s, n
  <2>8. n \in Sync
    BY <1>1, <1>2, <2>1 DEF Sync, At
  <2>9. InPage(n, length)
    BY <1>1, <1>2, <2>1 DEF InPage, Sync, At, Paging
  <2>. QED
    BY <2>1, <2>8, <2>9 DEF n, length
<1>14. CASE Finish(c)
  <2>1. Good([Down EXCEPT !.at = "up"])
    BY <1>1, <1>14 DEF Finish, s, n
  <2>8. n \in Sync
    BY <1>2, <1>3, <2>1 DEF Down, Sync, At
  <2>9. InPage(n, length)
    BY <1>2, <1>3, <2>1 DEF Down, InPage, Sync, At, Paging
  <2>. QED
    BY <2>1, <2>8, <2>9 DEF n, length
<1>15. ASSUME NEW t \in Tx, Look(c, t)
       PROVE  n \in Sync /\ InPage(n, length) /\ sync' = [sync EXCEPT ![c] = n]
  <2>1. CASE Good([s EXCEPT !.todo = s.todo \ {t}])
    <3>1. n \in Sync
      BY <1>1, <2>1 DEF Sync
    <3>2. InPage(n, length)
      BY <1>1, <2>1 DEF InPage, Sync, Paging
    <3>. QED
      BY <2>1, <3>1, <3>2 DEF n, length
  <2>2. ASSUME NEW at \in {"found", "absent"},
               Good([s EXCEPT !.todo = s.todo \ {t}, !.tx = t, !.at = at])
        PROVE  n \in Sync /\ InPage(n, length) /\ sync' = [sync EXCEPT ![c] = n]
    <3>1. n \in Sync
      BY <1>1, <2>2 DEF Sync, At
    <3>2. InPage(n, length)
      BY <1>1, <2>2 DEF InPage, Sync, Paging
    <3>. QED
      BY <2>2, <3>1, <3>2 DEF n, length
  <2>. QED
    BY <1>1, <1>15, <2>1, <2>2 DEF Look, s, n
<1>. QED
  BY <1>5, <1>6, <1>7, <1>8, <1>9, <1>10, <1>11, <1>12, <1>13, <1>14, <1>15 DEF Feed, n, length

(* The steps of a feed keep the types.                                       *)
LEMMA FeedType ==
  ASSUME TInv, NEW c \in Chain, Feed(c)
  PROVE  TInv'
<1>1. /\ stage' \in [Tx -> Stage] /\ shown' \subseteq Tx
      /\ saving' \in Saver \cup {None} /\ overtaken' \subseteq Tx
  BY FeedStores
<1>2. /\ sync'[c] \in Sync /\ InPage(sync'[c], Len(blocks[c]))
      /\ sync' = [sync EXCEPT ![c] = sync'[c]]
  BY FeedSync
<1>3. UNCHANGED <<blocks, pool, failed, win, hook, missed, troubles>>
  BY DEF Feed, Latest, Subscribe, Fetch, ReadIncidents, Walk, SyncRecorded, PageEnds,
     Pending, Merge, Finish, Look, chains
<1>4. sync' \in [Chain -> Sync]
  BY <1>2 DEF TInv, TypeOK
<1>5. conn' \in Conns
  BY DEF Feed, Latest, Subscribe, Fetch, ReadIncidents, Walk, SyncRecorded, PageEnds,
     Pending, Merge, Finish, Look, TInv, TypeOK, Conns
<1>6. height' \in [Chain -> Nat]
  <2>1. sync[c].latest \in Nat /\ height \in [Chain -> Nat]
    BY DEF TInv, TypeOK, Sync
  <2>2. UNCHANGED height \/ height' = [height EXCEPT ![c] = sync[c].latest]
    BY DEF Feed, Latest, Subscribe, Fetch, ReadIncidents, Walk, SyncRecorded, PageEnds,
       Pending, Merge, Finish, Look
  <2>. QED
    BY <2>1, <2>2
<1>7. TypeOK'
  BY <1>1, <1>3, <1>4, <1>5, <1>6 DEF TInv, TypeOK, Conns
<1>8. ASSUME NEW d \in Chain PROVE Within(d)'
  BY <1>2, <1>3 DEF TInv, TypeOK, Within
<1>. QED
  BY <1>7, <1>8 DEF TInv

(* Troubles keep the types.                                                  *)
LEMMA FaultType ==
  ASSUME TInv, (\E c \in Chain : Faults(c)) \/ Crash
  PROVE  TInv'
<1>1. Down \in Sync /\ Failed \in Sync
  BY DEF Down, Failed, Sync, At
<1>2. \A length \in Nat : InPage(Down, length) /\ InPage(Failed, length)
  BY DEF Down, Failed, InPage, Paging
<1>3. UNCHANGED <<blocks, pool, failed, win, stage, shown, overtaken, height>>
  BY DEF Faults, SyncFails, Lose, Restart, Recreate, Crash, chains, stores
<1>4. troubles' \in 0..MaxTroubles
  <2>1. UNCHANGED troubles \/ Trouble
    BY DEF Faults, SyncFails, Lose, Restart, Recreate, Crash
  <2>2. troubles \in 0..MaxTroubles /\ MaxTroubles \in Nat
    BY ConstantsAssumption DEF TInv, TypeOK
  <2>. QED
    BY <2>1, <2>2 DEF Trouble
<1>5. saving' \in Saver \cup {None} /\ missed' \subseteq Tx
      /\ hook' \in [Tx -> {"none", "event", "found", "absent", "recording"}]
  BY DEF Faults, SyncFails, Lose, Restart, Recreate, Crash, stores, TInv, TypeOK
<1>6. /\ sync' \in [Chain -> Sync]
      /\ \A d \in Chain : sync'[d] \in {sync[d], Down, Failed}
  <2>0. sync \in [Chain -> Sync]
    BY DEF TInv, TypeOK
  <2>1. ASSUME NEW c \in Chain, SyncFails(c) \/ Recreate(c)
        PROVE  /\ sync' \in [Chain -> Sync]
               /\ \A d \in Chain : sync'[d] \in {sync[d], Down, Failed}
    BY <1>1, <2>0, <2>1 DEF SyncFails, Recreate, Failed
  <2>2. ASSUME NEW c \in Chain, Lose(c) \/ Restart(c) PROVE UNCHANGED sync
    BY <2>2 DEF Lose, Restart
  <2>3. CASE Crash
    BY <1>1, <2>3 DEF Crash
  <2>. QED
    BY <2>0, <2>1, <2>2, <2>3 DEF Faults
<1>9. conn' \in Conns
  <2>0. conn \in Conns
    BY DEF TInv, TypeOK, Conns
  <2>1. ASSUME NEW c \in Chain, Lose(c) \/ Restart(c) \/ Recreate(c)
        PROVE  conn' \in Conns
    <3>1. \/ conn' = [conn EXCEPT ![c] = "none"] \/ conn' = [conn EXCEPT ![c] = "away"]
          \/ conn' = [conn EXCEPT ![c] = "healed"] \/ conn' = [conn EXCEPT ![c] = "closed"]
          \/ UNCHANGED conn
      BY <2>1 DEF Lose, Restart, Recreate, Subscribed
    <3>. QED
      BY <2>0, <3>1 DEF Conns
  <2>2. ASSUME NEW c \in Chain, SyncFails(c) PROVE conn' \in Conns
    BY <2>0, <2>2 DEF SyncFails
  <2>3. CASE Crash
    BY <2>3 DEF Crash, Conns
  <2>. QED
    BY <2>1, <2>2, <2>3 DEF Faults
<1>7. TypeOK'
  BY <1>3, <1>4, <1>5, <1>6, <1>9 DEF TInv, TypeOK, Conns
<1>8. ASSUME NEW d \in Chain PROVE Within(d)'
  <2>1. Len(blocks[d]) \in Nat /\ InPage(sync[d], Len(blocks[d]))
    BY DEF TInv, TypeOK, Within
  <2>. QED
    BY <1>2, <1>3, <1>6, <2>1 DEF Within
<1>. QED
  BY <1>7, <1>8 DEF TInv

(* Every step keeps the types.                                               *)
LEMMA TypeStep == TInv /\ [Next]_vars => TInv'
<1> SUFFICES ASSUME TInv, [Next]_vars PROVE TInv'
  OBVIOUS
<1>1. CASE UNCHANGED vars
  BY <1>1 DEF vars, chains, stores, TInv, TypeOK, Within
<1>2. CASE Next
  BY <1>2, WindowType, CommitType, HandlerType, FeedType, FaultType DEF Next, Faults
<1>. QED
  BY <1>1, <1>2

(* Every variable keeps its type: in particular a synchronization deals only with
   positions of the chain, since the chain only grows.                       *)
THEOREM TypeCorrect == Spec => []TypeOK
<1>1. TInv => TypeOK
  BY DEF TInv
<1>. QED
  BY <1>1, TypeInit, TypeStep, PTL DEF Spec

(* It is used together with what the types rest on.                          *)
LEMMA TypesHold == Spec => []TInv
  BY TypeInit, TypeStep, PTL DEF Spec

-----------------------------------------------------------------------------
(* What a step may do to the stage of an incident: a window records it, a chain,
   a handler or a refusal completes it, and a search gives it up.            *)
Completes(t) ==
  \/ \E c \in Chain : On(c, t)
  \/ hook[t] # "none" \/ win[t] = "refused"
  \/ \E c \in Chain : sync[c].at = "found" /\ sync[c].tx = t
Moves(t) ==
  \/ stage'[t] = stage[t] /\ (t \in overtaken' <=> t \in overtaken)
  \/ stage'[t] = "pending" /\ Sign(t)
  \/ stage'[t] = "synced" /\ Completes(t)
  \/ /\ stage'[t] = "absent" /\ stage[t] # "none"
     /\ Final(t) => t \in overtaken'

(* Every step does one of these to every incident.                           *)
LEMMA StageSteps ==
  ASSUME TInv, [Next]_vars, NEW t \in Tx
  PROVE  Moves(t)
<1>1. stage \in [Tx -> Stage]
  BY DEF TInv, TypeOK
<1>2. ASSUME NEW u \in Tx, Window(u) PROVE Moves(t)
  BY <1>1, <1>2 DEF Window, Sign, Recorded, Broadcast, Refused, Close, stores, Save,
     SaveHistory, Mutate, Staged, Final, Moves, Completes
<1>3. ASSUME NEW u \in Tx, Handler(u) PROVE Moves(t)
  BY <1>1, <1>3 DEF Handler, Download, HookAbsent, HookRecord, HookRecorded, stores,
     Save, SaveHistory, Mutate, Staged, Final, MarkAbsent, Moves, Completes
<1>4. ASSUME NEW c \in Chain, Walk(c) PROVE Moves(t)
  <2>1. sync[c].next \in 1..Len(blocks[c])
    BY <1>4 DEF Walk, TInv, TypeOK, Within, InPage, Paging, Sync
  <2>2. DOMAIN blocks[c] = 1..Len(blocks[c])
    BY DEF TInv, TypeOK
  <2>3. On(c, blocks[c][sync[c].next])
    BY <2>1, <2>2 DEF On
  <2>. QED
    BY <1>1, <1>4, <2>3 DEF Walk, Save, Mutate, Staged, Final, stores, Moves, Completes
<1>5. ASSUME NEW c \in Chain, Merge(c) PROVE Moves(t)
  BY <1>1, <1>5 DEF Merge, Mutate, Staged, Final, MarkAbsent, stores, Moves, Completes
<1>6. ASSUME NEW c \in Chain, Feed(c), ~Walk(c), ~Merge(c) PROVE Moves(t)
  BY <1>6 DEF Feed, Latest, Subscribe, Fetch, ReadIncidents, SyncRecorded, SaveHistory,
     PageEnds, Pending, Finish, Look, stores, Moves
<1>7. ASSUME NEW u \in Tx, Commit(u) PROVE Moves(t)
  BY <1>7 DEF Commit, stores, Moves
<1>8. ASSUME (\E c \in Chain : Faults(c)) \/ Crash PROVE Moves(t)
  BY <1>8 DEF Faults, SyncFails, Lose, Restart, Recreate, Crash, stores, Moves
<1>9. CASE UNCHANGED vars
  BY <1>9 DEF vars, stores, Moves
<1>. QED
  BY <1>2, <1>3, <1>4, <1>5, <1>6, <1>7, <1>8, <1>9 DEF Next, Faults

(* What a step may do to the other store and to who has the incidents open.  *)
Shows == shown' = shown \/ (saving # None /\ shown' = shown \cup {saving.tx})
Opens ==
  \/ saving' \in {saving, None}
  \/ saving' \in Saver /\ stage'[saving'.tx] # "none"

(* Every step does one of these to them.                                     *)
LEMMA HistorySteps ==
  ASSUME TInv, [Next]_vars
  PROVE  Shows /\ Opens
<1> DEFINE Both == Shows /\ Opens
<1>1. stage \in [Tx -> Stage] /\ Out \subseteq Tx /\ None \notin Saver
  BY ConstantsAssumption DEF TInv, TypeOK
<1>2. ASSUME NEW t \in Tx, NEW by \in {"window", "hook", "sync"}, NEW to \in {"pending", "synced"},
             \/ Save(by, t, to) \/ SaveHistory(by, t) \/ Mutate(t, to) \/ MarkAbsent(t)
             \/ UNCHANGED stores
      PROVE  Both
  <2>1. [by |-> by, tx |-> t] \in Saver
    BY DEF Saver
  <2>. QED
    BY <1>1, <1>2, <2>1 DEF Save, SaveHistory, Mutate, Staged, MarkAbsent, stores, Shows,
       Opens
<1>3. ASSUME NEW t \in Tx, Window(t) PROVE Both
  <2>1. CASE Close(t)
    BY <2>1 DEF Close, Shows, Opens
  <2>2. CASE ~Close(t)
    BY <1>2, <1>3, <2>2 DEF Window, Sign, Recorded, Broadcast, Refused
  <2>. QED
    BY <2>1, <2>2
<1>4. ASSUME NEW t \in Tx, Handler(t) PROVE Both
  BY <1>2, <1>4 DEF Handler, Download, HookAbsent, HookRecord, HookRecorded
<1>5. ASSUME NEW c \in Chain, Walk(c) \/ SyncRecorded(c) PROVE Both
  <2>1. sync[c].next \in 1..Len(blocks[c])
    BY <1>5 DEF Walk, SyncRecorded, TInv, TypeOK, Within, InPage, Paging, Sync
  <2>2. blocks[c][sync[c].next] \in Tx
    BY <2>1 DEF TInv, TypeOK
  <2>. QED
    BY <1>2, <1>5, <2>2 DEF Walk, SyncRecorded
<1>6. ASSUME NEW c \in Chain, Merge(c) PROVE Both
  <2>1. sync[c].tx \in Tx
    BY <1>6 DEF Merge, TInv, Within, InPage
  <2>. QED
    BY <1>2, <1>6, <2>1 DEF Merge
<1>7. ASSUME NEW c \in Chain, Feed(c), ~Walk(c), ~SyncRecorded(c), ~Merge(c) PROVE Both
  BY <1>7 DEF Feed, Latest, Subscribe, Fetch, ReadIncidents, PageEnds, Pending, Finish,
     Look, stores, Shows, Opens
<1>8. ASSUME NEW t \in Tx, Commit(t) PROVE Both
  BY <1>8 DEF Commit, stores, Shows, Opens
<1>9. ASSUME (\E c \in Chain : Faults(c)) \/ Crash PROVE Both
  BY <1>9 DEF Faults, SyncFails, Lose, Restart, Recreate, Crash, stores, Shows, Opens
<1>10. CASE UNCHANGED vars
  BY <1>10 DEF vars, stores, Shows, Opens
<1>. QED
  BY <1>3, <1>4, <1>5, <1>6, <1>7, <1>8, <1>9, <1>10 DEF Next, Faults

(* Whoever has the incidents open has put a transaction there, and the history
   lists only such: the inductive form of OrderKnown.                        *)
OInv == OrderKnown /\ (saving # None => stage[saving.tx] # "none")

(* Every step keeps it.                                                      *)
LEMMA OrderStep == TInv /\ OInv /\ [Next]_vars => OInv'
<1> SUFFICES ASSUME TInv, OInv, [Next]_vars PROVE OInv'
  OBVIOUS
<1>1. \A t \in Tx : stage[t] # "none" => stage'[t] # "none"
  BY StageSteps DEF Moves
<1>2. shown \subseteq Tx /\ (saving # None => saving.tx \in Tx)
  BY DEF TInv, TypeOK, Saver
<1>3. Shows /\ Opens
  BY HistorySteps
<1>. QED
  BY <1>1, <1>2, <1>3, ConstantsAssumption DEF OInv, OrderKnown, Shows, Opens

(* record() saves the incident before the history that lists it: whatever ends
   between the two, and whoever writes to the same stores, filter() never meets an
   entry of the history that has no incident.                                *)
THEOREM HistoryKnown == Spec => []OrderKnown
<1>1. Init => OInv
  BY DEF Init, OInv, OrderKnown
<1>2. TInv /\ OInv /\ [Next]_vars => OInv'
  BY OrderStep
<1>3. OInv => OrderKnown
  BY DEF OInv
<1>. QED
  BY <1>1, <1>2, <1>3, TypesHold, PTL DEF Spec

-----------------------------------------------------------------------------
(* Where the transactions are: what the wallet has not sent is on no chain and not
   on its way there, it is in the incidents only once it is signed, and what a
   handler or a search deals with is on a chain.                             *)
OnChain(t) == \E c \in Chain : On(c, t)
Unsent == \A t \in Out :
            win[t] \in {"idle", "recording", "recorded"} => t \notin pool /\ ~OnChain(t)
Unsigned == \A t \in Out : win[t] = "idle" => stage[t] = "none"
Handled == \A t \in Tx : hook[t] # "none" => OnChain(t)
Found == \A c \in Chain : sync[c].at = "found" => OnChain(sync[c].tx)
Marked == \A t \in overtaken : stage[t] # "none"
CInv == Unsent /\ Unsigned /\ Handled /\ Found /\ Marked

(* Only a window and the chain itself change windows, the pool and the chains. *)
LEMMA OthersLeave ==
  ASSUME [Next]_vars
  PROVE  UNCHANGED <<win, chains>> \/ \E t \in Tx : Commit(t) \/ Window(t)
<1>1. ASSUME NEW t \in Tx, Handler(t) PROVE UNCHANGED <<win, chains>>
  BY <1>1 DEF Handler, Download, HookAbsent, HookRecord, HookRecorded
<1>2. ASSUME NEW c \in Chain, Feed(c) PROVE UNCHANGED <<win, chains>>
  <2>1. CASE \/ Latest(c) \/ Subscribe(c) \/ Fetch(c) \/ ReadIncidents(c) \/ Walk(c)
             \/ SyncRecorded(c)
    BY <2>1 DEF Latest, Subscribe, Fetch, ReadIncidents, Walk, SyncRecorded
  <2>2. CASE PageEnds(c) \/ Pending(c) \/ Merge(c) \/ Finish(c) \/ \E t \in Tx : Look(c, t)
    BY <2>2 DEF PageEnds, Pending, Merge, Finish, Look
  <2>. QED
    BY <1>2, <2>1, <2>2 DEF Feed
<1>3. ASSUME NEW c \in Chain, SyncFails(c) \/ Lose(c) \/ Restart(c) \/ Recreate(c)
      PROVE  UNCHANGED <<win, chains>>
  BY <1>3 DEF SyncFails, Lose, Restart, Recreate
<1>4. CASE Crash
  BY <1>4 DEF Crash
<1>5. CASE UNCHANGED vars
  BY <1>5 DEF vars
<1>. QED
  BY <1>1, <1>2, <1>3, <1>4, <1>5 DEF Next

(* The chains only grow, by what was on its way there.                       *)
LEMMA ChainGrows ==
  ASSUME TInv, [Next]_vars
  PROVE  /\ \A c \in Chain : /\ Len(blocks[c]) <= Len(blocks'[c])
                             /\ \A i \in DOMAIN blocks[c] : /\ i \in DOMAIN blocks'[c]
                                                            /\ blocks'[c][i] = blocks[c][i]
         /\ \A t \in Tx : OnChain(t) => OnChain(t)'
         /\ \A t \in Tx : OnChain(t)' => OnChain(t) \/ t \in pool
<1>1. blocks \in [Chain -> Seq(Tx)]
  BY DEF TInv, TypeOK
<1>2. CASE UNCHANGED blocks
  BY <1>1, <1>2 DEF OnChain, On
<1>3. ASSUME NEW u \in Tx, Commit(u)
      PROVE  /\ \A c \in Chain : /\ Len(blocks[c]) <= Len(blocks'[c])
                                 /\ \A i \in DOMAIN blocks[c] : /\ i \in DOMAIN blocks'[c]
                                                                /\ blocks'[c][i] = blocks[c][i]
             /\ \A t \in Tx : OnChain(t)' => OnChain(t) \/ t \in pool
  <2>1. /\ u \in pool
        /\ blocks' = [blocks EXCEPT ![ChainOf[u]] = Append(blocks[ChainOf[u]], u)]
    BY <1>3 DEF Commit
  <2>2. ASSUME NEW c \in Chain
        PROVE  /\ Len(blocks[c]) <= Len(blocks'[c])
               /\ \A i \in DOMAIN blocks[c] : i \in DOMAIN blocks'[c] /\ blocks'[c][i] = blocks[c][i]
               /\ \A i \in DOMAIN blocks'[c] : i \in DOMAIN blocks[c] \/ blocks'[c][i] = u
    <3>1. CASE blocks'[c] = blocks[c]
      BY <1>1, <3>1
    <3>2. CASE blocks'[c] = Append(blocks[c], u)
      <4>1. /\ DOMAIN blocks[c] = 1..Len(blocks[c])
            /\ DOMAIN blocks'[c] = 1..Len(blocks[c]) + 1
            /\ Len(blocks'[c]) = Len(blocks[c]) + 1
            /\ \A i \in 1..Len(blocks[c]) + 1 :
                  blocks'[c][i] = IF i <= Len(blocks[c]) THEN blocks[c][i] ELSE u
        BY <1>1, <3>2
      <4>. QED
        BY <1>1, <4>1
    <3>. QED
      BY <1>1, <2>1, <3>1, <3>2
  <2>3. ASSUME NEW t \in Tx, OnChain(t)' PROVE OnChain(t) \/ t \in pool
    <3>0. PICK c \in Chain : On(c, t)'
      BY <2>3 DEF OnChain
    <3>1. PICK i \in DOMAIN blocks'[c] : blocks'[c][i] = t
      BY <3>0 DEF On
    <3>2. i \in DOMAIN blocks[c] \/ t = u
      BY <2>2, <3>1
    <3>3. i \in DOMAIN blocks[c] => OnChain(t)
      BY <2>2, <3>1 DEF OnChain, On
    <3>. QED
      BY <2>1, <3>2, <3>3
  <2>. QED
    BY <2>2, <2>3
<1>4. UNCHANGED blocks \/ \E u \in Tx : Commit(u)
  BY OthersLeave DEF Window, Sign, Recorded, Broadcast, Refused, Close, chains
<1>5. (\E u \in Tx : Commit(u)) => \A t \in Tx : OnChain(t) => OnChain(t)'
  BY <1>3 DEF OnChain, On
<1>. QED
  BY <1>2, <1>3, <1>4, <1>5

(* What is not sent stays off the chains.                                    *)
LEMMA UnsentStep ==
  ASSUME TInv, Unsent, [Next]_vars
  PROVE  Unsent'
<1> SUFFICES ASSUME NEW t \in Out, win'[t] \in {"idle", "recording", "recorded"}
             PROVE  t \notin pool' /\ ~OnChain(t)'
  BY DEF Unsent
<1>1. t \in Tx
  BY ConstantsAssumption
<1>2. win \in [Tx -> {"idle", "recording", "recorded", "refused", "gone"}]
  BY DEF TInv, TypeOK
<1>3. /\ win[t] \in {"idle", "recording", "recorded"}
      /\ t \in pool' => t \in pool
  <2>1. ASSUME NEW u \in Tx, Window(u)
        PROVE  /\ win[t] \in {"idle", "recording", "recorded"}
               /\ t \in pool' => t \in pool
    BY <1>1, <1>2, <2>1 DEF Window, Sign, Recorded, Broadcast, Refused, Close, chains
  <2>2. UNCHANGED <<win, pool>> \/ \E u \in Tx : Commit(u) \/ Window(u)
    BY OthersLeave DEF chains
  <2>. QED
    BY <2>1, <2>2 DEF Commit
<1>4. t \notin pool /\ ~OnChain(t)
  BY <1>3 DEF Unsent
<1>. QED
  BY <1>1, <1>3, <1>4, ChainGrows

(* What is not signed stays out of the incidents.                            *)
LEMMA UnsignedStep ==
  ASSUME TInv, CInv, [Next]_vars
  PROVE  Unsigned'
<1> SUFFICES ASSUME NEW t \in Out, win'[t] = "idle" PROVE stage'[t] = "none"
  BY DEF Unsigned
<1>1. t \in Tx
  BY ConstantsAssumption
<1>2. win \in [Tx -> {"idle", "recording", "recorded", "refused", "gone"}]
  BY DEF TInv, TypeOK
<1>3. win[t] = "idle"
  <2>1. ASSUME NEW u \in Tx, Window(u) PROVE win[t] = "idle"
    BY <1>1, <1>2, <2>1 DEF Window, Sign, Recorded, Broadcast, Refused, Close
  <2>2. UNCHANGED win \/ \E u \in Tx : Window(u)
    BY OthersLeave DEF Commit
  <2>. QED
    BY <2>1, <2>2
<1>4. stage[t] = "none" /\ ~OnChain(t)
  BY <1>3 DEF CInv, Unsent, Unsigned
<1>5. ~Completes(t)
  BY <1>1, <1>3, <1>4 DEF Completes, CInv, Handled, Found, OnChain
<1>6. ~Sign(t)
  BY <1>1, <1>2 DEF Sign
<1>. QED
  BY <1>1, <1>4, <1>5, <1>6, StageSteps DEF Moves

(* What a handler deals with is on a chain.                                  *)
LEMMA HandledStep ==
  ASSUME TInv, Handled, [Next]_vars
  PROVE  Handled'
<1> SUFFICES ASSUME NEW t \in Tx, hook'[t] # "none" PROVE OnChain(t)'
  BY DEF Handled
<1>1. hook \in [Tx -> {"none", "event", "found", "absent", "recording"}]
  BY DEF TInv, TypeOK
<1>2. CASE hook[t] # "none"
  BY <1>2, ChainGrows DEF Handled
<1>3. CASE hook[t] = "none"
  <2>1. Commit(t)
    <3>1. ASSUME NEW u \in Tx, Handler(u) PROVE FALSE
      BY <1>1, <1>3, <3>1 DEF Handler, Download, HookAbsent, HookRecord, HookRecorded
    <3>2. ASSUME NEW u \in Tx, Commit(u) PROVE u = t
      BY <1>1, <1>3, <3>2 DEF Commit
    <3>3. ~UNCHANGED hook /\ ~Crash
      BY <1>3 DEF Crash
    <3>4. ASSUME NEW u \in Tx, Window(u) PROVE UNCHANGED hook
      BY <3>4 DEF Window, Sign, Recorded, Broadcast, Refused, Close
    <3>5. ASSUME NEW c \in Chain, Feed(c) PROVE UNCHANGED hook
      <4>1. CASE \/ Latest(c) \/ Subscribe(c) \/ Fetch(c) \/ ReadIncidents(c) \/ Walk(c)
                 \/ SyncRecorded(c)
        BY <4>1 DEF Latest, Subscribe, Fetch, ReadIncidents, Walk, SyncRecorded
      <4>2. CASE PageEnds(c) \/ Pending(c) \/ Merge(c) \/ Finish(c) \/ \E u \in Tx : Look(c, u)
        BY <4>2 DEF PageEnds, Pending, Merge, Finish, Look
      <4>. QED
        BY <3>5, <4>1, <4>2 DEF Feed
    <3>6. ASSUME NEW c \in Chain, SyncFails(c) \/ Lose(c) \/ Restart(c) \/ Recreate(c)
          PROVE  UNCHANGED hook
      BY <3>6 DEF SyncFails, Lose, Restart, Recreate
    <3>. QED
      BY <3>1, <3>2, <3>3, <3>4, <3>5, <3>6 DEF Next, vars
  <2>2. ChainOf[t] \in Chain /\ blocks \in [Chain -> Seq(Tx)]
    BY ConstantsAssumption DEF TInv, TypeOK
  <2>3. blocks'[ChainOf[t]] = Append(blocks[ChainOf[t]], t)
    BY <2>1, <2>2 DEF Commit
  <2>4. /\ Len(blocks[ChainOf[t]]) + 1 \in DOMAIN blocks'[ChainOf[t]]
        /\ blocks'[ChainOf[t]][Len(blocks[ChainOf[t]]) + 1] = t
    BY <2>2, <2>3
  <2>. QED
    BY <2>2, <2>4 DEF OnChain, On
<1>. QED
  BY <1>2, <1>3

(* What a search has found is on a chain.                                    *)
LEMMA FoundStep ==
  ASSUME TInv, Found, [Next]_vars
  PROVE  Found'
<1> SUFFICES ASSUME NEW c \in Chain, sync'[c].at = "found" PROVE OnChain(sync[c].tx)'
  BY DEF Found
<1>1. sync \in [Chain -> Sync] /\ \A d \in Chain : Within(d)
  BY DEF TInv, TypeOK
<1>2. Down.at = "down" /\ Failed.at = "failed"
  BY DEF Down, Failed
<1>3. CASE sync'[c] = sync[c]
  BY <1>1, <1>3, ChainGrows DEF Found, Within, InPage
<1>4. ASSUME NEW t \in Tx, Look(c, t) PROVE OnChain(sync[c].tx)'
  <2>1. CASE sync'[c] = [sync[c] EXCEPT !.todo = @ \ {t}]
    <3>1. sync[c].at = "check" /\ sync'[c].at = sync[c].at
      BY <1>1, <1>4, <2>1 DEF Look, Sync
    <3>. QED
      BY <3>1
  <2>2. CASE sync'[c] = [sync[c] EXCEPT !.todo = @ \ {t}, !.tx = t,
                                   !.at = IF On(c, t) THEN "found" ELSE "absent"]
    <3>1. sync'[c].tx = t /\ On(c, t)
      BY <1>1, <2>2 DEF Sync
    <3>. QED
      BY <3>1, ChainGrows DEF OnChain
  <2>. QED
    BY <1>1, <1>4, <2>1, <2>2 DEF Look
<1>5. CASE sync'[c] # sync[c] /\ ~\E t \in Tx : Look(c, t)
  <2>1. ASSUME NEW d \in Chain, Feed(d) PROVE FALSE
    <3>1. d = c
      BY <1>1, <1>5, <2>1, FeedSync
    <3>2. sync[c] \in Sync
      BY <1>1
    <3>3. CASE Latest(c) \/ Finish(c)
      BY <1>1, <1>5, <3>2, <3>3 DEF Latest, Finish, Down
    <3>7. CASE PageEnds(c)
      <4>1. sync'[c].at \in {"pending", "fetch"}
        BY <1>1, <3>2, <3>7 DEF PageEnds, Sync, Down
      <4>. QED
        BY <4>1
    <3>4. CASE Subscribe(c) \/ ReadIncidents(c) \/ Pending(c) \/ Merge(c)
      BY <1>1, <3>2, <3>4 DEF Subscribe, Begun, ReadIncidents, Pending, Merge, Sync
    <3>5. CASE Walk(c) \/ SyncRecorded(c)
      BY <1>1, <3>2, <3>5 DEF Walk, SyncRecorded, Popped, Sync
    <3>6. CASE Fetch(c)
      BY <1>1, <3>2, <3>6 DEF Fetch, Sync
    <3>. QED
      BY <1>5, <2>1, <3>1, <3>3, <3>7, <3>4, <3>5, <3>6 DEF Feed
  <2>2. ASSUME (\E d \in Chain : Faults(d)) \/ Crash PROVE FALSE
    BY <1>1, <1>2, <1>5, <2>2 DEF Faults, SyncFails, Lose, Restart, Recreate, Crash,
       Failed
  <2>3. UNCHANGED sync \/ (\E d \in Chain : Feed(d) \/ Faults(d)) \/ Crash
    BY DEF Next, Faults, Window, Sign, Recorded, Broadcast, Refused, Close, Handler, Download,
       HookAbsent, HookRecord, HookRecorded, Commit, vars
  <2>. QED
    BY <1>5, <2>1, <2>2, <2>3
<1>. QED
  BY <1>3, <1>4, <1>5

(* What was marked is in the incidents.                                      *)
LEMMA MarkedStep ==
  ASSUME TInv, Marked, [Next]_vars
  PROVE  Marked'
<1>1. TInv'
  BY TypeStep
<1>2. ASSUME NEW t \in Tx, t \in overtaken' PROVE stage'[t] # "none"
  BY <1>2, StageSteps DEF Moves, Marked
<1>. QED
  BY <1>1, <1>2 DEF Marked, TInv, TypeOK

(* It all holds at first, and every step keeps it.                           *)
LEMMA ChainsHold == Spec => []CInv
<1>1. ASSUME Init PROVE CInv
  <2>1. \A t \in Tx : ~OnChain(t)
    <3>1. \A c \in Chain : DOMAIN blocks[c] = {}
      BY <1>1 DEF Init
    <3>. QED
      BY <3>1 DEF OnChain, On
  <2>2. Unsent /\ Unsigned
    BY <1>1, <2>1, ConstantsAssumption DEF Init, Unsent, Unsigned
  <2>3. Handled /\ Found
    BY <1>1 DEF Init, Handled, Found, Down
  <2>4. Marked
    BY <1>1 DEF Init, Marked
  <2>. QED
    BY <2>2, <2>3, <2>4 DEF CInv
<1>2. TInv /\ CInv /\ [Next]_vars => CInv'
  BY UnsentStep, UnsignedStep, HandledStep, FoundStep, MarkedStep DEF CInv
<1>. QED
  BY <1>1, <1>2, TypesHold, PTL DEF Spec

-----------------------------------------------------------------------------
(* What was recorded in its final version has been so ever since, though it may
   be marked absent: what is sent is signed no more.                         *)
LEMMA FinalStep ==
  ASSUME TInv, CInv, [Next]_vars, NEW t \in Tx, Final(t)
  PROVE  Final(t)'
<1>1. ~Sign(t)
  BY DEF Sign, CInv, Unsigned, Marked, Final
<1>. QED
  BY <1>1, StageSteps DEF Moves, Final

-----------------------------------------------------------------------------
(* How far a synchronization has come: the transactions of b from lo to hi are
   done, which is to say recorded in their final version.                    *)
Done == {t \in Tx : Final(t)}
Covered(b, done, lo, hi) ==
  \A i \in DOMAIN b : lo <= i /\ i <= hi => b[i] \in done

(* What holds of the synchronization s of a chain with the blocks b and the
   synchronized height h.  A page is dealt with from its top, each page
   goes on where the last one ended, and the search ends when it has come below
   what was covered before or to the first block.                            *)
Searched(s, h, b, done) ==
  /\ h <= Len(b) /\ Covered(b, done, 1, h)
  /\ s.at \notin {"down", "up", "failed"} => h <= s.latest /\ s.latest <= Len(b)
  /\ s.at \in Paging \cup {"probe", "fetch"} => s.from = h
  /\ s.at = "fetch" => Covered(b, done, s.key, s.latest)
  /\ s.at \in Paging => /\ Covered(b, done, s.next + 1, s.latest)
                        /\ s.key <= s.low \/ s.latest <= s.low
  /\ s.at \in {"walk", "recording"} => s.known \subseteq done
  /\ s.at = "recording" => b[s.next] \in done
  /\ s.at \in {"pending", "check", "found", "absent"} =>
        Covered(b, done, 1, s.latest)
SInv == \A c \in Chain : Searched(sync[c], height[c], blocks[c], Done)

(* It stays so while the chain grows and incidents are completed.            *)
LEMMA SearchedStays ==
  ASSUME TInv, CInv, [Next]_vars, NEW c \in Chain,
         Searched(sync[c], height[c], blocks[c], Done)
  PROVE  Searched(sync[c], height[c], blocks'[c], Done')
<1> DEFINE s == sync[c]
<1>1. /\ s \in Sync /\ InPage(s, Len(blocks[c])) /\ height[c] \in Nat
      /\ blocks[c] \in Seq(Tx)
  BY DEF TInv, TypeOK, Within
<1>2. TInv'
  BY TypeStep
<1>3. Len(blocks'[c]) \in Nat /\ Len(blocks[c]) <= Len(blocks'[c])
  BY <1>2, ChainGrows DEF TInv, TypeOK
<1>4. \A i \in DOMAIN blocks[c] : i \in DOMAIN blocks'[c] /\ blocks'[c][i] = blocks[c][i]
  BY ChainGrows
<1>5. Done \subseteq Done' /\ Done \subseteq Tx
  BY FinalStep DEF Done
<1>6. DOMAIN blocks[c] = 1..Len(blocks[c]) /\ DOMAIN blocks'[c] = 1..Len(blocks'[c])
  BY <1>2 DEF TInv, TypeOK
<1>7. ASSUME NEW lo \in Nat, NEW hi \in Nat, hi <= Len(blocks[c]),
             Covered(blocks[c], Done, lo, hi)
      PROVE  Covered(blocks'[c], Done', lo, hi)
  <2> SUFFICES ASSUME NEW i \in DOMAIN blocks'[c], lo <= i, i <= hi
               PROVE  blocks'[c][i] \in Done'
    BY DEF Covered
  <2>1. i \in DOMAIN blocks[c]
    BY <1>1, <1>3, <1>6, <1>7
  <2>2. blocks[c][i] \in Done
    BY <1>7, <2>1 DEF Covered
  <2>. QED
    BY <1>4, <1>5, <2>1, <2>2
<1>8. /\ s.latest \in Nat /\ s.key \in Nat /\ s.next \in Nat /\ s.next + 1 \in Nat
      /\ s.known \subseteq Tx /\ s.low \in Nat
  BY <1>1 DEF Sync
<1>9. s.at = "recording" => s.next \in DOMAIN blocks[c]
  BY <1>1, <1>6, <1>8 DEF InPage, Paging, Sync
<1> HIDE DEF s
<1>10. height[c] <= Len(blocks'[c]) /\ Covered(blocks'[c], Done', 1, height[c])
  BY <1>1, <1>3, <1>7 DEF Searched
<1>11. s.at \notin {"down", "up", "failed"} =>
          /\ height[c] <= s.latest
          /\ s.latest <= Len(blocks[c]) /\ s.latest <= Len(blocks'[c])
  BY <1>1, <1>3, <1>8 DEF Searched, s
<1>12. s.at = "fetch" => Covered(blocks'[c], Done', s.key, s.latest)
  BY <1>7, <1>8, <1>11 DEF Searched, s
<1>13. s.at \in Paging => /\ Covered(blocks'[c], Done', s.next + 1, s.latest)
                          /\ s.key <= s.low \/ s.latest <= s.low
  BY <1>7, <1>8, <1>11 DEF Searched, Paging, s
<1>14. s.at \in {"pending", "check", "found", "absent"} => Covered(blocks'[c], Done', 1, s.latest)
  BY <1>7, <1>8, <1>11 DEF Searched, s
<1>15. s.at \in {"walk", "recording"} => s.known \subseteq Done'
  BY <1>5, <1>8 DEF Searched, s
<1>16. s.at = "recording" => blocks'[c][s.next] \in Done'
  BY <1>1, <1>4, <1>5, <1>9 DEF Searched, s
<1>. QED
  BY <1>10, <1>11, <1>12, <1>13, <1>14, <1>15, <1>16 DEF Searched, s

(* A step of a feed keeps it: the case of each state of the search.          *)
LEMMA FeedSearched ==
  ASSUME TInv, NEW c \in Chain, Feed(c), Searched(sync[c], height[c], blocks[c], Done')
  PROVE  Searched(sync'[c], height'[c], blocks[c], Done')
<1> DEFINE s == sync[c]
           n == sync'[c]
           h == height[c]
           b == blocks[c]
           st == Done'
<1>1. /\ s \in Sync /\ InPage(s, Len(b)) /\ sync \in [Chain -> Sync]
      /\ h \in Nat /\ height \in [Chain -> Nat]
      /\ b \in Seq(Tx) /\ Len(b) \in Nat /\ DOMAIN b = 1..Len(b)
  BY DEF TInv, TypeOK, Within
<1>2. /\ s.latest \in Nat /\ s.from \in Nat /\ s.next \in Nat /\ s.key \in Nat \ {0}
      /\ s.low \in Nat
  BY <1>1 DEF Sync
<1>3. stage \in [Tx -> Stage] /\ Done' = {t \in Tx : stage'[t] = "synced" \/ t \in overtaken'}
  BY DEF TInv, TypeOK, Done, Final
<1> HIDE DEF s, n, h, b, st
<1>4. Searched(s, h, b, st)
  BY DEF s, h, b, st
<1>5. CASE Latest(c)
  <2>1. /\ n = [Down EXCEPT !.at = "latest", !.latest = Len(b)] /\ height'[c] = h
    BY <1>1, <1>5 DEF Latest, s, n, h, b
  <2>2. n.at = "latest" /\ n.latest = Len(b)
    BY <2>1 DEF Down
  <2>. QED
    BY <1>1, <1>4, <2>1, <2>2 DEF Searched, Paging, n, h, b, st
<1>6. CASE Subscribe(c)
  <2>1. n = [s EXCEPT !.at = "probe", !.from = h] /\ height'[c] = h /\ s.at = "latest"
    BY <1>1, <1>6 DEF Subscribe, Begun, s, n, h
  <2>2. n.at = "probe" /\ n.from = h /\ n.latest = s.latest
    BY <1>1, <2>1 DEF Sync
  <2>. QED
    BY <1>4, <2>1, <2>2 DEF Searched, Paging, n, h, b, st
<1>7. CASE Fetch(c)
  <2> DEFINE top == IF s.at = "probe" THEN Len(b) ELSE s.key - 1
             size == IF s.at = "probe" THEN Probe ELSE Limit
             key == IF top > size THEN top - size + 1 ELSE 1
             low == IF key <= top /\ key < s.latest THEN key ELSE s.latest
  <2>1. /\ n = [s EXCEPT !.at = "read", !.next = top, !.key = key, !.low = low]
        /\ height'[c] = h /\ s.at \in {"probe", "fetch"}
    BY <1>1, <1>7 DEF Fetch, s, n, h, b
  <2>2. /\ n.at = "read" /\ n.latest = s.latest /\ n.from = s.from /\ n.next = top
        /\ n.key = key /\ n.low = low
    BY <1>1, <2>1 DEF Sync
  <2>3. Covered(b, st, top + 1, s.latest)
    <3>1. CASE s.at = "probe"
      BY <1>1, <1>2, <1>4, <3>1 DEF Searched, Covered
    <3>2. CASE s.at = "fetch"
      <4>1. top + 1 = s.key
        BY <1>2, <3>2
      <4>. QED
        BY <1>4, <3>2, <4>1 DEF Searched
    <3>. QED
      BY <2>1, <3>1, <3>2
  <2>4. key \in Nat
    BY SMTT(30), <1>1, <1>2, ConstantsAssumption
  <2>5. key <= low \/ s.latest <= low
    BY <1>2, <2>4
  <2>6. s.latest <= Len(b) /\ s.from = h
    BY <1>4, <2>1 DEF Searched
  <2> HIDE DEF top, size, key, low
  <2>. QED
    BY <1>4, <2>1, <2>2, <2>3, <2>5, <2>6 DEF Searched, Paging, n, h, b, st
<1>8. CASE ReadIncidents(c)
  <2>1. /\ n = [s EXCEPT !.at = "walk", !.known = {t \in Tx : stage[t] = "synced"}]
        /\ height'[c] = h /\ s.at = "read" /\ UNCHANGED stage
    BY <1>1, <1>8 DEF ReadIncidents, stores, s, n, h
  <2>2. /\ n.at = "walk" /\ n.latest = s.latest /\ n.from = s.from /\ n.next = s.next
        /\ n.key = s.key /\ n.low = s.low /\ n.known = {t \in Tx : stage[t] = "synced"}
    BY <1>1, <2>1 DEF Sync
  <2>3. /\ s.latest <= Len(b) /\ s.from = h /\ Covered(b, st, s.next + 1, s.latest)
        /\ s.key <= s.low \/ s.latest <= s.low
    BY <1>4, <2>1 DEF Searched, Paging
  <2>4. n.known \subseteq st
    BY <1>3, <2>1, <2>2 DEF st
  <2>. QED
    BY <1>4, <2>1, <2>2, <2>3, <2>4 DEF Searched, Paging, n, h, b, st
<1>9. ASSUME s.at \in {"walk", "recording"}, height'[c] = h,
             n = [s EXCEPT !.next = s.next - 1, !.at = "walk"],
             s.next \in 1..Len(b), b[s.next] \in st
      PROVE  Searched(n, height'[c], b, st)
  <2>1. /\ n.at = "walk" /\ n.latest = s.latest /\ n.from = s.from /\ n.next = s.next - 1
        /\ n.key = s.key /\ n.low = s.low /\ n.known = s.known
    BY <1>1, <1>9 DEF Sync
  <2>2. /\ s.latest <= Len(b) /\ s.from = h /\ Covered(b, st, s.next + 1, s.latest)
        /\ s.key <= s.low \/ s.latest <= s.low
        /\ s.known \subseteq st
    BY <1>4, <1>9 DEF Searched, Paging
  <2>3. Covered(b, st, (s.next - 1) + 1, s.latest)
    BY <1>1, <1>2, <1>9, <2>2 DEF Covered
  <2>. QED
    BY <1>4, <1>9, <2>1, <2>2, <2>3 DEF Searched, Paging
<1>10. CASE Walk(c)
  <2> DEFINE t == b[s.next]
  <2>1. s.at = "walk" /\ s.next \in 1..Len(b) /\ height'[c] = h
    BY <1>1, <1>2, <1>10 DEF Walk, InPage, Paging, s, h
  <2>2. t \in Tx
    BY <1>1, <2>1
  <2>3. CASE /\ n = [s EXCEPT !.next = s.next - 1, !.at = "walk"]
             /\ t \in st
    BY <1>9, <2>1, <2>3 DEF n, b, st
  <2>4. CASE n = [s EXCEPT !.at = "recording"] /\ t \in st
    <3>1. /\ n.at = "recording" /\ n.latest = s.latest /\ n.from = s.from
          /\ n.next = s.next /\ n.key = s.key /\ n.low = s.low /\ n.known = s.known
      BY <1>1, <2>4 DEF Sync
    <3>. QED
      BY <1>4, <2>1, <2>4, <3>1 DEF Searched, Paging, n, b, st
  <2>5. \/ n = [s EXCEPT !.next = s.next - 1, !.at = "walk"] /\ t \in st
        \/ n = [s EXCEPT !.at = "recording"] /\ t \in st
    <3>1. s.known \subseteq st
      BY <1>4, <2>1 DEF Searched
    <3>2. stage'[t] = "synced" => t \in st
      BY <1>3, <2>2 DEF st
    <3>. QED
      BY <1>1, <1>3, <1>10, <2>2, <3>1, <3>2
         DEF Walk, Popped, Save, Mutate, Staged, s, n, b
  <2>. QED
    BY <2>3, <2>4, <2>5
<1>11. CASE SyncRecorded(c)
  <2>1. /\ s.at = "recording" /\ s.next \in 1..Len(b) /\ height'[c] = h
        /\ n = [s EXCEPT !.next = s.next - 1, !.at = "walk"]
    BY <1>1, <1>2, <1>11 DEF SyncRecorded, Popped, InPage, Paging, s, n, h
  <2>2. b[s.next] \in st
    BY <1>4, <2>1 DEF Searched
  <2>. QED
    BY <1>9, <2>1, <2>2 DEF n, b, st
<1>12. CASE PageEnds(c)
  <2>1. s.at = "walk" /\ s.next < s.key /\ height'[c] = h
    BY <1>12 DEF PageEnds, s, h
  <2>2. /\ s.latest <= Len(b) /\ s.from = h /\ Covered(b, st, s.next + 1, s.latest)
        /\ s.key <= s.low \/ s.latest <= s.low
        /\ h <= Len(b) /\ Covered(b, st, 1, h) /\ h <= s.latest
    BY <1>4, <2>1 DEF Searched, Paging
  <2>3. CASE n = [Down EXCEPT !.at = "pending", !.latest = s.latest]
             /\ (s.from > s.low \/ s.key = 1)
    <3>1. n.at = "pending" /\ n.latest = s.latest
      BY <2>3 DEF Down
    <3>2. Covered(b, st, 1, s.latest)
      BY <1>1, <1>2, <2>1, <2>2, <2>3 DEF Covered
    <3>. QED
      BY <2>1, <2>2, <3>1, <3>2 DEF Searched, Paging, n, b, st
  <2>4. CASE n = [s EXCEPT !.at = "fetch", !.known = {}]
    <3>1. n.at = "fetch" /\ n.latest = s.latest /\ n.from = s.from /\ n.key = s.key
      BY <1>1, <2>4 DEF Sync
    <3>2. Covered(b, st, s.key, s.latest)
      BY <1>1, <1>2, <2>1, <2>2 DEF Covered
    <3>. QED
      BY <2>1, <2>2, <3>1, <3>2 DEF Searched, Paging, n, b, st
  <2>. QED
    BY <1>1, <1>12, <2>3, <2>4 DEF PageEnds, s, n
<1>13. CASE Pending(c) \/ Merge(c) \/ \E t \in Tx : Look(c, t)
  <2>1. /\ s.at \in {"pending", "check", "found", "absent"} /\ height'[c] = h
        /\ n.at \in {"check", "found", "absent"} /\ n.latest = s.latest
    <3>1. CASE Pending(c)
      BY <1>1, <3>1 DEF Pending, Sync, s, n, h
    <3>2. CASE Merge(c)
      BY <1>1, <3>2 DEF Merge, Sync, s, n, h
    <3>3. ASSUME NEW t \in Tx, Look(c, t)
          PROVE  /\ s.at = "check" /\ height'[c] = h
                 /\ n.at \in {"check", "found", "absent"} /\ n.latest = s.latest
      BY <1>1, <3>3 DEF Look, Sync, s, n, h
    <3>. QED
      BY <1>13, <3>1, <3>2, <3>3
  <2>. QED
    BY <1>4, <2>1 DEF Searched, Paging, n, b, st
<1>14. CASE Finish(c)
  <2>1. s.at = "check" /\ n.at = "up" /\ height'[c] = s.latest
    BY <1>1, <1>14 DEF Finish, Down, s, n
  <2>. QED
    BY <1>4, <2>1 DEF Searched, Paging, n, b, st
<1>. QED
  BY <1>5, <1>6, <1>7, <1>8, <1>10, <1>11, <1>12, <1>13, <1>14 DEF Feed, n, b, st

(* Every step keeps it.                                                      *)
LEMMA SearchStep ==
  ASSUME TInv, CInv, SInv, [Next]_vars
  PROVE  SInv'
<1> SUFFICES ASSUME NEW c \in Chain
             PROVE  Searched(sync'[c], height'[c], blocks'[c], Done')
  BY DEF SInv
<1>1. Searched(sync[c], height[c], blocks'[c], Done')
  BY SearchedStays DEF SInv
<1>2. CASE Feed(c)
  <2>1. UNCHANGED blocks
    BY <1>2 DEF Feed, Latest, Subscribe, Fetch, ReadIncidents, Walk, SyncRecorded, PageEnds,
       Pending, Merge, Finish, Look, chains
  <2>. QED
    BY <1>1, <1>2, <2>1, FeedSearched
<1>3. ASSUME NEW d \in Chain, Feed(d), d # c PROVE sync'[c] = sync[c] /\ height'[c] = height[c]
  <2>1. sync \in [Chain -> Sync] /\ height \in [Chain -> Nat]
    BY DEF TInv, TypeOK
  <2>2. sync' = [sync EXCEPT ![d] = sync'[d]]
    BY <1>3, FeedSync
  <2>3. UNCHANGED height \/ height' = [height EXCEPT ![d] = sync[d].latest]
    BY <1>3 DEF Feed, Latest, Subscribe, Fetch, ReadIncidents, Walk, SyncRecorded, PageEnds,
       Pending, Merge, Finish, Look
  <2>. QED
    BY <1>3, <2>1, <2>2, <2>3
<1>4. ASSUME (\E d \in Chain : Faults(d)) \/ Crash
      PROVE  sync'[c] \in {sync[c], Down, Failed} /\ height'[c] = height[c]
  BY <1>4 DEF Faults, SyncFails, Lose, Restart, Recreate, Crash, Failed, TInv, TypeOK
<1>5. (\E d \in Chain : Feed(d) \/ Faults(d)) \/ Crash \/ UNCHANGED <<sync, height>>
  BY DEF Next, Faults, Window, Sign, Recorded, Broadcast, Refused, Close, Handler, Download,
     HookAbsent, HookRecord, HookRecorded, Commit, vars
<1>6. /\ Searched(Down, height[c], blocks'[c], Done')
      /\ Searched(Failed, height[c], blocks'[c], Done')
  BY <1>1 DEF Searched, Down, Failed, Paging
<1>. QED
  BY <1>1, <1>2, <1>3, <1>4, <1>5, <1>6

(* synchronize() leaves nothing out: whatever is committed, recorded or marked by
   others while it searches, whatever fails, whenever the worker ends and however
   often, each transaction up to the height that it saves has been recorded as
   synced, for pages of any size.                                            *)
THEOREM NothingMissed == Spec => []SyncCovers
<1>1. ASSUME Init PROVE SInv
  <2>1. \A c \in Chain : height[c] = 0 /\ blocks[c] = <<>> /\ sync[c] = Down
    BY <1>1 DEF Init
  <2>2. Len(<<>>) = 0 /\ DOMAIN <<>> = {}
    OBVIOUS
  <2>. QED
    BY <2>1, <2>2 DEF SInv, Searched, Covered, Down, Paging
<1>2. TInv /\ CInv /\ SInv /\ [Next]_vars => SInv'
  BY SearchStep
<1>3. TInv /\ SInv => SyncCovers
  BY DEF SInv, Searched, Covered, Done, SyncCovers, TInv, TypeOK
<1>. QED
  BY <1>1, <1>2, <1>3, TypesHold, ChainsHold, PTL DEF Spec

-----------------------------------------------------------------------------
(* Nothing slips through.  A transaction is settled when it is done, or its event
   is being handled, or was lost by the chain's feed.                        *)
Settled == {t \in Tx : Final(t) \/ hook[t] \in {"event", "found"} \/ t \in missed}

(* From where the search has come up to the end of the chain, all are settled. *)
Gapless(s, b, settled) ==
  /\ s.at = "fetch" => Covered(b, settled, s.key, Len(b))
  /\ s.at \in Paging => Covered(b, settled, s.next + 1, Len(b))
  /\ s.at \in {"pending", "check", "found", "absent", "up"} =>
        Covered(b, settled, 1, Len(b))
Beyond == {"fetch", "read", "walk", "recording", "pending", "check", "found", "absent",
           "up"}

(* A chain has only its own transactions, and a feed that searches has subscribed. *)
Placed == \A c \in Chain : \A i \in DOMAIN blocks[c] : ChainOf[blocks[c][i]] = c
Hears == \A c \in Chain : sync[c].at \in Beyond \cup {"probe"} => conn[c] # "none"
GInv == Placed /\ Hears /\ \A c \in Chain : Gapless(sync[c], blocks[c], Settled)

(* The blocks after a step: one is new at most, and is settled if the feed listens. *)
LEMMA BlocksAfter ==
  ASSUME TInv, Placed, Hears, [Next]_vars, NEW c \in Chain
  PROVE  /\ Len(blocks[c]) <= Len(blocks'[c])
         /\ \A i \in DOMAIN blocks'[c] :
               /\ ChainOf[blocks'[c][i]] = c
               /\ \/ i \in DOMAIN blocks[c] /\ blocks'[c][i] = blocks[c][i]
                  \/ sync[c].at \in Beyond => blocks'[c][i] \in Settled'
<1>1. blocks \in [Chain -> Seq(Tx)] /\ conn \in Conns
      /\ hook \in [Tx -> {"none", "event", "found", "absent", "recording"}]
  BY DEF TInv, TypeOK, Conns
<1>2. CASE UNCHANGED blocks
  BY <1>1, <1>2 DEF Placed
<1>3. ASSUME NEW u \in Tx, Commit(u)
      PROVE  /\ Len(blocks[c]) <= Len(blocks'[c])
             /\ \A i \in DOMAIN blocks'[c] :
                   /\ ChainOf[blocks'[c][i]] = c
                   /\ \/ i \in DOMAIN blocks[c] /\ blocks'[c][i] = blocks[c][i]
                      \/ sync[c].at \in Beyond => blocks'[c][i] \in Settled'
  <2>1. blocks' = [blocks EXCEPT ![ChainOf[u]] = Append(blocks[ChainOf[u]], u)]
    BY <1>3 DEF Commit
  <2>2. CASE ChainOf[u] # c
    BY <1>1, <2>1, <2>2 DEF Placed
  <2>3. CASE ChainOf[u] = c
    <3>1. blocks'[c] = Append(blocks[c], u)
      BY <1>1, <2>1, <2>3
    <3>2. /\ DOMAIN blocks[c] = 1..Len(blocks[c])
          /\ DOMAIN blocks'[c] = 1..Len(blocks[c]) + 1
          /\ Len(blocks'[c]) = Len(blocks[c]) + 1 /\ Len(blocks[c]) \in Nat
          /\ \A i \in 1..Len(blocks[c]) + 1 :
                blocks'[c][i] = IF i <= Len(blocks[c]) THEN blocks[c][i] ELSE u
      BY <1>1, <3>1
    <3>3. sync[c].at \in Beyond => u \in Settled'
      <4> SUFFICES ASSUME sync[c].at \in Beyond PROVE u \in Settled'
        OBVIOUS
      <4>1. conn[c] \in {"up", "away", "healed", "closed"} /\ Listening(c)
        BY <1>1 DEF Hears, Conns, Listening, Beyond
      <4>2. hook'[u] = "event" \/ u \in missed'
        BY <1>1, <1>3, <2>3, <4>1 DEF Commit
      <4>. QED
        BY <4>2 DEF Settled
    <3>4. \A i \in DOMAIN blocks'[c] :
             \/ i \in DOMAIN blocks[c] /\ blocks'[c][i] = blocks[c][i]
             \/ blocks'[c][i] = u
      BY <3>2
    <3>. QED
      BY <2>3, <3>2, <3>3, <3>4 DEF Placed
  <2>. QED
    BY <2>2, <2>3
<1>4. UNCHANGED blocks \/ \E u \in Tx : Commit(u)
  BY OthersLeave DEF Window, Sign, Recorded, Broadcast, Refused, Close, chains
<1>. QED
  BY <1>2, <1>3, <1>4

(* A settled transaction stays so until the chain's feed is made again.      *)
LEMMA SettledStays ==
  ASSUME TInv, CInv, [Next]_vars, ~Crash, NEW t \in Settled, ~Recreate(ChainOf[t])
  PROVE  t \in Settled'
<1>1. t \in Tx
      /\ hook \in [Tx -> {"none", "event", "found", "absent", "recording"}]
  BY DEF Settled, TInv, TypeOK
<1>2. Final(t) => Final(t)'
  BY <1>1, FinalStep
<1>3. CASE UNCHANGED <<hook, missed>>
  BY <1>1, <1>2, <1>3 DEF Settled
<1>4. ASSUME NEW u \in Tx, Commit(u) PROVE t \in Settled'
  <2>1. missed \subseteq missed' /\ hook' \in {hook, [hook EXCEPT ![u] = "event"]}
    BY <1>4 DEF Commit
  <2>. QED
    BY <1>1, <1>2, <2>1 DEF Settled
<1>5. ASSUME NEW u \in Tx, Handler(u) PROVE t \in Settled'
  <2>1. missed \subseteq missed' /\ (t # u => hook'[t] = hook[t])
    BY <1>1, <1>5 DEF Handler, Download, HookAbsent, HookRecord, HookRecorded
  <2>2. ASSUME t = u, hook[t] \in {"event", "found"} PROVE t \in Settled'
    <3>1. CASE Download(t)
      <4>1. hook'[t] = "found" \/ t \in missed'
        BY <1>1, <3>1 DEF Download
      <4>. QED
        BY <1>1, <4>1 DEF Settled
    <3>2. CASE HookRecord(t)
      <4>1. stage \in [Tx -> Stage]
        BY DEF TInv, TypeOK
      <4>2. stage'[t] = "synced"
        BY <1>1, <3>2, <4>1 DEF HookRecord, Save, Mutate, Staged
      <4>. QED
        BY <1>1, <4>2 DEF Settled, Final
    <3>. QED
      BY <1>5, <2>2, <3>1, <3>2 DEF Handler, HookAbsent, HookRecorded
  <2>. QED
    BY <1>1, <1>2, <2>1, <2>2 DEF Settled
<1>6. ASSUME NEW c \in Chain, Recreate(c) PROVE t \in Settled'
  <2>1. UNCHANGED hook /\ ChainOf[t] # c /\ missed' = {u \in missed : ChainOf[u] # c}
    BY <1>6 DEF Recreate
  <2>. QED
    BY <1>1, <1>2, <2>1 DEF Settled
<1>7. \/ UNCHANGED <<hook, missed>> \/ \E u \in Tx : Commit(u) \/ Handler(u)
      \/ \E c \in Chain : Recreate(c)
  <2>1. ASSUME NEW c \in Chain, Feed(c) PROVE UNCHANGED <<hook, missed>>
    BY <2>1 DEF Feed, Latest, Subscribe, Fetch, ReadIncidents, Walk, SyncRecorded,
       PageEnds, Pending, Merge, Finish, Look
  <2>2. ASSUME NEW u \in Tx, Window(u) PROVE UNCHANGED <<hook, missed>>
    BY <2>2 DEF Window, Sign, Recorded, Broadcast, Refused, Close
  <2>3. ASSUME NEW c \in Chain, SyncFails(c) \/ Lose(c) \/ Restart(c)
        PROVE  UNCHANGED <<hook, missed>>
    BY <2>3 DEF SyncFails, Lose, Restart
  <2>. QED
    BY <2>1, <2>2, <2>3 DEF Next, vars
<1>. QED
  BY <1>3, <1>4, <1>5, <1>6, <1>7

(* A search that stays where it is has no gap either while the chain grows.  *)
LEMMA GaplessStays ==
  ASSUME TInv, CInv, GInv, [Next]_vars, NEW c \in Chain, ~Crash, ~Recreate(c)
  PROVE  Gapless(sync[c], blocks'[c], Settled')
<1> DEFINE s == sync[c]
<1>1. \A i \in DOMAIN blocks[c] : blocks[c][i] \in Settled => blocks[c][i] \in Settled'
  BY SettledStays DEF GInv, Placed
<1>2. TInv'
  BY TypeStep
<1>3. /\ DOMAIN blocks[c] = 1..Len(blocks[c]) /\ Len(blocks[c]) \in Nat
      /\ DOMAIN blocks'[c] = 1..Len(blocks'[c])
  BY <1>2 DEF TInv, TypeOK
<1>4. \A i \in DOMAIN blocks'[c] :
         \/ i \in DOMAIN blocks[c] /\ blocks'[c][i] = blocks[c][i]
         \/ sync[c].at \in Beyond => blocks'[c][i] \in Settled'
  BY BlocksAfter DEF GInv
<1> HIDE DEF s
<1>5. ASSUME s.at \in Beyond, NEW lo \in Nat, Covered(blocks[c], Settled, lo, Len(blocks[c]))
      PROVE  Covered(blocks'[c], Settled', lo, Len(blocks'[c]))
  <2> SUFFICES ASSUME NEW i \in DOMAIN blocks'[c], lo <= i
               PROVE  blocks'[c][i] \in Settled'
    BY DEF Covered
  <2>1. CASE i \in DOMAIN blocks[c] /\ blocks'[c][i] = blocks[c][i]
    BY <1>1, <1>3, <1>5, <2>1 DEF Covered
  <2>2. CASE ~(i \in DOMAIN blocks[c] /\ blocks'[c][i] = blocks[c][i])
    BY <1>4, <1>5, <2>2 DEF s
  <2>. QED
    BY <2>1, <2>2
<1>6. s.key \in Nat /\ s.next + 1 \in Nat
  BY DEF TInv, TypeOK, Sync, s
<1>7. Gapless(s, blocks[c], Settled)
  BY DEF GInv, s
<1>8. s.at = "fetch" => Covered(blocks'[c], Settled', s.key, Len(blocks'[c]))
  BY <1>5, <1>6, <1>7 DEF Gapless, Beyond
<1>9. s.at \in Paging => Covered(blocks'[c], Settled', s.next + 1, Len(blocks'[c]))
  BY <1>5, <1>6, <1>7 DEF Gapless, Beyond, Paging
<1>10. s.at \in {"pending", "check", "found", "absent", "up"} =>
          Covered(blocks'[c], Settled', 1, Len(blocks'[c]))
  BY <1>5, <1>7 DEF Gapless, Beyond
<1>. QED
  BY <1>8, <1>9, <1>10 DEF Gapless, s

(* A step of a feed leaves no gap.                                           *)
LEMMA FeedGapless ==
  ASSUME TInv, NEW c \in Chain, Feed(c),
         Searched(sync[c], height[c], blocks[c], Done'),
         Gapless(sync[c], blocks[c], Settled')
  PROVE  Gapless(sync'[c], blocks[c], Settled')
<1> DEFINE s == sync[c]
           n == sync'[c]
           h == height[c]
           b == blocks[c]
           done == Done'
           settled == Settled'
<1>1. /\ s \in Sync /\ InPage(s, Len(b)) /\ sync \in [Chain -> Sync]
      /\ h \in Nat /\ b \in Seq(Tx) /\ Len(b) \in Nat /\ DOMAIN b = 1..Len(b)
  BY DEF TInv, TypeOK, Within
<1>2. /\ s.latest \in Nat /\ s.from \in Nat /\ s.next \in Nat /\ s.key \in Nat \ {0}
      /\ s.low \in Nat
  BY <1>1 DEF Sync
<1>3. done \subseteq settled
  BY DEF Done, Settled
<1>4. stage \in [Tx -> Stage] /\ \A t \in Tx : stage'[t] = "synced" => t \in done
  BY DEF TInv, TypeOK, Done, Final
<1> HIDE DEF s, n, h, b, done, settled
<1>5. Searched(s, h, b, done) /\ Gapless(s, b, settled)
  BY DEF s, h, b, done, settled
<1>6. CASE Latest(c) \/ Subscribe(c)
  <2>1. CASE Latest(c)
    <3>1. n = [Down EXCEPT !.at = "latest", !.latest = Len(b)]
      BY <1>1, <2>1 DEF Latest, n, b
    <3>2. n.at = "latest"
      BY <3>1 DEF Down
    <3>. QED
      BY <3>2 DEF Gapless, Paging, n
  <2>2. CASE Subscribe(c)
    <3>1. n = [s EXCEPT !.at = "probe", !.from = h]
      BY <1>1, <2>2 DEF Subscribe, Begun, s, n, h
    <3>2. n.at = "probe"
      BY <1>1, <3>1 DEF Sync
    <3>. QED
      BY <3>2 DEF Gapless, Paging, n
  <2>. QED
    BY <1>6, <2>1, <2>2 DEF n, b, settled
<1>7. CASE Fetch(c)
  <2> DEFINE top == IF s.at = "probe" THEN Len(b) ELSE s.key - 1
  <2>1. n.at = "read" /\ n.next = top /\ s.at \in {"probe", "fetch"}
    BY <1>1, <1>7 DEF Fetch, Sync, s, n, b
  <2>2. Covered(b, settled, top + 1, Len(b))
    <3>1. CASE s.at = "probe"
      BY <1>1, <3>1 DEF Covered
    <3>2. CASE s.at = "fetch"
      <4>1. top + 1 = s.key
        BY <1>2, <3>2
      <4>. QED
        BY <1>5, <3>2, <4>1 DEF Gapless
    <3>. QED
      BY <2>1, <3>1, <3>2
  <2>. QED
    BY <2>1, <2>2 DEF Gapless, n, b, settled
<1>8. CASE ReadIncidents(c)
  <2>1. s.at = "read" /\ n.at = "walk" /\ n.next = s.next
    BY <1>1, <1>8 DEF ReadIncidents, Sync, s, n
  <2>. QED
    BY <1>5, <2>1 DEF Gapless, Paging, n, b, settled
<1>9. ASSUME s.at \in {"walk", "recording"}, n.at = "walk", n.next = s.next - 1,
             b[s.next] \in done
      PROVE  Gapless(n, b, settled)
  <2>1. Covered(b, settled, s.next + 1, Len(b))
    BY <1>5, <1>9 DEF Gapless, Paging
  <2>2. Covered(b, settled, (s.next - 1) + 1, Len(b))
    BY <1>1, <1>2, <1>3, <1>9, <2>1 DEF Covered
  <2>. QED
    BY <1>9, <2>2 DEF Gapless
<1>10. CASE Walk(c)
  <2>1. s.at = "walk" /\ s.next \in 1..Len(b)
    BY <1>1, <1>2, <1>10 DEF Walk, InPage, Paging, s
  <2>2. b[s.next] \in done
    <3>1. s.known \subseteq done /\ b[s.next] \in Tx
      BY <1>1, <1>5, <2>1 DEF Searched
    <3>2. b[s.next] \in s.known \/ stage'[b[s.next]] = "synced"
      BY <1>4, <1>10, <3>1 DEF Walk, Save, Mutate, Staged, s, b
    <3>. QED
      BY <1>4, <3>1, <3>2
  <2>3. \/ n.at = "walk" /\ n.next = s.next - 1
        \/ n.at = "recording" /\ n.next = s.next
    <3>1. \/ n = [s EXCEPT !.next = s.next - 1, !.at = "walk"]
          \/ n = [s EXCEPT !.at = "recording"]
      BY <1>1, <1>10 DEF Walk, Popped, s, n
    <3>. QED
      BY <1>1, <3>1 DEF Sync
  <2>4. CASE n.at = "walk" /\ n.next = s.next - 1
    BY <1>9, <2>1, <2>2, <2>4 DEF n, b, settled
  <2>5. CASE n.at = "recording" /\ n.next = s.next
    BY <1>5, <2>1, <2>5 DEF Gapless, Paging, n, b, settled
  <2>. QED
    BY <2>3, <2>4, <2>5
<1>11. CASE SyncRecorded(c)
  <2>1. s.at = "recording" /\ n.at = "walk" /\ n.next = s.next - 1
    BY <1>1, <1>11 DEF SyncRecorded, Popped, Sync, s, n
  <2>2. b[s.next] \in done
    BY <1>5, <2>1 DEF Searched
  <2>. QED
    BY <1>9, <2>1, <2>2 DEF n, b, settled
<1>12. CASE PageEnds(c)
  <2>1. s.at = "walk" /\ s.next < s.key
    BY <1>12 DEF PageEnds, s
  <2>2. /\ h <= s.latest /\ s.from = h /\ Covered(b, done, 1, h)
        /\ s.key <= s.low \/ s.latest <= s.low
    BY <1>5, <2>1 DEF Searched, Paging
  <2>3. Covered(b, settled, s.next + 1, Len(b))
    BY <1>5, <2>1 DEF Gapless, Paging
  <2>4. CASE n.at = "pending" /\ (s.from > s.low \/ s.key = 1)
    <3>1. s.key <= h \/ s.key = 1
      BY <1>1, <1>2, <2>2, <2>4
    <3>2. Covered(b, settled, 1, Len(b))
      BY <1>1, <1>2, <1>3, <2>1, <2>2, <2>3, <3>1 DEF Covered
    <3>. QED
      BY <2>4, <3>2 DEF Gapless, Paging, n, b, settled
  <2>5. CASE n.at = "fetch" /\ n.key = s.key
    <3>1. Covered(b, settled, s.key, Len(b))
      BY <1>1, <1>2, <2>1, <2>3 DEF Covered
    <3>. QED
      BY <2>5, <3>1 DEF Gapless, Paging, n, b, settled
  <2>. QED
    BY <1>1, <1>12, <2>4, <2>5 DEF PageEnds, Down, Sync, s, n
<1>13. CASE Pending(c) \/ Merge(c) \/ Finish(c) \/ \E t \in Tx : Look(c, t)
  <2>1. /\ s.at \in {"pending", "check", "found", "absent"}
        /\ n.at \in {"check", "found", "absent", "up"}
    <3>1. CASE Pending(c)
      BY <1>1, <3>1 DEF Pending, Sync, s, n
    <3>2. CASE Merge(c)
      BY <1>1, <3>2 DEF Merge, Sync, s, n
    <3>3. CASE Finish(c)
      BY <1>1, <3>3 DEF Finish, Down, s, n
    <3>4. ASSUME NEW t \in Tx, Look(c, t)
          PROVE  s.at = "check" /\ n.at \in {"check", "found", "absent"}
      BY <1>1, <3>4 DEF Look, Sync, s, n
    <3>. QED
      BY <1>13, <3>1, <3>2, <3>3, <3>4
  <2>. QED
    BY <1>5, <2>1 DEF Gapless, Paging, n, b, settled
<1>. QED
  BY <1>6, <1>7, <1>8, <1>10, <1>11, <1>12, <1>13 DEF Feed, n, b, settled

(* A feed that is not being remade searches from a subscription it has made.  *)
LEMMA HearsStep == ASSUME TInv, GInv, [Next]_vars PROVE Hears'
<1>1. sync \in [Chain -> Sync] /\ conn \in Conns
  BY DEF TInv, TypeOK, Conns
<1> SUFFICES ASSUME NEW c \in Chain, sync'[c].at \in Beyond \cup {"probe"}
             PROVE  conn'[c] # "none"
  BY DEF Hears
<1>2. sync[c].at \in Beyond \cup {"probe"} => conn[c] # "none"
  BY DEF GInv, Hears
<1>3. ~Recreate(c) /\ ~Crash
  BY <1>1 DEF Recreate, Crash, Down, Beyond
<1>4. CASE Subscribe(c)
  BY <1>1, <1>4 DEF Subscribe, Conns
<1>5. CASE Feed(c) /\ ~Subscribe(c)
  <2>1. UNCHANGED conn
    BY <1>5 DEF Feed, Latest, Fetch, ReadIncidents, Walk, SyncRecorded, PageEnds, Pending,
       Merge, Finish, Look
  <2>2. sync[c].at \in Beyond \cup {"probe"}
    <3>1. CASE Latest(c)
      <4>1. sync'[c].at = "latest"
        BY <1>1, <3>1 DEF Latest, Down
      <4>. QED
        BY <4>1 DEF Beyond
    <3>. QED
      BY <1>5, <3>1 DEF Feed, Fetch, ReadIncidents, Walk, SyncRecorded, PageEnds, Pending,
         Merge, Finish, Look, Beyond
  <2>. QED
    BY <1>2, <2>1, <2>2
<1>6. ASSUME NEW d \in Chain, Feed(d), d # c PROVE conn'[c] # "none"
  <2>1. sync'[c] = sync[c]
    BY <1>1, <1>6, FeedSync
  <2>2. UNCHANGED conn \/ conn' = [conn EXCEPT ![d] = "up"]
    BY <1>6 DEF Feed, Latest, Subscribe, Fetch, ReadIncidents, Walk, SyncRecorded, PageEnds,
       Pending, Merge, Finish, Look
  <2>. QED
    BY <1>1, <1>2, <1>6, <2>1, <2>2 DEF Conns
<1>7. ASSUME NEW d \in Chain, Faults(d) PROVE conn'[c] # "none"
  <2>1. sync'[c] \in {sync[c], Down, Failed}
    BY <1>1, <1>7 DEF Faults, SyncFails, Lose, Restart, Recreate, Failed
  <2>2. sync'[c] = sync[c]
    BY <2>1 DEF Down, Failed, Beyond
  <2>3. conn'[c] \in {conn[c], "away", "closed", "healed"} \/ (d = c /\ Recreate(d))
    <3>1. \/ UNCHANGED conn
          \/ \E to \in {"away", "closed", "healed"} : conn' = [conn EXCEPT ![d] = to]
          \/ Recreate(d) /\ conn' = [conn EXCEPT ![d] = "none"]
      BY <1>7 DEF Faults, SyncFails, Lose, Restart, Recreate, Subscribed
    <3>2. CASE UNCHANGED conn
      BY <3>2
    <3>3. ASSUME NEW to \in {"away", "closed", "healed"}, conn' = [conn EXCEPT ![d] = to]
          PROVE  conn'[c] \in {conn[c], "away", "closed", "healed"}
      BY <1>1, <3>3 DEF Conns
    <3>4. CASE Recreate(d) /\ conn' = [conn EXCEPT ![d] = "none"]
      <4>1. CASE d = c
        BY <3>4, <4>1
      <4>2. CASE d # c
        BY <1>1, <3>4, <4>2 DEF Conns
      <4>. QED
        BY <4>1, <4>2
    <3>. QED
      BY <3>1, <3>2, <3>3, <3>4
  <2>. QED
    BY <1>2, <1>3, <2>2, <2>3
<1>8. (\E d \in Chain : Feed(d) \/ Faults(d)) \/ Crash \/ UNCHANGED <<sync, conn>>
  BY DEF Next, Faults, Window, Sign, Recorded, Broadcast, Refused, Close, Handler, Download,
     HookAbsent, HookRecord, HookRecorded, Commit, vars
<1>. QED
  BY <1>2, <1>3, <1>4, <1>5, <1>6, <1>7, <1>8

LEMMA GapStep == ASSUME TInv, CInv, SInv, GInv, [Next]_vars PROVE GInv'
<1>1. Placed'
  BY BlocksAfter DEF GInv, Placed
<1> SUFFICES ASSUME NEW c \in Chain PROVE Gapless(sync'[c], blocks'[c], Settled')
  BY <1>1, HearsStep DEF GInv
<1>2. Gapless(Down, blocks'[c], Settled') /\ Gapless(Failed, blocks'[c], Settled')
  BY DEF Gapless, Down, Failed, Paging
<1>3. sync \in [Chain -> Sync]
  BY DEF TInv, TypeOK
<1>4. CASE Crash \/ Recreate(c)
  <2>1. sync'[c] = Down
    BY <1>3, <1>4 DEF Crash, Recreate
  <2>. QED
    BY <1>2, <2>1
<1>5. CASE ~(Crash \/ Recreate(c))
  <2>1. Gapless(sync[c], blocks'[c], Settled')
    BY <1>5, GaplessStays
  <2>2. CASE Feed(c)
    <3>1. UNCHANGED blocks
      BY <2>2 DEF Feed, Latest, Subscribe, Fetch, ReadIncidents, Walk, SyncRecorded,
         PageEnds, Pending, Merge, Finish, Look, chains
    <3>2. Searched(sync[c], height[c], blocks[c], Done')
      BY <3>1, SearchedStays DEF SInv
    <3>. QED
      BY <2>1, <2>2, <3>1, <3>2, FeedGapless
  <2>3. ASSUME NEW d \in Chain, Feed(d), d # c PROVE sync'[c] = sync[c]
    BY <1>3, <2>3, FeedSync
  <2>4. ASSUME NEW d \in Chain, Faults(d) PROVE sync'[c] \in {sync[c], Down, Failed}
    BY <1>3, <2>4 DEF Faults, SyncFails, Lose, Restart, Recreate, Failed
  <2>5. (\E d \in Chain : Feed(d) \/ Faults(d)) \/ Crash \/ UNCHANGED sync
    BY DEF Next, Faults, Window, Sign, Recorded, Broadcast, Refused, Close, Handler, Download,
       HookAbsent, HookRecord, HookRecorded, Commit, vars
  <2>. QED
    BY <1>2, <1>5, <2>1, <2>2, <2>3, <2>4, <2>5
<1>. QED
  BY <1>4, <1>5

(* Nothing slips through between the subscription and the search: when a feed has
   synchronized, each transaction of its chain has been recorded, or its event is
   being handled, or was lost by this feed's connection or its handler's download;
   whatever happens meanwhile, however many pages it took.  The feed subscribes
   before it asks for the first page, and what comes after that page is heard.  *)
THEOREM NothingLost == Spec => []NothingSlips
<1>1. ASSUME Init PROVE SInv /\ GInv
  <2>1. \A c \in Chain : height[c] = 0 /\ blocks[c] = <<>> /\ sync[c] = Down
    BY <1>1 DEF Init
  <2>2. Len(<<>>) = 0 /\ DOMAIN <<>> = {}
    OBVIOUS
  <2>3. SInv
    BY <2>1, <2>2 DEF SInv, Searched, Covered, Down, Paging
  <2>4. GInv
    BY <2>1, <2>2 DEF GInv, Placed, Hears, Beyond, Gapless, Down, Paging
  <2>. QED
    BY <2>3, <2>4
<1>2. TInv /\ CInv /\ SInv /\ GInv /\ [Next]_vars => SInv' /\ GInv'
  BY SearchStep, GapStep
<1>3. TInv /\ GInv => NothingSlips
  <2> SUFFICES ASSUME TInv, GInv, NEW c \in Chain, sync[c].at = "up",
                      NEW t \in Tx, On(c, t)
               PROVE  t \in Settled
    BY DEF NothingSlips, Settled
  <2>1. Covered(blocks[c], Settled, 1, Len(blocks[c]))
    BY DEF GInv, Gapless
  <2>2. DOMAIN blocks[c] = 1..Len(blocks[c])
    BY DEF TInv, TypeOK
  <2>. QED
    BY <2>1, <2>2 DEF On, Covered
<1>. QED
  BY <1>1, <1>2, <1>3, TypesHold, ChainsHold, PTL DEF Spec

=============================================================================
