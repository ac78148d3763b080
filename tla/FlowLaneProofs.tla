--------------------------- MODULE FlowLaneProofs ---------------------------
(* Proofs about FlowLane for any requests, conditions and prompts, whether or
   not the lane may be freed before a request joins the queue.               *)
EXTENDS FlowLane, FiniteSetTheorems, TLAPS

(* The next in the queue is a request, and what is left is a queue.          *)
LEMMA QueueType ==
  ASSUME TypeOK, queue # <<>>
  PROVE  Head(queue) \in Request /\ Tail(queue) \in Seq(Request)
  BY DEF TypeOK

(* Waking the next keeps the types.                                          *)
LEMMA WakeType ==
  ASSUME TypeOK, NEW changed \in [Request -> State], Wake(changed)
  PROVE  /\ pc' \in [Request -> State]
         /\ running' \in Intent \cup {NoIntent}
         /\ queue' \in Seq(Request)
<1>1. CASE queue = <<>>
  BY <1>1 DEF Wake, TypeOK
<1>2. CASE queue # <<>>
  <2>1. Head(queue) \in Request /\ Tail(queue) \in Seq(Request)
    BY <1>2, QueueType
  <2>2. pc' = [changed EXCEPT ![Head(queue)] = "woken"]
    BY <1>2 DEF Wake
  <2>3. pc' \in [Request -> State]
    BY <2>1, <2>2 DEF State
  <2>4. intent[Head(queue)] \in Intent \cup {NoIntent}
    BY <2>1 DEF TypeOK
  <2>. QED
    BY <1>2, <2>1, <2>3, <2>4 DEF Wake
<1>. QED
  BY <1>1, <1>2

(* Freeing the lane keeps the types.                                         *)
LEMMA ClearType ==
  ASSUME TypeOK, NEW changed \in [Request -> State], Clear(changed)
  PROVE  /\ pc' \in [Request -> State]
         /\ busy' \in BOOLEAN
         /\ running' \in Intent \cup {NoIntent}
         /\ queue' \in Seq(Request)
         /\ clearer' \in Request \cup {None}
         /\ listeners' \subseteq Request
<1>1. /\ pc' \in [Request -> State] /\ running' \in Intent \cup {NoIntent}
      /\ queue' \in Seq(Request)
  BY WakeType DEF Clear
<1>2. busy' \in BOOLEAN
  BY DEF Clear
<1>3. clearer' \in Request \cup {None} /\ listeners' \subseteq Request
  BY DEF Clear, TypeOK
<1>. QED
  BY <1>1, <1>2, <1>3

(* A request that goes on keeps the types.                                   *)
LEMMA ProceedType ==
  ASSUME TypeOK, NEW r \in Request, Proceed(r)
  PROVE  /\ pc' \in [Request -> State]
         /\ busy' \in BOOLEAN
         /\ clearer' \in Request \cup {None}
         /\ listeners' \subseteq Request
<1>1. pc' \in [Request -> State]
  BY DEF Proceed, Start, Go, TypeOK, State
<1>2. busy' \in BOOLEAN
  BY DEF Proceed, Start, TypeOK
<1>3. clearer' \in Request \cup {None} /\ listeners' \subseteq Request
  BY DEF Proceed, Start, TypeOK
<1>. QED
  BY <1>1, <1>2, <1>3

(* The initial state is of the declared types.                               *)
LEMMA TypeInit == Init => TypeOK
<1> SUFFICES ASSUME Init PROVE TypeOK
  OBVIOUS
<1>1. pc \in [Request -> State] /\ intent \in [Request -> Intent \cup {NoIntent}]
  BY DEF Init, State
<1>2. busy \in BOOLEAN
  BY DEF Init
<1>3. steady \in BOOLEAN
  BY DEF Init
<1>4. /\ running \in Intent \cup {NoIntent} /\ queue \in Seq(Request)
      /\ clearer \in Request \cup {None}
      /\ listeners \subseteq Request /\ event \subseteq Request
  BY DEF Init
<1>. QED
  BY <1>1, <1>2, <1>3, <1>4 DEF TypeOK

(* Every step keeps the types.                                               *)
LEMMA TypeStep == TypeOK /\ [Next]_vars => TypeOK'
<1> SUFFICES ASSUME TypeOK, [Next]_vars PROVE TypeOK'
  OBVIOUS
<1>1. ASSUME NEW r \in Request, NEW i \in Intent, Enter(r, i) PROVE TypeOK'
  <2>1. intent' \in [Request -> Intent \cup {NoIntent}]
    BY <1>1 DEF Enter, TypeOK
  <2>2. running' \in Intent \cup {NoIntent}
    BY <1>1 DEF Enter, TypeOK
  <2>3. /\ pc' \in [Request -> State] /\ busy' \in BOOLEAN
        /\ clearer' \in Request \cup {None} /\ listeners' \subseteq Request
    <3>1. CASE busy
      <4>1. pc' \in [Request -> State]
        BY <1>1, <3>1 DEF Enter, Go, TypeOK, State
      <4>2. UNCHANGED <<busy, clearer, listeners>>
        BY <1>1, <3>1 DEF Enter
      <4>. QED
        BY <4>1, <4>2 DEF TypeOK
    <3>2. CASE ~busy
      BY <1>1, <3>2, ProceedType DEF Enter
    <3>. QED
      BY <3>1, <3>2
  <2>4. UNCHANGED <<queue, event, steady>>
    BY <1>1 DEF Enter
  <2>. QED
    BY <2>1, <2>2, <2>3, <2>4 DEF TypeOK
<1>2. ASSUME NEW r \in Request, Queue(r) PROVE TypeOK'
  <2>1. queue' \in Seq(Request) /\ pc' \in [Request -> State]
    BY <1>2 DEF Queue, Go, TypeOK, State
  <2>. QED
    BY <1>2, <2>1 DEF Queue, TypeOK
<1>3. ASSUME NEW r \in Request, TabGone(r) \/ Refuse(r) \/ Hang(r) PROVE TypeOK'
  <2>1. pc' \in [Request -> State]
    BY <1>3 DEF TabGone, Refuse, Hang, Go, TypeOK, State
  <2>. QED
    BY <1>3, <2>1 DEF TabGone, Refuse, Hang, TypeOK, lane
<1>4. ASSUME NEW r \in Request, Resume(r) PROVE TypeOK'
  BY <1>4, ProceedType DEF Resume, TypeOK
<1>5. ASSUME NEW r \in Request, Accept(r) PROVE TypeOK'
  <2>1. pc' \in [Request -> State] /\ clearer' \in Request \cup {None}
        /\ listeners' \subseteq Request
    BY <1>5 DEF Accept, Start, Go, TypeOK, State
  <2>2. busy' \in BOOLEAN
    BY <1>5 DEF Accept, Start
  <2>. QED
    BY <1>5, <2>1, <2>2 DEF Accept, TypeOK
<1>6. ASSUME NEW r \in Request, Answer(r) PROVE TypeOK'
  <2>1. [pc EXCEPT ![r] = "answered"] \in [Request -> State]
    BY DEF TypeOK, State
  <2>. QED
    BY <1>6, <2>1, ClearType DEF Answer, TypeOK
<1>7. CASE TabChanges
  <2>1. steady' \in BOOLEAN
    BY <1>7 DEF TabChanges
  <2>. QED
    BY <1>7, <2>1 DEF TabChanges, TypeOK, lane
<1>8. ASSUME NEW r \in Request, Notify(r) PROVE TypeOK'
  <2>1. pc \in [Request -> State] /\ event' \subseteq Request
    BY <1>8 DEF Notify, TypeOK
  <2>. QED
    BY <1>8, <2>1, ClearType DEF Notify, TypeOK
<1>9. CASE UNCHANGED vars
  BY <1>9 DEF vars, lane, TypeOK
<1>. QED
  BY <1>1, <1>2, <1>3, <1>4, <1>5, <1>6, <1>7, <1>8, <1>9 DEF Next

(* Every variable keeps its type.                                            *)
THEOREM TypeCorrect == Spec => []TypeOK
  BY TypeInit, TypeStep, PTL DEF Spec

-----------------------------------------------------------------------------
(* Waking moves the head of the queue and nobody else.                       *)
LEMMA WakeMoves ==
  ASSUME TypeOK, NEW changed \in [Request -> State], Wake(changed)
  PROVE  \A q \in Request : \/ pc'[q] = changed[q]
                            \/ pc'[q] = "woken" /\ q = Head(queue)
<1>1. CASE queue = <<>>
  BY <1>1 DEF Wake
<1>2. CASE queue # <<>>
  <2>1. pc' = [changed EXCEPT ![Head(queue)] = "woken"]
    BY <1>2 DEF Wake
  <2>. QED
    BY <2>1
<1>. QED
  BY <1>1, <1>2

(* The call that has the lane is there to free it, and only a call with a
   condition waits for one.                                                  *)
LEMMA OccupiedStep ==
  TypeOK /\ Occupied /\ ConditionsRead /\ [Next]_vars
    => Occupied' /\ ConditionsRead'
<1> SUFFICES ASSUME TypeOK, Occupied, ConditionsRead, [Next]_vars
             PROVE  Occupied' /\ ConditionsRead'
  OBVIOUS
<1>. USE DEF Occupied, ConditionsRead
<1>a. ASSUME NEW r \in Request, Start(r) PROVE Occupied' /\ ConditionsRead'
  BY <1>a DEF Start, Go, TypeOK
<1>b. ASSUME NEW r \in Request, Proceed(r),
             pc[r] \notin {"open", "hung"}
      PROVE  Occupied' /\ ConditionsRead'
  <2>1. CASE r \in Conditional
    BY <1>b, <2>1 DEF Proceed, Go, TypeOK
  <2>2. CASE r \notin Conditional
    BY <1>a, <1>b, <2>2 DEF Proceed
  <2>. QED
    BY <2>1, <2>2
<1>c. ASSUME NEW r \in Request, NEW there \in State \ {"condition"}, Go(r, there),
             UNCHANGED <<busy, clearer>>,
             pc[r] \in {"open", "hung"} => there \in {"open", "hung"}
      PROVE  Occupied' /\ ConditionsRead'
  BY <1>c DEF Go, TypeOK
<1>d. ASSUME NEW changed \in [Request -> State], Clear(changed),
             \A q \in Request : changed[q] = "condition" => pc[q] = "condition"
      PROVE  Occupied' /\ ConditionsRead'
  <2>1. ConditionsRead'
    BY <1>d, WakeMoves DEF Clear
  <2>. QED
    BY <1>d, <2>1 DEF Clear
<1>1. ASSUME NEW r \in Request, NEW i \in Intent, Enter(r, i)
      PROVE  Occupied' /\ ConditionsRead'
  <2>1. CASE busy
    <3>1. PICK there \in {"ignored", "tabget"} :
             Go(r, there) /\ UNCHANGED <<busy, clearer>>
      BY <1>1, <2>1 DEF Enter
    <3>2. pc[r] = "idle"
      BY <1>1 DEF Enter
    <3>. QED
      BY <3>1, <3>2, <1>c DEF State
  <2>2. CASE ~busy
    BY <1>1, <2>2, <1>b DEF Enter
  <2>. QED
    BY <2>1, <2>2
<1>2. ASSUME NEW r \in Request, Queue(r) \/ TabGone(r) \/ Refuse(r) \/ Hang(r)
      PROVE  Occupied' /\ ConditionsRead'
  BY <1>2, <1>c DEF Queue, TabGone, Refuse, Hang, lane, State
<1>3. ASSUME NEW r \in Request, Resume(r) PROVE Occupied' /\ ConditionsRead'
  BY <1>3, <1>b DEF Resume
<1>4. ASSUME NEW r \in Request, Accept(r) PROVE Occupied' /\ ConditionsRead'
  BY <1>4, <1>a DEF Accept
<1>5. ASSUME NEW r \in Request, Answer(r) PROVE Occupied' /\ ConditionsRead'
  <2>1. [pc EXCEPT ![r] = "answered"] \in [Request -> State]
    BY DEF TypeOK, State
  <2>2. \A q \in Request : [pc EXCEPT ![r] = "answered"][q] = "condition"
                              => pc[q] = "condition"
    BY DEF TypeOK
  <2>. QED
    BY <1>5, <2>1, <2>2, <1>d DEF Answer
<1>6. ASSUME NEW r \in Request, Notify(r) PROVE Occupied' /\ ConditionsRead'
  BY <1>6, <1>d DEF Notify, TypeOK
<1>7. CASE TabChanges \/ UNCHANGED vars
  BY <1>7 DEF TabChanges, vars, lane
<1>. QED
  BY <1>1, <1>2, <1>3, <1>4, <1>5, <1>6, <1>7 DEF Next

(* BusyShows: the lane is taken only while the call that took it shows a
   prompt, whatever becomes of the tab and of the other calls.               *)
THEOREM BusyOnlyWhileShowing == Spec => []BusyShows
<1>1. Init => Occupied /\ ConditionsRead
  BY DEF Init, Occupied, ConditionsRead
<1>2. Occupied => BusyShows
  BY DEF Occupied, BusyShows
<1>. QED
  BY <1>1, <1>2, TypeInit, TypeStep, OccupiedStep, PTL DEF Spec

-----------------------------------------------------------------------------
(* The three ways a step changes the lane, while no condition has been read. *)
LEMMA StartOne ==
  ASSUME TypeOK, NEW r \in Request, Start(r), UNCHANGED <<event, steady>>,
         ~busy, event = {}, listeners = {}, HolderShows,
         \A q \in Request : pc[q] = "woken" => q = r
  PROVE  listeners' = Holder' /\ WokenAlone' /\ EventMeetsHolder' /\ HolderShows'
<1>1. busy' /\ Holder' = {r} /\ listeners' = {r} /\ event' = {}
  BY DEF Start, Holder
<1>2. \A q \in Request : pc'[q] = IF q = r THEN "open" ELSE pc[q]
  BY DEF Start, Go, TypeOK
<1>3. steady' => \A q \in Request : pc[q] # "open"
  BY DEF HolderShows, Holder
<1>. QED
  BY <1>1, <1>2, <1>3 DEF WokenAlone, EventMeetsHolder, HolderShows

(* A step of one call that has not taken the lane.                           *)
LEMMA AsideOne ==
  ASSUME TypeOK, listeners = Holder, WokenAlone, EventMeetsHolder, HolderShows,
         NEW r \in Request, NEW there \in State \ {"woken", "open"}, Go(r, there),
         UNCHANGED <<busy, clearer, listeners, event, steady>>
  PROVE  listeners' = Holder' /\ WokenAlone' /\ EventMeetsHolder' /\ HolderShows'
<1>1. Holder' = Holder
  BY DEF Holder
<1>2. \A q \in Request : pc'[q] = IF q = r THEN there ELSE pc[q]
  BY DEF Go, TypeOK
<1>3. WokenAlone'
  BY <1>2 DEF WokenAlone
<1>4. EventMeetsHolder'
  BY <1>1 DEF EventMeetsHolder
<1>5. HolderShows'
  BY <1>1, <1>2 DEF HolderShows
<1>. QED
  BY <1>1, <1>3, <1>4, <1>5

(* Freeing the lane when nobody has been woken yet.                          *)
LEMMA ClearOne ==
  ASSUME TypeOK, listeners = Holder, NEW changed \in [Request -> State],
         Clear(changed), event' = {}, \A q \in Request : changed[q] # "woken",
         steady' => \A q \in Request : changed[q] # "open"
  PROVE  listeners' = Holder' /\ WokenAlone' /\ EventMeetsHolder' /\ HolderShows'
<1>1. ~busy' /\ Holder' = {}
  BY DEF Clear, Holder
<1>2. listeners' = {}
  BY DEF Clear, Holder
<1>3. \A q \in Request : \/ pc'[q] = changed[q]
                         \/ pc'[q] = "woken" /\ q = Head(queue)
  BY WakeMoves DEF Clear
<1>4. WokenAlone'
  BY <1>1, <1>3 DEF WokenAlone
<1>5. EventMeetsHolder'
  BY DEF EventMeetsHolder
<1>6. HolderShows'
  BY <1>3 DEF HolderShows
<1>. QED
  BY <1>1, <1>2, <1>4, <1>5, <1>6

(* Once a condition is about to be read it stays so: no call starts again.   *)
LEMMA NoneBefore == TypeOK /\ [Next]_vars /\ NoneConditional' => NoneConditional
<1> DEFINE Early == {"idle", "ignored", "tabget", "queued"}
<1> SUFFICES ASSUME TypeOK, [Next]_vars, NEW c \in Conditional, pc[c] \notin Early
             PROVE  pc'[c] \notin Early
  BY DEF NoneConditional
<1>. c \in Request
  BY LaneAssumption
<1>a. ASSUME NEW r \in Request, NEW there, Go(r, there), r = c => there \notin Early
      PROVE  pc'[c] \notin Early
  BY <1>a DEF Go, TypeOK
<1>b. ASSUME NEW changed \in [Request -> State], Clear(changed), changed[c] \notin Early
      PROVE  pc'[c] \notin Early
  BY <1>b, WakeMoves DEF Clear
<1>c. ASSUME NEW r \in Request, Proceed(r) PROVE pc'[c] \notin Early
  BY <1>c, <1>a DEF Proceed, Start
<1>1. ASSUME NEW r \in Request, NEW i \in Intent, Enter(r, i)
      PROVE  pc'[c] \notin Early
  <2>1. r # c
    BY <1>1 DEF Enter
  <2>2. CASE busy
    BY <1>1, <2>1, <2>2, <1>a DEF Enter
  <2>3. CASE ~busy
    BY <1>1, <2>3, <1>c DEF Enter
  <2>. QED
    BY <2>2, <2>3
<1>2. ASSUME NEW r \in Request, Queue(r) \/ TabGone(r) \/ Refuse(r) \/ Hang(r)
      PROVE  pc'[c] \notin Early
  BY <1>2, <1>a DEF Queue, TabGone, Refuse, Hang
<1>3. ASSUME NEW r \in Request, Resume(r) \/ Accept(r) PROVE pc'[c] \notin Early
  BY <1>3, <1>a, <1>c DEF Resume, Accept, Start
<1>4. ASSUME NEW r \in Request, Answer(r) PROVE pc'[c] \notin Early
  <2>1. [pc EXCEPT ![r] = "answered"] \in [Request -> State]
    BY DEF TypeOK, State
  <2>2. [pc EXCEPT ![r] = "answered"][c] \notin Early
    BY DEF TypeOK
  <2>. QED
    BY <1>4, <2>1, <2>2, <1>b DEF Answer
<1>5. ASSUME NEW r \in Request, Notify(r) PROVE pc'[c] \notin Early
  BY <1>5, <1>b DEF Notify, TypeOK
<1>6. CASE TabChanges \/ UNCHANGED vars
  BY <1>6 DEF TabChanges, vars, lane
<1>. QED
  BY <1>1, <1>2, <1>3, <1>4, <1>5, <1>6 DEF Next

(* What a lane promises while no condition has been read.                    *)
LEMMA LaneStep == TypeOK /\ LaneInv /\ [Next]_vars => LaneInv'
<1> SUFFICES ASSUME TypeOK, LaneInv, [Next]_vars PROVE LaneInv'
  OBVIOUS
<1>a. Occupied' /\ ConditionsRead'
  BY OccupiedStep DEF LaneInv
<1> DEFINE Aligned == listeners = Holder /\ WokenAlone /\ EventMeetsHolder
                      /\ HolderShows
<1> SUFFICES ASSUME NoneConditional' PROVE Aligned'
  BY <1>a DEF LaneInv
<1>b. NoneConditional /\ Aligned /\ ConditionsRead
  BY NoneBefore DEF LaneInv
<1>c. ASSUME NEW r \in Conditional PROVE pc'[r] # "condition"
  BY DEF NoneConditional
<1>d. ASSUME NEW r \in Request PROVE pc[r] # "condition"
  BY <1>b DEF ConditionsRead, NoneConditional
<1>1. ASSUME NEW r \in Request, NEW i \in Intent, Enter(r, i) PROVE Aligned'
  <2>1. CASE busy
    <3>1. PICK there \in {"ignored", "tabget"} :
            Go(r, there) /\ UNCHANGED <<busy, clearer, listeners, event, steady>>
      BY <1>1, <2>1 DEF Enter
    <3>. QED
      BY <3>1, <1>b, AsideOne DEF State
  <2>2. CASE ~busy
    <3>1. Start(r)
      BY <1>1, <2>2, <1>c DEF Enter, Proceed, Go, TypeOK
    <3>2. /\ event = {} /\ listeners = {}
          /\ \A q \in Request : pc[q] # "woken"
      BY <1>1, <2>2, <1>b DEF Enter, NewTask, Holder
    <3>. QED
      BY <1>1, <2>2, <3>1, <3>2, <1>b, StartOne DEF Enter
  <2>. QED
    BY <2>1, <2>2
<1>2. ASSUME NEW r \in Request, Queue(r) \/ TabGone(r) \/ Refuse(r) \/ Hang(r)
      PROVE  Aligned'
  <2>1. PICK there \in {"queued", "refused", "hung"} :
          Go(r, there) /\ UNCHANGED <<busy, clearer, listeners, event, steady>>
    BY <1>2 DEF Queue, TabGone, Refuse, Hang, lane
  <2>. QED
    BY <2>1, <1>b, AsideOne DEF State
<1>3. ASSUME NEW r \in Request, Resume(r) PROVE Aligned'
  <2>1. Start(r)
    BY <1>3, <1>c DEF Resume, Proceed, Go, TypeOK
  <2>2. /\ ~busy /\ event = {} /\ listeners = {}
        /\ \A q \in Request : pc[q] = "woken" => q = r
    BY <1>3, <1>b DEF Resume, WokenAlone, Holder
  <2>. QED
    BY <1>3, <2>1, <2>2, <1>b, StartOne DEF Resume
<1>4. ASSUME NEW r \in Request PROVE ~Accept(r)
  BY <1>d DEF Accept
<1>5. ASSUME NEW r \in Request, Answer(r) PROVE Aligned'
  <2> DEFINE changed == [pc EXCEPT ![r] = "answered"]
  <2>1. changed \in [Request -> State]
    BY DEF TypeOK, State
  <2>2. /\ Clear(changed) /\ event' = {} /\ steady' = steady
        /\ pc[r] = "open" /\ \A q \in Request : pc[q] # "woken"
    BY <1>5 DEF Answer, NewTask
  <2>3. \A q \in Request : changed[q] # "woken"
    BY <2>2 DEF TypeOK
  <2>4. steady => \A q \in Request : pc[q] = "open" => q = r
    BY <2>2, <1>b DEF HolderShows, Holder
  <2>5. steady' => \A q \in Request : changed[q] # "open"
    BY <2>2, <2>4 DEF TypeOK
  <2>6. \A d \in [Request -> State] :
          /\ Clear(d) /\ \A q \in Request : d[q] # "woken"
          /\ steady' => \A q \in Request : d[q] # "open"
          => Aligned'
    BY <2>2, <1>b, ClearOne
  <2>. QED
    BY <2>1, <2>2, <2>3, <2>5, <2>6
<1>6. ASSUME NEW r \in Request, Notify(r) PROVE Aligned'
  <2>1. ~steady /\ event = Holder /\ event' = {}
    BY <1>6, <1>b DEF Notify, EventMeetsHolder, Holder
  <2>2. \A q \in Request : pc[q] # "woken"
    BY <1>6, <1>b DEF WokenAlone, Notify
  <2>. QED
    BY <1>6, <2>1, <2>2, <1>b, ClearOne DEF Notify, TypeOK
<1>7. CASE TabChanges
  <2>1. UNCHANGED <<pc, busy, clearer, listeners>> /\ event' = listeners /\ ~steady'
    BY <1>7 DEF TabChanges, lane
  <2>2. \A q \in Request : pc[q] # "woken"
    BY <1>7 DEF TabChanges, NewTask
  <2>. QED
    BY <2>1, <2>2, <1>b
       DEF WokenAlone, EventMeetsHolder, HolderShows, Holder
<1>8. CASE UNCHANGED vars
  BY <1>8, <1>b DEF vars, lane, WokenAlone, EventMeetsHolder, HolderShows, Holder
<1>. QED
  BY <1>1, <1>2, <1>3, <1>4, <1>5, <1>6, <1>7, <1>8 DEF Next

(* All of it holds at all times.                                             *)
THEOREM LaneSafe == Spec => []LaneInv
<1>1. Init => LaneInv
  BY DEF Init, LaneInv, Occupied, ConditionsRead, Holder, WokenAlone,
         EventMeetsHolder, HolderShows
<1>. QED
  BY <1>1, TypeInit, TypeStep, LaneStep, PTL DEF Spec

(* ListenersFollowLane: no tab listener outlives its call's hold of the lane,
   so a later tab event cannot free the lane of another call.                *)
THEOREM NoStrayListener == Spec => []ListenersFollowLane
<1>1. LaneInv => ListenersFollowLane
  BY DEF LaneInv, ListenersFollowLane, Holder
<1>. QED
  BY <1>1, LaneSafe, PTL

(* OneFlowPerTab: at most one prompt is shown for a tab that stays as it is. *)
THEOREM OnePromptPerTab == Spec => []OneFlowPerTab
<1>1. LaneInv => OneFlowPerTab
  <2> SUFFICES ASSUME LaneInv, steady, NoneConditional PROVE Cardinality(Showing) <= 1
    BY DEF OneFlowPerTab
  <2>1. Showing \subseteq {clearer}
    BY DEF LaneInv, HolderShows, Holder, Showing
  <2>2. IsFiniteSet({clearer}) /\ Cardinality({clearer}) = 1
    BY FS_Singleton
  <2>3. Cardinality(Showing) <= Cardinality({clearer})
    BY <2>1, <2>2, FS_Subset
  <2>. QED
    BY <2>2, <2>3
<1>. QED
  BY <1>1, LaneSafe, PTL
=============================================================================
