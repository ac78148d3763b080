------------------------------ MODULE FlowLane ------------------------------
(* The lane of one browser tab: open_flow() (src/src/script/msg-flow.ts) lets
   one prompt at a time be open for the pages of a tab and queues the others.
   A lane is freed when its prompt has been answered or when the tab is closed
   or loads another page; whoever frees it starts the next in the queue.

   The service worker runs one task at a time.  A request goes on by itself
   between two awaits; the promise of a dequeued request resolves before the
   next task.                                                                *)
EXTENDS Naturals, Sequences, FiniteSets, SequencesExt

CONSTANTS
    Request,     \* calls of open_flow() for this tab
    Conditional, \* those given a condition (request_keplr_decision)
    Intent,      \* serialised prompts
    TabEvents,   \* may the tab be closed or load another page?
    LateQueue,   \* may the lane be freed before chrome.tabs.get() answers?
    Strands,     \* may a condition fail while others are queued behind it?
    MayFail,     \* may a prompt never be answered (its window fails to open)?
    None,        \* the lane has never been taken
    NoIntent     \* the lane has not been made

ASSUME LaneAssumption ==
    /\ Conditional \subseteq Request /\ IsFiniteSet(Request)
    /\ None \notin Request /\ NoIntent \notin Intent
    /\ {TabEvents, LateQueue, Strands, MayFail} \subseteq BOOLEAN

VARIABLES
    pc,        \* where each call of open_flow() is
    intent,    \* si_intent of each call
    busy,      \* g_lane.time # 0
    running,   \* g_lane.intent
    queue,     \* g_lane.queue
    clearer,   \* the call whose closure g_lane.clear is
    listeners, \* calls whose tab listeners are registered
    event,     \* listeners still to be called for the tab event in progress
    steady     \* history: no tab event so far

lane == <<busy, running, queue, clearer, listeners>>
vars == <<pc, intent, lane, event, steady>>

State == {"idle", "tabget", "queued", "woken", "condition", "open", "hung",
          "answered", "ignored", "refused"}

TypeOK ==
    /\ pc \in [Request -> State]
    /\ intent \in [Request -> Intent \cup {NoIntent}]
    /\ busy \in BOOLEAN
    /\ running \in Intent \cup {NoIntent}
    /\ queue \in Seq(Request)
    /\ clearer \in Request \cup {None}
    /\ listeners \subseteq Request /\ event \subseteq Request
    /\ steady \in BOOLEAN

Init ==
    /\ pc = [r \in Request |-> "idle"]
    /\ intent = [r \in Request |-> NoIntent]
    /\ busy = FALSE
    /\ running = NoIntent
    /\ queue = <<>>
    /\ clearer = None
    /\ listeners = {} /\ event = {}
    /\ steady = TRUE

-----------------------------------------------------------------------------
Go(r, there) == pc' = [pc EXCEPT ![r] = there]

(* The task in progress, an event or a promise that has resolved, ends before
   another begins.                                                           *)
NewTask == event = {} /\ \A r \in Request : pc[r] # "woken"

(* The call takes the lane and opens its window.                             *)
Start(r) ==
    /\ Go(r, "open")
    /\ busy' = TRUE
    /\ clearer' = r
    /\ listeners' = listeners \cup {r}

(* Past the queue: check the condition first if there is one.                *)
Proceed(r) ==
    IF r \in Conditional
    THEN Go(r, "condition") /\ UNCHANGED <<busy, clearer, listeners>>
    ELSE Start(r)

(* g_lane.clear(), the closure of the last call that took the lane: free it
   and wake the next in the queue.  One mutant forgets the listeners, one does
   not free the lane, one frees it without waking the next.                  *)
Wake(changed) ==
    IF queue # <<>>
    THEN /\ pc' = [changed EXCEPT ![Head(queue)] = "woken"]
         /\ running' = intent[Head(queue)]
         /\ queue' = Tail(queue)
    ELSE pc' = changed /\ UNCHANGED <<running, queue>>
ClearButListeners(changed) ==
    /\ busy' = FALSE
    /\ Wake(changed)
    /\ UNCHANGED <<clearer, listeners>>
ClearButBusy(changed) ==
    /\ listeners' = listeners \ {clearer}
    /\ Wake(changed)
    /\ UNCHANGED <<busy, clearer>>
ClearOnly(changed) ==
    /\ busy' = FALSE
    /\ listeners' = listeners \ {clearer}
    /\ pc' = changed
    /\ UNCHANGED <<running, queue, clearer>>
Clear(changed) ==
    /\ busy' = FALSE
    /\ listeners' = listeners \ {clearer}
    /\ Wake(changed)
    /\ UNCHANGED clearer

-----------------------------------------------------------------------------
(* open_flow(): make the lane, ignore a repeated prompt, ask for the tab when
   the lane is busy.  The intent is noted when the lane is made only.  A
   mutant never queues.                                                      *)
Repeated(i) == i = running \/ \E k \in DOMAIN queue : intent[queue[k]] = i
EnterUnqueued(r, i) ==
    /\ NewTask
    /\ pc[r] = "idle"
    /\ intent' = [intent EXCEPT ![r] = i]
    /\ Proceed(r)
    /\ running' = IF running = NoIntent THEN i ELSE running
    /\ UNCHANGED <<queue, event, steady>>
Enter(r, i) ==
    /\ NewTask
    /\ pc[r] = "idle"
    /\ intent' = [intent EXCEPT ![r] = i]
    /\ running' = IF running = NoIntent THEN i ELSE running
    /\ IF busy
       THEN /\ Go(r, IF Repeated(i) THEN "ignored" ELSE "tabget")
            /\ UNCHANGED <<busy, clearer, listeners>>
       ELSE Proceed(r)
    /\ UNCHANGED <<queue, event, steady>>

(* chrome.tabs.get() has answered: join the queue.                         *)
Queue(r) ==
    /\ NewTask
    /\ pc[r] = "tabget"
    /\ queue' = Append(queue, r)
    /\ Go(r, "queued")
    /\ UNCHANGED <<intent, busy, running, clearer, listeners, event, steady>>

(* chrome.tabs.get() rejects when the tab has been closed.                   *)
TabGone(r) ==
    /\ NewTask
    /\ TabEvents
    /\ pc[r] = "tabget"
    /\ Go(r, "refused")
    /\ UNCHANGED <<intent, lane, event, steady>>

(* A dequeued call goes on.                                                  *)
Resume(r) ==
    /\ event = {}
    /\ pc[r] = "woken"
    /\ Proceed(r)
    /\ UNCHANGED <<intent, running, queue, event, steady>>

(* The condition has been read: go ahead, or throw.                          *)
Accept(r) ==
    /\ NewTask
    /\ pc[r] = "condition"
    /\ Start(r)
    /\ UNCHANGED <<intent, running, queue, event, steady>>
Refuse(r) ==
    /\ NewTask
    /\ Strands \/ queue = <<>>
    /\ pc[r] = "condition"
    /\ Go(r, "refused")
    /\ UNCHANGED <<intent, lane, event, steady>>

(* As the lane is freed, a call that found it taken may still be waiting for
   chrome.tabs.get() to answer before it joins the queue.                    *)
AllQueued == LateQueue \/ \A r \in Request : pc[r] # "tabget"

(* open_flow_query() has resolved: free the lane, whoever has it by now.     *)
Answer(r) ==
    /\ NewTask /\ AllQueued
    /\ pc[r] = "open"
    /\ Clear([pc EXCEPT ![r] = "answered"])
    /\ UNCHANGED <<intent, event, steady>>

(* open_flow_query() never resolves: launch_flow() has thrown inside its
   promise, or the window was closed before its port connected.              *)
Hang(r) ==
    /\ NewTask
    /\ MayFail
    /\ pc[r] = "open"
    /\ Go(r, "hung")
    /\ UNCHANGED <<intent, lane, event, steady>>

(* The tab is closed or loads another page.  Every listener registered then
   calls g_lane.clear().                                                     *)
TabChanges ==
    /\ NewTask /\ AllQueued
    /\ TabEvents
    /\ listeners # {}
    /\ event' = listeners
    /\ steady' = FALSE
    /\ UNCHANGED <<pc, intent, lane>>

Notify(r) ==
    /\ r \in event
    /\ event' = event \ {r}
    /\ Clear(pc)
    /\ UNCHANGED <<intent, steady>>

Next ==
    \/ \E r \in Request :
         \/ \E i \in Intent : Enter(r, i)
         \/ Queue(r) \/ TabGone(r) \/ Resume(r) \/ Accept(r) \/ Refuse(r)
         \/ Answer(r) \/ Hang(r) \/ Notify(r)
    \/ TabChanges

Spec == Init /\ [][Next]_vars

(* Promises and events go on, conditions and chrome.tabs.get() answer, and the
   user answers a prompt or closes its window in the end.                    *)
Fairness ==
    \A r \in Request :
        /\ WF_vars(Queue(r)) /\ WF_vars(Resume(r)) /\ WF_vars(Notify(r))
        /\ WF_vars(Accept(r) \/ Refuse(r)) /\ WF_vars(Answer(r) \/ Hang(r))
FairSpec == Spec /\ Fairness

-----------------------------------------------------------------------------
Showing == {r \in Request : pc[r] = "open"}

(* The lane is taken only while the call that took it shows a prompt: it never
   blocks a tab on behalf of a prompt that has been answered.                *)
BusyShows == busy => pc[clearer] \in {"open", "hung"}

(* A call with a condition leaves the lane free until the condition is read
   (msg-flow.ts:254); the next two properties are about the time before.     *)
NoneConditional ==
    \A r \in Conditional : pc[r] \in {"idle", "ignored", "tabget", "queued"}

(* The lane's tab listeners are those of the call that has the lane; none
   stays behind to free the lane of a later call.                            *)
ListenersFollowLane ==
    NoneConditional => listeners = IF busy THEN {clearer} ELSE {}

(* A tab has one prompt open at a time (msg-flow.ts:238, "same tab already has
   a flow opened"), until it is closed or loads another page.                *)
OneFlowPerTab == steady /\ NoneConditional => Cardinality(Showing) <= 1

(* Every prompt that is queued gets its turn (msg-flow.ts:292, "fire up next in
   queue"), unless one before it never ends.                                 *)
QueuedGetTurn ==
    \A r \in Request :
        pc[r] = "queued" ~> \/ pc[r] \in {"condition", "open", "refused"}
                            \/ \E q \in Request : pc[q] = "hung"

(* What makes the lane safe, by induction.  Occupied: the call that has the
   lane is there to free it.  Steps of one lane: as long as no condition has
   been read, the listeners follow the lane; a call that was woken finds it
   free and is the only one; a tab event meets the listener of the call that
   has the lane; and until the first such event that call alone may show a
   prompt.                                                                   *)
Occupied == busy => clearer \in Request /\ pc[clearer] \in {"open", "hung"}
ConditionsRead == \A r \in Request : pc[r] = "condition" => r \in Conditional
Holder == IF busy THEN {clearer} ELSE {}
WokenAlone ==
    \A r \in Request : pc[r] = "woken" =>
        /\ ~busy /\ event = {}
        /\ \A q \in Request : pc[q] = "woken" => q = r
EventMeetsHolder == event # {} => event = Holder /\ ~steady
HolderShows == steady => \A r \in Request : pc[r] = "open" => r \in Holder
LaneInv ==
    /\ Occupied
    /\ ConditionsRead
    /\ NoneConditional =>
         listeners = Holder /\ WokenAlone /\ EventMeetsHolder /\ HolderShows
=============================================================================
