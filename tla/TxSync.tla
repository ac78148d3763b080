------------------------------- MODULE TxSync -------------------------------
(* How the transactions of an account reach the wallet's incidents: the signing
   screen records what it is about to broadcast, the feed of a chain listens for
   what is committed and synchronizes what it has missed
   (synchronize() of src/src/chain/cosmos-network.ts, followAccount() of
   service-feed.ts, the hooks of service-tx-abcis.ts, RequestSignature.svelte),
   and each of them writes to two stores, one after the other (incidents.ts).

   A chain stands for one filter that its feed follows; a block has one
   transaction at most, so heights are positions.                            *)
EXTENDS Naturals, Sequences

CONSTANTS
    Tx, Chain,
    ChainOf,    \* the chain of each transaction
    Out,        \* transactions that the wallet signs; the others come in
    Failing,    \* those of them that may fail when the chain executes them
    Probe, Limit, \* sizes of the first page of a search and of the others (6, 16)
    MaxTroubles, \* bound: times the worker ends, a search fails, a
                 \* connection is lost or a feed is made again
    None

Saver == [by : {"window", "hook", "sync"}, tx : Tx]

ASSUME ConstantsAssumption ==
    /\ ChainOf \in [Tx -> Chain]
    /\ Failing \subseteq Out /\ Out \subseteq Tx
    /\ {Probe, Limit} \subseteq Nat \ {0}
    /\ MaxTroubles \in Nat
    /\ None \notin Saver

VARIABLES
    blocks,  \* the committed transactions of each chain
    pool,    \* transactions that may be committed
    failed,  \* those that failed when they were
    win,     \* the signing screen of each transaction
    stage,   \* the incidents store: the stage of each transaction
    shown,   \* the histories store: the transactions in its order
    height,  \* and the height that each chain has been synchronized to
    saving,  \* who has the incidents store open between its two saves
    conn,    \* the subscription of each chain's feed
    hook,    \* the handler of each transaction's event
    sync,    \* the feed of each chain
    missed,  \* history: events that the chain's feed has not taken in
    overtaken, \* history: transactions that were marked absent when recorded
    troubles \* so far

chains == <<blocks, pool, failed>>
stores == <<stage, shown, saving, overtaken>>
vars == <<chains, win, stores, height, conn, hook, sync, missed, troubles>>

Stage == {"none", "pending", "absent", "synced"}
At == {"down", "latest", "probe", "fetch", "read", "walk", "recording", "pending",
       "check", "found", "absent", "up", "failed"}
Sync == [at : At, latest : Nat, from : Nat, next : Nat, key : Nat \ {0}, low : Nat,
         known : SUBSET Tx, todo : SUBSET Tx, tx : Tx \union {None}]

TypeOK ==
    /\ blocks \in [Chain -> Seq(Tx)]
    /\ pool \subseteq Tx /\ failed \subseteq Failing
    /\ win \in [Tx -> {"idle", "recording", "recorded", "refused", "gone"}]
    /\ stage \in [Tx -> Stage] /\ shown \subseteq Tx
    /\ height \in [Chain -> Nat]
    /\ saving \in Saver \union {None}
    /\ conn \in [Chain -> {"none", "up", "away", "healed", "closed"}]
    /\ hook \in [Tx -> {"none", "event", "found", "absent", "recording"}]
    /\ sync \in [Chain -> Sync]
    /\ missed \subseteq Tx /\ overtaken \subseteq Tx
    /\ troubles \in 0..MaxTroubles

Down == [at |-> "down", latest |-> 0, from |-> 0, next |-> 0, key |-> 1, low |-> 0,
         known |-> {}, todo |-> {}, tx |-> None]

Init ==
    /\ blocks = [c \in Chain |-> <<>>]
    /\ pool = Tx \ Out /\ failed = {}
    /\ win = [t \in Tx |-> "idle"]
    /\ stage = [t \in Tx |-> "none"] /\ shown = {}
    /\ height = [c \in Chain |-> 0]
    /\ saving = None
    /\ conn = [c \in Chain |-> "none"]
    /\ hook = [t \in Tx |-> "none"]
    /\ sync = [c \in Chain |-> Down]
    /\ missed = {} /\ overtaken = {}
    /\ troubles = 0

-----------------------------------------------------------------------------
On(c, t) == \E i \in DOMAIN blocks[c] : blocks[c][i] = t
Committed(t) == On(ChainOf[t], t)

(* An incident gets a stage; it may be the final one, or be marked absent later. *)
Staged(t, to) ==
    /\ stage' = [stage EXCEPT ![t] = to]
    /\ overtaken' = IF to = "synced" THEN overtaken \ {t}
                    ELSE overtaken \union {u \in {t} : stage[u] = "synced"}

(* record(): the incident is saved while the store is open, and the history
   after it; only then is the store released.  A mutant saves the history first. *)
SaveHistoryFirst(by, t, to) ==
    /\ saving = None
    /\ saving' = [by |-> by, tx |-> t]
    /\ shown' = shown \union {t}
    /\ UNCHANGED <<stage, overtaken>>
Save(by, t, to) ==
    /\ saving = None
    /\ saving' = [by |-> by, tx |-> t]
    /\ Staged(t, to)
    /\ UNCHANGED shown
SaveHistory(by, t) ==
    /\ saving = [by |-> by, tx |-> t]
    /\ saving' = None
    /\ shown' = shown \union {t}
    /\ UNCHANGED <<stage, overtaken>>

(* mutateData() waits for the store too, and leaves the history alone.       *)
Mutate(t, to) ==
    /\ saving = None
    /\ Staged(t, to)
    /\ UNCHANGED <<shown, saving>>

(* A transaction that was not found is marked absent, whatever has become of its
   incident since; if there is none, that throws.                            *)
MarkAbsent(t) ==
    IF stage[t] = "none" THEN saving = None /\ UNCHANGED stores
    ELSE Mutate(t, "absent")

-----------------------------------------------------------------------------
(* The user signs: the transaction is recorded, then broadcast.              *)
Sign(t) ==
    /\ t \in Out /\ win[t] = "idle"
    /\ Save("window", t, "pending")
    /\ win' = [win EXCEPT ![t] = "recording"]
    /\ UNCHANGED <<chains, height, conn, hook, sync, missed, troubles>>
Recorded(t) ==
    /\ win[t] = "recording"
    /\ SaveHistory("window", t)
    /\ win' = [win EXCEPT ![t] = "recorded"]
    /\ UNCHANGED <<chains, height, conn, hook, sync, missed, troubles>>

(* The node takes it, or refuses it; or it never arrives.  A broadcast whose
   answer is lost may be repeated, and is then refused as known.             *)
Broadcast(t) ==
    /\ win[t] = "recorded"
    /\ \/ pool' = pool \union {t} /\ win' = [win EXCEPT ![t] = "gone"]
       \/ UNCHANGED pool /\ win' = [win EXCEPT ![t] = "refused"]
       \/ pool' = pool \union {t} /\ win' = [win EXCEPT ![t] = "refused"]
    /\ UNCHANGED <<blocks, failed, stores, height, conn, hook, sync, missed, troubles>>
Refused(t) ==
    /\ win[t] = "refused"
    /\ Mutate(t, "synced")
    /\ win' = [win EXCEPT ![t] = "gone"]
    /\ UNCHANGED <<chains, height, conn, hook, sync, missed, troubles>>
Close(t) ==
    /\ win[t] \in {"recording", "recorded", "refused"}
    /\ win' = [win EXCEPT ![t] = "gone"]
    /\ saving' = IF saving = [by |-> "window", tx |-> t] THEN None ELSE saving
    /\ UNCHANGED <<chains, stage, shown, overtaken, height, conn, hook, sync, missed,
                   troubles>>

(* The feed has subscribed.                                                  *)
Listening(c) == sync[c].at \notin {"down", "latest"}

(* The chain commits it, and tells those who listen.                         *)
Commit(t) ==
    LET c == ChainOf[t]
    IN  /\ t \in pool
        /\ pool' = pool \ {t}
        /\ blocks' = [blocks EXCEPT ![c] = Append(@, t)]
        /\ \/ UNCHANGED failed
           \/ t \in Failing /\ failed' = failed \union {t}
        /\ hook' = IF conn[c] \in {"up", "healed"}
                   THEN [hook EXCEPT ![t] = "event"] ELSE hook
        /\ missed' = IF conn[c] \in {"away", "closed"} /\ Listening(c)
                     THEN missed \union {t} ELSE missed
        /\ UNCHANGED <<win, stores, height, conn, sync, troubles>>

-----------------------------------------------------------------------------
(* The handler of a successful transaction's event downloads it, from a node that
   may not find it, or fail.                                                 *)
Download(t) ==
    /\ hook[t] = "event" /\ t \notin failed
    /\ \E got \in {"found", "absent", "none"} :
        /\ hook' = [hook EXCEPT ![t] = got]
        /\ missed' = IF got = "found" THEN missed ELSE missed \union {t}
    /\ UNCHANGED <<chains, win, stores, height, conn, sync, troubles>>
HookAbsent(t) ==
    /\ hook[t] = "absent"
    /\ MarkAbsent(t)
    /\ hook' = [hook EXCEPT ![t] = "none"]
    /\ UNCHANGED <<chains, win, height, conn, sync, missed, troubles>>
(* What failed on the chain changes an incident that is there; else the incident
   is recorded, over any other.                                              *)
Mutates(t) == t \in failed /\ stage[t] # "none"
HookRecord(t) ==
    /\ hook[t] = "found" \/ (hook[t] = "event" /\ t \in failed)
    /\ IF Mutates(t) THEN Mutate(t, "synced") /\ hook' = [hook EXCEPT ![t] = "none"]
       ELSE Save("hook", t, "synced") /\ hook' = [hook EXCEPT ![t] = "recording"]
    /\ UNCHANGED <<chains, win, height, conn, sync, missed, troubles>>
HookRecorded(t) ==
    /\ hook[t] = "recording"
    /\ SaveHistory("hook", t)
    /\ hook' = [hook EXCEPT ![t] = "none"]
    /\ UNCHANGED <<chains, win, height, conn, sync, missed, troubles>>
Handler(t) == Download(t) \/ HookAbsent(t) \/ HookRecord(t) \/ HookRecorded(t)

-----------------------------------------------------------------------------
(* A feed asks for the latest block, subscribes and synchronizes from the height
   it has been synchronized to.  A mutant does not subscribe before.         *)
Latest(c) ==
    /\ sync[c].at = "down"
    /\ sync' = [sync EXCEPT ![c] = [Down EXCEPT !.at = "latest",
                                                !.latest = Len(blocks[c])]]
    /\ UNCHANGED <<chains, win, stores, height, conn, hook, missed, troubles>>
Begun(c) ==
    sync' = [sync EXCEPT ![c].at = "probe", ![c].from = height[c]]
SubscribeLater(c) ==
    /\ sync[c].at = "latest"
    /\ Begun(c)
    /\ UNCHANGED <<chains, win, stores, height, conn, hook, missed, troubles>>
Subscribe(c) ==
    /\ sync[c].at = "latest"
    /\ conn' = [conn EXCEPT ![c] = "up"]
    /\ Begun(c)
    /\ UNCHANGED <<chains, win, stores, height, hook, missed, troubles>>

(* A page of the search: the transactions from next down to key, those before
   the last page.  The incidents are read after it has arrived.              *)
Fetch(c) ==
    LET s == sync[c]
        top == IF s.at = "probe" THEN Len(blocks[c]) ELSE s.key - 1
        size == IF s.at = "probe" THEN Probe ELSE Limit
        key == IF top > size THEN top - size + 1 ELSE 1
    IN  /\ s.at \in {"probe", "fetch"}
        /\ sync' = [sync EXCEPT ![c] =
             [s EXCEPT !.at = "read", !.next = top, !.key = key,
                       !.low = IF key <= top /\ key < s.latest THEN key ELSE s.latest]]
        /\ UNCHANGED <<chains, win, stores, height, conn, hook, missed, troubles>>
ReadIncidents(c) ==
    /\ sync[c].at = "read"
    /\ sync' = [sync EXCEPT ![c].at = "walk",
                            ![c].known = {t \in Tx : stage[t] = "synced"}]
    /\ UNCHANGED <<chains, win, stores, height, conn, hook, missed, troubles>>

(* Each transaction of the page that is not known to be synced goes through the
   hook.                                                                     *)
Popped(s) == [s EXCEPT !.next = @ - 1, !.at = "walk"]
Walk(c) ==
    LET s == sync[c]
        t == blocks[c][s.next]
    IN  /\ s.at = "walk" /\ s.next >= s.key
        /\ \/ /\ t \in s.known
              /\ sync' = [sync EXCEPT ![c] = Popped(s)]
              /\ UNCHANGED stores
           \/ /\ t \notin s.known /\ Mutates(t)
              /\ Mutate(t, "synced")
              /\ sync' = [sync EXCEPT ![c] = Popped(s)]
           \/ /\ t \notin s.known /\ ~Mutates(t)
              /\ Save("sync", t, "synced")
              /\ sync' = [sync EXCEPT ![c].at = "recording"]
        /\ UNCHANGED <<chains, win, height, conn, hook, missed, troubles>>
SyncRecorded(c) ==
    /\ sync[c].at = "recording"
    /\ SaveHistory("sync", blocks[c][sync[c].next])
    /\ sync' = [sync EXCEPT ![c] = Popped(sync[c])]
    /\ UNCHANGED <<chains, win, height, conn, hook, missed, troubles>>

(* The search goes on until a page reaches below the height of the last time, or
   there are no more pages.                                                  *)
PageEnds(c) ==
    LET s == sync[c]
    IN  /\ s.at = "walk" /\ s.next < s.key
        /\ sync' = [sync EXCEPT ![c] =
             IF s.from > s.low \/ s.key = 1
             THEN [Down EXCEPT !.at = "pending", !.latest = s.latest]
             ELSE [s EXCEPT !.at = "fetch", !.known = {}]]
        /\ UNCHANGED <<chains, win, stores, height, conn, hook, missed, troubles>>

(* Then everything that is pending, on whatever chain, is looked for on this
   one, and merged if it is found, or marked absent.  A look-up that fails is
   passed over.                                                              *)
Pending(c) ==
    /\ sync[c].at = "pending"
    /\ sync' = [sync EXCEPT ![c].at = "check",
                            ![c].todo = {t \in shown : stage[t] = "pending"}]
    /\ UNCHANGED <<chains, win, stores, height, conn, hook, missed, troubles>>
Look(c, t) ==
    /\ sync[c].at = "check" /\ t \in sync[c].todo
    /\ \/ sync' = [sync EXCEPT ![c].todo = @ \ {t}]
       \/ sync' = [sync EXCEPT ![c].todo = @ \ {t}, ![c].tx = t,
                               ![c].at = IF On(c, t) THEN "found" ELSE "absent"]
    /\ UNCHANGED <<chains, win, stores, height, conn, hook, missed, troubles>>
Merge(c) ==
    /\ sync[c].at \in {"found", "absent"}
    /\ IF sync[c].at = "found" THEN Mutate(sync[c].tx, "synced")
       ELSE MarkAbsent(sync[c].tx)
    /\ sync' = [sync EXCEPT ![c].at = "check", ![c].tx = None]
    /\ UNCHANGED <<chains, win, height, conn, hook, missed, troubles>>

(* The height that was the latest when it began is saved.  A mutant saves the
   one that is the latest now.                                               *)
FinishAtLatest(c) ==
    /\ sync[c].at = "check" /\ sync[c].todo = {}
    /\ height' = [height EXCEPT ![c] = Len(blocks[c])]
    /\ sync' = [sync EXCEPT ![c] = [Down EXCEPT !.at = "up"]]
    /\ UNCHANGED <<chains, win, stores, conn, hook, missed, troubles>>
Finish(c) ==
    /\ sync[c].at = "check" /\ sync[c].todo = {}
    /\ height' = [height EXCEPT ![c] = sync[c].latest]
    /\ sync' = [sync EXCEPT ![c] = [Down EXCEPT !.at = "up"]]
    /\ UNCHANGED <<chains, win, stores, conn, hook, missed, troubles>>

Feed(c) ==
    \/ Latest(c) \/ Subscribe(c) \/ Fetch(c) \/ ReadIncidents(c) \/ Walk(c)
    \/ SyncRecorded(c) \/ PageEnds(c) \/ Pending(c) \/ Merge(c) \/ Finish(c)
    \/ \E t \in Tx : Look(c, t)

-----------------------------------------------------------------------------
Trouble == troubles < MaxTroubles /\ troubles' = troubles + 1

(* What comes before the subscription fails, or the search: create() returns the
   feed all the same, with the subscription it may have, and nothing synchronizes
   until a feed is made again.                                               *)
SyncFails(c) ==
    /\ sync[c].at \in {"latest", "probe", "fetch"}
    /\ Trouble
    /\ sync' = [sync EXCEPT ![c] = [Down EXCEPT !.at = "failed"]]
    /\ UNCHANGED <<chains, win, stores, height, conn, hook, missed>>

(* The connection is lost, even amid a search.  The socket restarts once, and
   restores the subscription, but nothing synchronizes what it has missed.   *)
Subscribed(c, to) == conn' = [conn EXCEPT ![c] = to]
Lose(c) ==
    /\ \/ conn[c] = "up" /\ Subscribed(c, "away")
       \/ conn[c] = "healed" /\ Subscribed(c, "closed")
    /\ Trouble
    /\ UNCHANGED <<chains, win, stores, height, hook, sync, missed>>
Restart(c) ==
    /\ conn[c] = "away" /\ Subscribed(c, "healed")
    /\ UNCHANGED <<chains, win, stores, height, hook, sync, missed, troubles>>

(* The feed is destroyed and made again; a connection that was lost once is not
   closed by that, and its handlers go on.                                   *)
Recreate(c) ==
    /\ sync[c].at \in {"up", "failed"}
    /\ Trouble
    /\ IF conn[c] = "up" THEN Subscribed(c, "none") ELSE UNCHANGED conn
    /\ sync' = [sync EXCEPT ![c] = Down]
    /\ missed' = {t \in missed : ChainOf[t] # c}
    /\ UNCHANGED <<chains, win, stores, height, hook>>

(* The browser ends the service worker, and with it what it was doing.       *)
Crash ==
    /\ Trouble
    /\ saving' = IF saving # None /\ saving.by # "window" THEN None ELSE saving
    /\ conn' = [c \in Chain |-> "none"]
    /\ hook' = [t \in Tx |-> "none"]
    /\ sync' = [c \in Chain |-> Down]
    /\ missed' = {}
    /\ UNCHANGED <<chains, win, stage, shown, overtaken, height>>

Window(t) == Sign(t) \/ Recorded(t) \/ Broadcast(t) \/ Refused(t) \/ Close(t)
Next ==
    \/ \E t \in Tx : Window(t) \/ Commit(t) \/ Handler(t)
    \/ \E c \in Chain : Feed(c) \/ SyncFails(c) \/ Lose(c) \/ Restart(c) \/ Recreate(c)
    \/ Crash

Spec == Init /\ [][Next]_vars

-----------------------------------------------------------------------------
(* Every transaction up to the height that a chain is said to be synchronized to
   has been recorded, so that the next synchronization need not look below it:
   none is other than synced, but for those that were marked absent after that.  *)
Final(t) == stage[t] = "synced" \/ t \in overtaken
SyncCovers ==
    \A c \in Chain : \A i \in 1..height[c] :
        i \in DOMAIN blocks[c] => Final(blocks[c][i])

(* The history lists no transaction that the incidents do not have: filter()
   would throw for all of them.                                              *)
OrderKnown == \A t \in shown : stage[t] # "none"

(* When a feed has synchronized, nothing that is on the chain has slipped through
   between the subscription and the search (service-feed.ts:675-708), whatever
   earlier feeds have missed: it has been recorded, or its event is being
   handled, or was lost by this feed's connection or its handler's download.  *)
NothingSlips ==
    \A c \in Chain : sync[c].at = "up" =>
        \A t \in Tx : On(c, t) =>
            Final(t) \/ hook[t] \in {"event", "found"} \/ t \in missed
=============================================================================
