---------------------------- MODULE NetworkFeeds ----------------------------
(* The service worker's list of chain feeds (a_feeds of
   src/src/script/service.ts): made at login, checked by an alarm and at every
   login, woken by popups, destroyed at logout.  A feed has one socket here;
   FeedSocket models what is inside.  What an account needs of a feed is left
   out: following it, and whatever else awaits the node, goes on or hangs.

   Three locks guard the list: net:feeds around a check, net:feed:<chain> in
   createAll(), net:feed:<host> around the wake of one feed.  No two of them
   exclude each other.                                                       *)
EXTENDS Naturals, FiniteSets, Sequences, SequencesExt

CONSTANTS
    Chains,       \* the number of chains, each with one provider
    Waker,        \* requests of popups to wake the feeds
    MaxFeeds,     \* bound: feeds that somebody holds at once
    MaxChecks,    \* bound: checks, by the alarm, logins and new accounts
    MaxTroubles   \* bound: failures and losses, logouts and restarts

ASSUME FeedsAssumption ==
    {Chains, MaxFeeds, MaxChecks, MaxTroubles} \subseteq Nat \ {0}

VARIABLES
    feeds,    \* the feeds that were made
    list,     \* a_feeds
    known,    \* H_FEEDS: the last feed that createAll() finished for a chain
    unlocked, \* is there a root key?
    pending,  \* checks that wait for net:feeds
    checks,   \* checks that were asked for so far
    check,    \* the check that has net:feeds
    wakes,    \* the requests to wake
    raced,    \* history: did two make feeds of the same chains at once?
    troubles  \* failures, losses, logouts and restarts so far

feedsVars == <<feeds, list, known, unlocked, pending, checks, check, wakes,
               raced, troubles>>

Chain  == 1..Chains  \* in the order of the chains store
FeedId == 1..MaxFeeds

aside == <<unlocked, pending, checks, troubles>>

(* by: who made it; call: its create() is opening the socket, or awaits the node
   to confirm what it follows, or has returned or rejected; life: its
   connection is up, silent, lost (closed, perhaps being restarted), healed
   by a restart, or closed for good; gone: destroy() was called.             *)
Feed == [chain : Chain \union {0},
         by    : {"none", "createAll", "check", "wake"},
         call  : {"none", "opening", "joining", "returned", "rejected"},
         life  : {"none", "up", "silent", "lost", "healed", "closed"},
         gone  : BOOLEAN]
NoFeed == [chain |-> 0, by |-> "none", call |-> "none", life |-> "none",
           gone |-> FALSE]

(* i: the place in the list; feed: the feed at hand; new: the one that
   recreate() makes; made: the feeds that createAll() has begun to make, one per
   chain.                                                                    *)
Check == [pc : {"none", "waking", "recreating", "follow", "create"},
          i : Nat \ {0}, feed : FeedId \union {0}, new : FeedId \union {0},
          made : Seq(FeedId)]
NoCheck == [pc |-> "none", i |-> 1, feed |-> 0, new |-> 0, made |-> <<>>]

(* pairs: neighbours on the list that were both deaf when the request began, as
   long as no other request is under way.                                    *)
Wake == [pc : {"idle", "locking", "waking", "recreating", "done",
               "failed"},
         i : Nat \ {0}, feed : FeedId \union {0}, new : FeedId \union {0},
         pairs : SUBSET (FeedId \X FeedId)]
NoWake == [pc |-> "idle", i |-> 1, feed |-> 0, new |-> 0, pairs |-> {}]

FeedsTypeOK ==
    /\ feeds \in [FeedId -> Feed]
    /\ list \in Seq(FeedId)
    /\ known \in [Chain -> FeedId \union {0}]
    /\ {unlocked, raced} \subseteq BOOLEAN
    /\ pending \in 0..checks
    /\ checks \in 0..MaxChecks
    /\ check \in Check
    /\ wakes \in [Waker -> Wake]
    /\ troubles \in 0..MaxTroubles

(* The service worker starts, and checks in case the wallet is unlocked.     *)
FeedsInit ==
    /\ feeds = [f \in FeedId |-> NoFeed]
    /\ list = <<>>
    /\ known = [c \in Chain |-> 0]
    /\ unlocked \in BOOLEAN
    /\ pending = 1 /\ checks = 1
    /\ check = NoCheck
    /\ wakes = [w \in Waker |-> NoWake]
    /\ raced = FALSE
    /\ troubles = 0

-----------------------------------------------------------------------------
Connected(f) == feeds[f].life \in {"up", "silent", "healed"}

(* wake() of the feed throws at once, now and ever after: it was destroyed, or
   its socket was lost once, which sets _b_closed for good.                  *)
Deaf(f) == feeds[f].gone \/ feeds[f].life \in {"lost", "healed", "closed"}
Answering(f) == feeds[f].life = "up" /\ ~feeds[f].gone

Making == {f \in FeedId : feeds[f].call \in {"opening", "joining"}}

Watched == UNION {wakes[w].pairs : w \in Waker}

(* A feed that nobody refers to, closed for good: it is as if never made.    *)
Held == Range(list) \union Range(check.made) \union {check.feed, check.new}
        \union {known[c] : c \in Chain} \union Making
        \union (UNION {{wakes[w].feed, wakes[w].new} : w \in Waker})
        \union (UNION {{p[1], p[2]} : p \in Watched})
Unused == {f \in FeedId \ Held : feeds[f].life \in {"none", "closed"}}
Unheld == {f \in Unused : \A g \in Unused : f <= g}

(* destroy(): a socket that was lost once counts as closed already, and neither
   the restart under way nor the connection it made is closed.               *)
Destroyed(fs) ==
    [f \in FeedId |->
        IF f \notin fs THEN feeds[f]
        ELSE [feeds[f] EXCEPT
                 !.gone = TRUE,
                 !.life = IF @ \in {"up", "silent"} THEN "closed" ELSE @]]
Opening(c, by) == [chain |-> c, by |-> by, call |-> "opening", life |-> "none",
                   gone |-> FALSE]

(* recreate(): destroy(), then create().                                     *)
Recreated(f, new, by) ==
    [Destroyed({f}) EXCEPT ![new] = Opening(feeds[f].chain, by)]

(* create(): once the socket is open, whatever the feed fails to follow is
   swallowed, and the feed returned.                                         *)
Returned(f) == [feeds EXCEPT ![f].call = "returned"]
Unopened(f) == [feeds EXCEPT ![f].call = "rejected", ![f].life = "closed"]

EndCheck == check' = NoCheck
Waking == {w \in Waker : wakes[w].pc \notin {"idle", "done", "failed"}}

-----------------------------------------------------------------------------
(* The alarm rings; a popup broadcasts a login, or a new account as a login.  *)
AskCheck ==
    /\ checks < MaxChecks
    /\ checks' = checks + 1
    /\ pending' = pending + 1
Alarm ==
    /\ AskCheck
    /\ UNCHANGED <<feeds, list, known, unlocked, check, wakes, raced, troubles>>
Login ==
    /\ AskCheck
    /\ unlocked' = TRUE
    /\ UNCHANGED <<feeds, list, known, check, wakes, raced, troubles>>

(* The feed at a place of the list is next; after the last, there may be new
   accounts to follow.                                                       *)
CheckAt(i) ==
    IF i <= Len(list)
    THEN {[NoCheck EXCEPT !.pc = "waking", !.i = i, !.feed = list[i]]}
    ELSE {NoCheck, [NoCheck EXCEPT !.pc = "follow"]}

(* The lock is granted.  Nothing happens unless the wallet is unlocked, and
   feeds are made when there are none, though some may still be in the making.
   A mutant makes them anyway.                                               *)
Meets == \E f \in Making : feeds[f].by # "check"
BeginCreate ==
    /\ check' = [NoCheck EXCEPT !.pc = "create"]
    /\ raced' = (raced \/ Meets)
BeginUnasked ==
    /\ check.pc = "none" /\ pending > 0
    /\ pending' = pending - 1
    /\ \/ ~unlocked /\ UNCHANGED <<check, raced>>
       \/ unlocked /\ BeginCreate
    /\ UNCHANGED <<feeds, list, known, unlocked, checks, wakes, troubles>>
Begin ==
    /\ check.pc = "none" /\ pending > 0
    /\ pending' = pending - 1
    /\ \/ ~unlocked /\ UNCHANGED <<check, raced>>
       \/ unlocked /\ list = <<>> /\ BeginCreate
       \/ unlocked /\ list # <<>> /\ check' \in CheckAt(1) /\ UNCHANGED raced
    /\ UNCHANGED <<feeds, list, known, unlocked, checks, wakes, troubles>>

(* A feed that answers stays.  Any other is destroyed and made again, and the
   list keeps the old one.                                                   *)
Answers ==
    /\ check.pc = "waking"
    /\ Answering(check.feed)
    /\ check' \in CheckAt(check.i + 1)
    /\ UNCHANGED <<feeds, list, known, wakes, raced, aside>>
Silent ==
    /\ check.pc = "waking"
    /\ ~Answering(check.feed)
    /\ \E new \in Unheld :
          /\ feeds' = Recreated(check.feed, new, "check")
          /\ check' = [check EXCEPT !.pc = "recreating", !.new = new]
    /\ UNCHANGED <<list, known, wakes, raced, aside>>

(* recreate() returns a feed that the check drops: it runs on, and nobody refers
   to it.  Or it rejects.  A mutant never hears of that.                     *)
Dropped ==
    /\ check.pc = "recreating"
    /\ feeds[check.new].call = "joining"
    /\ feeds' = Returned(check.new)
    /\ check' \in CheckAt(check.i + 1)
    /\ UNCHANGED <<list, known, wakes, raced, aside>>
RecreateHangs ==
    /\ check.pc = "recreating"
    /\ feeds[check.new].call = "opening"
    /\ feeds' = Unopened(check.new)
    /\ UNCHANGED <<list, known, check, wakes, raced, aside>>
RecreateFails ==
    /\ check.pc = "recreating"
    /\ feeds[check.new].call = "opening"
    /\ feeds' = Unopened(check.new)
    /\ EndCheck
    /\ UNCHANGED <<list, known, wakes, raced, aside>>

(* followAccount() of the new accounts, by each feed of the list.  It throws on
   a destroyed feed, and otherwise if the node refuses or the socket is being
   restarted; on a connection that is silent or closed it waits for ever.     *)
Followable == check.i <= Len(list) /\ ~feeds[list[check.i]].gone
FollowOver ==
    /\ check.pc = "follow"
    /\ ~Followable
    /\ EndCheck
    /\ UNCHANGED <<feeds, list, known, wakes, raced, aside>>
FollowNext ==
    /\ check.pc = "follow"
    /\ Followable
    /\ \/ /\ feeds[list[check.i]].life \in {"up", "healed"}
          /\ check' = [check EXCEPT !.i = @ + 1]
       \/ /\ feeds[list[check.i]].life \in {"up", "healed", "lost"}
          /\ EndCheck
    /\ UNCHANGED <<feeds, list, known, wakes, raced, aside>>

-----------------------------------------------------------------------------
NextChain == Len(check.made) + 1
Serving == check.pc = "create" /\ NextChain \in Chain
Served == check.pc = "create" /\ NextChain \notin Chain

(* createAll(), one chain: the feed it made before is destroyed, and a new one
   is opened while the next chain is served.  A mutant keeps the old one.    *)
CreateBeside ==
    /\ Serving
    /\ \E new \in Unheld :
          /\ feeds' = [feeds EXCEPT ![new] = Opening(NextChain, "createAll")]
          /\ check' = [check EXCEPT !.made = Append(@, new)]
    /\ UNCHANGED <<list, known, wakes, raced, aside>>
Create ==
    /\ Serving
    /\ \E new \in Unheld :
          /\ feeds' = [Destroyed({known[NextChain]}) EXCEPT
                          ![new] = Opening(NextChain, "createAll")]
          /\ check' = [check EXCEPT !.made = Append(@, new)]
    /\ UNCHANGED <<list, known, wakes, raced, aside>>

(* All providers of the chain are offline: createAll() throws.               *)
Offline ==
    /\ Serving
    /\ EndCheck
    /\ UNCHANGED <<feeds, list, known, wakes, raced, aside>>

(* The socket opens.                                                         *)
Opens(f) ==
    /\ feeds[f].call = "opening"
    /\ feeds' = [feeds EXCEPT ![f].call = "joining", ![f].life = "up"]
    /\ UNCHANGED <<list, known, check, wakes, raced, aside>>

(* A feed that createAll() makes is returned and becomes the chain's, whether or
   not its createAll() has thrown by now; or it could not be opened.         *)
Resolve(f) ==
    /\ feeds[f].by = "createAll" /\ feeds[f].call = "joining"
    /\ feeds' = Returned(f)
    /\ known' = [known EXCEPT ![feeds[f].chain] = f]
    /\ UNCHANGED <<list, check, wakes, raced, aside>>
Reject(f) ==
    /\ feeds[f].by = "createAll" /\ feeds[f].call = "opening"
    /\ feeds' = Unopened(f)
    /\ UNCHANGED <<list, known, check, wakes, raced, aside>>

(* Promise.all(): the feeds are listed once all are there, and none is if one
   was rejected.                                                             *)
Settle ==
    /\ Served
    /\ \/ /\ \A f \in Range(check.made) : feeds[f].call = "returned"
          /\ list' = list \o check.made
       \/ /\ \E f \in Range(check.made) : feeds[f].call = "rejected"
          /\ UNCHANGED list
    /\ EndCheck
    /\ UNCHANGED <<feeds, known, wakes, raced, aside>>

-----------------------------------------------------------------------------
SetWake(w, call) == wakes' = [wakes EXCEPT ![w] = call]

(* The feed at a place of the list is next: its lock is free or awaited.      *)
Host(w) == feeds[wakes[w].feed].chain
WakeAt(w, i, l) ==
    IF i > Len(l) THEN [NoWake EXCEPT !.pc = "done", !.pairs = wakes[w].pairs]
    ELSE [wakes[w] EXCEPT
             !.pc = IF \E v \in Waking \ {w} : Host(v) = feeds[l[i]].chain
                    THEN "locking" ELSE "waking",
             !.i = i, !.feed = l[i], !.new = 0]

(* A popup asks for all feeds to be woken.                                   *)
DeafPairs ==
    {<<list[k], list[k + 1]>> : k \in {j \in 1..(Len(list) - 1) :
                                          Deaf(list[j]) /\ Deaf(list[j + 1])}}
WakeBegin(w) ==
    /\ wakes[w].pc = "idle"
    /\ wakes' = [v \in Waker |->
          IF v = w THEN [WakeAt(w, 1, list) EXCEPT
                            !.pairs = IF Waking = {} THEN DeafPairs ELSE {}]
          ELSE [wakes[v] EXCEPT !.pairs = IF v \in Waking THEN {} ELSE @]]
    /\ UNCHANGED <<feeds, list, known, check, raced, aside>>

WakeLocks(w) ==
    /\ wakes[w].pc = "locking"
    /\ ~ \E v \in Waker :
            wakes[v].pc \in {"waking", "recreating"} /\ Host(v) = Host(w)
    /\ SetWake(w, [wakes[w] EXCEPT !.pc = "waking"])
    /\ UNCHANGED <<feeds, list, known, check, raced, aside>>

WakeAnswered(w) ==
    /\ wakes[w].pc = "waking"
    /\ Answering(wakes[w].feed)
    /\ SetWake(w, WakeAt(w, wakes[w].i + 1, list))
    /\ UNCHANGED <<feeds, list, known, check, raced, aside>>

(* No answer: the feed is destroyed, taken off the list and made again, even if
   another request has done so since this one read the list.  A mutant leaves
   it on the list.                                                           *)
Places(f) == {k \in DOMAIN list : list[k] = f}
Without(f) == IF Places(f) = {} THEN list
              ELSE RemoveAt(list, CHOOSE k \in Places(f) : TRUE)
WakeKeeps(w) ==
    /\ wakes[w].pc = "waking"
    /\ ~Answering(wakes[w].feed)
    /\ \E new \in Unheld :
          /\ feeds' = Recreated(wakes[w].feed, new, "wake")
          /\ SetWake(w, [wakes[w] EXCEPT !.pc = "recreating", !.new = new])
    /\ raced' = (raced \/ wakes[w].feed \notin Range(list))
    /\ UNCHANGED <<list, known, check, aside>>
WakeReplaces(w) ==
    /\ wakes[w].pc = "waking"
    /\ ~Answering(wakes[w].feed)
    /\ list' = Without(wakes[w].feed)
    /\ \E new \in Unheld :
          /\ feeds' = Recreated(wakes[w].feed, new, "wake")
          /\ SetWake(w, [wakes[w] EXCEPT !.pc = "recreating", !.new = new])
    /\ raced' = (raced \/ wakes[w].feed \notin Range(list))
    /\ UNCHANGED <<known, check, aside>>

(* The new feed goes to the end of the list, or the request fails with it.   *)
WakeReplaced(w) ==
    /\ wakes[w].pc = "recreating"
    /\ feeds[wakes[w].new].call = "joining"
    /\ feeds' = Returned(wakes[w].new)
    /\ list' = Append(list, wakes[w].new)
    /\ SetWake(w, WakeAt(w, wakes[w].i + 1, list'))
    /\ UNCHANGED <<known, check, raced, aside>>
WakeFails(w) ==
    /\ wakes[w].pc = "recreating"
    /\ feeds[wakes[w].new].call = "opening"
    /\ feeds' = Unopened(wakes[w].new)
    /\ SetWake(w, [NoWake EXCEPT !.pc = "failed"])
    /\ UNCHANGED <<list, known, check, raced, aside>>

-----------------------------------------------------------------------------
Trouble == troubles < MaxTroubles /\ troubles' = troubles + 1

(* The user logs out: the feeds of the list are destroyed, and stay on it.   *)
Logout ==
    /\ unlocked
    /\ Trouble
    /\ unlocked' = FALSE
    /\ feeds' = Destroyed(Range(list))
    /\ UNCHANGED <<list, known, pending, checks, check, wakes, raced>>

(* A node or the network fails, for any number of feeds at once: the connections
   answer no more, or are lost.                                              *)
LifeOf(fs, life) ==
    feeds' = [f \in FeedId |-> IF f \in fs THEN [feeds[f] EXCEPT !.life = life]
                               ELSE feeds[f]]
Fail ==
    /\ Trouble
    /\ \/ \E fs \in SUBSET {f \in FeedId : feeds[f].life = "up"} :
             fs # {} /\ LifeOf(fs, "silent")
       \/ \E fs \in SUBSET {f \in FeedId : feeds[f].life \in {"up", "silent"}} :
             fs # {} /\ LifeOf(fs, "lost")
    /\ UNCHANGED <<list, known, unlocked, pending, checks, check, wakes, raced>>

(* Then the network is back, a restart connects or fails, or a connection that
   had healed is lost once more, and for good.                               *)
Aftermath(f) ==
    /\ \/ feeds[f].life = "silent" /\ LifeOf({f}, "up")
       \/ feeds[f].life = "lost" /\ LifeOf({f}, "healed")
       \/ feeds[f].life \in {"lost", "healed"} /\ LifeOf({f}, "closed")
    /\ UNCHANGED <<list, known, check, wakes, raced, aside>>

(* The browser ends the service worker and starts it again.                  *)
Restart ==
    /\ Trouble
    /\ checks < MaxChecks /\ checks' = checks + 1
    /\ feeds' = [f \in FeedId |-> NoFeed]
    /\ list' = <<>> /\ known' = [c \in Chain |-> 0]
    /\ pending' = 1 /\ check' = NoCheck
    /\ wakes' = [w \in Waker |-> IF wakes[w].pc = "idle" THEN NoWake
                                  ELSE [NoWake EXCEPT !.pc = "failed"]]
    /\ raced' = FALSE
    /\ UNCHANGED unlocked

-----------------------------------------------------------------------------
(* Steps with a time limit, and those that a node may leave undone for ever.  *)
CheckStep ==
    \/ Begin \/ Answers \/ Silent \/ RecreateFails \/ FollowOver
    \/ Create \/ Offline \/ Settle
WakeStep(w) ==
    \/ WakeLocks(w) \/ WakeAnswered(w) \/ WakeReplaces(w) \/ WakeFails(w)
NodeStep ==
    \/ Dropped \/ FollowNext
    \/ \E f \in FeedId : Resolve(f)
    \/ \E w \in Waker : WakeReplaced(w)

FeedsNext ==
    \/ Alarm \/ Login \/ Logout \/ Fail \/ Restart
    \/ CheckStep \/ NodeStep
    \/ \E f \in FeedId : Opens(f) \/ Reject(f) \/ Aftermath(f)
    \/ \E w \in Waker : WakeBegin(w) \/ WakeStep(w)

FeedsSpec == FeedsInit /\ [][FeedsNext]_feedsVars

(* Locks are granted, and pings and sockets being opened end: they have time
   limits.  Nothing has that awaits the confirmation of a subscription.      *)
FeedsFairness ==
    /\ WF_feedsVars(CheckStep)
    /\ \A f \in FeedId : WF_feedsVars(Opens(f) \/ Reject(f))
    /\ \A w \in Waker : WF_feedsVars(WakeStep(w))
FairFeedsSpec == FeedsSpec /\ FeedsFairness

-----------------------------------------------------------------------------
(* Until two make feeds of the same chains at once, the list has one feed of a
   chain, although checks and requests hold different locks: a second would
   report everything twice (service-feed.ts:189, "destroy old feed").         *)
OneListedPerChain ==
    ~raced => \A f, g \in Range(list) : feeds[f].chain = feeds[g].chain => f = g

(* Until then, only these connections run on out of everybody's reach: those
   that the alarm's check makes and drops, and those that had healed when they
   were destroyed.  Any other is on the list, in the hands of whoever makes it,
   or known to the next createAll() when it finds no list.                   *)
Reachable ==
    ~raced => \A f \in FeedId :
        Connected(f) /\ ~feeds[f].gone /\ feeds[f].by # "check" =>
            \/ f \in Range(list) \union Range(check.made) \union Making
            \/ list = <<>> /\ known[feeds[f].chain] = f

(* A request to wake goes on with the next place of the list after it has taken
   a feed off it, and so skips one (service-router-instruction.ts:35, 60).  It
   skips no more: of two neighbours that were deaf when it began, at least one
   is off the list when it ends, if it overlapped no other request.           *)
WakeHeals ==
    \A w \in Waker : wakes[w].pc = "done" =>
        \A p \in wakes[w].pairs : ~ ({p[1], p[2]} \subseteq Range(list))

(* Only a node can keep net:feeds or a request for ever, one that leaves a
   feed's subscriptions unconfirmed: none of the steps that have a time limit
   waits for another in a circle.                                            *)
CheckAwaitsNode ==
    \/ check.pc = "recreating" /\ feeds[check.new].call = "joining"
    \/ Served /\ \E f \in Range(check.made) : feeds[f].call = "joining"
    \/ check.pc = "follow" /\ Followable
Joining(w) == wakes[w].pc = "recreating" /\ feeds[wakes[w].new].call = "joining"
WakeAwaitsNode(w) ==
    \/ Joining(w)
    \/ /\ wakes[w].pc = "locking"
       /\ \E v \in Waker : Joining(v) /\ Host(v) = Host(w)
WorkEnds ==
    /\ []<>(check.pc = "none") \/ <>[]CheckAwaitsNode
    /\ \A w \in Waker : []<>(w \notin Waking) \/ <>[]WakeAwaitsNode(w)
=============================================================================
