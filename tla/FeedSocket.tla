----------------------------- MODULE FeedSocket -----------------------------
(* The websockets of one network feed and the subscriptions made over them.

   A NetworkFeed (src/src/script/service-feed.ts) follows blocks and accounts
   of a chain over a TmJsonRpcWebsocket (src/src/cosmos/tm-json-rpc-ws-const.ts).
   autoSubscribe() lets one subscription through at a time and opens a further
   socket when the server allows no more on the current one.  A socket whose
   connection is lost restarts itself and restores its subscriptions, numbering
   its messages from zero again.  A message carries the number of the call it
   answers, and the receiver is looked up by that number.

   Each macrotask of the page (a socket event, a timer, a call) is one step: the
   microtasks it starts run before the next.                                 *)
EXTENDS Naturals, FiniteSets, Sequences, SequencesExt

CONSTANTS
    Sub,          \* calls of autoSubscribe(), each with its own receiver
    None,         \* no subscription
    PerClient,    \* subscriptions the server allows on one connection
    MaxSockets,   \* bound: socket objects the feed makes
    MaxId,        \* bound: messages sent over one connection (see Room)
    MaxLosses,    \* bound: connections lost
    MaxPings,     \* bound: health checks sent
    MaxInbox,     \* bound: events are sent while fewer messages are under way
    LateCalls,    \* may autoSubscribe() be called while the socket reconnects?
    Rejected      \* the calls whose query the server rejects

ASSUME ConstantsAssumption ==
    /\ None \notin Sub
    /\ {PerClient, MaxSockets, MaxId} \subseteq Nat \ {0}
    /\ {MaxLosses, MaxPings, MaxInbox} \subseteq Nat
    /\ LateCalls \in BOOLEAN
    /\ Rejected \subseteq Sub

Socket == 1..MaxSockets
Id     == 0..MaxId

VARIABLES
    sock,       \* the socket objects and their connections
    cur,        \* _kc_socket, 0 when null
    filled,     \* _a_sockets_filled
    busy,       \* _b_subscriptions_busy
    waiting,    \* _a_subscriptions_waiting
    at,         \* where each call of autoSubscribe() is
    mine,       \* the socket each call holds
    destroyed,  \* the feed was destroyed
    losses,     \* counts lost connections, for MaxLosses
    pings       \* counts health checks, for MaxPings

feedVars == <<cur, filled, busy, waiting>>
callVars == <<at, mine>>
counts   == <<losses, pings>>
vars == <<sock, feedVars, callVars, destroyed, counts>>

(* Call structs: the promise of autoSubscribe() waits for the confirmation, or
   nobody does (a restored subscription); then data goes to the receiver.    *)
Call   == [sub : Sub \union {None},
           mode : {"none", "awaited", "restored", "stream", "health"}]
NoCall == [sub |-> None, mode |-> "none"]

Request == [id : Id, sub : Sub \union {None}]
Message == [id : Id, sub : Sub \union {None},
            kind : {"result", "full", "error", "event"}]

(* conn, requests, inbox and active belong to the connection, the last one to
   the server; restore is what restart() keeps for onopen.                   *)
SocketState ==
    [conn : {"none", "connecting", "open", "closed"}, closed : BOOLEAN,
     opened : BOOLEAN, count : Id, subs : Seq(Sub), restore : Seq(Sub),
     calls : [Id -> Call], requests : Seq(Request), inbox : Seq(Message),
     active : [Id -> Sub \union {None}]]

NoSocket ==
    [conn |-> "none", closed |-> FALSE, opened |-> FALSE, count |-> 0,
     subs |-> <<>>, restore |-> <<>>, calls |-> [i \in Id |-> NoCall],
     requests |-> <<>>, inbox |-> <<>>, active |-> [i \in Id |-> None]]

(* Mutant: the subscriptions are forgotten before they are kept.             *)
RestartedEmpty(s) ==
    [s EXCEPT !.conn = "connecting", !.opened = FALSE, !.count = 0,
              !.subs = <<>>, !.restore = <<>>, !.requests = <<>>,
              !.inbox = <<>>, !.active = [i \in Id |-> None]]

(* The constructor and restart(): a new connection; message numbers start
   anew, the call structs stay.                                              *)
Restarted(s) ==
    [s EXCEPT !.conn = "connecting", !.opened = FALSE, !.count = 0,
              !.subs = <<>>, !.restore = s.subs, !.requests = <<>>,
              !.inbox = <<>>, !.active = [i \in Id |-> None]]

TypeOK ==
    /\ sock \in [Socket -> SocketState]
    /\ cur \in Socket \union {0}
    /\ filled \in Seq(Socket)
    /\ busy \in BOOLEAN
    /\ waiting \in Seq(Sub)
    /\ at \in [Sub -> {"idle", "waiting", "turn", "subscribing", "opening",
                       "retrying", "following", "unheard", "thrown"}]
    /\ mine \in [Sub -> Socket \union {0}]
    /\ destroyed \in BOOLEAN
    /\ losses \in 0..MaxLosses
    /\ pings \in 0..MaxPings

(* open() of a feed just made.                                               *)
Init ==
    /\ sock = [k \in Socket |-> IF k = 1 THEN Restarted(NoSocket) ELSE NoSocket]
    /\ cur = 1 /\ filled = <<>>
    /\ busy = FALSE /\ waiting = <<>>
    /\ at = [s \in Sub |-> "idle"]
    /\ mine = [s \in Sub |-> 0]
    /\ destroyed = FALSE
    /\ losses = 0 /\ pings = 0

(* A message under the next number, and what is to become of its answer.     *)
Send(s, call) ==
    LET i == s.count
        request == [id |-> i, sub |-> call.sub]
    IN  [s EXCEPT !.count = i + 1,
                  !.calls[i] = call,
                  !.requests = IF s.conn = "open" THEN Append(@, request) ELSE @]

(* The bound on the numbers of messages.                                     *)
Room(s, n) == s.count + n <= MaxId

(* subscribe() of the socket, whether or not send() then throws.             *)
Subscribe(s, sub, mode) ==
    Send([s EXCEPT !.subs = Append(@, sub)], [sub |-> sub, mode |-> mode])

(* Mutant: nobody is woken.                                                 *)
FinishAlone(s, end) ==
    /\ busy' = FALSE
    /\ at' = [at EXCEPT ![s] = end]
    /\ UNCHANGED waiting

(* The finally block of autoSubscribe(): the call ends, and the one that has
   waited longest gets its turn.                                             *)
Finish(s, end) ==
    /\ busy' = FALSE
    /\ IF waiting = <<>>
       THEN /\ at' = [at EXCEPT ![s] = end]
            /\ UNCHANGED waiting
       ELSE /\ at' = [at EXCEPT ![s] = end, ![Head(waiting)] = "turn"]
            /\ waiting' = Tail(waiting)

-----------------------------------------------------------------------------
(* autoSubscribe() takes the feed's socket, then waits for its turn.         *)
Follow(s) ==
    /\ at[s] = "idle"
    /\ cur # 0
    /\ sock[cur].opened \/ LateCalls
    /\ mine' = [mine EXCEPT ![s] = cur]
    /\ at' = [at EXCEPT ![s] = IF busy THEN "waiting" ELSE "turn"]
    /\ waiting' = IF busy THEN Append(waiting, s) ELSE waiting
    /\ UNCHANGED <<sock, cur, filled, busy, destroyed, counts>>

(* Its turn: it subscribes on the socket it took.  send() throws while the
   connection is being made, which autoSubscribe() swallows, and does nothing
   on a closed one.                                                          *)
Turn(s) ==
    /\ at[s] = "turn"
    /\ Room(sock[mine[s]], 1)
    /\ sock' = [sock EXCEPT ![mine[s]] = Subscribe(@, s, "awaited")]
    /\ IF sock[mine[s]].conn = "connecting"
       THEN Finish(s, "unheard")
       ELSE /\ at' = [at EXCEPT ![s] = "subscribing"]
            /\ busy' = TRUE
            /\ UNCHANGED waiting
    /\ UNCHANGED <<cur, filled, mine, destroyed, counts>>

-----------------------------------------------------------------------------
Opener(k) == {s \in Sub : at[s] = "opening" /\ mine[s] = k}

(* onopen: open() is settled, and the socket calls subscribe() again for all it
   was subscribed to, one after the other under the next numbers.            *)
Opened(s) ==
    LET place(i) == i - s.count + 1
    IN  [s EXCEPT !.conn = "open", !.opened = TRUE,
                  !.count = @ + Len(s.restore),
                  !.subs = @ \o s.restore,
                  !.calls = [i \in Id |->
                      IF place(i) \in 1..Len(s.restore)
                      THEN [sub |-> s.restore[place(i)], mode |-> "restored"]
                      ELSE @[i]],
                  !.requests = [n \in 1..Len(s.restore) |->
                      [id |-> s.count + n - 1, sub |-> s.restore[n]]]]

(* The call that opened the socket then retries.                             *)
Connect(k) ==
    /\ sock[k].conn = "connecting"
    /\ Room(sock[k], Len(sock[k].restore))
    /\ \/ /\ Opener(k) = {}
          /\ sock' = [sock EXCEPT ![k] = Opened(@)]
          /\ UNCHANGED at
       \/ \E s \in Opener(k) :
          /\ Room(Opened(sock[k]), 1)
          /\ sock' = [sock EXCEPT ![k] = Subscribe(Opened(@), s, "awaited")]
          /\ at' = [at EXCEPT ![s] = "retrying"]
    /\ UNCHANGED <<feedVars, mine, destroyed, counts>>

(* onclose of a connection the feed did not close.  The first time, the error
   hook of open() restarts a socket that was open and rejects the open() of
   one that was not; `closed` stays set, so the next time nobody is told.    *)
Lose(k) ==
    /\ losses < MaxLosses
    /\ sock[k].conn \in {"connecting", "open"}
    /\ losses' = losses + 1
    /\ sock' = [sock EXCEPT ![k] =
                  IF ~@.closed /\ @.opened
                  THEN Restarted([@ EXCEPT !.closed = TRUE])
                  ELSE [@ EXCEPT !.conn = "closed", !.closed = TRUE]]
    /\ \/ /\ Opener(k) = {}
          /\ UNCHANGED <<busy, waiting, at>>
       \/ \E s \in Opener(k) : Finish(s, "thrown")
    /\ UNCHANGED <<cur, filled, mine, destroyed, pings>>

(* Mutant: the health check goes out under a number still to be given.      *)
PingUncounted(k) ==
    /\ pings < MaxPings
    /\ sock[k].conn \in {"connecting", "open"}
    /\ ~sock[k].closed
    /\ Room(sock[k], 1)
    /\ pings' = pings + 1
    /\ sock' = [sock EXCEPT ![k] = [Send(@, [sub |-> None, mode |-> "health"])
                                     EXCEPT !.count = sock[k].count]]
    /\ UNCHANGED <<feedVars, callVars, destroyed, losses>>

(* wake(), by the timer of _refresh() or by the service.                     *)
Ping(k) ==
    /\ pings < MaxPings
    /\ sock[k].conn \in {"connecting", "open"}
    /\ ~sock[k].closed
    /\ Room(sock[k], 1)
    /\ pings' = pings + 1
    /\ sock' = [sock EXCEPT ![k] = Send(@, [sub |-> None, mode |-> "health"])]
    /\ UNCHANGED <<feedVars, callVars, destroyed, losses>>

-----------------------------------------------------------------------------
(* The server takes requests in order and answers each, ...                  *)
Serve(k) ==
    /\ sock[k].conn = "open"
    /\ sock[k].requests # <<>>
    /\ LET r == Head(sock[k].requests)
           room == Cardinality({i \in Id : sock[k].active[i] # None}) < PerClient
           answer(kind) == [id |-> r.id, sub |-> r.sub, kind |-> kind]
           next == [sock[k] EXCEPT !.requests = Tail(@)]
       IN  \/ /\ r.sub = None
              /\ sock' = [sock EXCEPT ![k] =
                            [next EXCEPT !.inbox = Append(@, answer("result"))]]
           \/ /\ r.sub \in Sub \ Rejected /\ room
              /\ sock' = [sock EXCEPT ![k] =
                            [next EXCEPT !.inbox = Append(@, answer("result")),
                                         !.active[r.id] = r.sub]]
           \/ /\ r.sub # None /\ ~room
              /\ sock' = [sock EXCEPT ![k] =
                            [next EXCEPT !.inbox = Append(@, answer("full"))]]
           \/ /\ r.sub \in Rejected /\ room
              /\ sock' = [sock EXCEPT ![k] =
                            [next EXCEPT !.inbox = Append(@, answer("error"))]]
    /\ UNCHANGED <<feedVars, callVars, destroyed, counts>>

(* ... and sends events to whoever is subscribed.                            *)
Emit(k) ==
    /\ sock[k].conn = "open"
    /\ Len(sock[k].inbox) < MaxInbox
    /\ \E i \in Id :
          /\ sock[k].active[i] # None
          /\ sock' = [sock EXCEPT ![k].inbox =
                Append(@, [id |-> i, sub |-> sock[k].active[i],
                           kind |-> "event"])]
    /\ UNCHANGED <<feedVars, callVars, destroyed, counts>>

(* onmessage: the call struct of the message's number takes the message.     *)
Taken(k) == [sock EXCEPT ![k].inbox = Tail(@)]
Arrived(k) == Head(sock[k].inbox)
CallOf(k) == sock[k].calls[Arrived(k).id]

Arrives(k, kind) ==
    /\ sock[k].conn = "open"
    /\ sock[k].inbox # <<>>
    /\ Arrived(k).kind = kind

(* The confirmation: from now on data goes to the receiver, and autoSubscribe()
   resolves if it still waits for this call.                                 *)
Confirm(k) ==
    /\ Arrives(k, "result")
    /\ CallOf(k).mode \in {"awaited", "restored"}
    /\ sock' = [Taken(k) EXCEPT ![k].calls[Arrived(k).id].mode = "stream"]
    /\ IF CallOf(k).mode = "awaited"
       THEN Finish(CallOf(k).sub, "following")
       ELSE UNCHANGED <<busy, waiting, at>>
    /\ UNCHANGED <<cur, filled, mine, destroyed, counts>>

(* Data for the receiver, the answer to a health check, and the refusal of a
   restored subscription, which nobody handles.                              *)
Receive(k) ==
    /\ sock[k].conn = "open"
    /\ sock[k].inbox # <<>>
    /\ \/ CallOf(k).mode \in {"stream", "health"}
       \/ CallOf(k).mode = "restored" /\ Arrived(k).kind # "result"
    /\ sock' = Taken(k)
    /\ UNCHANGED <<feedVars, callVars, destroyed, counts>>

(* The server allows no more subscriptions: the call shelves the socket it
   holds and opens another.                                                  *)
Fresh == {k \in Socket : sock[k].conn = "none"}
Shelve(k) ==
    /\ Arrives(k, "full")
    /\ CallOf(k).mode = "awaited"
    /\ at[CallOf(k).sub] = "subscribing"
    /\ \E new \in Fresh :
          LET s == CallOf(k).sub
          IN  /\ \A n \in Fresh : new <= n
              /\ filled' = Append(filled, mine[s])
              /\ cur' = new
              /\ sock' = [Taken(k) EXCEPT ![new] = Restarted(@)]
              /\ at' = [at EXCEPT ![s] = "opening"]
              /\ mine' = [mine EXCEPT ![s] = new]
    /\ UNCHANGED <<busy, waiting, destroyed, counts>>

(* Any other refusal is swallowed at the first attempt, and thrown at the
   second, as is a second "full".                                            *)
Refused(k) ==
    /\ Arrives(k, "error") \/ Arrives(k, "full")
    /\ CallOf(k).mode = "awaited"
    /\ LET s == CallOf(k).sub
       IN  \/ at[s] = "subscribing" /\ Arrived(k).kind = "error"
              /\ Finish(s, "unheard")
           \/ at[s] = "retrying" /\ Finish(s, "thrown")
    /\ sock' = Taken(k)
    /\ UNCHANGED <<cur, filled, mine, destroyed, counts>>

-----------------------------------------------------------------------------
Sockets == Range(filled) \union ({cur} \ {0})

(* destroy() of the feed: each socket is closed unless it thinks it is.      *)
Destroy ==
    /\ ~destroyed
    /\ destroyed' = TRUE
    /\ sock' = [k \in Socket |->
                  IF k \in Sockets /\ ~sock[k].closed
                  THEN [sock[k] EXCEPT !.conn = "closed", !.closed = TRUE]
                  ELSE sock[k]]
    /\ cur' = 0
    /\ filled' = <<>>
    /\ UNCHANGED <<busy, waiting, callVars, counts>>

-----------------------------------------------------------------------------
Arrival(k) == Confirm(k) \/ Receive(k) \/ Shelve(k) \/ Refused(k)

(* A call whose turn has come takes it before anything else happens.         *)
Quiet == \A s \in Sub : at[s] # "turn"

Macrotask ==
    /\ Quiet
    /\ \/ \E s \in Sub : Follow(s)
       \/ \E k \in Socket :
            \/ Connect(k) \/ Lose(k) \/ Ping(k)
            \/ Serve(k) \/ Emit(k) \/ Arrival(k)
       \/ Destroy

Next == Macrotask \/ \E s \in Sub : Turn(s)

Spec == Init /\ [][Next]_vars

(* The page runs, connection attempts end and the server answers.            *)
Fairness ==
    /\ \A s \in Sub : WF_vars(Turn(s))
    /\ \A k \in Socket :
         /\ WF_vars(Quiet /\ Connect(k))
         /\ WF_vars(Quiet /\ Serve(k))
         /\ WF_vars(Quiet /\ Arrival(k))

FairSpec == Spec /\ Fairness

-----------------------------------------------------------------------------
(* A message reaches the call it answers, and an event its own receiver, after
   it was confirmed: restart() numbers messages from zero again while the call
   structs of the connection before stay (tm-json-rpc-ws-const.ts:123).      *)
RightReceiver ==
    \A k \in Socket : sock[k].conn = "open" =>
        \A n \in 1..Len(sock[k].inbox) :
            LET m == sock[k].inbox[n]
                call == sock[k].calls[m.id]
            IN  /\ call.sub = m.sub
                /\ m.kind = "event" =>
                     \/ call.mode = "stream"
                     \/ \E e \in 1..(n - 1) : /\ sock[k].inbox[e].id = m.id
                                              /\ sock[k].inbox[e].kind = "result"

(* destroy() "Destroys the underyling JSON-RPC websocket connection"
   (service-feed.ts:416): none is left open.                                 *)
DestroyCloses ==
    destroyed => \A k \in Socket : sock[k].conn \notin {"connecting", "open"}

Followed(s) ==
    \E k \in Socket : sock[k].conn = "open" /\ s \in Range(sock[k].active)

(* A call that was confirmed is subscribed again after the connection was lost
   (tm-json-rpc-ws-const.ts:136, "restore all previous subscriptions").      *)
KeepsFollowing == \A s \in Sub :
    at[s] = "following" ~> Followed(s) \/ destroyed

(* While no connection is lost, a call of autoSubscribe() ends, and none waits
   for ever behind another, whether the server confirms, rejects or sends the
   call to a further socket; and a query that is not rejected is followed
   (service-feed.ts:438, "busy waiting for previous subscription").          *)
CallsEnd == \A s \in Sub :
    at[s] # "idle" ~> \/ at[s] \in {"following", "thrown"}
                      \/ at[s] = "unheard" /\ s \in Rejected
                      \/ destroyed \/ losses > 0
=============================================================================
