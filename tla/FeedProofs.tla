----------------------------- MODULE FeedProofs -----------------------------
(* Proofs about FeedSocket for any subscriptions, sockets and bounds, and about
   NetworkFeeds for any chains, requests and bounds.                         *)
EXTENDS FeedSocket, NetworkFeeds, FiniteSetTheorems, SequenceTheorems, TLAPS

-----------------------------------------------------------------------------
(* The bounds are positive.                                                  *)
LEMMA Bounds == MaxId \in Nat /\ 1 \in Socket /\ 0 \notin Socket
  BY ConstantsAssumption DEF Socket

(* A socket with one field changed is a socket.                              *)
LEMMA FieldTypes ==
  \A s \in SocketState :
    /\ \A x \in {"none", "connecting", "open", "closed"} :
          [s EXCEPT !.conn = x] \in SocketState
    /\ \A x \in BOOLEAN : [s EXCEPT !.closed = x] \in SocketState
    /\ \A x \in BOOLEAN : [s EXCEPT !.opened = x] \in SocketState
    /\ \A x \in Id : [s EXCEPT !.count = x] \in SocketState
    /\ \A x \in Seq(Sub) : [s EXCEPT !.subs = x] \in SocketState
    /\ \A x \in Seq(Sub) : [s EXCEPT !.restore = x] \in SocketState
    /\ \A x \in [Id -> Call] : [s EXCEPT !.calls = x] \in SocketState
    /\ \A x \in Seq(Request) : [s EXCEPT !.requests = x] \in SocketState
    /\ \A x \in Seq(Message) : [s EXCEPT !.inbox = x] \in SocketState
    /\ \A x \in [Id -> Sub \union {None}] : [s EXCEPT !.active = x] \in SocketState
  BY ZenonT(30) DEF SocketState

(* Sending takes the next number.                                            *)
LEMMA SendType ==
  ASSUME NEW s \in SocketState, Room(s, 1), NEW call \in Call
  PROVE  Send(s, call) \in SocketState
<1>1. s.count \in Id /\ s.count + 1 \in Id
  BY ConstantsAssumption DEF SocketState, Id, Room
<1>2. [id |-> s.count, sub |-> call.sub] \in Request
  BY <1>1 DEF Request, Call
<1>3. /\ [s.calls EXCEPT ![s.count] = call] \in [Id -> Call]
      /\ s.requests \in Seq(Request)
      /\ Append(s.requests, [id |-> s.count, sub |-> call.sub]) \in Seq(Request)
  BY <1>1, <1>2 DEF SocketState
<1> DEFINE sent == [s EXCEPT !.count = s.count + 1, !.calls[s.count] = call]
<1>4. sent \in SocketState
  <2> DEFINE counted == [s EXCEPT !.count = s.count + 1]
  <2>1. counted \in SocketState
    BY <1>1, FieldTypes
  <2>2. counted.calls = s.calls
    BY DEF SocketState
  <2>3. sent = [counted EXCEPT !.calls = [s.calls EXCEPT ![s.count] = call]]
    BY <2>2
  <2>. HIDE DEF counted, sent
  <2>. QED
    BY <1>3, <2>1, <2>3, FieldTypes
<1>5. sent.requests = s.requests
  BY DEF SocketState
<1>6. Send(s, call) =
        [sent EXCEPT !.requests =
           IF s.conn = "open"
           THEN Append(s.requests, [id |-> s.count, sub |-> call.sub])
           ELSE s.requests]
  BY <1>5 DEF Send
<1>. HIDE DEF sent
<1>7. \A x \in Seq(Request) : [sent EXCEPT !.requests = x] \in SocketState
  BY <1>4, FieldTypes, Zenon
<1>. QED
  BY <1>3, <1>6, <1>7

(* subscribe() keeps what it is given, and sends.                            *)
LEMMA SubscribeType ==
  ASSUME NEW s \in SocketState, Room(s, 1), NEW sub \in Sub,
         NEW mode \in {"awaited", "restored"}
  PROVE  Subscribe(s, sub, mode) \in SocketState
<1> DEFINE kept == [s EXCEPT !.subs = Append(@, sub)]
<1>1. kept \in SocketState
  <2>1. Append(s.subs, sub) \in Seq(Sub)
    BY DEF SocketState
  <2>. QED
    BY <2>1, FieldTypes
<1>3. Room(kept, 1)
  BY DEF SocketState, Room
<1>2. [sub |-> sub, mode |-> mode] \in Call
  BY DEF Call
<1>. QED
  BY <1>1, <1>2, <1>3, SendType DEF Subscribe

(* restart() and onopen leave a socket of the declared type.                 *)
LEMMA RestartedType ==
  ASSUME NEW s \in SocketState
  PROVE  Restarted(s) \in SocketState
<1>1. /\ s.subs \in Seq(Sub) /\ <<>> \in Seq(Sub) /\ <<>> \in Seq(Message)
      /\ <<>> \in Seq(Request) /\ 0 \in Id
      /\ [i \in Id |-> None] \in [Id -> Sub \union {None}]
  BY ConstantsAssumption DEF SocketState, Id
<1>2. [s EXCEPT !.conn = "connecting", !.opened = FALSE, !.count = 0] \in SocketState
  BY <1>1, FieldTypes
<1>3. [s EXCEPT !.conn = "connecting", !.opened = FALSE, !.count = 0, !.subs = <<>>,
                !.restore = s.subs, !.requests = <<>>] \in SocketState
  BY <1>1, <1>2, FieldTypes
<1>. QED
  BY <1>1, <1>3, FieldTypes DEF Restarted

LEMMA OpenedType ==
  ASSUME NEW s \in SocketState, Room(s, Len(s.restore))
  PROVE  Opened(s) \in SocketState
<1> DEFINE calls == [i \in Id |->
                       IF i - s.count + 1 \in 1..Len(s.restore)
                       THEN [sub |-> s.restore[i - s.count + 1], mode |-> "restored"]
                       ELSE s.calls[i]]
           requests == [n \in 1..Len(s.restore) |->
                          [id |-> s.count + n - 1, sub |-> s.restore[n]]]
<1>1. /\ s.restore \in Seq(Sub) /\ Len(s.restore) \in Nat
      /\ s.subs \in Seq(Sub) /\ s.count \in Id /\ s.calls \in [Id -> Call]
  BY DEF SocketState
<1>2. s.count + Len(s.restore) \in Id
  BY <1>1, ConstantsAssumption DEF Id, Room
<1>3. s.subs \o s.restore \in Seq(Sub)
  BY <1>1, ConcatProperties
<1>4. calls \in [Id -> Call]
  <2> SUFFICES ASSUME NEW i \in Id PROVE calls[i] \in Call
    OBVIOUS
  <2>1. CASE i - s.count + 1 \in 1..Len(s.restore)
    <3>1. s.restore[i - s.count + 1] \in Sub
      BY <1>1, <2>1
    <3>. QED
      BY <2>1, <3>1 DEF Call
  <2>2. CASE i - s.count + 1 \notin 1..Len(s.restore)
    BY <1>1, <2>2
  <2>. QED
    BY <2>1, <2>2
<1>5. requests \in Seq(Request)
  <2>1. \A n \in 1..Len(s.restore) : requests[n] \in Request
    <3> TAKE n \in 1..Len(s.restore)
    <3>1. s.restore[n] \in Sub /\ s.count \in Nat /\ n \in 1..Len(s.restore)
      BY <1>1 DEF Id
    <3>2. s.count + n - 1 \in Id
      <4>1. n \in Nat /\ 1 <= n /\ n <= Len(s.restore) /\ Len(s.restore) \in Nat
        BY <1>1, <3>1
      <4>. QED
        BY <1>1, <1>2, <4>1, Bounds DEF Id
    <3>. QED
      BY <3>1, <3>2 DEF Request
  <2>. HIDE DEF requests
  <2>2. requests = [n \in 1..Len(s.restore) |-> requests[n]]
    BY DEF requests
  <2>3. [n \in 1..Len(s.restore) |-> requests[n]] \in Seq(Request)
    BY <1>1, <2>1, IsASeq
  <2>. QED
    BY <2>2, <2>3
<1>. HIDE DEF calls, requests
<1>6. [s EXCEPT !.conn = "open", !.opened = TRUE, !.count = @ + Len(s.restore),
                !.subs = @ \o s.restore, !.calls = calls] \in SocketState
  BY <1>2, <1>3, <1>4, FieldTypes
<1>. QED
  BY <1>5, <1>6, FieldTypes DEF Opened, calls, requests

(* A message that has arrived and its call struct.                           *)
LEMMA ArrivedType ==
  ASSUME TypeOK, NEW k \in Socket, sock[k].inbox # <<>>
  PROVE  /\ Arrived(k) \in Message /\ CallOf(k) \in Call
         /\ sock[k] \in SocketState /\ sock[k].inbox \in Seq(Message)
         /\ Tail(sock[k].inbox) \in Seq(Message)
         /\ Taken(k) \in [Socket -> SocketState]
         /\ \A i \in Id : sock[k].calls[i] \in Call
<1>1. sock[k] \in SocketState /\ sock[k].inbox \in Seq(Message)
  BY DEF TypeOK, SocketState
<1>2. Arrived(k) \in Message /\ Tail(sock[k].inbox) \in Seq(Message)
  BY <1>1 DEF Arrived
<1>3. \A i \in Id : sock[k].calls[i] \in Call
  BY <1>1 DEF SocketState
<1>4. CallOf(k) \in Call
  BY <1>2, <1>3 DEF CallOf, Message
<1>5. Taken(k) \in [Socket -> SocketState]
  BY <1>1, <1>2 DEF Taken, TypeOK, SocketState
<1>. QED
  BY <1>1, <1>2, <1>3, <1>4, <1>5

(* A call ends, and the next one gets its turn.                              *)
LEMMA FinishType ==
  ASSUME TypeOK, NEW s, NEW end \in {"following", "unheard", "thrown"}, Finish(s, end)
  PROVE  busy' \in BOOLEAN /\ waiting' \in Seq(Sub)
         /\ at' \in [Sub -> {"idle", "waiting", "turn", "subscribing", "opening",
                             "retrying", "following", "unheard", "thrown"}]
<1>1. CASE waiting = <<>>
  BY <1>1 DEF Finish, TypeOK
<1>2. CASE waiting # <<>>
  <2>1. Tail(waiting) \in Seq(Sub)
    BY <1>2 DEF TypeOK
  <2>. QED
    BY <1>2, <2>1 DEF Finish, TypeOK
<1>. QED
  BY <1>1, <1>2

-----------------------------------------------------------------------------
(* What is under way on a connection, by the numbers its requests got: each
   answer has the call struct of its own number, and who may send events has
   been confirmed or is about to be.                                         *)
Confirmed(s, i, n) ==
    \/ s.calls[i].mode = "stream"
    \/ \E e \in 1..n : s.inbox[e].id = i /\ s.inbox[e].kind = "result"

Matched(s) ==
    /\ \A n \in 1..Len(s.requests) :
          LET r == s.requests[n]
          IN  r.id < s.count /\ s.calls[r.id].sub = r.sub
    /\ \A n \in 1..Len(s.inbox) :
          LET m == s.inbox[n]
          IN  /\ m.id < s.count /\ s.calls[m.id].sub = m.sub
              /\ m.kind = "event" => m.sub # None /\ Confirmed(s, m.id, n - 1)
    /\ \A i \in Id : s.active[i] # None =>
          /\ i < s.count /\ s.calls[i].sub = s.active[i]
          /\ Confirmed(s, i, Len(s.inbox))

Sound(s) ==
    /\ \A i \in Id : s.calls[i].mode = "health" => s.calls[i].sub = None
    /\ s.conn \in {"none", "connecting"} =>
          /\ s.requests = <<>> /\ s.inbox = <<>>
          /\ \A i \in Id : s.active[i] = None
    /\ s.conn = "open" => Matched(s)

(* Whoever is past its first await holds a socket.                           *)
HoldsSocket ==
    /\ \A s \in Sub : at[s] # "idle" => mine[s] # 0
    /\ \A n \in 1..Len(waiting) : mine[waiting[n]] # 0
    /\ \A k \in Socket, i \in Id : sock[k].calls[i].mode = "awaited" =>
          sock[k].calls[i].sub \in Sub /\ mine[sock[k].calls[i].sub] # 0

AllSound == \A k \in Socket : Sound(sock[k])

-----------------------------------------------------------------------------
(* A new feed: one socket, that connects.                                    *)
LEMMA InitTypes == Init => TypeOK
<1> SUFFICES ASSUME Init PROVE TypeOK
  OBVIOUS
<1>1. NoSocket \in SocketState
  BY ConstantsAssumption DEF NoSocket, NoCall, SocketState, Id, Call
<1>2. Restarted(NoSocket) \in SocketState
  BY <1>1, RestartedType
<1>3. sock \in [Socket -> SocketState]
  BY <1>1, <1>2 DEF Init
<1>4. cur \in Socket
  BY ConstantsAssumption DEF Init, Socket
<1>5. filled \in Seq(Socket) /\ waiting \in Seq(Sub)
  BY EmptySeq DEF Init
<1>6. losses \in 0..MaxLosses /\ pings \in 0..MaxPings
  BY ConstantsAssumption DEF Init
<1>. QED
  BY <1>3, <1>4, <1>5, <1>6 DEF Init, TypeOK

(* Every step keeps the types.                                               *)
LEMMA TypeStep == TypeOK /\ HoldsSocket /\ [Next]_vars => TypeOK'
<1> SUFFICES ASSUME TypeOK, HoldsSocket, [Next]_vars PROVE TypeOK'
  OBVIOUS
<1> USE DEF feedVars, callVars, counts
<1>1. ASSUME NEW s \in Sub, Follow(s) PROVE TypeOK'
  BY <1>1 DEF Follow, TypeOK
<1>2. ASSUME NEW s \in Sub, Turn(s) PROVE TypeOK'
  <2>1. mine[s] \in Socket /\ sock[mine[s]] \in SocketState
    BY <1>2 DEF Turn, TypeOK, HoldsSocket
  <2>2. Subscribe(sock[mine[s]], s, "awaited") \in SocketState
    BY <1>2, <2>1, SubscribeType DEF Turn
  <2>3. sock' \in [Socket -> SocketState]
    BY <1>2, <2>1, <2>2 DEF Turn, TypeOK
  <2>4. busy' \in BOOLEAN /\ waiting' \in Seq(Sub)
        /\ at' \in [Sub -> {"idle", "waiting", "turn", "subscribing", "opening",
                            "retrying", "following", "unheard", "thrown"}]
    <3>1. CASE sock[mine[s]].conn = "connecting"
      BY <1>2, <3>1, FinishType DEF Turn
    <3>2. CASE sock[mine[s]].conn # "connecting"
      BY <1>2, <3>2 DEF Turn, TypeOK
    <3>. QED
      BY <3>1, <3>2
  <2>. QED
    BY <1>2, <2>3, <2>4 DEF Turn, TypeOK
<1>3. ASSUME NEW k \in Socket, Connect(k) PROVE TypeOK'
  <2>1. sock[k] \in SocketState /\ Opened(sock[k]) \in SocketState
    BY <1>3, OpenedType DEF Connect, TypeOK
  <2>2. ASSUME NEW s \in Opener(k), Room(Opened(sock[k]), 1)
        PROVE  Subscribe(Opened(sock[k]), s, "awaited") \in SocketState
    BY <2>1, <2>2, SubscribeType DEF Opener
  <2>3. sock' \in [Socket -> SocketState]
    BY <1>3, <2>1, <2>2 DEF Connect, TypeOK
  <2>. QED
    BY <1>3, <2>3 DEF Connect, TypeOK, Opener
<1>4. ASSUME NEW k \in Socket, Lose(k) PROVE TypeOK'
  <2>1. sock[k] \in SocketState
    BY DEF TypeOK
  <2>2. /\ Restarted([sock[k] EXCEPT !.closed = TRUE]) \in SocketState
        /\ [sock[k] EXCEPT !.conn = "closed", !.closed = TRUE] \in SocketState
    BY <2>1, RestartedType, FieldTypes
  <2>3. sock' \in [Socket -> SocketState]
    BY <1>4, <2>2 DEF Lose, TypeOK
  <2>4. busy' \in BOOLEAN /\ waiting' \in Seq(Sub)
        /\ at' \in [Sub -> {"idle", "waiting", "turn", "subscribing", "opening",
                            "retrying", "following", "unheard", "thrown"}]
    <3>1. CASE UNCHANGED <<busy, waiting, at>>
      BY <3>1 DEF TypeOK
    <3>2. CASE \E s \in Opener(k) : Finish(s, "thrown")
      BY <3>2, FinishType
    <3>. QED
      BY <1>4, <3>1, <3>2 DEF Lose
  <2>. QED
    BY <1>4, <2>3, <2>4, ConstantsAssumption DEF Lose, TypeOK
<1>5. ASSUME NEW k \in Socket, Ping(k) PROVE TypeOK'
  <2>1. [sub |-> None, mode |-> "health"] \in Call
    BY DEF Call
  <2>2. Send(sock[k], [sub |-> None, mode |-> "health"]) \in SocketState
    BY <1>5, <2>1, SendType DEF Ping, TypeOK
  <2>. QED
    BY <1>5, <2>2, ConstantsAssumption DEF Ping, TypeOK
<1>6. ASSUME NEW k \in Socket, Serve(k) PROVE TypeOK'
  <2> DEFINE r == Head(sock[k].requests)
             answer(kind) == [id |-> r.id, sub |-> r.sub, kind |-> kind]
             next == [sock[k] EXCEPT !.requests = Tail(@)]
  <2>1. sock[k] \in SocketState /\ sock[k].requests \in Seq(Request)
        /\ sock[k].requests # <<>>
    BY <1>6 DEF TypeOK, SocketState, Serve
  <2>2. r \in Request /\ Tail(sock[k].requests) \in Seq(Request)
    BY <2>1
  <2>3. /\ answer("result") \in Message /\ answer("full") \in Message
        /\ answer("error") \in Message
    BY <2>2 DEF Request, Message
  <2>4. next \in SocketState
    BY <2>1, <2>2 DEF SocketState
  <2>5. ASSUME NEW m \in Message
        PROVE  [next EXCEPT !.inbox = Append(@, m)] \in SocketState
    <3>1. Append(next.inbox, m) \in Seq(Message)
      BY <2>4, <2>5 DEF SocketState
    <3>. HIDE DEF next
    <3>. QED
      BY <2>4, <3>1, FieldTypes
  <2>6. [next EXCEPT !.inbox = Append(@, answer("result")), !.active[r.id] = r.sub]
          \in SocketState
    <3>1. [next.active EXCEPT ![r.id] = r.sub] \in [Id -> Sub \union {None}]
      BY <2>2, <2>4 DEF SocketState, Request
    <3>. HIDE DEF r, answer, next
    <3>2. Append(next.inbox, answer("result")) \in Seq(Message)
      <4>1. next.inbox \in Seq(Message)
        BY <2>4 DEF SocketState
      <4>. QED
        BY <2>3, <4>1
    <3>3. [next EXCEPT !.inbox = Append(@, answer("result"))] \in SocketState
      BY <2>4, <3>2, FieldTypes
    <3>4. [next EXCEPT !.inbox = Append(@, answer("result"))].active = next.active
      BY <2>4 DEF SocketState
    <3>. QED
      BY <3>1, <3>3, <3>4, FieldTypes
  <2>. HIDE DEF r, answer, next
  <2>7. sock' \in [Socket -> SocketState]
    BY <1>6, <2>3, <2>5, <2>6 DEF Serve, TypeOK, r, answer, next
  <2>. QED
    BY <1>6, <2>7 DEF Serve, TypeOK
<1>7. ASSUME NEW k \in Socket, Emit(k) PROVE TypeOK'
  <2>1. sock[k] \in SocketState
    BY DEF TypeOK
  <2>2. ASSUME NEW i \in Id
        PROVE  [sock[k] EXCEPT !.inbox =
                  Append(@, [id |-> i, sub |-> sock[k].active[i], kind |-> "event"])]
                 \in SocketState
    <3>1. [id |-> i, sub |-> sock[k].active[i], kind |-> "event"] \in Message
      BY <2>1 DEF SocketState, Message
    <3>2. Append(sock[k].inbox, [id |-> i, sub |-> sock[k].active[i], kind |-> "event"])
            \in Seq(Message)
      BY <2>1, <3>1 DEF SocketState
    <3>. QED
      BY <2>1, <3>2, FieldTypes
  <2>3. sock' \in [Socket -> SocketState]
    BY <1>7, <2>2 DEF Emit, TypeOK
  <2>. QED
    BY <1>7, <2>3 DEF Emit, TypeOK
<1>8. ASSUME NEW k \in Socket, Confirm(k) PROVE TypeOK'
  <2>1. /\ Arrived(k) \in Message /\ Taken(k) \in [Socket -> SocketState]
    BY <1>8, ArrivedType DEF Confirm, Arrives
  <2>2. [Taken(k) EXCEPT ![k].calls[Arrived(k).id].mode = "stream"]
          \in [Socket -> SocketState]
    <3>1. Taken(k)[k] \in SocketState /\ Arrived(k).id \in Id
      BY <2>1 DEF Message
    <3>2. [Taken(k)[k] EXCEPT !.calls[Arrived(k).id].mode = "stream"] \in SocketState
      <4>1. [Taken(k)[k].calls EXCEPT ![Arrived(k).id].mode = "stream"] \in [Id -> Call]
        <5>1. Taken(k)[k].calls \in [Id -> Call]
          BY <3>1 DEF SocketState
        <5>. QED
          BY <3>1, <5>1 DEF Call
      <4>. QED
        BY <3>1, <4>1, FieldTypes
    <3>. QED
      BY <2>1, <3>2
  <2>3. busy' \in BOOLEAN /\ waiting' \in Seq(Sub)
        /\ at' \in [Sub -> {"idle", "waiting", "turn", "subscribing", "opening",
                            "retrying", "following", "unheard", "thrown"}]
    <3>1. CASE UNCHANGED <<busy, waiting, at>>
      BY <3>1 DEF TypeOK
    <3>2. CASE Finish(CallOf(k).sub, "following")
      BY <3>2, FinishType
    <3>. QED
      BY <1>8, <3>1, <3>2 DEF Confirm
  <2>. QED
    BY <1>8, <2>2, <2>3 DEF Confirm, TypeOK
<1>9. ASSUME NEW k \in Socket, Receive(k) PROVE TypeOK'
  BY <1>9, ArrivedType DEF Receive, TypeOK
<1>10. ASSUME NEW k \in Socket, Shelve(k) PROVE TypeOK'
  <2>1. Taken(k) \in [Socket -> SocketState] /\ CallOf(k) \in Call
    BY <1>10, ArrivedType DEF Shelve, Arrives
  <2>2. PICK new \in Fresh :
          /\ filled' = Append(filled, mine[CallOf(k).sub])
          /\ cur' = new
          /\ sock' = [Taken(k) EXCEPT ![new] = Restarted(@)]
          /\ at' = [at EXCEPT ![CallOf(k).sub] = "opening"]
          /\ mine' = [mine EXCEPT ![CallOf(k).sub] = new]
    BY <1>10 DEF Shelve
  <2>3. new \in Socket
    BY DEF Fresh
  <2>4. mine[CallOf(k).sub] \in Socket
    <3>1. CallOf(k).sub \in Sub
      <4>1. Arrived(k).id \in Id
        BY <1>10, ArrivedType DEF Shelve, Arrives, Message
      <4>. QED
        BY <1>10, <4>1 DEF Shelve, CallOf, HoldsSocket
    <3>2. at[CallOf(k).sub] # "idle"
      BY <1>10 DEF Shelve
    <3>. QED
      BY <3>1, <3>2 DEF HoldsSocket, TypeOK
  <2>5. sock' \in [Socket -> SocketState]
    BY <2>1, <2>2, <2>3, RestartedType
  <2>6. filled' \in Seq(Socket) /\ cur' \in Socket
    BY <2>2, <2>3, <2>4 DEF TypeOK
  <2>7. /\ mine' \in [Sub -> Socket \union {0}]
        /\ at' \in [Sub -> {"idle", "waiting", "turn", "subscribing", "opening",
                            "retrying", "following", "unheard", "thrown"}]
    BY <2>2, <2>3 DEF TypeOK
  <2>. QED
    BY <1>10, <2>5, <2>6, <2>7 DEF Shelve, TypeOK
<1>11. ASSUME NEW k \in Socket, Refused(k) PROVE TypeOK'
  <2>1. sock' \in [Socket -> SocketState]
    BY <1>11, ArrivedType DEF Refused, Arrives
  <2>2. busy' \in BOOLEAN /\ waiting' \in Seq(Sub)
        /\ at' \in [Sub -> {"idle", "waiting", "turn", "subscribing", "opening",
                            "retrying", "following", "unheard", "thrown"}]
    BY <1>11, FinishType DEF Refused
  <2>. QED
    BY <1>11, <2>1, <2>2 DEF Refused, TypeOK
<1>12. CASE Destroy
  <2>1. \A k \in Socket : [sock[k] EXCEPT !.conn = "closed", !.closed = TRUE] \in SocketState
    BY FieldTypes DEF TypeOK
  <2>2. sock' \in [Socket -> SocketState]
    BY <1>12, <2>1 DEF Destroy, TypeOK
  <2>. QED
    BY <1>12, <2>2, EmptySeq DEF Destroy, TypeOK
<1>13. CASE UNCHANGED vars
  BY <1>13 DEF vars, TypeOK
<1>. QED
  BY <1>1, <1>2, <1>3, <1>4, <1>5, <1>6, <1>7, <1>8, <1>9, <1>10, <1>11, <1>12,
     <1>13 DEF Next, Macrotask, Arrival

-----------------------------------------------------------------------------
(* What sending changes.                                                     *)
LEMMA SendFields ==
  ASSUME NEW s \in SocketState, NEW call \in Call
  PROVE  /\ Send(s, call).conn = s.conn
         /\ Send(s, call).inbox = s.inbox
         /\ Send(s, call).active = s.active
         /\ Send(s, call).count = s.count + 1
         /\ Send(s, call).calls = [s.calls EXCEPT ![s.count] = call]
         /\ Send(s, call).requests =
              IF s.conn = "open"
              THEN Append(s.requests, [id |-> s.count, sub |-> call.sub])
              ELSE s.requests
  BY DEF SocketState, Send

LEMMA SubscribeFields ==
  ASSUME NEW s \in SocketState, NEW sub \in Sub, NEW mode \in {"awaited", "restored"}
  PROVE  /\ Subscribe(s, sub, mode).conn = s.conn
         /\ Subscribe(s, sub, mode).calls =
              [s.calls EXCEPT ![s.count] = [sub |-> sub, mode |-> mode]]
<1> DEFINE kept == [s EXCEPT !.subs = Append(@, sub)]
<1>1. kept \in SocketState
  <2>1. Append(s.subs, sub) \in Seq(Sub)
    BY DEF SocketState
  <2>. QED
    BY <2>1, FieldTypes
<1>2. kept.conn = s.conn /\ kept.calls = s.calls /\ kept.count = s.count
  BY DEF SocketState
<1>3. [sub |-> sub, mode |-> mode] \in Call
  BY DEF Call
<1>4. Subscribe(s, sub, mode) = Send(kept, [sub |-> sub, mode |-> mode])
  BY DEF Subscribe
<1> DEFINE call == [sub |-> sub, mode |-> mode]
<1>. HIDE DEF kept, call
<1>5. call \in Call /\ Subscribe(s, sub, mode) = Send(kept, call)
  BY <1>3, <1>4 DEF call
<1>6. Send(kept, call).conn = kept.conn
      /\ Send(kept, call).calls = [kept.calls EXCEPT ![kept.count] = call]
  BY <1>1, <1>5, SendFields
<1>. QED
  BY <1>2, <1>5, <1>6 DEF call

LEMMA RestartedFields ==
  ASSUME NEW s \in SocketState
  PROVE  /\ Restarted(s).conn = "connecting" /\ Restarted(s).calls = s.calls
         /\ Restarted(s).requests = <<>> /\ Restarted(s).inbox = <<>>
         /\ Restarted(s).active = [i \in Id |-> None]
  BY DEF SocketState, Restarted

LEMMA OpenedFields ==
  ASSUME NEW s \in SocketState
  PROVE  /\ Opened(s).conn = "open"
         /\ Opened(s).inbox = s.inbox /\ Opened(s).active = s.active
         /\ Opened(s).count = s.count + Len(s.restore)
         /\ Opened(s).calls = [i \in Id |->
              IF i - s.count + 1 \in 1..Len(s.restore)
              THEN [sub |-> s.restore[i - s.count + 1], mode |-> "restored"]
              ELSE s.calls[i]]
         /\ Opened(s).requests = [n \in 1..Len(s.restore) |->
              [id |-> s.count + n - 1, sub |-> s.restore[n]]]
  BY DEF SocketState, Opened

(* The fields of a socket are of their types.                                *)
LEMMA SocketFields ==
  ASSUME NEW s \in SocketState
  PROVE  /\ s.count \in Id /\ s.restore \in Seq(Sub)
         /\ s.calls \in [Id -> Call] /\ s.requests \in Seq(Request)
         /\ s.inbox \in Seq(Message) /\ s.active \in [Id -> Sub \union {None}]
         /\ \A i \in Id : i \in Nat /\ s.calls[i] \in Call
         /\ \A n \in 1..Len(s.requests) : s.requests[n] \in Request /\ s.requests[n].id \in Id
         /\ \A n \in 1..Len(s.inbox) : s.inbox[n] \in Message /\ s.inbox[n].id \in Id
<1>1. /\ s.count \in Id /\ s.restore \in Seq(Sub)
      /\ s.calls \in [Id -> Call] /\ s.requests \in Seq(Request)
      /\ s.inbox \in Seq(Message) /\ s.active \in [Id -> Sub \union {None}]
  BY DEF SocketState
<1>2. \A i \in Id : i \in Nat /\ s.calls[i] \in Call
  <2>1. \A i \in Id : i \in Nat
    BY DEF Id
  <2>. QED
    BY <1>1, <2>1
<1>3. \A n \in 1..Len(s.requests) : s.requests[n] \in Request
  BY <1>1
<1>4. \A n \in 1..Len(s.inbox) : s.inbox[n] \in Message
  BY <1>1
<1>. QED
  BY <1>1, <1>2, <1>3, <1>4 DEF Request, Message

(* Only these fields matter.                                                 *)
LEMMA SameSound ==
  ASSUME NEW s, NEW t, Sound(s), t.conn = s.conn, t.count = s.count,
         t.calls = s.calls, t.requests = s.requests, t.inbox = s.inbox,
         t.active = s.active
  PROVE  Sound(t)
<1>1. \A i, n : Confirmed(t, i, n) <=> Confirmed(s, i, n)
  BY DEF Confirmed
<1>2. Matched(s) => Matched(t)
  BY <1>1 DEF Matched
<1>. QED
  BY <1>2 DEF Sound

(* A message under a new number confuses no earlier one.                     *)
LEMMA SendSound ==
  ASSUME NEW s \in SocketState, Sound(s), Room(s, 1), NEW call \in Call,
         call.mode = "health" => call.sub = None
  PROVE  Sound(Send(s, call))
<1> DEFINE t == Send(s, call)
<1>1. /\ t.conn = s.conn /\ t.inbox = s.inbox /\ t.active = s.active
      /\ t.count = s.count + 1 /\ t.calls = [s.calls EXCEPT ![s.count] = call]
      /\ s.conn # "open" => t.requests = s.requests
      /\ s.conn = "open" =>
           t.requests = Append(s.requests, [id |-> s.count, sub |-> call.sub])
  BY SendFields
<1>2. t.calls[s.count] = call /\ \A i \in Id : i # s.count => t.calls[i] = s.calls[i]
  BY <1>1, SocketFields
<1>. HIDE DEF t
<1>3. s.conn = "open" => Matched(t)
  <2> SUFFICES ASSUME s.conn = "open" PROVE Matched(t)
    OBVIOUS
  <2>0. Matched(s) /\ s.count \in Nat
    BY SocketFields DEF Sound
  <2>1. ASSUME NEW n \in 1..Len(t.requests)
        PROVE  t.requests[n].id < t.count /\ t.calls[t.requests[n].id].sub = t.requests[n].sub
    <3>1. s.requests \in Seq(Request)
      BY SocketFields
    <3>2. CASE n \in 1..Len(s.requests)
      <4>1. t.requests[n] = s.requests[n]
        BY <1>1, <3>1, <3>2
      <4>. QED
        BY <1>1, <1>2, <2>0, <3>2, <4>1, SocketFields DEF Matched, Id
    <3>3. CASE n = Len(s.requests) + 1
      <4>1. t.requests[n] = [id |-> s.count, sub |-> call.sub]
        BY <1>1, <3>1, <3>3
      <4>. QED
        BY <1>1, <1>2, <2>0, <4>1
    <3>. QED
      BY <1>1, <2>1, <3>1, <3>2, <3>3
  <2>2. \A i \in Id, n \in Nat : i < s.count => (Confirmed(t, i, n) <=> Confirmed(s, i, n))
    BY <1>1, <1>2, <2>0, SocketFields DEF Confirmed
  <2>3. ASSUME NEW n \in 1..Len(t.inbox)
        PROVE  LET m == t.inbox[n]
               IN  /\ m.id < t.count /\ t.calls[m.id].sub = m.sub
                   /\ m.kind = "event" => m.sub # None /\ Confirmed(t, m.id, n - 1)
    <3>1. /\ s.inbox[n].id < s.count /\ s.calls[s.inbox[n].id].sub = s.inbox[n].sub
          /\ s.inbox[n].kind = "event" =>
               s.inbox[n].sub # None /\ Confirmed(s, s.inbox[n].id, n - 1)
          /\ s.inbox[n].id \in Id /\ n - 1 \in Nat
      BY <1>1, <2>0, SocketFields DEF Matched
    <3>. QED
      BY <1>1, <1>2, <2>0, <2>2, <3>1, SocketFields
  <2>4. ASSUME NEW i \in Id, t.active[i] # None
        PROVE  /\ i < t.count /\ t.calls[i].sub = t.active[i]
               /\ Confirmed(t, i, Len(t.inbox))
    <3>1. /\ i < s.count /\ s.calls[i].sub = s.active[i]
          /\ Confirmed(s, i, Len(s.inbox)) /\ Len(s.inbox) \in Nat
      BY <1>1, <2>0, <2>4, SocketFields DEF Matched
    <3>. QED
      BY <1>1, <1>2, <2>0, <2>2, <3>1, SocketFields
  <2>. QED
    BY <2>1, <2>3, <2>4 DEF Matched
<1>4. \A i \in Id : t.calls[i].mode = "health" => t.calls[i].sub = None
  BY <1>2 DEF Sound
<1>. QED
  BY <1>1, <1>3, <1>4 DEF Sound, t

LEMMA SubscribeSound ==
  ASSUME NEW s \in SocketState, Sound(s), Room(s, 1), NEW sub \in Sub,
         NEW mode \in {"awaited", "restored"}
  PROVE  Sound(Subscribe(s, sub, mode))
<1> DEFINE kept == [s EXCEPT !.subs = Append(@, sub)]
           call == [sub |-> sub, mode |-> mode]
<1>1. kept \in SocketState
  <2>1. Append(s.subs, sub) \in Seq(Sub)
    BY DEF SocketState
  <2>. QED
    BY <2>1, FieldTypes
<1>2. /\ kept.conn = s.conn /\ kept.calls = s.calls /\ kept.count = s.count
      /\ kept.requests = s.requests /\ kept.inbox = s.inbox /\ kept.active = s.active
  BY DEF SocketState
<1>3. call \in Call /\ call.mode # "health"
  BY DEF Call
<1>4. Subscribe(s, sub, mode) = Send(kept, call)
  BY DEF Subscribe
<1>. HIDE DEF kept, call
<1>5. Sound(kept) /\ Room(kept, 1)
  BY <1>2, SameSound DEF Room
<1>. QED
  BY <1>1, <1>3, <1>4, <1>5, SendSound

(* A new connection has nothing under way.                                   *)
LEMMA RestartedSound ==
  ASSUME NEW s \in SocketState, Sound(s)
  PROVE  Sound(Restarted(s))
  BY RestartedFields DEF Sound

(* The restored subscriptions have the numbers of their requests.            *)
LEMMA OpenedSound ==
  ASSUME NEW s \in SocketState, Sound(s), s.conn = "connecting",
         Room(s, Len(s.restore))
  PROVE  Sound(Opened(s))
<1> DEFINE t == Opened(s)
<1>1. /\ t.conn = "open" /\ t.inbox = <<>> /\ \A i \in Id : t.active[i] = None
      /\ t.count = s.count + Len(s.restore)
  BY OpenedFields DEF Sound
<1>2. /\ s.count \in Nat /\ Len(s.restore) \in Nat /\ s.count + Len(s.restore) \in Id
      /\ s.restore \in Seq(Sub)
  BY SocketFields, ConstantsAssumption DEF Id, Room
<1>3. \A i \in Id : t.calls[i].mode = "health" => t.calls[i].sub = None
  <2> TAKE i \in Id
  <2>1. t.calls[i] = IF i - s.count + 1 \in 1..Len(s.restore)
                     THEN [sub |-> s.restore[i - s.count + 1], mode |-> "restored"]
                     ELSE s.calls[i]
    BY OpenedFields
  <2>. HIDE DEF t
  <2>. QED
    BY <2>1 DEF Sound
<1>4. ASSUME NEW n \in 1..Len(t.requests)
      PROVE  t.requests[n].id < t.count /\ t.calls[t.requests[n].id].sub = t.requests[n].sub
  <2>1. t.requests = [k \in 1..Len(s.restore) |->
                        [id |-> s.count + k - 1, sub |-> s.restore[k]]]
    BY OpenedFields
  <2>. HIDE DEF t
  <2>2. Len(t.requests) = Len(s.restore)
    BY <1>2, <2>1, LenProperties
  <2>3. /\ n \in 1..Len(s.restore) /\ n \in Nat /\ 1 <= n
        /\ t.requests[n] = [id |-> s.count + n - 1, sub |-> s.restore[n]]
    BY <1>2, <1>4, <2>1, <2>2
  <2>4. s.count + n - 1 \in Id /\ (s.count + n - 1) - s.count + 1 = n
    <3>1. n <= Len(s.restore) /\ MaxId \in Nat /\ s.count + Len(s.restore) <= MaxId
      BY <1>2, <2>3, ConstantsAssumption DEF Id
    <3>. QED
      BY <1>2, <2>3, <3>1 DEF Id
  <2>5. t.calls[s.count + n - 1] = [sub |-> s.restore[n], mode |-> "restored"]
    <3>1. t.calls = [i \in Id |->
              IF i - s.count + 1 \in 1..Len(s.restore)
              THEN [sub |-> s.restore[i - s.count + 1], mode |-> "restored"]
              ELSE s.calls[i]]
      BY OpenedFields DEF t
    <3>. QED
      BY <2>3, <2>4, <3>1
  <2>. QED
    BY <1>1, <1>2, <2>3, <2>5
<1>. HIDE DEF t
<1>5. Matched(t)
  BY <1>1, <1>4 DEF Matched
<1>. QED
  BY <1>1, <1>3, <1>5 DEF Sound, t

(* The server answers what it was asked, under the number it was asked.      *)
LEMMA AnswerSound ==
  ASSUME NEW s \in SocketState, Sound(s), s.conn = "open", s.requests # <<>>,
         NEW t \in SocketState, NEW kind \in {"result", "full", "error"},
         t.conn = "open", t.count = s.count, t.calls = s.calls,
         t.requests = Tail(s.requests),
         t.inbox = Append(s.inbox, [id |-> Head(s.requests).id,
                                    sub |-> Head(s.requests).sub, kind |-> kind]),
         \/ t.active = s.active
         \/ /\ kind = "result"
            /\ t.active = [s.active EXCEPT ![Head(s.requests).id] = Head(s.requests).sub]
  PROVE  Sound(t)
<1> DEFINE r == Head(s.requests)
<1>1. Matched(s) /\ s.requests \in Seq(Request) /\ s.inbox \in Seq(Message)
      /\ s.count \in Nat /\ Len(s.inbox) \in Nat
  BY SocketFields DEF Sound
<1>2. r = s.requests[1] /\ 1 \in 1..Len(s.requests) /\ r \in Request
      /\ r.id \in Id /\ r.id < s.count /\ s.calls[r.id].sub = r.sub
  <2>1. r = s.requests[1] /\ 1 \in 1..Len(s.requests)
    BY <1>1
  <2>. QED
    BY <1>1, <2>1, SocketFields DEF Matched
<1>3. /\ Len(t.inbox) = Len(s.inbox) + 1
      /\ \A n \in 1..Len(s.inbox) : t.inbox[n] = s.inbox[n]
      /\ t.inbox[Len(s.inbox) + 1] = [id |-> r.id, sub |-> r.sub, kind |-> kind]
  BY <1>1, AppendProperties
<1>. HIDE DEF r
<1>4. \A i \in Id, n \in Nat : n <= Len(s.inbox) =>
         (Confirmed(s, i, n) => Confirmed(t, i, n) /\ Confirmed(t, i, Len(t.inbox)))
  BY <1>1, <1>3 DEF Confirmed
<1>5. ASSUME NEW n \in 1..Len(t.requests)
      PROVE  t.requests[n].id < t.count /\ t.calls[t.requests[n].id].sub = t.requests[n].sub
  <2>1. t.requests[n] = s.requests[n + 1] /\ n + 1 \in 1..Len(s.requests)
    BY <1>1, <1>5, HeadTailProperties
  <2>. QED
    BY <1>1, <2>1 DEF Matched
<1>6. ASSUME NEW n \in 1..Len(t.inbox)
      PROVE  LET m == t.inbox[n]
             IN  /\ m.id < t.count /\ t.calls[m.id].sub = m.sub
                 /\ m.kind = "event" => m.sub # None /\ Confirmed(t, m.id, n - 1)
  <2>1. CASE n \in 1..Len(s.inbox)
    <3>1. /\ s.inbox[n].id < s.count /\ s.calls[s.inbox[n].id].sub = s.inbox[n].sub
          /\ s.inbox[n].kind = "event" =>
               s.inbox[n].sub # None /\ Confirmed(s, s.inbox[n].id, n - 1)
          /\ s.inbox[n].id \in Id /\ n - 1 \in Nat /\ n - 1 <= Len(s.inbox)
      BY <1>1, <2>1, SocketFields DEF Matched
    <3>. QED
      BY <1>3, <1>4, <2>1, <3>1
  <2>2. CASE n = Len(s.inbox) + 1
    BY <1>2, <1>3, <2>2
  <2>. QED
    BY <1>1, <1>3, <1>6, <2>1, <2>2
<1>7. ASSUME NEW i \in Id, t.active[i] # None
      PROVE  /\ i < t.count /\ t.calls[i].sub = t.active[i]
             /\ Confirmed(t, i, Len(t.inbox))
  <2>1. CASE t.active[i] = s.active[i]
    <3>1. /\ i < s.count /\ s.calls[i].sub = s.active[i]
          /\ Confirmed(s, i, Len(s.inbox))
      BY <1>1, <1>7, <2>1 DEF Matched
    <3>. QED
      BY <1>1, <1>4, <2>1, <3>1
  <2>2. CASE t.active[i] # s.active[i]
    <3>1. i = r.id /\ kind = "result" /\ t.active[i] = r.sub
      BY <1>2, <2>2, SocketFields DEF r
    <3>2. Confirmed(t, i, Len(t.inbox))
      BY <1>1, <1>3, <3>1 DEF Confirmed
    <3>. QED
      BY <1>2, <3>1, <3>2
  <2>. QED
    BY <2>1, <2>2
<1>. QED
  BY <1>5, <1>6, <1>7 DEF Sound, Matched

(* Who gets an event has been confirmed, or the confirmation is before it.   *)
LEMMA EventSound ==
  ASSUME NEW s \in SocketState, Sound(s), s.conn = "open", NEW i \in Id,
         s.active[i] # None, NEW t \in SocketState,
         t.conn = "open", t.count = s.count, t.calls = s.calls,
         t.requests = s.requests, t.active = s.active,
         t.inbox = Append(s.inbox, [id |-> i, sub |-> s.active[i], kind |-> "event"])
  PROVE  Sound(t)
<1>2. Matched(s) /\ s.inbox \in Seq(Message) /\ s.count \in Nat /\ Len(s.inbox) \in Nat
  BY SocketFields DEF Sound
<1>3. /\ Len(t.inbox) = Len(s.inbox) + 1
      /\ \A n \in 1..Len(s.inbox) : t.inbox[n] = s.inbox[n]
      /\ t.inbox[Len(s.inbox) + 1] = [id |-> i, sub |-> s.active[i], kind |-> "event"]
  BY <1>2, AppendProperties
<1>4. \A j \in Id, n \in Nat : n <= Len(s.inbox) =>
         (Confirmed(s, j, n) => Confirmed(t, j, n) /\ Confirmed(t, j, Len(t.inbox)))
  BY <1>2, <1>3 DEF Confirmed
<1>5. i < s.count /\ s.calls[i].sub = s.active[i] /\ Confirmed(s, i, Len(s.inbox))
  BY <1>2 DEF Matched
<1>6. ASSUME NEW n \in 1..Len(t.inbox)
      PROVE  LET m == t.inbox[n]
             IN  /\ m.id < t.count /\ t.calls[m.id].sub = m.sub
                 /\ m.kind = "event" => m.sub # None /\ Confirmed(t, m.id, n - 1)
  <2>1. CASE n \in 1..Len(s.inbox)
    <3>1. /\ s.inbox[n].id < s.count /\ s.calls[s.inbox[n].id].sub = s.inbox[n].sub
          /\ s.inbox[n].kind = "event" =>
               s.inbox[n].sub # None /\ Confirmed(s, s.inbox[n].id, n - 1)
          /\ s.inbox[n].id \in Id /\ n - 1 \in Nat /\ n - 1 <= Len(s.inbox)
      BY <1>2, <2>1, SocketFields DEF Matched
    <3>. QED
      BY <1>3, <1>4, <2>1, <3>1
  <2>2. CASE n = Len(s.inbox) + 1
    <3>1. n - 1 = Len(s.inbox) /\ Confirmed(t, i, n - 1)
      BY <1>2, <1>4, <1>5, <2>2
    <3>. QED
      BY <1>3, <1>5, <2>2, <3>1
  <2>. QED
    BY <1>2, <1>3, <1>6, <2>1, <2>2
<1>7. \A j \in Id : t.active[j] # None =>
        /\ j < t.count /\ t.calls[j].sub = t.active[j]
        /\ Confirmed(t, j, Len(t.inbox))
  BY <1>2, <1>4 DEF Matched
<1>8. \A n \in 1..Len(t.requests) :
         t.requests[n].id < t.count /\ t.calls[t.requests[n].id].sub = t.requests[n].sub
  BY <1>2 DEF Matched
<1>. QED
  BY <1>6, <1>7, <1>8 DEF Sound, Matched

(* A message is handled: a confirmation makes its call a stream, unless it was
   for a health check.                                                       *)
LEMMA TakenSound ==
  ASSUME NEW s \in SocketState, Sound(s), s.conn = "open", s.inbox # <<>>,
         NEW t \in SocketState, t.conn = "open", t.count = s.count,
         t.requests = s.requests, t.active = s.active, t.inbox = Tail(s.inbox),
         \A i \in Id : /\ t.calls[i].sub = s.calls[i].sub
                       /\ t.calls[i].mode \in {s.calls[i].mode, "stream"},
         \/ Head(s.inbox).kind # "result"
         \/ t.calls[Head(s.inbox).id].mode = "stream"
         \/ Head(s.inbox).sub = None
  PROVE  Sound(t)
<1> DEFINE m == Head(s.inbox)
<1>1. Matched(s) /\ s.inbox \in Seq(Message) /\ s.count \in Nat /\ Len(s.inbox) \in Nat
      /\ s.requests \in Seq(Request)
  BY SocketFields DEF Sound
<1>2. /\ m = s.inbox[1] /\ 1 \in 1..Len(s.inbox) /\ m.id \in Id
      /\ s.calls[m.id].sub = m.sub
  <2>1. m = s.inbox[1] /\ 1 \in 1..Len(s.inbox)
    BY <1>1
  <2>. QED
    BY <1>1, <2>1, SocketFields DEF Matched
<1>3. /\ Len(t.inbox) = Len(s.inbox) - 1
      /\ \A n \in 1..Len(t.inbox) : n + 1 \in 1..Len(s.inbox) /\ t.inbox[n] = s.inbox[n + 1]
  BY <1>1, HeadTailProperties
<1>. HIDE DEF m
<1>4. ASSUME NEW i \in Id, s.calls[i].sub # None, NEW n \in 1..Len(s.inbox), Confirmed(s, i, n)
      PROVE  Confirmed(t, i, n - 1)
  <2>1. CASE s.calls[i].mode = "stream"
    BY <2>1 DEF Confirmed
  <2>2. CASE s.calls[i].mode # "stream"
    <3>1. PICK e \in 1..n : s.inbox[e].id = i /\ s.inbox[e].kind = "result"
      BY <1>4, <2>2 DEF Confirmed
    <3>2. CASE e = 1
      <4>1. m.id = i /\ m.kind = "result" /\ m.sub # None
        BY <1>2, <1>4, <3>1, <3>2
      <4>. QED
        BY <4>1 DEF Confirmed, m
    <3>3. CASE e # 1
      <4>1. e - 1 \in 1..(n - 1) /\ e - 1 \in 1..Len(t.inbox) /\ (e - 1) + 1 = e
        BY <1>1, <1>3, <1>4, <3>3
      <4>2. t.inbox[e - 1] = s.inbox[e]
        BY <1>3, <4>1
      <4>. QED
        BY <3>1, <4>1, <4>2 DEF Confirmed
    <3>. QED
      BY <3>2, <3>3
  <2>. QED
    BY <2>1, <2>2
<1>5. ASSUME NEW n \in 1..Len(t.inbox)
      PROVE  LET a == t.inbox[n]
             IN  /\ a.id < t.count /\ t.calls[a.id].sub = a.sub
                 /\ a.kind = "event" => a.sub # None /\ Confirmed(t, a.id, n - 1)
  <2>1. /\ t.inbox[n] = s.inbox[n + 1] /\ n + 1 \in 1..Len(s.inbox)
        /\ n \in 1..Len(s.inbox) /\ (n + 1) - 1 = n
    BY <1>1, <1>3
  <2>2. /\ s.inbox[n + 1].id \in Id /\ s.inbox[n + 1].id < s.count
        /\ s.calls[s.inbox[n + 1].id].sub = s.inbox[n + 1].sub
        /\ s.inbox[n + 1].kind = "event" =>
             s.inbox[n + 1].sub # None /\ Confirmed(s, s.inbox[n + 1].id, n)
    BY <1>1, <2>1, SocketFields DEF Matched
  <2>. QED
    BY <1>4, <2>1, <2>2
<1>6. ASSUME NEW i \in Id, t.active[i] # None
      PROVE  /\ i < t.count /\ t.calls[i].sub = t.active[i]
             /\ Confirmed(t, i, Len(t.inbox))
  <2>1. i < s.count /\ s.calls[i].sub = s.active[i] /\ Confirmed(s, i, Len(s.inbox))
    BY <1>1, <1>6 DEF Matched
  <2>2. Len(s.inbox) \in 1..Len(s.inbox)
    BY <1>2
  <2>. QED
    BY <1>3, <1>4, <1>6, <2>1, <2>2
<1>7. \A n \in 1..Len(t.requests) :
         t.requests[n].id < t.count /\ t.calls[t.requests[n].id].sub = t.requests[n].sub
  <2> TAKE n \in 1..Len(t.requests)
  <2>1. /\ n \in 1..Len(s.requests) /\ s.requests[n].id \in Id
        /\ s.requests[n].id < s.count /\ s.calls[s.requests[n].id].sub = s.requests[n].sub
    BY <1>1, SocketFields DEF Matched
  <2>. QED
    BY <2>1
<1>8. \A i \in Id : t.calls[i].mode = "health" => t.calls[i].sub = None
  BY DEF Sound
<1>. QED
  BY <1>5, <1>6, <1>7, <1>8 DEF Sound, Matched

-----------------------------------------------------------------------------
(* A call that ends hands its turn to one that holds a socket.               *)
LEMMA FinishHolds ==
  ASSUME TypeOK, HoldsSocket, NEW s \in Sub, mine[s] # 0, NEW end, Finish(s, end)
  PROVE  /\ \A x \in Sub : at'[x] # "idle" => mine[x] # 0
         /\ \A n \in 1..Len(waiting') : mine[waiting'[n]] # 0
<1>1. CASE waiting = <<>>
  BY <1>1 DEF Finish, HoldsSocket, TypeOK
<1>2. CASE waiting # <<>>
  <2>1. /\ waiting \in Seq(Sub) /\ 1 \in 1..Len(waiting) /\ Head(waiting) = waiting[1]
        /\ waiting' = Tail(waiting) /\ at' = [at EXCEPT ![s] = end, ![Head(waiting)] = "turn"]
    BY <1>2 DEF Finish, TypeOK
  <2>2. mine[Head(waiting)] # 0
    BY <2>1 DEF HoldsSocket
  <2>3. \A n \in 1..Len(waiting') : n + 1 \in 1..Len(waiting) /\ waiting'[n] = waiting[n + 1]
    BY <1>2, <2>1, HeadTailProperties
  <2>. QED
    BY <2>1, <2>2, <2>3 DEF HoldsSocket, TypeOK
<1>. QED
  BY <1>1, <1>2

(* A step that leaves the calls and their structs alone.                     *)
LEMMA SameHolds ==
  ASSUME HoldsSocket, UNCHANGED <<at, waiting, mine>>,
         \A n \in Socket : sock'[n].calls = sock[n].calls
  PROVE  HoldsSocket'
  BY DEF HoldsSocket

(* Whoever gets or awaits something holds a socket, after every step.        *)
LEMMA HoldsStep == TypeOK /\ HoldsSocket /\ [Next]_vars => HoldsSocket'
<1> SUFFICES ASSUME TypeOK, HoldsSocket, [Next]_vars PROVE HoldsSocket'
  OBVIOUS
<1> USE DEF feedVars, callVars, counts
<1> DEFINE Awaits(k, s) == \E i \in Id : sock[k].calls[i].mode = "awaited"
                                         /\ sock[k].calls[i].sub = s
           Callers == /\ \A s \in Sub : at'[s] # "idle" => mine'[s] # 0
                      /\ \A n \in 1..Len(waiting') : mine'[waiting'[n]] # 0
           Awaiters == \A k \in Socket, i \in Id : sock'[k].calls[i].mode = "awaited" =>
                          sock'[k].calls[i].sub \in Sub /\ mine'[sock'[k].calls[i].sub] # 0
<1>0. \A k \in Socket : sock[k] \in SocketState
  BY DEF TypeOK
<1>1. ASSUME NEW s \in Sub, Follow(s) PROVE HoldsSocket'
  <2>1. /\ mine' = [mine EXCEPT ![s] = cur] /\ cur # 0 /\ sock' = sock
        /\ \A x \in Sub : x # s => at'[x] = at[x]
        /\ waiting' = waiting \/ waiting' = Append(waiting, s)
    BY <1>1 DEF Follow, TypeOK
  <2>2. mine'[s] # 0 /\ \A x \in Sub : mine[x] # 0 => mine'[x] # 0
    BY <2>1 DEF TypeOK
  <2>3. \A n \in 1..Len(waiting') :
           waiting'[n] = s \/ (n \in 1..Len(waiting) /\ waiting'[n] = waiting[n])
    <3>1. waiting \in Seq(Sub)
      BY DEF TypeOK
    <3>2. CASE waiting' = Append(waiting, s)
      BY <3>1, <3>2, AppendProperties
    <3>. QED
      BY <2>1, <3>2
  <2>4. \A n \in 1..Len(waiting) : waiting[n] \in Sub
    BY DEF TypeOK
  <2>5. Callers
    BY <2>1, <2>2, <2>3, <2>4 DEF HoldsSocket
  <2>6. Awaiters
    BY <2>1, <2>2 DEF HoldsSocket
  <2>. QED
    BY <2>5, <2>6 DEF HoldsSocket
<1>2. ASSUME NEW s \in Sub, Turn(s) PROVE HoldsSocket'
  <2>1. mine[s] \in Socket /\ mine' = mine /\ mine[s] # 0
    BY <1>2, Bounds DEF Turn, HoldsSocket, TypeOK
  <2>2. Callers
    <3>1. CASE sock[mine[s]].conn = "connecting"
      BY <1>2, <2>1, <3>1, FinishHolds DEF Turn
    <3>2. CASE sock[mine[s]].conn # "connecting"
      BY <1>2, <2>1, <3>2 DEF Turn, HoldsSocket, TypeOK
    <3>. QED
      BY <3>1, <3>2
  <2>3. Awaiters
    <3>1. sock' = [sock EXCEPT ![mine[s]] = Subscribe(sock[mine[s]], s, "awaited")]
      BY <1>2 DEF Turn
    <3>2. Subscribe(sock[mine[s]], s, "awaited").calls =
            [sock[mine[s]].calls EXCEPT ![sock[mine[s]].count] = [sub |-> s, mode |-> "awaited"]]
      BY <1>0, <2>1, SubscribeFields
    <3>3. \A i \in Id : \/ Subscribe(sock[mine[s]], s, "awaited").calls[i]
                             = sock[mine[s]].calls[i]
                        \/ Subscribe(sock[mine[s]], s, "awaited").calls[i]
                             = [sub |-> s, mode |-> "awaited"]
      <4>1. sock[mine[s]].calls \in [Id -> Call]
        BY <1>0, <2>1, SocketFields
      <4>. QED
        BY <3>2, <4>1
    <3>4. \A k \in Socket, i \in Id : \/ sock'[k].calls[i] = sock[k].calls[i]
                                      \/ sock'[k].calls[i] = [sub |-> s, mode |-> "awaited"]
      BY <2>1, <3>1, <3>3 DEF TypeOK
    <3>. QED
      BY <2>1, <3>4 DEF HoldsSocket
  <2>. QED
    BY <2>2, <2>3 DEF HoldsSocket
<1>3. ASSUME NEW k \in Socket, Connect(k) PROVE HoldsSocket'
  <2>1. Callers
    BY <1>3 DEF Connect, Opener, HoldsSocket, TypeOK
  <2>2. Opened(sock[k]) \in SocketState
    BY <1>0, <1>3, OpenedType DEF Connect
  <2>3. \A i \in Id : Opened(sock[k]).calls[i] = sock[k].calls[i]
                      \/ Opened(sock[k]).calls[i].mode = "restored"
    <3>1. Opened(sock[k]).calls = [i \in Id |->
              IF i - sock[k].count + 1 \in 1..Len(sock[k].restore)
              THEN [sub |-> sock[k].restore[i - sock[k].count + 1], mode |-> "restored"]
              ELSE sock[k].calls[i]]
      BY <1>0, OpenedFields
    <3>. QED
      BY <3>1
  <2>4. CASE sock' = [sock EXCEPT ![k] = Opened(sock[k])]
    <3>1. \A n \in Socket, i \in Id : \/ sock'[n].calls[i] = sock[n].calls[i]
                                      \/ sock'[n].calls[i].mode = "restored"
      BY <2>3, <2>4 DEF TypeOK
    <3>2. mine' = mine
      BY <1>3 DEF Connect
    <3>. QED
      BY <2>1, <3>1, <3>2 DEF HoldsSocket
  <2>5. ASSUME NEW s \in Opener(k),
               sock' = [sock EXCEPT ![k] = Subscribe(Opened(sock[k]), s, "awaited")]
        PROVE  HoldsSocket'
    <3>1. s \in Sub /\ mine[s] # 0 /\ mine' = mine
      BY <1>3, Bounds DEF Opener, Connect
    <3>2. Subscribe(Opened(sock[k]), s, "awaited").calls =
            [Opened(sock[k]).calls EXCEPT ![Opened(sock[k]).count] =
               [sub |-> s, mode |-> "awaited"]]
      BY <2>2, <3>1, SubscribeFields
    <3>3. \A i \in Id : \/ Subscribe(Opened(sock[k]), s, "awaited").calls[i]
                             = Opened(sock[k]).calls[i]
                        \/ Subscribe(Opened(sock[k]), s, "awaited").calls[i]
                             = [sub |-> s, mode |-> "awaited"]
      BY <2>2, <3>2, SocketFields
    <3>4. \A n \in Socket, i \in Id : \/ sock'[n].calls[i] = sock[n].calls[i]
                                      \/ sock'[n].calls[i].mode = "restored"
                                      \/ sock'[n].calls[i] = [sub |-> s, mode |-> "awaited"]
      BY <2>3, <2>5, <3>3 DEF TypeOK
    <3>. QED
      BY <2>1, <3>1, <3>4 DEF HoldsSocket
  <2>. QED
    BY <1>3, <2>4, <2>5 DEF Connect
<1>4. ASSUME NEW k \in Socket, Lose(k) PROVE HoldsSocket'
  <2>1. mine' = mine
    BY <1>4 DEF Lose
  <2>2. Callers
    <3>1. CASE UNCHANGED <<busy, waiting, at>>
      BY <2>1, <3>1 DEF HoldsSocket
    <3>2. ASSUME NEW s \in Opener(k), Finish(s, "thrown") PROVE Callers
      <4>1. s \in Sub /\ mine[s] # 0
        BY Bounds DEF Opener
      <4>. QED
        BY <2>1, <3>2, <4>1, FinishHolds
    <3>. QED
      BY <1>4, <3>1, <3>2 DEF Lose
  <2>3. /\ [sock[k] EXCEPT !.conn = "closed", !.closed = TRUE].calls = sock[k].calls
        /\ Restarted([sock[k] EXCEPT !.closed = TRUE]).calls = sock[k].calls
    BY <1>0 DEF SocketState, Restarted
  <2>4. \A n \in Socket : sock'[n].calls = sock[n].calls
    <3>1. \/ sock' = [sock EXCEPT ![k] = Restarted([sock[k] EXCEPT !.closed = TRUE])]
          \/ sock' = [sock EXCEPT ![k] = [sock[k] EXCEPT !.conn = "closed", !.closed = TRUE]]
      BY <1>4 DEF Lose
    <3>. QED
      BY <2>3, <3>1 DEF TypeOK
  <2>. QED
    BY <2>1, <2>2, <2>4 DEF HoldsSocket
<1>5. ASSUME NEW k \in Socket, Ping(k) PROVE HoldsSocket'
  <2> DEFINE call == [sub |-> None, mode |-> "health"]
  <2>1. call \in Call /\ call.mode = "health"
    BY DEF Call
  <2>2. sock' = [sock EXCEPT ![k] = Send(sock[k], call)]
    BY <1>5 DEF Ping
  <2>. HIDE DEF call
  <2>3. Send(sock[k], call).calls = [sock[k].calls EXCEPT ![sock[k].count] = call]
    BY <1>0, <2>1, SendFields
  <2>4. \A n \in Socket, i \in Id : \/ sock'[n].calls[i] = sock[n].calls[i]
                                    \/ sock'[n].calls[i].mode = "health"
    <3>1. \A i \in Id : \/ Send(sock[k], call).calls[i] = sock[k].calls[i]
                        \/ Send(sock[k], call).calls[i] = call
      BY <1>0, <2>3, SocketFields
    <3>. QED
      BY <2>1, <2>2, <3>1 DEF TypeOK
  <2>. QED
    BY <1>5, <2>4 DEF Ping, HoldsSocket
<1>6. ASSUME NEW k \in Socket, Serve(k) PROVE HoldsSocket'
  <2>1. \A n \in Socket : sock'[n].calls = sock[n].calls
    <3> DEFINE next == [sock[k] EXCEPT !.requests = Tail(@)]
               r == Head(sock[k].requests)
    <3>1. \A x, y : /\ [next EXCEPT !.inbox = x].calls = sock[k].calls
                    /\ [next EXCEPT !.inbox = x, !.active = y].calls = sock[k].calls
      BY <1>0 DEF SocketState
    <3>2. \E x, y : \/ sock' = [sock EXCEPT ![k] = [next EXCEPT !.inbox = x]]
                    \/ sock' = [sock EXCEPT ![k] = [next EXCEPT !.inbox = x, !.active = y]]
      <4>1. \/ \E kind \in {"result", "full", "error"} :
                   sock' = [sock EXCEPT ![k] =
                     [next EXCEPT !.inbox = Append(@, [id |-> r.id, sub |-> r.sub, kind |-> kind])]]
            \/ sock' = [sock EXCEPT ![k] =
                   [next EXCEPT !.inbox = Append(@, [id |-> r.id, sub |-> r.sub, kind |-> "result"]),
                                !.active[r.id] = r.sub]]
        BY <1>6, Zenon DEF Serve
      <4>. QED
        BY <4>1, Zenon
    <3>. HIDE DEF next, r
    <3>3. PICK x, y : \/ sock' = [sock EXCEPT ![k] = [next EXCEPT !.inbox = x]]
                      \/ sock' = [sock EXCEPT ![k] = [next EXCEPT !.inbox = x, !.active = y]]
      BY <3>2
    <3>4. CASE sock' = [sock EXCEPT ![k] = [next EXCEPT !.inbox = x]]
      BY <3>1, <3>4 DEF TypeOK
    <3>5. CASE sock' = [sock EXCEPT ![k] = [next EXCEPT !.inbox = x, !.active = y]]
      BY <3>1, <3>5 DEF TypeOK
    <3>. QED
      BY <3>3, <3>4, <3>5
  <2>. QED
    BY <1>6, <2>1, SameHolds DEF Serve
<1>7. ASSUME NEW k \in Socket, Emit(k) PROVE HoldsSocket'
  <2>1. \A n \in Socket : sock'[n].calls = sock[n].calls
    BY <1>0, <1>7 DEF Emit, TypeOK, SocketState
  <2>. QED
    BY <1>7, <2>1, SameHolds DEF Emit
<1>8. ASSUME NEW k \in Socket, sock[k].inbox # <<>>
      PROVE  /\ Arrived(k).id \in Id /\ Taken(k) \in [Socket -> SocketState]
             /\ \A n \in Socket : Taken(k)[n].calls = sock[n].calls
  <2>1. Arrived(k).id \in Id /\ Taken(k) \in [Socket -> SocketState]
    BY <1>8, ArrivedType DEF Message
  <2>. QED
    BY <1>0, <2>1 DEF Taken, TypeOK, SocketState
<1>9. ASSUME NEW k \in Socket, Confirm(k) PROVE HoldsSocket'
  <2>1. mine' = mine /\ sock[k].inbox # <<>>
    BY <1>9 DEF Confirm, Arrives
  <2>2. Callers
    <3>1. CASE UNCHANGED <<busy, waiting, at>>
      BY <2>1, <3>1 DEF HoldsSocket
    <3>2. CASE CallOf(k).mode = "awaited" /\ Finish(CallOf(k).sub, "following")
      <4>1. CallOf(k).sub \in Sub /\ mine[CallOf(k).sub] # 0
        BY <1>8, <2>1, <3>2 DEF CallOf, HoldsSocket
      <4>. QED
        BY <2>1, <3>2, <4>1, FinishHolds
    <3>. QED
      BY <1>9, <3>1, <3>2 DEF Confirm
  <2>3. \A n \in Socket, i \in Id : \/ sock'[n].calls[i] = sock[n].calls[i]
                                    \/ sock'[n].calls[i].mode = "stream"
    <3>1. sock' = [Taken(k) EXCEPT ![k].calls[Arrived(k).id].mode = "stream"]
      BY <1>9 DEF Confirm
    <3>2. \A i \in Id : Taken(k)[k].calls[i] \in Call
      BY <1>8, <2>1, SocketFields
    <3>. QED
      BY <1>8, <2>1, <3>1, <3>2 DEF SocketState, Call
  <2>. QED
    BY <2>1, <2>2, <2>3 DEF HoldsSocket
<1>10. ASSUME NEW k \in Socket, Receive(k) PROVE HoldsSocket'
  BY <1>8, <1>10 DEF Receive, HoldsSocket
<1>11. ASSUME NEW k \in Socket, Shelve(k) PROVE HoldsSocket'
  <2>1. PICK new \in Fresh :
          /\ sock' = [Taken(k) EXCEPT ![new] = Restarted(@)]
          /\ at' = [at EXCEPT ![CallOf(k).sub] = "opening"]
          /\ mine' = [mine EXCEPT ![CallOf(k).sub] = new]
    BY <1>11 DEF Shelve
  <2>2. new \in Socket /\ new # 0
    BY Bounds DEF Fresh
  <2>3. \A s \in Sub : mine[s] # 0 => mine'[s] # 0
    BY <2>1, <2>2 DEF TypeOK
  <2>4. CallOf(k).sub \in Sub
    BY <1>8, <1>11 DEF Shelve, Arrives, CallOf, HoldsSocket
  <2>5. \A n \in Socket : sock'[n].calls = sock[n].calls
    BY <1>8, <1>11, <2>1, <2>2, RestartedFields DEF Shelve, Arrives
  <2>6. waiting' = waiting /\ \A n \in 1..Len(waiting) : waiting[n] \in Sub
    BY <1>11 DEF Shelve, TypeOK
  <2>7. mine'[CallOf(k).sub] # 0 /\ \A s \in Sub : s # CallOf(k).sub => at'[s] = at[s]
    BY <2>1, <2>2, <2>4 DEF TypeOK
  <2>8. Callers
    BY <2>3, <2>6, <2>7 DEF HoldsSocket
  <2>. QED
    BY <2>3, <2>5, <2>8 DEF HoldsSocket
<1>12. ASSUME NEW k \in Socket, Refused(k) PROVE HoldsSocket'
  <2>1. sock[k].inbox # <<>> /\ mine' = mine /\ sock' = Taken(k)
    BY <1>12 DEF Refused, Arrives
  <2>2. CallOf(k).sub \in Sub /\ mine[CallOf(k).sub] # 0
    BY <1>8, <1>12, <2>1 DEF Refused, CallOf, HoldsSocket
  <2>3. Callers
    BY <1>12, <2>1, <2>2, FinishHolds DEF Refused
  <2>. QED
    BY <1>8, <2>1, <2>3 DEF HoldsSocket
<1>13. CASE Destroy
  <2>1. \A n \in Socket : sock'[n].calls = sock[n].calls
    <3>1. \A n \in Socket :
             [sock[n] EXCEPT !.conn = "closed", !.closed = TRUE].calls = sock[n].calls
      BY <1>0 DEF SocketState
    <3>. QED
      BY <1>13, <3>1 DEF Destroy
  <2>. QED
    BY <1>13, <2>1, SameHolds DEF Destroy
<1>14. CASE UNCHANGED vars
  BY <1>14 DEF vars, HoldsSocket
<1>. QED
  BY <1>1, <1>2, <1>3, <1>4, <1>5, <1>6, <1>7, <1>9, <1>10, <1>11, <1>12, <1>13,
     <1>14 DEF Next, Macrotask, Arrival

-----------------------------------------------------------------------------
(* One socket changes, and stays sound.                                      *)
LEMMA OneSound ==
  ASSUME TypeOK, AllSound, NEW k \in Socket, NEW t, Sound(t),
         sock' = [sock EXCEPT ![k] = t]
  PROVE  AllSound'
  BY DEF AllSound, TypeOK

(* A socket whose message is taken off, as a socket.                         *)
LEMMA TakenFields ==
  ASSUME TypeOK, NEW k \in Socket, sock[k].inbox # <<>>, NEW t, t = Taken(k)[k]
  PROVE  /\ t \in SocketState /\ t.conn = sock[k].conn /\ t.count = sock[k].count
         /\ t.requests = sock[k].requests /\ t.active = sock[k].active
         /\ t.inbox = Tail(sock[k].inbox) /\ t.calls = sock[k].calls
         /\ \A n \in Socket \ {k} : Taken(k)[n] = sock[n]
         /\ Taken(k) = [sock EXCEPT ![k] = t]
<1>1. t \in SocketState
  BY ArrivedType
<1>2. t = [sock[k] EXCEPT !.inbox = Tail(@)] /\ sock[k] \in SocketState
  BY DEF Taken, TypeOK
<1>3. /\ t.conn = sock[k].conn /\ t.count = sock[k].count
      /\ t.requests = sock[k].requests /\ t.active = sock[k].active
      /\ t.inbox = Tail(sock[k].inbox) /\ t.calls = sock[k].calls
  BY <1>2 DEF SocketState
<1>4. /\ \A n \in Socket \ {k} : Taken(k)[n] = sock[n]
      /\ Taken(k) = [sock EXCEPT ![k] = t]
  BY DEF Taken, TypeOK
<1>. QED
  BY <1>1, <1>3, <1>4

(* What is under way keeps its numbers in every step.                        *)
LEMMA SoundStep == TypeOK /\ AllSound /\ HoldsSocket /\ [Next]_vars => AllSound'
<1> SUFFICES ASSUME TypeOK, AllSound, HoldsSocket, [Next]_vars PROVE AllSound'
  OBVIOUS
<1> USE DEF feedVars, callVars, counts
<1>0. \A k \in Socket : sock[k] \in SocketState /\ Sound(sock[k])
  BY DEF TypeOK, AllSound
<1>1. ASSUME NEW s \in Sub, Follow(s) PROVE AllSound'
  BY <1>1 DEF Follow, AllSound
<1>2. ASSUME NEW s \in Sub, Turn(s) PROVE AllSound'
  <2>1. mine[s] \in Socket /\ Room(sock[mine[s]], 1)
        /\ sock' = [sock EXCEPT ![mine[s]] = Subscribe(sock[mine[s]], s, "awaited")]
    BY <1>2, Bounds DEF Turn, HoldsSocket, TypeOK
  <2>2. Sound(Subscribe(sock[mine[s]], s, "awaited"))
    BY <1>0, <2>1, SubscribeSound
  <2>. QED
    BY <2>1, <2>2, OneSound
<1>3. ASSUME NEW k \in Socket, Connect(k) PROVE AllSound'
  <2>1. Opened(sock[k]) \in SocketState /\ Sound(Opened(sock[k]))
    BY <1>0, <1>3, OpenedType, OpenedSound DEF Connect
  <2>2. CASE sock' = [sock EXCEPT ![k] = Opened(sock[k])]
    BY <2>1, <2>2, OneSound
  <2>3. ASSUME NEW s \in Opener(k), Room(Opened(sock[k]), 1),
               sock' = [sock EXCEPT ![k] = Subscribe(Opened(sock[k]), s, "awaited")]
        PROVE  AllSound'
    <3>1. Sound(Subscribe(Opened(sock[k]), s, "awaited"))
      BY <2>1, <2>3, SubscribeSound DEF Opener
    <3>. QED
      BY <2>3, <3>1, OneSound
  <2>. QED
    BY <1>3, <2>2, <2>3 DEF Connect
<1>4. ASSUME NEW k \in Socket, Lose(k) PROVE AllSound'
  <2>1. [sock[k] EXCEPT !.closed = TRUE] \in SocketState
    BY <1>0, FieldTypes
  <2>2. Sound([sock[k] EXCEPT !.closed = TRUE])
    <3> DEFINE t == [sock[k] EXCEPT !.closed = TRUE]
    <3>1. /\ t.conn = sock[k].conn /\ t.count = sock[k].count /\ t.calls = sock[k].calls
          /\ t.requests = sock[k].requests /\ t.inbox = sock[k].inbox
          /\ t.active = sock[k].active
      BY <1>0 DEF SocketState
    <3>. HIDE DEF t
    <3>2. Sound(t)
      BY <1>0, <3>1, SameSound
    <3>. QED
      BY <3>2 DEF t
  <2>3. Sound(Restarted([sock[k] EXCEPT !.closed = TRUE]))
    BY <2>1, <2>2, RestartedSound
  <2>4. Sound([sock[k] EXCEPT !.conn = "closed", !.closed = TRUE])
    <3>1. /\ [sock[k] EXCEPT !.conn = "closed", !.closed = TRUE].conn = "closed"
          /\ [sock[k] EXCEPT !.conn = "closed", !.closed = TRUE].calls = sock[k].calls
      BY <1>0 DEF SocketState
    <3>. QED
      BY <1>0, <3>1 DEF Sound
  <2>5. \/ sock' = [sock EXCEPT ![k] = Restarted([sock[k] EXCEPT !.closed = TRUE])]
        \/ sock' = [sock EXCEPT ![k] = [sock[k] EXCEPT !.conn = "closed", !.closed = TRUE]]
    BY <1>4 DEF Lose
  <2>. QED
    BY <2>3, <2>4, <2>5, OneSound
<1>5. ASSUME NEW k \in Socket, Ping(k) PROVE AllSound'
  <2> DEFINE call == [sub |-> None, mode |-> "health"]
  <2>1. call \in Call /\ call.sub = None
    BY DEF Call
  <2>2. sock' = [sock EXCEPT ![k] = Send(sock[k], call)] /\ Room(sock[k], 1)
    BY <1>5 DEF Ping
  <2>. HIDE DEF call
  <2>3. Sound(Send(sock[k], call))
    BY <1>0, <2>1, <2>2, SendSound
  <2>. QED
    BY <2>2, <2>3, OneSound
<1>6. ASSUME NEW k \in Socket, Serve(k), TypeOK' PROVE AllSound'
  <2> DEFINE r == Head(sock[k].requests)
             next == [sock[k] EXCEPT !.requests = Tail(@)]
             answer(kind) == [id |-> r.id, sub |-> r.sub, kind |-> kind]
             answered(kind) == [next EXCEPT !.inbox = Append(@, answer(kind))]
             accepted == [next EXCEPT !.inbox = Append(@, answer("result")),
                                      !.active[r.id] = r.sub]
  <2>1. /\ sock[k].conn = "open" /\ sock[k].requests # <<>>
        /\ \/ \E kind \in {"result", "full", "error"} :
                sock' = [sock EXCEPT ![k] = answered(kind)]
           \/ sock' = [sock EXCEPT ![k] = accepted]
    BY <1>6, Zenon DEF Serve
  <2>2. ASSUME NEW kind \in {"result", "full", "error"},
               sock' = [sock EXCEPT ![k] = answered(kind)]
        PROVE  AllSound'
    <3> DEFINE t == answered(kind)
    <3>1. /\ t.conn = sock[k].conn /\ t.count = sock[k].count /\ t.calls = sock[k].calls
          /\ t.requests = Tail(sock[k].requests) /\ t.active = sock[k].active
          /\ t.inbox = Append(sock[k].inbox, [id |-> r.id, sub |-> r.sub, kind |-> kind])
      BY <1>0 DEF SocketState
    <3>. HIDE DEF t
    <3>2. sock' = [sock EXCEPT ![k] = t]
      BY <2>2 DEF t
    <3>3. t \in SocketState
      BY <1>6, <3>2 DEF TypeOK
    <3>4. Sound(t)
      BY <1>0, <2>1, <3>1, <3>3, AnswerSound
    <3>. QED
      BY <3>2, <3>4, OneSound
  <2>3. CASE sock' = [sock EXCEPT ![k] = accepted]
    <3> DEFINE t == accepted
    <3>1. /\ t.conn = sock[k].conn /\ t.count = sock[k].count /\ t.calls = sock[k].calls
          /\ t.requests = Tail(sock[k].requests)
          /\ t.active = [sock[k].active EXCEPT ![r.id] = r.sub]
          /\ t.inbox = Append(sock[k].inbox, [id |-> r.id, sub |-> r.sub, kind |-> "result"])
      BY <1>0 DEF SocketState
    <3>. HIDE DEF t
    <3>2. sock' = [sock EXCEPT ![k] = t]
      BY <2>3 DEF t
    <3>3. t \in SocketState
      BY <1>6, <3>2 DEF TypeOK
    <3>4. Sound(t)
      BY <1>0, <2>1, <3>1, <3>3, AnswerSound
    <3>. QED
      BY <3>2, <3>4, OneSound
  <2>. QED
    BY <2>1, <2>2, <2>3
<1>7. ASSUME NEW k \in Socket, Emit(k), TypeOK' PROVE AllSound'
  <2>1. PICK i \in Id :
          /\ sock[k].active[i] # None
          /\ sock' = [sock EXCEPT ![k] = [sock[k] EXCEPT !.inbox =
                Append(@, [id |-> i, sub |-> sock[k].active[i], kind |-> "event"])]]
    BY <1>7, Zenon DEF Emit
  <2> DEFINE t == [sock[k] EXCEPT !.inbox =
                Append(@, [id |-> i, sub |-> sock[k].active[i], kind |-> "event"])]
  <2>2. /\ t.conn = sock[k].conn /\ t.count = sock[k].count /\ t.calls = sock[k].calls
        /\ t.requests = sock[k].requests /\ t.active = sock[k].active
        /\ t.inbox = Append(sock[k].inbox,
                            [id |-> i, sub |-> sock[k].active[i], kind |-> "event"])
    BY <1>0 DEF SocketState
  <2>. HIDE DEF t
  <2>3. sock' = [sock EXCEPT ![k] = t] /\ sock[k].conn = "open"
    BY <1>7, <2>1 DEF t, Emit
  <2>4. t \in SocketState
    BY <1>7, <2>3 DEF TypeOK
  <2>5. Sound(t)
    BY <1>0, <2>1, <2>2, <2>3, <2>4, EventSound
  <2>. QED
    BY <2>3, <2>5, OneSound
<1>8. ASSUME NEW k \in Socket, sock[k].conn = "open", sock[k].inbox # <<>>,
             \/ Arrived(k).kind # "result"
             \/ CallOf(k).mode \in {"stream", "health"}
      PROVE  Sound(Taken(k)[k])
  <2>1. CallOf(k) = sock[k].calls[Head(sock[k].inbox).id] /\ Arrived(k) = Head(sock[k].inbox)
    BY DEF CallOf, Arrived
  <2>2. /\ Head(sock[k].inbox).id \in Id
        /\ sock[k].calls[Head(sock[k].inbox).id].sub = Head(sock[k].inbox).sub
    <3>1. sock[k].inbox \in Seq(Message)
      BY <1>0, SocketFields
    <3>2. Head(sock[k].inbox) = sock[k].inbox[1] /\ 1 \in 1..Len(sock[k].inbox)
      BY <1>8, <3>1
    <3>. QED
      BY <1>0, <1>8, <3>2, SocketFields DEF Sound, Matched
  <2>3. \/ Head(sock[k].inbox).kind # "result"
        \/ sock[k].calls[Head(sock[k].inbox).id].mode = "stream"
        \/ Head(sock[k].inbox).sub = None
    BY <1>0, <1>8, <2>1, <2>2 DEF Sound
  <2> DEFINE t == Taken(k)[k]
  <2>4. /\ t \in SocketState /\ t.conn = "open" /\ t.count = sock[k].count
        /\ t.requests = sock[k].requests /\ t.active = sock[k].active
        /\ t.inbox = Tail(sock[k].inbox) /\ t.calls = sock[k].calls
    BY <1>8, TakenFields
  <2>. HIDE DEF t
  <2>5. Sound(t)
    BY <1>0, <1>8, <2>3, <2>4, TakenSound
  <2>. QED
    BY <2>5 DEF t
<1>9. ASSUME NEW k \in Socket, Confirm(k), TypeOK' PROVE AllSound'
  <2> DEFINE t == sock'[k]
             m == Head(sock[k].inbox)
  <2>1. sock[k].conn = "open" /\ sock[k].inbox # <<>> /\ Arrived(k) = m /\ m.id \in Id
    <3>1. Arrived(k) \in Message
      BY <1>9, ArrivedType DEF Confirm, Arrives
    <3>. QED
      BY <1>9, <3>1 DEF Confirm, Arrives, Arrived, Message
  <2> DEFINE u == Taken(k)[k]
  <2>2. /\ u \in SocketState /\ u.conn = sock[k].conn /\ u.count = sock[k].count
        /\ u.requests = sock[k].requests /\ u.active = sock[k].active
        /\ u.inbox = Tail(sock[k].inbox) /\ u.calls = sock[k].calls
        /\ Taken(k) = [sock EXCEPT ![k] = u]
    BY <2>1, TakenFields
  <2>3. /\ sock' = [sock EXCEPT ![k] = t]
        /\ t = [u EXCEPT !.calls[m.id].mode = "stream"]
    BY <1>9, <2>1, <2>2 DEF Confirm, TypeOK
  <2>. HIDE DEF t, u, m
  <2>4. /\ t.conn = sock[k].conn /\ t.count = sock[k].count
        /\ t.requests = sock[k].requests /\ t.active = sock[k].active
        /\ t.inbox = Tail(sock[k].inbox)
        /\ t.calls = [sock[k].calls EXCEPT ![m.id].mode = "stream"]
    BY <2>2, <2>3 DEF SocketState
  <2>5. \A i \in Id : sock[k].calls[i] \in Call
    BY <1>0, SocketFields
  <2>6. /\ t.calls[m.id].mode = "stream"
        /\ \A i \in Id : /\ t.calls[i].sub = sock[k].calls[i].sub
                         /\ t.calls[i].mode \in {sock[k].calls[i].mode, "stream"}
    <3>1. sock[k].calls \in [Id -> Call]
      BY <1>0, SocketFields
    <3>. QED
      BY <2>1, <2>4, <2>5, <3>1 DEF Call
  <2>7. t \in SocketState
    BY <1>9 DEF TypeOK, t
  <2>8. Sound(t)
    BY <1>0, <2>1, <2>4, <2>6, <2>7, TakenSound DEF m
  <2>. QED
    BY <2>3, <2>8, OneSound
<1>10. ASSUME NEW k \in Socket, Receive(k) PROVE AllSound'
  <2>1. Sound(Taken(k)[k]) /\ sock[k].inbox # <<>>
    BY <1>8, <1>10 DEF Receive
  <2>. QED
    BY <1>10, <2>1, TakenFields, OneSound DEF Receive
<1>11. ASSUME NEW k \in Socket, Shelve(k) PROVE AllSound'
  <2>1. PICK new \in Fresh : sock' = [Taken(k) EXCEPT ![new] = Restarted(@)]
    BY <1>11 DEF Shelve
  <2>2. sock[k].conn = "open" /\ sock[k].inbox # <<>> /\ Arrived(k).kind = "full"
    BY <1>11 DEF Shelve, Arrives
  <2>3. new \in Socket /\ new # k
    BY <2>2 DEF Fresh
  <2>4. Sound(Taken(k)[k])
    BY <1>8, <2>2
  <2>5. Taken(k)[new] = sock[new] /\ \A n \in Socket \ {k} : Taken(k)[n] = sock[n]
    BY <2>2, <2>3, TakenFields
  <2>6. Sound(Restarted(sock[new]))
    BY <1>0, <2>3, RestartedSound
  <2>7. Taken(k) \in [Socket -> SocketState]
    BY <2>2, ArrivedType
  <2>. QED
    BY <1>0, <2>1, <2>3, <2>4, <2>5, <2>6, <2>7 DEF AllSound
<1>12. ASSUME NEW k \in Socket, Refused(k) PROVE AllSound'
  <2>1. Sound(Taken(k)[k]) /\ sock[k].inbox # <<>> /\ sock' = Taken(k)
    BY <1>8, <1>12 DEF Refused, Arrives
  <2>. QED
    BY <2>1, TakenFields, OneSound
<1>13. CASE Destroy
  <2>1. \A k \in Socket :
          /\ [sock[k] EXCEPT !.conn = "closed", !.closed = TRUE].conn = "closed"
          /\ [sock[k] EXCEPT !.conn = "closed", !.closed = TRUE].calls = sock[k].calls
    BY <1>0 DEF SocketState
  <2>2. \A k \in Socket : Sound([sock[k] EXCEPT !.conn = "closed", !.closed = TRUE])
    BY <1>0, <2>1 DEF Sound
  <2>. QED
    BY <1>0, <1>13, <2>2 DEF Destroy, AllSound
<1>14. CASE UNCHANGED vars
  BY <1>14 DEF vars, AllSound
<1>15. TypeOK'
  BY TypeStep
<1>. QED
  BY <1>1, <1>2, <1>3, <1>4, <1>5, <1>6, <1>7, <1>9, <1>10, <1>11, <1>12, <1>13,
     <1>14, <1>15 DEF Next, Macrotask, Arrival

-----------------------------------------------------------------------------
(* A new feed has nothing under way.                                         *)
LEMMA InitHolds == Init => HoldsSocket /\ AllSound
<1> SUFFICES ASSUME Init PROVE HoldsSocket /\ AllSound
  OBVIOUS
<1>1. NoSocket \in SocketState
  BY ConstantsAssumption DEF NoSocket, NoCall, SocketState, Id, Call
<1>2. /\ NoSocket.conn = "none" /\ NoSocket.requests = <<>> /\ NoSocket.inbox = <<>>
      /\ \A i \in Id : NoSocket.active[i] = None /\ NoSocket.calls[i] = NoCall
  BY DEF NoSocket
<1>3. NoCall.mode = "none"
  BY DEF NoCall
<1>4. Sound(NoSocket) /\ Sound(Restarted(NoSocket))
  <2>1. Sound(NoSocket)
    BY <1>2, <1>3 DEF Sound
  <2>. QED
    BY <1>1, <2>1, RestartedSound
<1>5. \A k \in Socket : sock[k] \in {NoSocket, Restarted(NoSocket)}
  BY DEF Init
<1>6. AllSound
  BY <1>4, <1>5 DEF AllSound
<1>7. \A k \in Socket, i \in Id : sock[k].calls[i] = NoCall
  BY <1>1, <1>2, <1>5, RestartedFields
<1>8. HoldsSocket
  BY <1>3, <1>7 DEF Init, HoldsSocket
<1>. QED
  BY <1>6, <1>8

(* All parts of the invariant hold.                                          *)
LEMMA FeedInvariance == Spec => [](TypeOK /\ HoldsSocket /\ AllSound)
<1>1. Init => TypeOK /\ HoldsSocket /\ AllSound
  BY InitTypes, InitHolds
<1>2. TypeOK /\ HoldsSocket /\ AllSound /\ [Next]_vars
        => TypeOK' /\ HoldsSocket' /\ AllSound'
  BY TypeStep, HoldsStep, SoundStep
<1>. QED
  BY <1>1, <1>2, PTL DEF Spec

(* Every variable keeps its type; calls past their first await hold a socket. *)
THEOREM TypeCorrect == Spec => []TypeOK
  BY FeedInvariance, PTL

(* However often sockets restart and number their messages anew, no message
   meets the call struct of another (tm-json-rpc-ws-const.ts:123).           *)
THEOREM NoCrossedWires == Spec => []RightReceiver
<1>1. TypeOK /\ AllSound => RightReceiver
  <2> SUFFICES ASSUME TypeOK, AllSound, NEW k \in Socket, sock[k].conn = "open",
                      NEW n \in 1..Len(sock[k].inbox)
               PROVE  LET m == sock[k].inbox[n]
                          call == sock[k].calls[m.id]
                      IN  /\ call.sub = m.sub
                          /\ m.kind = "event" =>
                               \/ call.mode = "stream"
                               \/ \E e \in 1..(n - 1) :
                                    /\ sock[k].inbox[e].id = m.id
                                    /\ sock[k].inbox[e].kind = "result"
    BY DEF RightReceiver
  <2>. QED
    BY DEF AllSound, Sound, Matched, Confirmed
<1>. QED
  BY <1>1, FeedInvariance, PTL

-----------------------------------------------------------------------------
(* The members of a sequence, seen by their places.                          *)
LEMMA InRange ==
  ASSUME NEW S, NEW s \in Seq(S)
  PROVE  /\ \A x : x \in Range(s) <=> \E k \in 1..Len(s) : s[k] = x
         /\ \A k \in 1..Len(s) : s[k] \in Range(s) /\ s[k] \in S
         /\ Range(s) \subseteq S
  BY DEF Range

(* Nothing is on the empty list, and one feed on a list of one.              *)
LEMMA RangeEmpty == Range(<<>>) = {}
  BY DEF Range

LEMMA RangeOne == \A x : Range(<<x>>) = {x}
  BY DEF Range

(* A feed goes to the end of a list.                                         *)
LEMMA RangeAppend ==
  ASSUME NEW S, NEW s \in Seq(S), NEW x \in S
  PROVE  /\ Append(s, x) \in Seq(S)
         /\ Range(Append(s, x)) = Range(s) \union {x}
         /\ Len(Append(s, x)) = Len(s) + 1
         /\ Append(s, x)[Len(s) + 1] = x
         /\ \A k \in 1..Len(s) : Append(s, x)[k] = s[k]
<1>1. /\ Append(s, x) \in Seq(S)
      /\ Len(Append(s, x)) = Len(s) + 1
      /\ Append(s, x)[Len(s) + 1] = x
      /\ \A k \in 1..Len(s) : Append(s, x)[k] = s[k]
  OBVIOUS
<1>2. \A y : (\E k \in 1..(Len(s) + 1) : Append(s, x)[k] = y)
               <=> (\E k \in 1..Len(s) : s[k] = y) \/ y = x
  BY <1>1
<1>3. \A y : y \in Range(Append(s, x)) <=> y \in Range(s) \union {x}
  <2>1. \A y : y \in Range(Append(s, x))
                <=> \E k \in 1..Len(Append(s, x)) : Append(s, x)[k] = y
    BY <1>1, InRange
  <2>2. \A y : y \in Range(s) <=> \E k \in 1..Len(s) : s[k] = y
    BY InRange
  <2>. QED
    BY <1>1, <1>2, <2>1, <2>2, Zenon
<1>. QED
  BY <1>1, <1>3

(* Two lists make one.                                                       *)
LEMMA Concatenation ==
  ASSUME NEW S, NEW a \in Seq(S), NEW b \in Seq(S)
  PROVE  a \o b \in Seq(S) /\ Len(a \o b) = Len(a) + Len(b)
  OBVIOUS

(* RemoveAt() moves the places behind the one removed up by one.             *)
LEMMA Removing ==
  ASSUME NEW S, NEW s \in Seq(S), NEW i \in 1..Len(s)
  PROVE  /\ RemoveAt(s, i) \in Seq(S)
         /\ Len(RemoveAt(s, i)) = Len(s) - 1
         /\ \A k \in 1..(Len(s) - 1) :
              RemoveAt(s, i)[k] = IF k < i THEN s[k] ELSE s[k + 1]
<1>. DEFINE a == SubSeq(s, 1, i - 1)
            b == SubSeq(s, i + 1, Len(s))
<1>1. a \in Seq(S) /\ Len(a) = i - 1 /\ \A k \in 1..(i - 1) : a[k] = s[k]
  OBVIOUS
<1>2. b \in Seq(S) /\ Len(b) = Len(s) - i /\ \A k \in 1..(Len(s) - i) : b[k] = s[k + i]
  OBVIOUS
<1>. HIDE DEF a, b
<1>3. /\ a \o b \in Seq(S) /\ Len(a \o b) = Len(s) - 1
      /\ \A k \in 1..(Len(s) - 1) : (a \o b)[k] = IF k < i THEN s[k] ELSE s[k + 1]
  <2>1. a \o b \in Seq(S) /\ Len(a \o b) = Len(s) - 1
    <3>1. a \o b \in Seq(S) /\ Len(a \o b) = Len(a) + Len(b)
      BY <1>1, <1>2, Concatenation
    <3>2. Len(s) \in Nat
      OBVIOUS
    <3>. QED
      BY <1>1, <1>2, <3>1, <3>2
  <2>2. ASSUME NEW k \in 1..(Len(s) - 1)
        PROVE  (a \o b)[k] = IF k < i THEN s[k] ELSE s[k + 1]
    <3>1. CASE k < i
      BY <1>1, <1>2, <3>1
    <3>2. CASE ~(k < i)
      <4>1. (a \o b)[k] = b[k - (i - 1)]
        BY <1>1, <1>2, <3>2
      <4>2. k - (i - 1) \in 1..(Len(s) - i)
        BY <3>2
      <4>3. k - (i - 1) + i = k + 1
        OBVIOUS
      <4>. QED
        BY <1>2, <3>2, <4>1, <4>2, <4>3
    <3>. QED
      BY <3>1, <3>2
  <2>. QED
    BY <2>1, <2>2
<1>. QED
  BY <1>3 DEF RemoveAt, a, b

(* A list without repetitions.                                               *)
Distinct(s) == \A k, l \in 1..Len(s) : s[k] = s[l] => k = l

(* Without repetitions, RemoveAt() takes that one member off.                *)
LEMMA RemovingOne ==
  ASSUME NEW S, NEW s \in Seq(S), NEW i \in 1..Len(s), Distinct(s)
  PROVE  /\ Distinct(RemoveAt(s, i))
         /\ Range(RemoveAt(s, i)) = Range(s) \ {s[i]}
<1>. DEFINE r == RemoveAt(s, i)
<1>1. /\ r \in Seq(S) /\ Len(r) = Len(s) - 1
      /\ \A k \in 1..(Len(s) - 1) : r[k] = IF k < i THEN s[k] ELSE s[k + 1]
  BY Removing
<1>. HIDE DEF r
<1>2. Distinct(r)
  BY <1>1 DEF Distinct
<1>3. \A x : (\E k \in 1..Len(r) : r[k] = x)
               <=> (\E k \in 1..Len(s) : s[k] = x) /\ x # s[i]
  <2>1. ASSUME NEW k \in 1..Len(s), s[k] # s[i]
        PROVE  \E l \in 1..Len(r) : r[l] = s[k]
    <3>1. CASE k < i
      BY <1>1, <3>1
    <3>2. CASE k > i
      <4>1. k - 1 \in 1..Len(r) /\ r[k - 1] = s[k]
        BY <1>1, <3>2
      <4>. QED
        BY <4>1
    <3>. QED
      BY <2>1, <3>1, <3>2
  <2>2. ASSUME NEW k \in 1..Len(r) PROVE r[k] # s[i] /\ \E l \in 1..Len(s) : s[l] = r[k]
    <3>1. CASE k < i
      BY <1>1, <3>1 DEF Distinct
    <3>2. CASE ~(k < i)
      BY <1>1, <3>2 DEF Distinct
    <3>. QED
      BY <3>1, <3>2
  <2>. QED
    BY <2>1, <2>2
<1>4. \A x : x \in Range(r) <=> x \in Range(s) \ {s[i]}
  <2>1. \A x : x \in Range(r) <=> \E k \in 1..Len(r) : r[k] = x
    BY <1>1, InRange
  <2>2. \A x : x \in Range(s) <=> \E k \in 1..Len(s) : s[k] = x
    BY InRange
  <2>. QED
    BY <1>3, <2>1, <2>2, Zenon
<1>. QED
  BY <1>1, <1>2, <1>4 DEF r

Alive(f) == feeds[f].life \in {"up", "silent", "lost", "healed"}
CreateMaking == {f \in Making : feeds[f].by = "createAll"}
Replacing == {w \in Waker : wakes[w].pc = "recreating"}

-----------------------------------------------------------------------------
(* A new feed is one that nobody held.                                       *)
LEMMA NewFeed ==
  ASSUME NEW new \in Unheld
  PROVE  /\ new \in FeedId /\ new \notin Held
         /\ feeds[new].life \in {"none", "closed"}
  BY DEF Unheld, Unused

(* What destroy() does to each feed, and what an opened feed is.             *)
LEMMA Destroying ==
  ASSUME feeds \in [FeedId -> Feed], NEW fs
  PROVE  /\ Destroyed(fs) \in [FeedId -> Feed]
         /\ \A f \in FeedId :
               /\ Destroyed(fs)[f].chain = feeds[f].chain
               /\ Destroyed(fs)[f].by = feeds[f].by
               /\ Destroyed(fs)[f].call = feeds[f].call
               /\ Destroyed(fs)[f].gone <=> f \in fs \/ feeds[f].gone
               /\ Destroyed(fs)[f].life =
                     IF f \in fs /\ feeds[f].life \in {"up", "silent"}
                     THEN "closed" ELSE feeds[f].life
<1>1. ASSUME NEW f \in FeedId
      PROVE  [feeds[f] EXCEPT !.gone = TRUE,
                 !.life = IF @ \in {"up", "silent"} THEN "closed" ELSE @] \in Feed
  BY <1>1 DEF Feed
<1>2. Destroyed(fs) \in [FeedId -> Feed]
  BY <1>1 DEF Destroyed
<1>3. ASSUME NEW f \in FeedId
      PROVE  /\ Destroyed(fs)[f].chain = feeds[f].chain
             /\ Destroyed(fs)[f].by = feeds[f].by
             /\ Destroyed(fs)[f].call = feeds[f].call
             /\ Destroyed(fs)[f].gone <=> f \in fs \/ feeds[f].gone
             /\ Destroyed(fs)[f].life =
                   IF f \in fs /\ feeds[f].life \in {"up", "silent"}
                   THEN "closed" ELSE feeds[f].life
  <2>1. feeds[f] \in Feed
    BY <1>3
  <2>. QED
    BY <1>3, <2>1 DEF Destroyed, Feed
<1>. QED
  BY <1>2, <1>3

LEMMA Openings ==
  ASSUME NEW c \in Chain, NEW by \in {"createAll", "check", "wake"}
  PROVE  /\ Opening(c, by) \in Feed
         /\ Opening(c, by).chain = c /\ Opening(c, by).by = by
         /\ Opening(c, by).call = "opening" /\ Opening(c, by).life = "none"
         /\ Opening(c, by).gone = FALSE
  BY DEF Opening, Feed

(* The feeds after each kind of step, field by field: a feed is made, and others
   may be destroyed; the call of one goes on; or only lives end.             *)
Makes(new, gone, c, by) ==
    /\ new \in Unheld
    /\ feeds' \in [FeedId -> Feed]
    /\ \A f \in FeedId \ {new} :
          /\ feeds'[f].chain = feeds[f].chain /\ feeds'[f].by = feeds[f].by
          /\ feeds'[f].call = feeds[f].call
          /\ feeds'[f].gone <=> f \in gone \/ feeds[f].gone
          /\ feeds'[f].life = IF f \in gone /\ feeds[f].life \in {"up", "silent"}
                              THEN "closed" ELSE feeds[f].life
    /\ feeds'[new].chain = c /\ feeds'[new].by = by
    /\ feeds'[new].call = "opening" /\ feeds'[new].life = "none"
    /\ ~ feeds'[new].gone
Goes(f, call, life) ==
    /\ feeds' \in [FeedId -> Feed]
    /\ \A g \in FeedId \ {f} : feeds'[g] = feeds[g]
    /\ feeds'[f].chain = feeds[f].chain /\ feeds'[f].by = feeds[f].by
    /\ feeds'[f].gone = feeds[f].gone
    /\ feeds'[f].call = call /\ feeds'[f].life = life
Lives ==
    /\ feeds' \in [FeedId -> Feed]
    /\ \A f \in FeedId :
          /\ feeds'[f].chain = feeds[f].chain /\ feeds'[f].by = feeds[f].by
          /\ feeds'[f].call = feeds[f].call
          /\ feeds[f].gone => feeds'[f].gone
          /\ Alive(f)' => Alive(f)
          /\ Deaf(f) => Deaf(f)'
          /\ feeds[f].life = "none" => feeds'[f].life = "none"

LEMMA MakingOne ==
  ASSUME feeds \in [FeedId -> Feed], NEW new \in Unheld, NEW gone, NEW c \in Chain,
         NEW by \in {"createAll", "check", "wake"},
         feeds' = [Destroyed(gone) EXCEPT ![new] = Opening(c, by)]
  PROVE  Makes(new, gone, c, by)
<1>1. new \in FeedId
  BY NewFeed
<1>2. feeds' \in [FeedId -> Feed]
  BY <1>1, Destroying, Openings
<1>3. feeds'[new] = Opening(c, by) /\ \A f \in FeedId \ {new} : feeds'[f] = Destroyed(gone)[f]
  BY <1>1, Destroying
<1>4. \A f \in FeedId \ {new} :
          /\ feeds'[f].chain = feeds[f].chain /\ feeds'[f].by = feeds[f].by
          /\ feeds'[f].call = feeds[f].call
          /\ feeds'[f].gone <=> f \in gone \/ feeds[f].gone
          /\ feeds'[f].life = IF f \in gone /\ feeds[f].life \in {"up", "silent"}
                              THEN "closed" ELSE feeds[f].life
  <2>1. \A f \in FeedId :
               /\ Destroyed(gone)[f].chain = feeds[f].chain
               /\ Destroyed(gone)[f].by = feeds[f].by
               /\ Destroyed(gone)[f].call = feeds[f].call
               /\ Destroyed(gone)[f].gone <=> f \in gone \/ feeds[f].gone
               /\ Destroyed(gone)[f].life =
                     IF f \in gone /\ feeds[f].life \in {"up", "silent"}
                     THEN "closed" ELSE feeds[f].life
    BY Destroying
  <2>. QED
    BY <1>3, <2>1
<1>5. /\ feeds'[new].chain = c /\ feeds'[new].by = by
      /\ feeds'[new].call = "opening" /\ feeds'[new].life = "none"
      /\ ~ feeds'[new].gone
  BY <1>3 DEF Opening
<1>. QED
  BY <1>2, <1>4, <1>5, Zenon DEF Makes

LEMMA Going ==
  ASSUME feeds \in [FeedId -> Feed], NEW f \in FeedId
  PROVE  /\ feeds' = Returned(f) => Goes(f, "returned", feeds[f].life)
         /\ feeds' = Unopened(f) => Goes(f, "rejected", "closed")
         /\ feeds' = [feeds EXCEPT ![f].call = "joining", ![f].life = "up"]
              => Goes(f, "joining", "up")
  BY DEF Returned, Unopened, Goes, Feed

LEMMA Living ==
  ASSUME feeds \in [FeedId -> Feed]
  PROVE  /\ \A fs : feeds' = Destroyed(fs) => Lives
         /\ \A fs : \A life \in {"silent", "lost", "up", "healed", "closed"} :
              /\ LifeOf(fs, life)
              /\ \A f \in fs \cap FeedId :
                    /\ feeds[f].life # "none"
                    /\ life \in {"silent", "up"} => feeds[f].life \in {"up", "silent"}
                    /\ life \in {"lost", "healed"} => Alive(f)
              => Lives
         /\ UNCHANGED feeds => Lives
<1>1. ASSUME NEW fs, feeds' = Destroyed(fs) PROVE Lives
  BY <1>1, Destroying DEF Lives, Alive, Deaf
<1>2. ASSUME NEW fs, NEW life \in {"silent", "lost", "up", "healed", "closed"}, LifeOf(fs, life),
             \A f \in fs \cap FeedId :
                    /\ feeds[f].life # "none"
                    /\ life \in {"silent", "up"} => feeds[f].life \in {"up", "silent"}
                    /\ life \in {"lost", "healed"} => Alive(f)
      PROVE  Lives
  <2>1. ASSUME NEW f \in FeedId PROVE [feeds[f] EXCEPT !.life = life] \in Feed
    BY DEF Feed
  <2>2. feeds' \in [FeedId -> Feed]
    BY <1>2, <2>1 DEF LifeOf
  <2>3. ASSUME NEW f \in FeedId
        PROVE  /\ feeds'[f].chain = feeds[f].chain /\ feeds'[f].by = feeds[f].by
               /\ feeds'[f].call = feeds[f].call /\ feeds'[f].gone = feeds[f].gone
               /\ feeds'[f].life = IF f \in fs THEN life ELSE feeds[f].life
    BY <1>2 DEF LifeOf, Feed
  <2>. QED
    BY <1>2, <2>2, <2>3 DEF Lives, Alive, Deaf
<1>3. UNCHANGED feeds => Lives
  BY DEF Lives, Alive, Deaf
<1>. QED
  BY <1>1, <1>2, <1>3

-----------------------------------------------------------------------------
(* What holds of the feeds, of the list, and of whoever has feeds in hand, at
   any time.                                                                 *)
FeedInv ==
    \A f \in FeedId :
        /\ feeds[f].call # "none" => feeds[f].chain \in Chain
        /\ feeds[f].call = "none" => feeds[f].life = "none"
        /\ Alive(f) => feeds[f].call \in {"joining", "returned"}
ListInv ==
    /\ \A f \in Range(list) : /\ feeds[f].call = "returned"
                              /\ feeds[f].by \in {"createAll", "wake"}
                              /\ f \notin Range(check.made)
    /\ Distinct(list)
MadeInv ==
    /\ check.pc # "create" => check.made = <<>>
    /\ Len(check.made) <= Chains
    /\ \A k \in 1..Len(check.made) :
          /\ feeds[check.made[k]].chain = k
          /\ feeds[check.made[k]].by = "createAll"
          /\ feeds[check.made[k]].call # "none"
KnownInv ==
    \A c \in Chain : known[c] # 0 => /\ feeds[known[c]].call = "returned"
                                     /\ feeds[known[c]].by = "createAll"
                                     /\ feeds[known[c]].chain = c
CheckInv ==
    /\ check.pc \in {"waking", "recreating"} =>
          check.feed \in FeedId /\ feeds[check.feed].call # "none"
    /\ check.pc = "recreating" => /\ check.new \in Making
                                  /\ feeds[check.new].by = "check"
WakeInv ==
    /\ \A w \in Waking :
          wakes[w].feed \in FeedId /\ feeds[wakes[w].feed].call # "none"
    /\ \A w \in Replacing : /\ wakes[w].new \in Making
                            /\ feeds[wakes[w].new].by = "wake"
                            /\ feeds[wakes[w].new].chain = Host(w)
    /\ \A w, v \in Waker :
          /\ wakes[w].pc \in {"waking", "recreating"}
          /\ wakes[v].pc \in {"waking", "recreating"}
          /\ w # v
          => Host(w) # Host(v)
Struct == FeedsTypeOK /\ FeedInv /\ ListInv /\ MadeInv /\ KnownInv /\ CheckInv
          /\ WakeInv

(* The feed that a check deals with next.                                    *)
LEMMA CheckNext ==
  ASSUME list \in Seq(FeedId), NEW i \in Nat \ {0}, NEW x \in CheckAt(i)
  PROVE  /\ x \in Check /\ x.made = <<>> /\ x.pc \in {"waking", "none", "follow"}
         /\ x.pc = "waking" => x.feed \in FeedId /\ x.feed \in Range(list)
<1>1. NoCheck \in Check
  BY DEF NoCheck, Check
<1>2. CASE i <= Len(list)
  <2>1. i \in 1..Len(list) /\ list[i] \in Range(list) /\ list[i] \in FeedId
    BY <1>2, InRange
  <2>2. x = [NoCheck EXCEPT !.pc = "waking", !.i = i, !.feed = list[i]]
    BY <1>2 DEF CheckAt
  <2>. QED
    BY <1>1, <2>1, <2>2 DEF NoCheck, Check
<1>3. CASE ~(i <= Len(list))
  <2>1. x = NoCheck \/ x = [NoCheck EXCEPT !.pc = "follow"]
    BY <1>3 DEF CheckAt
  <2>2. [NoCheck EXCEPT !.pc = "follow"] \in Check
    BY <1>1 DEF Check
  <2>. QED
    BY <1>1, <2>1, <2>2 DEF NoCheck
<1>. QED
  BY <1>2, <1>3

(* The feed that a request to wake deals with next.                          *)
LEMMA WakeNext ==
  ASSUME NEW l \in Seq(FeedId), NEW i \in Nat \ {0}, NEW w \in Waker,
         wakes \in [Waker -> Wake]
  PROVE  /\ WakeAt(w, i, l) \in Wake
         /\ WakeAt(w, i, l).pairs = wakes[w].pairs
         /\ i > Len(l) => WakeAt(w, i, l).pc = "done"
         /\ i <= Len(l) => /\ WakeAt(w, i, l).pc \in {"locking", "waking"}
                           /\ WakeAt(w, i, l).i = i
                           /\ WakeAt(w, i, l).feed = l[i]
                           /\ WakeAt(w, i, l).new = 0
                           /\ l[i] \in FeedId /\ l[i] \in Range(l)
         /\ WakeAt(w, i, l).pc \in {"done", "locking", "waking"}
         /\ WakeAt(w, i, l).pc # "done" =>
               WakeAt(w, i, l).feed \in FeedId /\ WakeAt(w, i, l).feed \in Range(l)
         /\ WakeAt(w, i, l).pc = "waking" =>
               \A v \in Waking \ {w} : Host(v) # feeds[WakeAt(w, i, l).feed].chain
<1>1. wakes[w] \in Wake /\ NoWake \in Wake
  BY DEF NoWake, Wake
<1>2. CASE i <= Len(l)
  <2>1. i \in 1..Len(l) /\ l[i] \in Range(l) /\ l[i] \in FeedId
    BY <1>2, InRange
  <2>. DEFINE locked == \E v \in Waking \ {w} : Host(v) = feeds[l[i]].chain
              placed(pc) == [wakes[w] EXCEPT !.pc = pc, !.i = i, !.feed = l[i],
                                         !.new = 0]
  <2>2. \A pc \in {"locking", "waking"} :
           /\ placed(pc) \in Wake /\ placed(pc).pairs = wakes[w].pairs
           /\ placed(pc).pc = pc /\ placed(pc).i = i /\ placed(pc).feed = l[i]
           /\ placed(pc).new = 0
    BY <1>1, <2>1 DEF Wake
  <2>3. ~(i > Len(l)) /\ (i > Len(l) <=> ~(i <= Len(l)))
    BY <1>2
  <2>4. CASE locked
    <3>1. WakeAt(w, i, l) = placed("locking")
      BY <2>3, <2>4 DEF WakeAt
    <3>. HIDE DEF placed
    <3>. QED
      BY <1>2, <2>1, <2>2, <2>3, <3>1
  <2>5. CASE ~locked
    <3>1. WakeAt(w, i, l) = placed("waking")
      BY <2>3, <2>5 DEF WakeAt
    <3>. HIDE DEF placed
    <3>. QED
      BY <1>2, <2>1, <2>2, <2>3, <2>5, <3>1
  <2>. QED
    BY <2>4, <2>5
<1>3. CASE ~(i <= Len(l))
  <2>1. WakeAt(w, i, l) = [NoWake EXCEPT !.pc = "done", !.pairs = wakes[w].pairs]
    BY <1>3 DEF WakeAt
  <2>. QED
    BY <1>1, <1>3, <2>1 DEF NoWake, Wake
<1>. QED
  BY <1>2, <1>3

LEMMA FeedBounds ==
  /\ Chains \in Nat \ {0} /\ MaxFeeds \in Nat \ {0}
  /\ MaxChecks \in Nat \ {0} /\ MaxTroubles \in Nat \ {0}
  /\ 0 \notin FeedId /\ 0 \notin Chain
  BY FeedsAssumption DEF FeedId, Chain

(* Steps of the environment: lives end or resume, and nobody's hands move.    *)
LEMMA LivesKept ==
  ASSUME Struct, Lives, UNCHANGED <<list, known, check, wakes, raced>>,
         FeedsTypeOK'
  PROVE  Struct'
<1>1. FeedInv'
  BY DEF Struct, FeedsTypeOK, FeedInv, Lives, Alive
<1>2. ListInv'
  BY InRange DEF Struct, FeedsTypeOK, ListInv, Lives
<1>3. MadeInv'
  <2>1. check.made \in Seq(FeedId) /\ check' = check
    BY DEF Struct, FeedsTypeOK, Check
  <2>2. \A k \in 1..Len(check.made) : check.made[k] \in FeedId
    BY <2>1, InRange
  <2>. QED
    BY <2>1, <2>2 DEF Struct, MadeInv, Lives
<1>4. KnownInv'
  BY DEF Struct, FeedsTypeOK, KnownInv, Lives
<1>5. CheckInv'
  BY DEF Struct, FeedsTypeOK, CheckInv, Lives, Making
<1>6. WakeInv'
  <2>1. /\ wakes' = wakes /\ Waking' = Waking /\ Replacing' = Replacing
        /\ Making' = Making
    BY DEF Waking, Replacing, Making, Lives
  <2>2. \A w \in Waking : Host(w)' = Host(w)
    BY <2>1 DEF Struct, WakeInv, Host, Lives
  <2>3. \A w \in Waker : wakes[w].pc \in {"waking", "recreating"} => w \in Waking
    BY DEF Waking
  <2>4. Replacing \subseteq Waking /\ Making \subseteq FeedId
    BY DEF Waking, Replacing, Making
  <2>. QED
    BY <2>1, <2>2, <2>3, <2>4 DEF Struct, WakeInv, Lives
<1>. QED
  BY <1>1, <1>2, <1>3, <1>4, <1>5, <1>6 DEF Struct

(* The check turns to a feed of the list, ends, or begins to make feeds.      *)
LEMMA CheckTurns ==
  ASSUME Struct, UNCHANGED <<feeds, list, known, wakes>>, FeedsTypeOK',
         check'.made = <<>>, check'.pc # "recreating",
         check'.pc = "waking" => check'.feed \in Range(list)
  PROVE  Struct'
<1>1. FeedInv' /\ KnownInv' /\ WakeInv'
  BY DEF Struct, FeedInv, KnownInv, WakeInv, Alive, Waking, Replacing, Host, Making
<1>2. ListInv'
  BY RangeEmpty DEF Struct, ListInv
<1>3. MadeInv'
  BY FeedBounds DEF MadeInv
<1>4. CheckInv'
  BY InRange DEF Struct, FeedsTypeOK, ListInv, CheckInv
<1>. QED
  BY <1>1, <1>2, <1>3, <1>4 DEF Struct

(* Nobody has a new feed in hand yet.                                        *)
LEMMA Unknown ==
  ASSUME NEW new \in Unheld
  PROVE  /\ new \notin Range(list) /\ new \notin Range(check.made)
         /\ new # check.feed /\ new # check.new /\ new \notin Making
         /\ \A c \in Chain : new # known[c]
         /\ \A w \in Waker : new # wakes[w].feed /\ new # wakes[w].new
         /\ \A w \in Waker : \A p \in wakes[w].pairs : new # p[1] /\ new # p[2]
<1>. DEFINE hands == UNION {{wakes[w].feed, wakes[w].new} : w \in Waker}
            paired == UNION {{p[1], p[2]} : p \in Watched}
<1>1. /\ new \notin Range(list) /\ new \notin Range(check.made)
      /\ new \notin {check.feed, check.new} /\ new \notin Making
      /\ new \notin {known[c] : c \in Chain} /\ new \notin hands
      /\ new \notin paired
  BY NewFeed, Zenon DEF Held
<1>2. ASSUME NEW w \in Waker PROVE new # wakes[w].feed /\ new # wakes[w].new
  <2>1. {wakes[w].feed, wakes[w].new} \subseteq hands
    OBVIOUS
  <2>. QED
    BY <1>1, <2>1
<1>3. ASSUME NEW w \in Waker, NEW p \in wakes[w].pairs
      PROVE  new # p[1] /\ new # p[2]
  <2>1. p \in Watched
    BY DEF Watched
  <2>2. {p[1], p[2]} \subseteq paired
    BY <2>1
  <2>. QED
    BY <1>1, <2>2
<1>4. \A c \in Chain : new # known[c]
  BY <1>1
<1>. QED
  BY <1>1, <1>2, <1>3, <1>4

(* The check makes a feed again.                                             *)
LEMMA CheckMakes ==
  ASSUME Struct, Silent, FeedsTypeOK',
         NEW new, NEW gone, NEW c, Makes(new, gone, c, "check"), c \in Chain,
         check' = [check EXCEPT !.pc = "recreating", !.new = new]
  PROVE  Struct'
<1>1. new \in FeedId /\ new \notin Held /\ feeds[new].life \in {"none", "closed"}
  BY NewFeed DEF Makes
<1>2. /\ new \notin Range(list) /\ new # check.feed
      /\ \A d \in Chain : new # known[d]
      /\ \A w \in Waker : new # wakes[w].feed /\ new # wakes[w].new
  BY Unknown DEF Makes
<1>3. UNCHANGED <<list, known, wakes>> /\ check.pc = "waking" /\ check.made = <<>>
      /\ check'.pc = "recreating" /\ check'.new = new /\ check'.feed = check.feed
      /\ check'.made = <<>>
  BY DEF Silent, Struct, MadeInv, FeedsTypeOK, Check
<1>4. FeedInv'
  BY <1>1 DEF Struct, FeedsTypeOK, FeedInv, Makes, Alive
<1>5. ListInv'
  BY <1>1, <1>2, <1>3, InRange, RangeEmpty DEF Struct, FeedsTypeOK, ListInv, Makes
<1>6. MadeInv'
  BY <1>3, FeedBounds DEF MadeInv
<1>7. KnownInv'
  BY <1>1, <1>2, <1>3 DEF Struct, FeedsTypeOK, KnownInv, Makes
<1>8. CheckInv'
  BY <1>1, <1>2, <1>3 DEF Struct, FeedsTypeOK, CheckInv, Makes, Making
<1>9. WakeInv'
  BY <1>1, <1>2, <1>3 DEF Struct, FeedsTypeOK, WakeInv, Makes, Making, Waking,
                          Replacing, Host
<1>. QED
  BY <1>4, <1>5, <1>6, <1>7, <1>8, <1>9 DEF Struct

(* createAll() begins to make the feed of the next chain.                    *)
LEMMA CreateMakes ==
  ASSUME Struct, FeedsTypeOK', UNCHANGED <<list, known, wakes>>, Serving,
         NEW new, Makes(new, {known[NextChain]}, NextChain, "createAll"),
         check' = [check EXCEPT !.made = Append(@, new)]
  PROVE  Struct'
<1>1. /\ new \in FeedId /\ feeds[new].life \in {"none", "closed"}
      /\ new \notin Range(list) /\ new \notin Range(check.made)
      /\ \A c \in Chain : new # known[c]
      /\ \A w \in Waker : new # wakes[w].feed /\ new # wakes[w].new
  BY NewFeed, Unknown DEF Makes
<1>2. check.made \in Seq(FeedId) /\ check.pc = "create"
  BY DEF Struct, FeedsTypeOK, Check, Serving
<1>3. check'.pc = "create" /\ check'.made = Append(check.made, new)
  BY <1>2 DEF Struct, FeedsTypeOK, Check
<1>4. /\ Range(check'.made) = Range(check.made) \union {new}
      /\ Len(check'.made) = Len(check.made) + 1
      /\ check'.made[Len(check.made) + 1] = new
      /\ \A k \in 1..Len(check.made) : check'.made[k] = check.made[k]
      /\ \A k \in 1..Len(check.made) : /\ check.made[k] \in FeedId
                                       /\ check.made[k] \in Range(check.made)
  BY <1>1, <1>2, <1>3, RangeAppend, InRange
<1>5. NextChain = Len(check.made) + 1 /\ NextChain \in 1..Chains
  BY DEF Serving, NextChain, Chain
<1>6. FeedInv'
  BY <1>1, <1>5 DEF Struct, FeedsTypeOK, FeedInv, Makes, Alive, Chain
<1>7. ListInv'
  BY <1>1, <1>4, InRange DEF Struct, FeedsTypeOK, ListInv, Makes
<1>8. MadeInv'
  <2>1. Len(check.made) \in Nat
    BY <1>2
  <2>2. ASSUME NEW k \in 1..(Len(check.made) + 1)
        PROVE  /\ feeds'[check'.made[k]].chain = k
               /\ feeds'[check'.made[k]].by = "createAll"
               /\ feeds'[check'.made[k]].call # "none"
    <3>1. CASE k = Len(check.made) + 1
      BY <1>4, <1>5, <3>1 DEF Makes
    <3>2. CASE k # Len(check.made) + 1
      <4>1. k \in 1..Len(check.made)
        BY <2>1, <3>2
      <4>2. check.made[k] \in FeedId \ {new} /\ check'.made[k] = check.made[k]
        BY <1>1, <1>4, <4>1
      <4>. QED
        BY <4>1, <4>2 DEF Makes, Struct, MadeInv
    <3>. QED
      BY <3>1, <3>2
  <2>. QED
    BY <1>3, <1>4, <1>5, <2>1, <2>2, FeedBounds DEF MadeInv
<1>9. KnownInv'
  BY <1>1 DEF Struct, FeedsTypeOK, KnownInv, Makes
<1>10. CheckInv'
  BY <1>3 DEF CheckInv
<1>11. WakeInv'
  <2>1. /\ Waking' = Waking /\ Replacing' = Replacing
        /\ Replacing \subseteq Waking
    BY DEF Waking, Replacing
  <2>2. \A w \in Waking : Host(w)' = Host(w) /\ wakes[w].feed \in FeedId \ {new}
    BY <1>1 DEF Struct, WakeInv, Host, Makes, Waking
  <2>3. \A w \in Waker : wakes[w].pc \in {"waking", "recreating"} => w \in Waking
    BY DEF Waking
  <2>4. \A w \in Replacing : wakes[w].new \in Making' /\ wakes[w].new # new
    BY <1>1 DEF Struct, WakeInv, Makes, Making, Replacing
  <2>5. Making \subseteq FeedId
    BY DEF Making
  <2>. QED
    BY <2>1, <2>2, <2>3, <2>4, <2>5 DEF Struct, WakeInv, Makes
<1>. QED
  BY <1>6, <1>7, <1>8, <1>9, <1>10, <1>11 DEF Struct

(* A request to wake takes a feed off the list and makes it again.           *)
LEMMA Taking ==
  ASSUME list \in Seq(FeedId), Distinct(list), NEW f
  PROVE  /\ Without(f) \in Seq(FeedId) /\ Distinct(Without(f))
         /\ Range(Without(f)) = Range(list) \ {f}
<1>1. CASE Places(f) = {}
  BY <1>1, InRange DEF Without, Places
<1>2. CASE Places(f) # {}
  <2>. DEFINE k == CHOOSE n \in Places(f) : TRUE
  <2>1. k \in Places(f)
    BY <1>2
  <2>. HIDE DEF k
  <2>2. k \in 1..Len(list) /\ list[k] = f
    BY <2>1 DEF Places
  <2>3. Without(f) = RemoveAt(list, k)
    BY <1>2 DEF Without, k
  <2>. QED
    BY <2>2, <2>3, Removing, RemovingOne
<1>. QED
  BY <1>1, <1>2

LEMMA WakeMakes ==
  ASSUME Struct, FeedsTypeOK', UNCHANGED <<known, check>>, NEW w \in Waker,
         NEW new, Makes(new, {wakes[w].feed}, Host(w), "wake"),
         wakes[w].pc = "waking",
         list' = Without(wakes[w].feed),
         wakes' = [wakes EXCEPT ![w] = [wakes[w] EXCEPT !.pc = "recreating",
                                                        !.new = new]]
  PROVE  Struct'
<1>1. /\ new \in FeedId /\ feeds[new].life \in {"none", "closed"}
      /\ new \notin Range(list) /\ new \notin Range(check.made)
      /\ new # check.feed /\ new # check.new
      /\ \A c \in Chain : new # known[c]
      /\ \A v \in Waker : new # wakes[v].feed /\ new # wakes[v].new
  BY NewFeed, Unknown DEF Makes
<1>2. /\ \A v \in Waker \ {w} : wakes'[v] = wakes[v]
      /\ wakes'[w].pc = "recreating" /\ wakes'[w].new = new
      /\ wakes'[w].feed = wakes[w].feed
  BY DEF Struct, FeedsTypeOK, Wake
<1>3. /\ list' \in Seq(FeedId) /\ Distinct(list')
      /\ Range(list') \subseteq Range(list)
  BY Taking DEF Struct, FeedsTypeOK, ListInv
<1>4. /\ check.made \in Seq(FeedId)
      /\ \A k \in 1..Len(check.made) : check.made[k] \in FeedId \ {new}
  BY <1>1, InRange DEF Struct, FeedsTypeOK, Check
<1>5. Host(w) \in Chain /\ wakes[w].feed \in FeedId
  BY DEF Struct, WakeInv, FeedInv, Waking, Host
<1>6. FeedInv'
  BY <1>1, <1>5 DEF Struct, FeedsTypeOK, FeedInv, Makes, Alive
<1>7. ListInv'
  BY <1>1, <1>3, InRange DEF Struct, FeedsTypeOK, ListInv, Makes
<1>8. MadeInv'
  BY <1>4 DEF Struct, MadeInv, Makes
<1>9. KnownInv'
  BY <1>1 DEF Struct, FeedsTypeOK, KnownInv, Makes
<1>10. CheckInv'
  BY <1>1 DEF Struct, FeedsTypeOK, CheckInv, Makes, Making
<1>11. \A v \in Waking : Host(v)' = Host(v)
  <2>1. ASSUME NEW v \in Waking PROVE wakes'[v].feed = wakes[v].feed
    BY <1>2 DEF Waking
  <2>2. \A v \in Waking : wakes[v].feed \in FeedId \ {new}
    BY <1>1 DEF Struct, WakeInv, Waking
  <2>. QED
    BY <2>1, <2>2 DEF Host, Makes
<1>12. WakeInv'
  <2>1. Waking' = Waking /\ Replacing' = Replacing \union {w} /\ w \in Waking
    BY <1>2 DEF Waking, Replacing
  <2>2. \A v \in Waking : wakes'[v].feed = wakes[v].feed
    BY <1>2 DEF Waking
  <2>3. \A v \in Waking : wakes'[v].feed \in FeedId /\ feeds'[wakes'[v].feed].call # "none"
    BY <1>1, <2>2 DEF Struct, WakeInv, Makes, Waking
  <2>4. \A v \in Replacing \ {w} :
           /\ wakes'[v].new \in Making' /\ feeds'[wakes'[v].new].by = "wake"
           /\ feeds'[wakes'[v].new].chain = Host(v)
    BY <1>1, <1>2 DEF Struct, WakeInv, Makes, Making, Replacing
  <2>5. new \in Making' /\ feeds'[new].by = "wake" /\ feeds'[new].chain = Host(w)
    BY <1>1 DEF Makes, Making
  <2>6. \A v \in Waker : wakes'[v].pc \in {"waking", "recreating"} =>
                           wakes[v].pc \in {"waking", "recreating"} /\ v \in Waking
    BY <1>2 DEF Waking
  <2>7. Replacing \subseteq Waking
    BY DEF Replacing, Waking
  <2>. QED
    BY <1>2, <1>11, <2>1, <2>3, <2>4, <2>5, <2>6, <2>7 DEF Struct, WakeInv
<1>. QED
  BY <1>6, <1>7, <1>8, <1>9, <1>10, <1>12 DEF Struct

(* The call of one feed goes on, and what is in nobody's hand may be.         *)
LEMMA OpensKept ==
  ASSUME Struct, FeedsTypeOK', UNCHANGED <<list, known, check, wakes>>,
         NEW f \in FeedId, feeds[f].call = "opening", Goes(f, "joining", "up")
  PROVE  Struct'
<1>1. FeedInv' /\ KnownInv'
  BY DEF Struct, FeedsTypeOK, FeedInv, KnownInv, Goes, Alive
<1>2. ListInv'
  BY InRange DEF Struct, FeedsTypeOK, ListInv, Goes
<1>3. MadeInv'
  <2>1. check.made \in Seq(FeedId) /\ check' = check
    BY DEF Struct, FeedsTypeOK, Check
  <2>2. \A k \in 1..Len(check.made) : check.made[k] \in FeedId
    BY <2>1, InRange
  <2>. QED
    BY <2>1, <2>2 DEF Struct, MadeInv, Goes
<1>4. CheckInv'
  BY DEF Struct, FeedsTypeOK, CheckInv, Goes, Making
<1>5. WakeInv'
  <2>1. /\ Waking' = Waking /\ Replacing' = Replacing /\ Making' = Making
        /\ Replacing \subseteq Waking /\ Making \subseteq FeedId
    BY DEF Waking, Replacing, Making, Goes
  <2>2. \A w \in Waking : Host(w)' = Host(w)
    BY DEF Struct, WakeInv, Host, Goes
  <2>3. \A w \in Waker : wakes[w].pc \in {"waking", "recreating"} => w \in Waking
    BY DEF Waking
  <2>. QED
    BY <2>1, <2>2, <2>3 DEF Struct, WakeInv, Goes
<1>. QED
  BY <1>1, <1>2, <1>3, <1>4, <1>5 DEF Struct

(* A feed that createAll() makes is returned or rejected.                    *)
LEMMA CreateEnds ==
  ASSUME Struct, FeedsTypeOK', UNCHANGED <<list, check, wakes>>,
         NEW f \in FeedId, f \in Making, feeds[f].by = "createAll",
         \/ /\ feeds[f].call = "joining" /\ Goes(f, "returned", feeds[f].life)
            /\ known' = [known EXCEPT ![feeds[f].chain] = f]
         \/ Goes(f, "rejected", "closed") /\ UNCHANGED known
  PROVE  Struct'
<1>1. FeedInv'
  BY DEF Struct, FeedsTypeOK, FeedInv, Goes, Alive, Making
<1>2. ListInv'
  BY InRange DEF Struct, FeedsTypeOK, ListInv, Goes, Making
<1>3. MadeInv'
  <2>1. check.made \in Seq(FeedId) /\ check' = check
    BY DEF Struct, FeedsTypeOK, Check
  <2>2. \A k \in 1..Len(check.made) : check.made[k] \in FeedId
    BY <2>1, InRange
  <2>. QED
    BY <2>1, <2>2 DEF Struct, MadeInv, Goes
<1>4. KnownInv'
  <2>1. \A c \in Chain : known[c] # f
    BY FeedBounds DEF Struct, KnownInv, Making
  <2>2. CASE known' = [known EXCEPT ![feeds[f].chain] = f]
             /\ Goes(f, "returned", feeds[f].life)
    BY <2>1, <2>2 DEF Struct, FeedsTypeOK, KnownInv, Goes
  <2>3. CASE UNCHANGED known /\ Goes(f, "rejected", "closed")
    BY <2>1, <2>3 DEF Struct, FeedsTypeOK, KnownInv, Goes
  <2>. QED
    BY <2>2, <2>3
<1>5. CheckInv'
  BY DEF Struct, FeedsTypeOK, CheckInv, Goes, Making
<1>6. WakeInv'
  <2>1. /\ Waking' = Waking /\ Replacing' = Replacing /\ Making' = Making \ {f}
        /\ Replacing \subseteq Waking /\ Making \subseteq FeedId
    BY DEF Waking, Replacing, Making, Goes
  <2>2. \A w \in Waking : Host(w)' = Host(w)
    BY DEF Struct, WakeInv, Host, Goes
  <2>3. \A w \in Waker : wakes[w].pc \in {"waking", "recreating"} => w \in Waking
    BY DEF Waking
  <2>4. \A w \in Replacing : wakes[w].new # f
    BY DEF Struct, WakeInv
  <2>. QED
    BY <2>1, <2>2, <2>3, <2>4 DEF Struct, WakeInv, Goes
<1>. QED
  BY <1>1, <1>2, <1>3, <1>4, <1>5, <1>6 DEF Struct

(* A feed that the check makes again is returned or rejected.                *)
LEMMA RecreateEnds ==
  ASSUME Struct, FeedsTypeOK', UNCHANGED <<list, known, wakes>>,
         check.pc = "recreating",
         \/ /\ feeds[check.new].call = "joining"
            /\ Goes(check.new, "returned", feeds[check.new].life)
         \/ Goes(check.new, "rejected", "closed"),
         check'.made = <<>>, check'.pc # "recreating",
         check'.pc = "waking" => check'.feed \in Range(list)
  PROVE  Struct'
<1>. DEFINE f == check.new
<1>1. f \in FeedId /\ f \in Making /\ feeds[f].by = "check"
  BY DEF Struct, CheckInv, Making
<1>. HIDE DEF f
<1>2. \/ Goes(f, "returned", feeds[f].life) /\ feeds[f].call = "joining"
      \/ Goes(f, "rejected", "closed")
  BY DEF f
<1>3. FeedInv'
  BY <1>1, <1>2 DEF Struct, FeedsTypeOK, FeedInv, Goes, Alive, Making
<1>4. ListInv'
  BY <1>1, <1>2, InRange, RangeEmpty DEF Struct, FeedsTypeOK, ListInv, Goes, Making
<1>5. MadeInv'
  BY FeedBounds DEF MadeInv
<1>6. KnownInv'
  BY <1>1, <1>2 DEF Struct, FeedsTypeOK, KnownInv, Goes
<1>7. CheckInv'
  BY <1>4, InRange DEF Struct, FeedsTypeOK, ListInv, CheckInv
<1>8. WakeInv'
  <2>1. /\ Waking' = Waking /\ Replacing' = Replacing /\ Making' = Making \ {f}
        /\ Replacing \subseteq Waking /\ Making \subseteq FeedId
    BY <1>2 DEF Waking, Replacing, Making, Goes
  <2>2. \A w \in Waking : Host(w)' = Host(w)
    BY <1>2 DEF Struct, WakeInv, Host, Goes
  <2>3. \A w \in Waker : wakes[w].pc \in {"waking", "recreating"} => w \in Waking
    BY DEF Waking
  <2>4. \A w \in Replacing : wakes[w].new # f
    BY <1>1 DEF Struct, WakeInv
  <2>. QED
    BY <1>1, <1>2, <2>1, <2>2, <2>3, <2>4 DEF Struct, WakeInv, Goes
<1>. QED
  BY <1>3, <1>4, <1>5, <1>6, <1>7, <1>8 DEF Struct

(* The feeds that createAll() made go on the list.                           *)
LEMMA SettleKept ==
  ASSUME Struct, FeedsTypeOK', UNCHANGED <<feeds, known, wakes>>,
         Served, \A f \in Range(check.made) : feeds[f].call = "returned",
         list' = list \o check.made, check' = NoCheck
  PROVE  Struct'
<1>1. FeedInv' /\ KnownInv' /\ WakeInv'
  BY DEF Struct, FeedInv, KnownInv, WakeInv, Alive, Waking, Replacing, Host, Making
<1>2. check'.made = <<>> /\ check'.pc = "none"
  BY DEF NoCheck
<1>3. check.made \in Seq(FeedId) /\ list \in Seq(FeedId)
  BY DEF Struct, FeedsTypeOK, Check
<1>4. /\ list' \in Seq(FeedId) /\ Len(list') = Len(list) + Len(check.made)
      /\ \A k \in 1..Len(list') : list'[k] = IF k <= Len(list) THEN list[k]
                                            ELSE check.made[k - Len(list)]
  BY <1>3, Concatenation
<1>5. ASSUME NEW k \in 1..Len(list')
      PROVE  \/ k <= Len(list) /\ list'[k] = list[k] /\ list[k] \in Range(list)
             \/ /\ k > Len(list) /\ list'[k] = check.made[k - Len(list)]
                /\ k - Len(list) \in 1..Len(check.made)
                /\ check.made[k - Len(list)] \in Range(check.made)
  <2>1. CASE k <= Len(list)
    BY <1>3, <1>4, <2>1, InRange
  <2>2. CASE k > Len(list)
    <3>1. k - Len(list) \in 1..Len(check.made)
      BY <1>3, <1>4, <2>2
    <3>. QED
      BY <1>3, <1>4, <2>2, <3>1, InRange
  <2>. QED
    BY <1>3, <1>4, <2>1, <2>2
<1>6. \A f \in Range(list') : f \in Range(list) \/ f \in Range(check.made)
  <2>1. ASSUME NEW f \in Range(list')
        PROVE  f \in Range(list) \/ f \in Range(check.made)
    <3>1. PICK k \in 1..Len(list') : list'[k] = f
      BY <1>4, InRange
    <3>. QED
      BY <1>5, <3>1
  <2>. QED
    BY <2>1
<1>7. \A f \in Range(check.made) : feeds[f].by = "createAll"
  BY <1>3, InRange DEF Struct, MadeInv
<1>8. ASSUME NEW k \in 1..Len(list'), NEW l \in 1..Len(list'), list'[k] = list'[l]
      PROVE  k = l
  <2>1. CASE k <= Len(list) /\ l <= Len(list)
    BY <1>3, <1>4, <1>5, <1>8, <2>1 DEF Struct, ListInv, Distinct
  <2>2. CASE k > Len(list) /\ l > Len(list)
    <3>1. feeds[list'[k]].chain = k - Len(list) /\ feeds[list'[l]].chain = l - Len(list)
      BY <1>5, <2>2 DEF Struct, MadeInv
    <3>. QED
      BY <1>3, <1>8, <3>1
  <2>3. \A f \in Range(list) : f \notin Range(check.made)
    BY DEF Struct, ListInv
  <2>4. ~(k <= Len(list) /\ l > Len(list))
    BY <1>5, <1>8, <2>3
  <2>5. ~(k > Len(list) /\ l <= Len(list))
    BY <1>5, <1>8, <2>3
  <2>. QED
    BY <1>3, <2>1, <2>2, <2>4, <2>5
<1>9. ListInv'
  <2>1. \A f \in Range(list') : /\ feeds'[f].call = "returned"
                                /\ feeds'[f].by \in {"createAll", "wake"}
    BY <1>6, <1>7 DEF Struct, ListInv
  <2>. QED
    BY <1>2, <1>8, <2>1, RangeEmpty DEF ListInv, Distinct
<1>10. MadeInv' /\ CheckInv'
  BY <1>2, FeedBounds DEF MadeInv, CheckInv
<1>. QED
  BY <1>1, <1>9, <1>10 DEF Struct

(* A request to wake turns to a feed, ends or fails; a feed that it made is
   rejected, or returned and listed.                                         *)
Turns(w) ==
    /\ FeedsTypeOK' /\ UNCHANGED <<known, check, raced>>
    /\ \/ UNCHANGED <<feeds, list>> /\ wakes[w].pc # "recreating"
       \/ /\ wakes[w].pc = "recreating" /\ feeds[wakes[w].new].call = "joining"
          /\ Goes(wakes[w].new, "returned", feeds[wakes[w].new].life)
          /\ list' = Append(list, wakes[w].new)
       \/ /\ wakes[w].pc = "recreating" /\ UNCHANGED list
          /\ Goes(wakes[w].new, "rejected", "closed")
    /\ \A v \in Waker \ {w} : /\ wakes'[v].pc = wakes[v].pc
                              /\ wakes'[v].feed = wakes[v].feed
                              /\ wakes'[v].new = wakes[v].new
    /\ wakes'[w].pc # "recreating"
    /\ wakes'[w].pc \in {"locking", "waking"} =>
          /\ wakes'[w].feed \in FeedId
          /\ feeds'[wakes'[w].feed].call # "none"
    /\ wakes'[w].pc = "waking" =>
          \A v \in Waker \ {w} :
             wakes[v].pc \in {"waking", "recreating"} =>
                Host(v) # feeds[wakes'[w].feed].chain

LEMMA WakeTurns ==
  ASSUME Struct, NEW w \in Waker, Turns(w)
  PROVE  Struct'
<1>. USE DEF Turns
<1>. DEFINE n == wakes[w].new
<1>1. ASSUME NEW f \in FeedId
      PROVE  /\ feeds'[f].chain = feeds[f].chain /\ feeds'[f].by = feeds[f].by
             /\ feeds[f].call # "none" => feeds'[f].call # "none"
             /\ wakes[w].pc # "recreating" \/ f # n =>
                   feeds'[f].call = feeds[f].call
  BY DEF Goes, Struct, WakeInv, Replacing, Making
<1>2. wakes[w].pc = "recreating" =>
         /\ n \in FeedId /\ n \in Making /\ feeds[n].by = "wake"
         /\ \A v \in Replacing \ {w} : wakes[v].new # n
  BY DEF Struct, WakeInv, Replacing, Making
<1>3. FeedInv'
  <2>1. CASE UNCHANGED feeds
    BY <2>1 DEF Struct, FeedInv, Alive
  <2>2. CASE wakes[w].pc = "recreating" /\ feeds[n].call = "joining"
             /\ Goes(n, "returned", feeds[n].life)
    BY <1>1, <1>2, <2>2 DEF Struct, FeedInv, Goes, Alive, Making
  <2>3. CASE wakes[w].pc = "recreating" /\ Goes(n, "rejected", "closed")
    BY <1>1, <1>2, <2>3 DEF Struct, FeedInv, Goes, Alive, Making
  <2>. QED
    BY <2>1, <2>2, <2>3
<1>4. ListInv'
  <2>1. \A f \in Range(list) : /\ feeds'[f].call = "returned"
                               /\ feeds'[f].by \in {"createAll", "wake"}
                               /\ f \notin Range(check'.made)
                               /\ wakes[w].pc = "recreating" => f # n
    BY <1>1, <1>2, InRange DEF Struct, FeedsTypeOK, ListInv, Making
  <2>2. CASE UNCHANGED list
    BY <2>1, <2>2 DEF Struct, ListInv
  <2>3. CASE wakes[w].pc = "recreating" /\ list' = Append(list, n)
             /\ Goes(n, "returned", feeds[n].life) /\ feeds[n].call = "joining"
    <3>1. n \notin Range(check.made)
      <4>1. check.made \in Seq(FeedId)
        BY DEF Struct, FeedsTypeOK, Check
      <4>. QED
        BY <1>2, <2>3, <4>1, InRange DEF Struct, MadeInv
    <3>2. list \in Seq(FeedId) /\ n \in FeedId
      BY <1>2, <2>3 DEF Struct, FeedsTypeOK
    <3>3. /\ Range(list') = Range(list) \union {n} /\ Len(list') = Len(list) + 1
          /\ list'[Len(list) + 1] = n
          /\ \A k \in 1..Len(list) : list'[k] = list[k] /\ list[k] \in Range(list)
      BY <2>3, <3>2, RangeAppend, InRange
    <3>4. ASSUME NEW k \in 1..Len(list'), NEW l \in 1..Len(list'), list'[k] = list'[l]
          PROVE  k = l
      <4>1. CASE k \in 1..Len(list) /\ l \in 1..Len(list)
        BY <3>3, <3>4, <4>1 DEF Struct, ListInv, Distinct
      <4>2. CASE k \in 1..Len(list) /\ l = Len(list) + 1
        BY <2>1, <2>3, <3>3, <3>4, <4>2
      <4>3. CASE k = Len(list) + 1 /\ l \in 1..Len(list)
        BY <2>1, <2>3, <3>3, <3>4, <4>3
      <4>. QED
        BY <3>2, <3>3, <4>1, <4>2, <4>3
    <3>5. feeds'[n].call = "returned" /\ feeds'[n].by = "wake"
      BY <1>2, <2>3 DEF Goes
    <3>6. \A f \in Range(list') : /\ feeds'[f].call = "returned"
                                  /\ feeds'[f].by \in {"createAll", "wake"}
                                  /\ f \notin Range(check'.made)
      BY <2>1, <3>1, <3>3, <3>5
    <3>. QED
      BY <3>4, <3>6 DEF ListInv, Distinct
  <2>. QED
    BY <2>2, <2>3
<1>5. MadeInv'
  <2>1. check.made \in Seq(FeedId) /\ check' = check
    BY DEF Struct, FeedsTypeOK, Check
  <2>2. \A k \in 1..Len(check.made) : check.made[k] \in FeedId
    BY <2>1, InRange
  <2>. QED
    BY <1>1, <2>1, <2>2 DEF Struct, MadeInv
<1>6. KnownInv'
  <2>1. \A c \in Chain : known[c] # 0 =>
            known[c] \in FeedId /\ (wakes[w].pc = "recreating" => known[c] # n)
    BY <1>2 DEF Struct, FeedsTypeOK, KnownInv
  <2>. QED
    BY <1>1, <2>1 DEF Struct, KnownInv
<1>7. CheckInv'
  <2>1. check.pc = "recreating" => /\ check.new \in FeedId
                                   /\ wakes[w].pc = "recreating" => check.new # n
    BY <1>2 DEF Struct, CheckInv, Making
  <2>. QED
    BY <1>1, <2>1 DEF Struct, CheckInv, Making
<1>8. WakeInv'
  <2>1. \A v \in Waker \ {w} : v \in Waking => Host(v)' = Host(v)
    BY <1>1 DEF Struct, WakeInv, Host
  <2>2. \A v \in Waker : wakes[v].pc \in {"waking", "recreating"} => v \in Waking
    BY DEF Waking
  <2>3. Replacing' = Replacing \ {w} /\ Waking' \subseteq Waking \union {w}
        /\ Replacing \subseteq Waking
    BY DEF Replacing, Waking
  <2>4. \A v \in Waking' : wakes'[v].feed \in FeedId /\ feeds'[wakes'[v].feed].call # "none"
    <3>1. ASSUME w \in Waking' PROVE wakes'[w].pc \in {"locking", "waking"}
      BY <3>1 DEF Waking, FeedsTypeOK, Wake
    <3>. QED
      BY <1>1, <2>3, <3>1 DEF Struct, WakeInv, Waking
  <2>5. \A v \in Replacing' : /\ wakes'[v].new \in Making'
                              /\ feeds'[wakes'[v].new].by = "wake"
                              /\ feeds'[wakes'[v].new].chain = Host(v)'
    BY <1>1, <1>2, <2>1, <2>3 DEF Struct, WakeInv, Making, Replacing
  <2>6. wakes'[w].pc = "waking" => Host(w)' = feeds[wakes'[w].feed].chain
    BY <1>1 DEF Host
  <2>7. ASSUME NEW v \in Waker, NEW u \in Waker, v # u,
               wakes'[v].pc \in {"waking", "recreating"},
               wakes'[u].pc \in {"waking", "recreating"}
        PROVE  Host(v)' # Host(u)'
    <3>1. CASE v # w /\ u # w
      BY <2>1, <2>2, <2>7, <3>1 DEF Struct, WakeInv
    <3>2. CASE v = w
      BY <2>1, <2>2, <2>6, <2>7, <3>2
    <3>3. CASE u = w
      BY <2>1, <2>2, <2>6, <2>7, <3>3
    <3>. QED
      BY <3>1, <3>2, <3>3
  <2>. QED
    BY <2>4, <2>5, <2>7 DEF WakeInv
<1>. QED
  BY <1>3, <1>4, <1>5, <1>6, <1>7, <1>8 DEF Struct

-----------------------------------------------------------------------------
(* Every step keeps the types and what holds of the hands.                   *)
LEMMA StructInit == FeedsInit => Struct
<1>. SUFFICES ASSUME FeedsInit PROVE Struct
  OBVIOUS
<1>. USE FeedBounds DEF FeedsInit
<1>1. NoFeed \in Feed /\ NoCheck \in Check /\ NoWake \in Wake
  BY DEF NoFeed, Feed, NoCheck, Check, NoWake, Wake
<1>2. FeedsTypeOK
  <2>1. /\ feeds \in [FeedId -> Feed] /\ known \in [Chain -> FeedId \union {0}]
        /\ wakes \in [Waker -> Wake] /\ check \in Check
    BY <1>1
  <2>2. pending \in 0..checks /\ checks \in 0..MaxChecks /\ troubles \in 0..MaxTroubles
    OBVIOUS
  <2>3. list \in Seq(FeedId)
    OBVIOUS
  <2>4. {unlocked, raced} \subseteq BOOLEAN
    OBVIOUS
  <2>. QED
    BY <2>1, <2>2, <2>3, <2>4 DEF FeedsTypeOK
<1>3. /\ \A f \in FeedId : feeds[f].call = "none" /\ feeds[f].life = "none"
      /\ check.pc = "none" /\ check.made = <<>>
      /\ \A w \in Waker : wakes[w].pc = "idle"
  BY DEF NoFeed, NoCheck, NoWake
<1>4. FeedInv
  BY <1>3 DEF FeedInv, Alive
<1>5. ListInv /\ MadeInv /\ KnownInv /\ CheckInv
  BY <1>3, RangeEmpty DEF ListInv, Distinct, MadeInv, KnownInv, CheckInv
<1>6. WakeInv
  BY <1>3 DEF WakeInv, Waking, Replacing
<1>. QED
  BY <1>2, <1>4, <1>5, <1>6 DEF Struct

LEMMA CheckStruct ==
  ASSUME Struct,
         Alarm \/ Login \/ Begin \/ Answers \/ FollowOver \/ FollowNext \/ Offline
  PROVE  Struct'
<1>1. /\ NoCheck \in Check /\ NoCheck.made = <<>> /\ NoCheck.pc = "none"
      /\ [NoCheck EXCEPT !.pc = "create"] \in Check
      /\ [NoCheck EXCEPT !.pc = "create"].pc = "create"
      /\ [NoCheck EXCEPT !.pc = "create"].made = <<>>
      /\ 1 \in Nat \ {0}
  <2>1. NoCheck \in Check
    BY DEF NoCheck, Check
  <2>2. [NoCheck EXCEPT !.pc = "create"] \in Check
    BY <2>1 DEF Check
  <2>. QED
    BY <2>1, <2>2 DEF NoCheck
<1>2. check \in Check /\ check.i \in Nat \ {0} /\ check.i + 1 \in Nat \ {0}
      /\ list \in Seq(FeedId)
  BY DEF Struct, FeedsTypeOK, Check
<1>3. CASE Alarm \/ Login
  <2>1. UNCHANGED <<feeds, list, known, check, wakes, raced>>
    BY <1>3 DEF Alarm, Login
  <2>3. /\ checks' \in 0..MaxChecks /\ pending' \in 0..checks'
        /\ troubles' = troubles
    BY <1>3, FeedBounds DEF Alarm, Login, AskCheck, Struct, FeedsTypeOK
  <2>5. unlocked' \in BOOLEAN
    <3>1. unlocked' = unlocked \/ unlocked' = TRUE
      BY <1>3 DEF Alarm, Login
    <3>. QED
      BY <3>1 DEF Struct, FeedsTypeOK
  <2>4. FeedsTypeOK'
    BY <2>1, <2>3, <2>5 DEF Struct, FeedsTypeOK
  <2>2. Lives
    BY <2>1, Living DEF Struct, FeedsTypeOK
  <2>. QED
    BY <2>1, <2>2, <2>4, LivesKept
<1>4. CASE Begin \/ Answers \/ FollowOver \/ FollowNext \/ Offline
  <2>1. UNCHANGED <<feeds, list, known, wakes>>
    BY <1>4 DEF Begin, BeginCreate, Answers, FollowOver, FollowNext, Offline, aside
  <2>2. /\ check' \in Check /\ check'.made = <<>> /\ check'.pc # "recreating"
        /\ check'.pc = "waking" => check'.feed \in Range(list)
    <3>1. CASE Begin
      <4>1. \/ UNCHANGED check
            \/ check' = [NoCheck EXCEPT !.pc = "create"]
            \/ check' \in CheckAt(1)
        BY <3>1 DEF Begin, BeginCreate
      <4>2. check.pc = "none"
        BY <3>1 DEF Begin
      <4>. QED
        BY <1>1, <1>2, <4>1, <4>2, CheckNext DEF Struct, MadeInv
    <3>2. CASE Answers
      BY <1>2, <3>2, CheckNext DEF Answers
    <3>3. CASE FollowOver \/ Offline
      BY <1>1, <3>3 DEF FollowOver, Offline, EndCheck
    <3>4. CASE FollowNext
      <4>1. check.pc = "follow" /\ check.made = <<>>
        BY <3>4 DEF FollowNext, Struct, MadeInv
      <4>2. check' = [check EXCEPT !.i = @ + 1] \/ check' = NoCheck
        BY <3>4 DEF FollowNext, EndCheck
      <4>. QED
        BY <1>1, <1>2, <4>1, <4>2 DEF Check
    <3>. QED
      BY <1>4, <3>1, <3>2, <3>3, <3>4
  <2>3. FeedsTypeOK'
    <3>1. /\ raced' \in BOOLEAN /\ unlocked' \in BOOLEAN /\ checks' = checks
          /\ troubles' = troubles /\ pending' \in 0..checks
      BY <1>4, FeedBounds DEF Begin, BeginCreate, Answers, FollowOver, FollowNext,
         Offline, aside, Struct, FeedsTypeOK
    <3>. QED
      BY <2>1, <2>2, <3>1 DEF Struct, FeedsTypeOK
  <2>. QED
    BY <2>1, <2>2, <2>3, CheckTurns
<1>. QED
  BY <1>3, <1>4

(* What it means that a check or a request makes a feed.                     *)
Remade ==
    /\ FeedsTypeOK' /\ UNCHANGED raced
    /\ \E new \in Unheld :
          /\ Makes(new, {check.feed}, feeds[check.feed].chain, "check")
          /\ feeds[check.feed].chain \in Chain /\ check.feed \in FeedId
          /\ check' = [check EXCEPT !.pc = "recreating", !.new = new]
Begun ==
    /\ FeedsTypeOK' /\ UNCHANGED <<list, known, wakes, raced>> /\ Serving
    /\ \E new \in Unheld :
          /\ Makes(new, {known[NextChain]}, NextChain, "createAll")
          /\ check' = [check EXCEPT !.made = Append(@, new)]
TakenOff(w) ==
    /\ FeedsTypeOK' /\ UNCHANGED <<known, check>> /\ wakes[w].pc = "waking"
    /\ wakes[w].feed \in FeedId
    /\ \E new \in Unheld :
          /\ Makes(new, {wakes[w].feed}, Host(w), "wake")
          /\ wakes' = [wakes EXCEPT ![w] = [wakes[w] EXCEPT !.pc = "recreating",
                                                            !.new = new]]
    /\ list' = Without(wakes[w].feed)
    /\ raced' = (raced \/ wakes[w].feed \notin Range(list))

LEMMA MakeReads ==
  ASSUME Struct
  PROVE  /\ Silent => Remade
         /\ Create => Begun
         /\ \A w \in Waker : WakeReplaces(w) => TakenOff(w)
<1>1. /\ feeds \in [FeedId -> Feed] /\ check \in Check /\ wakes \in [Waker -> Wake]
      /\ list \in Seq(FeedId)
  BY DEF Struct, FeedsTypeOK
<1>2. ASSUME Silent PROVE Remade
  <2>1. PICK new \in Unheld :
           /\ feeds' = Recreated(check.feed, new, "check")
           /\ check' = [check EXCEPT !.pc = "recreating", !.new = new]
    BY <1>2 DEF Silent
  <2>2. check.feed \in FeedId /\ feeds[check.feed].chain \in Chain
    BY <1>2 DEF Silent, Struct, CheckInv, FeedInv
  <2>3. Makes(new, {check.feed}, feeds[check.feed].chain, "check")
    BY <1>1, <2>1, <2>2, MakingOne DEF Recreated
  <2>4. feeds' \in [FeedId -> Feed] /\ check' \in Check
    BY <1>1, <2>1, <2>3, NewFeed DEF Makes, Check
  <2>5. FeedsTypeOK'
    BY <1>2, <2>4 DEF Silent, aside, Struct, FeedsTypeOK
  <2>. QED
    BY <1>2, <2>1, <2>2, <2>3, <2>5 DEF Remade, Silent
<1>3. ASSUME Create PROVE Begun
  <2>1. PICK new \in Unheld :
           /\ feeds' = [Destroyed({known[NextChain]}) EXCEPT
                          ![new] = Opening(NextChain, "createAll")]
           /\ check' = [check EXCEPT !.made = Append(@, new)]
    BY <1>3 DEF Create
  <2>2. NextChain \in Chain /\ Serving
    BY <1>3 DEF Create, Serving
  <2>3. Makes(new, {known[NextChain]}, NextChain, "createAll")
    BY <1>1, <2>1, <2>2, MakingOne
  <2>4. feeds' \in [FeedId -> Feed] /\ check' \in Check
    <3>1. check.made \in Seq(FeedId) /\ new \in FeedId
      BY <1>1, NewFeed DEF Check
    <3>2. Append(check.made, new) \in Seq(FeedId)
      BY <3>1
    <3>. QED
      BY <1>1, <2>1, <2>3, <3>2 DEF Makes, Check
  <2>5. FeedsTypeOK'
    BY <1>3, <2>4 DEF Create, aside, Struct, FeedsTypeOK
  <2>. QED
    BY <1>3, <2>1, <2>2, <2>3, <2>5 DEF Create, Begun
<1>4. ASSUME NEW w \in Waker, WakeReplaces(w) PROVE TakenOff(w)
  <2>1. PICK new \in Unheld :
           /\ feeds' = Recreated(wakes[w].feed, new, "wake")
           /\ SetWake(w, [wakes[w] EXCEPT !.pc = "recreating", !.new = new])
    BY <1>4 DEF WakeReplaces
  <2>2. wakes[w].feed \in FeedId /\ Host(w) \in Chain /\ wakes[w].pc = "waking"
    BY <1>4 DEF WakeReplaces, Struct, WakeInv, Waking, FeedInv, Host
  <2>3. Makes(new, {wakes[w].feed}, Host(w), "wake")
    BY <1>1, <2>1, <2>2, MakingOne DEF Recreated, Host
  <2>4. [wakes[w] EXCEPT !.pc = "recreating", !.new = new] \in Wake
    <3>1. new \in FeedId
      BY <2>1, NewFeed
    <3>2. wakes[w] \in Wake
      BY <1>1
    <3>. QED
      BY <3>1, <3>2 DEF Wake
  <2>5. feeds' \in [FeedId -> Feed] /\ wakes' \in [Waker -> Wake]
    BY <1>1, <2>1, <2>3, <2>4 DEF Makes, SetWake
  <2>6. list' = Without(wakes[w].feed) /\ list' \in Seq(FeedId)
    BY <1>1, <1>4, Taking DEF WakeReplaces, Struct, ListInv
  <2>7. raced' \in BOOLEAN
    BY <1>4 DEF WakeReplaces
  <2>8. FeedsTypeOK' /\ UNCHANGED <<known, check>>
    BY <1>4, <2>5, <2>6, <2>7 DEF WakeReplaces, aside, Struct, FeedsTypeOK
  <2>. QED
    BY <1>4, <2>1, <2>2, <2>3, <2>6, <2>8 DEF SetWake, TakenOff, WakeReplaces
<1>. QED
  BY <1>2, <1>3, <1>4

LEMMA CallStruct ==
  ASSUME Struct,
         \/ Dropped \/ RecreateFails \/ Settle
         \/ \E f \in FeedId : Opens(f) \/ Resolve(f) \/ Reject(f)
  PROVE  Struct'
<1>1. /\ feeds \in [FeedId -> Feed] /\ check \in Check /\ list \in Seq(FeedId)
      /\ NoCheck \in Check /\ NoCheck.made = <<>> /\ NoCheck.pc = "none"
      /\ check.i + 1 \in Nat \ {0} /\ known \in [Chain -> FeedId \union {0}]
  BY DEF Struct, FeedsTypeOK, Check, NoCheck
<1>2. CASE Dropped \/ RecreateFails
  <2>1. check.pc = "recreating" /\ check.new \in FeedId
        /\ UNCHANGED <<list, known, wakes>>
    BY <1>2 DEF Dropped, RecreateFails, aside, Struct, CheckInv, Making
  <2>2. \/ /\ feeds[check.new].call = "joining"
           /\ Goes(check.new, "returned", feeds[check.new].life)
        \/ Goes(check.new, "rejected", "closed")
    BY <1>1, <1>2, <2>1, Going DEF Dropped, RecreateFails
  <2>3. /\ check' \in Check /\ check'.made = <<>> /\ check'.pc # "recreating"
        /\ check'.pc = "waking" => check'.feed \in Range(list)
    BY <1>1, <1>2, CheckNext DEF Dropped, RecreateFails, EndCheck
  <2>4. feeds' \in [FeedId -> Feed]
    BY <2>2 DEF Goes
  <2>5. FeedsTypeOK'
    BY <1>2, <2>3, <2>4 DEF Dropped, RecreateFails, aside, Struct, FeedsTypeOK
  <2>. QED
    BY <2>1, <2>2, <2>3, <2>5, RecreateEnds
<1>3. CASE Settle
  <2>1. Served /\ check' = NoCheck /\ UNCHANGED <<feeds, known, wakes>>
    BY <1>3 DEF Settle, EndCheck
  <2>2. CASE /\ \A f \in Range(check.made) : feeds[f].call = "returned"
             /\ list' = list \o check.made
    <3>1. check.made \in Seq(FeedId)
      BY <1>1 DEF Check
    <3>2. list' \in Seq(FeedId)
      BY <1>1, <2>2, <3>1
    <3>3. FeedsTypeOK'
      BY <1>1, <1>3, <2>1, <3>2 DEF Settle, aside, Struct, FeedsTypeOK
    <3>. QED
      BY <2>1, <2>2, <3>3, SettleKept
  <2>3. CASE UNCHANGED list
    <3>1. FeedsTypeOK'
      BY <1>1, <1>3, <2>1, <2>3 DEF Settle, aside, Struct, FeedsTypeOK
    <3>. QED
      BY <1>1, <2>1, <2>3, <3>1, CheckTurns
  <2>. QED
    BY <1>3, <2>2, <2>3 DEF Settle
<1>4. ASSUME NEW f \in FeedId, Opens(f) PROVE Struct'
  <2>1. Goes(f, "joining", "up") /\ feeds[f].call = "opening"
        /\ UNCHANGED <<list, known, check, wakes>>
    BY <1>1, <1>4, Going DEF Opens
  <2>2. FeedsTypeOK'
    BY <1>4, <2>1 DEF Opens, Goes, aside, Struct, FeedsTypeOK
  <2>. QED
    BY <2>1, <2>2, OpensKept
<1>5. ASSUME NEW f \in FeedId, Resolve(f) \/ Reject(f) PROVE Struct'
  <2>1. /\ f \in Making /\ feeds[f].by = "createAll"
        /\ UNCHANGED <<list, check, wakes>>
        /\ \/ /\ feeds[f].call = "joining" /\ Goes(f, "returned", feeds[f].life)
              /\ known' = [known EXCEPT ![feeds[f].chain] = f]
           \/ Goes(f, "rejected", "closed") /\ UNCHANGED known
    BY <1>1, <1>5, Going DEF Resolve, Reject, Making
  <2>2. feeds' \in [FeedId -> Feed] /\ known' \in [Chain -> FeedId \union {0}]
    BY <1>1, <2>1 DEF Goes
  <2>3. FeedsTypeOK'
    BY <1>5, <2>1, <2>2 DEF Resolve, Reject, aside, Struct, FeedsTypeOK
  <2>. QED
    BY <2>1, <2>3, CreateEnds
<1>. QED
  BY <1>2, <1>3, <1>4, <1>5

LEMMA WakeReads ==
  ASSUME Struct, NEW w \in Waker,
         \/ WakeBegin(w) \/ WakeLocks(w) \/ WakeAnswered(w) \/ WakeReplaced(w)
         \/ WakeFails(w)
  PROVE  Turns(w)
<1>1. /\ feeds \in [FeedId -> Feed] /\ wakes \in [Waker -> Wake]
      /\ list \in Seq(FeedId) /\ \A v \in Waker : wakes[v] \in Wake
      /\ 1 \in Nat \ {0} /\ wakes[w].i + 1 \in Nat \ {0}
  BY DEF Struct, FeedsTypeOK, Wake
<1>2. UNCHANGED <<known, check, raced, unlocked, pending, checks, troubles>>
  BY DEF WakeBegin, WakeLocks, WakeAnswered, WakeReplaced, WakeFails, aside
<1>3. \A v \in Waker : wakes[v].pc \in {"waking", "recreating"} => v \in Waking
  BY DEF Waking
<1>4. \A f \in Range(list) : f \in FeedId /\ feeds[f].call # "none"
  BY <1>1, InRange DEF Struct, ListInv
<1>5. CASE WakeBegin(w)
  <2>. DEFINE put == WakeAt(w, 1, list)
              turn(v) == IF v = w
                         THEN [put EXCEPT !.pairs = IF Waking = {} THEN DeafPairs
                                                   ELSE {}]
                         ELSE [wakes[v] EXCEPT
                                  !.pairs = IF v \in Waking THEN {} ELSE @]
  <2>1. DeafPairs \in SUBSET (FeedId \X FeedId)
    <3>1. \A k \in 1..(Len(list) - 1) : k \in 1..Len(list) /\ k + 1 \in 1..Len(list)
      BY <1>1
    <3>2. \A k \in 1..(Len(list) - 1) : <<list[k], list[k + 1]>> \in FeedId \X FeedId
      BY <1>1, <3>1, InRange
    <3>. QED
      BY <3>2 DEF DeafPairs
  <2>2. put \in Wake
    BY <1>1, WakeNext
  <2>3. wakes' = [v \in Waker |-> turn(v)] /\ UNCHANGED <<feeds, list>>
        /\ wakes[w].pc # "recreating"
    BY <1>5 DEF WakeBegin
  <2>4. ASSUME NEW v \in Waker
        PROVE  turn(v) \in Wake /\ wakes'[v] = turn(v)
    <3>. HIDE DEF put
    <3>. QED
      BY <1>1, <2>1, <2>2, <2>3 DEF Wake
  <2>5. ASSUME NEW v \in Waker \ {w}
        PROVE  /\ wakes'[v].pc = wakes[v].pc /\ wakes'[v].feed = wakes[v].feed
               /\ wakes'[v].new = wakes[v].new
    <3>. DEFINE p == IF v \in Waking THEN {} ELSE wakes[v].pairs
    <3>1. wakes'[v] = [wakes[v] EXCEPT !.pairs = p]
      BY <2>4
    <3>. HIDE DEF p
    <3>. QED
      BY <1>1, <3>1 DEF Wake
  <2>6. wakes'[w].pc = put.pc /\ wakes'[w].feed = put.feed
    <3>. DEFINE p == IF Waking = {} THEN DeafPairs ELSE {}
    <3>1. wakes'[w] = [put EXCEPT !.pairs = p]
      BY <2>4
    <3>. HIDE DEF p, put
    <3>. QED
      BY <2>2, <3>1 DEF Wake
  <2>. HIDE DEF turn, put
  <2>7. wakes' \in [Waker -> Wake]
    BY <2>3, <2>4
  <2>8. FeedsTypeOK'
    BY <1>2, <2>3, <2>7 DEF Struct, FeedsTypeOK
  <2>9. /\ put.pc \in {"done", "locking", "waking"}
        /\ put.pc # "done" => put.feed \in Range(list)
        /\ put.pc = "waking" => \A v \in Waking \ {w} : Host(v) # feeds[put.feed].chain
    BY <1>1, WakeNext DEF put
  <2>. QED
    BY <1>2, <1>3, <1>4, <2>3, <2>5, <2>6, <2>8, <2>9 DEF Turns
<1>6. ASSUME NEW x \in Wake, SetWake(w, x)
      PROVE  /\ wakes' \in [Waker -> Wake] /\ wakes'[w] = x
             /\ \A v \in Waker \ {w} : wakes'[v] = wakes[v]
  BY <1>1, <1>6 DEF SetWake
<1>7. CASE WakeLocks(w)
  <2>. DEFINE x == [wakes[w] EXCEPT !.pc = "waking"]
  <2>1. /\ x \in Wake /\ x.pc = "waking" /\ x.feed = wakes[w].feed
        /\ UNCHANGED <<feeds, list>> /\ SetWake(w, x) /\ wakes[w].pc = "locking"
        /\ ~ \E v \in Waker :
                wakes[v].pc \in {"waking", "recreating"} /\ Host(v) = Host(w)
    BY <1>1, <1>7 DEF WakeLocks, Wake
  <2>. HIDE DEF x
  <2>2. /\ wakes' \in [Waker -> Wake] /\ wakes'[w] = x
        /\ \A v \in Waker \ {w} : wakes'[v] = wakes[v]
    BY <1>6, <2>1
  <2>3. FeedsTypeOK'
    BY <1>2, <2>1, <2>2 DEF Struct, FeedsTypeOK
  <2>4. wakes[w].feed \in FeedId /\ feeds[wakes[w].feed].call # "none"
    BY <2>1 DEF Struct, WakeInv, Waking
  <2>. QED
    BY <1>2, <2>1, <2>2, <2>3, <2>4 DEF Host, Turns
<1>8. CASE WakeAnswered(w)
  <2>. DEFINE x == WakeAt(w, wakes[w].i + 1, list)
  <2>1. SetWake(w, x) /\ UNCHANGED <<feeds, list>> /\ wakes[w].pc = "waking"
    BY <1>8 DEF WakeAnswered
  <2>2. /\ x \in Wake /\ x.pc \in {"done", "locking", "waking"}
        /\ x.pc # "done" => x.feed \in Range(list)
        /\ x.pc = "waking" => \A v \in Waking \ {w} : Host(v) # feeds[x.feed].chain
    BY <1>1, WakeNext
  <2>. HIDE DEF x
  <2>3. /\ wakes' \in [Waker -> Wake] /\ wakes'[w] = x
        /\ \A v \in Waker \ {w} : wakes'[v] = wakes[v]
    BY <1>6, <2>1, <2>2
  <2>4. FeedsTypeOK'
    BY <1>2, <2>1, <2>3 DEF Struct, FeedsTypeOK
  <2>. QED
    BY <1>2, <1>3, <1>4, <2>1, <2>2, <2>3, <2>4 DEF Turns
<1>9. CASE WakeReplaced(w)
  <2>. DEFINE n == wakes[w].new
              x == WakeAt(w, wakes[w].i + 1, Append(list, n))
  <2>1. n \in FeedId /\ wakes[w].pc = "recreating" /\ feeds[n].call = "joining"
    BY <1>9 DEF WakeReplaced, Struct, WakeInv, Replacing, Making
  <2>2. /\ feeds' = Returned(n) /\ list' = Append(list, n) /\ SetWake(w, x)
    BY <1>9 DEF WakeReplaced
  <2>3. Goes(n, "returned", feeds[n].life)
    BY <1>1, <2>1, <2>2, Going
  <2>4. /\ Append(list, n) \in Seq(FeedId)
        /\ Range(Append(list, n)) = Range(list) \union {n}
    BY <1>1, <2>1, RangeAppend
  <2>5. /\ x \in Wake /\ x.pc \in {"done", "locking", "waking"}
        /\ x.pc # "done" => x.feed \in Range(list) \union {n}
        /\ x.pc = "waking" => \A v \in Waking \ {w} : Host(v) # feeds[x.feed].chain
    BY <1>1, <2>4, WakeNext
  <2>. HIDE DEF x
  <2>6. /\ wakes' \in [Waker -> Wake] /\ wakes'[w] = x
        /\ \A v \in Waker \ {w} : wakes'[v] = wakes[v]
    BY <1>6, <2>2, <2>5
  <2>7. feeds' \in [FeedId -> Feed]
    BY <2>3 DEF Goes
  <2>8. FeedsTypeOK'
    BY <1>2, <2>2, <2>4, <2>6, <2>7 DEF Struct, FeedsTypeOK
  <2>9. x.pc # "done" => x.feed \in FeedId /\ feeds'[x.feed].call # "none"
    BY <1>4, <2>1, <2>3, <2>5 DEF Goes
  <2>. QED
    BY <1>2, <1>3, <2>1, <2>2, <2>3, <2>5, <2>6, <2>8, <2>9 DEF Turns
<1>10. CASE WakeFails(w)
  <2>. DEFINE n == wakes[w].new
              x == [NoWake EXCEPT !.pc = "failed"]
  <2>1. /\ n \in FeedId /\ wakes[w].pc = "recreating" /\ UNCHANGED list
        /\ feeds' = Unopened(n) /\ SetWake(w, x)
    BY <1>10 DEF WakeFails, Struct, WakeInv, Replacing, Making
  <2>2. Goes(n, "rejected", "closed")
    BY <1>1, <2>1, Going
  <2>3. x \in Wake /\ x.pc = "failed"
    <3>1. NoWake \in Wake
      BY DEF NoWake, Wake
    <3>. QED
      BY <3>1 DEF Wake
  <2>. HIDE DEF x
  <2>4. /\ wakes' \in [Waker -> Wake] /\ wakes'[w] = x
        /\ \A v \in Waker \ {w} : wakes'[v] = wakes[v]
    BY <1>6, <2>1, <2>3
  <2>5. feeds' \in [FeedId -> Feed]
    BY <2>2 DEF Goes
  <2>6. FeedsTypeOK'
    BY <1>2, <2>1, <2>4, <2>5 DEF Struct, FeedsTypeOK
  <2>. QED
    BY <1>2, <2>1, <2>2, <2>3, <2>4, <2>6 DEF Turns
<1>. QED
  BY <1>5, <1>7, <1>8, <1>9, <1>10

LEMMA LivesStep ==
  ASSUME Struct, Logout \/ Fail \/ \E f \in FeedId : Aftermath(f)
  PROVE  Lives /\ FeedsTypeOK' /\ UNCHANGED <<list, known, check, wakes, raced>>
<1>1. feeds \in [FeedId -> Feed]
  BY DEF Struct, FeedsTypeOK
<1>2. UNCHANGED <<list, known, check, wakes, raced, pending, checks>>
  BY DEF Logout, Fail, Aftermath, aside
<1>3. unlocked' \in BOOLEAN
  <2>1. unlocked' = unlocked \/ unlocked' = FALSE
    BY DEF Logout, Fail, Aftermath, aside
  <2>. QED
    BY <2>1 DEF Struct, FeedsTypeOK
<1>4. troubles' \in 0..MaxTroubles
  <2>1. troubles' = troubles \/ Trouble
    BY DEF Logout, Fail, Aftermath, aside
  <2>. QED
    BY <2>1, FeedBounds DEF Trouble, Struct, FeedsTypeOK
<1>5. Lives
  <2>1. CASE Logout
    BY <1>1, <2>1, Living DEF Logout
  <2>2. CASE Fail
    <3>1. PICK fs \in SUBSET FeedId, life \in {"silent", "lost"} :
             /\ LifeOf(fs, life)
             /\ \A f \in fs : /\ feeds[f].life \in {"up", "silent"}
                              /\ life = "silent" => feeds[f].life = "up"
      BY <2>2 DEF Fail
    <3>2. \A f \in fs \cap FeedId : /\ feeds[f].life # "none"
                                    /\ life \in {"silent", "up"} =>
                                         feeds[f].life \in {"up", "silent"}
                                    /\ life \in {"lost", "healed"} => Alive(f)
      BY <3>1 DEF Alive
    <3>. QED
      BY <1>1, <3>1, <3>2, Living
  <2>3. ASSUME NEW f \in FeedId, Aftermath(f) PROVE Lives
    <3>1. PICK life \in {"up", "healed", "closed"} :
             /\ LifeOf({f}, life)
             /\ life = "up" => feeds[f].life = "silent"
             /\ life = "healed" => feeds[f].life = "lost"
             /\ feeds[f].life # "none"
      <4>1. CASE feeds[f].life = "silent" /\ LifeOf({f}, "up")
        BY <4>1
      <4>2. CASE feeds[f].life = "lost" /\ LifeOf({f}, "healed")
        BY <4>2
      <4>3. CASE feeds[f].life \in {"lost", "healed"} /\ LifeOf({f}, "closed")
        BY <4>3
      <4>. QED
        BY <2>3, <4>1, <4>2, <4>3 DEF Aftermath
    <3>2. \A g \in {f} \cap FeedId : /\ feeds[g].life # "none"
                                     /\ life \in {"silent", "up"} =>
                                          feeds[g].life \in {"up", "silent"}
                                     /\ life \in {"lost", "healed"} => Alive(g)
      BY <3>1 DEF Alive
    <3>. QED
      BY <1>1, <3>1, <3>2, Living
  <2>. QED
    BY <2>1, <2>2, <2>3
<1>6. feeds' \in [FeedId -> Feed]
  BY <1>5 DEF Lives
<1>7. FeedsTypeOK'
  BY <1>2, <1>3, <1>4, <1>6 DEF Struct, FeedsTypeOK
<1>. QED
  BY <1>2, <1>5, <1>7

(* A restart leaves nothing behind.                                          *)
LEMMA RestartReads ==
  ASSUME FeedsTypeOK, Restart
  PROVE  /\ FeedsTypeOK' /\ list' = <<>> /\ ~raced'
         /\ \A f \in FeedId : feeds'[f].call = "none" /\ feeds'[f].life = "none"
         /\ \A c \in Chain : known'[c] = 0
         /\ check'.pc = "none" /\ check'.made = <<>>
         /\ \A w \in Waker : wakes'[w].pc \in {"idle", "failed"} /\ wakes'[w].pairs = {}
<1>. DEFINE failed == [NoWake EXCEPT !.pc = "failed"]
<1>1. NoFeed \in Feed /\ NoCheck \in Check /\ NoWake \in Wake /\ <<>> \in Seq(FeedId)
  BY DEF NoFeed, Feed, NoCheck, Check, NoWake, Wake
<1>2. failed \in Wake /\ failed.pc = "failed" /\ failed.pairs = {}
  BY <1>1 DEF Wake, NoWake
<1>. HIDE DEF failed
<1>3. \A w \in Waker : wakes'[w] \in {NoWake, failed}
  BY DEF Restart, failed
<1>4. wakes' \in [Waker -> Wake]
  BY <1>1, <1>2 DEF Restart, failed
<1>5. feeds' \in [FeedId -> Feed] /\ known' \in [Chain -> FeedId \union {0}]
  BY <1>1 DEF Restart
<1>6. /\ checks' \in 0..MaxChecks /\ pending' \in 0..checks'
      /\ troubles' \in 0..MaxTroubles
  BY FeedBounds DEF Restart, Trouble, FeedsTypeOK
<1>7. {unlocked', raced'} \subseteq BOOLEAN
  BY DEF Restart, FeedsTypeOK
<1>8. list' = <<>> /\ check' = NoCheck /\ ~raced'
  BY DEF Restart
<1>9. FeedsTypeOK'
  BY <1>1, <1>4, <1>5, <1>6, <1>7, <1>8 DEF FeedsTypeOK
<1>10. /\ \A f \in FeedId : feeds'[f].call = "none" /\ feeds'[f].life = "none"
       /\ \A c \in Chain : known'[c] = 0
       /\ check'.pc = "none" /\ check'.made = <<>>
  BY <1>8 DEF Restart, NoFeed, NoCheck
<1>11. \A w \in Waker : wakes'[w].pc \in {"idle", "failed"} /\ wakes'[w].pairs = {}
  BY <1>2, <1>3 DEF NoWake
<1>. QED
  BY <1>8, <1>9, <1>10, <1>11

LEMMA RestartStruct ==
  ASSUME Struct, Restart
  PROVE  Struct'
<1>1. /\ FeedsTypeOK' /\ list' = <<>>
      /\ \A f \in FeedId : feeds'[f].call = "none" /\ feeds'[f].life = "none"
      /\ \A c \in Chain : known'[c] = 0
      /\ check'.pc = "none" /\ check'.made = <<>>
      /\ \A w \in Waker : wakes'[w].pc \in {"idle", "failed"}
  BY RestartReads DEF Struct
<1>2. FeedInv'
  BY <1>1 DEF FeedInv, Alive
<1>3. ListInv' /\ MadeInv' /\ KnownInv' /\ CheckInv'
  BY <1>1, RangeEmpty, FeedBounds DEF ListInv, Distinct, MadeInv, KnownInv, CheckInv
<1>4. WakeInv'
  BY <1>1 DEF WakeInv, Waking, Replacing
<1>. QED
  BY <1>1, <1>2, <1>3, <1>4 DEF Struct

LEMMA StructStep == Struct /\ [FeedsNext]_feedsVars => Struct'
<1>. SUFFICES ASSUME Struct, [FeedsNext]_feedsVars PROVE Struct'
  OBVIOUS
<1>1. CASE UNCHANGED feedsVars
  <2>1. UNCHANGED <<feeds, list, known, check, wakes, raced>> /\ FeedsTypeOK'
    BY <1>1 DEF feedsVars, Struct, FeedsTypeOK
  <2>. QED
    BY <2>1, Living, LivesKept DEF Struct, FeedsTypeOK
<1>2. CASE Alarm \/ Login \/ Begin \/ Answers \/ FollowOver \/ FollowNext \/ Offline
  BY <1>2, CheckStruct
<1>3. CASE Silent \/ Create \/ \E w \in Waker : WakeReplaces(w)
  <2>1. CASE Silent
    BY <2>1, MakeReads, CheckMakes DEF Remade
  <2>2. CASE Create
    BY <2>2, MakeReads, CreateMakes DEF Begun
  <2>3. ASSUME NEW w \in Waker, WakeReplaces(w) PROVE Struct'
    BY <2>3, MakeReads, WakeMakes DEF TakenOff
  <2>. QED
    BY <1>3, <2>1, <2>2, <2>3
<1>4. CASE \/ Dropped \/ RecreateFails \/ Settle
           \/ \E f \in FeedId : Opens(f) \/ Resolve(f) \/ Reject(f)
  BY <1>4, CallStruct
<1>5. ASSUME NEW w \in Waker,
             \/ WakeBegin(w) \/ WakeLocks(w) \/ WakeAnswered(w)
             \/ WakeReplaced(w) \/ WakeFails(w)
      PROVE  Struct'
  BY <1>5, WakeReads, WakeTurns
<1>6. CASE Logout \/ Fail \/ \E f \in FeedId : Aftermath(f)
  BY <1>6, LivesStep, LivesKept
<1>7. CASE Restart
  BY <1>7, RestartStruct
<1>. QED
  BY <1>1, <1>2, <1>3, <1>4, <1>5, <1>6, <1>7
     DEF FeedsNext, CheckStep, NodeStep, WakeStep

(* Every variable of the feeds keeps its type: in particular a check and a
   request to wake deal only with feeds that were made.                      *)
THEOREM FeedsTypeCorrect == FeedsSpec => []FeedsTypeOK
<1>1. Struct => FeedsTypeOK
  BY DEF Struct
<1>. QED
  BY <1>1, StructInit, StructStep, PTL DEF FeedsSpec

-----------------------------------------------------------------------------
(* What holds until two make feeds of the same chains at once.  While
   createAll() makes feeds there is no list and no request to wake makes one; it
   makes one feed of a chain, after the one it knew was destroyed.           *)
CreateAlone ==
    check.pc = "create" \/ CreateMaking # {} => list = <<>> /\ Replacing = {}
InMade == check.pc = "create" => CreateMaking \subseteq Range(check.made)
OneMaking ==
    \A f, g \in CreateMaking : feeds[f].chain = feeds[g].chain => f = g
OldGone ==
    \A f \in CreateMaking :
        known[feeds[f].chain] # 0 => feeds[known[feeds[f].chain]].gone
NewKnown ==
    \A k \in 1..Len(check.made) :
        feeds[check.made[k]].call = "returned" => known[k] = check.made[k]

(* No two feeds of the list are of one chain, and a feed that a request makes is
   of a chain that the list has no feed of.                                  *)
OneListed ==
    \A f, g \in Range(list) : feeds[f].chain = feeds[g].chain => f = g
OffList ==
    \A w \in Replacing : \A f \in Range(list) :
        feeds[f].chain # feeds[wakes[w].new].chain

(* A feed that is neither closed nor destroyed is within reach.              *)
Reached ==
    \A f \in FeedId : Alive(f) /\ ~feeds[f].gone /\ feeds[f].by # "check" =>
        \/ f \in Range(list) \/ f \in Range(check.made) \/ f \in Making
        \/ list = <<>> /\ known[feeds[f].chain] = f /\ Replacing = {}
Unraced == CreateAlone /\ InMade /\ OneMaking /\ OldGone /\ NewKnown /\ OneListed
           /\ OffList /\ Reached

LEMMA MadeTypes ==
  ASSUME FeedsTypeOK
  PROVE  /\ check.made \in Seq(FeedId) /\ list \in Seq(FeedId)
         /\ Range(check.made) \subseteq FeedId /\ Range(list) \subseteq FeedId
         /\ \A k \in 1..Len(check.made) : /\ check.made[k] \in FeedId
                                          /\ check.made[k] \in Range(check.made)
         /\ CreateMaking \subseteq FeedId /\ Making \subseteq FeedId
         /\ CreateMaking \subseteq Making
<1>1. check.made \in Seq(FeedId) /\ list \in Seq(FeedId)
  BY DEF FeedsTypeOK, Check
<1>. QED
  BY <1>1, InRange DEF Making, CreateMaking

(* Lives end, and whoever makes a feed has it as before.                     *)
LEMMA LivesUnraced ==
  ASSUME Struct, Unraced, Lives, UNCHANGED <<list, known, check, wakes>>
  PROVE  Unraced'
<1>1. /\ Making' = Making /\ CreateMaking' = CreateMaking /\ Replacing' = Replacing
      /\ FeedsTypeOK
  BY DEF Making, CreateMaking, Replacing, Lives, Struct
<1>2. CreateAlone' /\ InMade'
  BY <1>1 DEF Unraced, CreateAlone, InMade
<1>3. OneMaking' /\ OneListed'
  BY <1>1, MadeTypes DEF Unraced, OneMaking, OneListed, Lives
<1>4. OldGone'
  <2>1. \A f \in CreateMaking : feeds[f].chain \in Chain /\ f \in FeedId
    BY DEF CreateMaking, Making, Struct, FeedInv
  <2>. QED
    BY <1>1, <2>1 DEF Unraced, OldGone, Lives, FeedsTypeOK
<1>5. NewKnown'
  BY <1>1, MadeTypes DEF Unraced, NewKnown, Lives
<1>6. OffList'
  BY <1>1, MadeTypes DEF Unraced, OffList, Lives, Struct, WakeInv
<1>7. Reached'
  BY <1>1 DEF Unraced, Reached, Lives
<1>. QED
  BY <1>2, <1>3, <1>4, <1>5, <1>6, <1>7 DEF Unraced

(* The check turns elsewhere, or gives the feeds up that it was making.       *)
LEMMA CheckUnraced ==
  ASSUME Struct, Unraced, UNCHANGED <<feeds, list, known, wakes>>,
         check'.pc # "create", check'.made = <<>>
  PROVE  Unraced'
<1>1. /\ Making' = Making /\ CreateMaking' = CreateMaking /\ Replacing' = Replacing
  BY DEF Making, CreateMaking, Replacing
<1>2. CreateAlone' /\ InMade' /\ OneMaking' /\ OneListed' /\ OldGone' /\ OffList'
  BY <1>1 DEF Unraced, CreateAlone, InMade, OneMaking, OneListed, OldGone, OffList
<1>3. NewKnown'
  BY DEF NewKnown
<1>4. Reached'
  <2>1. ASSUME NEW f \in FeedId, f \in Range(check.made), Alive(f)
        PROVE  \/ f \in Making
               \/ list = <<>> /\ known[feeds[f].chain] = f /\ Replacing = {}
    <3>1. PICK k \in 1..Len(check.made) : check.made[k] = f
      BY <2>1, MadeTypes, InRange DEF Struct
    <3>2. check.pc = "create" /\ feeds[f].chain = k
      BY <3>1 DEF Struct, MadeInv
    <3>3. list = <<>> /\ Replacing = {}
      BY <3>2 DEF Unraced, CreateAlone
    <3>4. feeds[f].call = "returned" => known[k] = f
      BY <3>1 DEF Unraced, NewKnown
    <3>. QED
      BY <2>1, <3>2, <3>3, <3>4 DEF Struct, FeedInv, Making
  <2>. QED
    BY <1>1, <2>1 DEF Unraced, Reached, Alive
<1>. QED
  BY <1>2, <1>3, <1>4 DEF Unraced

(* createAll() begins when nobody makes feeds but checks.                     *)
LEMMA BeginUnraced ==
  ASSUME Struct, Unraced, UNCHANGED <<feeds, list, known, wakes>>, ~Meets,
         list = <<>>, check'.made = <<>>, check.made = <<>>
  PROVE  Unraced'
<1>1. /\ Making' = Making /\ CreateMaking' = CreateMaking /\ Replacing' = Replacing
  BY DEF Making, CreateMaking, Replacing
<1>2. CreateMaking = {}
  BY DEF CreateMaking, Meets, Making
<1>3. Replacing = {}
  BY DEF Struct, WakeInv, Meets, Making
<1>4. CreateAlone' /\ InMade' /\ OneMaking' /\ OneListed' /\ OldGone' /\ OffList'
  BY <1>1, <1>2, <1>3, RangeEmpty
     DEF Unraced, CreateAlone, InMade, OneMaking, OneListed, OldGone, OffList
<1>5. NewKnown' /\ Reached'
  BY <1>1, RangeEmpty DEF Unraced, NewKnown, Reached, Alive
<1>. QED
  BY <1>4, <1>5 DEF Unraced

(* The check makes a feed again, or that feed is returned or rejected.       *)
LEMMA RemadeUnraced ==
  ASSUME Struct, Unraced, Remade, UNCHANGED <<list, known, wakes>>,
         check.pc = "waking"
  PROVE  Unraced'
<1>1. PICK new \in Unheld :
          /\ Makes(new, {check.feed}, feeds[check.feed].chain, "check")
          /\ check' = [check EXCEPT !.pc = "recreating", !.new = new]
  BY DEF Remade
<1>2. /\ new \in FeedId /\ new \notin Making /\ new \notin Range(list)
      /\ new \notin Range(check.made) /\ \A c \in Chain : new # known[c]
      /\ \A w \in Waker : new # wakes[w].new
  BY NewFeed, Unknown
<1>3. check'.pc = "recreating" /\ check'.made = <<>> /\ check.made = <<>>
  BY <1>1 DEF Struct, FeedsTypeOK, MadeInv, Check
<1>4. /\ Making' = Making \union {new} /\ CreateMaking' = CreateMaking
      /\ Replacing' = Replacing
  BY <1>1, <1>2 DEF Making, CreateMaking, Replacing, Makes
<1>5. CreateAlone' /\ InMade'
  BY <1>3, <1>4 DEF Unraced, CreateAlone, InMade
<1>6. OneMaking' /\ OneListed'
  BY <1>1, <1>2, <1>4, MadeTypes DEF Unraced, OneMaking, OneListed, Makes, Struct
<1>7. OldGone'
  <2>1. \A f \in CreateMaking : feeds[f].chain \in Chain /\ f \in FeedId \ {new}
    BY <1>2 DEF CreateMaking, Making, Struct, FeedInv
  <2>. QED
    BY <1>1, <1>2, <1>4, <2>1 DEF Unraced, OldGone, Makes, FeedsTypeOK, Struct
<1>8. NewKnown'
  BY <1>3 DEF NewKnown
<1>9. OffList'
  <2>1. \A w \in Replacing : wakes[w].new \in FeedId \ {new}
    BY <1>2 DEF Replacing, Struct, WakeInv, Making
  <2>. QED
    BY <1>1, <1>2, <1>4, <2>1, MadeTypes DEF Unraced, OffList, Makes, Struct
<1>10. Reached'
  BY <1>1, <1>2, <1>3, <1>4 DEF Unraced, Reached, Makes, Alive
<1>. QED
  BY <1>5, <1>6, <1>7, <1>8, <1>9, <1>10 DEF Unraced

LEMMA RemadeEndsUnraced ==
  ASSUME Struct, Unraced, UNCHANGED <<list, known, wakes>>,
         check.pc = "recreating",
         \/ Goes(check.new, "returned", feeds[check.new].life)
         \/ Goes(check.new, "rejected", "closed"),
         check'.made = <<>>, check'.pc # "create"
  PROVE  Unraced'
<1>. DEFINE f == check.new
<1>1. f \in FeedId /\ f \in Making /\ feeds[f].by = "check" /\ check.made = <<>>
  BY DEF Struct, CheckInv, MadeInv, Making
<1>2. \/ Goes(f, "returned", feeds[f].life) \/ Goes(f, "rejected", "closed")
  OBVIOUS
<1>. HIDE DEF f
<1>3. \A g \in FeedId : /\ feeds'[g].chain = feeds[g].chain
                        /\ feeds'[g].by = feeds[g].by
                        /\ feeds'[g].gone = feeds[g].gone
                        /\ g # f => feeds'[g] = feeds[g]
  BY <1>1, <1>2 DEF Goes
<1>4. /\ Making' = Making \ {f} /\ CreateMaking' = CreateMaking
      /\ Replacing' = Replacing
  BY <1>1, <1>2 DEF Making, CreateMaking, Replacing, Goes
<1>5. CreateAlone' /\ InMade'
  BY <1>4 DEF Unraced, CreateAlone, InMade
<1>6. OneMaking' /\ OneListed'
  BY <1>3, <1>4, MadeTypes DEF Unraced, OneMaking, OneListed, Struct
<1>7. OldGone'
  <2>1. \A g \in CreateMaking : feeds[g].chain \in Chain /\ g \in FeedId
    BY DEF CreateMaking, Making, Struct, FeedInv
  <2>. QED
    BY <1>3, <1>4, <2>1 DEF Unraced, OldGone, FeedsTypeOK, Struct
<1>8. NewKnown'
  BY DEF NewKnown
<1>9. OffList'
  <2>1. \A w \in Replacing : wakes[w].new \in FeedId
    BY DEF Replacing, Struct, WakeInv, Making
  <2>. QED
    BY <1>3, <1>4, <2>1, MadeTypes DEF Unraced, OffList, Struct
<1>10. Reached'
  BY <1>1, <1>3, <1>4 DEF Unraced, Reached, Alive
<1>. QED
  BY <1>5, <1>6, <1>7, <1>8, <1>9, <1>10 DEF Unraced

(* createAll() begins to make the feed of the next chain.                    *)
LEMMA CreateUnraced ==
  ASSUME Struct, Unraced, Begun
  PROVE  Unraced'
<1>1. PICK new \in Unheld :
          /\ Makes(new, {known[NextChain]}, NextChain, "createAll")
          /\ check' = [check EXCEPT !.made = Append(@, new)]
  BY DEF Begun
<1>2. /\ new \in FeedId /\ new \notin Making /\ new \notin Range(list)
      /\ new \notin Range(check.made) /\ \A c \in Chain : new # known[c]
      /\ \A w \in Waker : new # wakes[w].new
  BY NewFeed, Unknown
<1>3. /\ check.pc = "create" /\ check'.pc = "create"
      /\ check'.made = Append(check.made, new)
      /\ UNCHANGED <<list, known, wakes>>
  BY <1>1 DEF Begun, Serving, Struct, FeedsTypeOK, Check
<1>4. /\ Range(check'.made) = Range(check.made) \union {new}
      /\ Len(check'.made) = Len(check.made) + 1
      /\ check'.made[Len(check.made) + 1] = new
      /\ \A k \in 1..Len(check.made) : check'.made[k] = check.made[k]
      /\ Len(check.made) \in Nat
  BY <1>2, <1>3, MadeTypes, RangeAppend DEF Struct
<1>5. /\ Making' = Making \union {new} /\ CreateMaking' = CreateMaking \union {new}
      /\ Replacing' = Replacing
  BY <1>1, <1>2, <1>3 DEF Making, CreateMaking, Replacing, Makes
<1>6. CreateAlone' /\ InMade'
  BY <1>3, <1>4, <1>5 DEF Unraced, CreateAlone, InMade
<1>7. NextChain \in Chain /\ NextChain = Len(check.made) + 1
  BY DEF Begun, Serving, NextChain
<1>8. \A f \in CreateMaking : feeds[f].chain # NextChain
  <2>1. ASSUME NEW f \in CreateMaking PROVE feeds[f].chain # NextChain
    <3>1. f \in Range(check.made)
      BY <1>3 DEF Unraced, InMade
    <3>2. PICK k \in 1..Len(check.made) : check.made[k] = f
      BY <3>1, MadeTypes, InRange DEF Struct
    <3>. QED
      BY <1>4, <1>7, <3>2 DEF Struct, MadeInv
  <2>. QED
    BY <2>1
<1>9. OneMaking'
  BY <1>1, <1>2, <1>5, <1>8, MadeTypes DEF Unraced, OneMaking, Makes, Struct
<1>10. OneListed'
  BY <1>1, <1>2, <1>3, MadeTypes DEF Unraced, OneListed, Makes, Struct
<1>11. OldGone'
  <2>1. \A f \in CreateMaking : feeds[f].chain \in Chain /\ f \in FeedId \ {new}
    BY <1>2 DEF CreateMaking, Making, Struct, FeedInv
  <2>2. \A c \in Chain : known[c] \in FeedId \union {0} /\ known[c] # new
    BY <1>2 DEF Struct, FeedsTypeOK
  <2>3. \A c \in Chain : known[c] # 0 =>
            (feeds'[known[c]].gone <=> c = NextChain \/ feeds[known[c]].gone
                                       \/ known[c] = known[NextChain])
    BY <1>1, <1>7, <2>2 DEF Makes
  <2>. QED
    BY <1>1, <1>3, <1>5, <1>7, <2>1, <2>3 DEF Unraced, OldGone, Makes
<1>12. NewKnown'
  <2>1. ASSUME NEW k \in 1..Len(check'.made),
               feeds'[check'.made[k]].call = "returned"
        PROVE  known'[k] = check'.made[k]
    <3>1. k # Len(check.made) + 1
      BY <1>1, <1>4, <2>1 DEF Makes
    <3>2. k \in 1..Len(check.made) /\ check'.made[k] = check.made[k]
      BY <1>4, <3>1
    <3>3. check.made[k] \in FeedId \ {new}
      BY <1>2, <3>2, MadeTypes DEF Struct
    <3>. QED
      BY <1>1, <1>3, <2>1, <3>2, <3>3 DEF Unraced, NewKnown, Makes
  <2>. QED
    BY <2>1 DEF NewKnown
<1>13. OffList'
  BY <1>3, <1>5, RangeEmpty DEF Unraced, CreateAlone, OffList
<1>14. Reached'
  <2>1. known[NextChain] # 0 => feeds'[known[NextChain]].gone
    BY <1>1, <1>2, <1>7 DEF Makes, Struct, FeedsTypeOK
  <2>. QED
    BY <1>1, <1>2, <1>3, <1>4, <1>5, <2>1 DEF Unraced, Reached, Makes, Alive
<1>. QED
  BY <1>6, <1>9, <1>10, <1>11, <1>12, <1>13, <1>14 DEF Unraced

(* The feeds that createAll() made become the list.                          *)
LEMMA SettleUnraced ==
  ASSUME Struct, Unraced, UNCHANGED <<feeds, known, wakes>>, Served,
         \A f \in Range(check.made) : feeds[f].call = "returned",
         list' = list \o check.made, check' = NoCheck
  PROVE  Unraced'
<1>1. /\ Making' = Making /\ CreateMaking' = CreateMaking /\ Replacing' = Replacing
  BY DEF Making, CreateMaking, Replacing
<1>2. list = <<>> /\ Replacing = {} /\ check.pc = "create"
  BY DEF Unraced, CreateAlone, Served
<1>3. CreateMaking = {}
  BY <1>2 DEF Unraced, InMade, CreateMaking, Making
<1>4. list' = check.made /\ check'.pc = "none" /\ check'.made = <<>>
  BY <1>2, MadeTypes DEF Struct, NoCheck
<1>5. CreateAlone' /\ InMade' /\ OneMaking' /\ OldGone' /\ OffList'
  BY <1>1, <1>2, <1>3, <1>4
     DEF CreateAlone, InMade, OneMaking, OldGone, OffList
<1>6. OneListed'
  <2>1. ASSUME NEW f \in Range(check.made), NEW g \in Range(check.made),
               feeds[f].chain = feeds[g].chain
        PROVE  f = g
    <3>1. PICK k \in 1..Len(check.made) : check.made[k] = f
      BY MadeTypes, InRange DEF Struct
    <3>2. PICK l \in 1..Len(check.made) : check.made[l] = g
      BY MadeTypes, InRange DEF Struct
    <3>. QED
      BY <2>1, <3>1, <3>2 DEF Struct, MadeInv
  <2>. QED
    BY <1>4, <2>1 DEF OneListed
<1>7. NewKnown'
  BY <1>4 DEF NewKnown
<1>8. Reached'
  <2>1. ASSUME NEW f \in FeedId, Alive(f), known[feeds[f].chain] = f
        PROVE  f \in Range(check.made)
    <3>1. feeds[f].chain \in 1..Chains
      BY <2>1 DEF Struct, FeedInv, Alive, Chain
    <3>2. Len(check.made) >= Chains
      <4>1. Len(check.made) \in Nat /\ Chains \in Nat
        BY MadeTypes, FeedBounds DEF Struct
      <4>. QED
        BY <4>1 DEF Served, NextChain, Chain
    <3>3. feeds[f].chain \in 1..Len(check.made)
      <4>1. Len(check.made) \in Nat /\ Chains \in Nat
        BY MadeTypes, FeedBounds DEF Struct
      <4>. QED
        BY <3>1, <3>2, <4>1
    <3>4. /\ check.made[feeds[f].chain] \in Range(check.made)
          /\ feeds[check.made[feeds[f].chain]].call = "returned"
      BY <3>3, MadeTypes DEF Struct
    <3>5. known[feeds[f].chain] = check.made[feeds[f].chain]
      BY <3>3, <3>4 DEF Unraced, NewKnown
    <3>. QED
      BY <2>1, <3>4, <3>5
  <2>. QED
    BY <1>1, <1>2, <1>4, <2>1, RangeEmpty DEF Unraced, Reached, Alive
<1>. QED
  BY <1>5, <1>6, <1>7, <1>8 DEF Unraced

(* A socket opens.                                                           *)
LEMMA OpensUnraced ==
  ASSUME Struct, Unraced, UNCHANGED <<list, known, check, wakes>>,
         NEW f \in FeedId, feeds[f].call = "opening", Goes(f, "joining", "up")
  PROVE  Unraced'
<1>1. \A g \in FeedId : /\ feeds'[g].chain = feeds[g].chain
                        /\ feeds'[g].by = feeds[g].by
                        /\ feeds'[g].gone = feeds[g].gone
                        /\ feeds'[g].call = "returned" => feeds[g].call = "returned"
                        /\ g # f => feeds'[g] = feeds[g]
  BY DEF Goes
<1>2. /\ Making' = Making /\ CreateMaking' = CreateMaking /\ f \in Making
      /\ Replacing' = Replacing
  BY DEF Making, CreateMaking, Replacing, Goes
<1>3. CreateAlone' /\ InMade'
  BY <1>2 DEF Unraced, CreateAlone, InMade
<1>4. OneMaking' /\ OneListed'
  BY <1>1, <1>2, MadeTypes DEF Unraced, OneMaking, OneListed, Struct
<1>5. OldGone'
  <2>1. \A g \in CreateMaking : feeds[g].chain \in Chain /\ g \in FeedId
    BY DEF CreateMaking, Making, Struct, FeedInv
  <2>. QED
    BY <1>1, <1>2, <2>1 DEF Unraced, OldGone, FeedsTypeOK, Struct
<1>6. NewKnown'
  BY <1>1, MadeTypes DEF Unraced, NewKnown, Struct
<1>7. OffList'
  <2>1. \A w \in Replacing : wakes[w].new \in FeedId
    BY DEF Replacing, Struct, WakeInv, Making
  <2>. QED
    BY <1>1, <1>2, <2>1, MadeTypes DEF Unraced, OffList, Struct
<1>8. Reached'
  BY <1>1, <1>2 DEF Unraced, Reached, Alive
<1>. QED
  BY <1>3, <1>4, <1>5, <1>6, <1>7, <1>8 DEF Unraced

(* A feed that createAll() makes is returned and known, or rejected.         *)
LEMMA CreateEndsUnraced ==
  ASSUME Struct, Unraced, UNCHANGED <<list, check, wakes>>,
         NEW f \in CreateMaking,
         \/ /\ Goes(f, "returned", feeds[f].life)
            /\ known' = [known EXCEPT ![feeds[f].chain] = f]
         \/ Goes(f, "rejected", "closed") /\ UNCHANGED known
  PROVE  Unraced'
<1>1. /\ f \in FeedId /\ f \in Making /\ feeds[f].by = "createAll"
      /\ feeds[f].chain \in Chain
  BY DEF CreateMaking, Making, Struct, FeedInv
<1>2. \A g \in FeedId : /\ feeds'[g].chain = feeds[g].chain
                        /\ feeds'[g].by = feeds[g].by
                        /\ feeds'[g].gone = feeds[g].gone
                        /\ g # f => feeds'[g] = feeds[g]
  BY DEF Goes
<1>3. /\ Making' = Making \ {f} /\ CreateMaking' = CreateMaking \ {f}
      /\ Replacing' = Replacing
  BY <1>1 DEF Making, CreateMaking, Replacing, Goes
<1>4. list = <<>> /\ Replacing = {}
  BY DEF Unraced, CreateAlone
<1>5. CreateAlone' /\ InMade' /\ OffList'
  BY <1>3, <1>4 DEF Unraced, CreateAlone, InMade, OffList
<1>6. OneMaking' /\ OneListed'
  BY <1>2, <1>3, MadeTypes DEF Unraced, OneMaking, OneListed, Struct
<1>7. \A g \in CreateMaking \ {f} :
         /\ feeds[g].chain \in Chain /\ g \in FeedId
         /\ feeds[g].chain # feeds[f].chain
  BY DEF CreateMaking, Making, Struct, FeedInv, Unraced, OneMaking
<1>8. \A c \in Chain \ {feeds[f].chain} : known'[c] = known[c]
  BY <1>1 DEF Struct, FeedsTypeOK
<1>9. OldGone'
  <2>1. \A c \in Chain : known[c] \in FeedId \union {0}
    BY DEF Struct, FeedsTypeOK
  <2>. QED
    BY <1>2, <1>3, <1>7, <1>8, <2>1 DEF Unraced, OldGone
<1>10. NewKnown'
  <2>1. ASSUME NEW k \in 1..Len(check.made),
               feeds'[check.made[k]].call = "returned"
        PROVE  known'[k] = check.made[k]
    <3>1. check.pc = "create" /\ feeds[check.made[k]].chain = k
      BY <2>1 DEF Struct, MadeInv
    <3>2. k \in Chain /\ check.made[k] \in FeedId
      BY <3>1, MadeTypes DEF Struct, MadeInv, FeedInv
    <3>3. CASE check.made[k] = f
      <4>1. known' = [known EXCEPT ![feeds[f].chain] = f]
        BY <2>1, <3>3 DEF Goes
      <4>. QED
        BY <3>1, <3>2, <3>3, <4>1 DEF Struct, FeedsTypeOK
    <3>4. CASE check.made[k] # f
      <4>1. feeds[check.made[k]].call = "returned" /\ known[k] = check.made[k]
        BY <1>2, <2>1, <3>2, <3>4 DEF Unraced, NewKnown
      <4>2. k # feeds[f].chain
        <5>1. f \in Range(check.made)
          BY <3>1 DEF Unraced, InMade
        <5>2. PICK l \in 1..Len(check.made) : check.made[l] = f
          BY <5>1, MadeTypes, InRange DEF Struct
        <5>. QED
          BY <3>4, <5>2 DEF Struct, MadeInv
      <4>. QED
        BY <1>8, <3>2, <4>1, <4>2
    <3>. QED
      BY <3>3, <3>4
  <2>. QED
    BY <2>1 DEF NewKnown
<1>11. Reached'
  <2>1. CASE /\ Goes(f, "returned", feeds[f].life)
             /\ known' = [known EXCEPT ![feeds[f].chain] = f]
    <3>1. known'[feeds[f].chain] = f
      BY <1>1, <2>1 DEF Struct, FeedsTypeOK
    <3>2. ASSUME NEW g \in FeedId, g # f, known[feeds[g].chain] = g, Alive(g),
                 ~feeds[g].gone
          PROVE  known'[feeds[g].chain] = g
      <4>1. feeds[g].chain \in Chain
        BY <3>2 DEF Struct, FeedInv, Alive
      <4>2. feeds[g].chain # feeds[f].chain
        BY <1>1, <3>2, FeedBounds DEF Unraced, OldGone
      <4>. QED
        BY <1>8, <3>2, <4>1, <4>2
    <3>. QED
      BY <1>2, <1>3, <1>4, <2>1, <3>1, <3>2 DEF Unraced, Reached, Alive
  <2>2. CASE Goes(f, "rejected", "closed") /\ UNCHANGED known
    BY <1>2, <1>3, <2>2 DEF Unraced, Reached, Alive, Goes
  <2>. QED
    BY <2>1, <2>2
<1>. QED
  BY <1>5, <1>6, <1>9, <1>10, <1>11 DEF Unraced

(* A request takes a feed off the list and makes it again.                   *)
LEMMA TakenUnraced ==
  ASSUME Struct, Struct', Unraced, NEW w \in Waker, TakenOff(w), ~raced'
  PROVE  Unraced'
<1>. DEFINE f == wakes[w].feed
<1>1. PICK new \in Unheld :
          /\ Makes(new, {f}, Host(w), "wake")
          /\ wakes' = [wakes EXCEPT ![w] = [wakes[w] EXCEPT !.pc = "recreating",
                                                            !.new = new]]
  BY DEF TakenOff
<1>2. /\ new \in FeedId /\ new \notin Making /\ new \notin Range(list)
      /\ new \notin Range(check.made) /\ \A c \in Chain : new # known[c]
      /\ \A v \in Waker : new # wakes[v].new
  BY NewFeed, Unknown
<1>3. /\ f \in Range(list) /\ UNCHANGED <<known, check>> /\ f \in FeedId
  BY DEF TakenOff
<1>4. Range(list') = Range(list) \ {f}
  BY Taking DEF TakenOff, Struct, FeedsTypeOK, ListInv
<1>5. list # <<>>
  BY <1>3, RangeEmpty
<1>6. check.pc # "create" /\ CreateMaking = {} /\ check.made = <<>>
  BY <1>5 DEF Unraced, CreateAlone, Struct, MadeInv
<1>7. /\ Making' = Making \union {new} /\ CreateMaking' = CreateMaking
  BY <1>1, <1>2 DEF Making, CreateMaking, Makes
<1>8. /\ Replacing' = Replacing \union {w} /\ wakes'[w].new = new
      /\ \A v \in Waker \ {w} : wakes'[v] = wakes[v]
  BY <1>1 DEF Replacing, Struct, FeedsTypeOK, Wake
<1>9. CreateAlone' /\ InMade' /\ OneMaking' /\ OldGone' /\ NewKnown'
  BY <1>3, <1>6, <1>7 DEF CreateAlone, InMade, OneMaking, OldGone, NewKnown
<1>10. OneListed'
  BY <1>1, <1>2, <1>4, MadeTypes DEF Unraced, OneListed, Makes, Struct
<1>11. OffList'
  <2>1. ASSUME NEW v \in Replacing, v # w, NEW g \in Range(list')
        PROVE  feeds'[g].chain # feeds'[wakes'[v].new].chain
    <3>1. wakes'[v].new = wakes[v].new /\ wakes[v].new \in FeedId \ {new}
      BY <1>2, <1>8, <2>1 DEF Replacing, Struct, WakeInv, Making
    <3>2. g \in Range(list) /\ g \in FeedId \ {new}
      BY <1>2, <1>4, MadeTypes DEF Struct
    <3>. QED
      BY <1>1, <2>1, <3>1, <3>2 DEF Unraced, OffList, Makes
  <2>2. ASSUME NEW g \in Range(list')
        PROVE  feeds'[g].chain # feeds'[new].chain
    <3>1. g \in Range(list) /\ g # f /\ g \in FeedId \ {new}
      BY <1>2, <1>4, MadeTypes DEF Struct
    <3>2. feeds[g].chain # feeds[f].chain
      BY <1>3, <3>1 DEF Unraced, OneListed
    <3>. QED
      BY <1>1, <3>1, <3>2 DEF Makes, Host
  <2>. QED
    BY <1>8, <2>1, <2>2 DEF OffList
<1>12. Reached'
  <2>1. feeds'[f].gone
    BY <1>1, <1>2, <1>3 DEF Makes
  <2>. QED
    BY <1>1, <1>3, <1>4, <1>5, <1>7, <2>1 DEF Unraced, Reached, Makes, Alive
<1>. QED
  BY <1>9, <1>10, <1>11, <1>12 DEF Unraced

(* A request turns to another feed, or the feed that it makes is returned or
   rejected.                                                                 *)
LEMMA TurnsUnraced ==
  ASSUME Struct, Unraced, NEW w \in Waker, Turns(w)
  PROVE  Unraced'
<1>1. CASE UNCHANGED <<feeds, list>> /\ wakes[w].pc # "recreating"
  <2>1. /\ Making' = Making /\ CreateMaking' = CreateMaking
        /\ Replacing' = Replacing /\ UNCHANGED <<feeds, list, known, check>>
        /\ \A v \in Replacing : wakes'[v].new = wakes[v].new
    BY <1>1 DEF Turns, Making, CreateMaking, Replacing
  <2>2. CreateAlone' /\ InMade' /\ OneMaking' /\ OldGone' /\ NewKnown' /\ OneListed'
        /\ OffList'
    BY <2>1 DEF Unraced, CreateAlone, InMade, OneMaking, OldGone, NewKnown,
                OneListed, OffList
  <2>3. Reached'
    BY <2>1 DEF Unraced, Reached, Alive
  <2>. QED
    BY <2>2, <2>3 DEF Unraced
<1>2. CASE wakes[w].pc = "recreating"
  <2>. DEFINE n == wakes[w].new
  <2>1. /\ w \in Replacing /\ n \in FeedId /\ n \in Making /\ feeds[n].by = "wake"
        /\ \A v \in Replacing \ {w} : feeds[wakes[v].new].chain # feeds[n].chain
    BY <1>2 DEF Replacing, Struct, WakeInv, Making
  <2>2. /\ check.pc # "create" /\ CreateMaking = {} /\ check.made = <<>>
        /\ UNCHANGED <<known, check>>
    BY <2>1 DEF Unraced, CreateAlone, Struct, MadeInv, Turns
  <2>3. \/ Goes(n, "returned", feeds[n].life) /\ list' = Append(list, n)
        \/ Goes(n, "rejected", "closed") /\ UNCHANGED list
    BY <1>2 DEF Turns
  <2>4. \A g \in FeedId : /\ feeds'[g].chain = feeds[g].chain
                          /\ feeds'[g].by = feeds[g].by
                          /\ feeds'[g].gone = feeds[g].gone
                          /\ g # n => feeds'[g] = feeds[g]
    BY <2>3 DEF Goes
  <2>5. /\ Making' = Making \ {n} /\ CreateMaking' = CreateMaking
        /\ Replacing' = Replacing \ {w}
        /\ \A v \in Replacing' : wakes'[v].new = wakes[v].new
    <3>1. Making' = Making \ {n}
      BY <2>1, <2>3, <2>4 DEF Making, Goes
    <3>2. CreateMaking' = CreateMaking
      <4>. HIDE DEF n
      <4>1. \A g \in FeedId : g \in CreateMaking' <=> g \in CreateMaking
        BY <2>1, <2>4, <3>1 DEF CreateMaking
      <4>2. CreateMaking' \subseteq FeedId /\ CreateMaking \subseteq FeedId
        BY DEF CreateMaking, Making
      <4>. QED
        BY <4>1, <4>2
    <3>3. /\ Replacing' = Replacing \ {w}
          /\ \A v \in Replacing' : wakes'[v].new = wakes[v].new
      BY <2>1 DEF Replacing, Turns
    <3>. QED
      BY <3>1, <3>2, <3>3
  <2>6. \/ Range(list') = Range(list) \union {n} /\ Goes(n, "returned", feeds[n].life)
        \/ Range(list') = Range(list) /\ Goes(n, "rejected", "closed")
    <3>1. list \in Seq(FeedId) /\ n \in FeedId
      BY <2>1 DEF Struct, FeedsTypeOK
    <3>2. Range(Append(list, n)) = Range(list) \union {n}
      BY <3>1, RangeAppend
    <3>. QED
      BY <2>3, <3>2
  <2>7. \A g \in Range(list) : g \in FeedId /\ feeds[g].chain # feeds[n].chain
    BY <2>1, MadeTypes DEF Unraced, OffList, Struct
  <2>8. CreateAlone' /\ InMade' /\ OneMaking' /\ OldGone' /\ NewKnown'
    BY <2>2, <2>5 DEF CreateAlone, InMade, OneMaking, OldGone, NewKnown
  <2>9. OneListed'
    BY <2>1, <2>4, <2>6, <2>7 DEF Unraced, OneListed
  <2>10. OffList'
    <3>1. \A v \in Replacing' : wakes[v].new \in FeedId /\ v \in Replacing \ {w}
      BY <2>5 DEF Struct, WakeInv, Replacing, Making
    <3>. QED
      BY <2>1, <2>4, <2>5, <2>6, <2>7, <3>1 DEF Unraced, OffList
  <2>11. Reached'
    BY <2>1, <2>2, <2>4, <2>5, <2>6 DEF Unraced, Reached, Alive, Goes
  <2>. QED
    BY <2>8, <2>9, <2>10, <2>11 DEF Unraced
<1>. QED
  BY <1>1, <1>2 DEF Turns

LEMMA UnracedStart ==
  /\ FeedsInit => Unraced
  /\ FeedsTypeOK /\ Restart => Unraced'
<1>1. ASSUME list = <<>>, check.pc = "none", check.made = <<>>,
             \A f \in FeedId : feeds[f].call = "none" /\ feeds[f].life = "none",
             \A w \in Waker : wakes[w].pc \in {"idle", "failed"}
      PROVE  Unraced
  BY <1>1, RangeEmpty DEF Unraced, CreateAlone, InMade, OneMaking, OldGone,
     NewKnown, OneListed, OffList, Reached, Alive, CreateMaking, Making, Replacing
<1>2. ASSUME FeedsInit PROVE Unraced
  <2>1. /\ list = <<>> /\ check.pc = "none" /\ check.made = <<>>
        /\ \A f \in FeedId : feeds[f].call = "none" /\ feeds[f].life = "none"
        /\ \A w \in Waker : wakes[w].pc \in {"idle", "failed"}
    BY <1>2 DEF FeedsInit, NoFeed, NoCheck, NoWake
  <2>. QED
    BY <1>1, <2>1
<1>3. ASSUME FeedsTypeOK, Restart PROVE Unraced'
  <2>1. /\ list' = <<>> /\ check'.pc = "none" /\ check'.made = <<>>
        /\ \A f \in FeedId : feeds'[f].call = "none" /\ feeds'[f].life = "none"
        /\ \A w \in Waker : wakes'[w].pc \in {"idle", "failed"}
    BY <1>3, RestartReads
  <2>. QED
    BY <2>1, RangeEmpty DEF Unraced, CreateAlone, InMade, OneMaking, OldGone,
     NewKnown, OneListed, OffList, Reached, Alive, CreateMaking, Making, Replacing
<1>. QED
  BY <1>2, <1>3

LEMMA UnracedStep ==
  ASSUME Struct, Struct', ~raced => Unraced, [FeedsNext]_feedsVars, ~raced'
  PROVE  Unraced'
<1>1. CASE UNCHANGED feedsVars
  <2>1. UNCHANGED <<feeds, list, known, check, wakes, raced>>
    BY <1>1 DEF feedsVars
  <2>. QED
    BY <2>1, Living, LivesUnraced DEF Struct, FeedsTypeOK
<1>2. CASE Logout \/ Fail \/ \E f \in FeedId : Aftermath(f)
  BY <1>2, LivesStep, LivesUnraced
<1>3. CASE Alarm \/ Login
  <2>1. UNCHANGED <<feeds, list, known, check, wakes, raced>>
    BY <1>3 DEF Alarm, Login
  <2>. QED
    BY <2>1, Living, LivesUnraced DEF Struct, FeedsTypeOK
<1>4. CASE Begin
  <2>1. UNCHANGED <<feeds, list, known, wakes>> /\ check.pc = "none"
    BY <1>4 DEF Begin
  <2>2. check.made = <<>>
    BY <2>1 DEF Struct, MadeInv
  <2>3. CASE list = <<>> /\ BeginCreate
    <3>1. ~raced /\ ~Meets /\ check'.made = <<>>
      BY <2>3 DEF BeginCreate, NoCheck
    <3>. QED
      BY <2>1, <2>2, <2>3, <3>1, BeginUnraced
  <2>4. CASE UNCHANGED raced /\ (UNCHANGED check \/ check' \in CheckAt(1))
    <3>1. check'.pc # "create" /\ check'.made = <<>>
      BY <2>1, <2>2, <2>4, CheckNext DEF Struct, FeedsTypeOK
    <3>. QED
      BY <2>1, <2>4, <3>1, CheckUnraced
  <2>. QED
    BY <1>4, <2>3, <2>4 DEF Begin
<1>5. CASE Answers \/ FollowOver \/ FollowNext \/ Offline
  <2>1. UNCHANGED <<feeds, list, known, wakes, raced>>
    BY <1>5 DEF Answers, FollowOver, FollowNext, Offline
  <2>2. check'.pc # "create" /\ check'.made = <<>>
    <3>1. CASE Answers
      <4>1. check.i + 1 \in Nat \ {0} /\ list \in Seq(FeedId)
        BY DEF Struct, FeedsTypeOK, Check
      <4>. QED
        BY <3>1, <4>1, CheckNext DEF Answers
    <3>2. CASE FollowOver \/ Offline
      BY <3>2 DEF FollowOver, Offline, EndCheck, NoCheck
    <3>3. CASE FollowNext
      <4>1. check.pc = "follow" /\ check.made = <<>> /\ check \in Check
        BY <3>3 DEF FollowNext, Struct, MadeInv, FeedsTypeOK
      <4>2. check' = [check EXCEPT !.i = @ + 1] \/ check' = NoCheck
        BY <3>3 DEF FollowNext, EndCheck
      <4>. QED
        BY <4>1, <4>2 DEF Check, NoCheck
    <3>. QED
      BY <1>5, <3>1, <3>2, <3>3
  <2>. QED
    BY <2>1, <2>2, CheckUnraced
<1>6. CASE Silent
  BY <1>6, MakeReads, RemadeUnraced DEF Remade, Silent
<1>7. CASE Create
  BY <1>7, MakeReads, CreateUnraced DEF Begun
<1>8. ASSUME NEW w \in Waker, WakeReplaces(w) PROVE Unraced'
  <2>1. ~raced
    BY <1>8 DEF WakeReplaces
  <2>. QED
    BY <1>8, <2>1, MakeReads, TakenUnraced
<1>9. CASE Dropped \/ RecreateFails
  <2>1. UNCHANGED <<list, known, wakes, raced>> /\ check.pc = "recreating"
    BY <1>9 DEF Dropped, RecreateFails
  <2>2. \/ Goes(check.new, "returned", feeds[check.new].life)
        \/ Goes(check.new, "rejected", "closed")
    BY <1>9, <2>1, Going
       DEF Dropped, RecreateFails, Struct, FeedsTypeOK, CheckInv, Making
  <2>3. check'.made = <<>> /\ check'.pc # "create"
    <3>1. check.i + 1 \in Nat \ {0} /\ list \in Seq(FeedId)
      BY DEF Struct, FeedsTypeOK, Check
    <3>. QED
      BY <1>9, <3>1, CheckNext DEF Dropped, RecreateFails, EndCheck, NoCheck
  <2>. QED
    BY <2>1, <2>2, <2>3, RemadeEndsUnraced
<1>10. CASE Settle
  <2>1. /\ UNCHANGED <<feeds, known, wakes, raced>> /\ Served /\ check' = NoCheck
        /\ check'.pc # "create" /\ check'.made = <<>>
    BY <1>10 DEF Settle, EndCheck, NoCheck
  <2>2. CASE UNCHANGED list
    BY <2>1, <2>2, CheckUnraced
  <2>3. CASE /\ \A f \in Range(check.made) : feeds[f].call = "returned"
             /\ list' = list \o check.made
    BY <2>1, <2>3, SettleUnraced
  <2>. QED
    BY <1>10, <2>2, <2>3 DEF Settle
<1>11. ASSUME NEW f \in FeedId, Opens(f) PROVE Unraced'
  BY <1>11, Going, OpensUnraced DEF Opens, Struct, FeedsTypeOK
<1>12. ASSUME NEW f \in FeedId, Resolve(f) \/ Reject(f) PROVE Unraced'
  <2>1. UNCHANGED <<list, check, wakes, raced>> /\ f \in CreateMaking
    BY <1>12 DEF Resolve, Reject, CreateMaking, Making
  <2>2. \/ /\ Goes(f, "returned", feeds[f].life)
           /\ known' = [known EXCEPT ![feeds[f].chain] = f]
        \/ Goes(f, "rejected", "closed") /\ UNCHANGED known
    BY <1>12, Going DEF Resolve, Reject, Struct, FeedsTypeOK
  <2>. QED
    BY <2>1, <2>2, CreateEndsUnraced
<1>13. ASSUME NEW w \in Waker,
              \/ WakeBegin(w) \/ WakeLocks(w) \/ WakeAnswered(w)
              \/ WakeReplaced(w) \/ WakeFails(w)
       PROVE  Unraced'
  BY <1>13, WakeReads, TurnsUnraced DEF Turns
<1>14. CASE Restart
  BY <1>14, UnracedStart DEF Struct
<1>. QED
  BY <1>1, <1>2, <1>3, <1>4, <1>5, <1>6, <1>7, <1>8, <1>9, <1>10, <1>11, <1>12,
     <1>13, <1>14 DEF FeedsNext, CheckStep, NodeStep, WakeStep

(* Until two make feeds of the same chains at once, the list has one feed of a
   chain, whichever locks checks and requests hold.                          *)
THEOREM OneFeed == FeedsSpec => []OneListedPerChain
<1>. DEFINE Inv == Struct /\ (~raced => Unraced)
<1>1. FeedsInit => Inv
  BY StructInit, UnracedStart
<1>2. Inv /\ [FeedsNext]_feedsVars => Inv'
  BY StructStep, UnracedStep
<1>3. Inv => OneListedPerChain
  BY DEF Unraced, OneListed, OneListedPerChain
<1>. QED
  BY <1>1, <1>2, <1>3, PTL DEF FeedsSpec

(* Until then, a connection gets out of reach only as the feed of a check or as
   one that had healed when it was destroyed.                                *)
THEOREM AllReachable == FeedsSpec => []Reachable
<1>. DEFINE Inv == Struct /\ (~raced => Unraced)
<1>1. FeedsInit => Inv
  BY StructInit, UnracedStart
<1>2. Inv /\ [FeedsNext]_feedsVars => Inv'
  BY StructStep, UnracedStep
<1>3. Inv => Reachable
  BY DEF Unraced, Reached, Reachable, Connected, Alive
<1>. QED
  BY <1>1, <1>2, <1>3, PTL DEF FeedsSpec

-----------------------------------------------------------------------------
(* The neighbours that a request to wake found deaf.  Nobody else takes feeds
   off the list while there are any; they stay deaf; and as long as both are on
   the list, side by side, the request has not passed the second one.        *)
Alone == \A w \in Waking : wakes[w].pairs # {} => Waking = {w}
Deafened ==
    \A w \in Waker : \A p \in wakes[w].pairs : \A f \in {p[1], p[2]} :
        /\ f \in FeedId /\ Deaf(f) /\ feeds[f].call = "returned"
        /\ f \notin Range(check.made)
Listed(p) == p[1] \in Range(list) /\ p[2] \in Range(list)
Beside(p, i) ==
    \E k \in 1..Len(list) : /\ k + 1 <= Len(list) /\ i <= k + 1
                            /\ list[k] = p[1] /\ list[k + 1] = p[2]
Place(w) == IF wakes[w].pc = "recreating" THEN wakes[w].i + 1 ELSE wakes[w].i
Ahead ==
    \A w \in Waking : \A p \in wakes[w].pairs : Listed(p) => Beside(p, Place(w))
AtHand ==
    \A w \in Waking : wakes[w].pairs # {} /\ wakes[w].pc # "recreating" =>
        wakes[w].i \in 1..Len(list) /\ list[wakes[w].i] = wakes[w].feed
Healed ==
    \A w \in Waker \ Waking : \A p \in wakes[w].pairs : ~Listed(p)
Paired == Alone /\ Deafened /\ Ahead /\ AtHand /\ Healed

(* A deaf feed that somebody watches stays deaf.                             *)
Watches(f) == \E w \in Waker : \E p \in wakes[w].pairs : f \in {p[1], p[2]}
StaysDeaf ==
    \A f \in FeedId : Watches(f) /\ Deaf(f) /\ feeds[f].call = "returned" =>
        Deaf(f)' /\ feeds'[f].call = "returned"

LEMMA Deafness ==
  ASSUME Struct
  PROVE  /\ Lives => StaysDeaf
         /\ \A new, gone, c, by : Makes(new, gone, c, by) => StaysDeaf
         /\ \A f \in Making : \A call, life : Goes(f, call, life) => StaysDeaf
<1>1. Lives => StaysDeaf
  BY DEF Lives, StaysDeaf
<1>2. ASSUME NEW new, NEW gone, NEW c, NEW by, Makes(new, gone, c, by)
      PROVE  StaysDeaf
  <2>1. \A w \in Waker : \A p \in wakes[w].pairs : new # p[1] /\ new # p[2]
    BY <1>2, Unknown DEF Makes
  <2>2. ~Watches(new)
    BY <2>1 DEF Watches
  <2>. QED
    BY <1>2, <2>2 DEF Makes, StaysDeaf, Deaf
<1>3. ASSUME NEW f \in Making, NEW call, NEW life, Goes(f, call, life)
      PROVE  StaysDeaf
  BY <1>3 DEF Goes, StaysDeaf, Deaf, Making
<1>. QED
  BY <1>1, <1>2, <1>3

LEMMA DeafKept ==
  ASSUME Struct, Deafened, StaysDeaf,
         \A w \in Waker : wakes'[w].pairs \subseteq wakes[w].pairs,
         \A f \in FeedId : Watches(f) /\ f \in Range(check'.made) =>
                             f \in Range(check.made)
  PROVE  Deafened'
<1>. SUFFICES ASSUME NEW w \in Waker, NEW p \in wakes'[w].pairs, NEW f \in {p[1], p[2]}
              PROVE  /\ f \in FeedId /\ Deaf(f)' /\ feeds'[f].call = "returned"
                     /\ f \notin Range(check'.made)
  BY DEF Deafened
<1>1. p \in wakes[w].pairs
  OBVIOUS
<1>2. Watches(f)
  BY <1>1 DEF Watches
<1>. QED
  BY <1>1, <1>2 DEF Deafened, StaysDeaf

(* The list and the requests are as before.                                  *)
LEMMA PairsKept ==
  ASSUME Struct, Paired, UNCHANGED <<list, wakes>>, StaysDeaf,
         \A f \in FeedId : Watches(f) /\ f \in Range(check'.made) =>
                             f \in Range(check.made)
  PROVE  Paired'
<1>1. Deafened'
  BY DeafKept DEF Paired
<1>2. Waking' = Waking
  BY DEF Waking
<1>3. Alone' /\ Ahead' /\ AtHand' /\ Healed'
  BY <1>2 DEF Paired, Alone, Ahead, AtHand, Healed, Listed, Beside, Place
<1>. QED
  BY <1>1, <1>3 DEF Paired

(* Feeds go to the end of the list that nobody watches.                      *)
LEMMA BesideGrows ==
  ASSUME list \in Seq(FeedId), NEW s \in Seq(FeedId), list' = list \o s,
         NEW p, p[1] \notin Range(s), p[2] \notin Range(s)
  PROVE  /\ Listed(p)' => Listed(p)
         /\ \A i : Beside(p, i) => Beside(p, i)'
         /\ \A i \in 1..Len(list) : i \in 1..Len(list') /\ list'[i] = list[i]
<1>1. /\ list' \in Seq(FeedId) /\ Len(list') = Len(list) + Len(s)
      /\ \A k \in 1..Len(list') : list'[k] = IF k <= Len(list) THEN list[k]
                                            ELSE s[k - Len(list)]
      /\ Len(list) \in Nat /\ Len(s) \in Nat
  BY Concatenation
<1>2. ASSUME NEW k \in 1..Len(list')
      PROVE  list'[k] \in Range(list) \/ list'[k] \in Range(s)
  <2>1. CASE k <= Len(list)
    BY <1>1, <2>1, InRange
  <2>2. CASE k > Len(list)
    <3>1. k - Len(list) \in 1..Len(s)
      BY <1>1, <2>2
    <3>. QED
      BY <1>1, <2>2, <3>1, InRange
  <2>. QED
    BY <1>1, <2>1, <2>2
<1>3. \A x : x \in Range(list') => \E k \in 1..Len(list') : list'[k] = x
  <2>1. list' \in Seq(FeedId)
    BY <1>1
  <2>2. ASSUME NEW x \in Range(list')
        PROVE  \E k \in 1..Len(list') : list'[k] = x
    BY <2>1 DEF Range
  <2>. QED
    BY <2>2
<1>4. Listed(p)' => Listed(p)
  BY <1>2, <1>3 DEF Listed
<1>5. \A k \in 1..Len(list) : k \in 1..Len(list') /\ list'[k] = list[k]
  BY <1>1
<1>6. ASSUME NEW i, Beside(p, i) PROVE Beside(p, i)'
  <2>1. PICK k \in 1..Len(list) : /\ k + 1 <= Len(list) /\ i <= k + 1
                                  /\ list[k] = p[1] /\ list[k + 1] = p[2]
    BY <1>6 DEF Beside
  <2>2. k + 1 \in 1..Len(list)
    BY <1>1, <2>1
  <2>3. k \in 1..Len(list') /\ k + 1 <= Len(list')
        /\ list'[k] = p[1] /\ list'[k + 1] = p[2]
    BY <1>1, <1>5, <2>1, <2>2
  <2>. QED
    BY <2>1, <2>3 DEF Beside
<1>. QED
  BY <1>4, <1>5, <1>6

LEMMA SettlePairs ==
  ASSUME Struct, Paired, UNCHANGED <<feeds, wakes>>, list' = list \o check.made,
         check'.made = <<>>
  PROVE  Paired'
<1>1. Deafened'
  <2>1. StaysDeaf
    BY DEF StaysDeaf, Deaf
  <2>. QED
    BY <2>1, DeafKept, RangeEmpty DEF Paired
<1>2. Waking' = Waking
  BY DEF Waking
<1>3. \A w \in Waker : \A p \in wakes[w].pairs :
         p[1] \notin Range(check.made) /\ p[2] \notin Range(check.made)
  BY DEF Paired, Deafened
<1>4. list \in Seq(FeedId) /\ check.made \in Seq(FeedId)
  BY MadeTypes DEF Struct
<1>5. \A w \in Waker : \A p \in wakes[w].pairs :
         /\ Listed(p)' => Listed(p)
         /\ \A i : Beside(p, i) => Beside(p, i)'
  BY <1>3, <1>4, BesideGrows
<1>6. \A w \in Waker : wakes[w].pairs # {} => \A i \in 1..Len(list) :
         i \in 1..Len(list') /\ list'[i] = list[i]
  BY <1>3, <1>4, BesideGrows
<1>7. Alone' /\ Healed'
  BY <1>2, <1>5 DEF Paired, Alone, Healed
<1>8. Ahead'
  <2>1. \A w \in Waking : Place(w)' = Place(w) /\ wakes'[w].pairs = wakes[w].pairs
    BY DEF Place
  <2>2. ASSUME NEW w \in Waking', NEW p \in wakes'[w].pairs, Listed(p)'
        PROVE  Beside(p, Place(w))'
    <3>1. w \in Waking /\ p \in wakes[w].pairs /\ w \in Waker
      BY <1>2 DEF Waking
    <3>2. Beside(p, Place(w))
      BY <1>5, <2>2, <3>1 DEF Paired, Ahead
    <3>3. \A i : Beside(p, i) => Beside(p, i)'
      BY <1>5, <3>1
    <3>. QED
      BY <3>2, <3>3 DEF Place
  <2>. QED
    BY <2>2 DEF Ahead
<1>9. AtHand'
  <2>1. \A w \in Waking : w \in Waker
    BY DEF Waking
  <2>. QED
    BY <1>2, <1>6, <2>1 DEF Paired, AtHand
<1>. QED
  BY <1>1, <1>7, <1>8, <1>9 DEF Paired

(* A request takes the feed at hand off the list.                            *)
LEMMA TakenPairs ==
  ASSUME Struct, Paired, NEW w \in Waker, TakenOff(w)
  PROVE  Paired'
<1>. DEFINE f == wakes[w].feed
<1>1. PICK new \in Unheld :
          /\ Makes(new, {f}, Host(w), "wake")
          /\ wakes' = [wakes EXCEPT ![w] = [wakes[w] EXCEPT !.pc = "recreating",
                                                            !.new = new]]
  BY DEF TakenOff
<1>2. /\ wakes'[w].pc = "recreating" /\ wakes'[w].pairs = wakes[w].pairs
      /\ wakes'[w].i = wakes[w].i
      /\ \A v \in Waker \ {w} : wakes'[v] = wakes[v]
  BY <1>1 DEF Struct, FeedsTypeOK, Wake
<1>3. /\ Waking' = Waking /\ w \in Waking /\ wakes[w].pc = "waking"
      /\ check' = check
  BY <1>2 DEF Waking, TakenOff
<1>4. Deafened'
  <2>1. StaysDeaf
    BY <1>1, Deafness
  <2>. QED
    BY <1>2, <1>3, <2>1, DeafKept DEF Paired
<1>5. Alone'
  BY <1>2, <1>3 DEF Paired, Alone, Waking
<1>6. AtHand'
  <2>1. \A v \in Waking \ {w} : wakes[v].pairs = {} \/ Waking = {v}
    BY DEF Paired, Alone
  <2>. QED
    BY <1>2, <1>3, <2>1 DEF AtHand, Waking
<1>7. /\ list \in Seq(FeedId) /\ list' \in Seq(FeedId) /\ Distinct(list)
      /\ Range(list') = Range(list) \ {f}
  BY Taking, MadeTypes DEF TakenOff, Struct, ListInv
<1>8. \A p : Listed(p)' => Listed(p) /\ p[1] # f /\ p[2] # f
  BY <1>7 DEF Listed
<1>9. Healed'
  BY <1>2, <1>3, <1>8 DEF Paired, Healed, Waking
<1>10. ASSUME NEW p \in wakes[w].pairs, Listed(p)'
       PROVE  Beside(p, Place(w))'
  <2>1. Waking = {w} /\ wakes[w].i \in 1..Len(list) /\ list[wakes[w].i] = f
    BY <1>3, <1>10 DEF Paired, Alone, AtHand
  <2>. DEFINE i == wakes[w].i
  <2>2. f \in Range(list)
    BY <1>7, <2>1, InRange
  <2>3. \A k \in Places(f) : k = i
    BY <1>7, <2>1 DEF Places, Distinct
  <2>4. i \in Places(f)
    BY <1>7, <2>1 DEF Places
  <2>5. list' = RemoveAt(list, i)
    <3>1. (CHOOSE k \in Places(f) : TRUE) \in Places(f) /\ Places(f) # {}
      BY <2>4
    <3>. QED
      BY <2>3, <3>1 DEF TakenOff, Without
  <2>6. /\ Len(list') = Len(list) - 1
        /\ \A k \in 1..(Len(list) - 1) :
              list'[k] = IF k < i THEN list[k] ELSE list[k + 1]
        /\ Len(list) \in Nat /\ i \in Nat
    <3>. DEFINE r == RemoveAt(list, i)
    <3>1. /\ Len(r) = Len(list) - 1
          /\ \A k \in 1..(Len(list) - 1) : r[k] = IF k < i THEN list[k] ELSE list[k + 1]
      BY <1>7, <2>1, Removing
    <3>2. list' = r
      BY <2>5
    <3>. HIDE DEF r
    <3>. QED
      BY <1>7, <2>1, <3>1, <3>2
  <2>7. Listed(p) /\ p[1] # f /\ p[2] # f
    BY <1>8, <1>10
  <2>8. Beside(p, i)
    BY <1>3, <2>7 DEF Paired, Ahead, Place
  <2>9. PICK k \in 1..Len(list) : /\ k + 1 <= Len(list) /\ i <= k + 1
                                  /\ list[k] = p[1] /\ list[k + 1] = p[2]
    BY <2>8 DEF Beside
  <2>10. k # i /\ k + 1 # i
    BY <2>1, <2>7, <2>9
  <2>11. k - 1 \in 1..Len(list') /\ k \in 1..Len(list') /\ i + 1 <= k /\ i >= 1
    BY <2>1, <2>6, <2>9, <2>10
  <2>12. list'[k - 1] = list[k] /\ list'[k] = list[k + 1]
    <3>1. /\ k - 1 \in 1..(Len(list) - 1) /\ k \in 1..(Len(list) - 1)
          /\ ~(k - 1 < i) /\ ~(k < i) /\ (k - 1) + 1 = k
      BY <2>6, <2>11
    <3>. QED
      BY <2>6, <3>1
  <2>13. /\ k - 1 \in 1..Len(list') /\ (k - 1) + 1 <= Len(list')
         /\ i + 1 <= (k - 1) + 1 /\ (k - 1) + 1 = k
    BY <2>6, <2>11
  <2>14. list'[k - 1] = p[1] /\ list'[(k - 1) + 1] = p[2]
    BY <2>9, <2>12, <2>13
  <2>15. Beside(p, i + 1)'
    BY <1>2, <2>13, <2>14 DEF Beside
  <2>. QED
    BY <1>2, <2>15 DEF Place, Beside
<1>11. Ahead'
  <2>1. \A v \in Waking \ {w} : wakes[v].pairs = {} \/ Waking = {v}
    BY DEF Paired, Alone
  <2>. QED
    BY <1>2, <1>3, <1>10, <2>1 DEF Ahead, Waking
<1>. QED
  BY <1>4, <1>5, <1>6, <1>9, <1>11 DEF Paired

(* A request that goes on to the next place has not passed both feeds of a pair,
   unless it goes past the end.                                              *)
LEMMA AheadMoves ==
  ASSUME NEW w \in Waker, NEW l \in Seq(FeedId), NEW i \in Nat \ {0},
         FeedsTypeOK, SetWake(w, WakeAt(w, i, l)), list' = l,
         \A p \in wakes[w].pairs : Listed(p)' => Beside(p, i)'
  PROVE  /\ wakes'[w].pairs = wakes[w].pairs /\ wakes'[w].pc # "recreating"
         /\ \A v \in Waker \ {w} : wakes'[v] = wakes[v]
         /\ w \in Waking' => /\ \A p \in wakes[w].pairs : Listed(p)' => Beside(p, Place(w))'
                             /\ wakes'[w].i \in 1..Len(list')
                             /\ list'[wakes'[w].i] = wakes'[w].feed
         /\ w \notin Waking' => \A p \in wakes[w].pairs : ~ Listed(p)'
<1>. DEFINE x == WakeAt(w, i, l)
<1>1. /\ x.pairs = wakes[w].pairs /\ x.pc \in {"done", "locking", "waking"}
      /\ i > Len(l) => x.pc = "done"
      /\ i <= Len(l) => x.pc # "done" /\ x.i = i /\ x.feed = l[i]
      /\ Len(l) \in Nat
  BY WakeNext DEF FeedsTypeOK
<1>. HIDE DEF x
<1>2. wakes'[w] = x /\ \A v \in Waker \ {w} : wakes'[v] = wakes[v]
  BY DEF SetWake, FeedsTypeOK, x
<1>3. w \in Waking' <=> i <= Len(l)
  BY <1>1, <1>2 DEF Waking
<1>4. ASSUME i > Len(l), NEW p \in wakes[w].pairs PROVE ~ Listed(p)'
  <2>1. ~ Beside(p, i)'
    BY <1>1, <1>4 DEF Beside
  <2>. QED
    BY <2>1
<1>5. i <= Len(l) => Place(w)' = i /\ i \in 1..Len(l)
  BY <1>1, <1>2 DEF Place
<1>6. ASSUME i <= Len(l), NEW p \in wakes[w].pairs, Listed(p)'
      PROVE  Beside(p, Place(w))'
  <2>1. Beside(p, i)'
    BY <1>6
  <2>. QED
    BY <1>5, <1>6, <2>1 DEF Beside
<1>. QED
  BY <1>1, <1>2, <1>3, <1>4, <1>5, <1>6

LEMMA TurnsPairs ==
  ASSUME Struct, Paired, NEW w \in Waker,
         WakeLocks(w) \/ WakeAnswered(w) \/ WakeReplaced(w) \/ WakeFails(w)
  PROVE  Paired'
<1>1. /\ feeds \in [FeedId -> Feed] /\ wakes \in [Waker -> Wake]
      /\ list \in Seq(FeedId) /\ wakes[w] \in Wake /\ FeedsTypeOK
      /\ wakes[w].i \in Nat \ {0} /\ wakes[w].i + 1 \in Nat \ {0}
  BY DEF Struct, FeedsTypeOK, Wake
<1>2. check' = check /\ w \in Waking
  BY DEF WakeLocks, WakeAnswered, WakeReplaced, WakeFails, Waking
<1>3. \A v \in Waking \ {w} : wakes[v].pairs = {}
  BY <1>2 DEF Paired, Alone
<1>4. wakes[w].pairs # {} => Waking = {w}
  BY <1>2 DEF Paired, Alone
<1>5. ASSUME StaysDeaf,
             \A v \in Waker \ {w} : wakes'[v] = wakes[v],
             wakes'[w].pairs = wakes[w].pairs,
             wakes'[w].pc # "recreating",
             w \in Waking' =>
                /\ \A p \in wakes[w].pairs : Listed(p)' => Beside(p, Place(w))'
                /\ wakes'[w].pairs # {} =>
                      /\ wakes'[w].i \in 1..Len(list')
                      /\ list'[wakes'[w].i] = wakes'[w].feed,
             w \notin Waking' => \A p \in wakes[w].pairs : ~ Listed(p)',
             \A v \in Waker \ Waking : \A p \in wakes[v].pairs : Listed(p)' => Listed(p)
      PROVE  Paired'
  <2>1. Deafened'
    BY <1>2, <1>5, DeafKept DEF Paired
  <2>2. \A v \in Waker \ {w} : v \in Waking' <=> v \in Waking
    BY <1>5 DEF Waking
  <2>3. Waking' \subseteq Waking /\ Waking \subseteq Waker
    BY <1>2, <2>2 DEF Waking
  <2>4. Alone'
    BY <1>3, <1>4, <1>5, <2>2, <2>3 DEF Alone
  <2>5. Ahead'
    BY <1>3, <1>5, <2>3 DEF Ahead
  <2>6. AtHand'
    BY <1>3, <1>5, <2>3 DEF AtHand
  <2>7. Healed'
    BY <1>5, <2>2 DEF Paired, Healed
  <2>. QED
    BY <2>1, <2>4, <2>5, <2>6, <2>7 DEF Paired
<1>10. PICK next \in Nat \ {0} : next = wakes[w].i + 1
  BY <1>1
<1>6. CASE WakeLocks(w)
  <2>1. UNCHANGED <<feeds, list>> /\ wakes[w].pc = "locking"
        /\ wakes' = [wakes EXCEPT ![w] = [wakes[w] EXCEPT !.pc = "waking"]]
    BY <1>6 DEF WakeLocks, SetWake
  <2>2. /\ \A v \in Waker \ {w} : wakes'[v] = wakes[v]
        /\ wakes'[w].pc = "waking" /\ wakes'[w].pairs = wakes[w].pairs
        /\ wakes'[w].i = wakes[w].i /\ wakes'[w].feed = wakes[w].feed
    BY <1>1, <2>1 DEF Wake
  <2>3. StaysDeaf
    BY <2>1 DEF StaysDeaf, Deaf
  <2>4. Place(w)' = Place(w) /\ w \in Waking'
    BY <2>1, <2>2 DEF Place, Waking
  <2>5. \A p : Listed(p)' <=> Listed(p)
    BY <2>1 DEF Listed
  <2>6. ASSUME NEW p \in wakes[w].pairs, Listed(p)' PROVE Beside(p, Place(w))'
    <3>1. Beside(p, Place(w))
      BY <1>2, <2>5, <2>6 DEF Paired, Ahead
    <3>. QED
      BY <2>1, <2>4, <3>1 DEF Beside
  <2>7. wakes[w].pairs # {} => wakes[w].i \in 1..Len(list)
                               /\ list[wakes[w].i] = wakes[w].feed
    BY <1>2, <2>1 DEF Paired, AtHand
  <2>. QED
    BY <1>5, <2>1, <2>2, <2>3, <2>4, <2>5, <2>6, <2>7
<1>7. CASE WakeAnswered(w)
  <2>1. UNCHANGED <<feeds, list>> /\ wakes[w].pc = "waking"
        /\ SetWake(w, WakeAt(w, next, list)) /\ Answering(wakes[w].feed)
    BY <1>7, <1>10 DEF WakeAnswered
  <2>2. StaysDeaf
    BY <2>1 DEF StaysDeaf, Deaf
  <2>3. \A p : Listed(p)' <=> Listed(p)
    BY <2>1 DEF Listed
  <2>4. ASSUME NEW p \in wakes[w].pairs, Listed(p)'
        PROVE  Beside(p, next)'
    <3>1. Beside(p, wakes[w].i)
      BY <1>2, <2>1, <2>3, <2>4 DEF Paired, Ahead, Place
    <3>2. PICK k \in 1..Len(list) :
             /\ k + 1 <= Len(list) /\ wakes[w].i <= k + 1
             /\ list[k] = p[1] /\ list[k + 1] = p[2]
      BY <3>1 DEF Beside
    <3>3. list[wakes[w].i] = wakes[w].feed
      BY <1>2, <2>1, <2>4 DEF Paired, AtHand
    <3>4. Deaf(p[2])
      BY <2>4 DEF Paired, Deafened
    <3>5. k + 1 # wakes[w].i
      BY <2>1, <3>2, <3>3, <3>4 DEF Answering, Deaf
    <3>6. next <= k + 1
      BY <1>1, <1>10, <3>2, <3>5
    <3>. QED
      BY <2>1, <3>2, <3>6 DEF Beside
  <2>5. /\ wakes'[w].pairs = wakes[w].pairs /\ wakes'[w].pc # "recreating"
        /\ \A v \in Waker \ {w} : wakes'[v] = wakes[v]
        /\ w \in Waking' => /\ \A p \in wakes[w].pairs : Listed(p)' => Beside(p, Place(w))'
                            /\ wakes'[w].i \in 1..Len(list')
                            /\ list'[wakes'[w].i] = wakes'[w].feed
        /\ w \notin Waking' => \A p \in wakes[w].pairs : ~ Listed(p)'
    BY <1>1, <2>1, <2>4, AheadMoves
  <2>. QED
    BY <1>5, <2>2, <2>3, <2>5
<1>8. CASE WakeReplaced(w)
  <2>. DEFINE n == wakes[w].new
  <2>1. /\ wakes[w].pc = "recreating" /\ n \in FeedId /\ n \in Making
        /\ feeds' = Returned(n) /\ list' = Append(list, n)
        /\ SetWake(w, WakeAt(w, next, list'))
    BY <1>8, <1>10 DEF WakeReplaced, Struct, WakeInv, Replacing, Making
  <2>2. StaysDeaf
    BY <1>1, <2>1, Going, Deafness
  <2>3. \A v \in Waker : \A p \in wakes[v].pairs : p[1] # n /\ p[2] # n
    BY <2>1 DEF Paired, Deafened, Making
  <2>4. /\ list' = list \o <<n>> /\ <<n>> \in Seq(FeedId) /\ Range(<<n>>) = {n}
        /\ list' \in Seq(FeedId)
    BY <1>1, <2>1, RangeOne
  <2>5. \A v \in Waker : \A p \in wakes[v].pairs :
           /\ Listed(p)' => Listed(p)
           /\ \A i : Beside(p, i) => Beside(p, i)'
    BY <1>1, <2>3, <2>4, BesideGrows
  <2>6. \A p \in wakes[w].pairs : Listed(p)' => Beside(p, next)'
    <3>1. \A p \in wakes[w].pairs : Listed(p) => Beside(p, next)
      BY <1>2, <1>10, <2>1 DEF Paired, Ahead, Place
    <3>. QED
      BY <2>5, <3>1
  <2>7. /\ wakes'[w].pairs = wakes[w].pairs /\ wakes'[w].pc # "recreating"
        /\ \A v \in Waker \ {w} : wakes'[v] = wakes[v]
        /\ w \in Waking' => /\ \A p \in wakes[w].pairs : Listed(p)' => Beside(p, Place(w))'
                            /\ wakes'[w].i \in 1..Len(list')
                            /\ list'[wakes'[w].i] = wakes'[w].feed
        /\ w \notin Waking' => \A p \in wakes[w].pairs : ~ Listed(p)'
    BY <1>1, <2>1, <2>4, <2>6, AheadMoves
  <2>. QED
    BY <1>5, <2>2, <2>5, <2>7
<1>9. CASE WakeFails(w)
  <2>. DEFINE n == wakes[w].new
              x == [NoWake EXCEPT !.pc = "failed"]
  <2>1. /\ n \in FeedId /\ n \in Making /\ UNCHANGED list
        /\ feeds' = Unopened(n) /\ wakes' = [wakes EXCEPT ![w] = x]
    BY <1>9 DEF WakeFails, Struct, WakeInv, Replacing, Making, SetWake
  <2>2. StaysDeaf
    BY <1>1, <2>1, Going, Deafness
  <2>3. x.pc = "failed" /\ x.pairs = {}
    BY DEF NoWake
  <2>. HIDE DEF x
  <2>4. /\ wakes'[w].pc = "failed" /\ wakes'[w].pairs = {}
        /\ \A v \in Waker \ {w} : wakes'[v] = wakes[v]
    BY <1>1, <2>1, <2>3
  <2>5. Deafened'
    <3>1. \A v \in Waker : wakes'[v].pairs \subseteq wakes[v].pairs
      BY <2>4
    <3>. QED
      BY <1>2, <2>2, <3>1, DeafKept DEF Paired
  <2>6. Waking' = Waking \ {w}
    BY <2>4 DEF Waking
  <2>7. Alone' /\ Ahead' /\ AtHand'
    BY <1>3, <2>4, <2>6 DEF Alone, Ahead, AtHand, Waking
  <2>8. Healed'
    BY <2>1, <2>4, <2>6 DEF Paired, Healed, Listed
  <2>. QED
    BY <2>5, <2>7, <2>8 DEF Paired
<1>. QED
  BY <1>6, <1>7, <1>8, <1>9

(* A request begins, alone or beside others.                                 *)
LEMMA BeginPairs ==
  ASSUME Struct, Paired, NEW w \in Waker, WakeBegin(w)
  PROVE  Paired'
<1>. DEFINE put == WakeAt(w, 1, list)
            first == IF Waking = {} THEN DeafPairs ELSE {}
            turn(v) == IF v = w THEN [put EXCEPT !.pairs = first]
                       ELSE [wakes[v] EXCEPT
                                !.pairs = IF v \in Waking THEN {} ELSE @]
<1>1. /\ UNCHANGED <<feeds, list, check>> /\ wakes[w].pc = "idle"
      /\ wakes' = [v \in Waker |-> turn(v)]
  BY DEF WakeBegin
<1>2. /\ put \in Wake /\ put.pc \in {"done", "locking", "waking"}
      /\ put.pc # "done" => put.i = 1 /\ put.feed = list[1] /\ 1 \in 1..Len(list)
      /\ put.pc = "done" => ~(1 <= Len(list))
      /\ list \in Seq(FeedId) /\ FeedsTypeOK /\ Len(list) \in Nat
  <2>1. list \in Seq(FeedId) /\ wakes \in [Waker -> Wake] /\ 1 \in Nat \ {0}
        /\ FeedsTypeOK /\ Len(list) \in Nat
    BY DEF Struct, FeedsTypeOK
  <2>. QED
    BY <2>1, WakeNext
<1>. HIDE DEF put, first
<1>3. /\ wakes'[w].pairs = first /\ wakes'[w].pc = put.pc /\ wakes'[w].i = put.i
      /\ wakes'[w].feed = put.feed
  BY <1>1, <1>2 DEF Wake
<1>4. ASSUME NEW v \in Waker \ {w}
      PROVE  /\ wakes'[v].pc = wakes[v].pc
             /\ v \in Waking => wakes'[v].pairs = {}
             /\ v \notin Waking => wakes'[v].pairs = wakes[v].pairs
  <2>1. wakes[v] \in Wake
    BY DEF Struct, FeedsTypeOK
  <2>2. wakes'[v] = [wakes[v] EXCEPT !.pairs = IF v \in Waking THEN {} ELSE @]
    BY <1>1
  <2>. QED
    BY <2>1, <2>2 DEF Wake
<1>5. \A v \in Waker \ {w} : v \in Waking' <=> v \in Waking
  BY <1>4 DEF Waking
<1>6. w \notin Waking /\ Waking' \subseteq Waking \union {w}
  BY <1>1, <1>5 DEF Waking
<1>7. \A p : Listed(p)' <=> Listed(p)
  BY <1>1 DEF Listed
<1>8. ASSUME NEW p \in first
      PROVE  /\ Waking = {} /\ Len(list) > 1
             /\ \E k \in 1..Len(list) : /\ k + 1 \in 1..Len(list)
                                        /\ list[k] = p[1] /\ list[k + 1] = p[2]
                                        /\ Deaf(list[k]) /\ Deaf(list[k + 1])
  <2>1. Waking = {} /\ p \in DeafPairs
    BY <1>8 DEF first
  <2>2. PICK k \in 1..(Len(list) - 1) :
           /\ p = <<list[k], list[k + 1]>> /\ Deaf(list[k]) /\ Deaf(list[k + 1])
    BY <2>1 DEF DeafPairs
  <2>3. k \in 1..Len(list) /\ k + 1 \in 1..Len(list) /\ Len(list) > 1
    BY <1>2
  <2>. QED
    BY <2>1, <2>2, <2>3
<1>9. Deafened'
  <2>1. ASSUME NEW p \in first, NEW f \in {p[1], p[2]}
        PROVE  /\ f \in FeedId /\ Deaf(f) /\ feeds[f].call = "returned"
               /\ f \notin Range(check.made)
    <3>1. PICK k \in 1..Len(list) : list[k] = f /\ Deaf(f)
      BY <1>8, <2>1
    <3>. QED
      BY <1>2, <3>1, InRange DEF Struct, ListInv
  <2>2. \A v \in Waker \ {w} : wakes'[v].pairs \subseteq wakes[v].pairs
    BY <1>4
  <2>. QED
    BY <1>1, <1>3, <2>1, <2>2 DEF Paired, Deafened, Deaf
<1>10. Alone'
  BY <1>3, <1>4, <1>5, <1>6, <1>8 DEF Alone, Waking
<1>11. AtHand'
  BY <1>1, <1>2, <1>3, <1>4, <1>6 DEF AtHand, Waking
<1>12. Ahead'
  <2>1. ASSUME NEW p \in first, w \in Waking' PROVE Beside(p, Place(w))'
    <3>1. PICK k \in 1..Len(list) : /\ k + 1 \in 1..Len(list)
                                    /\ list[k] = p[1] /\ list[k + 1] = p[2]
      BY <1>8
    <3>2. Place(w)' = 1
      BY <1>2, <1>3, <2>1 DEF Place, Waking
    <3>3. 1 <= k + 1 /\ k + 1 <= Len(list)
      BY <1>2, <3>1
    <3>. QED
      BY <1>1, <3>1, <3>2, <3>3 DEF Beside
  <2>. QED
    BY <1>3, <1>4, <1>6, <2>1 DEF Ahead, Waking
<1>13. Healed'
  <2>1. w \notin Waking' => first = {}
    BY <1>2, <1>3, <1>8 DEF Waking
  <2>. QED
    BY <1>3, <1>4, <1>5, <1>7, <2>1 DEF Paired, Healed
<1>. QED
  BY <1>9, <1>10, <1>11, <1>12, <1>13 DEF Paired

LEMMA PairedStart ==
  /\ FeedsInit => Paired
  /\ FeedsTypeOK /\ Restart => Paired'
<1>1. ASSUME FeedsInit PROVE Paired
  <2>1. \A w \in Waker : wakes[w].pc = "idle" /\ wakes[w].pairs = {}
    BY <1>1 DEF FeedsInit, NoWake
  <2>. QED
    BY <2>1 DEF Paired, Alone, Deafened, Ahead, AtHand, Healed, Waking
<1>2. ASSUME FeedsTypeOK, Restart PROVE Paired'
  <2>1. \A w \in Waker : wakes'[w].pairs = {}
    BY <1>2, RestartReads
  <2>. QED
    BY <2>1 DEF Paired, Alone, Deafened, Ahead, AtHand, Healed, Waking
<1>. QED
  BY <1>1, <1>2

LEMMA PairedStep ==
  ASSUME Struct, Paired, [FeedsNext]_feedsVars
  PROVE  Paired'
<1>. USE DEF Struct
<1>1. CASE \/ UNCHANGED feedsVars \/ Alarm \/ Login
           \/ Logout \/ Fail \/ \E f \in FeedId : Aftermath(f)
  <2>1. UNCHANGED <<list, check, wakes>>
    BY <1>1, LivesStep DEF feedsVars, Alarm, Login
  <2>2. Lives
    BY <1>1, LivesStep, Living DEF feedsVars, Alarm, Login, FeedsTypeOK
  <2>. QED
    BY <2>1, <2>2, Deafness, PairsKept
<1>2. CASE Begin \/ Answers \/ FollowOver \/ FollowNext \/ Offline
  <2>1. UNCHANGED <<feeds, list, wakes>>
    BY <1>2 DEF Begin, Answers, FollowOver, FollowNext, Offline
  <2>2. check'.made = <<>>
    <3>1. check.i + 1 \in Nat \ {0} /\ 1 \in Nat \ {0} /\ list \in Seq(FeedId)
          /\ check \in Check
      BY DEF FeedsTypeOK, Check
    <3>2. CASE Begin
      BY <3>1, <3>2, CheckNext DEF Begin, BeginCreate, NoCheck, MadeInv
    <3>3. CASE Answers
      BY <3>1, <3>3, CheckNext DEF Answers
    <3>4. CASE FollowOver \/ Offline
      BY <3>4 DEF FollowOver, Offline, EndCheck, NoCheck
    <3>5. CASE FollowNext
      BY <3>1, <3>5 DEF FollowNext, EndCheck, NoCheck, MadeInv, Check
    <3>. QED
      BY <1>2, <3>2, <3>3, <3>4, <3>5
  <2>3. StaysDeaf
    BY <2>1 DEF StaysDeaf, Deaf
  <2>. QED
    BY <2>1, <2>2, <2>3, PairsKept, RangeEmpty
<1>3. CASE Silent
  <2>1. PICK new \in Unheld :
           /\ Makes(new, {check.feed}, feeds[check.feed].chain, "check")
           /\ check' = [check EXCEPT !.pc = "recreating", !.new = new]
    BY <1>3, MakeReads DEF Remade
  <2>2. check'.made = check.made
    BY <2>1 DEF FeedsTypeOK, Check
  <2>3. UNCHANGED <<list, wakes>>
    BY <1>3 DEF Silent
  <2>. QED
    BY <2>1, <2>2, <2>3, Deafness, PairsKept
<1>4. CASE Create
  <2>1. PICK new \in Unheld :
           /\ Makes(new, {known[NextChain]}, NextChain, "createAll")
           /\ check' = [check EXCEPT !.made = Append(@, new)]
    BY <1>4, MakeReads DEF Begun
  <2>2. UNCHANGED <<list, wakes>>
    BY <1>4 DEF Create
  <2>3. check.made \in Seq(FeedId) /\ new \in FeedId
    BY NewFeed, MadeTypes
  <2>4. Range(Append(check.made, new)) = Range(check.made) \union {new}
    BY <2>3, RangeAppend
  <2>5. check'.made = Append(check.made, new)
    BY <2>1 DEF FeedsTypeOK, Check
  <2>6. ~Watches(new)
    BY Unknown DEF Watches
  <2>7. \A f \in FeedId : Watches(f) /\ f \in Range(check'.made) =>
                            f \in Range(check.made)
    BY <2>4, <2>5, <2>6
  <2>. QED
    BY <2>1, <2>2, <2>7, Deafness, PairsKept
<1>5. ASSUME NEW w \in Waker, WakeReplaces(w) PROVE Paired'
  BY <1>5, MakeReads, TakenPairs
<1>6. CASE Dropped \/ RecreateFails
  <2>1. UNCHANGED <<list, wakes>> /\ check.new \in Making
    BY <1>6 DEF Dropped, RecreateFails, CheckInv
  <2>2. StaysDeaf
    <3>1. \/ Goes(check.new, "returned", feeds[check.new].life)
          \/ Goes(check.new, "rejected", "closed")
      BY <1>6, <2>1, Going DEF Dropped, RecreateFails, FeedsTypeOK, Making
    <3>. QED
      BY <2>1, <3>1, Deafness
  <2>3. check'.made = <<>>
    <3>1. check.i + 1 \in Nat \ {0} /\ list \in Seq(FeedId)
      BY DEF FeedsTypeOK, Check
    <3>. QED
      BY <1>6, <3>1, CheckNext DEF Dropped, RecreateFails, EndCheck, NoCheck
  <2>. QED
    BY <2>1, <2>2, <2>3, PairsKept, RangeEmpty
<1>7. CASE Settle
  <2>1. UNCHANGED <<feeds, wakes>> /\ check'.made = <<>>
    BY <1>7 DEF Settle, EndCheck, NoCheck
  <2>2. CASE list' = list \o check.made
    BY <2>1, <2>2, SettlePairs
  <2>3. CASE UNCHANGED list
    <3>1. StaysDeaf
      BY <2>1 DEF StaysDeaf, Deaf
    <3>. QED
      BY <2>1, <2>3, <3>1, PairsKept, RangeEmpty
  <2>. QED
    BY <1>7, <2>2, <2>3 DEF Settle
<1>8. ASSUME NEW f \in FeedId, Opens(f) \/ Resolve(f) \/ Reject(f) PROVE Paired'
  <2>1. UNCHANGED <<list, check, wakes>> /\ f \in Making
    BY <1>8 DEF Opens, Resolve, Reject, Making
  <2>2. \/ Goes(f, "joining", "up") \/ Goes(f, "returned", feeds[f].life)
        \/ Goes(f, "rejected", "closed")
    BY <1>8, Going DEF Opens, Resolve, Reject, FeedsTypeOK
  <2>3. StaysDeaf
    BY <2>1, <2>2, Deafness
  <2>. QED
    BY <2>1, <2>3, PairsKept
<1>9. ASSUME NEW w \in Waker, WakeBegin(w) PROVE Paired'
  BY <1>9, BeginPairs
<1>10. ASSUME NEW w \in Waker,
              WakeLocks(w) \/ WakeAnswered(w) \/ WakeReplaced(w) \/ WakeFails(w)
       PROVE  Paired'
  BY <1>10, TurnsPairs
<1>11. CASE Restart
  BY <1>11, PairedStart
<1>. QED
  BY <1>1, <1>2, <1>3, <1>4, <1>5, <1>6, <1>7, <1>8, <1>9, <1>10, <1>11
     DEF FeedsNext, CheckStep, NodeStep, WakeStep

(* A request to wake that overlaps no other skips no two deaf feeds in a row, for
   any number of chains, and whatever fails, is checked or made meanwhile.    *)
THEOREM WakesHeal == FeedsSpec => []WakeHeals
<1>. DEFINE Inv == Struct /\ Paired
<1>1. FeedsInit => Inv
  BY StructInit, PairedStart
<1>2. Inv /\ [FeedsNext]_feedsVars => Inv'
  BY StructStep, PairedStep
<1>3. ASSUME Inv PROVE WakeHeals
  <2>1. ASSUME NEW w \in Waker, wakes[w].pc = "done", NEW p \in wakes[w].pairs
        PROVE  ~ ({p[1], p[2]} \subseteq Range(list))
    <3>1. w \notin Waking
      BY <2>1 DEF Waking
    <3>. QED
      BY <1>3, <2>1, <3>1 DEF Paired, Healed, Listed
  <2>. QED
    BY <2>1 DEF WakeHeals
<1>. QED
  BY <1>1, <1>2, <1>3, PTL DEF FeedsSpec
=============================================================================
