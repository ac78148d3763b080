------------------------- MODULE AppRequestsProofs --------------------------
(* Proofs about AppRequests for any requests, tabs, chains and accounts, and for
   any number of retries and of times the wallet is locked.                  *)
EXTENDS AppRequests, TLAPS

State == {"idle", "unlock", "locked", "asking", "authed", "check", "connecting",
          "approved", "done"}

(* The lock service:authenticate: its queue lists those that have it or wait for
   it, each once, and who deals with a login has it.  A request that returns
   without freeing it, or that asks without it, breaks this.                 *)
InQueue(r) == \E i \in DOMAIN lock : lock[i] = r
LockInv ==
  /\ \A r \in Request : pc[r] \in {"locked", "asking", "authed"} <=> InQueue(r)
  /\ \A i, j \in DOMAIN lock : lock[i] = lock[j] => i = j
  /\ \A r \in Request : pc[r] \in {"asking", "authed"} => Head(lock) = r

(* Nobody but the user locks the wallet.                                     *)
FoundInv == found # {} => unlocked

-----------------------------------------------------------------------------
(* No connection, and an answer without any, are what their types say.       *)
LEMMA NothingType == Nothing \in Connections
  BY DEF Nothing, Connections

(* A prompt joins a lane or leaves it.                                       *)
LEMMA LaneType ==
  ASSUME TypeOK, NEW r \in Request, NEW kind \in {"authenticate", "connect"}
  PROVE  /\ Enqueued(r, kind) \in [Tab -> Seq(Prompt)]
         /\ Shown(r, kind) => Settled(r) \in [Tab -> Seq(Prompt)]
<1>1. TabOf[r] \in Tab /\ lane \in [Tab -> Seq(Prompt)] /\ [req |-> r, kind |-> kind] \in Prompt
  BY ConstantsAssumption DEF TypeOK, Prompt
<1>. QED
  BY <1>1 DEF Enqueued, Settled, Shown

(* What a page is told is an answer.                                         *)
LEMMA ToldType ==
  ASSUME TypeOK, NEW r \in Request, NEW kind \in {"none", "late", "granted"},
         NEW answer \in Connections
  PROVE  Told(r, kind, answer) \in [Request -> Answer]
<1>1. [kind |-> kind, conns |-> answer] \in Answer /\ told \in [Request -> Answer]
  BY DEF TypeOK, Answer
<1>. QED
  BY <1>1 DEF Told

(* The user's dealing with a chain.                                          *)
LEMMA DealtType ==
  ASSUME TypeOK, NEW r \in Request, NEW c \in Chain, Asked(r, c), Dealt(r, c)
  PROVE  /\ left' \in [Request -> SUBSET Chain] /\ lane' \in [Tab -> Seq(Prompt)]
         /\ pc' \in [Request -> State]
<1>1. Settled(r) \in [Tab -> Seq(Prompt)]
  BY LaneType DEF Asked
<1>. QED
  BY <1>1 DEF Dealt, Goto, State, TypeOK

(* The lock is taken off by who has it.                                      *)
LEMMA LockType ==
  ASSUME TypeOK, LockInv, NEW r \in Request, pc[r] \in {"locked", "asking", "authed"}
  PROVE  lock # <<>> /\ Head(lock) \in Request /\ Tail(lock) \in Seq(Request)
<1>1. lock \in Seq(Request) /\ InQueue(r)
  BY DEF TypeOK, LockInv
<1>2. lock # <<>>
  BY <1>1 DEF InQueue
<1>. QED
  BY <1>1, <1>2

(* The initial state is of the declared types, with the lock free.           *)
LEMMA TypeInit == Init => TypeOK /\ LockInv
<1> SUFFICES ASSUME Init PROVE TypeOK /\ LockInv
  OBVIOUS
<1>1. [kind |-> "none", conns |-> Nothing] \in Answer
  BY NothingType DEF Answer
<1>2. TypeOK
  BY <1>1, NothingType, ConstantsAssumption DEF Init, TypeOK
<1>3. DOMAIN lock = {}
  BY DEF Init
<1>4. LockInv
  BY <1>3 DEF Init, LockInv, InQueue
<1>. QED
  BY <1>2, <1>4

(* The steps of the handler keep the types.                                  *)
LEMMA ServiceType ==
  ASSUME TypeOK, LockInv, NEW r \in Request, Service(r)
  PROVE  TypeOK'
<1>1. CASE Unlock(r)
  <2>1. lock' \in Seq(Request)
    <3>1. lock' = lock \/ lock' = Append(lock, r)
      BY <1>1 DEF Unlock
    <3>2. lock \in Seq(Request)
      BY DEF TypeOK
    <3>. QED
      BY <3>1, <3>2
  <2>2. pc' \in [Request -> State]
    BY <1>1 DEF Unlock, GoesOn, Goto, TypeOK, State
  <2>. QED
    BY <1>1, <2>1, <2>2 DEF Unlock, GoesOn, TypeOK, State
<1>2. CASE Granted(r)
  <2>1. Tail(lock) \in Seq(Request)
    BY <1>2, LockType DEF Granted
  <2>2. lane' \in [Tab -> Seq(Prompt)]
    BY <1>2, LaneType DEF Granted, TypeOK
  <2>. QED
    BY <1>2, <2>1, <2>2 DEF Granted, GoesOn, Goto, TypeOK
<1>3. CASE Retry(r)
  <2>1. Tail(lock) \in Seq(Request)
    BY <1>3, LockType DEF Retry
  <2>2. tries' \in [Request -> 0..MaxRetries]
    <3>1. MaxRetries \in Nat /\ tries \in [Request -> 0..MaxRetries]
      BY ConstantsAssumption DEF TypeOK
    <3>2. \/ UNCHANGED tries
          \/ tries[r] < MaxRetries /\ tries' = [tries EXCEPT ![r] = @ + 1]
      BY <1>3 DEF Retry
    <3>. QED
      BY <3>1, <3>2
  <2>. QED
    BY <1>3, <2>1, <2>2 DEF Retry, Goto, TypeOK
<1>4. CASE Check(r)
  <2>1. [c \in Chain |-> IF c \in Wants[r].chains THEN conns[c] ELSE NoConnection] \in Connections
    BY DEF TypeOK, Connections
  <2>2. told' \in [Request -> Answer]
    BY <1>4, <2>1, ToldType DEF Check, TypeOK
  <2>3. lane' \in [Tab -> Seq(Prompt)]
    BY <1>4, LaneType DEF Check, TypeOK
  <2>4. left' \in [Request -> SUBSET Chain] /\ app' \in [Request -> Connections]
    BY <1>4, ConstantsAssumption DEF Check, TypeOK
  <2>5. pc' \in [Request -> State]
    BY <1>4 DEF Check, Goto, TypeOK, State
  <2>. QED
    BY <1>4, <2>2, <2>3, <2>4, <2>5 DEF Check, TypeOK, State
<1>5. CASE Respond(r)
  <2>1. told' \in [Request -> Answer]
    BY <1>5, ToldType DEF Respond, TypeOK
  <2>. QED
    BY <1>5, <2>1 DEF Respond, Goto, TypeOK
<1>. QED
  BY <1>1, <1>2, <1>3, <1>4, <1>5 DEF Service

(* The user's steps keep the types.                                          *)
LEMMA UserType ==
  ASSUME TypeOK, LockInv, NEW r \in Request, User(r)
  PROVE  TypeOK'
<1>1. CASE Authenticate(r)
  <2>1. lane' \in [Tab -> Seq(Prompt)]
    BY <1>1, LaneType DEF Authenticate
  <2>. QED
    BY <1>1, <2>1 DEF Authenticate, Goto, TypeOK
<1>2. CASE Decline(r)
  <2>1. lane' \in [Tab -> Seq(Prompt)] /\ Tail(lock) \in Seq(Request)
    BY <1>2, LaneType, LockType DEF Decline
  <2>. QED
    BY <1>2, <2>1 DEF Decline, Goto, TypeOK
<1>3. CASE LogIn(r)
  BY <1>3 DEF LogIn, TypeOK
<1>4. CASE Close(r)
  <2>1. lane' \in [Tab -> Seq(Prompt)]
    BY <1>4, LaneType DEF Close
  <2>. QED
    BY <1>4, <2>1 DEF Close, Goto, TypeOK
<1>5. ASSUME NEW c \in Chain, Reject(r, c) PROVE TypeOK'
  <2>1. /\ left' \in [Request -> SUBSET Chain] /\ lane' \in [Tab -> Seq(Prompt)]
        /\ pc' \in [Request -> State]
    BY <1>5, DealtType DEF Reject
  <2>. QED
    BY <1>5, <2>1 DEF Reject, TypeOK, State
<1>6. ASSUME NEW c \in Chain, NEW accounts \in SUBSET Account, Approve(r, c, accounts)
      PROVE  TypeOK'
  <2>1. /\ left' \in [Request -> SUBSET Chain] /\ lane' \in [Tab -> Seq(Prompt)]
        /\ pc' \in [Request -> State]
    BY <1>6, DealtType DEF Approve
  <2>2. [accounts |-> accounts, perms |-> Wants[r].perms] \in Connection
    <3>1. accounts # {}
      BY <1>6 DEF Approve
    <3>2. Wants[r].perms \in Permission
      BY DEF Permission
    <3>. QED
      BY <3>1, <3>2 DEF Connection
  <2>3. conns' \in Connections
    BY <1>6, <2>2 DEF Approve, Saved, Connections
  <2>4. granted' \in [Request -> SUBSET Chain]
    BY <1>6 DEF Approve, TypeOK
  <2>. QED
    BY <1>6, <2>1, <2>3, <2>4 DEF Approve, TypeOK, State
<1>. QED
  BY <1>1, <1>2, <1>3, <1>4, <1>5, <1>6 DEF User

(* Every step keeps the types.                                               *)
LEMMA TypeStep == TypeOK /\ LockInv /\ [Next]_vars => TypeOK'
<1> SUFFICES ASSUME TypeOK, LockInv, [Next]_vars PROVE TypeOK'
  OBVIOUS
<1>1. ASSUME NEW r \in Request, Ask(r) PROVE TypeOK'
  BY <1>1 DEF Ask, Goto, TypeOK
<1>2. ASSUME NEW r \in Request, Late(r) PROVE TypeOK'
  <2>1. told' \in [Request -> Answer]
    BY <1>2, ToldType, NothingType DEF Late
  <2>. QED
    BY <1>2, <2>1 DEF Late, TypeOK
<1>3. CASE Lock
  <2>1. MaxLocks \in Nat /\ locks \in 0..MaxLocks /\ locks < MaxLocks /\ locks' = locks + 1
    BY <1>3, ConstantsAssumption DEF Lock, TypeOK
  <2>2. locks' \in 0..MaxLocks
    BY <2>1
  <2>. QED
    BY <1>3, <2>2 DEF Lock, TypeOK
<1>4. CASE UNCHANGED vars
  BY <1>4 DEF vars, TypeOK
<1>. QED
  BY <1>1, <1>2, <1>3, <1>4, ServiceType, UserType DEF Next

-----------------------------------------------------------------------------
(* A request that joins the queue becomes its last, and holds the lock if it is
   alone.                                                                    *)
LEMMA LockJoins ==
  ASSUME TypeOK, LockInv, NEW r \in Request, pc[r] = "unlock",
         lock' = Append(lock, r), Goto(r, "locked")
  PROVE  LockInv'
<1>1. lock \in Seq(Request) /\ pc \in [Request -> State] /\ ~InQueue(r)
  BY DEF LockInv, TypeOK, State
<1>2. /\ DOMAIN lock = 1..Len(lock) /\ DOMAIN lock' = 1..Len(lock) + 1
      /\ \A i \in 1..Len(lock) + 1 : lock'[i] = IF i <= Len(lock) THEN lock[i] ELSE r
      /\ Len(lock) \in Nat
  BY <1>1
<1>3. pc' = [pc EXCEPT ![r] = "locked"]
  BY DEF Goto
<1>4. ASSUME NEW q \in Request
      PROVE  pc'[q] \in {"locked", "asking", "authed"} <=> InQueue(q)'
  <2>1. CASE q = r
    <3>1. Len(lock) + 1 \in DOMAIN lock' /\ lock'[Len(lock) + 1] = r
      BY <1>2
    <3>. QED
      BY <1>1, <1>3, <2>1, <3>1 DEF InQueue
  <2>2. CASE q # r
    <3>1. InQueue(q)' <=> InQueue(q)
      BY <1>2, <2>2 DEF InQueue
    <3>. QED
      BY <1>1, <1>3, <2>2, <3>1 DEF LockInv
  <2>. QED
    BY <2>1, <2>2
<1>5. \A i, j \in DOMAIN lock' : lock'[i] = lock'[j] => i = j
  BY <1>1, <1>2 DEF LockInv, InQueue
<1>6. ASSUME NEW q \in Request, pc'[q] \in {"asking", "authed"} PROVE Head(lock') = q
  <2>1. q # r /\ pc[q] \in {"asking", "authed"}
    BY <1>1, <1>3, <1>6
  <2>2. InQueue(q) /\ Head(lock) = q
    BY <2>1 DEF LockInv
  <2>3. lock # <<>>
    BY <2>2 DEF InQueue
  <2>. QED
    BY <1>1, <2>2, <2>3
<1>. QED
  BY <1>4, <1>5, <1>6 DEF LockInv

(* Who has the lock leaves the queue, and nobody else who deals with a login is
   in it.                                                                    *)
LEMMA LockLeaves ==
  ASSUME TypeOK, LockInv, NEW r \in Request, NEW at \in {"unlock", "check", "done"},
         pc[r] \in {"locked", "asking", "authed"}, Head(lock) = r,
         lock' = Tail(lock), Goto(r, at)
  PROVE  LockInv'
<1>1. lock \in Seq(Request) /\ pc \in [Request -> State] /\ lock # <<>>
  BY LockType DEF TypeOK, State
<1>2. /\ DOMAIN lock = 1..Len(lock) /\ DOMAIN lock' = 1..Len(lock) - 1
      /\ \A i \in 1..Len(lock) - 1 : lock'[i] = lock[i + 1]
      /\ lock[1] = r /\ Len(lock) \in Nat \ {0}
  BY <1>1
<1>3. pc' = [pc EXCEPT ![r] = at]
  BY DEF Goto
<1>4. ASSUME NEW q \in Request
      PROVE  pc'[q] \in {"locked", "asking", "authed"} <=> InQueue(q)'
  <2>1. CASE q = r
    <3>1. \A i \in 1..Len(lock) - 1 : lock[i + 1] # r
      BY <1>2 DEF LockInv
    <3>2. ~InQueue(q)'
      BY <1>2, <2>1, <3>1 DEF InQueue
    <3>. QED
      BY <1>1, <1>3, <2>1, <3>2
  <2>2. CASE q # r
    <3>1. InQueue(q)' => InQueue(q)
      BY <1>2 DEF InQueue
    <3>2. ASSUME InQueue(q) PROVE InQueue(q)'
      <4>1. PICK i \in DOMAIN lock : lock[i] = q
        BY <3>2 DEF InQueue
      <4>2. i - 1 \in DOMAIN lock' /\ lock'[i - 1] = q
        BY <1>2, <2>2, <4>1
      <4>. QED
        BY <4>2 DEF InQueue
    <3>. QED
      BY <1>1, <1>3, <2>2, <3>1, <3>2 DEF LockInv
  <2>. QED
    BY <2>1, <2>2
<1>5. \A i, j \in DOMAIN lock' : lock'[i] = lock'[j] => i = j
  BY <1>1, <1>2 DEF LockInv
<1>6. \A q \in Request : pc'[q] \notin {"asking", "authed"}
  BY <1>1, <1>3 DEF LockInv
<1>. QED
  BY <1>4, <1>5, <1>6 DEF LockInv

(* A step that leaves the lock and its users alone.                          *)
LEMMA LockRests ==
  ASSUME LockInv, UNCHANGED lock,
         \A q \in Request : \/ pc'[q] = pc[q]
                            \/ /\ pc[q] \notin {"locked", "asking", "authed"}
                               /\ pc'[q] \notin {"locked", "asking", "authed"}
                            \/ /\ pc[q] \in {"locked", "asking", "authed"} /\ Head(lock) = q
                               /\ pc'[q] \in {"asking", "authed"}
  PROVE  LockInv'
<1>1. \A q \in Request : InQueue(q)' <=> InQueue(q)
  BY DEF InQueue
<1>. QED
  BY <1>1 DEF LockInv

(* Every step keeps the lock.                                                *)
LEMMA LockStep == TypeOK /\ LockInv /\ [Next]_vars => LockInv'
<1> SUFFICES ASSUME TypeOK, LockInv, [Next]_vars PROVE LockInv'
  OBVIOUS
<1>1. pc \in [Request -> State]
  BY DEF TypeOK, State
<1>2. \A q \in Request : pc[q] \in {"asking", "authed"} => Head(lock) = q
  BY DEF LockInv
<1>3. ASSUME NEW r \in Request, Unlock(r) PROVE LockInv'
  <2>1. CASE lock' = Append(lock, r) /\ Goto(r, "locked")
    BY <1>3, <2>1, LockJoins DEF Unlock
  <2>2. CASE UNCHANGED lock /\ Goto(r, "check")
    BY <1>1, <1>3, <2>2, LockRests DEF Unlock, GoesOn, Goto
  <2>. QED
    BY <1>3, <2>1, <2>2 DEF Unlock, GoesOn
<1>4. ASSUME NEW r \in Request, Granted(r) PROVE LockInv'
  <2>1. CASE lock' = Tail(lock) /\ Goto(r, "check")
    BY <1>4, <2>1, LockLeaves DEF Granted, GoesOn
  <2>2. CASE UNCHANGED lock /\ Goto(r, "asking")
    BY <1>1, <1>4, <2>2, LockRests DEF Granted, GoesOn, Goto
  <2>. QED
    BY <1>4, <2>1, <2>2 DEF Granted, GoesOn
<1>5. ASSUME NEW r \in Request, Authenticate(r) PROVE LockInv'
  BY <1>1, <1>2, <1>5, LockRests DEF Authenticate, Goto
<1>6. ASSUME NEW r \in Request, Retry(r) PROVE LockInv'
  <2>1. /\ Head(lock) = r /\ lock' = Tail(lock) /\ pc[r] = "authed"
        /\ Goto(r, "unlock") \/ Goto(r, "done")
    BY <1>2, <1>6 DEF Retry
  <2>. QED
    BY <2>1, LockLeaves
<1>7. ASSUME NEW r \in Request, Decline(r) PROVE LockInv'
  BY <1>2, <1>7, LockLeaves DEF Decline
<1>8. ASSUME NEW r \in Request, Ask(r) \/ Check(r) \/ Respond(r) \/ Late(r) \/ LogIn(r) \/ Close(r)
      PROVE  LockInv'
  BY <1>1, <1>8, LockRests DEF Ask, Check, Respond, Late, LogIn, Close, Goto
<1>9. ASSUME NEW r \in Request, NEW c \in Chain,
             Reject(r, c) \/ \E accounts \in SUBSET Account : Approve(r, c, accounts)
      PROVE  LockInv'
  <2>1. pc[r] = "connecting" /\ UNCHANGED lock /\ Dealt(r, c)
    BY <1>9 DEF Reject, Approve, Asked
  <2>2. UNCHANGED pc \/ Goto(r, "done") \/ Goto(r, "approved")
    BY <2>1 DEF Dealt
  <2>. QED
    BY <1>1, <2>1, <2>2, LockRests DEF Goto
<1>10. CASE Lock \/ UNCHANGED vars
  BY <1>10, LockRests DEF Lock, vars
<1>. QED
  BY <1>3, <1>4, <1>5, <1>6, <1>7, <1>8, <1>9, <1>10 DEF Next, Service, User

(* A wallet that was found unlocked stays so until the user locks it.        *)
LEMMA FoundStep == FoundInv /\ [Next]_vars => FoundInv'
<1> SUFFICES ASSUME FoundInv, [Next]_vars PROVE FoundInv'
  OBVIOUS
<1>1. ASSUME NEW r \in Request, Service(r) PROVE FoundInv'
  BY <1>1 DEF Service, Unlock, Granted, GoesOn, Retry, Check, Respond, FoundInv
<1>2. ASSUME NEW r \in Request, User(r) PROVE FoundInv'
  BY <1>2 DEF User, Authenticate, Decline, LogIn, Close, Reject, Approve, FoundInv
<1>3. ASSUME NEW r \in Request, Ask(r) \/ Late(r) PROVE FoundInv'
  BY <1>3 DEF Ask, Late, FoundInv
<1>4. CASE Lock \/ UNCHANGED vars
  BY <1>4 DEF Lock, vars, FoundInv
<1>. QED
  BY <1>1, <1>2, <1>3, <1>4 DEF Next

(* Every variable keeps its type, and with it the lock its meaning.          *)
THEOREM TypeCorrect == Spec => []TypeOK
  BY TypeInit, TypeStep, LockStep, PTL DEF Spec

(* However requests are retried, declined and answered late, the user is asked to
   log in by two windows at once only if one is a connection prompt, and has
   locked the wallet since its request found it unlocked: at most one request in
   the queue of service:authenticate goes on to its prompt.                  *)
THEOREM AskedOnce == Spec => []AuthOnce
<1>1. LockInv /\ FoundInv => AuthOnce
  <2> SUFFICES ASSUME LockInv, FoundInv, NEW r \in Request, NEW q \in Request,
                      AsksToLogIn(r), AsksToLogIn(q), r # q
               PROVE  \E s \in {r, q} : pc[s] = "connecting" /\ s \notin found
    BY DEF AuthOnce
  <2>1. ~(pc[r] = "asking" /\ pc[q] = "asking")
    BY DEF LockInv
  <2>2. PICK s \in {r, q} : pc[s] = "connecting" /\ ~unlocked
    BY <2>1 DEF AsksToLogIn
  <2>. QED
    BY <2>2 DEF FoundInv
<1>2. Init => FoundInv
  BY DEF Init, FoundInv
<1>. QED
  BY <1>1, <1>2, TypeInit, TypeStep, LockStep, FoundStep, PTL DEF Spec
=============================================================================
