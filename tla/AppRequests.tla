---------------------------- MODULE AppRequests -----------------------------
(* Pages of one app ask to be connected to accounts of the wallet
   (requestConnection of src/src/script/service.ts, unlock_to_continue() and
   check_app_permissions() of service-apps.ts, and the screens
   RequestConnection_*.svelte that the prompts show).

   Two queues are held at once: the lock service:authenticate, while its holder
   waits for a prompt, and the lane of the tab, where that prompt waits for its
   turn (FlowLane) behind prompts that may need the wallet to be unlocked.    *)
EXTENDS Naturals, FiniteSets, Sequences, SequencesExt

CONSTANTS
    Request, Tab, Chain, Account,
    TabOf,      \* the tab of each request
    Wants,      \* and what it asks for: chains, an account and permissions
    MaxLocks,   \* bound: times the user locks the wallet
    MaxRetries, \* retries after an authentication (5)
    Slow,       \* bound: requests that the router may lose its patience with
    None

Permission == {Wants[r].perms : r \in Request}
NoConnection == [accounts |-> {}, perms |-> None]
Connection == [accounts : (SUBSET Account) \ {{}}, perms : Permission]
Connections == [Chain -> Connection \union {NoConnection}]
Nothing == [c \in Chain |-> NoConnection]
Answer == [kind : {"none", "late", "granted"}, conns : Connections]

ASSUME ConstantsAssumption ==
    /\ TabOf \in [Request -> Tab]
    /\ \A r \in Request : /\ Wants[r].chains \in (SUBSET Chain) \ {{}}
                          /\ Wants[r].account \in Account
    /\ Slow \subseteq Request
    /\ {MaxLocks, MaxRetries} \subseteq Nat

VARIABLES
    unlocked, \* is the wallet unlocked?
    conns,    \* the app's connections in the apps store
    lock,     \* requests that have or await service:authenticate
    lane,     \* prompts of each tab; the first one is shown
    pc,       \* where the handler of each request is
    tries,    \* retries so far
    app,      \* the app's connections when its permissions were checked
    left,     \* chains that the request's prompt has yet to ask about
    granted,  \* chains that the user has approved in it
    told,     \* what the page has been told
    locks,    \* times the wallet was locked
    found     \* history: requests that found it unlocked since then

vars == <<unlocked, conns, lock, lane, pc, tries, app, left, granted, told, locks,
          found>>

Prompt == [req : Request, kind : {"authenticate", "connect"}]

TypeOK ==
    /\ unlocked \in BOOLEAN
    /\ conns \in Connections
    /\ lock \in Seq(Request)
    /\ lane \in [Tab -> Seq(Prompt)]
    /\ pc \in [Request -> {"idle", "unlock", "locked", "asking", "authed", "check",
                           "connecting", "approved", "done"}]
    /\ tries \in [Request -> 0..MaxRetries]
    /\ app \in [Request -> Connections]
    /\ left \in [Request -> SUBSET Chain] /\ granted \in [Request -> SUBSET Chain]
    /\ told \in [Request -> Answer]
    /\ locks \in 0..MaxLocks
    /\ found \subseteq Request

Init ==
    /\ unlocked \in BOOLEAN
    /\ conns = Nothing
    /\ lock = <<>>
    /\ lane = [t \in Tab |-> <<>>]
    /\ pc = [r \in Request |-> "idle"]
    /\ tries = [r \in Request |-> 0]
    /\ app = [r \in Request |-> Nothing]
    /\ left = [r \in Request |-> {}] /\ granted = [r \in Request |-> {}]
    /\ told = [r \in Request |-> [kind |-> "none", conns |-> Nothing]]
    /\ locks = 0
    /\ found = {}

-----------------------------------------------------------------------------
Goto(r, at) == pc' = [pc EXCEPT ![r] = at]

(* open_flow(): the prompt is shown when those before it have been settled.   *)
Shown(r, kind) ==
    /\ lane[TabOf[r]] # <<>>
    /\ Head(lane[TabOf[r]]) = [req |-> r, kind |-> kind]
Enqueued(r, kind) ==
    [lane EXCEPT ![TabOf[r]] = Append(@, [req |-> r, kind |-> kind])]
Settled(r) == [lane EXCEPT ![TabOf[r]] = Tail(@)]

(* A prompt just like one that is shown or queued in the tab is thrown out.   *)
Repeats(r) ==
    \E i \in DOMAIN lane[TabOf[r]] :
        LET other == lane[TabOf[r]][i]
        IN  /\ other.kind = "connect"
            /\ Wants[other.req] = Wants[r] /\ app[other.req] = conns

(* The answer counts unless the router has lost its patience by then.        *)
Told(r, kind, answer) ==
    IF told[r].kind = "none" THEN [told EXCEPT ![r] = [kind |-> kind, conns |-> answer]]
                             ELSE told

-----------------------------------------------------------------------------
Ask(r) ==
    /\ pc[r] = "idle"
    /\ Goto(r, "unlock")
    /\ UNCHANGED <<unlocked, conns, lock, lane, tries, app, left, granted, told,
                   locks, found>>

(* The request has found the wallet unlocked.                                *)
GoesOn(r) == Goto(r, "check") /\ found' = found \union {r}

(* unlock_to_continue(): go on if the wallet is unlocked, else get the lock and
   look again, and then ask the user to log in.  A mutant does so without the
   lock.                                                                     *)
UnlockAtOnce(r) ==
    /\ pc[r] = "unlock"
    /\ IF unlocked THEN GoesOn(r) /\ UNCHANGED <<lock, lane>>
       ELSE /\ Goto(r, "asking") /\ UNCHANGED found
            /\ lock' = Append(lock, r)
            /\ lane' = Enqueued(r, "authenticate")
    /\ UNCHANGED <<unlocked, conns, tries, app, left, granted, told, locks>>
Unlock(r) ==
    /\ pc[r] = "unlock"
    /\ IF unlocked THEN GoesOn(r) /\ UNCHANGED lock
       ELSE Goto(r, "locked") /\ lock' = Append(lock, r) /\ UNCHANGED found
    /\ UNCHANGED <<unlocked, conns, lane, tries, app, left, granted, told,
                   locks>>
Granted(r) ==
    /\ pc[r] = "locked" /\ Head(lock) = r
    /\ IF unlocked
       THEN GoesOn(r) /\ lock' = Tail(lock) /\ UNCHANGED lane
       ELSE /\ Goto(r, "asking") /\ UNCHANGED <<lock, found>>
            /\ lane' = Enqueued(r, "authenticate")
    /\ UNCHANGED <<unlocked, conns, tries, app, left, granted, told, locks>>

(* The user logs in, or finds that the wallet has been unlocked meanwhile.    *)
Authenticate(r) ==
    /\ pc[r] = "asking" /\ Shown(r, "authenticate")
    /\ unlocked' = TRUE
    /\ lane' = Settled(r)
    /\ Goto(r, "authed")
    /\ UNCHANGED <<conns, lock, tries, app, left, granted, told, locks, found>>

(* RETRY starts over, a limited number of times, CANCEL ends the request.  A
   mutant returns without freeing the lock.                                  *)
RetryHolding(r) ==
    /\ pc[r] = "authed"
    /\ IF unlocked /\ tries[r] < MaxRetries
       THEN Goto(r, "unlock") /\ tries' = [tries EXCEPT ![r] = @ + 1]
       ELSE Goto(r, "done") /\ UNCHANGED tries
    /\ UNCHANGED <<unlocked, conns, lock, lane, app, left, granted, told,
                   locks, found>>
Retry(r) ==
    /\ pc[r] = "authed"
    /\ lock' = Tail(lock)
    /\ IF unlocked /\ tries[r] < MaxRetries
       THEN Goto(r, "unlock") /\ tries' = [tries EXCEPT ![r] = @ + 1]
       ELSE Goto(r, "done") /\ UNCHANGED tries
    /\ UNCHANGED <<unlocked, conns, lane, app, left, granted, told, locks,
                   found>>
Decline(r) ==
    /\ pc[r] = "asking" /\ Shown(r, "authenticate")
    /\ lane' = Settled(r)
    /\ lock' = Tail(lock)
    /\ Goto(r, "done")
    /\ UNCHANGED <<unlocked, conns, tries, app, left, granted, told, locks,
                   found>>

-----------------------------------------------------------------------------
(* The chains that are connected with the very permissions asked for.  The
   comparison of the accounts changes nothing: its break only leaves its loop. *)
Preapproved(r) ==
    {c \in Wants[r].chains : /\ conns[c] # NoConnection
                             /\ conns[c].perms = Wants[r].perms}
Connected == UNION {conns[c].accounts : c \in Chain}

(* The app is looked up.  It is answered if all it wants has been approved
   before; otherwise the user is asked about every chain.                    *)
Check(r) ==
    /\ pc[r] = "check"
    /\ app' = [app EXCEPT ![r] = conns]
    /\ IF Wants[r].account \in Connected /\ Wants[r].chains = Preapproved(r)
       THEN /\ told' = Told(r, "granted", [c \in Chain |-> IF c \in Wants[r].chains
                                                THEN conns[c] ELSE NoConnection])
            /\ Goto(r, "done")
            /\ UNCHANGED <<lane, left>>
       ELSE /\ UNCHANGED told
            /\ IF Repeats(r) THEN Goto(r, "done") /\ UNCHANGED <<lane, left>>
               ELSE /\ Goto(r, "connecting")
                    /\ lane' = Enqueued(r, "connect")
                    /\ left' = [left EXCEPT ![r] = Wants[r].chains]
    /\ UNCHANGED <<unlocked, conns, lock, tries, granted, locks, found>>

Asked(r, c) == pc[r] = "connecting" /\ Shown(r, "connect") /\ c \in left[r]

(* A prompt that finds the wallet locked first asks for the passphrase, without
   any lock.                                                                 *)
LogIn(r) ==
    /\ ~unlocked
    /\ pc[r] = "connecting" /\ Shown(r, "connect")
    /\ unlocked' = TRUE
    /\ UNCHANGED <<conns, lock, lane, pc, tries, app, left, granted, told,
                   locks, found>>

(* The user deals with one chain after the other.  The accounts connected when
   the app was checked cannot be taken off; the app is saved with the one
   connection as its only one.                                               *)
Dealt(r, c) ==
    /\ left' = [left EXCEPT ![r] = @ \ {c}]
    /\ IF left[r] = {c}
       THEN /\ lane' = Settled(r)
            /\ Goto(r, IF granted'[r] = {} THEN "done" ELSE "approved")
       ELSE UNCHANGED <<lane, pc>>
Saved(r, c, accounts) ==
    [d \in Chain |-> IF d = c THEN [accounts |-> accounts, perms |-> Wants[r].perms]
                     ELSE NoConnection]
Approve(r, c, accounts) ==
    /\ unlocked /\ Asked(r, c)
    /\ accounts # {} /\ app[r][c].accounts \subseteq accounts
    /\ conns' = Saved(r, c, accounts)
    /\ granted' = [granted EXCEPT ![r] = @ \union {c}]
    /\ Dealt(r, c)
    /\ UNCHANGED <<unlocked, lock, tries, app, told, locks, found>>
Reject(r, c) ==
    /\ Asked(r, c)
    /\ UNCHANGED granted
    /\ Dealt(r, c)
    /\ UNCHANGED <<unlocked, conns, lock, tries, app, told, locks, found>>

(* The user closes the window: the request is cancelled, though what was
   approved stays.                                                           *)
Close(r) ==
    /\ pc[r] = "connecting" /\ Shown(r, "connect")
    /\ lane' = Settled(r)
    /\ Goto(r, "done")
    /\ UNCHANGED <<unlocked, conns, lock, tries, app, left, granted, told,
                   locks, found>>

(* The prompt is settled: the app is read again, and all its connections are
   the answer.                                                               *)
Respond(r) ==
    /\ pc[r] = "approved"
    /\ told' = Told(r, "granted", conns)
    /\ Goto(r, "done")
    /\ UNCHANGED <<unlocked, conns, lock, lane, tries, app, left, granted,
                   locks, found>>

(* The router answers in place of a handler that is not done in time.        *)
Late(r) ==
    /\ r \in Slow
    /\ pc[r] # "idle" /\ told[r].kind = "none"
    /\ told' = Told(r, "late", Nothing)
    /\ UNCHANGED <<unlocked, conns, lock, lane, pc, tries, app, left, granted,
                   locks, found>>

(* The user locks the wallet.                                                *)
Lock ==
    /\ unlocked /\ locks < MaxLocks
    /\ unlocked' = FALSE
    /\ locks' = locks + 1
    /\ found' = {}
    /\ UNCHANGED <<conns, lock, lane, pc, tries, app, left, granted, told>>

-----------------------------------------------------------------------------
Service(r) == Unlock(r) \/ Granted(r) \/ Retry(r) \/ Check(r) \/ Respond(r)
User(r) ==
    \/ Authenticate(r) \/ Decline(r) \/ LogIn(r) \/ Close(r)
    \/ \E c \in Chain : Reject(r, c) \/ \E accounts \in SUBSET Account : Approve(r, c, accounts)

Next ==
    \/ \E r \in Request : Ask(r) \/ Service(r) \/ User(r) \/ Late(r)
    \/ Lock

Spec == Init /\ [][Next]_vars

(* The worker runs, and the user deals with the prompts that are shown.      *)
Fairness == \A r \in Request : WF_vars(Service(r)) /\ WF_vars(User(r))
FairSpec == Spec /\ Fairness

-----------------------------------------------------------------------------
(* The lock keeps two windows from asking the user to log in at once
   (service-apps.ts:94, "busy authenticating"), but for connection prompts, which
   ask on their own when they find the wallet locked (flow.ts:526): of two
   windows that ask, one is such a prompt, and the wallet has been locked since
   its request found it unlocked.                                            *)
AsksToLogIn(r) ==
    \/ pc[r] = "asking" /\ Shown(r, "authenticate")
    \/ pc[r] = "connecting" /\ Shown(r, "connect") /\ ~unlocked
AuthOnce ==
    \A r, q \in Request :
        AsksToLogIn(r) /\ AsksToLogIn(q) /\ r # q =>
            \E s \in {r, q} : pc[s] = "connecting" /\ s \notin found

(* If the user deals with the prompts that are shown, every request ends: those
   that wait for the lock, for a lane and for the wallet never wait for each
   other.                                                                    *)
RequestsEnd == \A r \in Request : pc[r] # "idle" ~> pc[r] = "done"

(* Approving one chain leaves the accounts connected on the others alone
   (RequestConnection_Accounts.svelte:104, "existing connections cannot be
   deleted on this screen").                                                 *)
ConnectionsKept ==
    [][\A c \in Chain : conns[c].accounts \subseteq conns'[c].accounts]_vars

(* A page that is granted its request is told a connection of every chain it
   asked for that includes the account it asked for.                         *)
AccountAnswered ==
    \A r \in Request : told[r].kind = "granted" =>
        \A c \in Wants[r].chains : Wants[r].account \in told[r].conns[c].accounts
=============================================================================
