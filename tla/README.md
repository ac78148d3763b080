# A verification of the StarShell wallet's core

StarShell is a browser-extension wallet: a service worker, popups and windows,
and content scripts share `chrome.storage`, one vault of encrypted stores, and
the service worker's connections to chains.  This directory holds TLA+ models of
the parts of it that keep state and share it, the TLC runs that check them, and
TLAPS proofs.  All paths are relative to the repository's root; in it `vault.ts` is
`src/src/crypto/vault.ts`, `_base.ts` is `src/src/store/_base.ts` and `auth.ts` is
`src/src/share/auth.ts`.

## 1. Inventory

| Component | State | Operations | Model |
| --- | --- | --- | --- |
| Store access (`vault.ts`, `_base.ts`) | one Web Lock per store, ciphertext in local storage, the vector in session storage, default objects in each frame | `open`, `read`, `save`, release; lease (3 s), abort (5 s) | `StoreAccess`, `StoreRegister` |
| Root key life cycle (`auth.ts`, `vault.ts`, `Register.svelte`, `Authenticate.svelte`) | base (nonce, signature), salt, Argon2 parameters, session keys | `register`, `login`, `recryptAll`, `clearRootKey`, `factory_reset`, updates | `KeyRotation` |
| Rate limiting (`src/src/util/{temporal-slots,async-lock-pool,rate-limiting-pool}.ts`) | available slots, cooling timers, two queues | `acquire`, release, `_dequeue`, the pool's microtask | `TemporalSlots`, `AsyncLockPool`, composed in `RateLimitingPool` |
| Flow lanes (`src/src/script/msg-flow.ts`, `open_flow`) | per browser tab: lane time, intent, queue, `clear` closure, tab listeners | `open_flow`, `clear`, tab events | `FlowLane` |
| Chain feed (`src/src/script/service-feed.ts`, `src/src/cosmos/tm-json-rpc-ws-const.ts`) | sockets, message counter, call structs, subscriptions, waiting calls | `open`, `autoSubscribe`, `restart`, `wake`, `destroy` | `FeedSocket` |
| List of feeds (`service.ts`, `service-router-instruction.ts`, `createAll()` and `recreate()` of `service-feed.ts`) | `a_feeds`, `H_FEEDS`, three locks | alarm check, `wake`, login, logout | `NetworkFeeds` |
| Flow prompt port (`open_flow_query` of `msg-flow.ts`, `entry/flow.ts`) | port, heartbeat timer, reload grace, one promise | connect, answer, error, reload, shutdown | `FlowPrompt` |
| App permissions and requests (`service.ts`, `service-apps.ts`, `RequestConnection_*.svelte`) | connections in the apps store, `service:authenticate` lock, lanes | `requestConnection`, `unlock_to_continue`, the prompt's screens | `AppRequests` |
| Incidents, histories, synchronisation (`cosmos-network.ts`, `service-tx-abcis.ts`, `followAccount()`, `incidents.ts`, `RequestSignature.svelte`) | stages of transactions, their order, a height per chain | `record`, `mutateData`, `synchronize`, the event hooks, signing | `TxSync` |
| Throttles (`limiter.ts`, `consolidator.ts`, `pulse-monitor.ts`) | flags and timers | `notice`, `queue` | not modelled (section 5); the pulse monitor is in `FlowPrompt` |
| Navigator and threads (`src/src/app/nav/`) | histories of pages | `activateThread`, `jump`, `pop` | not modelled (section 5) |
| Everything else | - | - | not modelled: see `PROJECT.json`, `components` |

How they interact: every store is opened through `StoreAccess`, under the
session that `KeyRotation` opens, closes and re-encrypts for (`Login`, `Logout` and
`Wipe` of `StoreAccess` are what a `KeyRotation` session change looks like to a store).
The service worker asks the user through `FlowPrompt`, one prompt of a tab at a time
(`FlowLane`); `AppRequests` uses both, with a lock of its own around some of the prompts.
It follows chains through `FeedSocket`, keeps those feeds in `NetworkFeeds`, records
what they report in `TxSync`, and sends queries through `RateLimitingPool`. Each of
these takes of the others what it depends on: a lane whose prompts end, a feed
that is alive or not, a subscription that delivers or is lost.

What is hard about it, and what correctness means:

- *Store access*: two frames read, change and write back one ciphertext, with
  awaits between; timers free a lock whose holder still works; frames die. Correct: no
  acknowledged update is lost and the store behaves as if each update were atomic, up
  to what a write costs that outlives its lease; and no lock is held for ever.
- *Key rotation*: each login re-encrypts every store under a new key, over many
  storage writes, in a window that may be closed after any of them. Correct: the
  passphrase always opens the vault again, nothing is lost, a reset is final, and
  no session opens for a wrong passphrase.
- *Rate limiting*: two queues in series, one fed by timers, one by microtasks.
  Correct: slots are conserved and first come is first served, no queue is left
  behind, and every call runs.
- *Flow lanes*: a lane is checked before an await and entered after; a tab event
  frees it under a running prompt. Correct: prompts of a tab show one at a time, a
  lane is never taken without a prompt, every queued prompt gets its turn.
- *Chain feed*: a socket restarts its numbering while old call structs stay; a
  call holds a socket while others replace it. Correct: each message reaches its
  receiver, lost subscriptions are restored, calls end, destroyed feeds are closed.
- *List of feeds*: three locks that do not exclude each other guard one list, which
  is changed while it is iterated; a socket that was lost once cannot be closed. Correct: a
  chain has one feed on the list, connections stay within reach, dead feeds are
  replaced, and only a node can keep a check waiting. The code keeps each of these
  only up to what section 3 says.
- *Flow prompt*: an answer, the end of the window, a reload and the worker's own
  timeout race for one promise. Correct: the first answer stands, a window that is gone
  settles its prompt, and a prompt given up closes its window.
- *App requests*: a lock is held while a prompt waits for a lane, behind prompts that wait
  for the lock. Correct: the user is asked to log in by one window, connection prompts
  apart, and no request hangs.
- *Synchronisation*: an event, a search and the signing screen each read a transaction's
  record, await the chain and write it, to two stores. Correct: nothing below the
  synchronized height is unrecorded, and nothing slips through between the subscription
  and the search.

The hazards at their lines are in `PROJECT.json`, `hazards`.

## 2. The modules

**`StoreAccess`** models one store. A call of `open()` goes through `pc`: `idle`,
`queued` (asked for the lock), `loading` (inside the lock callback, before the lease is
armed), then reading, creating, using, sealing and storing. `holder` is the Web Lock,
`live` the entries that are not neutered; they differ because the lease neuters
an entry before the code that uses it notices. Each step ends at an `await`. `Put` is one
call of `save()` by any of the container classes: the caller's own name stands for
the item it adds, so that a lost update shows as a missing name. `default`,
`aliased` and `cache` are the object a frame shares between calls. The lease ends
whatever its holder does, a write under way included (`overdue`), and such a write may
still land (`Land`). A wipe ends no frame: a frame that had created the store keeps what
it put into its default object. `acked`, `updates`, `relics` (items in a default object
at a wipe), `overdue`, `torn` (an overdue write has landed) and `crossed` (calls that were
open when it did) are history variables: they record, and guard nothing.
**`StoreRegister`** is the abstract specification: a set to which items are added in one
step, which logins keep and wipes empty, into which `relics` may return, and whose promise
ends with a write that lands late (`Tear`); `RefinesRegister` is the refinement.

**`KeyRotation`** models the whole vault. A key is what it is derived from:
registration, passphrase, nonce, Argon2 parameters and salt, so that two keys are
equal exactly when the code derives the same bytes. `win[w]` is one window's call of
`register()` or `login()` with all it has read so far. `recryptAll()` runs over all
stores at once, a read and a write each. `Crash` closes a window, `Upgrade` installs a
program with other Argon2 parameters, `ResetSession` and `ResetStorage` are the two awaits
of `factory_reset()`. `code`, `gens` and `salts` count what may be told apart.

**`TemporalSlots`**, **`AsyncLockPool`** and **`RateLimitingPool`**: the last composes the
other two by INSTANCE, as the class does, and takes each of their actions as its
own with the other part unchanged; `Release` is both at once.

**`FlowLane`** models one tab's lane. `event` holds the listeners a tab event still has
to call, since one event may run several of them and each calls whichever `clear`
closure is the lane's by then. A promise that has resolved (`woken`) runs before
the next task (`NewTask`).

**`FeedSocket`** models one feed. A socket record holds the client's part (`count`,
`calls`, `subs`, `restore`, `closed`) and its current connection (`conn`, requests and
messages under way, what the node has subscribed). `Turn` is the microtask that follows a
call or another's end, and runs before the next macrotask (`Quiet`). The node
(`Serve`, `Emit`) is external: it answers in order, allows `PerClient` subscriptions per
connection, and rejects the queries in `Rejected`.

**`NetworkFeeds`** reduces a feed to one socket. `life` is its connection (`up`, `silent`,
`lost`, `healed` by the one restart a socket has, `closed`) and `call` where its `create()`
is: `opening` the socket, which has a time limit, or `joining`, which awaits the node to
confirm what the feed follows and may last for ever; `create()` swallows what fails
there, so a feed is `returned` in any case once it was open. `gone` says that `destroy()`
was called, which closes nothing if the socket was lost before, since `_b_closed` is set
for good (`Destroyed`); and to `wake()` such a feed is dead even when it has healed
(`Deaf`). `check` is the one `check_network_feeds()` that has `net:feeds`, `wakes` the
popups' requests under `net:feed:<host>`, `known` the map `H_FEEDS`. The feed that a check's
`recreate()` returns is not put on the list and runs on (`Dropped`). The index `i` of an
iteration stays while the list shrinks under it, as the code's iterator does, and `made`
keeps the order in which `createAll()` made its feeds. Two history variables: `raced`, two
have been making feeds of the same chains at once, or two requests have replaced the
same feed; and in `wakes`, `pairs`, the neighbours on the list that were both deaf when a
request began. Feeds nobody holds and whose connection is closed are used again as
identifiers (`Unheld`), which bounds the model and changes no behaviour. Which accounts a
feed follows is left out (section 5). The names of its specification (`FeedsInit`,
`FeedsNext`, `FeedsSpec`) differ from `FeedSocket`'s, since `FeedProofs` is about both.

**`FlowPrompt`** has two processes, joined by `wire` and `ack`: the service worker (`Handle`,
`GraceEnds`, `Tardy`) and the window (`Connect`, `Beat`, `Submit`, `CloseSelf`). A port that
closes puts `bye` on the wire after what was sent before. A window that submits an error
waits for an acknowledgement of another name, so only the user closes it.

**`AppRequests`** composes lanes and the lock in one state: `lane[t]` lists the prompts of a
tab, the first one shows (what `FlowLane` establishes), `lock` lists who has or awaits
`service:authenticate`. `app[r]` is the app as it was looked up before the prompt,
and what is saved after the prompt is made from it. `Slow` names requests on which the
message router gives up (`Told`) while their handler goes on. `found` is a history variable:
the requests that found the wallet unlocked since it was last locked.

**`TxSync`** models one account. `stage` is the incidents store, `shown` and `height` the
histories store, `saving` says who is between its two saves. `sync[c]` is the feed of a
chain with the pages of its search, `conn[c]` its subscription (`up`, `away` when the
connection is lost, even amid the search, `healed` by its one restart, `closed` at the
second loss), `hook[t]` the handler of a transaction's event, `win[t]` the signing screen. A
search that fails leaves the feed as it is, with its subscription, and it never
synchronizes again until a feed is made again (`SyncFails`, `Recreate`). A transaction that
was not found is marked absent whatever has become of it since (`MarkAbsent`). `missed`
(events that the chain's present feed has not taken in) and `overtaken` (transactions marked
absent after they had been recorded) are history variables. A chain has one filter and a
block one transaction: the code runs an account's four filters (sent, sent with a fee
grant, received, fee grants given to it) one after the other over the same cursor functions, and a
block is skipped or taken as a whole; the filters of a feed that come after one that fails
are chains whose feed has failed at `latest`. Two things about the filters that the
model leaves out: a synchronized fee grant is never recorded, since `service-feed.ts:698`
hands on `events: []` and `service-tx-abcis.ts:849` returns early then; and while a feed that
healed before it was destroyed runs on beside its successor, each event is handled twice.

Definitions marked as mutants in the modules are plausible bugs of the definition
below them. They are used by no specification; `PROJECT.json` names the property that each
one breaks.

## 3. The runs

| Run | Bounds | Shows |
| --- | --- | --- |
| `StoreAccess` | three calls in two frames, two epochs, one dying frame | exclusion; no stale object and no lost acknowledged update before a write lands late; no item from before a reset but a surviving frame's; no write begun without the lock; refinement of the atomic register |
| `StoreLiveness` | two calls in two frames | the lock is always freed, and every wait ends |
| `RotationCrash` | one window, two stores, two passphrases, two registrations, one update | recoverability from a window closed anywhere, data kept, resets final, the right passphrase never refused |
| `RotationWindows` | two windows, one store, two registrations | a session opens only for the right passphrase, whatever the windows do to each other |
| `RotationStaleParams` (finding) | one window, an update, and a window closed between the last two writes | a vault that refuses its own passphrase |
| `RateLimit` | five calls, three slots, one lock | no more calls run than there are slots, order kept, every call runs |
| `LaneTurns` | three prompts, one with a condition, tab events and windows that fail | one prompt at a time, a lane is taken only by a prompt, turns are given |
| `PromptAnswers` | prompts of two tabs, one of which is reloaded | the first answer stands, a window that is gone settles its prompt, a prompt given up closes its window |
| `Requests` | three requests of two tabs, two chains, one locking of the wallet, one retry, one impatient page | two windows ask for a login at once only if one is a connection prompt that a locking has overtaken, no request waits for ever |
| `FeedHeals` | three subscriptions, one rejected, one per connection, one loss, one health check | right receivers, subscriptions restored, calls end |
| `Feeds` | two chains, either possibly offline, six feeds, two checks, two popups, one failure of any feeds, loss, logout or restart | until two make feeds at once, one listed feed per chain and all within reach but for the two kinds the code leaks; no two dead neighbours skipped; only a node keeps a check or a request for ever |
| `TxSync` | one transaction sent, that may fail, one received, two chains, pages of one, any two of a crash, failed search, loss or new feed | the synchronized height covers what is recorded, the history lists only what exists, nothing slips through between subscription and search |

Why the bounds are enough: the store races need one call that is overtaken and one that
overtakes, and a third that waits behind both; the rotation distinguishes only
"this nonce", "the next" and "another", which a modulus of three tells apart and makes
wrap around; the slots need more calls than slots and two in the queue to
see overtaking; a lane needs one prompt that shows, one that waits and one that comes
late; a feed needs a socket that is full, one that replaces it, and a waiter that
holds the first; the list needs two feeds that fail together, so that one is skipped, and
room for those that replace them and for those that leak; a deadlock over one lock and the lanes needs a
request that holds the lock, one in front of it in its lane, and one elsewhere; a
search needs a page that ends between two transactions, and two troubles, so that a feed
that was lost or failed is made again. `MaxId`, `MaxEpoch`, `MaxGen`,
`MaxSalt`, `MaxCode`, `MaxWrites`, `MaxDeaths`, `MaxSockets`, `MaxInbox`, `MaxLosses`, `MaxPings`,
`MaxFeeds`, `MaxChecks`, `MaxTroubles`, `MaxLocks` and `MaxRetries` bound counters in the guards; each stands with its
meaning at the constant. `CHECK_DEADLOCK` is off everywhere: a vault may stay locked,
and calls are finite in number, so stopping is legal.

### What the passing runs assume

Some environments break properties in the code itself. Each is a constant, so that
the assumption is visible, and each was run the other way:

| Constant | In the passing runs | What TLC finds otherwise |
| --- | --- | --- |
| `AuthMidOpen` | no login or wipe while a store is open | an update saved under the old session's key |
| `StorageMayFail` (liveness only) | storage answers | a failing read inside the lock callback, before the lease is armed, keeps the lock |
| `SplitsBase` | no crash between the base and its parameters when they change | run `RotationStaleParams` |
| `UpgradeMidway` | no change of parameters while a rotation is cut short | stores under neither of the two keys: each login ends in a logout |
| `ResetMidLogin` | resets come between logins (not in `RotationWindows`) | a registration that goes on after the reset and stores its base |
| one window | `RotationCrash` has one | with two, `recryptAll()` undoes a save, and a salt drawn by one invalidates the other's base |
| `LateQueue` | `chrome.tabs.get()` answers before the running prompt does | a prompt that joins the queue after the lane was freed waits for ever (`msg-flow.ts:246`) |
| `Strands` | a condition fails only with nobody queued behind | the queue behind it waits for ever |
| `LateCalls` | `autoSubscribe()` is called once the socket has opened | a subscription that is not restored |
| `MaxLosses = 1` (`FeedHeals`) | a connection is lost once | a second loss is never healed |
| `Overlap` | a window connects more than a second after another's end | the grace of a port that closed is ended by another prompt's window, and its prompt never settles |
| `LateAnswer` | the worker does not give up on a window that is just answering | an answer that arrives after the promise was cancelled (`AnswerStands`) |
| `MayFail` | a prompt's window opens and connects | a prompt that never settles (`msg-flow.ts:200`) |

Statements one would expect, which the code does not keep under any of these assumptions; each
was refuted by TLC in the model, and no run claims it:

- `ConcurrencyKept` (`RateLimitingPool`): a lock that a microtask hands to a waiter
  stays counted as free (`async-lock-pool.ts:34`), so two calls run under a limit of one.
  `SlotsCapThePool` is what still holds.
- `DestroyCloses` (`FeedSocket`): a socket that healed once has `_b_closed` set for good, so
  `destroy()` leaves its connection open.
- The lane's intent (`msg-flow.ts:232`) is set when the lane is made and when a prompt
  leaves the queue, not when a prompt takes a free lane: a repeat is compared with a
  prompt that is over.
- `EverySettles` (`FlowPrompt`): nobody listens to the port of a window that was reloaded
  within the grace period, so its prompt never settles.
- `ConnectionsKept` (`AppRequests`): approving a connection replaces all of the app's
  connections (`RequestConnection_Permissions.svelte:227`, "replace connections"), though
  `RequestConnection_Accounts.svelte:104` has it that existing connections cannot be deleted on
  this screen: an app that asks for a second chain loses the first. `AccountAnswered`, that
  a page is told of the account it asked for, fails too, since the check leaves the inner
  loop only (`service.ts:318`).
- In `StoreAccess`, that only the lock's holder writes, that no update is ever lost, and that
  nothing comes back after a reset. A write that passed its check lands after the lease gave
  the lock to another call (`vault.ts:828`) and costs that call's update; a frame that lives
  through a reset creates the store with what it had put into its default object
  (`_base.ts:293`). The properties say how far this goes: a lease that ends costs one write at
  most (`WritesFenced`), nothing is lost until one lands (`torn`), only calls that were open
  then hold too little (`crossed`), and only such items come back (`relics`).
- In `NetworkFeeds`, that a chain never has two connected feeds and that none is out of
  reach. Every check leaks the feed it makes in place of a silent one (`service.ts:874`), and
  a socket that healed before it was destroyed runs on (`tm-json-rpc-ws-const.ts:237`). And two
  can make feeds of the same chains at once: a `createAll()` that threw for an offline chain
  is still making others at the next check; a check that finds the list empty meets a popup
  that has taken the only feed off it (`service-router-instruction.ts:60`); two popups recreate
  the same feed, since each read it before the lock. `OneListedPerChain` and `Reachable` say
  that all is well until then, and name the two leaks.
- In `NetworkFeeds`, that a request to wake replaces every dead feed: it skips the one after
  each that it replaces (`service-router-instruction.ts:35`). `WakeHeals` says that it skips no
  two in a row. Two requests at once may: one shortens the list while the other iterates, so
  with enough chains (six) there is room for two neighbours to be passed over, and the
  property is about a request that overlaps no other.
- In `NetworkFeeds`, that a check or a request ends: `create()` and `followAccount()` await the
  confirmation of subscriptions without a time limit, with `net:feeds` held. `WorkEnds` says
  that nothing else keeps them.
- In `TxSync`, that what is committed ends up recorded. No liveness is claimed there, since
  the code gives no reason for it: a failed search is swallowed (`service-feed.ts:249`) and
  nothing synchronizes again until the feed is made again, which nothing brings about; a
  connection that heals does not look for what it has missed; a crash between the two saves
  hides an incident for good. And that what was recorded stays: a late mark of absence
  overwrites it (`cosmos-network.ts:1163`), also across chains, since a feed looks for the pending
  transactions of all chains on its own. And that an incident tells a refused transaction
  from a committed one: a broadcast that arrived, answered with a gateway error, is refused as
  known when repeated (`cosmos-network.ts:882`). `SyncCovers` and `NothingSlips` say what the search
  and the subscription still give.
- In `AppRequests`, that one window at a time asks for a login: a connection prompt that
  finds the wallet locked asks by itself (`flow.ts:526`), without the lock. `AuthOnce` says
  that nothing else does so.

`CallsEnd` also excuses calls after a lost connection: an unconfirmed call never ends
in the code, and keeps the feed busy.

### Fairness

Only what the platform and the code's timers give: a promise that can resolve does
(weak fairness of the steps between awaits), the lease and abort timers fire, the Web
Lock is granted to the first in its queue, a microtask and a cooling timer run, a
user answers a prompt or closes its window, the node answers. In the later modules: a
ping or a socket being opened ends, well or not, since it has a time limit, but nothing that
awaits the confirmation of a subscription (`NetworkFeeds`); messages are handled, the second of grace runs out and a page goes on
(`FlowPrompt`; that the monitor's five seconds run out is not needed, and not assumed); the
handlers go on and the user deals with the prompts that show (`AppRequests`). `TxSync` assumes
none. Calls, logins, crashes, losses, health
checks, alarms, commits, lockings and resets are never fair: they may not happen.

## 4. The proofs

`StoreAccessProofs` proves about `StoreAccess`, for any calls, frames and bounds:

- `TypeCorrect`: `Spec => []TypeOK`;
- `LockIsExclusive`: `Spec => []Exclusive`, with no assumption on timing;
- `WritesAreFenced`: `Spec => WritesFenced`, with none either: a call that lost its lease
  begins no other write;
- `AcknowledgedStays`, `ObjectsAreFresh`, `NothingElseReturns`, `OpenIsAtomic`: under `Orderly`, that
  no login or wipe comes while a store is open (`AuthMidOpen` is false), no acknowledged
  update is lost before a write lands late, no holder works on an older object but those
  that were open when one did, nothing but relics comes back after a reset, and every step
  is one of `StoreRegister` or leaves it as it is.

The argument is the inductive invariant `IInv` at the end of `StoreAccess`. What
`AckedDurable` says is not inductive: to know that a write does not drop an acknowledged
item, one must know that the object it was made from includes all that is
stored (`HeldInv`), which holds because nobody else wrote since it was loaded (`LockInv`:
only the lock's holder has a live entry; `PathInv`: a call that writes has one, or its
lease ended amid the write), and that its key still is the session's (`KeyInv`). A call that
is `crossed` by a late write loses this, and keeps losing it until it ends; the next
one to open the store reads what is there and has it again. Each part is shown to be kept by
every action in a lemma of its own, and `Invariance` combines them.

For `NothingElseReturns`: an item could come back from the ciphertext, an object in a frame, a
default or the write under way; `GhostInv` bounds each of them by what was put since
the last wipe and by the relics. For `OpenIsAtomic` these bounds do not say what a write
adds, so `ExactInv` says what the holder's object is exactly, what is stored and the holder's
own update; `CreatorInv` does so for a store that does not exist yet, since there the
default objects of several frames meet.

`KeyRotationProofs` proves about `KeyRotation`, for any windows, stores and passphrases:

- `TypeCorrect`: `Spec => []TypeOK`;
- `OnlyRightPhrase`: `Spec => OnlyRightPhraseOpens`, whatever the windows do to each
  other and wherever they are closed or reset.

`OnlyRightPhraseOpens` is about the step that opens the session, and the passphrase was
checked several awaits earlier; `PhraseInv` carries the check along: the two keys
of a window are derived from what was typed, and past `verifyRootKey()` that is the
passphrase of the base the window has read. The assumption is
`ConstantsAssumption`: finite sets of windows and stores, at least one passphrase, a
modulus of at least two, natural bounds.

`KeyRotationProofs` further proves the seven properties of the run `RotationCrash` for any
stores, passphrases, nonces, registrations, resets and program versions:
`VaultRecovers` (`Recoverable`), `NothingIsOrphaned`, `OpenVaultReads`
(`UnlockedReads`), `DataIsKept` (`RecryptKeepsData`), `ResetsAreFinal`, `RightPhraseIsAccepted`
and `NeverAborts`. They assume `Calm`, what that run's configuration says: one window, and
neither `SplitsBase`, `UpgradeMidway` nor `ResetMidLogin`; without each of them
section 3 tells what is refuted. `Recoverable` speaks only of the time between logins
and says nothing of how a rotation came to be half done. `RotInv` has four parts
for that: what is stored (`VaultInv`); what a login would find if the window were
closed now, every store under one of two keys and the base under the first
(`RestInv`); when a session may be open (`SessionInv`); and what the call knows at each
step (`CallInv`): that the keys it derived are still those two, that a ciphertext it
has read is still the one stored, and that a store no longer to do is under the
new key. Along the way `VerifiedRightly` shows that `verifyRootKey()` accepts exactly the
passphrase of the base, and by the old key: the branch at `auth.ts:168` is not needed.

`FlowLaneProofs` proves about `FlowLane`, for any number of calls and prompts, and with
`LateQueue`, `Strands`, `TabEvents` and `MayFail` all allowed:

- `TypeCorrect`: `Spec => []TypeOK`;
- `BusyOnlyWhileShowing`: `Spec => []BusyShows`;
- `NoStrayListener` and `OnePromptPerTab`: `Spec => []ListenersFollowLane` and
  `Spec => []OneFlowPerTab`.

The inductive invariant is `LaneInv`. One prompt at a time is not inductive: a call that
was woken will start without looking at the lane again, so one must know that the lane
is still free then and that only one call was woken (`WokenAlone`). That in turn
depends on who may free the lane: the call that has it (`HolderShows`), or the
listeners a tab event found (`EventMeetsHolder`), which are those of that call alone. A
call with a condition gives all this up, since it goes on while the lane counts as
free; the invariant therefore speaks of the time before one is read, and
`NoneBefore` shows that this time never comes again.

`RateLimitingPoolProofs` proves about `RateLimitingPool`, for any calls, capacity and
concurrency: `TypeCorrect`; `SlotsKept` (`Spec => []SlotsConserved`); `HostIsSpared`
(`Spec => []SlotsCapThePool`); `InTurn` (`Spec => NoOvertaking`). Counting is the difficulty:
a slot moves between a number (those available), a set (the calls that hold one) and
another number (those cooling), so each action's effect on the cardinality is a lemma of its
own, and the queue must be shown to list calls that wait, each once. That
the pool itself is overbooked does not matter to `SlotsCapThePool`: a call that runs holds a slot.

`FlowPromptProofs` proves about `FlowPrompt`, for any prompts, reloads and failures and with
`Overlap` allowed: `TypeCorrect`, and `FirstAnswerStands` (`Spec => []AnswerStands`)
under `~LateAnswer`. The invariant `FInv` follows the port, the window and the answer: nothing
follows the end of a window on its wire, the monitor runs only for a port that is open or
just gone, and while the promise is pending the first answer is on the wire, or the
worker can no longer cancel the prompt, since it hears nobody.

`AppRequestsProofs` proves about `AppRequests`, for any requests, tabs, chains, accounts and
retries: `TypeCorrect`, and `AskedOnce` (`Spec => []AuthOnce`). The queue of the lock
lists each request once, and exactly those that wait for it or have it; only its
head deals with a login of its own. A connection prompt asks for one only while the wallet is
locked, and then, as `FoundInv` says, no request is in `found`: each locking has emptied it, and
one is added only while the wallet is unlocked.

`TxSyncProofs` proves about `TxSync`, for any transactions, chains, page sizes and troubles, and
without assumptions: `TypeCorrect`; `HistoryKnown` (`Spec => []OrderKnown`); `NothingMissed`
(`Spec => []SyncCovers`); `NothingLost` (`Spec => []NothingSlips`). What a height covers is not
inductive: the height is saved after a search that took many pages, so the invariant says of
each position of a search what it has dealt with, from the latest height down to the one
it will stop at (`Searched`), and that a search ends only below what was covered before or
at the first block. What it has dealt with is done: synced, or overtaken by a mark, which
`FinalStep` shows to stay; that needs to know who may still replace it (`CInv`: what the wallet
has not sent is on no chain, and what a handler or a search deals with is, so that
nobody records it as pending any more). `Gapless` says the same up to the end of the chain: a
transaction that is committed behind the search is heard by the feed, which has
subscribed before (`Hears`), and is settled from then on (`SettledStays`).

`FeedProofs` proves about `FeedSocket`, for any subscriptions, sockets, losses and health
checks: `TypeCorrect`, and `NoCrossedWires` (`Spec => []RightReceiver`). A message is matched
to its receiver by a number that a restart uses again, and the struct of the old
connection is still there under it. `Sound` says of one socket why that is harmless:
every request and message of a connection has a number below the connection's counter,
no number is asked twice (`Matched`), the struct under such a number was written by
this connection for the same subscription, and events come only for what this
connection has confirmed (`Confirmed`). `HoldsSocket`, that a call past its first await
holds a socket, is what the types of the calls need.

`FeedProofs` proves about `NetworkFeeds`, for any chains, requests, feeds and troubles, with
chains offline at any time and whatever overlaps: `FeedsTypeCorrect`, `OneFeed`
(`FeedsSpec => []OneListedPerChain`), `AllReachable` (`[]Reachable`) and `WakesHeal`
(`[]WakeHeals`), without assumptions beside the constants'. The invariants, on top of each other:

- `Struct`: who holds which feed. Feeds in the making are held by whoever makes them, each by
  one, and the list has each feed once.
- `~raced => Unraced`: while `createAll()` makes feeds there is no list and no request
  replaces one (`CreateAlone`), it makes one of a chain (`OneMaking`, `InMade`) after the
  one it knew was destroyed (`OldGone`), and knows what it has made (`NewKnown`). That
  is what lets a feed be made: either there is a list, and the feed of the chain has just been
  taken off it (`OneListed`, `OffList`), or there is none, and a connected feed is the one that
  `known` has for its chain (`Reached`).
- `Paired`: of two neighbours that were deaf when a lone request began (`Alone`) both stay so
  (`Deafened`), and as long as both are on the list they are side by side and the request has
  not passed the second (`Ahead`, `AtHand`). Feeds move to the left when one is removed, and the
  iteration then skips one place, so it comes to the first or to the second of them, and
  takes that one off.

Each action's effect is stated in a lemma of its own, and a lemma per action, with a step
for each part of the invariant, shows that it is kept.

Only model-checked: liveness (`WaitEnds`, `QueuedGetTurn`, `CallsEnd`, `EveryCallRuns`,
`KeepsFollowing`, `WorkEnds`, `GoneSettles`, `RequestsEnd` and the others need fairness, and `ENABLED` is out of the prover's reach), and two windows at once but for
`OnlyRightPhraseOpens`. Every invariant of a run is also a theorem. Types are proved for
every module with actions, and so not in the runs.

## 5. Not modelled

User interface, cryptography and encodings, chain queries and signing, content scripts and
message relays: pure computation or pure I/O, without state that outlives a
call. They are most of the repository's lines: screens, Keplr's interface, message
schemas, contract queries. The repository has no submission, ordering or consensus of its
own beyond what is modelled.

Three small parts keep state and are left out, since what can be said of each is a line
of code and not an interleaving:

- throttles: `limiter.ts:67` sets `_b_pending` when a notice is deferred and never resets
  it, so every later notice is dropped; `consolidator.ts:76` measures its maximum from the last
  `queue()`, not from the first pending one, so a steady stream is never delivered;
- `runtime-key.ts:180`: `access()` awaits while it holds the old pad, and a `destroy()`
  meanwhile wipes what it will use;
- `navigator.ts:234`: `activateThread()` reads the active thread before it awaits
  `before_switch()`, so a second switch meanwhile leaves from the wrong one.

In the modelled parts: `reinstall()`'s choice of stores to keep (a wipe is a wipe),
migrations (a save like any other), the 10 s limit on a socket's restart (it
only reports), the timeout of `AsyncLockPool.acquire()` (no caller gives one), and the branch of
`login()` at `auth.ts:168`, which the model shows is never reached, since the base is
replaced only after every store is re-encrypted. In `NetworkFeeds`: the supplemental token
feeds (`service-feed.ts:198-206`), which nobody but the next `createAll()` destroys, and which
accounts a feed follows: an account counts as followed before its subscription is
confirmed (`service-feed.ts:640`), failures are swallowed (line 249), and an account that one
feed follows is struck off for all (`service.ts:864`), so that no statement about accounts
and connected feeds holds of the code. In `FlowPrompt`:
the window's attempt to connect again (`flow.ts:107-125`), since a port the worker closes
closes its window first. In `AppRequests`: policies, blocked schemes, the prompts about
illegal chains and Keplr, and the handlers that act on a connection. In `TxSync`: fees,
token feeds, fee grants, the transaction monitor, and the place of an incident in its
history (`insertIncident`); that of two transactions the later one comes first is data.

## 6. The plan

Written in this order: `StoreAccess` with its abstract register and proofs;
`KeyRotation`; the rate limiter; `FlowLane`; `FeedSocket`; `NetworkFeeds`; `FlowPrompt`;
`AppRequests`; `TxSync`; proofs about each. Left: `FeedSocket` as a refinement of
`NetworkFeeds`' abstract feed (alive while it has an open socket that has what it follows,
silent when the connection is lost).
