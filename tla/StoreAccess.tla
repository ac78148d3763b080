---------------------------- MODULE StoreAccess ----------------------------
(* One encrypted store of the vault and the code that opens it.

   Every store class of the wallet (accounts, apps, incidents, ...) is read
   and written through dc_store.open(fk_use) (src/src/store/_base.ts), which
   fetches the cipher key, takes the store's exclusive lock through
   Vault.acquire (src/src/crypto/vault.ts), decrypts the store, hands a
   mutable object to fk_use, writes it back and releases the lock.  Each
   `await` of that path is a step here, so that the steps of other callers,
   of the three timers involved, of a logout and of a dying frame come in
   between.

   A caller is one call of open(); fk_use adds one item, named after the
   caller, to the store and saves it, as putAt, append and set do.           *)
EXTENDS Naturals, FiniteSets

CONSTANTS
    Caller,         \* the calls of dc_store.open()
    Frame,          \* JavaScript realms: service worker, popup, flow window
    FrameOf,        \* the frame each call runs in
    NoCaller,       \* the lock is free
    MaxEpoch,       \* bound: how many times a session is opened
    MaxDeaths,      \* bound: how many frames die
    AuthMidOpen,    \* may a login or a wipe come while a store is open?
    StorageMayFail  \* may chrome.storage reject a call?

ASSUME ConstantsAssumption ==
    /\ FrameOf \in [Caller -> Frame]
    /\ NoCaller \notin Caller
    /\ MaxEpoch \in Nat \ {0}
    /\ MaxDeaths \in Nat
    /\ {AuthMidOpen, StorageMayFail} \subseteq BOOLEAN

VARIABLES
    pc,         \* where each call is
    holder,     \* the call the lock is granted to
    live,       \* calls whose entry is not neutered (its lease is armed)
    session,    \* 0: locked, otherwise the epoch of the session's keys
    epoch,      \* number of the latest root key
    storage,    \* the store's ciphertext in chrome.storage.local
    key,        \* epoch of the cipher key each call fetched
    entry,      \* ciphertext each call loaded from storage
    cache,      \* the object each call mutates, when it is its own
    aliased,    \* calls whose object is the frame's default object itself
    default,    \* H_STORE_INITS[si_store] of each frame
    creating,   \* calls that must save the store they created (b_save)
    sealed,     \* the ciphertext each call is writing
    updates,    \* history: items fk_use has put since the last wipe
    acked,      \* history: items whose open() resolved since the last wipe
    relics,     \* history: items that were in a default object at a wipe
    overdue,    \* history: calls whose lease has ended amid a write
    torn,       \* history: an overdue write has landed since the last wipe
    crossed,    \* history: calls that were open when an overdue write landed
    deaths      \* counts dead frames, for MaxDeaths

lockVars    == <<holder, live>>
sessionVars == <<session, epoch>>
cacheVars   == <<cache, aliased, default>>
tornVars    == <<torn, crossed>>
lateVars    == <<overdue, tornVars>>
histVars    == <<updates, acked, relics, lateVars>>
vars == <<pc, lockVars, sessionVars, storage, key, entry, cacheVars,
          creating, sealed, histVars, deaths>>

Blank == [key |-> 0, vec |-> 0, data |-> {}]
Cipher == [key : 0..MaxEpoch, vec : 0..MaxEpoch, data : SUBSET Caller]
IsBlank(c) == c.key = 0

(* The ciphertext can be decrypted with cipher key k and session vector v.   *)
Readable(c, k, v) == c.key = k /\ c.vec = v

Writing == {"sealing", "storing"}
InUse   == {"using", "saved"}
Opening == {"loading", "opened", "create"}
Busy    == Opening \union Writing \union InUse \union {"queued"}
Settled == {"done", "failed", "hung", "dead"}

TypeOK ==
    /\ pc \in [Caller -> Busy \union Settled \union {"idle"}]
    /\ holder \in Caller \union {NoCaller}
    /\ live \in SUBSET Caller
    /\ session \in 0..MaxEpoch
    /\ epoch \in 1..MaxEpoch
    /\ storage \in Cipher
    /\ key \in [Caller -> 0..MaxEpoch]
    /\ entry \in [Caller -> Cipher]
    /\ cache \in [Caller -> SUBSET Caller]
    /\ aliased \in SUBSET Caller
    /\ default \in [Frame -> SUBSET Caller]
    /\ creating \in SUBSET Caller
    /\ sealed \in [Caller -> Cipher]
    /\ updates \in SUBSET Caller
    /\ acked \in SUBSET Caller
    /\ relics \in SUBSET Caller
    /\ overdue \in SUBSET Caller
    /\ torn \in BOOLEAN
    /\ crossed \in SUBSET Caller
    /\ deaths \in 0..MaxDeaths

Init ==
    /\ pc = [c \in Caller |-> "idle"]
    /\ holder = NoCaller
    /\ live = {}
    /\ session = 1
    /\ epoch = 1
    /\ storage = Blank
    /\ key = [c \in Caller |-> 0]
    /\ entry = [c \in Caller |-> Blank]
    /\ cache = [c \in Caller |-> {}]
    /\ aliased = {}
    /\ default = [f \in Frame |-> {}]
    /\ creating = {}
    /\ sealed = [c \in Caller |-> Blank]
    /\ updates = {}
    /\ acked = {}
    /\ relics = {}
    /\ overdue = {}
    /\ torn = FALSE
    /\ crossed = {}
    /\ deaths = 0

Goto(c, l) == pc' = [pc EXCEPT ![c] = l]

(* Mutant: the lock is freed but the entry is not neutered.                  *)
ReleaseWithoutNeuter(c) ==
    /\ c \in live
    /\ holder' = NoCaller
    /\ UNCHANGED live

(* WritableVaultEntry.release(): neuter the entry, then free the lock.  It
   throws, changing nothing, when the entry is neutered already.             *)
Release(c) ==
    /\ c \in live
    /\ live' = live \ {c}
    /\ holder' = NoCaller

(* A `finally { release() }`: the entry ends up neutered either way.         *)
ReleaseIfLive(c) ==
    IF c \in live THEN Release(c) ELSE UNCHANGED lockVars

Object(c) == IF c \in aliased THEN default[FrameOf[c]] ELSE cache[c]

-----------------------------------------------------------------------------
(* open(): fetch_cipher() throws when the session is locked; otherwise the
   call asks for the lock and its 5 s abort timer starts.                    *)
Begin(c) ==
    /\ pc[c] = "idle"
    /\ IF session = 0
       THEN /\ Goto(c, "failed")
            /\ UNCHANGED key
       ELSE /\ Goto(c, "queued")
            /\ key' = [key EXCEPT ![c] = session]
    /\ UNCHANGED <<lockVars, sessionVars, storage, entry, cacheVars,
                   creating, sealed, histVars, deaths>>

(* read() of a store that exists takes no lock; a blank store sends the call
   down the path of open(), which is Begin.                                  *)
Read(c) ==
    /\ pc[c] = "idle"
    /\ session # 0
    /\ ~IsBlank(storage)
    /\ Goto(c, IF Readable(storage, session, session) THEN "done"
                                                      ELSE "failed")
    /\ UNCHANGED <<lockVars, sessionVars, storage, key, entry, cacheVars,
                   creating, sealed, histVars, deaths>>

(* The abort timer: the lock request is withdrawn and its rejection is
   dropped, so that nothing ever settles the call.                           *)
Abort(c) ==
    /\ pc[c] = "queued"
    /\ holder # NoCaller
    /\ Goto(c, "hung")
    /\ UNCHANGED <<lockVars, sessionVars, storage, key, entry, cacheVars,
                   creating, sealed, histVars, deaths>>

(* Mutant: the lock is requested in shared mode.                             *)
GrantShared(c) ==
    /\ pc[c] = "queued"
    /\ Goto(c, "loading")
    /\ holder' = c
    /\ UNCHANGED <<live, sessionVars, storage, key, entry, cacheVars,
                   creating, sealed, histVars, deaths>>

(* navigator.locks: a waiter, in whatever order the browser keeps, gets the
   free lock; the abort timer is cleared and the ciphertext is fetched.      *)
Grant(c) ==
    /\ pc[c] = "queued"
    /\ holder = NoCaller
    /\ Goto(c, "loading")
    /\ holder' = c
    /\ UNCHANGED <<live, sessionVars, storage, key, entry, cacheVars,
                   creating, sealed, histVars, deaths>>

(* Mutant: a frame keeps the first ciphertext it loads of a store.           *)
LoadCached(c) ==
    /\ pc[c] = "loading"
    /\ Goto(c, "opened")
    /\ LET seen == {entry[o] : o \in {o \in Caller : FrameOf[o] = FrameOf[c]}}
                     \ {Blank}
       IN  entry' = [entry EXCEPT ![c] =
                       IF seen = {} THEN storage ELSE CHOOSE e \in seen : TRUE]
    /\ live' = live \union {c}
    /\ UNCHANGED <<holder, sessionVars, storage, key, cacheVars,
                   creating, sealed, histVars, deaths>>

(* The ciphertext arrives: the lease timer starts and the entry is handed to
   the call.                                                                 *)
Load(c) ==
    /\ pc[c] = "loading"
    /\ Goto(c, "opened")
    /\ entry' = [entry EXCEPT ![c] = storage]
    /\ live' = live \union {c}
    /\ UNCHANGED <<holder, sessionVars, storage, key, cacheVars,
                   creating, sealed, histVars, deaths>>

(* storage_get rejects inside the lock's callback, before the lease timer is
   armed: the lock is never released and the call never settles.             *)
LoadFails(c) ==
    /\ StorageMayFail
    /\ pc[c] = "loading"
    /\ Goto(c, "hung")
    /\ UNCHANGED <<lockVars, sessionVars, storage, key, entry, cacheVars,
                   creating, sealed, histVars, deaths>>

(* readJson(): fails when the session is locked, the entry was neutered or
   the ciphertext does not decrypt; the entry is released then.              *)
ReadFails(c) ==
    /\ pc[c] = "opened"
    /\ \/ session = 0
       \/ c \notin live
       \/ ~IsBlank(entry[c]) /\ ~Readable(entry[c], key[c], session)
    /\ Goto(c, "failed")
    /\ ReleaseIfLive(c)
    /\ UNCHANGED <<sessionVars, storage, key, entry, cacheVars, creating,
                   sealed, histVars, deaths>>

(* readJson() of a blank entry: the object is the frame's default object,
   by reference, and must be saved first.                                    *)
ReadBlank(c) ==
    /\ pc[c] = "opened"
    /\ session # 0
    /\ c \in live
    /\ IsBlank(entry[c])
    /\ Goto(c, "create")
    /\ aliased' = aliased \union {c}
    /\ creating' = creating \union {c}
    /\ UNCHANGED <<lockVars, sessionVars, storage, key, entry, cache, default,
                   sealed, histVars, deaths>>

(* Mutant: what is read is kept in the frame's default object.               *)
ReadIntoDefault(c) ==
    /\ pc[c] = "opened"
    /\ session # 0
    /\ c \in live
    /\ ~IsBlank(entry[c])
    /\ Readable(entry[c], key[c], session)
    /\ Goto(c, "using")
    /\ cache' = [cache EXCEPT ![c] = entry[c].data]
    /\ default' = [default EXCEPT ![FrameOf[c]] = entry[c].data]
    /\ UNCHANGED <<lockVars, sessionVars, storage, key, entry, aliased,
                   creating, sealed, histVars, deaths>>

(* readJson() of a store that exists: the object is the call's own.          *)
ReadStore(c) ==
    /\ pc[c] = "opened"
    /\ session # 0
    /\ c \in live
    /\ ~IsBlank(entry[c])
    /\ Readable(entry[c], key[c], session)
    /\ Goto(c, "using")
    /\ cache' = [cache EXCEPT ![c] = entry[c].data]
    /\ UNCHANGED <<lockVars, sessionVars, storage, key, entry, aliased,
                   default, creating, sealed, histVars, deaths>>

-----------------------------------------------------------------------------
(* Mutant: only the item put is written, not the store it was put into.      *)
SealItem(c, data) ==
    sealed' = [sealed EXCEPT
                 ![c] = [key |-> key[c], vec |-> 0, data |-> data \intersect {c}]]

(* write(): the fields of a neutered entry are gone and it throws; otherwise
   the serialized object goes on to be sealed.                               *)
SealObject(c, data) ==
    sealed' = [sealed EXCEPT ![c] = [key |-> key[c], vec |-> 0, data |-> data]]

(* save(true) of a store just created.  It is outside the try block of open():
   when it throws, nothing releases the lock but the lease.                  *)
SaveCreated(c) ==
    /\ pc[c] = "create"
    /\ IF c \in live
       THEN Goto(c, "sealing") /\ SealObject(c, Object(c))
       ELSE Goto(c, "failed") /\ UNCHANGED sealed
    /\ UNCHANGED <<lockVars, sessionVars, storage, key, entry, cacheVars,
                   creating, histVars, deaths>>

(* fk_use puts the call's item into the object and saves it.  The object is
   mutated before write() looks at the entry.                                *)
PutWhen(c, writable) ==
    /\ pc[c] \in InUse
    /\ LET data == Object(c) \union {c}
       IN  /\ IF c \in aliased
              THEN /\ default' = [default EXCEPT ![FrameOf[c]] = data]
                   /\ UNCHANGED cache
              ELSE /\ cache' = [cache EXCEPT ![c] = data]
                   /\ UNCHANGED default
           /\ IF writable
              THEN Goto(c, "sealing") /\ SealObject(c, data)
              ELSE Goto(c, "failed") /\ UNCHANGED sealed
    /\ updates' = updates \union {c}
    /\ UNCHANGED <<lockVars, sessionVars, storage, key, entry, aliased,
                   creating, acked, relics, lateVars, deaths>>

(* Mutant: write() does not look at the entry.                               *)
PutUnfenced(c) == PutWhen(c, TRUE)

Put(c) == PutWhen(c, c \in live)

(* write(): the session vector is fetched and the object encrypted.          *)
Seal(c) ==
    /\ pc[c] = "sealing"
    /\ session # 0
    /\ Goto(c, "storing")
    /\ sealed' = [sealed EXCEPT ![c].vec = session]
    /\ UNCHANGED <<lockVars, sessionVars, storage, key, entry, cacheVars,
                   creating, histVars, deaths>>

(* storage_set resolves, under the lock or after the lease has ended: nothing
   looks at the entry again after write()'s first line.                      *)
Land(c) ==
    /\ pc[c] = "storing"
    /\ storage' = sealed[c]
    /\ Goto(c, IF c \in creating THEN "using" ELSE "saved")
    /\ creating' = creating \ {c}
    /\ overdue' = overdue \ {c}
    /\ IF c \in live
       THEN UNCHANGED tornVars
       ELSE torn' = TRUE /\ crossed' = crossed \union live
    /\ UNCHANGED <<lockVars, sessionVars, key, entry, cacheVars, sealed,
                   updates, acked, relics, deaths>>

(* write() rejects, because the session was locked or storage refused: the
   first save of a created store leaves the lock to the lease, a save of
   fk_use ends in the finally block.                                         *)
SaveFails(c) ==
    /\ \/ pc[c] = "sealing" /\ session = 0
       \/ pc[c] = "storing" /\ StorageMayFail
    /\ Goto(c, "failed")
    /\ IF c \in creating THEN UNCHANGED lockVars ELSE ReleaseIfLive(c)
    /\ overdue' = overdue \ {c}
    /\ UNCHANGED <<sessionVars, storage, key, entry, cacheVars, creating,
                   sealed, updates, acked, relics, tornVars, deaths>>

(* fk_use returns and the finally block releases: open() resolves, unless the
   lease ended first, when release() throws and open() rejects.              *)
Close(c) ==
    /\ pc[c] \in InUse
    /\ IF c \in live
       THEN /\ Release(c)
            /\ Goto(c, "done")
            /\ acked' = IF pc[c] = "saved" THEN acked \union {c} ELSE acked
       ELSE /\ Goto(c, "failed")
            /\ UNCHANGED <<lockVars, acked>>
    /\ UNCHANGED <<sessionVars, storage, key, entry, cacheVars, creating,
                   sealed, updates, relics, lateVars, deaths>>

(* fk_use throws.                                                            *)
UseThrows(c) ==
    /\ pc[c] \in InUse
    /\ Goto(c, "failed")
    /\ ReleaseIfLive(c)
    /\ UNCHANGED <<sessionVars, storage, key, entry, cacheVars, creating,
                   sealed, histVars, deaths>>

(* Mutants: the lease is armed only once fk_use runs; it is disarmed when
   fk_use runs.                                                              *)
LeaseEndsWhen(c, may) ==
    /\ may
    /\ Release(c)
    /\ overdue' = IF pc[c] \in Writing THEN overdue \union {c} ELSE overdue
    /\ UNCHANGED <<pc, sessionVars, storage, key, entry, cacheVars, creating,
                   sealed, updates, acked, relics, tornVars, deaths>>
LeaseFromUse(c)      == LeaseEndsWhen(c, pc[c] \in InUse)
LeaseUntilUse(c)     == LeaseEndsWhen(c, pc[c] \notin Writing \union InUse)

(* The 3 s lease: the entry is neutered and the lock freed under the call,
   a write under way or not.                                                 *)
LeaseEnds(c) == LeaseEndsWhen(c, TRUE)

-----------------------------------------------------------------------------
Quiet == \A c \in Caller : pc[c] \notin Busy

(* clearRootKey().                                                           *)
Logout ==
    /\ session # 0
    /\ session' = 0
    /\ UNCHANGED <<pc, lockVars, epoch, storage, key, entry, cacheVars,
                   creating, sealed, histVars, deaths>>

(* login() or register(): the root key is rotated, the store re-encrypted and
   only then is the session opened.  KeyRotation takes this step apart.      *)
Login ==
    /\ session = 0
    /\ epoch < MaxEpoch
    /\ AuthMidOpen \/ Quiet
    /\ IsBlank(storage) \/ Readable(storage, epoch, epoch)
    /\ epoch' = epoch + 1
    /\ session' = epoch + 1
    /\ storage' = IF IsBlank(storage) THEN Blank
                  ELSE [key |-> epoch + 1, vec |-> epoch + 1,
                        data |-> storage.data]
    /\ UNCHANGED <<pc, lockVars, key, entry, cacheVars, creating, sealed,
                   histVars, deaths>>

(* The rest of factory_reset(), once it has cleared the session, or the wipe
   reinstall() does on an upgrade: everything the user had is to be gone.
   factory_reset() leaves the frames running, with what their default objects
   hold (the popup that asked for it closes: FrameDies); an upgrade has the
   browser start every frame anew.                                           *)
Wipe ==
    /\ session = 0
    /\ AuthMidOpen \/ Quiet
    /\ storage' = Blank
    /\ default' \in {default, [f \in Frame |-> {}]}
    /\ updates' = {}
    /\ acked' = {}
    /\ relics' = relics \union {c \in aliased : c \in default[FrameOf[c]]}
    /\ torn' = FALSE
    /\ crossed' = {}
    /\ UNCHANGED <<pc, lockVars, sessionVars, key, entry, cache, aliased,
                   creating, sealed, overdue, deaths>>

(* A frame is closed or its service worker stopped: the browser drops its
   lock requests and frees its locks.  A storage_set under way is its own
   step (Land) when it wins this race.                                       *)
FrameDies(f) ==
    LET gone == {c \in Caller : FrameOf[c] = f /\ pc[c] # "idle"}
    IN  /\ deaths < MaxDeaths
        /\ gone # {}
        /\ pc' = [c \in Caller |->
                    IF c \in gone /\ pc[c] \notin {"done", "failed"}
                    THEN "dead" ELSE pc[c]]
        /\ holder' = IF holder \in gone THEN NoCaller ELSE holder
        /\ live' = live \ gone
        /\ default' = [default EXCEPT ![f] = {}]
        /\ overdue' = overdue \ gone
        /\ deaths' = deaths + 1
        /\ UNCHANGED <<sessionVars, storage, key, entry, cache, aliased,
                       creating, sealed, updates, acked, relics, tornVars>>

Timeout(c) == Abort(c) \/ LeaseEnds(c)

(* The steps that the frame and chrome.storage take by themselves.           *)
Progress(c) ==
    \/ Load(c) \/ LoadFails(c)
    \/ ReadFails(c) \/ ReadBlank(c) \/ ReadStore(c)
    \/ SaveCreated(c) \/ Seal(c) \/ Land(c) \/ SaveFails(c)

Use(c) == Put(c) \/ Close(c) \/ UseThrows(c)

Next ==
    \/ \E c \in Caller :
         \/ Begin(c) \/ Read(c) \/ Grant(c)
         \/ Progress(c) \/ Use(c) \/ Timeout(c)
    \/ Logout \/ Login \/ Wipe
    \/ \E f \in Frame : FrameDies(f)

Spec == Init /\ [][Next]_vars

(* Timers fire, storage answers and the browser grants free locks.  Nothing
   is assumed of fk_use, of the user or of calls that have not begun.        *)
Fairness ==
    \A c \in Caller :
        WF_vars(Progress(c)) /\ SF_vars(Grant(c)) /\ SF_vars(LeaseEnds(c))

FairSpec == Spec /\ Fairness

-----------------------------------------------------------------------------
(* Vault.acquire's promise (vault.ts:603, "mutually exclusive lock"): at most
   one call at a time is loading the store or holds an entry it may write
   with, and that call is the one the browser granted the lock to.           *)
Exclusive ==
    \A c \in Caller : (c \in live \/ pc[c] = "loading") => holder = c

(* What a call that can still save holds is never older than what is stored:
   its next save cannot drop another call's item (the read-modify-write of
   open(), _base.ts:320).  Only a call that was open when a write landed whose
   lease had ended may hold less than that write left.                       *)
NoStaleObject ==
    \A c \in live \ crossed : pc[c] \in InUse => storage.data \subseteq Object(c)

(* Once open() has resolved after a save, the store stays readable with the
   keys of the latest login, and the item stays in it, whatever timers,
   logouts, failures and dying frames come next: nothing but a write that
   lands after its lease can take it away.                                   *)
AckedDurable ==
    acked # {} => /\ Readable(storage, epoch, epoch)
                  /\ ~torn => acked \subseteq storage.data

(* What was in the store before a reset does not come back
   (PopupFactoryReset.svelte: "permanently delete all data and settings"), but
   for items a call had put into a store its own frame created, when that
   frame lives on (H_STORE_INITS, _base.ts:293).                             *)
OnlyRelicsReturn == storage.data \subseteq updates \union relics

(* The content of the store changes only when a save lands or a wipe blanks
   it.  A save lands under the lock, or it was under way when its lease ended;
   a call that lost its lease begins no other (VaultEntry$_fields, vault.ts:828),
   so that each lease that ends costs at most one write without the lock.    *)
LockedOrOverdue ==
    storage'.data # storage.data =>
        \/ \E c \in Caller :
              /\ pc[c] = "storing" /\ storage' = sealed[c]
              /\ holder = c \/ c \in overdue
        \/ session = 0 /\ storage' = Blank
WritesFenced == [][LockedOrOverdue]_vars

-----------------------------------------------------------------------------
(* Why AckedDurable holds: the inductive invariant of its proof.  It needs one
   fact about time that the code relies on and does not enforce: no login or
   wipe comes while a store is open.                                         *)
Orderly == ~AuthMidOpen

(* The lock and the entries agree.                                           *)
LockInv ==
    /\ Exclusive
    /\ \A c \in live : pc[c] \notin {"idle", "queued", "loading"}

(* The keys in use are those of the latest login.                            *)
KeyInv ==
    /\ session \in {0, epoch}
    /\ storage = Blank \/ Readable(storage, epoch, epoch)
    /\ \A c \in Caller : pc[c] \in Busy => key[c] = epoch
    /\ \A c \in Caller : pc[c] \in Writing => sealed[c].key = epoch
    /\ \A c \in Caller : pc[c] = "storing" => sealed[c].vec = epoch

(* How far each call has come with the object it mutates.                    *)
PathInv ==
    \A c \in Caller :
        /\ pc[c] \in Writing => c \in live \/ c \in overdue
        /\ pc[c] \in {"idle", "queued", "loading", "opened"} => c \notin aliased
        /\ pc[c] = "create" => c \in creating

(* What a call holds includes all that is stored, unless an overdue write
   has landed under it.                                                      *)
HeldInv ==
    /\ NoStaleObject
    /\ ~torn => crossed = {}
    /\ \A c \in live \ crossed :
        /\ pc[c] = "opened" => entry[c] = storage
        /\ pc[c] = "create" => storage = Blank
        /\ pc[c] = "saved"  => c \in storage.data
        /\ pc[c] \in Writing =>
             /\ storage.data \subseteq sealed[c].data
             /\ sealed[c].data \subseteq Object(c)
             /\ c \notin creating => c \in sealed[c].data

AckInv ==
    /\ ~torn => acked \subseteq storage.data
    /\ IsBlank(storage) =>
         /\ acked = {}
         /\ \A c \in Caller : /\ pc[c] \notin InUse
                              /\ pc[c] = "opened" => IsBlank(entry[c])

IInv == LockInv /\ KeyInv /\ PathInv /\ HeldInv /\ AckInv

-----------------------------------------------------------------------------
(* open() is atomic: seen through its content the store is StoreRegister,
   where an item is added to the current content in one step, up to the first
   write that lands after its lease has ended.                               *)
Register == INSTANCE StoreRegister WITH value <- storage.data
RefinesRegister == Register!Spec

(* The lock is always freed again: the lease of acquire() (vault.ts:644)
   bounds how long any call, however it fails, can keep it.                  *)
LockFreed == \A c \in Caller : holder = c ~> holder # c

(* A call that asks for the lock gets it, gives up, or dies with its frame.  *)
WaitEnds == \A c \in Caller : pc[c] = "queued" ~> pc[c] # "queued"

=============================================================================
