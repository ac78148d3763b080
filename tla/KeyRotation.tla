---------------------------- MODULE KeyRotation ----------------------------
(* How the vault's root key is born, rotated and lost.

   register() (src/src/share/auth.ts) draws an entropy and a nonce and stores
   a base: entropy, nonce and a signature made with the root key derived from
   the passphrase.  Every login() derives the key of the stored nonce and the
   key of the next one, re-encrypts every store from the former to the latter
   (Vault.recryptAll, src/src/crypto/vault.ts), and only then stores the new
   base and opens the session.  Nothing locks the windows out of each other,
   and a window can be closed between any two awaits.

   A key is named by all it is derived from: the registration that drew its
   entropy, the passphrase, the nonce, the Argon2 parameters and the HKDF
   salt.  Ciphertexts are named by the key and vector that made them.        *)
EXTENDS Naturals, FiniteSets

CONSTANTS
    Window,       \* pages that show the registration or the unlock screen
    Store,        \* keys of chrome.storage.local that hold encrypted stores
    Phrase,       \* passphrases a user may type
    NonceMod,     \* 2^128 in the code (deriveRootKeys)
    MaxGen,       \* bound: registrations
    MaxSalt,      \* bound: salts drawn
    MaxCode,      \* bound: program versions with other Argon2 parameters
    MaxWrites,    \* bound: saves by the program while unlocked
    MayCrash,     \* may a window close between two awaits?
    SplitsBase,   \* also between storing the base and its Argon2 parameters?
    UpgradeMidway,\* may an update come while a rotation is cut short?
    MayReset,     \* may the user do a factory reset?
    ResetMidLogin \* may the reset come while a window is logging in?

ASSUME ConstantsAssumption ==
    /\ NonceMod \in Nat \ {0, 1}
    /\ {MaxGen, MaxSalt, MaxCode, MaxWrites} \subseteq Nat
    /\ MaxCode > 0
    /\ {MayCrash, SplitsBase, UpgradeMidway, MayReset, ResetMidLogin}
         \subseteq BOOLEAN
    /\ IsFiniteSet(Window) /\ IsFiniteSet(Store)
    /\ Phrase # {}

Nonce == 0..(NonceMod - 1)

Key == [gen : 0..MaxGen, phrase : Phrase, nonce : Nonce,
        params : 0..MaxCode, salt : 0..MaxSalt]
NoKey == [gen |-> 0, phrase |-> CHOOSE p \in Phrase : TRUE, nonce |-> 0,
          params |-> 0, salt |-> 0]

Base == [gen : 0..MaxGen, nonce : Nonce, sig : Key]
NoBase == [gen |-> 0, nonce |-> 0, sig |-> NoKey]

Cipher == [key : Key, data : 0..MaxWrites]
Blank == [key |-> NoKey, data |-> 0]

VARIABLES
    base,       \* '@base' (one storage item, so always whole)
    salt,       \* '@salt', 0 when absent
    params,     \* '@hash_params', 0 when absent
    stores,     \* the encrypted stores
    session,    \* root key and vector in session storage
    code,       \* Argon2 parameters of the program version that runs
    win,        \* the login or registration each window is running
    outcome,    \* what each window last told its user
    gens, salts, writes, \* counters, for freshness and for the bounds
    written,    \* history: the data last saved in each store
    wiped,      \* history: registrations up to here were wiped
    resetting   \* factory_reset() has cleared the session, not storage

stored == <<base, salt, params, stores>>
ghost  == <<gens, salts, writes, written, wiped>>
vars   == <<stored, session, code, win, outcome, ghost, resetting>>

Step == {"idle", "register", "draw", "sign", "save", "login", "derive",
         "verify", "list", "recrypt", "aborted", "rebase", "reparam", "open"}

(* The variables of a call of register() or login() and of its screen: the
   passphrase, whether the login checks a registration, the base it read, the
   root keys of that base's nonce and of the next one, the signature to store,
   the stores to re-encrypt, and the ciphertexts read and not yet written.   *)
Call == [pc : Step, phrase : Phrase, registers : BOOLEAN, mine : Base,
         old : Key, new : Key, sig : Key, todo : SUBSET Store,
         got : [Store -> Cipher]]
NoCall == [pc |-> "idle", phrase |-> NoKey.phrase, registers |-> FALSE,
           mine |-> NoBase, old |-> NoKey, new |-> NoKey, sig |-> NoKey,
           todo |-> {}, got |-> [s \in Store |-> Blank]]

Outcome == {"none", "ok", "already", "unregistered", "invalid", "failed"}

TypeOK ==
    /\ base \in Base
    /\ salt \in 0..MaxSalt
    /\ params \in 0..MaxCode
    /\ stores \in [Store -> Cipher]
    /\ session \in Key
    /\ code \in 1..MaxCode
    /\ win \in [Window -> Call]
    /\ outcome \in [Window -> Outcome]
    /\ gens \in 0..MaxGen
    /\ salts \in 0..MaxSalt
    /\ writes \in 0..MaxWrites
    /\ written \in [Store -> 0..MaxWrites]
    /\ wiped \in 0..MaxGen
    /\ resetting \in BOOLEAN

Init ==
    /\ base = NoBase /\ salt = 0 /\ params = 0
    /\ stores = [s \in Store |-> Blank]
    /\ session = NoKey
    /\ code = 1
    /\ win = [w \in Window |-> NoCall]
    /\ outcome = [w \in Window |-> "none"]
    /\ gens = 0 /\ salts = 0 /\ writes = 0 /\ wiped = 0
    /\ written = [s \in Store |-> 0]
    /\ resetting = FALSE

-----------------------------------------------------------------------------
AllIdle == \A w \in Window : win[w].pc = "idle"

(* The call in window w goes from one await to the next.                     *)
At(w, here) == win[w].pc = here
Goto(w, there) == win' = [win EXCEPT ![w].pc = there]

(* login() or register() ends and the screen reports how.  The screen of a
   registration answers a failed login by erasing the base.  A mutant erases
   it whichever screen it was.                                               *)
Report(w, o) ==
    /\ win' = [win EXCEPT ![w] = NoCall]
    /\ outcome' = [outcome EXCEPT ![w] = o]
LoginFailsAndErases(w, o) ==
    /\ Report(w, o)
    /\ base' = NoBase
LoginFails(w, o) ==
    /\ Report(w, o)
    /\ base' = IF win[w].registers THEN NoBase ELSE base

(* hkdf_params(): the stored salt when there is a valid base; a new salt,
   stored at once, when there is none.  A mutant draws one every time.       *)
TakeFreshSalt ==
    /\ salts < MaxSalt
    /\ salts' = salts + 1
    /\ salt' = salts + 1
TakeSalt ==
    IF base # NoBase
    THEN UNCHANGED <<salt, salts>>
    ELSE /\ salts < MaxSalt
         /\ salts' = salts + 1
         /\ salt' = salts + 1
SaltMissing == base # NoBase /\ salt = 0
Salted(k, s) == [k EXCEPT !.salt = s]

(* The 128-bit increment of the nonce, which wraps around.                   *)
NextNonce(n) == (n + 1) % NonceMod

-----------------------------------------------------------------------------
(* Register.svelte: the Argon2 parameters are stored before anything else.   *)
Register(w, p) ==
    /\ base = NoBase
    /\ session = NoKey
    /\ At(w, "idle")
    /\ win' = [win EXCEPT ![w] =
                 [NoCall EXCEPT !.pc = "register", !.phrase = p,
                                !.registers = TRUE]]
    /\ outcome' = [outcome EXCEPT ![w] = "none"]
    /\ params' = code
    /\ UNCHANGED <<base, salt, stores, session, code, ghost, resetting>>

(* register(): refuse when there is a base by now; throw when the signature
   finds a base that has lost its salt.                                      *)
RegisterFails(w) ==
    /\ \/ At(w, "register") /\ base # NoBase /\ Report(w, "already")
       \/ At(w, "sign") /\ SaltMissing /\ Report(w, "failed")
    /\ UNCHANGED <<stored, session, code, ghost, resetting>>

RegisterReads(w) ==
    /\ At(w, "register")
    /\ base = NoBase
    /\ Goto(w, "draw")
    /\ UNCHANGED <<stored, session, code, outcome, ghost, resetting>>

(* register(): draw an entropy and a first nonce, derive the key of the nonce
   that follows.                                                             *)
Draw(w) ==
    /\ At(w, "draw")
    /\ gens < MaxGen
    /\ gens' = gens + 1
    /\ \E n \in Nonce :
         win' = [win EXCEPT ![w].pc = "sign",
                            ![w].new = [gen |-> gens + 1,
                                        phrase |-> win[w].phrase,
                                        nonce |-> NextNonce(n),
                                        params |-> code, salt |-> 0]]
    /\ UNCHANGED <<stored, session, code, outcome, salts, writes, written,
                   wiped, resetting>>

(* generateRootKeySignature().                                               *)
Sign(w, there) ==
    /\ ~SaltMissing
    /\ TakeSalt
    /\ win' = [win EXCEPT ![w].pc = there,
                          ![w].sig = Salted(win[w].new, salt')]
    /\ UNCHANGED <<base, params, stores, session, code, outcome, gens, writes,
                   written, wiped, resetting>>

(* setParsedBase().                                                          *)
SaveBase(w, there) ==
    /\ base' = [gen |-> win[w].new.gen, nonce |-> win[w].new.nonce,
                sig |-> win[w].sig]
    /\ Goto(w, there)
    /\ UNCHANGED <<salt, params, stores, session, code, outcome, ghost,
                   resetting>>

-----------------------------------------------------------------------------
(* Authenticate.svelte: missing Argon2 parameters are restored first.  A
   mutant logs in although the vault is open.                                *)
UnlockTwice(w, p) ==
    /\ base # NoBase
    /\ At(w, "idle")
    /\ win' = [win EXCEPT ![w] = [NoCall EXCEPT !.pc = "login", !.phrase = p]]
    /\ outcome' = [outcome EXCEPT ![w] = "none"]
    /\ params' = IF params = 0 THEN code ELSE params
    /\ UNCHANGED <<base, salt, stores, session, code, ghost, resetting>>
Unlock(w, p) ==
    /\ base # NoBase
    /\ session = NoKey
    /\ At(w, "idle")
    /\ win' = [win EXCEPT ![w] = [NoCall EXCEPT !.pc = "login", !.phrase = p]]
    /\ outcome' = [outcome EXCEPT ![w] = "none"]
    /\ params' = IF params = 0 THEN code ELSE params
    /\ UNCHANGED <<base, salt, stores, session, code, ghost, resetting>>

(* login(): read the base.                                                   *)
LoginReads(w) ==
    /\ At(w, "login")
    /\ IF base = NoBase
       THEN LoginFails(w, "unregistered")
       ELSE /\ win' = [win EXCEPT ![w].pc = "derive", ![w].mine = base]
            /\ UNCHANGED <<base, outcome>>
    /\ UNCHANGED <<salt, params, stores, session, code, ghost, resetting>>

(* deriveRootKeys(): the old key from the stored parameters, the new key from
   the next nonce and the parameters of the running program.                 *)
DerivedKey(w, n, a) ==
    [gen |-> win[w].mine.gen, phrase |-> win[w].phrase, nonce |-> n,
     params |-> a, salt |-> 0]
Derive(w) ==
    /\ At(w, "derive")
    /\ params # 0
    /\ LET n == win[w].mine.nonce
       IN  win' = [win EXCEPT ![w].pc = "verify",
                              ![w].old = DerivedKey(w, n, params),
                              ![w].new = DerivedKey(w, NextNonce(n), code)]
    /\ UNCHANGED <<stored, session, code, outcome, ghost, resetting>>

(* recryptAll() has awaited every store; a mutant does not await the last.    *)
AllButOneRecrypted(w) == Cardinality(win[w].todo) <= 1
Recrypted(w) == win[w].todo = {}

(* What else can make login() throw: the Argon2 parameters or the salt are
   gone when it needs them.                                                  *)
LoginBreaks(w) ==
    /\ \/ At(w, "derive") /\ params = 0
       \/ (At(w, "verify") \/ At(w, "list")) /\ SaltMissing
       \/ At(w, "recrypt") /\ Recrypted(w) /\ SaltMissing
    /\ LoginFails(w, "failed")
    /\ UNCHANGED <<salt, params, stores, session, code, ghost, resetting>>

(* verifyRootKey(): the signature of the base was made with the old key or,
   as the unlock screen allows, with the new one.  A mutant leaves the
   passphrase out of the derivation.                                         *)
VerifiedByEntropy(w, s) ==
    /\ win[w].mine.sig.salt = s
    /\ win[w].mine.sig.gen = win[w].old.gen
Verified(w, s) ==
    \/ win[w].mine.sig = Salted(win[w].old, s)
    \/ ~win[w].registers /\ win[w].mine.sig = Salted(win[w].new, s)
Verify(w) ==
    /\ At(w, "verify")
    /\ ~SaltMissing
    /\ TakeSalt
    /\ IF Verified(w, salt')
       THEN Goto(w, "list") /\ UNCHANGED <<base, outcome>>
       ELSE LoginFails(w, "invalid")
    /\ UNCHANGED <<params, stores, session, code, gens, writes, written, wiped,
                   resetting>>

(* recryptAll(): derive the cipher keys, list the stores.                    *)
List(w) ==
    /\ At(w, "list")
    /\ ~SaltMissing
    /\ TakeSalt
    /\ win' = [win EXCEPT ![w].pc = "recrypt",
                          ![w].old = Salted(win[w].old, salt'),
                          ![w].new = Salted(win[w].new, salt'),
                          ![w].todo = {s \in Store : stores[s] # Blank}]
    /\ UNCHANGED <<base, params, stores, session, code, outcome, gens, writes,
                   written, wiped, resetting>>

(* recryptAll(): read one store; a store that has gone is skipped.           *)
RecryptRead(w, s) ==
    /\ At(w, "recrypt")
    /\ s \in win[w].todo
    /\ win[w].got[s] = Blank
    /\ win' = IF stores[s] = Blank THEN [win EXCEPT ![w].todo = @ \ {s}]
                                   ELSE [win EXCEPT ![w].got[s] = stores[s]]
    /\ UNCHANGED <<stored, session, code, outcome, ghost, resetting>>

(* recryptAll(): decrypt with the old key, else with the new one, and store
   the ciphertext made with the new one.  The stores read so far are written
   even when another one has failed.  A mutant gives up the new key.         *)
DecryptsOld(w, s) == win[w].got[s].key = win[w].old
Decrypts(w, s) == win[w].got[s].key \in {win[w].old, win[w].new}
RecryptWrite(w, s) ==
    /\ At(w, "recrypt") \/ At(w, "aborted")
    /\ win[w].got[s] # Blank
    /\ Decrypts(w, s)
    /\ stores' = [stores EXCEPT ![s] = [key  |-> win[w].new,
                                        data |-> win[w].got[s].data]]
    /\ win' = [win EXCEPT ![w].todo = @ \ {s}, ![w].got[s] = Blank]
    /\ UNCHANGED <<base, salt, params, session, code, outcome, ghost,
                   resetting>>

(* recryptAll() fails on a store neither key decrypts: login() logs out and
   closes the window five seconds later.                                     *)
RecryptFails(w, s) ==
    /\ At(w, "recrypt")
    /\ win[w].got[s] # Blank
    /\ ~Decrypts(w, s)
    /\ win' = [win EXCEPT ![w].pc = "aborted", ![w].got[s] = Blank]
    /\ session' = NoKey
    /\ UNCHANGED <<stored, code, outcome, ghost, resetting>>

CloseAborted(w) ==
    /\ At(w, "aborted")
    /\ Report(w, "failed")
    /\ UNCHANGED <<stored, session, code, ghost, resetting>>

(* login(): store the parameters of the running program when they differ from
   those the old key was derived with.                                       *)
Reparam(w) ==
    /\ At(w, "reparam")
    /\ params' = IF win[w].old.params # win[w].new.params THEN code ELSE params
    /\ Goto(w, "open")
    /\ UNCHANGED <<base, salt, stores, session, code, outcome, ghost,
                   resetting>>

(* login(): open the session; run_migrations() saves like any other code.    *)
Open(w) ==
    /\ At(w, "open")
    /\ session' = win[w].new
    /\ Report(w, "ok")
    /\ UNCHANGED <<stored, code, ghost, resetting>>

-----------------------------------------------------------------------------
(* StoreAccess: a save while the vault is unlocked, of a store that is new or
   that the session's key decrypts.                                          *)
SessionKey == Salted(session, salt)
Save(s) ==
    /\ session # NoKey
    /\ base # NoBase
    /\ stores[s] = Blank \/ stores[s].key = SessionKey
    /\ writes < MaxWrites
    /\ writes' = writes + 1
    /\ written' = [written EXCEPT ![s] = writes + 1]
    /\ stores' = [stores EXCEPT ![s] = [key |-> SessionKey, data |-> writes + 1]]
    /\ UNCHANGED <<base, salt, params, session, code, win, outcome, gens,
                   salts, wiped, resetting>>

(* clearRootKey(), also when the browser restarts.                           *)
Logout ==
    /\ session # NoKey
    /\ session' = NoKey
    /\ UNCHANGED <<stored, code, win, outcome, ghost, resetting>>

(* A window is closed: what it had read and derived is gone.                 *)
Crash(w) ==
    /\ MayCrash
    /\ ~At(w, "idle")
    /\ At(w, "reparam") =>
         SplitsBase \/ win[w].old.params = win[w].new.params
    /\ win' = [win EXCEPT ![w] = NoCall]
    /\ UNCHANGED <<stored, session, code, outcome, ghost, resetting>>

(* The browser installs a version with other Argon2 parameters: every page of
   the extension is closed and session storage is cleared.  A rotation is cut
   short when a store is under another key than the base is signed with.     *)
Whole == \A s \in Store : stores[s] = Blank \/ stores[s].key = base.sig
Upgrade ==
    /\ code < MaxCode
    /\ UpgradeMidway \/ (AllIdle /\ Whole)
    /\ code' = code + 1
    /\ session' = NoKey
    /\ win' = [w \in Window |-> NoCall]
    /\ UNCHANGED <<stored, outcome, ghost, resetting>>

(* factory_reset(): clear the session, then all of storage.  As a bound, only
   after a registration since the last reset.  A mutant keeps the stores.    *)
ResetSession ==
    /\ MayReset
    /\ gens > wiped
    /\ ~resetting
    /\ ResetMidLogin \/ AllIdle
    /\ resetting' = TRUE
    /\ session' = NoKey
    /\ UNCHANGED <<stored, code, win, outcome, ghost>>

ResetBaseOnly ==
    /\ resetting
    /\ ResetMidLogin \/ AllIdle
    /\ resetting' = FALSE
    /\ base' = NoBase /\ salt' = 0 /\ params' = 0
    /\ wiped' = gens
    /\ UNCHANGED <<stores, session, code, win, outcome, gens, salts, writes,
                   written>>
ResetStorage ==
    /\ resetting
    /\ ResetMidLogin \/ AllIdle
    /\ resetting' = FALSE
    /\ base' = NoBase /\ salt' = 0 /\ params' = 0
    /\ stores' = [s \in Store |-> Blank]
    /\ written' = [s \in Store |-> 0]
    /\ wiped' = gens
    /\ UNCHANGED <<session, code, win, outcome, gens, salts, writes>>

-----------------------------------------------------------------------------
RegisterStep(w) ==
    \/ RegisterFails(w) \/ RegisterReads(w) \/ Draw(w)
    \/ At(w, "sign") /\ Sign(w, "save")
    \/ At(w, "save") /\ SaveBase(w, "login")

LoginStep(w) ==
    \/ LoginReads(w) \/ Derive(w) \/ LoginBreaks(w) \/ Verify(w) \/ List(w)
    \/ \E s \in Store :
         RecryptRead(w, s) \/ RecryptWrite(w, s) \/ RecryptFails(w, s)
    \/ CloseAborted(w)
    \/ At(w, "recrypt") /\ Recrypted(w) /\ Sign(w, "rebase")
    \/ At(w, "rebase") /\ SaveBase(w, "reparam")
    \/ Reparam(w) \/ Open(w)

Next ==
    \/ \E w \in Window :
         \/ \E p \in Phrase : Register(w, p) \/ Unlock(w, p)
         \/ RegisterStep(w) \/ LoginStep(w) \/ Crash(w)
    \/ \E s \in Store : Save(s)
    \/ Logout \/ Upgrade \/ ResetSession \/ ResetStorage

Spec == Init /\ [][Next]_vars

-----------------------------------------------------------------------------
(* The two keys that a login with the right passphrase derives from what is
   stored now.                                                               *)
OldKey == [gen |-> base.gen, phrase |-> base.sig.phrase, nonce |-> base.nonce,
           params |-> params, salt |-> salt]
NewKey == [OldKey EXCEPT !.nonce = NextNonce(base.nonce), !.params = code]

(* However the last rotation ended, the right passphrase opens the vault
   again: every store is readable with one of the two keys the next login
   derives, and the base is signed with one of them (vault.ts:383, "in case
   program exits while rotating keys").                                      *)
Recoverable ==
    AllIdle /\ base # NoBase =>
        /\ base.sig \in {OldKey, NewKey}
        /\ \A s \in Store : stores[s] # Blank =>
                               stores[s].key \in {OldKey, NewKey}

(* Without a base nothing is left that only a lost key could open.           *)
NothingOrphaned == base = NoBase => \A s \in Store : stores[s] = Blank

(* While the vault is unlocked every store opens with the session's key, so
   no read of an open vault ends in a DecryptionError.                       *)
UnlockedReads ==
    session # NoKey =>
        \A s \in Store : stores[s] # Blank => stores[s].key = SessionKey

(* Re-encryption hands on the data last saved, never an older version.       *)
RecryptKeepsData ==
    \A s \in Store : stores[s] # Blank => stores[s].data = written[s]

(* A factory reset is final: what is stored later comes from a later
   registration (PopupFactoryReset.svelte: "permanently delete all data").   *)
ResetIsFinal ==
    /\ base # NoBase => base.gen > wiped
    /\ \A s \in Store : stores[s] # Blank => stores[s].key.gen > wiped

(* login() tells a user that the passphrase is wrong only when it is not the
   one the vault was registered with.                                        *)
RightPhraseAccepted ==
    [][\A w \in Window :
         outcome[w] # "invalid" /\ outcome'[w] = "invalid" =>
             win[w].phrase # win[w].mine.sig.phrase]_vars

(* recryptAll() never meets a store that neither key decrypts, so that no
   login with the right passphrase ends in a logout.                         *)
RecryptNeverAborts ==
    [][\A w \in Window : At(w, "recrypt") => win'[w].pc # "aborted"]_vars

(* The session is only ever opened by a login whose passphrase is the one that
   the base it read was signed with, however registrations, logins and resets
   of other windows change the base, the salt and the parameters meanwhile.  *)
OnlyRightPhraseOpens ==
    [][session' # session /\ session' # NoKey =>
         \E w \in Window : /\ At(w, "open") /\ outcome'[w] = "ok"
                          /\ session'.phrase = win[w].mine.sig.phrase]_vars

(* Why OnlyRightPhraseOpens holds, the inductive invariant of its proof: both
   keys are derived from the passphrase typed, and past verifyRootKey() that
   is the passphrase of the base that was read.                              *)
Checked == {"list", "recrypt", "aborted", "rebase", "reparam", "open"}
PhraseKept(call) ==
    /\ call.pc = "verify" => /\ call.old.phrase = call.phrase
                             /\ call.new.phrase = call.phrase
    /\ call.pc \in Checked => call.new.phrase = call.mine.sig.phrase
PhraseInv == \A w \in Window : PhraseKept(win[w])
=============================================================================
