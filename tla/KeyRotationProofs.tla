------------------------- MODULE KeyRotationProofs -------------------------
(* Proofs about KeyRotation for any windows, stores, passphrases, nonces and
   bounds.                                                                   *)
EXTENDS KeyRotation, TLAPS

(* The bounds are natural numbers.                                           *)
LEMMA Bounds ==
  /\ MaxGen \in Nat /\ MaxSalt \in Nat /\ MaxCode \in Nat /\ MaxWrites \in Nat
  /\ MaxCode > 0
  BY ConstantsAssumption

(* The empty key, base, ciphertext and call are of their types.              *)
LEMMA NoKeyType == NoKey \in Key
<1>1. \A p \in Phrase : (CHOOSE q \in Phrase : TRUE) \in Phrase
  OBVIOUS
<1>2. NoKey.phrase \in Phrase
  BY <1>1, ConstantsAssumption DEF NoKey
<1>. QED
  BY <1>2, ConstantsAssumption DEF NoKey, Key, Nonce

LEMMA BlankTypes == NoBase \in Base /\ Blank \in Cipher /\ NoCall \in Call
<1>1. NoBase \in Base
  BY NoKeyType, ConstantsAssumption DEF NoBase, Base, Nonce
<1>2. Blank \in Cipher
  BY NoKeyType, ConstantsAssumption DEF Blank, Cipher
<1>3. NoKey.phrase \in Phrase
  BY NoKeyType DEF Key
<1>4. NoCall \in Call
  BY <1>1, <1>2, <1>3, NoKeyType DEF NoCall, Call, Step
<1>. QED
  BY <1>1, <1>2, <1>4

(* The next nonce is a nonce: it wraps around.                               *)
LEMMA NextNonceType == ASSUME NEW n \in Nonce PROVE NextNonce(n) \in Nonce
  BY ConstantsAssumption DEF Nonce, NextNonce

(* Salting a key makes a key.                                                *)
LEMMA SaltedType ==
  ASSUME NEW k \in Key, NEW s \in 0..MaxSalt
  PROVE  /\ Salted(k, s) \in Key
         /\ Salted(k, s).phrase = k.phrase
  BY DEF Salted, Key

(* hkdf_params() leaves a salt within its bounds.                            *)
LEMMA TakeSaltType ==
  ASSUME TypeOK, TakeSalt
  PROVE  salt' \in 0..MaxSalt /\ salts' \in 0..MaxSalt
  BY ConstantsAssumption DEF TypeOK, TakeSalt

(* The initial state is of the declared types.                               *)
LEMMA TypeInit == Init => TypeOK
<1> SUFFICES ASSUME Init PROVE TypeOK
  OBVIOUS
<1>2. stores \in [Store -> Cipher] /\ base \in Base /\ session \in Key
  BY BlankTypes, NoKeyType DEF Init
<1>3. win \in [Window -> Call]
  BY BlankTypes DEF Init
<1>4. outcome \in [Window -> Outcome]
  BY DEF Init, Outcome
<1>5. /\ salt \in 0..MaxSalt /\ params \in 0..MaxCode /\ code \in 1..MaxCode
      /\ gens \in 0..MaxGen /\ salts \in 0..MaxSalt /\ writes \in 0..MaxWrites
      /\ wiped \in 0..MaxGen
  BY Bounds DEF Init
<1>6. written \in [Store -> 0..MaxWrites]
  BY Bounds DEF Init
<1>7. resetting \in BOOLEAN
  BY DEF Init
<1>. QED
  BY <1>2, <1>3, <1>4, <1>5, <1>6, <1>7 DEF TypeOK

(* What every step of a window does to its call keeps the types: it ends, goes
   on, or sets some of its fields.                                           *)
LEMMA GotoType ==
  ASSUME TypeOK, NEW w \in Window, NEW there \in Step, Goto(w, there)
  PROVE  win' \in [Window -> Call]
<1>1. win[w] \in Call
  BY DEF TypeOK
<1>2. [win[w] EXCEPT !.pc = there] \in Call
  BY <1>1 DEF Call
<1>. QED
  BY <1>2 DEF Goto, TypeOK

LEMMA ReportType ==
  ASSUME TypeOK, NEW w \in Window, NEW o \in Outcome, Report(w, o)
  PROVE  win' \in [Window -> Call] /\ outcome' \in [Window -> Outcome]
  BY BlankTypes DEF Report, TypeOK

LEMMA LoginFailsType ==
  ASSUME TypeOK, NEW w \in Window, NEW o \in Outcome, LoginFails(w, o)
  PROVE  /\ win' \in [Window -> Call] /\ outcome' \in [Window -> Outcome]
         /\ base' \in Base
  BY ReportType, BlankTypes DEF LoginFails, TypeOK

(* Registration and its signature keep the types.                            *)
LEMMA SignType ==
  ASSUME TypeOK, NEW w \in Window, NEW there \in Step, Sign(w, there)
  PROVE  TypeOK'
<1>1. salt' \in 0..MaxSalt /\ salts' \in 0..MaxSalt
  BY TakeSaltType DEF Sign
<1>2. win[w] \in Call
  BY DEF TypeOK
<1>3. Salted(win[w].new, salt') \in Key
  BY <1>1, <1>2, SaltedType DEF Call
<1>4. [win[w] EXCEPT !.pc = there, !.sig = Salted(win[w].new, salt')] \in Call
  BY <1>2, <1>3 DEF Call
<1>5. win' \in [Window -> Call]
  BY <1>4 DEF Sign, TypeOK
<1>. QED
  BY <1>1, <1>5 DEF Sign, TypeOK

LEMMA SaveBaseType ==
  ASSUME TypeOK, NEW w \in Window, NEW there \in Step, SaveBase(w, there)
  PROVE  TypeOK'
<1>1. win[w] \in Call
  BY DEF TypeOK
<1>2. base' \in Base
  BY <1>1 DEF SaveBase, Base, Call, Key
<1>3. win' \in [Window -> Call]
  BY GotoType DEF SaveBase
<1>. QED
  BY <1>2, <1>3 DEF SaveBase, TypeOK, ghost

(* The running program's parameters are ones that can be stored.             *)
LEMMA CodeType ==
  ASSUME TypeOK
  PROVE  code \in 0..MaxCode /\ params \in 0..MaxCode
  BY Bounds DEF TypeOK

(* Registering, up to the signature, keeps the types.                        *)
LEMMA RegisterType ==
  ASSUME TypeOK, NEW w \in Window,
         \/ \E p \in Phrase : Register(w, p) \/ Unlock(w, p)
         \/ RegisterStep(w)
  PROVE  TypeOK'
<1>1. ASSUME NEW p \in Phrase, Register(w, p) PROVE TypeOK'
  <2>1. [NoCall EXCEPT !.pc = "register", !.phrase = p, !.registers = TRUE]
          \in Call
    BY BlankTypes DEF Call, Step
  <2>2. win' \in [Window -> Call]
    BY <1>1, <2>1 DEF Register, TypeOK
  <2>3. outcome' \in [Window -> Outcome]
    BY <1>1 DEF Register, TypeOK, Outcome
  <2>4. params' \in 0..MaxCode
    BY <1>1, CodeType DEF Register
  <2>5. UNCHANGED <<base, salt, stores, session, code, gens, salts, writes,
                    written, wiped, resetting>>
    BY <1>1 DEF Register, ghost
  <2>. QED
    BY <2>2, <2>3, <2>4, <2>5 DEF TypeOK
<1>2. ASSUME NEW p \in Phrase, Unlock(w, p) PROVE TypeOK'
  <2>1. [NoCall EXCEPT !.pc = "login", !.phrase = p] \in Call
    BY BlankTypes DEF Call, Step
  <2>2. win' \in [Window -> Call]
    BY <1>2, <2>1 DEF Unlock, TypeOK
  <2>3. outcome' \in [Window -> Outcome]
    BY <1>2 DEF Unlock, TypeOK, Outcome
  <2>4. params' \in 0..MaxCode
    BY <1>2, CodeType DEF Unlock
  <2>5. UNCHANGED <<base, salt, stores, session, code, gens, salts, writes,
                    written, wiped, resetting>>
    BY <1>2 DEF Unlock, ghost
  <2>. QED
    BY <2>2, <2>3, <2>4, <2>5 DEF TypeOK
<1>3. CASE RegisterFails(w)
  <2>1. win' \in [Window -> Call] /\ outcome' \in [Window -> Outcome]
    BY <1>3, ReportType DEF RegisterFails, Outcome
  <2>. QED
    BY <1>3, <2>1 DEF RegisterFails, TypeOK, stored, ghost
<1>4. CASE RegisterReads(w)
  <2>1. win' \in [Window -> Call]
    BY <1>4, GotoType DEF RegisterReads, Step
  <2>. QED
    BY <1>4, <2>1 DEF RegisterReads, TypeOK, stored, ghost
<1>5. CASE Draw(w)
  <2>1. PICK n \in Nonce :
          win' = [win EXCEPT ![w].pc = "sign",
                             ![w].new = [gen |-> gens + 1,
                                         phrase |-> win[w].phrase,
                                         nonce |-> NextNonce(n),
                                         params |-> code, salt |-> 0]]
    BY <1>5 DEF Draw
  <2>2. win[w] \in Call
    BY DEF TypeOK
  <2>3. gens' \in 0..MaxGen /\ gens + 1 \in 0..MaxGen
    BY <1>5, Bounds DEF Draw, TypeOK
  <2>4. code \in 0..MaxCode /\ 0 \in 0..MaxSalt
    BY Bounds DEF TypeOK
  <2> DEFINE k == [gen |-> gens + 1, phrase |-> win[w].phrase,
                   nonce |-> NextNonce(n), params |-> code, salt |-> 0]
  <2>5. k \in Key
    BY <2>2, <2>3, <2>4, NextNonceType DEF Key, Call
  <2>6. [win[w] EXCEPT !.pc = "sign", !.new = k] \in Call
    BY <2>2, <2>5 DEF Call, Step
  <2>7. win' \in [Window -> Call]
    <3>1. win' = [win EXCEPT ![w] = [win[w] EXCEPT !.pc = "sign", !.new = k]]
      BY <2>1 DEF TypeOK
    <3>. HIDE DEF k
    <3>. QED
      BY <2>6, <3>1 DEF TypeOK
  <2>. QED
    BY <1>5, <2>3, <2>7 DEF Draw, TypeOK, stored
<1>6. ASSUME Sign(w, "save") PROVE TypeOK'
  BY <1>6, SignType DEF Step
<1>7. ASSUME SaveBase(w, "login") PROVE TypeOK'
  BY <1>7, SaveBaseType DEF Step
<1>. QED
  BY <1>1, <1>2, <1>3, <1>4, <1>5, <1>6, <1>7 DEF RegisterStep

(* Logging in, up to recryptAll(), keeps the types.                          *)
LEMMA LoginType ==
  ASSUME TypeOK, NEW w \in Window,
         LoginReads(w) \/ Derive(w) \/ LoginBreaks(w) \/ Verify(w) \/ List(w)
  PROVE  TypeOK'
<1>0. win[w] \in Call
  BY DEF TypeOK
<1>1. CASE LoginReads(w)
  <2>1. CASE base = NoBase
    BY <1>1, <2>1, LoginFailsType DEF LoginReads, Outcome, TypeOK, ghost
  <2>2. CASE base # NoBase
    <3>1. [win[w] EXCEPT !.pc = "derive", !.mine = base] \in Call
      BY <1>0 DEF Call, Step, TypeOK
    <3>2. win' \in [Window -> Call]
      BY <1>1, <2>2, <3>1 DEF LoginReads, TypeOK
    <3>. QED
      BY <1>1, <2>2, <3>2 DEF LoginReads, TypeOK, ghost
  <2>. QED
    BY <2>1, <2>2
<1>2. CASE Derive(w)
  <2> DEFINE n == win[w].mine.nonce
             old == DerivedKey(w, n, params)
             new == DerivedKey(w, NextNonce(n), code)
  <2>1. n \in Nonce /\ win[w].mine.gen \in 0..MaxGen /\ win[w].phrase \in Phrase
    BY <1>0 DEF Call, Base
  <2>2. params \in 0..MaxCode /\ code \in 0..MaxCode /\ 0 \in 0..MaxSalt
    BY CodeType, Bounds
  <2>3. old \in Key /\ new \in Key
    BY <2>1, <2>2, NextNonceType DEF DerivedKey, Key
  <2>4. [win[w] EXCEPT !.pc = "verify", !.old = old, !.new = new] \in Call
    BY <1>0, <2>3 DEF Call, Step
  <2>5. win' = [win EXCEPT ![w] = [win[w] EXCEPT !.pc = "verify", !.old = old,
                                                 !.new = new]]
    BY <1>2 DEF Derive, TypeOK
  <2>6. win' \in [Window -> Call]
    <3>. HIDE DEF old, new
    <3>. QED
      BY <2>4, <2>5 DEF TypeOK
  <2>. QED
    BY <1>2, <2>6 DEF Derive, TypeOK, stored, ghost
<1>3. CASE LoginBreaks(w)
  BY <1>3, LoginFailsType DEF LoginBreaks, Outcome, TypeOK, ghost
<1>4. CASE Verify(w)
  <2>1. salt' \in 0..MaxSalt /\ salts' \in 0..MaxSalt
    BY <1>4, TakeSaltType DEF Verify
  <2>2. /\ win' \in [Window -> Call] /\ outcome' \in [Window -> Outcome]
        /\ base' \in Base
    <3>1. CASE Verified(w, salt')
      BY <1>4, <3>1, GotoType DEF Verify, Step, TypeOK
    <3>2. CASE ~Verified(w, salt')
      BY <1>4, <3>2, LoginFailsType DEF Verify, Outcome
    <3>. QED
      BY <3>1, <3>2
  <2>. QED
    BY <1>4, <2>1, <2>2 DEF Verify, TypeOK
<1>5. CASE List(w)
  <2> DEFINE old == Salted(win[w].old, salt')
             new == Salted(win[w].new, salt')
             todo == {s \in Store : stores[s] # Blank}
  <2>1. salt' \in 0..MaxSalt /\ salts' \in 0..MaxSalt
    BY <1>5, TakeSaltType DEF List
  <2>2. old \in Key /\ new \in Key
    BY <1>0, <2>1, SaltedType DEF Call
  <2>3. todo \in SUBSET Store
    OBVIOUS
  <2>4. win' = [win EXCEPT ![w] = [win[w] EXCEPT !.pc = "recrypt", !.old = old,
                                                 !.new = new, !.todo = todo]]
    BY <1>5 DEF List, TypeOK
  <2>5. win' \in [Window -> Call]
    <3>. HIDE DEF old, new, todo
    <3>1. [win[w] EXCEPT !.pc = "recrypt", !.old = old, !.new = new,
                         !.todo = todo] \in Call
      BY <1>0, <2>2, <2>3 DEF Call, Step
    <3>. QED
      BY <2>4, <3>1 DEF TypeOK
  <2>. QED
    BY <1>5, <2>1, <2>5 DEF List, TypeOK
<1>. QED
  BY <1>1, <1>2, <1>3, <1>4, <1>5

(* recryptAll() and what follows it keep the types.                          *)
LEMMA RecryptType ==
  ASSUME TypeOK, NEW w \in Window, NEW s \in Store,
         RecryptRead(w, s) \/ RecryptWrite(w, s) \/ RecryptFails(w, s)
  PROVE  TypeOK'
<1>0. win[w] \in Call
  BY DEF TypeOK
<1>1. CASE RecryptRead(w, s)
  <2>1. /\ [win[w] EXCEPT !.todo = @ \ {s}] \in Call
        /\ [win[w] EXCEPT !.got = [@ EXCEPT ![s] = stores[s]]] \in Call
    BY <1>0 DEF Call, TypeOK
  <2>2. win' \in [Window -> Call]
    <3>1. CASE stores[s] = Blank
      BY <1>1, <2>1, <3>1 DEF RecryptRead, TypeOK
    <3>2. CASE stores[s] # Blank
      BY <1>1, <2>1, <3>2 DEF RecryptRead, TypeOK
    <3>. QED
      BY <3>1, <3>2
  <2>. QED
    BY <1>1, <2>2 DEF RecryptRead, TypeOK, stored, ghost
<1>2. CASE RecryptWrite(w, s)
  <2>1. [win[w] EXCEPT !.todo = @ \ {s}, !.got = [@ EXCEPT ![s] = Blank]]
          \in Call
    BY <1>0, BlankTypes DEF Call
  <2>2. win' \in [Window -> Call]
    BY <1>2, <2>1 DEF RecryptWrite, TypeOK
  <2>3. [key |-> win[w].new, data |-> win[w].got[s].data] \in Cipher
    BY <1>0 DEF Call, Cipher
  <2>4. stores' \in [Store -> Cipher]
    BY <1>2, <2>3 DEF RecryptWrite, TypeOK
  <2>. QED
    BY <1>2, <2>2, <2>4 DEF RecryptWrite, TypeOK, ghost
<1>3. CASE RecryptFails(w, s)
  <2>1. [win[w] EXCEPT !.pc = "aborted", !.got = [@ EXCEPT ![s] = Blank]]
          \in Call
    BY <1>0, BlankTypes DEF Call, Step
  <2>2. win' \in [Window -> Call]
    BY <1>3, <2>1 DEF RecryptFails, TypeOK
  <2>. QED
    BY <1>3, <2>2, NoKeyType DEF RecryptFails, TypeOK, stored, ghost
<1>. QED
  BY <1>1, <1>2, <1>3

(* The end of login() keeps the types.                                       *)
LEMMA EndType ==
  ASSUME TypeOK, NEW w \in Window,
         CloseAborted(w) \/ Reparam(w) \/ Open(w) \/ Crash(w)
  PROVE  TypeOK'
<1>1. CASE CloseAborted(w)
  <2>1. win' \in [Window -> Call] /\ outcome' \in [Window -> Outcome]
    BY <1>1, ReportType DEF CloseAborted, Outcome
  <2>. QED
    BY <1>1, <2>1 DEF CloseAborted, TypeOK, stored, ghost
<1>2. CASE Reparam(w)
  <2>1. win' \in [Window -> Call]
    BY <1>2, GotoType DEF Reparam, Step
  <2>2. params' \in 0..MaxCode
    BY <1>2, CodeType DEF Reparam
  <2>. QED
    BY <1>2, <2>1, <2>2 DEF Reparam, TypeOK, ghost
<1>3. CASE Open(w)
  <2>1. win' \in [Window -> Call] /\ outcome' \in [Window -> Outcome]
    BY <1>3, ReportType DEF Open, Outcome
  <2>2. session' \in Key
    BY <1>3 DEF Open, TypeOK, Call
  <2>. QED
    BY <1>3, <2>1, <2>2 DEF Open, TypeOK, stored, ghost
<1>4. CASE Crash(w)
  <2>1. win' \in [Window -> Call]
    BY <1>4, BlankTypes DEF Crash, TypeOK
  <2>. QED
    BY <1>4, <2>1 DEF Crash, TypeOK, stored, ghost
<1>. QED
  BY <1>1, <1>2, <1>3, <1>4

(* What is not the step of a window keeps the types.                         *)
LEMMA OtherType ==
  ASSUME TypeOK,
         \/ \E s \in Store : Save(s)
         \/ Logout \/ Upgrade \/ ResetSession \/ ResetStorage
  PROVE  TypeOK'
<1>1. ASSUME NEW s \in Store, Save(s) PROVE TypeOK'
  <2>1. writes + 1 \in 0..MaxWrites
    BY <1>1, Bounds DEF Save, TypeOK
  <2>2. SessionKey \in Key
    BY SaltedType DEF SessionKey, TypeOK
  <2>3. [key |-> SessionKey, data |-> writes + 1] \in Cipher
    BY <2>1, <2>2 DEF Cipher
  <2>4. stores' \in [Store -> Cipher]
    BY <1>1, <2>3 DEF Save, TypeOK
  <2>5. written' \in [Store -> 0..MaxWrites] /\ writes' \in 0..MaxWrites
    BY <1>1, <2>1 DEF Save, TypeOK
  <2>. QED
    BY <1>1, <2>4, <2>5 DEF Save, TypeOK
<1>2. CASE Logout
  BY <1>2, NoKeyType DEF Logout, TypeOK, stored, ghost
<1>3. CASE Upgrade
  <2>1. code' \in 1..MaxCode
    BY <1>3, Bounds DEF Upgrade, TypeOK
  <2>2. win' \in [Window -> Call]
    BY <1>3, BlankTypes DEF Upgrade
  <2>. QED
    BY <1>3, <2>1, <2>2, NoKeyType DEF Upgrade, TypeOK, stored, ghost
<1>4. CASE ResetSession
  BY <1>4, NoKeyType DEF ResetSession, TypeOK, stored, ghost
<1>5. CASE ResetStorage
  <2>1. salt' \in 0..MaxSalt /\ params' \in 0..MaxCode
    BY <1>5, Bounds DEF ResetStorage
  <2>2. stores' \in [Store -> Cipher] /\ base' \in Base
    BY <1>5, BlankTypes DEF ResetStorage
  <2>3. written' \in [Store -> 0..MaxWrites]
    BY <1>5, Bounds DEF ResetStorage
  <2>4. resetting' \in BOOLEAN /\ wiped' \in 0..MaxGen
    BY <1>5 DEF ResetStorage, TypeOK
  <2>. QED
    BY <1>5, <2>1, <2>2, <2>3, <2>4 DEF ResetStorage, TypeOK
<1>. QED
  BY <1>1, <1>2, <1>3, <1>4, <1>5

(* Every step keeps the types.                                               *)
LEMMA TypeStep == TypeOK /\ [Next]_vars => TypeOK'
<1> SUFFICES ASSUME TypeOK, [Next]_vars PROVE TypeOK'
  OBVIOUS
<1>1. ASSUME NEW w \in Window, LoginStep(w) PROVE TypeOK'
  <2>1. ASSUME Sign(w, "rebase") PROVE TypeOK'
    BY <2>1, SignType DEF Step
  <2>2. ASSUME SaveBase(w, "reparam") PROVE TypeOK'
    BY <2>2, SaveBaseType DEF Step
  <2>. QED
    BY <1>1, <2>1, <2>2, LoginType, RecryptType, EndType DEF LoginStep
<1>2. CASE UNCHANGED vars
  BY <1>2 DEF vars, TypeOK, stored, ghost
<1>. QED
  BY <1>1, <1>2, RegisterType, EndType, OtherType DEF Next

(* Every variable keeps its type, whatever windows register, unlock, are closed
   or reset the wallet.                                                      *)
THEOREM TypeCorrect == Spec => []TypeOK
  BY TypeInit, TypeStep, PTL DEF Spec

-----------------------------------------------------------------------------
(* A step that changes one call keeps the invariant if the call does.        *)
LEMMA OneCall ==
  ASSUME TypeOK, PhraseInv, NEW w \in Window, NEW call,
         win' = [win EXCEPT ![w] = call], PhraseKept(call)
  PROVE  PhraseInv'
  BY DEF TypeOK, PhraseInv

(* A call that ends has nothing to keep.                                     *)
LEMMA Ended == PhraseKept(NoCall)
  BY DEF PhraseKept, NoCall, Checked

LEMMA ReportKeeps ==
  ASSUME TypeOK, PhraseInv, NEW w \in Window, NEW o, Report(w, o)
  PROVE  PhraseInv'
  BY OneCall, Ended DEF Report

(* A call goes on to a step whose condition it meets.                        *)
LEMMA GotoKeeps ==
  ASSUME TypeOK, PhraseInv, NEW w \in Window, NEW there, Goto(w, there),
         PhraseKept([win[w] EXCEPT !.pc = there])
  PROVE  PhraseInv'
  BY OneCall DEF Goto

(* A signature leaves the keys alone.                                        *)
LEMMA SignKeeps ==
  ASSUME TypeOK, PhraseInv, NEW w \in Window, NEW there \in Step, Sign(w, there),
         there \in Checked => win[w].pc \in Checked, there # "verify"
  PROVE  PhraseInv'
<1> DEFINE call == [win[w] EXCEPT !.pc = there, !.sig = Salted(win[w].new, salt')]
<1>1. win[w] \in Call /\ PhraseKept(win[w])
  BY DEF TypeOK, PhraseInv
<1>2. win' = [win EXCEPT ![w] = call]
  BY DEF Sign, TypeOK
<1>3. PhraseKept(call)
  BY <1>1 DEF PhraseKept, Call
<1>. QED
  BY <1>2, <1>3, OneCall

(* Registering: no key is checked yet.                                       *)
LEMMA RegisterKeeps ==
  ASSUME TypeOK, PhraseInv, NEW w \in Window,
         \/ \E p \in Phrase : Register(w, p) \/ Unlock(w, p)
         \/ RegisterStep(w)
  PROVE  PhraseInv'
<1>0. win[w] \in Call
  BY DEF TypeOK
<1>1. ASSUME NEW p \in Phrase, Register(w, p) PROVE PhraseInv'
  <2> DEFINE call == [NoCall EXCEPT !.pc = "register", !.phrase = p,
                                    !.registers = TRUE]
  <2>1. PhraseKept(call)
    BY DEF PhraseKept, NoCall, Checked
  <2>. QED
    BY <1>1, <2>1, OneCall DEF Register
<1>2. ASSUME NEW p \in Phrase, Unlock(w, p) PROVE PhraseInv'
  <2> DEFINE call == [NoCall EXCEPT !.pc = "login", !.phrase = p]
  <2>1. PhraseKept(call)
    BY DEF PhraseKept, NoCall, Checked
  <2>. QED
    BY <1>2, <2>1, OneCall DEF Unlock
<1>3. CASE RegisterFails(w)
  BY <1>3, ReportKeeps DEF RegisterFails
<1>4. CASE RegisterReads(w)
  <2>1. PhraseKept([win[w] EXCEPT !.pc = "draw"])
    BY <1>0 DEF PhraseKept, Call, Checked
  <2>. QED
    BY <1>4, <2>1, GotoKeeps DEF RegisterReads
<1>5. CASE Draw(w)
  <2>1. PICK n \in Nonce :
          win' = [win EXCEPT ![w].pc = "sign",
                             ![w].new = [gen |-> gens + 1,
                                         phrase |-> win[w].phrase,
                                         nonce |-> NextNonce(n),
                                         params |-> code, salt |-> 0]]
    BY <1>5 DEF Draw
  <2> DEFINE k == [gen |-> gens + 1, phrase |-> win[w].phrase,
                   nonce |-> NextNonce(n), params |-> code, salt |-> 0]
             call == [win[w] EXCEPT !.pc = "sign", !.new = k]
  <2>2. win' = [win EXCEPT ![w] = call]
    BY <2>1 DEF TypeOK
  <2>3. PhraseKept(call)
    <3>. HIDE DEF k
    <3>. QED
      BY <1>0 DEF PhraseKept, Call, Checked
  <2>. QED
    BY <2>2, <2>3, OneCall
<1>6. ASSUME Sign(w, "save") PROVE PhraseInv'
  BY <1>6, SignKeeps DEF Checked, Step
<1>7. ASSUME SaveBase(w, "login") PROVE PhraseInv'
  <2>1. PhraseKept([win[w] EXCEPT !.pc = "login"])
    BY <1>0 DEF PhraseKept, Call, Checked
  <2>. QED
    BY <1>7, <2>1, GotoKeeps DEF SaveBase
<1>. QED
  BY <1>1, <1>2, <1>3, <1>4, <1>5, <1>6, <1>7 DEF RegisterStep

(* Logging in: verifyRootKey() compares with a key of the passphrase typed.  *)
LEMMA LoginKeeps ==
  ASSUME TypeOK, PhraseInv, NEW w \in Window,
         LoginReads(w) \/ Derive(w) \/ LoginBreaks(w) \/ Verify(w) \/ List(w)
  PROVE  PhraseInv'
<1>0. win[w] \in Call /\ PhraseKept(win[w])
  BY DEF TypeOK, PhraseInv
<1>1. CASE LoginReads(w)
  <2>1. CASE base = NoBase
    BY <1>1, <2>1, ReportKeeps DEF LoginReads, LoginFails
  <2>2. CASE base # NoBase
    <3> DEFINE call == [win[w] EXCEPT !.pc = "derive", !.mine = base]
    <3>1. win' = [win EXCEPT ![w] = call]
      BY <1>1, <2>2 DEF LoginReads, TypeOK
    <3>2. PhraseKept(call)
      BY <1>0 DEF PhraseKept, Call, Checked
    <3>. QED
      BY <3>1, <3>2, OneCall
  <2>. QED
    BY <2>1, <2>2
<1>2. CASE Derive(w)
  <2> DEFINE n == win[w].mine.nonce
             old == DerivedKey(w, n, params)
             new == DerivedKey(w, NextNonce(n), code)
             call == [win[w] EXCEPT !.pc = "verify", !.old = old, !.new = new]
  <2>1. win' = [win EXCEPT ![w] = call]
    BY <1>2 DEF Derive, TypeOK
  <2>2. old.phrase = win[w].phrase /\ new.phrase = win[w].phrase
    BY DEF DerivedKey
  <2>3. PhraseKept(call)
    <3>. HIDE DEF old, new
    <3>. QED
      BY <1>0, <2>2 DEF PhraseKept, Call, Checked
  <2>. QED
    BY <2>1, <2>3, OneCall
<1>3. CASE LoginBreaks(w)
  BY <1>3, ReportKeeps DEF LoginBreaks, LoginFails
<1>4. CASE Verify(w)
  <2>1. CASE ~Verified(w, salt')
    BY <1>4, <2>1, ReportKeeps DEF Verify, LoginFails
  <2>2. CASE Verified(w, salt')
    <3>1. salt' \in 0..MaxSalt
      BY <1>4, TakeSaltType DEF Verify
    <3>2. win[w].mine.sig.phrase \in {win[w].old.phrase, win[w].new.phrase}
      BY <1>0, <2>2, <3>1, SaltedType DEF Verified, Call
    <3>3. win[w].new.phrase = win[w].mine.sig.phrase
      BY <1>0, <1>4, <3>2 DEF Verify, At, PhraseKept
    <3>4. PhraseKept([win[w] EXCEPT !.pc = "list"])
      BY <1>0, <3>3 DEF PhraseKept, Call, Checked
    <3>. QED
      BY <1>4, <2>2, <3>4, GotoKeeps DEF Verify
  <2>. QED
    BY <2>1, <2>2
<1>5. CASE List(w)
  <2> DEFINE old == Salted(win[w].old, salt')
             new == Salted(win[w].new, salt')
             call == [win[w] EXCEPT !.pc = "recrypt", !.old = old, !.new = new,
                                    !.todo = {s \in Store : stores[s] # Blank}]
  <2>1. win' = [win EXCEPT ![w] = call]
    BY <1>5 DEF List, TypeOK
  <2>2. salt' \in 0..MaxSalt
    BY <1>5, TakeSaltType DEF List
  <2>3. new.phrase = win[w].new.phrase
    BY <1>0, <2>2, SaltedType DEF Call
  <2>4. PhraseKept(call)
    <3>. HIDE DEF old, new
    <3>. QED
      BY <1>0, <1>5, <2>3 DEF PhraseKept, Call, Checked, List, At
  <2>. QED
    BY <2>1, <2>4, OneCall
<1>. QED
  BY <1>1, <1>2, <1>3, <1>4, <1>5

(* From recryptAll() on neither the keys nor the base that was read change.  *)
LEMMA RecryptKeeps ==
  ASSUME TypeOK, PhraseInv, NEW w \in Window, NEW s \in Store,
         RecryptRead(w, s) \/ RecryptWrite(w, s) \/ RecryptFails(w, s)
  PROVE  PhraseInv'
<1>0. win[w] \in Call /\ PhraseKept(win[w])
  BY DEF TypeOK, PhraseInv
<1> DEFINE skipped == [win[w] EXCEPT !.todo = @ \ {s}]
           read == [win[w] EXCEPT !.got = [@ EXCEPT ![s] = stores[s]]]
           rewritten == [win[w] EXCEPT !.todo = @ \ {s},
                                       !.got = [@ EXCEPT ![s] = Blank]]
           failed == [win[w] EXCEPT !.pc = "aborted",
                                    !.got = [@ EXCEPT ![s] = Blank]]
<1>1. PhraseKept(skipped) /\ PhraseKept(read) /\ PhraseKept(rewritten)
  BY <1>0 DEF PhraseKept, Call, Checked
<1>2. CASE RecryptRead(w, s)
  <2>1. win' = [win EXCEPT ![w] = skipped] \/ win' = [win EXCEPT ![w] = read]
    BY <1>2 DEF RecryptRead, TypeOK
  <2>. QED
    BY <1>1, <2>1, OneCall
<1>3. CASE RecryptWrite(w, s)
  <2>1. win' = [win EXCEPT ![w] = rewritten]
    BY <1>3 DEF RecryptWrite, TypeOK
  <2>. QED
    BY <1>1, <2>1, OneCall
<1>4. CASE RecryptFails(w, s)
  <2>1. win' = [win EXCEPT ![w] = failed]
    <3>1. win' = [win EXCEPT ![w].pc = "aborted", ![w].got[s] = Blank]
      BY <1>4 DEF RecryptFails
    <3>. QED
      BY <3>1 DEF TypeOK
  <2>2. PhraseKept(failed)
    BY <1>0, <1>4 DEF PhraseKept, Call, Checked, RecryptFails, At
  <2>. QED
    BY <2>1, <2>2, OneCall
<1>. QED
  BY <1>2, <1>3, <1>4

(* The end of login().                                                       *)
LEMMA EndKeeps ==
  ASSUME TypeOK, PhraseInv, NEW w \in Window,
         \/ CloseAborted(w) \/ Reparam(w) \/ Open(w) \/ Crash(w)
         \/ At(w, "recrypt") /\ Sign(w, "rebase")
         \/ At(w, "rebase") /\ SaveBase(w, "reparam")
  PROVE  PhraseInv'
<1>0. win[w] \in Call /\ PhraseKept(win[w])
  BY DEF TypeOK, PhraseInv
<1>1. CASE CloseAborted(w)
  BY <1>1, ReportKeeps DEF CloseAborted
<1>2. CASE Reparam(w)
  <2>1. PhraseKept([win[w] EXCEPT !.pc = "open"])
    BY <1>0, <1>2 DEF PhraseKept, Call, Checked, Reparam, At
  <2>. QED
    BY <1>2, <2>1, GotoKeeps DEF Reparam
<1>3. CASE Open(w)
  BY <1>3, ReportKeeps DEF Open
<1>4. CASE Crash(w)
  BY <1>4, OneCall, Ended DEF Crash
<1>5. ASSUME At(w, "recrypt"), Sign(w, "rebase") PROVE PhraseInv'
  BY <1>5, SignKeeps DEF Checked, Step, At
<1>6. ASSUME At(w, "rebase"), SaveBase(w, "reparam") PROVE PhraseInv'
  <2>1. PhraseKept([win[w] EXCEPT !.pc = "reparam"])
    BY <1>0, <1>6 DEF PhraseKept, Call, Checked, At
  <2>. QED
    BY <1>6, <2>1, GotoKeeps DEF SaveBase
<1>. QED
  BY <1>1, <1>2, <1>3, <1>4, <1>5, <1>6

(* The invariant holds at first and is kept by every step.                   *)
LEMMA PhraseInit == Init => PhraseInv
  BY Ended DEF Init, PhraseInv

LEMMA PhraseStep == TypeOK /\ PhraseInv /\ [Next]_vars => PhraseInv'
<1> SUFFICES ASSUME TypeOK, PhraseInv, [Next]_vars PROVE PhraseInv'
  OBVIOUS
<1>1. ASSUME NEW w \in Window, LoginStep(w) PROVE PhraseInv'
  BY <1>1, LoginKeeps, RecryptKeeps, EndKeeps DEF LoginStep
<1>2. CASE UNCHANGED win
  BY <1>2 DEF PhraseInv
<1>3. ASSUME NEW s \in Store, Save(s) PROVE PhraseInv'
  BY <1>2, <1>3 DEF Save
<1>4. CASE Logout \/ ResetSession \/ ResetStorage
  BY <1>2, <1>4 DEF Logout, ResetSession, ResetStorage
<1>5. CASE Upgrade
  BY <1>5, Ended DEF Upgrade, PhraseInv
<1>6. CASE UNCHANGED vars
  BY <1>2, <1>6 DEF vars
<1>. QED
  BY <1>1, <1>3, <1>4, <1>5, <1>6, RegisterKeeps, EndKeeps DEF Next

(* A session is opened only by Open, with the keys of that call.             *)
LEMMA OpensRightly ==
  ASSUME TypeOK, PhraseInv, [Next]_vars, session' # session, session' # NoKey
  PROVE  \E w \in Window : /\ At(w, "open") /\ outcome'[w] = "ok"
                           /\ session'.phrase = win[w].mine.sig.phrase
<1>1. ASSUME NEW w \in Window, RegisterStep(w) PROVE FALSE
  BY <1>1 DEF RegisterStep, RegisterFails, RegisterReads, Draw, Sign, SaveBase
<1>2. ASSUME NEW w \in Window, NEW p \in Phrase, Register(w, p) \/ Unlock(w, p)
      PROVE FALSE
  BY <1>2 DEF Register, Unlock
<1>3. ASSUME NEW w \in Window, LoginStep(w) PROVE Open(w)
  BY <1>3 DEF LoginStep, LoginReads, Derive, LoginBreaks, Verify, List,
     RecryptRead, RecryptWrite, RecryptFails, CloseAborted, Sign, SaveBase,
     Reparam
<1>4. ASSUME NEW w \in Window, Crash(w) PROVE FALSE
  BY <1>4 DEF Crash
<1>5. ASSUME NEW s \in Store, Save(s) PROVE FALSE
  BY <1>5 DEF Save
<1>6. ~(Logout \/ Upgrade \/ ResetSession \/ ResetStorage \/ UNCHANGED vars)
  BY DEF Logout, Upgrade, ResetSession, ResetStorage, vars
<1>7. PICK w \in Window : Open(w)
  BY <1>1, <1>2, <1>3, <1>4, <1>5, <1>6 DEF Next
<1>8. outcome'[w] = "ok" /\ session' = win[w].new
  BY <1>7 DEF Open, Report, TypeOK
<1>9. At(w, "open") /\ win[w].new.phrase = win[w].mine.sig.phrase
  BY <1>7 DEF Open, At, PhraseInv, PhraseKept, Checked
<1>. QED
  BY <1>8, <1>9

(* A session opens only for the passphrase its base was signed with, for any
   number of windows that register, log in, reset and are closed at any time
   (auth.ts:164, "new root does not work either; bad passphrase").           *)
THEOREM OnlyRightPhrase == Spec => OnlyRightPhraseOpens
<1>1. TypeOK /\ PhraseInv /\ [Next]_vars =>
        [session' # session /\ session' # NoKey =>
           \E w \in Window : /\ At(w, "open") /\ outcome'[w] = "ok"
                            /\ session'.phrase = win[w].mine.sig.phrase]_vars
  BY OpensRightly
<1>. QED
  BY <1>1, TypeCorrect, PhraseInit, PhraseStep, PTL
  DEF Spec, OnlyRightPhraseOpens

-----------------------------------------------------------------------------
(* A vault recovers from a login cut short anywhere, for any number of stores,
   passphrases, nonces, registrations and program versions.                  *)

(* What is assumed: one window, whose logins are not mixed with resets or with
   a change of the program, and which is not closed between the two writes that
   end a login after such a change.                                          *)
Calm == /\ \E w \in Window : Window = {w}
        /\ ~SplitsBase /\ ~UpgradeMidway /\ ~ResetMidLogin

-----------------------------------------------------------------------------
AllUnder(K) == \A s \in Store : stores[s] # Blank => stores[s].key \in K

(* What is stored, whatever the window does.                                 *)
VaultInv ==
  /\ NothingOrphaned /\ RecryptKeepsData
  /\ wiped <= gens
  /\ base # NoBase => /\ base.gen > wiped /\ salt # 0 /\ params # 0
                      /\ base.sig.gen = base.gen /\ base.sig.nonce = base.nonce
                      /\ base.sig.salt = salt

(* A session is open only between logins, under the key of the base.         *)
SessionInv(c) ==
  session # NoKey => /\ c.pc = "idle"
                     /\ base # NoBase => session = base.sig /\ Whole

(* What a login would find if the window were closed now.                    *)
RestInv(c) ==
  base # NoBase /\ c.pc # "reparam" => /\ base.sig = OldKey
                                       /\ AllUnder({OldKey, NewKey})

(* What a registration or a login knows at each of its steps.                *)
Registering == {"register", "draw", "sign", "save"}
Before      == Registering \cup {"idle", "login", "derive", "verify", "list"}
Rotating    == {"recrypt", "rebase"}
Mine        == {"derive", "verify", "list"} \cup Rotating
TypedBy(p, k) == [k EXCEPT !.phrase = p, !.salt = 0]

RegisterInv(c) ==
  /\ c.pc \in Registering => base = NoBase /\ params = code
  /\ c.pc \in {"sign", "save"} => /\ c.new.gen > wiped /\ c.new.params = code
                                  /\ c.new.phrase = c.phrase
  /\ c.pc = "save" => salt # 0 /\ c.sig = Salted(c.new, salt)

LoginInv(c) ==
  /\ c.pc # "aborted"
  /\ c.pc \notin Registering \cup {"idle"} => base # NoBase
  /\ c.pc \in {"login", "derive", "verify"} /\ c.registers
        => c.phrase = base.sig.phrase
  /\ c.pc \in Mine => c.mine = base
  /\ c.pc \in {"verify", "list"} => /\ c.old = TypedBy(c.phrase, OldKey)
                                    /\ c.new = TypedBy(c.phrase, NewKey)
  /\ c.pc = "list" => c.phrase = base.sig.phrase
  /\ c.pc \in Before => \A s \in Store : c.got[s] = Blank

RecryptInv(c) ==
  /\ c.pc \in Rotating => c.old = OldKey /\ c.new = NewKey
  /\ c.pc = "recrypt" =>
        \A s \in Store :
           /\ c.got[s] # Blank => c.got[s] = stores[s]
           /\ s \in c.todo \/ stores[s] = Blank \/ stores[s].key = c.new
  /\ c.pc = "rebase" => c.sig = c.new /\ AllUnder({c.new})

EndInv(c) ==
  /\ c.pc \in {"reparam", "open"} => base.sig = c.new /\ Whole
  /\ c.pc = "reparam" => c.old.params = params /\ c.new.params = code

CallInv(c) == RegisterInv(c) /\ LoginInv(c) /\ RecryptInv(c) /\ EndInv(c)
Inv(c) == VaultInv /\ SessionInv(c) /\ RestInv(c) /\ CallInv(c)
RotInv == \A w \in Window : Inv(win[w])

-----------------------------------------------------------------------------
(* The keys of the next login are keys, and differ in their nonce.           *)
LEMMA NextKeys ==
  ASSUME TypeOK
  PROVE  /\ OldKey \in Key /\ NewKey \in Key
         /\ NewKey.nonce # OldKey.nonce
         /\ OldKey.gen = base.gen /\ OldKey.phrase = base.sig.phrase
         /\ OldKey.nonce = base.nonce /\ OldKey.params = params /\ OldKey.salt = salt
         /\ NewKey.gen = base.gen /\ NewKey.phrase = base.sig.phrase
         /\ NewKey.nonce = NextNonce(base.nonce) /\ NewKey.params = code
         /\ NewKey.salt = salt
<1>1. base \in Base /\ base.sig \in Key /\ base.nonce \in Nonce
  BY DEF TypeOK, Base
<1>2. NextNonce(base.nonce) \in Nonce /\ NextNonce(base.nonce) # base.nonce
  BY <1>1, ConstantsAssumption DEF NextNonce, Nonce
<1>3. params \in 0..MaxCode /\ code \in 0..MaxCode /\ salt \in 0..MaxSalt
      /\ base.gen \in 0..MaxGen /\ base.sig.phrase \in Phrase
  BY <1>1, CodeType DEF TypeOK, Base, Key
<1>4. /\ OldKey \in Key
      /\ OldKey.gen = base.gen /\ OldKey.phrase = base.sig.phrase
      /\ OldKey.nonce = base.nonce /\ OldKey.params = params /\ OldKey.salt = salt
  BY <1>1, <1>3 DEF OldKey, Key
<1>5. /\ NewKey \in Key
      /\ NewKey.gen = base.gen /\ NewKey.phrase = base.sig.phrase
      /\ NewKey.nonce = NextNonce(base.nonce) /\ NewKey.params = code
      /\ NewKey.salt = salt
  BY <1>2, <1>3, <1>4 DEF NewKey, Key
<1>. QED
  BY <1>2, <1>4, <1>5

(* Keys are equal when they are derived from the same.                       *)
LEMMA SameKey ==
  ASSUME NEW k \in Key, NEW m \in Key, k.gen = m.gen, k.phrase = m.phrase,
         k.nonce = m.nonce, k.params = m.params, k.salt = m.salt
  PROVE  k = m
  BY DEF Key

(* Salting changes nothing else of a key.                                    *)
LEMMA SaltedKey ==
  ASSUME NEW k \in Key, NEW x \in 0..MaxSalt
  PROVE  /\ Salted(k, x) \in Key
         /\ Salted(k, x).gen = k.gen /\ Salted(k, x).phrase = k.phrase
         /\ Salted(k, x).nonce = k.nonce /\ Salted(k, x).params = k.params
         /\ Salted(k, x).salt = x
  BY DEF Salted, Key

(* A key as it is derived from what was typed, before it is salted.          *)
LEMMA TypedKey ==
  ASSUME NEW k \in Key, NEW p \in Phrase
  PROVE  /\ TypedBy(p, k) \in Key
         /\ TypedBy(p, k).gen = k.gen /\ TypedBy(p, k).phrase = p
         /\ TypedBy(p, k).nonce = k.nonce /\ TypedBy(p, k).params = k.params
         /\ TypedBy(p, k).salt = 0
<1> DEFINE typed == [k EXCEPT !.phrase = p]
<1>1. /\ typed \in Key /\ typed.gen = k.gen /\ typed.phrase = p
      /\ typed.nonce = k.nonce /\ typed.params = k.params
  BY DEF Key
<1>2. TypedBy(p, k) = Salted(typed, 0)
  BY DEF TypedBy, Salted, Key
<1>3. 0 \in 0..MaxSalt
  BY Bounds
<1>. HIDE DEF typed
<1>. QED
  BY <1>1, <1>2, <1>3, SaltedKey

(* When a base is signed with the old key.                                   *)
LEMMA SignedOld ==
  ASSUME TypeOK', base'.sig.gen = base'.gen, base'.sig.nonce = base'.nonce,
         base'.sig.params = params', base'.sig.salt = salt'
  PROVE  (base.sig = OldKey)'
<1>1. base'.sig \in Key
  BY DEF TypeOK, Base
<1>. QED
  BY <1>1 DEF OldKey, Key

(* There is one window.                                                      *)
LEMMA Lone ==
  ASSUME Calm, NEW w \in Window
  PROVE  /\ \A v \in Window : v = w
         /\ AllIdle <=> At(w, "idle")
  BY DEF Calm, AllIdle, At

(* A step that changes the call and nothing that is stored.                  *)
LEMMA Quiet ==
  ASSUME TypeOK, Calm, NEW w \in Window, NEW call,
         win' = [win EXCEPT ![w] = call], Inv(call),
         UNCHANGED <<stored, session, code, written, wiped>>,
         gens' \in {gens, gens + 1}
  PROVE  RotInv'
<1>1. win'[w] = call
  BY DEF TypeOK
<1>2. \A v \in Window : v = w
  BY Lone
<1>3. /\ UNCHANGED <<base, salt, params, stores, session, code, written, wiped>>
      /\ UNCHANGED <<OldKey, NewKey>>
  BY DEF stored, OldKey, NewKey
<1>4. VaultInv'
  BY <1>3 DEF Inv, VaultInv, NothingOrphaned, RecryptKeepsData, TypeOK
<1>5. SessionInv(win[w])'
  BY <1>1, <1>3 DEF Inv, SessionInv, Whole
<1>6. RestInv(win[w])'
  BY <1>1, <1>3 DEF Inv, RestInv, AllUnder
<1>7. CallInv(win[w])'
  <2>1. RegisterInv(win[w])'
    BY <1>1, <1>3 DEF Inv, CallInv, RegisterInv, Salted
  <2>2. LoginInv(win[w])'
    BY <1>1, <1>3 DEF Inv, CallInv, LoginInv, TypedBy
  <2>3. RecryptInv(win[w])'
    BY <1>1, <1>3 DEF Inv, CallInv, RecryptInv, AllUnder
  <2>4. EndInv(win[w])'
    BY <1>1, <1>3 DEF Inv, CallInv, EndInv, Whole
  <2>. QED
    BY <2>1, <2>2, <2>3, <2>4 DEF CallInv
<1>. QED
  BY <1>2, <1>4, <1>5, <1>6, <1>7 DEF RotInv, Inv

(* A call that has just ended knows nothing.                                 *)
LEMMA CallOver ==
  ASSUME NEW w \in Window, win'[w].pc = "idle", \A s \in Store : win'[w].got[s] = Blank
  PROVE  CallInv(win[w])'
  BY DEF CallInv, RegisterInv, LoginInv, RecryptInv, EndInv, Registering, Mine, Rotating

(* The window may be closed at any step but the one between the two writes.  *)
LEMMA MayEnd ==
  ASSUME TypeOK, Calm, RotInv, NEW w \in Window, ~At(w, "idle"),
         At(w, "reparam") => win[w].old.params = win[w].new.params
  PROVE  Inv(NoCall)
<1>1. Inv(win[w]) /\ base \in Base /\ base.sig \in Key
  BY DEF RotInv, TypeOK, Base
<1>2. SessionInv(NoCall)
  BY <1>1 DEF Inv, SessionInv, At
<1>3. RestInv(NoCall)
  <2>1. CASE ~At(w, "reparam")
    BY <1>1, <2>1 DEF Inv, RestInv, At
  <2>2. CASE At(w, "reparam")
    <3>1. base.sig = win[w].new /\ base.sig.params = params /\ Whole
      BY <1>1, <2>2 DEF Inv, CallInv, EndInv, At
    <3>2. base # NoBase => base.sig = OldKey
      BY <1>1, <3>1, NextKeys DEF Inv, VaultInv, Key
    <3>. QED
      BY <3>1, <3>2 DEF RestInv, Whole, AllUnder
  <2>. QED
    BY <2>1, <2>2
<1>4. CallInv(NoCall)
  BY DEF NoCall, CallInv, RegisterInv, LoginInv, RecryptInv, EndInv, Registering, Mine, Rotating
<1>. QED
  BY <1>1, <1>2, <1>3, <1>4 DEF Inv

(* A call that ends without a trace.                                         *)
LEMMA Closes ==
  ASSUME TypeOK, Calm, RotInv, NEW w \in Window, ~At(w, "idle"),
         At(w, "reparam") => win[w].old.params = win[w].new.params,
         win' = [win EXCEPT ![w] = NoCall],
         UNCHANGED <<stored, session, code, written, wiped, gens>>
  PROVE  RotInv'
<1>1. Inv(NoCall)
  BY MayEnd
<1>. QED
  BY <1>1, Quiet

-----------------------------------------------------------------------------
(* The first steps of a registration and of a login.                         *)
LEMMA Begins ==
  ASSUME TypeOK, Calm, RotInv, NEW w \in Window, NEW p \in Phrase,
         Register(w, p) \/ Unlock(w, p)
  PROVE  RotInv'
<1>1. Inv(win[w]) /\ win[w].pc = "idle" /\ session = NoKey
  BY DEF RotInv, Register, Unlock, At
<1>2. CASE Unlock(w, p)
  <2> DEFINE call == [NoCall EXCEPT !.pc = "login", !.phrase = p]
  <2>1. /\ call.pc = "login" /\ ~call.registers
        /\ \A s \in Store : call.got[s] = Blank
    BY DEF NoCall
  <2>2. params' = params /\ base # NoBase
    BY <1>1, <1>2 DEF Unlock, Inv, VaultInv
  <2>3. Inv(call)
    <3>. HIDE DEF call
    <3>1. SessionInv(call) /\ RestInv(call)
      BY <1>1, <2>1, <2>2 DEF Inv, SessionInv, RestInv
    <3>2. CallInv(call)
      BY <2>1, <2>2 DEF CallInv, RegisterInv, LoginInv, RecryptInv, EndInv,
         Registering, Mine, Rotating
    <3>. QED
      BY <1>1, <3>1, <3>2 DEF Inv
  <2>4. UNCHANGED <<stored, session, code, written, wiped>> /\ gens' = gens
    BY <1>2, <2>2 DEF Unlock, stored, ghost
  <2>. QED
    BY <1>2, <2>3, <2>4, Quiet DEF Unlock
<1>3. CASE Register(w, p)
  <2> DEFINE call == [NoCall EXCEPT !.pc = "register", !.phrase = p, !.registers = TRUE]
  <2>1. call.pc = "register" /\ \A s \in Store : call.got[s] = Blank
    BY DEF NoCall
  <2>2. win'[w] = call
    BY <1>3 DEF Register, TypeOK
  <2>3. base' = NoBase /\ base = NoBase /\ params' = code
        /\ UNCHANGED <<stores, session, code, written, wiped, gens>>
    BY <1>3 DEF Register, ghost
  <2>. HIDE DEF call
  <2>4. VaultInv'
    BY <1>1, <2>3 DEF Inv, VaultInv, NothingOrphaned, RecryptKeepsData
  <2>5. SessionInv(win[w])' /\ RestInv(win[w])'
    BY <1>1, <2>3 DEF SessionInv, RestInv
  <2>6. CallInv(win[w])'
    BY <2>1, <2>2, <2>3 DEF CallInv, RegisterInv, LoginInv, RecryptInv, EndInv,
       Registering, Mine, Rotating
  <2>. QED
    BY <2>4, <2>5, <2>6, Lone DEF RotInv, Inv
<1>. QED
  BY <1>2, <1>3

(* Up to the first base: what cannot happen, and the entropy that is drawn.  *)
LEMMA Draws ==
  ASSUME TypeOK, Calm, RotInv, NEW w \in Window,
         RegisterFails(w) \/ RegisterReads(w) \/ Draw(w)
  PROVE  RotInv'
<1>1. Inv(win[w]) /\ win[w] \in Call
  BY DEF RotInv, TypeOK
<1>2. ~RegisterFails(w)
  BY <1>1 DEF RegisterFails, At, SaltMissing, Inv, CallInv, RegisterInv, Registering
<1>3. CASE RegisterReads(w)
  <2> DEFINE call == [win[w] EXCEPT !.pc = "draw"]
  <2>1. /\ call.pc = "draw" /\ call.got = win[w].got /\ win[w].pc = "register"
        /\ win' = [win EXCEPT ![w] = call]
    BY <1>1, <1>3 DEF RegisterReads, Goto, At, Call, TypeOK
  <2>2. UNCHANGED <<stored, session, code, written, wiped>> /\ gens' = gens
    BY <1>3 DEF RegisterReads, ghost
  <2>. HIDE DEF call
  <2>3. SessionInv(call) /\ RestInv(call)
    BY <1>1, <2>1 DEF Inv, SessionInv, RestInv
  <2>4. CallInv(call)
    BY <1>1, <2>1 DEF Inv, CallInv, RegisterInv, LoginInv, RecryptInv, EndInv,
       Registering, Before, Mine, Rotating
  <2>. QED
    BY <1>1, <2>1, <2>2, <2>3, <2>4, Quiet DEF Inv
<1>4. CASE Draw(w)
  <2>1. PICK n \in Nonce :
          win' = [win EXCEPT ![w].pc = "sign",
                             ![w].new = [gen |-> gens + 1,
                                         phrase |-> win[w].phrase,
                                         nonce |-> NextNonce(n),
                                         params |-> code, salt |-> 0]]
    BY <1>4 DEF Draw
  <2> DEFINE k == [gen |-> gens + 1, phrase |-> win[w].phrase,
                   nonce |-> NextNonce(n), params |-> code, salt |-> 0]
             call == [win[w] EXCEPT !.pc = "sign", !.new = k]
  <2>2. k.gen > wiped /\ k.params = code /\ k.phrase = win[w].phrase
    BY <1>1 DEF Inv, VaultInv, TypeOK
  <2>3. win' = [win EXCEPT ![w] = call]
    BY <2>1 DEF TypeOK
  <2>. HIDE DEF k
  <2>4. /\ call.pc = "sign" /\ call.got = win[w].got /\ win[w].pc = "draw"
        /\ call.new = k /\ call.phrase = win[w].phrase
    BY <1>1, <1>4 DEF Draw, At, Call
  <2>5. UNCHANGED <<stored, session, code, written, wiped>> /\ gens' = gens + 1
    BY <1>4 DEF Draw
  <2>. HIDE DEF call
  <2>6. SessionInv(call) /\ RestInv(call)
    BY <1>1, <2>4 DEF Inv, SessionInv, RestInv
  <2>7. CallInv(call)
    BY <1>1, <2>2, <2>4 DEF Inv, CallInv, RegisterInv, LoginInv, RecryptInv, EndInv,
       Registering, Before, Mine, Rotating
  <2>. QED
    BY <1>1, <2>3, <2>5, <2>6, <2>7, Quiet DEF Inv
<1>. QED
  BY <1>2, <1>3, <1>4

(* The base of a registration is signed under a salt of its own, and stored. *)
LEMMA Founds ==
  ASSUME TypeOK, Calm, RotInv, NEW w \in Window,
         \/ At(w, "sign") /\ Sign(w, "save")
         \/ At(w, "save") /\ SaveBase(w, "login")
  PROVE  RotInv'
<1>1. Inv(win[w]) /\ win[w] \in Call /\ win[w].new \in Key
  BY DEF RotInv, TypeOK, Call
<1>2. base = NoBase /\ session = NoKey /\ params = code /\ code # 0
      /\ win[w].new.gen > wiped /\ win[w].new.params = code
      /\ win[w].new.phrase = win[w].phrase
      /\ \A s \in Store : win[w].got[s] = Blank /\ stores[s] = Blank
  BY <1>1 DEF Inv, VaultInv, NothingOrphaned, SessionInv, CallInv, RegisterInv, LoginInv,
     Registering, Before, At, TypeOK
<1>3. CASE At(w, "sign") /\ Sign(w, "save")
  <2> DEFINE sig == Salted(win[w].new, salt')
             call == [win[w] EXCEPT !.pc = "save", !.sig = sig]
  <2>1. salt' # 0 /\ win'[w] = call
    BY <1>2, <1>3 DEF Sign, TakeSalt, TypeOK
  <2>2. UNCHANGED <<base, params, stores, session, code, written, wiped, gens>>
    BY <1>3 DEF Sign
  <2>. HIDE DEF sig
  <2>3. /\ call.pc = "save" /\ call.got = win[w].got /\ call.new = win[w].new
        /\ call.phrase = win[w].phrase /\ call.sig = sig
    BY <1>1 DEF Call
  <2>. HIDE DEF call
  <2>4. VaultInv'
    BY <1>1, <1>2, <2>2 DEF Inv, VaultInv, NothingOrphaned, RecryptKeepsData
  <2>5. SessionInv(win[w])' /\ RestInv(win[w])'
    BY <1>2, <2>2 DEF SessionInv, RestInv
  <2>6. RegisterInv(win[w])'
    BY <1>2, <2>1, <2>2, <2>3 DEF RegisterInv, sig, Salted
  <2>7. LoginInv(win[w])' /\ RecryptInv(win[w])' /\ EndInv(win[w])'
    BY <1>2, <2>1, <2>2, <2>3 DEF LoginInv, RecryptInv, EndInv, Registering, Mine, Rotating
  <2>. QED
    BY <2>4, <2>5, <2>6, <2>7, Lone DEF RotInv, Inv, CallInv
<1>4. CASE At(w, "save") /\ SaveBase(w, "login")
  <2> DEFINE call == [win[w] EXCEPT !.pc = "login"]
             new == win[w].new
  <2>1. /\ win'[w] = call
        /\ base' = [gen |-> new.gen, nonce |-> new.nonce, sig |-> Salted(new, salt)]
        /\ salt # 0
    BY <1>1, <1>4 DEF SaveBase, Goto, At, Inv, CallInv, RegisterInv, TypeOK
  <2>2. UNCHANGED <<salt, params, stores, session, code, written, wiped, gens>>
    BY <1>4 DEF SaveBase, ghost
  <2>3. call.pc = "login" /\ call.got = win[w].got /\ call.phrase = win[w].phrase
    BY <1>1 DEF Call
  <2>4. /\ base'.gen = new.gen /\ base'.nonce = new.nonce
        /\ base'.sig.gen = new.gen /\ base'.sig.phrase = new.phrase
        /\ base'.sig.nonce = new.nonce /\ base'.sig.params = new.params
        /\ base'.sig.salt = salt
    BY <1>1, <2>1 DEF Salted, Key
  <2>. HIDE DEF call, new
  <2>5. base' # NoBase
    BY <1>2, <2>4 DEF NoBase, TypeOK, new
  <2>6. VaultInv'
    BY <1>1, <1>2, <2>1, <2>2, <2>4, <2>5 DEF Inv, VaultInv, NothingOrphaned, RecryptKeepsData, new
  <2>7. SessionInv(win[w])' /\ RestInv(win[w])'
    <3>1. TypeOK'
      BY <1>4, SaveBaseType DEF Step
    <3>2. (base.sig = OldKey)'
      BY <1>2, <2>2, <2>4, <3>1, SignedOld DEF new
    <3>. QED
      BY <1>2, <2>2, <3>2 DEF SessionInv, RestInv, AllUnder
  <2>8. CallInv(win[w])'
    BY <1>2, <2>1, <2>2, <2>3, <2>4, <2>5 DEF new, CallInv, RegisterInv, LoginInv,
       RecryptInv, EndInv, Registering, Mine, Rotating
  <2>. QED
    BY <2>6, <2>7, <2>8, Lone DEF RotInv, Inv
<1>. QED
  BY <1>3, <1>4

(* login() reads the base that is there and derives the two keys from it; it
   throws neither for want of a salt nor for want of parameters.             *)
LEMMA Derives ==
  ASSUME TypeOK, Calm, RotInv, NEW w \in Window,
         LoginReads(w) \/ Derive(w) \/ LoginBreaks(w)
  PROVE  RotInv'
<1>1. Inv(win[w]) /\ win[w] \in Call
  BY DEF RotInv, TypeOK
<1>2. ~LoginBreaks(w)
  BY <1>1 DEF LoginBreaks, At, SaltMissing, Inv, VaultInv, CallInv, LoginInv, Registering
<1>3. CASE LoginReads(w)
  <2> DEFINE call == [win[w] EXCEPT !.pc = "derive", !.mine = base]
  <2>1. /\ win[w].pc = "login" /\ base # NoBase
        /\ win' = [win EXCEPT ![w] = call]
        /\ UNCHANGED <<stored, session, code, written, wiped, gens>>
    BY <1>1, <1>3 DEF LoginReads, At, Inv, CallInv, LoginInv, Registering, TypeOK, ghost, stored
  <2>2. /\ call.pc = "derive" /\ call.got = win[w].got /\ call.mine = base
        /\ call.phrase = win[w].phrase /\ call.registers = win[w].registers
    BY <1>1 DEF Call
  <2>. HIDE DEF call
  <2>3. SessionInv(call) /\ RestInv(call)
    BY <1>1, <2>1, <2>2 DEF Inv, SessionInv, RestInv
  <2>4. CallInv(call)
    BY <1>1, <2>1, <2>2 DEF Inv, CallInv, RegisterInv, LoginInv, RecryptInv, EndInv,
       Registering, Before, Mine, Rotating
  <2>. QED
    BY <1>1, <2>1, <2>3, <2>4, Quiet DEF Inv
<1>4. CASE Derive(w)
  <2> DEFINE n == base.nonce
             old == DerivedKey(w, n, params)
             new == DerivedKey(w, NextNonce(n), code)
             call == [win[w] EXCEPT !.pc = "verify", !.old = old, !.new = new]
  <2>1. /\ win[w].pc = "derive" /\ base # NoBase /\ win[w].mine = base
        /\ UNCHANGED <<stored, session, code, written, wiped, gens>>
    BY <1>1, <1>4 DEF Derive, At, Inv, CallInv, LoginInv, Registering, Mine, ghost
  <2>2. win' = [win EXCEPT ![w] = call]
    BY <1>4, <2>1 DEF Derive, TypeOK
  <2>3. old \in Key /\ new \in Key
    <3>1. /\ n \in Nonce /\ base.gen \in 0..MaxGen /\ win[w].phrase \in Phrase
          /\ params \in 0..MaxCode /\ code \in 0..MaxCode /\ 0 \in 0..MaxSalt
      BY <1>1, CodeType, Bounds DEF TypeOK, Base, Call
    <3>. QED
      BY <2>1, <3>1, NextNonceType DEF DerivedKey, Key
  <2>4. old = TypedBy(win[w].phrase, OldKey) /\ new = TypedBy(win[w].phrase, NewKey)
    <3>1. win[w].phrase \in Phrase
      BY <1>1 DEF Call
    <3>2. /\ old.gen = base.gen /\ old.phrase = win[w].phrase /\ old.nonce = n
          /\ old.params = params /\ old.salt = 0
          /\ new.gen = base.gen /\ new.phrase = win[w].phrase
          /\ new.nonce = NextNonce(n) /\ new.params = code /\ new.salt = 0
      BY <2>1 DEF DerivedKey
    <3>. HIDE DEF old, new
    <3>. QED
      BY <2>3, <3>1, <3>2, NextKeys, TypedKey, SameKey
  <2>. HIDE DEF old, new
  <2>5. /\ call.pc = "verify" /\ call.got = win[w].got /\ call.mine = base
        /\ call.phrase = win[w].phrase /\ call.registers = win[w].registers
        /\ call.old = old /\ call.new = new
    BY <1>1, <2>1 DEF Call
  <2>. HIDE DEF call
  <2>6. SessionInv(call) /\ RestInv(call)
    BY <1>1, <2>1, <2>5 DEF Inv, SessionInv, RestInv
  <2>7. CallInv(call)
    <3>1. RegisterInv(call) /\ RecryptInv(call) /\ EndInv(call)
      BY <2>5 DEF RegisterInv, RecryptInv, EndInv, Registering, Rotating
    <3>2. LoginInv(call)
      BY <1>1, <2>1, <2>4, <2>5 DEF Inv, CallInv, LoginInv, Registering, Before, Mine
    <3>. QED
      BY <3>1, <3>2 DEF CallInv
  <2>. QED
    BY <1>1, <2>1, <2>2, <2>6, <2>7, Quiet DEF Inv
<1>. QED
  BY <1>2, <1>3, <1>4

(* verifyRootKey() accepts exactly the passphrase of the base, by the old key. *)
LEMMA VerifiedRightly ==
  ASSUME TypeOK, RotInv, NEW w \in Window, At(w, "verify")
  PROVE  /\ base # NoBase
         /\ Verified(w, salt) <=> win[w].phrase = base.sig.phrase
<1>1. Inv(win[w]) /\ win[w] \in Call
  BY DEF RotInv, TypeOK
<1>2. /\ base # NoBase /\ base.sig = OldKey /\ win[w].mine = base
      /\ win[w].old = TypedBy(win[w].phrase, OldKey) /\ win[w].new = TypedBy(win[w].phrase, NewKey)
  BY <1>1 DEF Inv, RestInv, CallInv, LoginInv, Registering, Mine, At
<1>3. win[w].old \in Key /\ win[w].new \in Key /\ salt \in 0..MaxSalt
  BY <1>1 DEF Call, TypeOK
<1>4. OldKey \in Key /\ NewKey \in Key /\ OldKey.salt = salt /\ NewKey.nonce # OldKey.nonce
      /\ OldKey.phrase = base.sig.phrase
  BY NextKeys
<1>5. Salted(win[w].new, salt).nonce = NewKey.nonce
  BY <1>1, <1>2, <1>3, <1>4, TypedKey, SaltedKey DEF Call
<1>6. /\ Salted(win[w].old, salt) \in Key /\ Salted(win[w].old, salt).phrase = win[w].phrase
      /\ Salted(win[w].old, salt).gen = OldKey.gen
      /\ Salted(win[w].old, salt).nonce = OldKey.nonce
      /\ Salted(win[w].old, salt).params = OldKey.params
      /\ Salted(win[w].old, salt).salt = salt
  BY <1>1, <1>2, <1>3, <1>4, TypedKey, SaltedKey DEF Call
<1>7. win[w].phrase = base.sig.phrase => Salted(win[w].old, salt) = OldKey
  BY <1>4, <1>6, SameKey
<1>. QED
  BY <1>2, <1>4, <1>5, <1>6, <1>7 DEF Verified

(* A login with another passphrase ends; the check of a registration succeeds. *)
LEMMA Verifies ==
  ASSUME TypeOK, Calm, RotInv, NEW w \in Window, Verify(w)
  PROVE  RotInv'
<1>1. Inv(win[w]) /\ win[w] \in Call /\ win[w].pc = "verify"
  BY DEF RotInv, TypeOK, Verify, At
<1>2. base # NoBase /\ (Verified(w, salt) <=> win[w].phrase = base.sig.phrase)
  BY <1>1, VerifiedRightly DEF At
<1>3. salt' = salt /\ UNCHANGED <<params, stores, session, code, written, wiped, gens>>
  BY <1>2 DEF Verify, TakeSalt
<1>4. CASE Verified(w, salt)
  <2> DEFINE call == [win[w] EXCEPT !.pc = "list"]
  <2>1. win' = [win EXCEPT ![w] = call] /\ UNCHANGED <<stored, session, code, written, wiped, gens>>
    BY <1>3, <1>4 DEF Verify, Goto, TypeOK, stored
  <2>2. /\ call.pc = "list" /\ call.got = win[w].got /\ call.mine = win[w].mine
        /\ call.phrase = win[w].phrase /\ call.old = win[w].old /\ call.new = win[w].new
    BY <1>1 DEF Call
  <2>. HIDE DEF call
  <2>3. SessionInv(call) /\ RestInv(call)
    BY <1>1, <2>2 DEF Inv, SessionInv, RestInv
  <2>4. CallInv(call)
    <3>1. RegisterInv(call) /\ RecryptInv(call) /\ EndInv(call)
      BY <2>2 DEF RegisterInv, RecryptInv, EndInv, Registering, Rotating
    <3>2. LoginInv(call)
      BY <1>1, <1>2, <1>4, <2>2 DEF Inv, CallInv, LoginInv, Registering, Before, Mine
    <3>. QED
      BY <3>1, <3>2 DEF CallInv
  <2>. QED
    BY <1>1, <2>1, <2>3, <2>4, Quiet DEF Inv
<1>5. CASE ~Verified(w, salt)
  <2>1. ~win[w].registers
    BY <1>1, <1>2, <1>5 DEF Inv, CallInv, LoginInv
  <2>2. /\ win' = [win EXCEPT ![w] = NoCall]
        /\ UNCHANGED <<stored, session, code, written, wiped, gens>>
    BY <1>3, <1>5, <2>1 DEF Verify, LoginFails, Report, stored
  <2>. QED
    BY <1>1, <2>2, Closes DEF At
<1>. QED
  BY <1>4, <1>5

(* recryptAll() begins with the keys of the next login and all stores to do. *)
LEMMA Lists ==
  ASSUME TypeOK, Calm, RotInv, NEW w \in Window, List(w)
  PROVE  RotInv'
<1>1. Inv(win[w]) /\ win[w] \in Call /\ win[w].pc = "list"
  BY DEF RotInv, TypeOK, List, At
<1>2. /\ base # NoBase /\ win[w].mine = base /\ win[w].phrase = base.sig.phrase
      /\ win[w].old = TypedBy(win[w].phrase, OldKey)
      /\ win[w].new = TypedBy(win[w].phrase, NewKey)
      /\ \A s \in Store : win[w].got[s] = Blank
  BY <1>1 DEF Inv, CallInv, LoginInv, Registering, Before, Mine
<1>3. salt' = salt /\ UNCHANGED <<stored, session, code, written, wiped, gens>>
  BY <1>2 DEF List, TakeSalt, stored
<1>4. Salted(win[w].old, salt) = OldKey /\ Salted(win[w].new, salt) = NewKey
  <2>1. salt \in 0..MaxSalt /\ win[w].phrase \in Phrase
    BY <1>1 DEF TypeOK, Call
  <2>. QED
    BY <1>2, <2>1, NextKeys, TypedKey, SaltedKey, SameKey
<1> DEFINE call == [win[w] EXCEPT !.pc = "recrypt", !.old = OldKey, !.new = NewKey,
                                  !.todo = {s \in Store : stores[s] # Blank}]
<1>5. win' = [win EXCEPT ![w] = call]
  BY <1>3, <1>4 DEF List, TypeOK
<1>6. /\ call.pc = "recrypt" /\ call.got = win[w].got /\ call.mine = base
      /\ call.old = OldKey /\ call.new = NewKey
      /\ \A s \in Store : s \in call.todo \/ stores[s] = Blank
  BY <1>1, <1>2 DEF Call
<1>. HIDE DEF call
<1>7. SessionInv(call) /\ RestInv(call)
  BY <1>1, <1>6 DEF Inv, SessionInv, RestInv
<1>8. CallInv(call)
  BY <1>2, <1>6 DEF CallInv, RegisterInv, LoginInv, RecryptInv, EndInv, Registering,
     Before, Mine, Rotating
<1>. QED
  BY <1>1, <1>3, <1>5, <1>7, <1>8, Quiet DEF Inv

-----------------------------------------------------------------------------
(* What a rotation has read of a store is what is stored, under one of the two
   keys it has derived.                                                      *)
LEMMA Readable ==
  ASSUME TypeOK, RotInv, NEW w \in Window, NEW s \in Store,
         At(w, "recrypt"), win[w].got[s] # Blank
  PROVE  /\ win[w].got[s] = stores[s] /\ stores[s] # Blank
         /\ Decrypts(w, s)
<1>1. Inv(win[w]) /\ win[w].pc = "recrypt"
  BY DEF RotInv, At
<1>2. /\ base # NoBase /\ win[w].old = OldKey /\ win[w].new = NewKey
      /\ win[w].got[s] = stores[s]
  BY <1>1 DEF Inv, CallInv, LoginInv, RecryptInv, Registering, Rotating
<1>3. stores[s].key \in {OldKey, NewKey}
  BY <1>1, <1>2 DEF Inv, RestInv, AllUnder
<1>. QED
  BY <1>2, <1>3 DEF Decrypts

(* recryptAll() reads a store; it never fails.                               *)
LEMMA Reads ==
  ASSUME TypeOK, Calm, RotInv, NEW w \in Window, NEW s \in Store,
         RecryptRead(w, s) \/ RecryptFails(w, s)
  PROVE  RotInv'
<1>1. Inv(win[w]) /\ win[w] \in Call
  BY DEF RotInv, TypeOK
<1>2. ~RecryptFails(w, s)
  BY Readable DEF RecryptFails
<1>3. /\ win[w].pc = "recrypt" /\ base # NoBase
      /\ UNCHANGED <<stored, session, code, written, wiped, gens>>
  BY <1>1, <1>2 DEF RecryptRead, At, ghost, Inv, CallInv, LoginInv, Registering
<1>4. CASE stores[s] = Blank
  <2> DEFINE call == [win[w] EXCEPT !.todo = @ \ {s}]
  <2>1. win' = [win EXCEPT ![w] = call]
    BY <1>2, <1>4 DEF RecryptRead, TypeOK
  <2>2. /\ call.pc = "recrypt" /\ call.got = win[w].got /\ call.mine = win[w].mine
        /\ call.old = win[w].old /\ call.new = win[w].new
        /\ call.todo = win[w].todo \ {s}
    BY <1>1, <1>3 DEF Call
  <2>. HIDE DEF call
  <2>3. SessionInv(call) /\ RestInv(call)
    BY <1>1, <1>3, <2>2 DEF Inv, SessionInv, RestInv
  <2>4. CallInv(call)
    BY <1>1, <1>3, <1>4, <2>2 DEF Inv, CallInv, RegisterInv, LoginInv, RecryptInv, EndInv,
       Registering, Before, Mine, Rotating
  <2>. QED
    BY <1>1, <1>3, <2>1, <2>3, <2>4, Quiet DEF Inv
<1>5. CASE stores[s] # Blank
  <2> DEFINE call == [win[w] EXCEPT !.got[s] = stores[s]]
  <2>1. win' = [win EXCEPT ![w] = call]
    <3>1. win' = [win EXCEPT ![w].got[s] = stores[s]]
      BY <1>2, <1>5 DEF RecryptRead
    <3>. QED
      BY <3>1 DEF TypeOK
  <2>2. /\ call.pc = "recrypt" /\ call.mine = win[w].mine
        /\ call.old = win[w].old /\ call.new = win[w].new /\ call.todo = win[w].todo
        /\ \A x \in Store : call.got[x] = IF x = s THEN stores[s] ELSE win[w].got[x]
    BY <1>1, <1>3 DEF Call
  <2>. HIDE DEF call
  <2>3. SessionInv(call) /\ RestInv(call)
    BY <1>1, <1>3, <2>2 DEF Inv, SessionInv, RestInv
  <2>4. CallInv(call)
    BY <1>1, <1>3, <2>2 DEF Inv, CallInv, RegisterInv, LoginInv, RecryptInv, EndInv,
       Registering, Before, Mine, Rotating
  <2>. QED
    BY <1>1, <1>3, <2>1, <2>3, <2>4, Quiet DEF Inv
<1>. QED
  BY <1>4, <1>5

(* recryptAll() writes what it read, under the new key.                      *)
LEMMA Writes ==
  ASSUME TypeOK, Calm, RotInv, NEW w \in Window, NEW s \in Store, RecryptWrite(w, s)
  PROVE  RotInv'
<1>1. Inv(win[w]) /\ win[w] \in Call
  BY DEF RotInv, TypeOK
<1>2. win[w].pc = "recrypt" /\ win[w].got[s] = stores[s] /\ stores[s] # Blank
  BY <1>1, Readable DEF RecryptWrite, At, Inv, CallInv, LoginInv
<1>3. /\ base # NoBase /\ session = NoKey /\ win[w].mine = base
      /\ win[w].old = OldKey /\ win[w].new = NewKey
  BY <1>1, <1>2 DEF Inv, SessionInv, CallInv, LoginInv, RecryptInv, Registering,
     Mine, Rotating
<1>4. /\ UNCHANGED <<base, salt, params, session, code, written, wiped, gens>>
      /\ UNCHANGED <<OldKey, NewKey>>
  BY DEF RecryptWrite, ghost, OldKey, NewKey
<1>5. \A x \in Store : stores'[x] = IF x = s THEN [key |-> NewKey, data |-> stores[s].data]
                                             ELSE stores[x]
  BY <1>2, <1>3 DEF RecryptWrite, TypeOK
<1>6. /\ win'[w].pc = "recrypt" /\ win'[w].mine = base
      /\ win'[w].old = OldKey /\ win'[w].new = NewKey
      /\ win'[w].todo = win[w].todo \ {s}
      /\ \A x \in Store : win'[w].got[x] = IF x = s THEN Blank ELSE win[w].got[x]
  <2> DEFINE call == [win[w] EXCEPT !.todo = @ \ {s}, !.got[s] = Blank]
  <2>1. win' = [win EXCEPT ![w] = call]
    <3>1. win' = [win EXCEPT ![w].todo = @ \ {s}, ![w].got[s] = Blank]
      BY DEF RecryptWrite
    <3>. QED
      BY <3>1 DEF TypeOK
  <2>2. /\ call.pc = "recrypt" /\ call.mine = base
        /\ call.old = OldKey /\ call.new = NewKey /\ call.todo = win[w].todo \ {s}
        /\ \A x \in Store : call.got[x] = IF x = s THEN Blank ELSE win[w].got[x]
    BY <1>1, <1>2, <1>3 DEF Call
  <2>. HIDE DEF call
  <2>3. win'[w] = call
    BY <2>1 DEF TypeOK
  <2>. QED
    BY <2>2, <2>3
<1>7. VaultInv'
  BY <1>1, <1>2, <1>3, <1>4, <1>5 DEF Inv, VaultInv, NothingOrphaned, RecryptKeepsData
<1>8. SessionInv(win[w])' /\ RestInv(win[w])'
  BY <1>1, <1>2, <1>3, <1>4, <1>5 DEF Inv, SessionInv, RestInv, AllUnder
<1>9. CallInv(win[w])'
  <2>1. RecryptInv(win[w])'
    BY <1>1, <1>2, <1>3, <1>4, <1>5, <1>6 DEF Inv, CallInv, RecryptInv, Rotating
  <2>2. RegisterInv(win[w])' /\ LoginInv(win[w])' /\ EndInv(win[w])'
    BY <1>3, <1>4, <1>6 DEF RegisterInv, LoginInv, EndInv, Registering, Before, Mine, Rotating
  <2>. QED
    BY <2>1, <2>2 DEF CallInv
<1>. QED
  BY <1>7, <1>8, <1>9, Lone DEF RotInv, Inv

(* When all stores are under the new key, the new base is signed with it ... *)
LEMMA Resigns ==
  ASSUME TypeOK, Calm, RotInv, NEW w \in Window,
         At(w, "recrypt"), Recrypted(w), Sign(w, "rebase")
  PROVE  RotInv'
<1>1. Inv(win[w]) /\ win[w] \in Call /\ win[w].pc = "recrypt"
  BY DEF RotInv, TypeOK, At
<1>2. /\ base # NoBase /\ win[w].mine = base
      /\ win[w].old = OldKey /\ win[w].new = NewKey
      /\ \A s \in Store : stores[s] # Blank => stores[s].key = NewKey
  BY <1>1 DEF Inv, CallInv, LoginInv, RecryptInv, Registering, Mine, Rotating, Recrypted
<1>3. salt' = salt /\ UNCHANGED <<stored, session, code, written, wiped, gens>>
  BY <1>2 DEF Sign, TakeSalt, stored
<1>4. Salted(NewKey, salt) = NewKey
  <2>1. salt \in 0..MaxSalt
    BY DEF TypeOK
  <2>. QED
    BY <2>1, NextKeys, SaltedKey, SameKey
<1> DEFINE call == [win[w] EXCEPT !.pc = "rebase", !.sig = NewKey]
<1>5. win' = [win EXCEPT ![w] = call]
  BY <1>2, <1>3, <1>4 DEF Sign, TypeOK
<1>6. /\ call.pc = "rebase" /\ call.mine = win[w].mine /\ call.sig = NewKey
      /\ call.old = win[w].old /\ call.new = win[w].new
  BY <1>1 DEF Call
<1>. HIDE DEF call
<1>7. SessionInv(call) /\ RestInv(call)
  BY <1>1, <1>6 DEF Inv, SessionInv, RestInv
<1>8. CallInv(call)
  BY <1>2, <1>6 DEF CallInv, RegisterInv, LoginInv, RecryptInv, EndInv, AllUnder,
     Registering, Before, Mine, Rotating
<1>. QED
  BY <1>1, <1>3, <1>5, <1>7, <1>8, Quiet DEF Inv

(* ... and stored, in one write.                                             *)
LEMMA Rebases ==
  ASSUME TypeOK, Calm, RotInv, NEW w \in Window, At(w, "rebase"), SaveBase(w, "reparam")
  PROVE  RotInv'
<1>1. Inv(win[w]) /\ win[w] \in Call /\ win[w].pc = "rebase"
  BY DEF RotInv, TypeOK, At
<1>2. /\ base # NoBase /\ session = NoKey
      /\ win[w].old = OldKey /\ win[w].new = NewKey /\ win[w].sig = NewKey
      /\ AllUnder({NewKey})
  BY <1>1 DEF Inv, SessionInv, CallInv, LoginInv, RecryptInv, Registering, Rotating
<1>3. /\ base' = [gen |-> NewKey.gen, nonce |-> NewKey.nonce, sig |-> NewKey]
      /\ UNCHANGED <<salt, params, stores, session, code, written, wiped, gens>>
  BY <1>2 DEF SaveBase, ghost
<1>4. /\ win'[w].pc = "reparam" /\ win'[w].old = OldKey /\ win'[w].new = NewKey
  <2> DEFINE call == [win[w] EXCEPT !.pc = "reparam"]
  <2>1. win'[w] = call
    BY DEF SaveBase, Goto, TypeOK
  <2>2. call.pc = "reparam" /\ call.old = OldKey /\ call.new = NewKey
    BY <1>1, <1>2 DEF Call
  <2>. HIDE DEF call
  <2>. QED
    BY <2>1, <2>2
<1>5. /\ base'.gen = base.gen /\ base'.sig = NewKey /\ base'.nonce = NewKey.nonce
      /\ NewKey.gen = base.gen /\ NewKey.salt = salt /\ NewKey.params = code
      /\ OldKey.params = params
  BY <1>3, NextKeys
<1>6. base.gen > wiped /\ salt # 0 /\ params # 0 /\ base.gen > 0
  <2>1. base.gen \in 0..MaxGen /\ wiped \in 0..MaxGen
    BY DEF TypeOK, Base
  <2>2. base.gen > wiped /\ salt # 0 /\ params # 0
    BY <1>1, <1>2 DEF Inv, VaultInv
  <2>. QED
    BY <2>1, <2>2, Bounds
<1>7. base' # NoBase
  BY <1>5, <1>6 DEF NoBase
<1>8. VaultInv'
  BY <1>1, <1>3, <1>5, <1>6, <1>7 DEF Inv, VaultInv, NothingOrphaned, RecryptKeepsData
<1>9. SessionInv(win[w])' /\ RestInv(win[w])'
  BY <1>2, <1>3, <1>4 DEF SessionInv, RestInv
<1>10. EndInv(win[w])'
  BY <1>2, <1>3, <1>4, <1>5 DEF EndInv, Whole, AllUnder
<1>11. RegisterInv(win[w])' /\ LoginInv(win[w])' /\ RecryptInv(win[w])'
  BY <1>4, <1>7 DEF RegisterInv, LoginInv, RecryptInv, Registering, Before, Mine, Rotating
<1>. QED
  BY <1>8, <1>9, <1>10, <1>11, Lone DEF RotInv, Inv, CallInv

(* The parameters of the new key are stored, and the session opens.          *)
LEMMA Finishes ==
  ASSUME TypeOK, Calm, RotInv, NEW w \in Window, Reparam(w) \/ Open(w)
  PROVE  RotInv'
<1>1. Inv(win[w]) /\ win[w] \in Call /\ win[w].pc \in {"reparam", "open"}
  BY DEF RotInv, TypeOK, Reparam, Open, At
<1>2. base # NoBase /\ session = NoKey /\ base.sig = win[w].new /\ Whole
  BY <1>1 DEF Inv, SessionInv, CallInv, LoginInv, EndInv, Registering
<1>3. UNCHANGED <<base, salt, stores, code, written, wiped, gens>>
  BY DEF Reparam, Open, stored, ghost
<1>4. code # 0 /\ Whole'
  BY <1>2, <1>3 DEF TypeOK, Whole
<1>5. CASE Reparam(w)
  <2>1. params' = code /\ session' = session
    BY <1>1, <1>5 DEF Reparam, At, Inv, CallInv, EndInv
  <2>2. win'[w].pc = "open" /\ win'[w].new = win[w].new
    <3> DEFINE call == [win[w] EXCEPT !.pc = "open"]
    <3>1. win'[w] = call
      BY <1>5 DEF Reparam, Goto, TypeOK
    <3>2. call.pc = "open" /\ call.new = win[w].new
      BY <1>1 DEF Call
    <3>. HIDE DEF call
    <3>. QED
      BY <3>1, <3>2
  <2>3. VaultInv'
    BY <1>1, <1>2, <1>3, <1>4, <2>1 DEF Inv, VaultInv, NothingOrphaned, RecryptKeepsData
  <2>4. (base.sig = OldKey)'
    <3>1. TypeOK'
      BY <1>5, EndType
    <3>2. /\ base'.sig.gen = base'.gen /\ base'.sig.nonce = base'.nonce
          /\ base'.sig.params = params' /\ base'.sig.salt = salt'
      BY <1>1, <1>2, <1>3, <1>5, <2>1 DEF Inv, VaultInv, CallInv, EndInv, Reparam, At
    <3>. QED
      BY <3>1, <3>2, SignedOld
  <2>5. SessionInv(win[w])' /\ RestInv(win[w])'
    BY <1>2, <1>4, <2>1, <2>4 DEF SessionInv, RestInv, AllUnder, Whole
  <2>6. CallInv(win[w])'
    BY <1>2, <1>3, <1>4, <2>2 DEF CallInv, RegisterInv, LoginInv, RecryptInv, EndInv,
       Registering, Before, Mine, Rotating
  <2>. QED
    BY <2>3, <2>5, <2>6, Lone DEF RotInv, Inv
<1>6. CASE Open(w)
  <2>1. /\ params' = params /\ session' = base.sig /\ win'[w] = NoCall
        /\ UNCHANGED <<OldKey, NewKey>>
    BY <1>2, <1>3, <1>6 DEF Open, Report, stored, TypeOK, OldKey, NewKey
  <2>2. VaultInv'
    BY <1>1, <1>3, <2>1 DEF Inv, VaultInv, NothingOrphaned, RecryptKeepsData
  <2>3. RestInv(win[w])'
    BY <1>1, <1>3, <1>6, <2>1 DEF Inv, RestInv, AllUnder, Open, At
  <2>4. win'[w].pc = "idle" /\ \A s \in Store : win'[w].got[s] = Blank
    BY <2>1 DEF NoCall
  <2>5. SessionInv(win[w])'
    BY <1>3, <1>4, <2>1, <2>4 DEF SessionInv
  <2>. QED
    BY <2>2, <2>3, <2>4, <2>5, CallOver, Lone DEF RotInv, Inv
<1>. QED
  BY <1>5, <1>6

-----------------------------------------------------------------------------
(* What is not a login: saves, logouts, closed windows, updates and resets.  *)
LEMMA Elsewise ==
  ASSUME TypeOK, Calm, RotInv, NEW w \in Window,
         \/ \E s \in Store : Save(s)
         \/ Crash(w) \/ Logout \/ Upgrade \/ ResetSession \/ ResetStorage
  PROVE  RotInv'
<1>1. Inv(win[w]) /\ win[w] \in Call
  BY DEF RotInv, TypeOK
<1>2. ASSUME NEW s \in Store, Save(s) PROVE RotInv'
  <2>1. /\ base # NoBase /\ session = base.sig /\ win[w].pc = "idle" /\ Whole
        /\ UNCHANGED <<base, salt, params, session, code, win, wiped, gens>>
    BY <1>1, <1>2 DEF Save, Inv, SessionInv
  <2>2. SessionKey = base.sig
    <3>1. base.sig \in Key /\ salt \in 0..MaxSalt /\ base.sig.salt = salt
      BY <1>1, <2>1 DEF TypeOK, Base, Inv, VaultInv
    <3>. QED
      BY <2>1, <3>1, SaltedKey, SameKey DEF SessionKey
  <2>3. \A x \in Store :
          /\ stores'[x] = IF x = s THEN [key |-> base.sig, data |-> writes + 1] ELSE stores[x]
          /\ written'[x] = IF x = s THEN writes + 1 ELSE written[x]
    BY <1>2, <2>2 DEF Save, TypeOK
  <2>4. VaultInv'
    BY <1>1, <2>1, <2>3 DEF Inv, VaultInv, NothingOrphaned, RecryptKeepsData
  <2>5. SessionInv(win[w])'
    BY <2>1, <2>3 DEF SessionInv, Whole
  <2>6. RestInv(win[w])'
    <3>1. UNCHANGED OldKey
      BY <2>1 DEF OldKey
    <3>2. base.sig = OldKey
      BY <1>1, <2>1 DEF Inv, RestInv
    <3>. QED
      BY <2>1, <2>3, <3>1, <3>2 DEF RestInv, AllUnder, Whole
  <2>7. CallInv(win[w])'
    BY <1>1, <2>1, CallOver DEF Inv, CallInv, LoginInv, Before
  <2>. QED
    BY <2>4, <2>5, <2>6, <2>7, Lone DEF RotInv, Inv
<1>3. CASE Crash(w)
  <2>1. /\ ~At(w, "idle")
        /\ At(w, "reparam") => win[w].old.params = win[w].new.params
        /\ win' = [win EXCEPT ![w] = NoCall]
        /\ UNCHANGED <<stored, session, code, written, wiped, gens>>
    BY <1>3 DEF Crash, Calm, ghost
  <2>. QED
    BY <2>1, Closes
<1>4. CASE Logout \/ ResetSession
  <2>1. /\ UNCHANGED <<base, salt, params, stores, code, written, wiped, gens, win>>
        /\ session' = NoKey /\ UNCHANGED <<OldKey, NewKey>>
    BY <1>4 DEF Logout, ResetSession, stored, ghost, OldKey, NewKey
  <2>2. VaultInv' /\ SessionInv(win[w])' /\ RestInv(win[w])'
    BY <1>1, <2>1 DEF Inv, VaultInv, NothingOrphaned, RecryptKeepsData, SessionInv,
       RestInv, AllUnder
  <2>3. CallInv(win[w])'
    <3>1. RegisterInv(win[w])' /\ LoginInv(win[w])'
      BY <1>1, <2>1 DEF Inv, CallInv, RegisterInv, LoginInv, Salted, TypedBy
    <3>2. RecryptInv(win[w])' /\ EndInv(win[w])'
      BY <1>1, <2>1 DEF Inv, CallInv, RecryptInv, EndInv, AllUnder, Whole
    <3>. QED
      BY <3>1, <3>2 DEF CallInv
  <2>. QED
    BY <2>2, <2>3, Lone DEF RotInv, Inv
<1>5. CASE Upgrade
  <2>1. /\ win[w].pc = "idle" /\ Whole /\ win'[w] = NoCall /\ session' = NoKey
        /\ UNCHANGED <<base, salt, params, stores, written, wiped, gens, OldKey>>
    BY <1>5, Lone DEF Upgrade, Calm, At, stored, ghost, OldKey
  <2>2. VaultInv' /\ SessionInv(win[w])'
    BY <1>1, <2>1 DEF Inv, VaultInv, NothingOrphaned, RecryptKeepsData, SessionInv
  <2>3. RestInv(win[w])'
    BY <1>1, <2>1 DEF Inv, RestInv, AllUnder, Whole
  <2>4. win'[w].pc = "idle" /\ \A s \in Store : win'[w].got[s] = Blank
    BY <2>1 DEF NoCall
  <2>. QED
    BY <2>2, <2>3, <2>4, CallOver, Lone DEF RotInv, Inv
<1>6. CASE ResetStorage
  <2>1. /\ win[w].pc = "idle" /\ base' = NoBase /\ wiped' = gens /\ gens' = gens
        /\ \A s \in Store : stores'[s] = Blank /\ written'[s] = 0
        /\ UNCHANGED <<win, session>>
    BY <1>6, Lone DEF ResetStorage, Calm, At
  <2>2. VaultInv'
    BY <2>1 DEF VaultInv, NothingOrphaned, RecryptKeepsData, TypeOK
  <2>3. SessionInv(win[w])' /\ RestInv(win[w])'
    BY <2>1 DEF SessionInv, RestInv
  <2>4. CallInv(win[w])'
    BY <1>1, <2>1, CallOver DEF Inv, CallInv, LoginInv, Before
  <2>. QED
    BY <2>2, <2>3, <2>4, Lone DEF RotInv, Inv
<1>. QED
  BY <1>2, <1>3, <1>4, <1>5, <1>6

(* Every step keeps the invariant.                                           *)
LEMMA RotStep == TypeOK /\ Calm /\ RotInv /\ [Next]_vars => RotInv'
<1> SUFFICES ASSUME TypeOK, Calm, RotInv, [Next]_vars PROVE RotInv'
  OBVIOUS
<1>1. ASSUME NEW w \in Window, RegisterStep(w) PROVE RotInv'
  BY <1>1, Draws, Founds DEF RegisterStep
<1>2. ASSUME NEW w \in Window, LoginStep(w) PROVE RotInv'
  <2>1. ASSUME NEW s \in Store,
               RecryptRead(w, s) \/ RecryptWrite(w, s) \/ RecryptFails(w, s)
        PROVE  RotInv'
    BY <2>1, Reads, Writes
  <2>2. CASE CloseAborted(w)
    BY <2>2 DEF CloseAborted, At, RotInv, Inv, CallInv, LoginInv
  <2>3. CASE LoginReads(w) \/ Derive(w) \/ LoginBreaks(w) \/ Verify(w) \/ List(w)
    BY <2>3, Derives, Verifies, Lists
  <2>4. CASE \/ At(w, "recrypt") /\ Recrypted(w) /\ Sign(w, "rebase")
             \/ At(w, "rebase") /\ SaveBase(w, "reparam")
             \/ Reparam(w) \/ Open(w)
    BY <2>4, Resigns, Rebases, Finishes
  <2>. QED
    BY <1>2, <2>1, <2>2, <2>3, <2>4 DEF LoginStep
<1>3. PICK w \in Window : Window = {w}
  BY DEF Calm
<1>4. CASE UNCHANGED vars
  <2>1. UNCHANGED <<stored, session, code, written, wiped, gens>>
        /\ win' = [win EXCEPT ![w] = win[w]]
    BY <1>4 DEF vars, ghost, TypeOK
  <2>. QED
    BY <2>1, Quiet DEF RotInv
<1>. QED
  BY <1>1, <1>2, <1>3, <1>4, Begins, Elsewise DEF Next

(* It holds at first, ...                                                    *)
LEMMA RotInit == Init => RotInv
<1> SUFFICES ASSUME Init, NEW w \in Window PROVE Inv(win[w])
  BY DEF RotInv
<1>1. /\ base = NoBase /\ session = NoKey /\ wiped = 0 /\ gens = 0
      /\ \A s \in Store : stores[s] = Blank /\ written[s] = 0
      /\ win[w].pc = "idle" /\ \A s \in Store : win[w].got[s] = Blank
  BY DEF Init, NoCall
<1>. QED
  BY <1>1 DEF Inv, VaultInv, NothingOrphaned, RecryptKeepsData, Blank, SessionInv, RestInv,
     CallInv, RegisterInv, LoginInv, RecryptInv, EndInv, Registering, Mine, Rotating

(* ... and so always.                                                        *)
LEMMA RotHolds == ASSUME Calm PROVE Spec => [](TypeOK /\ RotInv)
<1>1. TypeOK /\ RotInv /\ [Next]_vars => RotInv'
  BY Calm, RotStep
<1>. QED
  BY <1>1, TypeCorrect, RotInit, PTL DEF Spec

-----------------------------------------------------------------------------
(* However a login was cut short, and however often, the right passphrase
   opens the vault again (vault.ts, recryptAll()).                           *)
THEOREM VaultRecovers == ASSUME Calm PROVE Spec => []Recoverable
<1>1. RotInv => Recoverable
  BY Calm DEF Calm, RotInv, Inv, RestInv, Recoverable, AllIdle, AllUnder
<1>. QED
  BY <1>1, RotHolds, PTL

(* No store outlives the base that holds the entropy of its key.             *)
THEOREM NothingIsOrphaned == ASSUME Calm PROVE Spec => []NothingOrphaned
<1>1. RotInv => NothingOrphaned
  BY Calm DEF Calm, RotInv, Inv, VaultInv
<1>. QED
  BY <1>1, RotHolds, PTL

(* While the vault is unlocked, every store opens with the session's key.    *)
THEOREM OpenVaultReads == ASSUME Calm PROVE Spec => []UnlockedReads
<1>1. TypeOK /\ RotInv => UnlockedReads
  <2> SUFFICES ASSUME TypeOK, RotInv, session # NoKey, NEW s \in Store, stores[s] # Blank
               PROVE  stores[s].key = SessionKey
    BY DEF UnlockedReads
  <2>1. PICK w \in Window : Window = {w}
    BY Calm DEF Calm
  <2>2. Inv(win[w]) /\ base # NoBase
    BY <2>1 DEF RotInv, Inv, VaultInv, NothingOrphaned
  <2>3. session = base.sig /\ Whole /\ base.sig.salt = salt
    BY <2>2 DEF Inv, SessionInv, VaultInv
  <2>4. base.sig \in Key /\ salt \in 0..MaxSalt
    BY DEF TypeOK, Base
  <2>5. SessionKey = base.sig
    BY <2>3, <2>4, SaltedKey, SameKey DEF SessionKey
  <2>. QED
    BY <2>3, <2>5 DEF Whole
<1>. QED
  BY <1>1, RotHolds, PTL

(* Re-encryption hands on the data last saved, never an older version.       *)
THEOREM DataIsKept == ASSUME Calm PROVE Spec => []RecryptKeepsData
<1>1. RotInv => RecryptKeepsData
  BY Calm DEF Calm, RotInv, Inv, VaultInv
<1>. QED
  BY <1>1, RotHolds, PTL

(* After a factory reset nothing is stored of an earlier registration.       *)
THEOREM ResetsAreFinal == ASSUME Calm PROVE Spec => []ResetIsFinal
<1>1. TypeOK /\ RotInv => ResetIsFinal
  <2> SUFFICES ASSUME TypeOK, RotInv PROVE ResetIsFinal
    OBVIOUS
  <2>1. PICK w \in Window : Window = {w}
    BY Calm DEF Calm
  <2>2. Inv(win[w])
    BY <2>1 DEF RotInv
  <2>3. base # NoBase => base.gen > wiped /\ base.sig.gen = base.gen
    BY <2>2 DEF Inv, VaultInv
  <2>4. ASSUME NEW s \in Store, stores[s] # Blank PROVE stores[s].key.gen > wiped
    <3>1. base # NoBase
      BY <2>2, <2>4 DEF Inv, VaultInv, NothingOrphaned
    <3>2. stores[s].key \in {OldKey, NewKey, base.sig}
      BY <2>2, <2>4, <3>1 DEF Inv, RestInv, AllUnder, CallInv, EndInv, Whole
    <3>3. stores[s].key.gen = base.gen
      BY <2>3, <3>1, <3>2, NextKeys
    <3>. QED
      BY <2>3, <3>1, <3>3
  <2>. QED
    BY <2>3, <2>4 DEF ResetIsFinal
<1>. QED
  BY <1>1, RotHolds, PTL

(* A passphrase is called invalid only when it is not the vault's.           *)
LEMMA InvalidRightly ==
  ASSUME TypeOK, Calm, RotInv, [Next]_vars, NEW w \in Window,
         outcome[w] # "invalid", outcome'[w] = "invalid"
  PROVE  win[w].phrase # win[w].mine.sig.phrase
<1>1. \A v \in Window : v = w
  BY Lone
<1>2. Verify(w)
  <2>1. ASSUME NEW p \in Phrase, Register(w, p) \/ Unlock(w, p) PROVE FALSE
    BY <2>1 DEF Register, Unlock, TypeOK
  <2>2. ASSUME RegisterStep(w) PROVE FALSE
    <3>1. outcome' = outcome \/ Report(w, "already") \/ Report(w, "failed")
      BY <2>2 DEF RegisterStep, RegisterFails, RegisterReads, Draw, Sign, SaveBase
    <3>. QED
      BY <3>1 DEF Report, TypeOK
  <2>3. ASSUME LoginStep(w), ~Verify(w) PROVE FALSE
    <3>1. \/ outcome' = outcome \/ Report(w, "unregistered") \/ Report(w, "failed")
          \/ Report(w, "ok")
      BY <2>3 DEF LoginStep, LoginReads, LoginFails, Derive, LoginBreaks, List, RecryptRead,
         RecryptWrite, RecryptFails, CloseAborted, Sign, SaveBase, Reparam, Open
    <3>. QED
      BY <3>1 DEF Report, TypeOK
  <2>4. ASSUME Crash(w) \/ (\E s \in Store : Save(s)) \/ Logout \/ Upgrade \/ ResetSession
               \/ ResetStorage \/ UNCHANGED vars
        PROVE  FALSE
    BY <2>4 DEF Crash, Save, Logout, Upgrade, ResetSession, ResetStorage, vars
  <2>. QED
    BY <1>1, <2>1, <2>2, <2>3, <2>4 DEF Next
<1>3. At(w, "verify") /\ base # NoBase
  BY <1>2, VerifiedRightly DEF Verify
<1>4. salt' = salt /\ win[w].mine = base
  BY <1>2, <1>3 DEF Verify, TakeSalt, RotInv, Inv, CallInv, LoginInv, Mine, At
<1>5. ~Verified(w, salt)
  BY <1>2, <1>4 DEF Verify
<1>. QED
  BY <1>3, <1>4, <1>5, VerifiedRightly

(* login() never calls the right passphrase wrong.                           *)
THEOREM RightPhraseIsAccepted == ASSUME Calm PROVE Spec => RightPhraseAccepted
<1>1. TypeOK /\ RotInv /\ [Next]_vars =>
        [\A w \in Window :
           outcome[w] # "invalid" /\ outcome'[w] = "invalid" =>
             win[w].phrase # win[w].mine.sig.phrase]_vars
  BY Calm, InvalidRightly
<1>. QED
  BY <1>1, RotHolds, PTL DEF Spec, RightPhraseAccepted

(* recryptAll() never meets a store that neither of its keys decrypts.       *)
THEOREM NeverAborts == ASSUME Calm PROVE Spec => RecryptNeverAborts
<1>1. RotInv' => \A w \in Window : At(w, "recrypt") => win'[w].pc # "aborted"
  BY DEF RotInv, Inv, CallInv, LoginInv
<1>2. RotInv' => [\A w \in Window : At(w, "recrypt") => win'[w].pc # "aborted"]_vars
  BY <1>1
<1>. QED
  BY <1>2, RotHolds, PTL DEF Spec, RecryptNeverAborts
=============================================================================
