-------------------------- MODULE FlowPromptProofs --------------------------
(* Proofs about FlowPrompt for any number of prompts and reloads.            *)
EXTENDS FlowPrompt, TLAPS

-----------------------------------------------------------------------------
(* The initial state is of the declared types.                               *)
LEMMA TypeInit == Init => TypeOK
  BY DEF Init, TypeOK, Reply

(* What is posted is a message, and what is handled leaves messages.         *)
LEMMA WireType ==
  ASSUME TypeOK, NEW p \in Prompt, NEW m \in Reply \cup {"beat", "bye"}
  PROVE  /\ Posted(p, m) \in [Prompt -> Seq(Reply \cup {"beat", "bye"})]
         /\ wire[p] # <<>> => /\ Head(wire[p]) \in Reply \cup {"beat", "bye"}
                              /\ Tail(wire[p]) \in Seq(Reply \cup {"beat", "bye"})
  BY DEF TypeOK, Posted

(* Every step keeps the types.                                               *)
LEMMA TypeStep == TypeOK /\ [Next]_vars => TypeOK'
<1> SUFFICES ASSUME TypeOK, [Next]_vars PROVE TypeOK'
  OBVIOUS
<1> USE DEF Set
<1>1. ASSUME NEW p \in Prompt, Launch(p) PROVE TypeOK'
  BY <1>1 DEF Launch, TypeOK
<1>2. ASSUME NEW p \in Prompt, Connect(p) PROVE TypeOK'
  BY <1>2 DEF Connect, Reprieve, TypeOK
<1>3. ASSUME NEW p \in Prompt, Beat(p) PROVE TypeOK'
  <2>1. wire' \in [Prompt -> Seq(Reply \cup {"beat", "bye"})]
    BY <1>3, WireType DEF Beat
  <2>. QED
    BY <1>3, <2>1 DEF Beat, service, window, TypeOK
<1>4. ASSUME NEW p \in Prompt, NEW v \in Reply, Submit(p, v) PROVE TypeOK'
  <2>1. wire' \in [Prompt -> Seq(Reply \cup {"beat", "bye"})]
    BY <1>4, WireType DEF Submit
  <2>2. first' \in [Prompt -> {"none"} \cup Reply] /\ said' \in [Prompt -> {"none"} \cup Reply]
    BY <1>4 DEF Submit, TypeOK
  <2>. QED
    BY <1>4, <2>1, <2>2 DEF Submit, service, TypeOK
<1>5. ASSUME NEW p \in Prompt, CloseSelf(p) \/ UserCloses(p) \/ Reload(p) PROVE TypeOK'
  <2>1. wire' \in [Prompt -> Seq(Reply \cup {"beat", "bye"})]
    BY <1>5, WireType DEF CloseSelf, UserCloses, Reload
  <2>. QED
    BY <1>5, <2>1, ConstantsAssumption DEF CloseSelf, UserCloses, Reload, service, TypeOK
<1>6. ASSUME NEW p \in Prompt, Ignore(p) \/ Dropped(p) PROVE TypeOK'
  BY <1>6 DEF Ignore, Dropped, service, window, TypeOK
<1>7. ASSUME NEW p \in Prompt, Handle(p) PROVE TypeOK'
  <2>1. /\ Head(wire[p]) \in Reply \cup {"beat", "bye"}
        /\ wire' \in [Prompt -> Seq(Reply \cup {"beat", "bye"})]
    BY <1>7, WireType DEF Handle, TypeOK
  <2>2. promise' \in [Prompt -> {"none", "pending", "cancel"} \cup Reply]
    BY <1>7, <2>1 DEF Handle, Resolved, TypeOK
  <2>3. armed' \subseteq Prompt /\ grace' \subseteq Prompt /\ ack' \subseteq Prompt
        /\ port' \in [Prompt -> {"none", "open", "closed"}]
    BY <1>7 DEF Handle, TypeOK
  <2>. QED
    BY <1>7, <2>1, <2>2, <2>3 DEF Handle, window, TypeOK
<1>head. ASSUME NEW p \in Prompt, GraceEnds(p) \/ Tardy(p) PROVE TypeOK'
  <2>1. promise' \in [Prompt -> {"none", "pending", "cancel"} \cup Reply]
    BY <1>head DEF GraceEnds, Tardy, Shutdown, Resolved, TypeOK
  <2>2. CASE GraceEnds(p)
    BY <2>1, <2>2 DEF GraceEnds, Shutdown, window, TypeOK
  <2>3. CASE Tardy(p)
    <3>1. wire' \in [Prompt -> Seq(Reply \cup {"beat", "bye"})]
      BY <2>3 DEF Tardy, TypeOK
    <3>2. port' \in [Prompt -> {"none", "open", "closed"}] /\ armed' \subseteq Prompt
      BY <2>3 DEF Tardy, Shutdown, TypeOK
    <3>. QED
      BY <2>1, <2>3, <3>1, <3>2 DEF Tardy, window, TypeOK
  <2>. QED
    BY <1>head, <2>2, <2>3
<1>9. CASE UNCHANGED vars
  BY <1>9 DEF vars, service, window, TypeOK
<1>. QED
  BY <1>1, <1>2, <1>3, <1>4, <1>5, <1>6, <1>7, <1>head, <1>9 DEF Next, Worker, Page

(* Every variable keeps its type.                                            *)
THEOREM TypeCorrect == Spec => []TypeOK
  BY TypeInit, TypeStep, PTL DEF Spec

-----------------------------------------------------------------------------
Replies(p) == {i \in DOMAIN wire[p] : wire[p][i] \in Reply}

(* The port of a prompt: nothing is on a closed wire, the monitor runs only for a
   port that is open or just gone, and nothing follows the end of the window.  *)
PortInv(p) ==
  /\ port[p] # "open" => wire[p] = <<>>
  /\ p \in grace => port[p] = "closed"
  /\ p \in armed => port[p] = "open" \/ p \in grace
  /\ \A i \in DOMAIN wire[p] :
        wire[p][i] = "bye" => /\ i = Len(wire[p])
                              /\ win[p] = "gone" \/ win[p] = "opening"
  /\ port[p] = "open" /\ p \notin heard
        => wire[p] # <<>> /\ wire[p][Len(wire[p])] = "bye"

(* The window of a prompt: its port listener takes one port only, so a window that
   was reloaded is not heard, and its prompt is neither open nor on its way out.  *)
WindowInv(p) ==
  /\ promise[p] = "none" => /\ win[p] = "none" /\ p \notin listening \cup heard
                            /\ port[p] = "none" /\ first[p] = "none" /\ said[p] = "none"
  /\ p \in listening => /\ port[p] = "none" /\ p \notin heard
                        /\ first[p] = "none" /\ said[p] = "none"
  /\ win[p] = "open" /\ p \notin heard => /\ p \notin listening \cup grace
                                          /\ port[p] # "open"
  /\ win[p] = "opening" => p \notin heard
  /\ win[p] = "open" /\ p \in heard /\ port[p] # "open" => promise[p] # "pending"

(* The answer: what is on the wire is the first, and the first is on the wire, or
   can no longer be cancelled, since nobody hears the window.                *)
AnswerInv(p) ==
  /\ p \in heard /\ said[p] = "none" => first[p] = "none" /\ Replies(p) = {}
  /\ promise[p] = "pending" => \A i \in Replies(p) : wire[p][i] = first[p]
  /\ promise[p] = "pending" /\ first[p] # "none"
        => \/ Replies(p) # {}
           \/ p \notin heard \cup grace \cup listening /\ port[p] # "open"
  /\ promise[p] = "cancel" => first[p] = "none"
  /\ promise[p] \in Reply => promise[p] = first[p]
PromptInv(p) == PortInv(p) /\ WindowInv(p) /\ AnswerInv(p)
FInv == \A p \in Prompt : PromptInv(p)

(* A step of another prompt only ends the wait for this one's port.          *)
LEMMA OthersRest ==
  ASSUME NEW p \in Prompt, PromptInv(p),
         promise'[p] = promise[p], port'[p] = port[p], win'[p] = win[p],
         said'[p] = said[p], wire'[p] = wire[p], first'[p] = first[p],
         p \in listening' <=> p \in listening, p \in heard' <=> p \in heard,
         p \in grace' => p \in grace,
         p \in armed' => p \in armed /\ (p \in grace => p \in grace')
  PROVE  PromptInv(p)'
  BY DEF PromptInv, PortInv, WindowInv, AnswerInv, Replies

(* A prompt is launched.                                                     *)
LEMMA LaunchStep ==
  ASSUME TypeOK, NEW p \in Prompt, PromptInv(p), Launch(p)
  PROVE  PromptInv(p)'
<1>1. /\ promise[p] = "none" /\ promise'[p] = "pending" /\ p \in listening'
      /\ win'[p] \in {"opening", "failed"}
      /\ UNCHANGED <<port, armed, grace, heard, said, reloaded, wire, ack, first>>
  BY DEF Launch, Set, TypeOK
<1>2. /\ port[p] = "none" /\ wire[p] = <<>> /\ p \notin heard /\ first[p] = "none"
      /\ said[p] = "none" /\ p \notin grace /\ p \notin armed
  BY <1>1 DEF PromptInv, PortInv, WindowInv
<1>3. DOMAIN wire[p] = {}
  BY <1>2
<1>. QED
  BY <1>1, <1>2, <1>3 DEF PromptInv, PortInv, WindowInv, AnswerInv, Replies, Reply

(* Its window connects.                                                      *)
LEMMA ConnectStep ==
  ASSUME TypeOK, NEW p \in Prompt, PromptInv(p), Connect(p)
  PROVE  PromptInv(p)'
<1>1. /\ win[p] = "opening" /\ wire[p] = <<>> /\ win'[p] \in {"open", "gone"}
      /\ p \notin heard /\ grace' = {} /\ armed' = armed \ grace
      /\ UNCHANGED <<promise, said, reloaded, wire, ack, first>>
  BY DEF Connect, Reprieve, Set, TypeOK, PromptInv, WindowInv
<1>2. DOMAIN wire[p] = {}
  BY <1>1
<1>3. CASE p \in listening
  <2>1. p \notin listening' /\ p \in heard' /\ port'[p] = "open"
    BY <1>3 DEF Connect, Set, TypeOK
  <2>. QED
    BY <1>1, <1>2, <1>3, <2>1 DEF PromptInv, PortInv, WindowInv, AnswerInv, Replies
<1>4. CASE p \notin listening
  <2>1. UNCHANGED <<listening, heard, port>>
    BY <1>4 DEF Connect
  <2>. QED
    BY <1>1, <1>2, <1>4, <2>1 DEF PromptInv, PortInv, WindowInv, AnswerInv, Replies
<1>. QED
  BY <1>3, <1>4

(* A message is posted at the end of the wire, or lost.                      *)
LEMMA PostedAt ==
  ASSUME TypeOK, NEW p \in Prompt, NEW m \in Reply \cup {"beat", "bye"}, wire' = Posted(p, m)
  PROVE  /\ \/ p \in heard /\ port[p] = "open"
            \/ UNCHANGED wire
         /\ p \in heard /\ port[p] = "open" =>
              /\ Len(wire[p]) \in Nat
              /\ DOMAIN wire[p] = 1..Len(wire[p])
              /\ Len(wire'[p]) = Len(wire[p]) + 1
              /\ DOMAIN wire'[p] = 1..(Len(wire[p]) + 1)
              /\ \A i \in 1..Len(wire[p]) : wire'[p][i] = wire[p][i]
              /\ wire'[p][Len(wire[p]) + 1] = m
<1>1. wire[p] \in Seq(Reply \cup {"beat", "bye"})
  BY DEF TypeOK
<1>2. CASE p \in heard /\ port[p] = "open"
  <2>1. wire'[p] = Append(wire[p], m)
    BY <1>2 DEF Posted, TypeOK
  <2>. QED
    BY <1>1, <1>2, <2>1
<1>. QED
  BY <1>2 DEF Posted

(* A heartbeat.                                                              *)
LEMMA BeatStep ==
  ASSUME TypeOK, NEW p \in Prompt, PromptInv(p), Beat(p)
  PROVE  PromptInv(p)'
<1>1. /\ win[p] = "open" /\ p \in heard /\ port[p] = "open" /\ wire[p] = <<>>
      /\ wire' = Posted(p, "beat")
      /\ UNCHANGED <<promise, listening, port, armed, grace, win, heard, said, first>>
  BY DEF Beat, service, window
<1>2. wire'[p] = <<"beat">>
  BY <1>1 DEF Posted, TypeOK
<1>3. DOMAIN wire'[p] = {1} /\ wire'[p][1] = "beat" /\ Len(wire'[p]) = 1 /\ wire'[p] # <<>>
  BY <1>2
<1>4. DOMAIN wire[p] = {}
  BY <1>1
<1>. QED
  BY <1>1, <1>3, <1>4 DEF PromptInv, PortInv, WindowInv, AnswerInv, Replies, Reply

(* The user answers.                                                         *)
LEMMA SubmitStep ==
  ASSUME TypeOK, NEW p \in Prompt, NEW v \in Reply, PromptInv(p), Submit(p, v)
  PROVE  PromptInv(p)'
<1>1. /\ win[p] = "open" /\ said[p] = "none" /\ said'[p] = v /\ wire' = Posted(p, v)
      /\ first'[p] = IF first[p] = "none" /\ promise[p] = "pending" THEN v ELSE first[p]
      /\ UNCHANGED <<promise, listening, port, armed, grace, win, heard>>
  BY DEF Submit, Set, service, TypeOK
<1>2. promise[p] # "none" /\ v # "none" /\ v # "bye" /\ p \notin listening
  BY <1>1 DEF PromptInv, WindowInv, Reply
<1>3. CASE p \in heard /\ port[p] = "open"
  <2>1. /\ Len(wire[p]) \in Nat
        /\ DOMAIN wire[p] = 1..Len(wire[p])
        /\ Len(wire'[p]) = Len(wire[p]) + 1
        /\ DOMAIN wire'[p] = 1..(Len(wire[p]) + 1)
        /\ \A i \in 1..Len(wire[p]) : wire'[p][i] = wire[p][i]
        /\ wire'[p][Len(wire[p]) + 1] = v
    BY <1>1, <1>3, PostedAt
  <2>2. first[p] = "none" /\ \A i \in DOMAIN wire[p] : wire[p][i] \notin Reply /\ wire[p][i] # "bye"
    BY <1>1, <1>3 DEF PromptInv, PortInv, AnswerInv, Replies
  <2>3. Replies(p)' = {Len(wire[p]) + 1}
    BY <2>1, <2>2 DEF Replies
  <2>4. PortInv(p)'
    BY <1>1, <1>2, <1>3, <2>1, <2>2 DEF PromptInv, PortInv
  <2>5. WindowInv(p)'
    BY <1>1, <1>2, <1>3 DEF PromptInv, WindowInv
  <2>6. AnswerInv(p)'
    BY <1>1, <1>2, <1>3, <2>1, <2>2, <2>3 DEF PromptInv, AnswerInv, Reply
  <2>. QED
    BY <2>4, <2>5, <2>6 DEF PromptInv
<1>4. CASE ~(p \in heard /\ port[p] = "open")
  <2>1. UNCHANGED wire
    BY <1>1, <1>4, PostedAt
  <2>2. p \notin heard \/ promise[p] # "pending"
    BY <1>1, <1>4 DEF PromptInv, WindowInv
  <2>3. p \notin heard => port[p] # "open" /\ p \notin grace
    BY <1>1 DEF PromptInv, WindowInv
  <2>4. DOMAIN wire[p] = {}
    BY <1>4, <2>3 DEF PromptInv, PortInv
  <2>5. PortInv(p)' /\ WindowInv(p)'
    BY <1>1, <1>2, <2>1 DEF PromptInv, PortInv, WindowInv
  <2>6. AnswerInv(p)'
    BY <1>1, <1>2, <2>1, <2>2, <2>3, <2>4 DEF PromptInv, AnswerInv, Replies, Reply
  <2>. QED
    BY <2>5, <2>6 DEF PromptInv
<1>. QED
  BY <1>3, <1>4

(* The window goes, or is loaded anew.                                       *)
LEMMA LeaveStep ==
  ASSUME TypeOK, NEW p \in Prompt, PromptInv(p), CloseSelf(p) \/ UserCloses(p) \/ Reload(p)
  PROVE  PromptInv(p)'
<1>1. /\ win[p] = "open" \/ win[p] = "opening"
      /\ wire' = Posted(p, "bye")
      /\ UNCHANGED <<promise, listening, port, armed, grace, first>>
      /\ \/ win'[p] = "gone" /\ UNCHANGED <<heard, said>>
         \/ win'[p] = "opening" /\ p \notin heard' /\ said'[p] = "none" /\ win[p] = "open"
  BY DEF CloseSelf, UserCloses, Reload, Set, service, TypeOK
<1>2. promise[p] # "none" /\ win'[p] # "open" /\ (p \in heard' => p \in heard)
  BY <1>1 DEF PromptInv, WindowInv
<1>3. CASE p \in heard /\ port[p] = "open"
  <2>1. /\ Len(wire[p]) \in Nat
        /\ DOMAIN wire[p] = 1..Len(wire[p])
        /\ Len(wire'[p]) = Len(wire[p]) + 1
        /\ DOMAIN wire'[p] = 1..(Len(wire[p]) + 1)
        /\ \A i \in 1..Len(wire[p]) : wire'[p][i] = wire[p][i]
        /\ wire'[p][Len(wire[p]) + 1] = "bye"
    BY <1>1, <1>3, PostedAt
  <2>2. win[p] = "open" /\ \A i \in DOMAIN wire[p] : wire[p][i] # "bye"
    BY <1>1, <1>3 DEF PromptInv, PortInv, WindowInv
  <2>3. Replies(p)' = Replies(p)
    BY <2>1 DEF Replies, Reply
  <2>4. wire'[p] # <<>>
    BY <2>1
  <2>5. PortInv(p)'
    BY <1>1, <1>2, <1>3, <2>1, <2>2, <2>4 DEF PromptInv, PortInv
  <2>6. WindowInv(p)'
    BY <1>1, <1>2, <1>3 DEF PromptInv, WindowInv
  <2>7. \A i \in Replies(p) : wire'[p][i] = wire[p][i]
    BY <2>1 DEF Replies
  <2>8. AnswerInv(p)'
    BY <1>1, <1>2, <1>3, <2>3, <2>7 DEF PromptInv, AnswerInv
  <2>. QED
    BY <2>5, <2>6, <2>8 DEF PromptInv
<1>4. CASE ~(p \in heard /\ port[p] = "open")
  <2>1. UNCHANGED wire
    BY <1>1, <1>4, PostedAt
  <2>2. /\ port[p] = "open" => wire[p] # <<>> /\ wire[p][Len(wire[p])] = "bye"
        /\ \A i \in DOMAIN wire[p] : wire[p][i] = "bye" => i = Len(wire[p])
    BY <1>4 DEF PromptInv, PortInv
  <2>3. PortInv(p)'
    BY <1>1, <1>2, <1>4, <2>1, <2>2 DEF PromptInv, PortInv
  <2>4. WindowInv(p)'
    BY <1>1, <1>2 DEF PromptInv, WindowInv
  <2>5. Replies(p)' = Replies(p)
    BY <2>1 DEF Replies
  <2>6. AnswerInv(p)'
    BY <1>1, <1>2, <2>1, <2>5 DEF PromptInv, AnswerInv
  <2>. QED
    BY <2>3, <2>4, <2>6 DEF PromptInv
<1>. QED
  BY <1>3, <1>4

(* The worker handles a message.                                             *)
LEMMA HandleStep ==
  ASSUME TypeOK, NEW p \in Prompt, PromptInv(p), Handle(p)
  PROVE  PromptInv(p)'
<1> DEFINE m == Head(wire[p])
<1>1. /\ wire[p] # <<>> /\ wire'[p] = Tail(wire[p])
      /\ UNCHANGED <<listening, win, heard, said, first>>
  BY DEF Handle, window, TypeOK
<1>2. wire[p] \in Seq(Reply \cup {"beat", "bye"})
  BY DEF TypeOK
<1>3. /\ Len(wire[p]) \in Nat /\ Len(wire[p]) >= 1 /\ DOMAIN wire[p] = 1..Len(wire[p])
      /\ Len(wire'[p]) = Len(wire[p]) - 1 /\ DOMAIN wire'[p] = 1..(Len(wire[p]) - 1)
      /\ \A i \in 1..(Len(wire[p]) - 1) : wire'[p][i] = wire[p][i + 1]
      /\ m = wire[p][1]
  BY <1>1, <1>2
<1>head. 1 \in DOMAIN wire[p] /\ m = wire[p][1]
  BY <1>3
<1>4. port[p] = "open" /\ p \notin grace /\ p \notin listening /\ promise[p] # "none"
  BY <1>1, TypeOK DEF PromptInv, PortInv, WindowInv, TypeOK
<1> HIDE DEF m
<1>5. \A i \in DOMAIN wire'[p] : wire'[p][i] = "bye" =>
         i = Len(wire'[p]) /\ (win[p] = "gone" \/ win[p] = "opening")
  <2> SUFFICES ASSUME NEW i \in DOMAIN wire'[p], wire'[p][i] = "bye"
               PROVE  i = Len(wire'[p]) /\ (win[p] = "gone" \/ win[p] = "opening")
    OBVIOUS
  <2>1. i + 1 \in DOMAIN wire[p] /\ wire[p][i + 1] = "bye"
    BY <1>3
  <2>2. i + 1 = Len(wire[p]) /\ (win[p] = "gone" \/ win[p] = "opening")
    BY <2>1 DEF PromptInv, PortInv
  <2>. QED
    BY <1>3, <2>2
<1>6. CASE m = "beat" \/ m \in Reply
  <2>1. /\ UNCHANGED <<port, grace>> /\ armed' \subseteq armed \cup {p}
        /\ promise'[p] \in {promise[p], m} /\ (promise'[p] # promise[p] => m \in Reply)
        /\ m \in Reply /\ promise[p] = "pending" => promise'[p] = m
    BY <1>6 DEF Handle, Resolved, Set, Reply, m, TypeOK
  <2>2. p \notin heard => wire'[p] # <<>> /\ wire'[p][Len(wire'[p])] = "bye"
    <3> SUFFICES ASSUME p \notin heard PROVE wire'[p] # <<>> /\ wire'[p][Len(wire'[p])] = "bye"
      OBVIOUS
    <3>1. wire[p][Len(wire[p])] = "bye"
      BY <1>4 DEF PromptInv, PortInv
    <3>2. Len(wire[p]) # 1
      BY <1>head, <1>6, <3>1 DEF Reply
    <3> DEFINE L == Len(wire[p])
    <3>3. L \in Nat /\ L >= 1 /\ L # 1 /\ Len(wire'[p]) = L - 1
      BY <1>3, <3>2
    <3> HIDE DEF L
    <3>4. Len(wire'[p]) \in 1..(L - 1) /\ Len(wire'[p]) + 1 = L
      BY <3>3
    <3>5. wire'[p][Len(wire'[p])] = "bye" /\ DOMAIN wire'[p] # {}
      BY <1>3, <3>1, <3>4 DEF L
    <3>. QED
      BY <3>5
  <2>3. PortInv(p)'
    BY <1>4, <1>5, <1>1, <2>1, <2>2 DEF PortInv
  <2>4. WindowInv(p)'
    BY <1>1, <1>4, <2>1 DEF PromptInv, WindowInv, Reply
  <2>5. /\ m \in Reply => 1 \in Replies(p)
        /\ \A i \in Replies(p)' : i + 1 \in Replies(p) /\ wire'[p][i] = wire[p][i + 1]
    <3>1. m \in Reply => 1 \in Replies(p)
      BY <1>head DEF Replies
    <3>2. ASSUME NEW i \in Replies(p)'
          PROVE  i + 1 \in Replies(p) /\ wire'[p][i] = wire[p][i + 1]
      BY <1>3 DEF Replies
    <3>. QED
      BY <3>1, <3>2
  <2>6. CASE m \in Reply
    <3>1. promise'[p] # "pending"
      BY <2>1, <2>6 DEF Reply
    <3>2. promise[p] = "pending" => m = first[p]
      BY <1>head, <2>5, <2>6 DEF PromptInv, AnswerInv
    <3>3. promise[p] # "pending" => promise'[p] = promise[p]
      BY <2>6 DEF Handle, Resolved, Set, m, Reply
    <3>. QED
      BY <1>1, <2>1, <2>3, <2>4, <2>5, <2>6, <3>1, <3>2, <3>3
         DEF PromptInv, AnswerInv, Reply
  <2>7. CASE m = "beat"
    <3>1. promise'[p] = promise[p]
      BY <2>1, <2>7 DEF Reply
    <3>2. ASSUME NEW i \in Replies(p) PROVE i - 1 \in Replies(p)'
      <4>1. i \in DOMAIN wire[p] /\ wire[p][i] \in Reply /\ i # 1
        BY <1>head, <2>7 DEF Replies, Reply
      <4>2. i \in 1..Len(wire[p]) /\ i # 1
        BY <1>3, <4>1
      <4>3. i - 1 \in 1..(Len(wire[p]) - 1) /\ (i - 1) + 1 = i
        BY <1>3, <4>2
      <4>4. wire'[p][i - 1] = wire[p][i] /\ i - 1 \in DOMAIN wire'[p]
        BY <1>3, <4>3
      <4>. QED
        BY <4>1, <4>4 DEF Replies
    <3>. QED
      BY <1>1, <2>1, <2>3, <2>4, <2>5, <3>1, <3>2 DEF PromptInv, AnswerInv
  <2>. QED
    BY <1>6, <2>6, <2>7
<1>7. CASE m = "bye"
  <2>1. Len(wire[p]) = 1 /\ win[p] # "open"
    BY <1>head, <1>7 DEF PromptInv, PortInv
  <2>2. DOMAIN wire'[p] = {} /\ wire'[p] = <<>>
    BY <1>1, <1>2, <1>3, <2>1
  <2>3. /\ port'[p] = "closed" /\ p \in grace' /\ UNCHANGED <<promise, armed>>
    BY <1>7 DEF Handle, Set, Reply, m, TypeOK
  <2>4. Replies(p) = {}
    <3>1. DOMAIN wire[p] = {1}
      BY <1>3, <2>1
    <3>. QED
      BY <1>7, <1>head, <3>1 DEF Replies, Reply
  <2>. QED
    BY <1>1, <1>4, <2>1, <2>2, <2>3, <2>4 DEF PromptInv, PortInv, WindowInv, AnswerInv, Replies
<1>. QED
  BY <1>6, <1>7 DEF Handle, m

(* The worker gives up: not on an answer, since one that it has not handled is on
   the wire, and one that it will never hear is of a window it does not wait for. *)
LEMMA ShutdownStep ==
  ASSUME TypeOK, NEW p \in Prompt, PromptInv(p), ~LateAnswer, GraceEnds(p) \/ Tardy(p)
  PROVE  PromptInv(p)'
<1>1. /\ promise'[p] = IF promise[p] = "pending" THEN "cancel" ELSE promise[p]
      /\ p \notin armed' /\ (p \in grace' => p \in grace)
      /\ UNCHANGED <<listening, win, heard, said, first>>
  BY DEF GraceEnds, Tardy, Shutdown, Resolved, Set, window, TypeOK
<1>2. wire[p] = <<>> /\ wire'[p] = <<>>
  BY DEF GraceEnds, Tardy, Set, PromptInv, PortInv, TypeOK
<1>3. DOMAIN wire[p] = {} /\ DOMAIN wire'[p] = {}
  BY <1>2
<1>4. p \in armed \cup grace /\ port[p] # "none"
  BY DEF GraceEnds, Tardy, PromptInv, PortInv
<1>5. port'[p] = "closed" /\ promise[p] # "none" /\ p \notin listening
  BY <1>4 DEF GraceEnds, Tardy, Set, PromptInv, PortInv, WindowInv, TypeOK
<1>6. promise[p] = "pending" => first[p] = "none"
  BY <1>3, <1>4 DEF PromptInv, PortInv, AnswerInv, Replies
<1>. QED
  BY <1>1, <1>2, <1>3, <1>5, <1>6 DEF PromptInv, PortInv, WindowInv, AnswerInv, Replies, Reply

(* Every step keeps the invariant of every prompt.                           *)
LEMMA PromptStep ==
  ASSUME TypeOK, FInv, ~LateAnswer, [Next]_vars
  PROVE  FInv'
<1> SUFFICES ASSUME NEW p \in Prompt PROVE PromptInv(p)'
  BY DEF FInv
<1>1. PromptInv(p)
  BY DEF FInv
<1>2. CASE UNCHANGED vars
  BY <1>1, <1>2, OthersRest DEF vars, service, window
<1>3. ASSUME NEW q \in Prompt, q # p,
             \/ Launch(q) \/ Beat(q) \/ UserCloses(q) \/ Reload(q) \/ Tardy(q)
             \/ \E v \in Reply : Submit(q, v)
             \/ Worker(q) \/ Page(q)
      PROVE  PromptInv(p)'
  <2>1. /\ promise'[p] = promise[p] /\ port'[p] = port[p] /\ win'[p] = win[p]
        /\ said'[p] = said[p] /\ wire'[p] = wire[p] /\ first'[p] = first[p]
    BY <1>3 DEF Launch, Beat, UserCloses, Reload, Tardy, Submit, Worker, Handle, GraceEnds,
       Page, Connect, CloseSelf, Ignore, Dropped, Shutdown, Resolved, Set, Posted, service,
       window, TypeOK
  <2>2. /\ p \in listening' <=> p \in listening
        /\ p \in heard' <=> p \in heard
        /\ p \in grace' => p \in grace
        /\ p \in armed' => p \in armed /\ (p \in grace => p \in grace')
    BY <1>3 DEF Launch, Beat, UserCloses, Reload, Tardy, Submit, Worker, Handle, GraceEnds,
       Page, Connect, Reprieve, CloseSelf, Ignore, Dropped, Shutdown, service, window
  <2>. QED
    BY <1>1, <2>1, <2>2, OthersRest
<1>4. CASE Ignore(p)
  BY <1>1, <1>4, OthersRest DEF Ignore, service, window
<1>5. CASE Dropped(p)
  <2>1. /\ win[p] = "open" /\ win'[p] = "gone" /\ port[p] = "closed"
        /\ UNCHANGED <<promise, listening, port, armed, grace, heard, said, wire, first>>
    BY <1>5 DEF Dropped, Set, service, TypeOK
  <2>. QED
    BY <1>1, <2>1 DEF PromptInv, PortInv, WindowInv, AnswerInv, Replies
<1>6. CASE \/ Launch(p) \/ Beat(p) \/ UserCloses(p) \/ Reload(p) \/ Tardy(p)
           \/ \E v \in Reply : Submit(p, v)
           \/ Worker(p) \/ Page(p)
  BY <1>1, <1>4, <1>5, <1>6, LaunchStep, BeatStep, LeaveStep, ShutdownStep, SubmitStep,
     HandleStep, ConnectStep DEF Worker, Page
<1>. QED
  BY <1>2, <1>3, <1>6 DEF Next

(* open_flow_query() reports what the user answered first, and as cancelled only
   what was not answered, for any prompts whose windows are closed, reloaded or
   silent at any time.  The assumption is needed: an answer that is on its way when
   the heartbeat is missed comes too late.                                   *)
THEOREM FirstAnswerStands ==
  ASSUME ~LateAnswer
  PROVE  Spec => []AnswerStands
<1>1. ASSUME Init PROVE FInv
  <2> SUFFICES ASSUME NEW p \in Prompt PROVE PromptInv(p)
    BY DEF FInv
  <2>1. /\ promise[p] = "none" /\ port[p] = "none" /\ win[p] = "none" /\ said[p] = "none"
        /\ first[p] = "none" /\ wire[p] = <<>>
        /\ p \notin listening \cup armed \cup grace \cup heard
    BY <1>1 DEF Init
  <2>2. DOMAIN wire[p] = {}
    BY <2>1
  <2>. QED
    BY <2>1, <2>2 DEF PromptInv, PortInv, WindowInv, AnswerInv, Replies, Reply
<1>2. TypeOK /\ FInv /\ [Next]_vars => FInv'
  BY PromptStep
<1>3. FInv => AnswerStands
  BY DEF FInv, PromptInv, AnswerInv, AnswerStands
<1>. QED
  BY <1>1, <1>2, <1>3, TypeCorrect, PTL DEF Spec
=============================================================================
