----------------------------- MODULE FlowPrompt -----------------------------
(* One prompt in a window of its own: open_flow_query() of
   src/src/script/msg-flow.ts in the service worker and the end of
   src/src/entry/flow.ts in the window, joined by a port.  The worker listens
   for the port of the prompt's key until one connects, then hears heartbeats
   and the answer over it, and takes a port that is gone for a cancelled prompt
   unless a port connects within a second.  FlowLane models who may prompt.   *)
EXTENDS Naturals, Sequences

CONSTANTS
    Prompt,     \* prompts, of different tabs
    MayReload,  \* prompts whose window the user may reload, once each
    Overlap,    \* may a window connect within a second of another's end?
    LateAnswer, \* may the worker give up on a window that is just answering?
    MayFail     \* may a window not open, or be closed before it connects?

ASSUME ConstantsAssumption ==
    /\ MayReload \subseteq Prompt
    /\ {Overlap, LateAnswer, MayFail} \subseteq BOOLEAN

VARIABLES
    promise,   \* what open_flow_query() has resolved with
    listening, \* prompts whose port listener is registered
    port,      \* the port that the listener has taken
    armed,     \* prompts whose pulse monitor has a timer
    grace,     \* prompts whose port is gone for less than a second
    win,       \* the window
    heard,     \* windows connected over the port that the worker has taken
    said,      \* what the window has submitted since it was last loaded
    wire,      \* messages of the window that the worker has not handled
    ack,       \* acknowledgements that the window has not seen
    first,     \* history: the first answer, unless the worker had given up by then
    reloaded   \* prompts whose window has been reloaded

service == <<promise, listening, port, armed, grace>>
window == <<win, heard, said, reloaded>>
vars == <<service, window, wire, ack, first>>

Reply == {"answer", "error"}

TypeOK ==
    /\ promise \in [Prompt -> {"none", "pending", "cancel"} \union Reply]
    /\ listening \subseteq Prompt /\ armed \subseteq Prompt
    /\ grace \subseteq Prompt /\ heard \subseteq Prompt /\ ack \subseteq Prompt
    /\ port \in [Prompt -> {"none", "open", "closed"}]
    /\ win \in [Prompt -> {"none", "opening", "failed", "open", "closing", "gone"}]
    /\ said \in [Prompt -> {"none"} \union Reply]
    /\ wire \in [Prompt -> Seq(Reply \union {"beat", "bye"})]
    /\ first \in [Prompt -> {"none"} \union Reply]
    /\ reloaded \subseteq MayReload

Init ==
    /\ promise = [p \in Prompt |-> "none"]
    /\ listening = {} /\ armed = {} /\ grace = {} /\ heard = {} /\ ack = {}
    /\ port = [p \in Prompt |-> "none"]
    /\ win = [p \in Prompt |-> "none"]
    /\ said = [p \in Prompt |-> "none"]
    /\ wire = [p \in Prompt |-> <<>>]
    /\ first = [p \in Prompt |-> "none"]
    /\ reloaded = {}

-----------------------------------------------------------------------------
Set(f, p, v) == [f EXCEPT ![p] = v]

(* A promise resolves once.  A mutant lets the last one win.                 *)
ResolvedLast(p, v) == Set(promise, p, v)
Resolved(p, v) == IF promise[p] = "pending" THEN Set(promise, p, v) ELSE promise

(* What the window posts is lost unless the worker has taken its port.       *)
Posted(p, m) ==
    IF p \in heard /\ port[p] = "open" THEN [wire EXCEPT ![p] = Append(@, m)]
    ELSE wire

(* The worker registers its listener and opens a window.  If that throws,
   nobody is told, and the listener stays.                                   *)
Launch(p) ==
    /\ promise[p] = "none"
    /\ promise' = Set(promise, p, "pending")
    /\ listening' = listening \union {p}
    /\ \/ win' = Set(win, p, "opening")
       \/ MayFail /\ win' = Set(win, p, "failed")
    /\ UNCHANGED <<port, armed, grace, heard, said, reloaded, wire, ack, first>>

(* The window's script connects.  The listener for its key, if it still is
   there, takes the port and is removed.  Every port that connects, whosever it
   is, ends the wait of all prompts whose port is gone, and with it their
   monitor.  If nobody listens at all, the browser closes the port again, and
   the window closes.                                                        *)
Reprieve == grace' = {} /\ armed' = armed \ grace
Connect(p) ==
    /\ win[p] = "opening" /\ wire[p] = <<>>
    /\ Overlap \/ grace \subseteq {p}
    /\ IF p \in listening
       THEN /\ listening' = listening \ {p}
            /\ heard' = heard \union {p}
            /\ port' = Set(port, p, "open")
       ELSE UNCHANGED <<listening, heard, port>>
    /\ win' = Set(win, p, IF listening \union grace = {} THEN "gone" ELSE "open")
    /\ Reprieve
    /\ UNCHANGED <<promise, said, reloaded, wire, ack, first>>

(* The first heartbeat counts: it starts the monitor, and the others keep it
   waiting.                                                                  *)
Beat(p) ==
    /\ win[p] = "open" /\ p \in heard \ armed
    /\ port[p] = "open" /\ wire[p] = <<>>
    /\ wire' = Posted(p, "beat")
    /\ UNCHANGED <<service, window, ack, first>>

(* The user answers, or the screen throws.                                   *)
Submit(p, v) ==
    /\ win[p] = "open" /\ said[p] = "none"
    /\ said' = Set(said, p, v)
    /\ wire' = Posted(p, v)
    /\ first' = IF first[p] = "none" /\ promise[p] = "pending"
                THEN Set(first, p, v) ELSE first
    /\ UNCHANGED <<service, win, heard, reloaded, ack>>

(* The window closes itself once its answer is acknowledged, or 1.5 s later.
   The acknowledgement of an error has the wrong name: such a window stays.  *)
CloseSelf(p) ==
    /\ win[p] = "open" /\ said[p] = "answer"
    /\ win' = Set(win, p, "gone")
    /\ wire' = Posted(p, "bye")
    /\ ack' = ack \ {p}
    /\ UNCHANGED <<service, heard, said, reloaded, first>>
Ignore(p) ==
    /\ p \in ack /\ said[p] = "error"
    /\ ack' = ack \ {p}
    /\ UNCHANGED <<service, window, wire, first>>

(* The user closes the window, or reloads it: the page starts over with the
   same key.                                                                 *)
UserCloses(p) ==
    /\ \/ win[p] = "open"
       \/ win[p] = "opening" /\ (MayFail \/ p \in reloaded)
    /\ win' = Set(win, p, "gone")
    /\ wire' = Posted(p, "bye")
    /\ ack' = ack \ {p}
    /\ UNCHANGED <<service, heard, said, reloaded, first>>
Reload(p) ==
    /\ win[p] = "open" /\ p \in MayReload \ reloaded
    /\ reloaded' = reloaded \union {p}
    /\ win' = Set(win, p, "opening")
    /\ wire' = Posted(p, "bye")
    /\ heard' = heard \ {p}
    /\ said' = Set(said, p, "none")
    /\ ack' = ack \ {p}
    /\ UNCHANGED <<service, first>>

(* The worker has closed the port: the window closes.                        *)
Dropped(p) ==
    /\ win[p] = "open" /\ p \in heard /\ port[p] = "closed"
    /\ win' = Set(win, p, "gone")
    /\ UNCHANGED <<service, heard, said, reloaded, wire, ack, first>>

-----------------------------------------------------------------------------
(* The worker handles the next message.                                      *)
Handle(p) ==
    /\ wire[p] # <<>>
    /\ wire' = [wire EXCEPT ![p] = Tail(@)]
    /\ LET m == Head(wire[p])
       IN  \/ /\ m = "beat"
              /\ armed' = armed \union {p}
              /\ UNCHANGED <<promise, port, grace, ack>>
           \/ /\ m \in Reply
              /\ promise' = Resolved(p, m)
              /\ ack' = IF win[p] = "open" /\ p \in heard THEN ack \union {p} ELSE ack
              /\ UNCHANGED <<port, armed, grace>>
           \/ /\ m = "bye"
              /\ port' = Set(port, p, "closed")
              /\ grace' = grace \union {p}
              /\ UNCHANGED <<promise, armed, ack>>
    /\ UNCHANGED <<listening, window, first>>

(* shutdown(): a prompt that has not responded counts as cancelled.          *)
Shutdown(p) ==
    /\ promise' = Resolved(p, "cancel")
    /\ armed' = armed \ {p}

(* No port has connected for a second.  A mutant only stops the monitor.     *)
GraceForgets(p) ==
    /\ p \in grace
    /\ grace' = grace \ {p}
    /\ armed' = armed \ {p}
    /\ UNCHANGED <<promise, listening, port, window, wire, ack, first>>
GraceEnds(p) ==
    /\ p \in grace
    /\ grace' = grace \ {p}
    /\ Shutdown(p)
    /\ UNCHANGED <<listening, port, window, wire, ack, first>>

(* No heartbeat for 5 seconds: the worker closes the port.  A mutant does not. *)
TardyOnly(p) ==
    /\ p \in armed
    /\ LateAnswer \/ wire[p] = <<>>
    /\ Shutdown(p)
    /\ UNCHANGED <<listening, port, grace, window, wire, ack, first>>
Tardy(p) ==
    /\ p \in armed
    /\ LateAnswer \/ wire[p] = <<>>
    /\ Shutdown(p)
    /\ port' = Set(port, p, "closed")
    /\ wire' = Set(wire, p, <<>>)
    /\ UNCHANGED <<listening, grace, window, ack, first>>

-----------------------------------------------------------------------------
Worker(p) == Handle(p) \/ GraceEnds(p)
Page(p) == Connect(p) \/ CloseSelf(p) \/ Ignore(p) \/ Dropped(p)

Next ==
    \E p \in Prompt :
        \/ Launch(p) \/ Beat(p) \/ UserCloses(p) \/ Reload(p) \/ Tardy(p)
        \/ \E v \in Reply : Submit(p, v)
        \/ Worker(p) \/ Page(p)

Spec == Init /\ [][Next]_vars

(* Events are handled and timers fire; users need not do anything.           *)
Fairness == \A p \in Prompt : WF_vars(Worker(p)) /\ WF_vars(Page(p))
FairSpec == Spec /\ Fairness

-----------------------------------------------------------------------------
(* The worker reports what the user answered first, and reports a prompt as
   cancelled ("flow never responded", msg-flow.ts:75) only if it was not
   answered.                                                                 *)
AnswerStands ==
    \A p \in Prompt :
        /\ promise[p] = "cancel" => first[p] = "none"
        /\ promise[p] \in Reply => promise[p] = first[p]

(* Once the window is gone, open_flow_query() resolves, so that its lane is
   freed.                                                                    *)
EverySettles == \A p \in Prompt : win[p] = "gone" ~> promise[p] # "pending"

(* It does, if the window was not reloaded.                                  *)
GoneSettles ==
    \A p \in Prompt : win[p] = "gone" ~> promise[p] # "pending" \/ p \in reloaded

(* No window that was not reloaded is left open for a prompt that the worker
   has given up: its answer would be lost.                                   *)
CancelCloses ==
    \A p \in Prompt : promise[p] = "cancel" ~> win[p] = "gone" \/ p \in reloaded
=============================================================================
