------------------------------- MODULE Reply -------------------------------
(***************************************************************************)
(* Acting on a session through tmux: Reply and OpenInTmux                  *)
(* (internal/actions/reply.go, session.go), and the cockpit's own          *)
(* openResumeWindow (internal/tui/app.go).  All of them share one hidden   *)
(* tmux session, run in as many goroutines as there are requests, hold no  *)
(* lock, and find a reply's window again by its name only.                 *)
(*                                                                         *)
(* External: tmux, which refuses a name that two windows have, and         *)
(* duplicate sessions; and the claude session behind a window, whose       *)
(* screen changes on its own and under the hands of humans elsewhere.      *)
(*                                                                         *)
(* A command of tmux may fail, or be killed with its caller's context,     *)
(* before or after it has had its effect; once the context is over every   *)
(* further command fails but the deferred kill-window, which has a context *)
(* of its own.  Deadlines are not counted: a poll may be the last.         *)
(***************************************************************************)
EXTENDS FiniteSets

CONSTANTS Callers,      \* the requests
          Sessions,     \* sessions with a background id
          Digit,        \* callers whose text is a choice number
          Lens          \* lengths a captured screen may have

Error == "error"

ASSUME ReplyAssumption == Digit \subseteq Callers /\ Error \notin Lens

VARIABLES
    hidden,     \* the tmux session clauditor exists
    windows,    \* its windows: their owners
    screen,     \* screen[s]: what session s shows, and its length
    op, of,     \* what a caller does, to which session: fixed
    pc,         \* its next step
    cancelled,  \* its context is over
    before,     \* the length captured before its text was sent
    result,     \* what it has been told
    typed,      \* history: callers whose text was taken by tmux
    entered,    \* history: callers whose Enter was taken
    tangled     \* history: sessions with a window nobody may be able to name or close

world  == <<hidden, windows, screen>>
fixed  == <<op, of>>
ghosts == <<typed, entered, tangled>>
vars   == <<world, fixed, pc, cancelled, before, result, ghosts>>

Kinds   == {"busy", "free", "choice", "permission"}
Prompts == Kinds \ {"busy"}
Results == {"none", "ok", "timeout", "permission_prompt", "bad_request", "exec_failed",
            "delivery_unverified"}
Steps   == {"has", "session", "window", "wait", "before", "text", "enter", "verify", "kill", "done"}

TypeOK ==
    /\ hidden \in BOOLEAN
    /\ windows \subseteq Callers
    /\ screen \in [Sessions -> [kind : Kinds, len : Lens]]
    /\ op \in [Callers -> {"reply", "open"}] /\ of \in [Callers -> Sessions]
    /\ pc \in [Callers -> Steps]
    /\ cancelled \subseteq Callers
    /\ before \in [Callers -> Lens \cup {Error}]
    /\ result \in [Callers -> Results]
    /\ entered \subseteq typed /\ typed \subseteq Callers
    /\ tangled \subseteq Sessions

-----------------------------------------------------------------------------
(* tmux. *)

(* The windows named reply-<id>. *)
Named(s) == {w \in windows : op[w] = "reply" /\ of[w] = s}

(* The name reply-<id> stands for one window. *)
Found(c) == Cardinality(Named(of[c])) = 1

Goto(c, step) == pc' = [pc EXCEPT ![c] = step]
Over(c)       == Goto(c, "done") /\ cancelled' = cancelled \ {c}
Ends(c, r)    == Over(c) /\ result' = [result EXCEPT ![c] = r]
Gives(c, r)   == pc' = [pc EXCEPT ![c] = "kill"] /\ result' = [result EXCEPT ![c] = r]

(* What the session makes of a key: it may take it, and the screen may change. *)
Takes(c) ==
    \E len \in Lens, kind \in Kinds : screen' = [screen EXCEPT ![of[c]] = [kind |-> kind, len |-> len]]

-----------------------------------------------------------------------------
(* The hidden session and the window. *)

(* A text that is empty or names a denied flag, an id that is none. *)
Refused(c) ==
    /\ pc[c] = "has"
    /\ Ends(c, "bad_request")
    /\ UNCHANGED <<world, fixed, before, ghosts>>

HasSession(c) ==
    /\ pc[c] = "has"
    /\ \/ hidden /\ c \notin cancelled /\ Goto(c, "window")
       \/ Goto(c, "session")
    /\ UNCHANGED <<world, fixed, cancelled, before, result, ghosts>>

NewSession(c) ==
    /\ pc[c] = "session"
    /\ \/ /\ ~hidden /\ c \notin cancelled
          /\ hidden' = TRUE
          /\ Goto(c, "window") /\ UNCHANGED <<cancelled, result>>
       \/ /\ hidden' \in {hidden, hidden \/ c \notin cancelled}
          /\ Ends(c, "exec_failed")
    /\ UNCHANGED <<windows, screen, fixed, before, ghosts>>

Opened(c) ==
    /\ windows' = windows \cup {c}
    /\ tangled' = IF Named(of[c]) # {} /\ op[c] = "reply" THEN tangled \cup {of[c]} ELSE tangled

NewWindow(c) ==
    /\ pc[c] = "window" /\ hidden /\ c \notin cancelled
    /\ Opened(c)
    /\ IF op[c] = "reply" THEN Goto(c, "wait") /\ UNCHANGED <<cancelled, result>> ELSE Ends(c, "ok")
    /\ UNCHANGED <<hidden, screen, fixed, before, typed, entered>>

(* Killed with its context when the window may be there already: nothing is   *)
(* deferred yet.                                                              *)
NewWindowFails(c) ==
    /\ pc[c] = "window"
    /\ \/ UNCHANGED <<windows, tangled>>
       \/ /\ hidden /\ c \notin cancelled
          /\ windows' = windows \cup {c}
          /\ tangled' = IF op[c] = "reply" THEN tangled \cup {of[c]} ELSE tangled
    /\ Ends(c, "exec_failed")
    /\ UNCHANGED <<hidden, screen, fixed, before, typed, entered>>

-----------------------------------------------------------------------------
(* The reply. *)

CanLook(c) == Found(c) /\ c \notin cancelled

(* A plausible slip: a refusal returns at once. *)
ClassifyOnly(c) ==
    /\ pc[c] = "wait" /\ CanLook(c)
    /\ LET kind == screen[of[c]].kind
       IN  /\ kind \in Prompts
           /\ CASE kind = "permission"                    -> Ends(c, "permission_prompt")
                [] kind = "choice" /\ c \notin Digit      -> Ends(c, "bad_request")
                [] kind = "free" \/ (kind = "choice" /\ c \in Digit) ->
                        Goto(c, "before") /\ UNCHANGED <<cancelled, result>>
    /\ UNCHANGED <<world, fixed, before, ghosts>>

(* waitForPrompt and classifyScreen. *)
Classify(c) ==
    /\ pc[c] = "wait" /\ CanLook(c)
    /\ LET kind == screen[of[c]].kind
       IN  /\ kind \in Prompts
           /\ CASE kind = "permission"                    -> Gives(c, "permission_prompt")
                [] kind = "choice" /\ c \notin Digit      -> Gives(c, "bad_request")
                [] kind = "free" \/ (kind = "choice" /\ c \in Digit) ->
                        Goto(c, "before") /\ UNCHANGED result
    /\ UNCHANGED <<world, fixed, cancelled, before, ghosts>>

(* A plausible slip: who has waited in vain starts over. *)
WaitAgain(c) ==
    /\ pc[c] = "wait"
    /\ Goto(c, "has")
    /\ UNCHANGED <<world, fixed, cancelled, before, result, ghosts>>

(* The deadline of 15 s, or the end of the context. *)
WaitEnds(c) ==
    /\ pc[c] = "wait"
    /\ Gives(c, "timeout")
    /\ UNCHANGED <<world, fixed, cancelled, before, ghosts>>

CaptureBefore(c) ==
    /\ pc[c] = "before"
    /\ \E l \in {Error} \cup (IF CanLook(c) THEN {screen[of[c]].len} ELSE {}) :
          before' = [before EXCEPT ![c] = l]
    /\ Goto(c, "text")
    /\ UNCHANGED <<world, fixed, cancelled, result, ghosts>>

(* A plausible slip: Enter is sent whether the text was taken or not. *)
SendTextAnyway(c) ==
    /\ pc[c] = "text"
    /\ \/ /\ Found(c) /\ c \notin cancelled
          /\ Takes(c) /\ typed' = typed \cup {c}
       \/ UNCHANGED <<screen, typed>>
    /\ Goto(c, "enter")
    /\ UNCHANGED <<hidden, windows, fixed, cancelled, before, result, entered, tangled>>

(* send-keys, the text and then, 300 ms later, Enter: taken or failed, or both. *)
SendText(c) ==
    /\ pc[c] = "text"
    /\ \/ /\ Found(c) /\ c \notin cancelled
          /\ Takes(c) /\ typed' = typed \cup {c}
          /\ \/ Goto(c, "enter") /\ UNCHANGED result
             \/ Gives(c, "exec_failed")
       \/ /\ Gives(c, "exec_failed")
          /\ UNCHANGED <<screen, typed>>
    /\ UNCHANGED <<hidden, windows, fixed, cancelled, before, entered, tangled>>

(* A plausible slip: an Enter that failed is verified like one that was taken. *)
SendEnterAnyway(c) ==
    /\ pc[c] = "enter"
    /\ \/ /\ Found(c) /\ c \notin cancelled
          /\ Takes(c) /\ entered' = entered \cup {c}
       \/ UNCHANGED <<screen, entered>>
    /\ Goto(c, "verify")
    /\ UNCHANGED <<hidden, windows, fixed, cancelled, before, result, typed, tangled>>

SendEnter(c) ==
    /\ pc[c] = "enter"
    /\ \/ /\ Found(c) /\ c \notin cancelled
          /\ Takes(c) /\ entered' = entered \cup {c}
          /\ \/ Goto(c, "verify") /\ UNCHANGED result
             \/ Gives(c, "exec_failed")
       \/ /\ Gives(c, "exec_failed")
          /\ UNCHANGED <<screen, entered>>
    /\ UNCHANGED <<hidden, windows, fixed, cancelled, before, typed, tangled>>

(* The screen is not as long as before; a capture that failed says nothing. *)
Verify(c) ==
    /\ pc[c] = "verify" /\ CanLook(c)
    /\ before[c] # Error /\ screen[of[c]].len # before[c]
    /\ Gives(c, "ok")
    /\ UNCHANGED <<world, fixed, cancelled, before, ghosts>>

VerifyEnds(c) ==
    /\ pc[c] = "verify"
    /\ Gives(c, "delivery_unverified")
    /\ UNCHANGED <<world, fixed, cancelled, before, ghosts>>

(* Deferred, with 5 s of its own, which tmux is taken not to need.  A window   *)
(* that cannot be named stays.                                                *)
KillWindow(c) ==
    /\ pc[c] = "kill"
    /\ windows' = IF Found(c) THEN windows \ Named(of[c]) ELSE windows
    /\ Over(c) /\ before' = [before EXCEPT ![c] = Error]
    /\ UNCHANGED <<hidden, screen, fixed, result, ghosts>>

-----------------------------------------------------------------------------
(* The environment. *)

(* The client goes away, or its timeout is over: 1.5 s for the cockpit with a *)
(* daemon, 4 s without.                                                       *)
Cancel(c) ==
    /\ pc[c] \notin {"kill", "done"} /\ c \notin cancelled
    /\ cancelled' = cancelled \cup {c}
    /\ UNCHANGED <<world, fixed, pc, before, result, ghosts>>

(* The daemon is killed or the cockpit quits: nothing deferred is run. *)
Dies(c) ==
    /\ pc[c] # "done"
    /\ Over(c) /\ before' = [before EXCEPT ![c] = Error]
    /\ tangled' = IF c \in windows /\ op[c] = "reply" THEN tangled \cup {of[c]} ELSE tangled
    /\ UNCHANGED <<world, fixed, result, typed, entered>>

(* claude attach ends, and its window with it. *)
AttachEnds(w) ==
    /\ w \in windows
    /\ windows' = windows \ {w}
    /\ UNCHANGED <<hidden, screen, fixed, pc, cancelled, before, result, ghosts>>

(* Claude goes on, or a human answers it elsewhere. *)
ScreenChanges(s) ==
    /\ \E kind \in Kinds, len \in Lens : screen' = [screen EXCEPT ![s] = [kind |-> kind, len |-> len]]
    /\ UNCHANGED <<hidden, windows, fixed, pc, cancelled, before, result, ghosts>>

Init ==
    /\ hidden \in BOOLEAN
    /\ windows = {}
    /\ screen \in [Sessions -> [kind : Kinds, len : Lens]]
    /\ op \in [Callers -> {"reply", "open"}] /\ of \in [Callers -> Sessions]
    /\ pc = [c \in Callers |-> "has"]
    /\ cancelled = {}
    /\ before = [c \in Callers |-> Error]
    /\ result = [c \in Callers |-> "none"]
    /\ typed = {} /\ entered = {} /\ tangled = {}

Step(c) ==
    \/ Refused(c) \/ HasSession(c) \/ NewSession(c) \/ NewWindow(c) \/ NewWindowFails(c)
    \/ Classify(c) \/ WaitEnds(c)
    \/ CaptureBefore(c) \/ SendText(c) \/ SendEnter(c)
    \/ Verify(c) \/ VerifyEnds(c)
    \/ KillWindow(c)

Next ==
    \/ \E c \in Callers : Step(c) \/ Cancel(c) \/ Dies(c) \/ AttachEnds(c)
    \/ \E s \in Sessions : ScreenChanges(s)

Spec == Init /\ [][Next]_vars

(* A call that can go on does. *)
GoesOn(c) == WF_vars(Step(c))
FairSpec  == Spec /\ \A c \in Callers : GoesOn(c)

-----------------------------------------------------------------------------
(* Properties. *)

(* The answer tells what may have happened: after timeout, permission_prompt  *)
(* and bad_request no key was sent and the call may be repeated; after ok and *)
(* delivery_unverified text and Enter were both taken; whatever else ran at   *)
(* the same time, and wherever the context ended                              *)
(* (reply.go:49-90, server.go:56-74).                                         *)
AnswerTells ==
    \A c \in Callers : op[c] = "reply" =>
        /\ result[c] \in {"timeout", "permission_prompt", "bad_request"} => c \notin typed
        /\ result[c] \in {"ok", "delivery_unverified"} => c \in entered

(* A reply that has ended leaves no window, unless two windows of the session *)
(* have existed at once, new-window was cut off or the process died; then the *)
(* name may never be of use again (reply.go:36-47).                           *)
WindowGone ==
    \A w \in windows : op[w] = "reply" /\ pc[w] = "done" => of[w] \in tangled

(* A call that has not ended can always go on: it holds out for no window, no *)
(* prompt, no change of the screen and no other call, and whatever state they *)
(* have left tmux in has a way out (reply.go:36-90).                          *)
NeverStuck == \A c \in Callers : pc[c] # "done" => ENABLED <<Step(c)>>_vars

(* Every call comes to an end, although the prompt may never show and the     *)
(* screen never change (reply.go:49-53, 78-90), and has a next step till then. *)
EveryCallEnds ==
    /\ []NeverStuck
    /\ \A c \in Callers : <>(pc[c] = "done")

(* "Permission prompts: clauditor refuses to answer these remotely by         *)
(* default" (docs/REPLY.md:59).                                               *)
PermissionNeverAnswered ==
    [][\A c \in Callers : c \in (typed' \ typed) \cup (entered' \ entered)
                              => screen[of[c]].kind # "permission"]_vars
=============================================================================
