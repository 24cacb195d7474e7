---------------------------- MODULE ReplyProofs ----------------------------
(***************************************************************************)
(* Proofs about Reply, for every set of callers, of sessions and of        *)
(* lengths a screen may have.                                              *)
(***************************************************************************)
EXTENDS Reply, FiniteSetTheorems, TLAPS

USE ReplyAssumption

(* What has been sent by the time a call is at a step. *)
KeysSent(c) ==
    /\ pc[c] \in {"has", "session", "window", "wait", "before", "text"} => c \notin typed
    /\ pc[c] = "enter" => c \in typed
    /\ pc[c] = "verify" => c \in entered
    /\ pc[c] \notin {"kill", "done"} => result[c] = "none"
    /\ result[c] \in {"timeout", "permission_prompt", "bad_request"} => c \notin typed
    /\ op[c] = "reply" /\ result[c] \in {"ok", "delivery_unverified"} => c \in entered

KeyInv == TypeOK /\ \A c \in Callers : KeysSent(c)

(* The ends of a call, and its steps, have their types. *)
LEMMA GotoTyped ==
    ASSUME TypeOK, NEW c \in Callers, NEW step \in Steps, Goto(c, step)
    PROVE  /\ pc' \in [Callers -> Steps]
           /\ pc'[c] = step
           /\ \A d \in Callers \ {c} : pc'[d] = pc[d]
  BY DEF Goto, TypeOK

LEMMA OverTyped ==
    ASSUME TypeOK, NEW c \in Callers, Over(c)
    PROVE  /\ pc' \in [Callers -> Steps] /\ cancelled' \subseteq Callers
           /\ pc'[c] = "done"
           /\ \A d \in Callers \ {c} : pc'[d] = pc[d]
  BY GotoTyped DEF Over, TypeOK, Steps

LEMMA EndsTyped ==
    ASSUME TypeOK, NEW c \in Callers, NEW r \in Results, Ends(c, r)
    PROVE  /\ pc' \in [Callers -> Steps] /\ cancelled' \subseteq Callers
           /\ result' \in [Callers -> Results]
           /\ pc'[c] = "done" /\ result'[c] = r
           /\ \A d \in Callers \ {c} : pc'[d] = pc[d] /\ result'[d] = result[d]
  BY OverTyped DEF Ends, TypeOK

LEMMA GivesTyped ==
    ASSUME TypeOK, NEW c \in Callers, NEW r \in Results, Gives(c, r)
    PROVE  /\ pc' \in [Callers -> Steps]
           /\ result' \in [Callers -> Results]
           /\ pc'[c] = "kill" /\ result'[c] = r
           /\ \A d \in Callers \ {c} : pc'[d] = pc[d] /\ result'[d] = result[d]
  BY DEF Gives, TypeOK, Steps

LEMMA TakesTyped ==
    ASSUME TypeOK, NEW c \in Callers, Takes(c)
    PROVE  screen' \in [Sessions -> [kind : Kinds, len : Lens]]
  BY DEF Takes, TypeOK

(* A step keeps the other calls' part of the invariant. *)
LEMMA KeysSentKept ==
    ASSUME NEW c \in Callers, NEW d \in Callers \ {c}, KeysSent(d), op' = op,
           pc'[d] = pc[d], result'[d] = result[d],
           typed' \in {typed, typed \cup {c}}, entered' \in {entered, entered \cup {c}}
    PROVE  KeysSent(d)'
  BY DEF KeysSent

-----------------------------------------------------------------------------
LEMMA InitKeys == Init => KeyInv
  BY DEF Init, KeyInv, TypeOK, KeysSent, Steps, Results

(* The hidden session and the window, before anything is sent. *)
LEMMA OpeningKeys ==
    ASSUME KeyInv, NEW c \in Callers,
           Refused(c) \/ HasSession(c) \/ NewSession(c) \/ NewWindow(c) \/ NewWindowFails(c)
    PROVE  KeyInv'
<1> USE DEF KeyInv
<1>1. CASE Refused(c)
  <2>1. "bad_request" \in Results
    BY DEF Results
  <2>2. TypeOK'
    BY <1>1, <2>1, EndsTyped DEF Refused, TypeOK, world, fixed, ghosts
  <2>3. KeysSent(c)'
    BY <1>1, <2>1, EndsTyped DEF Refused, KeysSent, fixed, ghosts
  <2>4. \A d \in Callers \ {c} : KeysSent(d)'
    BY <1>1, <2>1, EndsTyped, KeysSentKept DEF Refused, fixed, ghosts
  <2> QED
    BY <2>2, <2>3, <2>4
<1>2. CASE HasSession(c)
  <2>1. PICK step \in {"window", "session"} : Goto(c, step)
    BY <1>2 DEF HasSession
  <2>2. step \in Steps
    BY DEF Steps
  <2>3. TypeOK'
    BY <1>2, <2>1, <2>2, GotoTyped DEF HasSession, TypeOK, world, fixed, ghosts
  <2>4. KeysSent(c)'
    BY <1>2, <2>1, <2>2, GotoTyped DEF HasSession, KeysSent, fixed, ghosts
  <2>5. \A d \in Callers \ {c} : KeysSent(d)'
    BY <1>2, <2>1, <2>2, GotoTyped, KeysSentKept DEF HasSession, fixed, ghosts
  <2> QED
    BY <2>3, <2>4, <2>5
<1>3. CASE NewSession(c)
  <2>1. "exec_failed" \in Results /\ "window" \in Steps
    BY DEF Results, Steps
  <2>2. CASE Goto(c, "window") /\ hidden' = TRUE /\ UNCHANGED <<cancelled, result>>
    <3>1. TypeOK'
      BY <1>3, <2>1, <2>2, GotoTyped DEF NewSession, TypeOK, fixed, ghosts
    <3>2. KeysSent(c)'
      BY <1>3, <2>1, <2>2, GotoTyped DEF NewSession, KeysSent, fixed, ghosts
    <3>3. \A d \in Callers \ {c} : KeysSent(d)'
      BY <1>3, <2>1, <2>2, GotoTyped, KeysSentKept DEF NewSession, fixed, ghosts
    <3> QED
      BY <3>1, <3>2, <3>3
  <2>3. CASE Ends(c, "exec_failed") /\ hidden' \in BOOLEAN
    <3>1. TypeOK'
      BY <1>3, <2>1, <2>3, EndsTyped DEF NewSession, TypeOK, fixed, ghosts
    <3>2. KeysSent(c)'
      BY <1>3, <2>1, <2>3, EndsTyped DEF NewSession, KeysSent, fixed, ghosts
    <3>3. \A d \in Callers \ {c} : KeysSent(d)'
      BY <1>3, <2>1, <2>3, EndsTyped, KeysSentKept DEF NewSession, fixed, ghosts
    <3> QED
      BY <3>1, <3>2, <3>3
  <2> QED
    BY <1>3, <2>2, <2>3 DEF NewSession, TypeOK
<1>4. CASE NewWindow(c)
  <2>1. "ok" \in Results /\ "wait" \in Steps
    BY DEF Results, Steps
  <2>2. windows' \subseteq Callers /\ tangled' \subseteq Sessions
    BY <1>4 DEF NewWindow, Opened, TypeOK
  <2>3. CASE op[c] = "reply"
    <3>1. TypeOK'
      BY <1>4, <2>1, <2>2, <2>3, GotoTyped DEF NewWindow, TypeOK, fixed
    <3>2. KeysSent(c)'
      BY <1>4, <2>1, <2>3, GotoTyped DEF NewWindow, KeysSent, fixed
    <3>3. \A d \in Callers \ {c} : KeysSent(d)'
      BY <1>4, <2>1, <2>3, GotoTyped, KeysSentKept DEF NewWindow, fixed
    <3> QED
      BY <3>1, <3>2, <3>3
  <2>4. CASE op[c] # "reply"
    <3>1. TypeOK'
      BY <1>4, <2>1, <2>2, <2>4, EndsTyped DEF NewWindow, TypeOK, fixed
    <3>2. KeysSent(c)'
      BY <1>4, <2>1, <2>4, EndsTyped DEF NewWindow, KeysSent, fixed
    <3>3. \A d \in Callers \ {c} : KeysSent(d)'
      BY <1>4, <2>1, <2>4, EndsTyped, KeysSentKept DEF NewWindow, fixed
    <3> QED
      BY <3>1, <3>2, <3>3
  <2> QED
    BY <2>3, <2>4
<1>5. CASE NewWindowFails(c)
  <2>1. "exec_failed" \in Results
    BY DEF Results
  <2>2. windows' \subseteq Callers /\ tangled' \subseteq Sessions
    BY <1>5 DEF NewWindowFails, TypeOK
  <2>3. TypeOK'
    BY <1>5, <2>1, <2>2, EndsTyped DEF NewWindowFails, TypeOK, fixed
  <2>4. KeysSent(c)'
    BY <1>5, <2>1, EndsTyped DEF NewWindowFails, KeysSent, fixed
  <2>5. \A d \in Callers \ {c} : KeysSent(d)'
    BY <1>5, <2>1, EndsTyped, KeysSentKept DEF NewWindowFails, fixed
  <2> QED
    BY <2>3, <2>4, <2>5
<1> QED
  BY <1>1, <1>2, <1>3, <1>4, <1>5

(* The reply: classification, text, Enter and verification.                   *)
LEMMA SendingKeys ==
    ASSUME KeyInv, NEW c \in Callers,
           \/ Classify(c) \/ WaitEnds(c) \/ CaptureBefore(c)
           \/ SendText(c) \/ SendEnter(c) \/ Verify(c) \/ VerifyEnds(c)
    PROVE  KeyInv'
<1> USE DEF KeyInv
<1>1. /\ "permission_prompt" \in Results /\ "bad_request" \in Results /\ "timeout" \in Results
      /\ "exec_failed" \in Results /\ "ok" \in Results /\ "delivery_unverified" \in Results
      /\ "before" \in Steps /\ "text" \in Steps /\ "enter" \in Steps /\ "verify" \in Steps
  BY DEF Results, Steps
<1>2. CASE Classify(c)
  <2>1. \/ \E r \in {"permission_prompt", "bad_request"} : Gives(c, r)
        \/ Goto(c, "before") /\ UNCHANGED result
    BY <1>2 DEF Classify, Prompts, Kinds
  <2>2. TypeOK'
    BY <1>1, <1>2, <2>1, GivesTyped, GotoTyped DEF Classify, TypeOK, world, fixed, ghosts
  <2>3. KeysSent(c)'
    BY <1>1, <1>2, <2>1, GivesTyped, GotoTyped DEF Classify, KeysSent, fixed, ghosts
  <2>4. \A d \in Callers \ {c} : KeysSent(d)'
    BY <1>1, <1>2, <2>1, GivesTyped, GotoTyped, KeysSentKept DEF Classify, fixed, ghosts
  <2> QED
    BY <2>2, <2>3, <2>4
<1>3. CASE WaitEnds(c)
  <2>1. TypeOK'
    BY <1>1, <1>3, GivesTyped DEF WaitEnds, TypeOK, world, fixed, ghosts
  <2>2. KeysSent(c)'
    BY <1>1, <1>3, GivesTyped DEF WaitEnds, KeysSent, fixed, ghosts
  <2>3. \A d \in Callers \ {c} : KeysSent(d)'
    BY <1>1, <1>3, GivesTyped, KeysSentKept DEF WaitEnds, fixed, ghosts
  <2> QED
    BY <2>1, <2>2, <2>3
<1>4. CASE CaptureBefore(c)
  <2>1. before' \in [Callers -> Lens \cup {Error}]
    BY <1>4 DEF CaptureBefore, TypeOK
  <2>2. TypeOK'
    BY <1>1, <1>4, <2>1, GotoTyped DEF CaptureBefore, TypeOK, world, fixed, ghosts
  <2>3. KeysSent(c)'
    BY <1>1, <1>4, GotoTyped DEF CaptureBefore, KeysSent, fixed, ghosts
  <2>4. \A d \in Callers \ {c} : KeysSent(d)'
    BY <1>1, <1>4, GotoTyped, KeysSentKept DEF CaptureBefore, fixed, ghosts
  <2> QED
    BY <2>2, <2>3, <2>4
<1>5. CASE SendText(c)
  <2>1. /\ screen' \in [Sessions -> [kind : Kinds, len : Lens]]
        /\ typed' \in {typed, typed \cup {c}}
    BY <1>5, TakesTyped DEF SendText, TypeOK
  <2>2. CASE Goto(c, "enter") /\ typed' = typed \cup {c} /\ UNCHANGED result
    <3>1. TypeOK'
      BY <1>1, <1>5, <2>1, <2>2, GotoTyped DEF SendText, TypeOK, fixed
    <3>2. KeysSent(c)'
      BY <1>1, <1>5, <2>2, GotoTyped DEF SendText, KeysSent, fixed
    <3>3. \A d \in Callers \ {c} : KeysSent(d)'
      BY <1>1, <1>5, <2>2, GotoTyped, KeysSentKept DEF SendText, fixed
    <3> QED
      BY <3>1, <3>2, <3>3
  <2>3. CASE Gives(c, "exec_failed")
    <3>1. TypeOK'
      BY <1>1, <1>5, <2>1, <2>3, GivesTyped DEF SendText, TypeOK, fixed
    <3>2. KeysSent(c)'
      BY <1>1, <1>5, <2>3, GivesTyped DEF SendText, KeysSent, fixed
    <3>3. \A d \in Callers \ {c} : KeysSent(d)'
      BY <1>1, <1>5, <2>1, <2>3, GivesTyped, KeysSentKept DEF SendText, fixed
    <3> QED
      BY <3>1, <3>2, <3>3
  <2> QED
    BY <1>5, <2>2, <2>3 DEF SendText
<1>6. CASE SendEnter(c)
  <2>1. /\ screen' \in [Sessions -> [kind : Kinds, len : Lens]]
        /\ entered' \in {entered, entered \cup {c}}
        /\ c \in typed
    BY <1>6, TakesTyped DEF SendEnter, TypeOK, KeysSent
  <2>2. CASE Goto(c, "verify") /\ entered' = entered \cup {c} /\ UNCHANGED result
    <3>1. TypeOK'
      BY <1>1, <1>6, <2>1, <2>2, GotoTyped DEF SendEnter, TypeOK, fixed
    <3>2. KeysSent(c)'
      BY <1>1, <1>6, <2>2, GotoTyped DEF SendEnter, KeysSent, fixed
    <3>3. \A d \in Callers \ {c} : KeysSent(d)'
      BY <1>1, <1>6, <2>2, GotoTyped, KeysSentKept DEF SendEnter, fixed
    <3> QED
      BY <3>1, <3>2, <3>3
  <2>3. CASE Gives(c, "exec_failed")
    <3>1. TypeOK'
      BY <1>1, <1>6, <2>1, <2>3, GivesTyped DEF SendEnter, TypeOK, fixed
    <3>2. KeysSent(c)'
      BY <1>1, <1>6, <2>3, GivesTyped DEF SendEnter, KeysSent, fixed
    <3>3. \A d \in Callers \ {c} : KeysSent(d)'
      BY <1>1, <1>6, <2>1, <2>3, GivesTyped, KeysSentKept DEF SendEnter, fixed
    <3> QED
      BY <3>1, <3>2, <3>3
  <2> QED
    BY <1>6, <2>2, <2>3 DEF SendEnter
<1>7. CASE Verify(c) \/ VerifyEnds(c)
  <2>1. /\ pc[c] = "verify" /\ c \in entered /\ entered \subseteq typed
        /\ \E r \in {"ok", "delivery_unverified"} : Gives(c, r)
        /\ UNCHANGED <<world, fixed, cancelled, before, ghosts>>
    BY <1>7 DEF Verify, VerifyEnds, KeysSent, TypeOK
  <2>2. TypeOK'
    BY <1>1, <2>1, GivesTyped DEF TypeOK, world, fixed, ghosts
  <2>3. KeysSent(c)'
    BY <1>1, <2>1, GivesTyped DEF KeysSent, fixed, ghosts
  <2>4. \A d \in Callers \ {c} : KeysSent(d)'
    BY <1>1, <2>1, GivesTyped, KeysSentKept DEF fixed, ghosts
  <2> QED
    BY <2>2, <2>3, <2>4
<1> QED
  BY <1>2, <1>3, <1>4, <1>5, <1>6, <1>7

(* The end of a call, and what happens around it. *)
LEMMA EndingKeys ==
    ASSUME KeyInv, NEW c \in Callers, KillWindow(c) \/ Cancel(c) \/ Dies(c) \/ AttachEnds(c)
    PROVE  KeyInv'
<1> USE DEF KeyInv
<1>1. CASE KillWindow(c)
  <2>1. windows' \subseteq Callers /\ before' \in [Callers -> Lens \cup {Error}]
    BY <1>1 DEF KillWindow, TypeOK
  <2>2. TypeOK'
    BY <1>1, <2>1, OverTyped DEF KillWindow, TypeOK, fixed, ghosts
  <2>3. KeysSent(c)'
    BY <1>1, OverTyped DEF KillWindow, KeysSent, fixed, ghosts
  <2>4. \A d \in Callers \ {c} : KeysSent(d)'
    BY <1>1, OverTyped, KeysSentKept DEF KillWindow, fixed, ghosts
  <2> QED
    BY <2>2, <2>3, <2>4
<1>2. CASE Cancel(c)
  <2>1. TypeOK'
    BY <1>2 DEF Cancel, TypeOK, world, fixed, ghosts
  <2>2. \A d \in Callers : KeysSent(d)'
    BY <1>2 DEF Cancel, KeysSent, fixed, ghosts
  <2> QED
    BY <2>1, <2>2
<1>3. CASE Dies(c)
  <2>1. tangled' \subseteq Sessions /\ before' \in [Callers -> Lens \cup {Error}]
    BY <1>3 DEF Dies, TypeOK
  <2>2. TypeOK'
    BY <1>3, <2>1, OverTyped DEF Dies, TypeOK, world, fixed
  <2>3. KeysSent(c)'
    BY <1>3, OverTyped DEF Dies, KeysSent, fixed
  <2>4. \A d \in Callers \ {c} : KeysSent(d)'
    BY <1>3, OverTyped, KeysSentKept DEF Dies, fixed
  <2> QED
    BY <2>2, <2>3, <2>4
<1>4. CASE AttachEnds(c)
  <2>1. TypeOK'
    BY <1>4 DEF AttachEnds, TypeOK, fixed, ghosts
  <2>2. \A d \in Callers : KeysSent(d)'
    BY <1>4 DEF AttachEnds, KeysSent, fixed, ghosts
  <2> QED
    BY <2>1, <2>2
<1> QED
  BY <1>1, <1>2, <1>3, <1>4

LEMMA NextKeys == KeyInv /\ [Next]_vars => KeyInv'
<1> SUFFICES ASSUME KeyInv, [Next]_vars PROVE KeyInv'
  OBVIOUS
<1>1. ASSUME NEW c \in Callers, Step(c) PROVE KeyInv'
  BY <1>1, OpeningKeys, SendingKeys, EndingKeys DEF Step
<1>2. ASSUME NEW c \in Callers, Cancel(c) \/ Dies(c) \/ AttachEnds(c) PROVE KeyInv'
  BY <1>2, EndingKeys
<1>3. ASSUME NEW s \in Sessions, ScreenChanges(s) PROVE KeyInv'
  <2>1. TypeOK'
    BY <1>3 DEF KeyInv, ScreenChanges, TypeOK, fixed, ghosts
  <2>2. \A d \in Callers : KeysSent(d)'
    BY <1>3 DEF KeyInv, ScreenChanges, KeysSent, fixed, ghosts
  <2> QED
    BY <2>1, <2>2 DEF KeyInv
<1>4. CASE UNCHANGED vars
  <2>1. TypeOK'
    BY <1>4 DEF KeyInv, TypeOK, vars, world, fixed, ghosts
  <2>2. \A d \in Callers : KeysSent(d)'
    BY <1>4 DEF KeyInv, KeysSent, vars, world, fixed, ghosts
  <2> QED
    BY <2>1, <2>2 DEF KeyInv
<1> QED
  BY <1>1, <1>2, <1>3, <1>4 DEF Next

(* The calls, the windows and the screens keep their types, and Enter follows *)
(* only a text that was taken (reply.go:67-73).                               *)
THEOREM ReplyTypeCorrect == Spec => []TypeOK
  BY InitKeys, NextKeys, PTL DEF Spec, KeyInv

(* The answer of a reply agrees with what was sent, for any number of calls   *)
(* that run at the same time, in any order and with any failure: a timeout or *)
(* a refusal means that nothing was, ok and unverified that both keys were    *)
(* (reply.go:49-90).                                                          *)
THEOREM AnswersAreTrue == Spec => []AnswerTells
<1>1. KeyInv => AnswerTells
  BY DEF KeyInv, KeysSent, AnswerTells
<1> QED
  BY <1>1, InitKeys, NextKeys, PTL DEF Spec

-----------------------------------------------------------------------------
(* The windows. *)

Attached == {"wait", "before", "text", "enter", "verify", "kill"}

(* w is the window of a reply whose name is good. *)
Good(w) == w \in windows /\ op[w] = "reply" /\ of[w] \notin tangled

(* Its call will close it, and no other window of the session has that name.  *)
WindowInv ==
    /\ TypeOK
    /\ \A w \in Callers : Good(w) => pc[w] \in Attached
    /\ \A v, w \in Callers : Good(v) /\ Good(w) /\ of[v] = of[w] => v = w

LEMMA InitWindows == Init => WindowInv
  BY InitKeys DEF Init, KeyInv, WindowInv, Good

(* A call's only good window can be named. *)
LEMMA GoodFound ==
    ASSUME WindowInv, NEW c \in Callers, Good(c)
    PROVE  Named(of[c]) = {c} /\ Found(c)
<1>1. Named(of[c]) = {c}
  BY DEF WindowInv, Good, Named, TypeOK
<1> QED
  BY <1>1, FS_Singleton DEF Found

(* A step that makes no window keeps the invariant if it leads a call that    *)
(* has one to another step at which it has one.                               *)
LEMMA FewerWindows ==
    ASSUME WindowInv, TypeOK', UNCHANGED fixed, NEW c \in Callers,
           windows' \subseteq windows, tangled \subseteq tangled',
           \A d \in Callers \ {c} : pc'[d] = pc[d],
           pc[c] \in Attached /\ Good(c)' => pc'[c] \in Attached
    PROVE  WindowInv'
<1>1. \A w \in Callers : Good(w)' => Good(w)
  BY DEF Good, fixed
<1>2. \A w \in Callers : Good(w)' => pc'[w] \in Attached
  BY <1>1 DEF WindowInv
<1>3. \A v, w \in Callers : Good(v)' /\ Good(w)' /\ of'[v] = of'[w] => v = w
  BY <1>1 DEF WindowInv, fixed
<1> QED
  BY <1>2, <1>3 DEF WindowInv

LEMMA OpenedWindows ==
    ASSUME WindowInv, TypeOK', NEW c \in Callers, NewWindow(c) PROVE WindowInv'
<1> USE DEF WindowInv
<1>1. /\ UNCHANGED fixed /\ windows' = windows \cup {c} /\ tangled \subseteq tangled'
      /\ op[c] = "reply" /\ Named(of[c]) # {} => of[c] \in tangled'
      /\ op[c] = "reply" => pc'[c] = "wait"
      /\ \A d \in Callers \ {c} : pc'[d] = pc[d]
  BY DEF NewWindow, Opened, Ends, Over, Goto, TypeOK
<1>2. \A w \in Callers \ {c} : Good(w)' => Good(w) /\ (op[c] = "reply" => of[w] # of[c])
  <2> SUFFICES ASSUME NEW w \in Callers \ {c}, Good(w)'
               PROVE  Good(w) /\ (op[c] = "reply" => of[w] # of[c])
    OBVIOUS
  <2>1. Good(w)
    BY <1>1 DEF Good, fixed
  <2>2. w \in Named(of[w])
    BY <2>1 DEF Named, Good, TypeOK
  <2> QED
    BY <1>1, <2>1, <2>2 DEF Good, fixed
<1>3. Good(c)' => op[c] = "reply"
  BY <1>1 DEF Good, fixed
<1>4. \A w \in Callers : Good(w)' => pc'[w] \in Attached
  BY <1>1, <1>2, <1>3 DEF Attached
<1>5. \A v, w \in Callers : Good(v)' /\ Good(w)' /\ of'[v] = of'[w] => v = w
  BY <1>1, <1>2, <1>3 DEF fixed
<1> QED
  BY <1>4, <1>5

(* A new-window that failed may have made one that nobody can name.           *)
LEMMA FailedWindows ==
    ASSUME WindowInv, TypeOK', NEW c \in Callers, NewWindowFails(c) PROVE WindowInv'
<1> USE DEF WindowInv
<1>1. /\ UNCHANGED fixed /\ windows' \subseteq windows \cup {c} /\ tangled \subseteq tangled'
      /\ windows' = windows \/ (op[c] = "reply" => of[c] \in tangled')
      /\ pc[c] = "window"
      /\ \A d \in Callers \ {c} : pc'[d] = pc[d]
  BY DEF NewWindowFails, Ends, Over, Goto, TypeOK
<1>2. ~Good(c)
  BY <1>1 DEF Attached
<1>3. \A w \in Callers : Good(w)' => Good(w)
  BY <1>1 DEF Good, fixed
<1>4. \A w \in Callers : Good(w)' => pc'[w] \in Attached
  BY <1>1, <1>2, <1>3
<1>5. \A v, w \in Callers : Good(v)' /\ Good(w)' /\ of'[v] = of'[w] => v = w
  BY <1>1, <1>3 DEF fixed
<1> QED
  BY <1>4, <1>5

(* The deferred kill-window closes a good window, and a death spoils its name.*)
LEMMA ClosedWindows ==
    ASSUME WindowInv, TypeOK', NEW c \in Callers, KillWindow(c) \/ Dies(c) PROVE WindowInv'
<1>1. /\ UNCHANGED fixed /\ windows' \subseteq windows /\ tangled \subseteq tangled'
      /\ \A d \in Callers \ {c} : pc'[d] = pc[d]
  BY DEF KillWindow, Dies, Over, Goto, WindowInv, TypeOK, world, ghosts
<1>2. Good(c)' => Good(c)
  BY <1>1 DEF Good, fixed
<1>3. ~Good(c)'
  <2>1. CASE KillWindow(c)
    <3>1. Good(c) => c \notin windows'
      BY <2>1, GoodFound DEF KillWindow
    <3> QED
      BY <1>2, <3>1 DEF Good
  <2>2. CASE Dies(c)
    BY <2>2 DEF Dies, Good, world, fixed
  <2> QED
    BY <2>1, <2>2
<1> QED
  BY <1>1, <1>3, FewerWindows

(* The other steps of a call change no window.                                *)
LEMMA SameWindows ==
    ASSUME WindowInv, TypeOK', NEW c \in Callers,
           \/ Refused(c) \/ HasSession(c) \/ NewSession(c)
           \/ Classify(c) \/ WaitEnds(c)
           \/ CaptureBefore(c) \/ SendText(c) \/ SendEnter(c)
           \/ Verify(c) \/ VerifyEnds(c)
    PROVE  WindowInv'
<1>1. CASE Refused(c) \/ HasSession(c) \/ NewSession(c)
  <2>1. /\ UNCHANGED <<fixed, windows, tangled>>
        /\ pc[c] \notin Attached
        /\ \A d \in Callers \ {c} : pc'[d] = pc[d]
    BY <1>1 DEF Refused, HasSession, NewSession, Ends, Over, Goto, WindowInv, TypeOK,
                world, fixed, ghosts, Attached
  <2> QED
    BY <2>1, FewerWindows
<1>2. CASE Classify(c) \/ WaitEnds(c) \/ CaptureBefore(c) \/ Verify(c) \/ VerifyEnds(c)
  <2>1. /\ UNCHANGED <<fixed, windows, tangled>>
        /\ pc'[c] \in Attached
        /\ \A d \in Callers \ {c} : pc'[d] = pc[d]
    <3>1. CASE Classify(c)
      <4>1. (\E r \in Results : Gives(c, r)) \/ Goto(c, "before")
        BY <3>1 DEF Classify, Prompts, Kinds, Results
      <4> QED
        BY <3>1, <4>1 DEF Classify, Gives, Goto, WindowInv, TypeOK, world, fixed, ghosts, Attached
    <3>2. CASE WaitEnds(c) \/ CaptureBefore(c) \/ Verify(c) \/ VerifyEnds(c)
      BY <3>2 DEF WaitEnds, CaptureBefore, Verify, VerifyEnds, Gives, Goto, WindowInv, TypeOK,
                  world, fixed, ghosts, Attached
    <3> QED
      BY <1>2, <3>1, <3>2
  <2> QED
    BY <2>1, FewerWindows
<1>3. CASE SendText(c) \/ SendEnter(c)
  <2>1. /\ UNCHANGED <<fixed, windows, tangled>>
        /\ pc'[c] \in Attached
        /\ \A d \in Callers \ {c} : pc'[d] = pc[d]
    BY <1>3 DEF SendText, SendEnter, Gives, Goto, WindowInv, TypeOK, fixed, Attached
  <2> QED
    BY <2>1, FewerWindows
<1> QED
  BY <1>1, <1>2, <1>3

(* A step that moves no call keeps the invariant if it makes no window.       *)
LEMMA StillWindows ==
    ASSUME WindowInv, TypeOK', UNCHANGED <<fixed, pc, tangled>>, windows' \subseteq windows
    PROVE  WindowInv'
<1>1. \A w \in Callers : Good(w)' => Good(w)
  BY DEF Good, fixed
<1> QED
  BY <1>1 DEF WindowInv, fixed

LEMMA NextWindows == WindowInv /\ TypeOK' /\ [Next]_vars => WindowInv'
<1> SUFFICES ASSUME WindowInv, TypeOK', [Next]_vars PROVE WindowInv'
  OBVIOUS
<1>1. ASSUME NEW c \in Callers, Step(c) PROVE WindowInv'
  BY <1>1, OpenedWindows, FailedWindows, ClosedWindows, SameWindows DEF Step
<1>2. ASSUME NEW c \in Callers, Dies(c) PROVE WindowInv'
  BY <1>2, ClosedWindows
<1>3. ASSUME NEW c \in Callers, Cancel(c) \/ AttachEnds(c) PROVE WindowInv'
  BY <1>3, StillWindows DEF Cancel, AttachEnds, world, fixed, ghosts
<1>4. ASSUME NEW s \in Sessions, ScreenChanges(s) PROVE WindowInv'
  BY <1>4, StillWindows DEF ScreenChanges, fixed, ghosts
<1>5. CASE UNCHANGED vars
  BY <1>5, StillWindows DEF vars, world, fixed, ghosts
<1> QED
  BY <1>1, <1>2, <1>3, <1>4, <1>5 DEF Next

(* A reply that has ended leaves no window whose name is still good, for any  *)
(* number of replies to any number of sessions: a window is named by one      *)
(* call alone until it is closed, so the deferred kill-window hits it and     *)
(* nothing else (reply.go:36-47).                                             *)
THEOREM WindowsGo == Spec => []WindowGone
<1>1. WindowInv => WindowGone
  <2> SUFFICES ASSUME WindowInv, NEW w \in windows, op[w] = "reply", pc[w] = "done",
                      of[w] \notin tangled
               PROVE  FALSE
    BY DEF WindowGone
  <2>1. w \in Callers /\ Good(w)
    BY DEF WindowInv, TypeOK, Good
  <2> QED
    BY <2>1 DEF WindowInv, Attached
<1> QED
  BY <1>1, InitWindows, NextWindows, ReplyTypeCorrect, PTL DEF Spec

-----------------------------------------------------------------------------
(* Every call ends.  The provers know nothing of ENABLED: that a call can      *)
(* always go on is the hypothesis []NeverStuck, an invariant of the run.       *)

(* Which step of a call may be followed by which. *)
Follows ==
    {<<"has", "session">>, <<"has", "window">>, <<"session", "window">>, <<"window", "wait">>,
     <<"wait", "before">>, <<"wait", "kill">>, <<"before", "text">>, <<"text", "enter">>,
     <<"text", "kill">>, <<"enter", "verify">>, <<"enter", "kill">>, <<"verify", "kill">>}
    \cup (Steps \ {"done"}) \X {"done"}

(* A call's own step takes it to one of those. *)
LEMMA StepsForward ==
    ASSUME TypeOK, NEW c \in Callers, Step(c)
    PROVE  <<pc[c], pc'[c]>> \in Follows
<1> USE DEF Goto, Over, Ends, Gives
<1>1. CASE Refused(c) \/ HasSession(c) \/ NewSession(c)
  BY <1>1 DEF Refused, HasSession, NewSession, TypeOK, Follows, Steps
<1>2. CASE NewWindow(c) \/ NewWindowFails(c)
  BY <1>2 DEF NewWindow, NewWindowFails, TypeOK, Follows, Steps
<1>3. CASE Classify(c)
  <2>1. pc[c] = "wait" /\ pc'[c] \in {"before", "kill"}
    <3>1. screen[of[c]].kind \in {"permission", "choice", "free"}
      BY <1>3 DEF Classify, Prompts, Kinds
    <3> QED
      BY <1>3, <3>1 DEF Classify, TypeOK
  <2> QED
    BY <2>1 DEF Follows
<1>4. CASE WaitEnds(c) \/ CaptureBefore(c) \/ Verify(c) \/ VerifyEnds(c) \/ KillWindow(c)
  BY <1>4 DEF WaitEnds, CaptureBefore, Verify, VerifyEnds, KillWindow, TypeOK, Follows, Steps
<1>5. CASE SendText(c) \/ SendEnter(c)
  BY <1>5 DEF SendText, SendEnter, TypeOK, Follows, Steps
<1> QED
  BY <1>1, <1>2, <1>3, <1>4, <1>5 DEF Step

(* Nobody else's step takes a call anywhere but to its end. *)
LEMMA NeverBack ==
    ASSUME TypeOK, NEW c \in Callers, pc[c] # "done", [Next]_vars
    PROVE  pc'[c] = pc[c] \/ <<pc[c], pc'[c]>> \in Follows
<1> USE DEF Goto, Over, Ends, Gives
<1>1. CASE \E d \in Callers : Step(d)
  <2>1. PICK d \in Callers : Step(d)
    BY <1>1
  <2>2. CASE d = c
    BY <2>1, <2>2, StepsForward
  <2>3. CASE d # c
    <3>1. \E s \in Steps : pc' = [pc EXCEPT ![d] = s]
      <4>1. CASE Classify(d)
        <5>1. screen[of[d]].kind \in {"permission", "choice", "free"}
          BY <4>1 DEF Classify, Prompts, Kinds
        <5> QED
          BY <4>1, <5>1 DEF Classify, Steps
      <4>2. CASE ~Classify(d)
        BY <2>1, <4>2 DEF Step, Refused, HasSession, NewSession, NewWindow, NewWindowFails,
              WaitEnds, CaptureBefore, SendText, SendEnter, Verify, VerifyEnds, KillWindow, Steps
      <4> QED
        BY <4>1, <4>2
    <3> QED
      BY <2>3, <3>1 DEF TypeOK
  <2> QED
    BY <2>2, <2>3
<1>2. CASE \E d \in Callers : Dies(d)
  BY <1>2 DEF Dies, TypeOK, Follows
<1>3. CASE \E d \in Callers : Cancel(d) \/ AttachEnds(d)
  BY <1>3 DEF Cancel, AttachEnds
<1>4. CASE \E s \in Sessions : ScreenChanges(s)
  BY <1>4 DEF ScreenChanges
<1>5. CASE UNCHANGED vars
  BY <1>5 DEF vars
<1> QED
  BY <1>1, <1>2, <1>3, <1>4, <1>5 DEF Next

(* Whatever step a call is at, it leaves it in the end. *)
Leaves(c, s) == pc[c] = s ~> <<s, pc[c]>> \in Follows

LEMMA LeavesStep ==
    ASSUME NEW c \in Callers, NEW s \in Steps \ {"done"}
    PROVE  Spec /\ GoesOn(c) /\ []NeverStuck => Leaves(c, s)
<1>1. TypeOK /\ pc[c] = s /\ [Next]_vars => (pc[c] = s)' \/ (<<s, pc[c]>> \in Follows)'
  BY NeverBack
<1>2. TypeOK /\ pc[c] = s /\ <<Step(c)>>_vars => (<<s, pc[c]>> \in Follows)'
  BY StepsForward
<1>3. NeverStuck /\ pc[c] = s => ENABLED <<Step(c)>>_vars
  BY DEF NeverStuck
<1> QED
  BY <1>1, <1>2, <1>3, ReplyTypeCorrect, PTL DEF Spec, GoesOn, Leaves

(* Every call comes to an end, whatever other calls, sessions and users do     *)
(* (reply.go:49-53, 78-90): each of its steps is taken and leads forward.      *)
THEOREM CallsEnd == FairSpec /\ []NeverStuck => EveryCallEnds
<1> SUFFICES ASSUME NEW c \in Callers
             PROVE  FairSpec /\ []NeverStuck => <>(pc[c] = "done")
  BY DEF EveryCallEnds
<1>1. FairSpec => Spec /\ GoesOn(c)
  BY DEF FairSpec
<1>2. Init => pc[c] = "has"
  BY DEF Init
<1>3. Spec /\ GoesOn(c) /\ []NeverStuck =>
        /\ Leaves(c, "has") /\ Leaves(c, "session") /\ Leaves(c, "window")
        /\ Leaves(c, "wait") /\ Leaves(c, "before") /\ Leaves(c, "text")
        /\ Leaves(c, "enter") /\ Leaves(c, "verify") /\ Leaves(c, "kill")
  BY LeavesStep DEF Steps
<1>4. /\ <<"has", pc[c]>> \in Follows => pc[c] = "session" \/ pc[c] = "window" \/ pc[c] = "done"
      /\ <<"session", pc[c]>> \in Follows => pc[c] = "window" \/ pc[c] = "done"
      /\ <<"window", pc[c]>> \in Follows => pc[c] = "wait" \/ pc[c] = "done"
      /\ <<"wait", pc[c]>> \in Follows => pc[c] = "before" \/ pc[c] = "kill" \/ pc[c] = "done"
      /\ <<"before", pc[c]>> \in Follows => pc[c] = "text" \/ pc[c] = "done"
      /\ <<"text", pc[c]>> \in Follows => pc[c] = "enter" \/ pc[c] = "kill" \/ pc[c] = "done"
      /\ <<"enter", pc[c]>> \in Follows => pc[c] = "verify" \/ pc[c] = "kill" \/ pc[c] = "done"
      /\ <<"verify", pc[c]>> \in Follows => pc[c] = "kill" \/ pc[c] = "done"
      /\ <<"kill", pc[c]>> \in Follows => pc[c] = "done"
  BY DEF Follows
<1> QED
  BY <1>1, <1>2, <1>3, <1>4, PTL DEF Spec, Leaves

=============================================================================
