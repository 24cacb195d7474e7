------------------------------- MODULE Differ -------------------------------
(***************************************************************************)
(* internal/notify/differ.go: the events between two consecutive fleet     *)
(* snapshots, and the ledger that debounces them.                          *)
(*                                                                         *)
(* A snapshot is a function from session keys to what Diff looks at of a   *)
(* session; a key without a session maps to Absent.  The ledger holds, for *)
(* a (key, event type) pair, how long ago its last event was sent; ages    *)
(* are told apart up to Keep + 1, which stands for all longer ones.        *)
(***************************************************************************)
EXTENDS Integers

CONSTANTS Keys,         \* the session keys
          TmuxKeys,     \* those of sessions only seen in a tmux pane
          Debounce,     \* Differ.Debounce
          Keep          \* how long the ledger keeps an entry: 10 * Debounce

ASSUME DifferAssumption ==
    /\ TmuxKeys \subseteq Keys
    /\ Debounce \in Nat
    /\ Keep \in Nat
    /\ Debounce <= Keep

States  == {"working", "blocked", "done", "failed", "stopped", "idle", "unknown"}
Session == [state : States, waiting : BOOLEAN]     \* waiting: WaitingFor # ""
Absent  == [state |-> "absent", waiting |-> FALSE]

Snapshot == [Keys -> Session \cup {Absent}]

NeedsInput(s) == s.state = "blocked" \/ s.waiting

EventTypes == {"needs_input", "completed", "failed", "session_new", "session_gone",
               "interactive_claude_appeared"}
Events == Keys \X EventTypes

(* The transitions Diff reports, before debouncing.  A session that was not  *)
(* there needs no case of its own for needs_input: Absent needs none.        *)
Appeared(prev, cur) ==
    {<<k, IF k \in TmuxKeys THEN "interactive_claude_appeared" ELSE "session_new">> :
        k \in {j \in Keys : prev[j] = Absent /\ cur[j] # Absent}}

Triggers(prev, cur) ==
    LET born(k) == prev[k] = Absent
    IN  Appeared(prev, cur)
        \cup {<<k, "needs_input">> :
                k \in {j \in Keys : NeedsInput(cur[j]) /\ ~NeedsInput(prev[j])}}
        \cup {<<k, "completed">> :
                k \in {j \in Keys : prev[j].state = "working" /\ cur[j].state = "done"}}
        \cup {<<k, "failed">> :
                k \in {j \in Keys : /\ cur[j].state = "failed"
                                    /\ prev[j].state # "failed"
                                    /\ born(j) => ~NeedsInput(cur[j])}}
        \cup {<<k, "session_gone">> :
                k \in {j \in Keys : prev[j] # Absent /\ cur[j] = Absent}}

Never == -1
Oldest == Keep + 1
Ages  == {Never} \cup 0..Oldest
EmptyLedger == [e \in Events |-> Never]

(* One unit of time later. *)
Older(age) == IF age = Never \/ age = Oldest THEN age ELSE age + 1
OlderLedger(ledger) == [e \in Events |-> Older(ledger[e])]

(* An entry of this age suppresses another event. *)
Recent(age) == age # Never /\ age < Debounce

(* The events that are not debounced: emit's early return drops the others. *)
Fired(prev, cur, ledger) ==
    {e \in Triggers(prev, cur) : ~Recent(ledger[e])}

(* A plausible slip: the ledger is kept for a tenth of the window, not ten
   times as long. *)
LedgerTrimmedEarly(fired, ledger) ==
    [e \in Events |-> IF e \in fired THEN 0
                      ELSE IF 10 * ledger[e] > Debounce THEN Never
                      ELSE ledger[e]]

(* A plausible slip: an event is entered only to follow one that is there. *)
LedgerRenewed(fired, ledger) ==
    [e \in Events |-> IF ledger[e] = Never \/ ledger[e] > Keep THEN Never
                      ELSE IF e \in fired THEN 0
                      ELSE ledger[e]]

(* The ledger after Diff: sent events are entered, old entries trimmed. *)
LedgerAfter(fired, ledger) ==
    [e \in Events |-> IF e \in fired THEN 0
                      ELSE IF ledger[e] > Keep THEN Never
                      ELSE ledger[e]]

=============================================================================
