------------------------------- MODULE Notify -------------------------------
(***************************************************************************)
(* `clauditor notify` (internal/notify/run.go) in its two modes.           *)
(*                                                                         *)
(*   stream  one long-running process; the differ's memory is its own, and *)
(*           a failed emit ends it.                                        *)
(*   once    a run started by cron; the memory is notify-state.json, which *)
(*           is read at the start and renamed into place before anything   *)
(*           is emitted.  A run does not start while another is under way. *)
(*                                                                         *)
(* In both a cycle is: collect and diff, remember, emit.  The process may  *)
(* be killed anywhere, a collector may fail, an emit may fail.             *)
(***************************************************************************)
EXTENDS Differ

CONSTANT Observed       \* the sessions the supervisor reports, as Diff sees them

ASSUME NotifyAssumption == Observed \subseteq Session

VARIABLES
    mode,       \* "stream" or "once", fixed
    world,      \* the sessions there are
    memory,     \* the differ's memory between cycles: state file or process
    phase,      \* where the cycle is
    cur,        \* the snapshot of this cycle
    ledger,     \* the differ's ledger after this cycle's Diff
    queue,      \* the events of this cycle not yet emitted
    quiet,      \* history: time since the stamp of the last delivered event,
                \* up to Debounce
    told        \* history: needs_input deliveries in the present needy spell

procVars == <<phase, cur, ledger, queue>>
vars     == <<mode, world, memory, procVars, quiet, told>>

NoSessions == [k \in Keys |-> Absent]
NoMemory == [sessions |-> NoSessions, ledger |-> EmptyLedger, seeded |-> FALSE]
Memory   == [sessions : Snapshot, ledger : [Events -> Ages], seeded : BOOLEAN]

Possible(k) ==
    {Absent} \cup
    (IF k \in TmuxKeys THEN {[state |-> "unknown", waiting |-> FALSE]} ELSE Observed)

(* A plausible slip, and the order the comment in runOnce warns of. *)
PhasesEmitFirst == <<"diff", "emit", "persist">>

(* The order of a cycle. *)
Phases == <<"diff", "persist", "emit">>
At(p) == Phases[phase] = p
After == IF phase = 3 THEN 1 ELSE phase + 1

(* The types; and what is still to be told is in the ledger already. *)
TypeOK ==
    /\ mode \in {"stream", "once"}
    /\ world \in Snapshot
    /\ memory \in Memory
    /\ phase \in 1..3
    /\ cur \in Snapshot
    /\ ledger \in [Events -> Ages]
    /\ queue \in SUBSET Events
    /\ quiet \in [Events -> 0..Debounce]
    /\ told \in [Keys -> Nat]
    /\ \A e \in queue : ledger[e] # Never

Init ==
    /\ mode \in {"stream", "once"}
    /\ world = NoSessions
    /\ memory = NoMemory
    /\ phase = 1
    /\ cur = NoSessions
    /\ ledger = EmptyLedger
    /\ queue = {}
    /\ quiet = [e \in Events |-> Debounce]
    /\ told = [k \in Keys |-> 0]

(* Fleet.Collect: the supervisor's sessions are missing when claude failed,
   those of tmux when tmux did; neither error is looked at. *)
Visible(claudeOK, tmuxOK) ==
    {k \in Keys : IF k \in TmuxKeys THEN tmuxOK ELSE claudeOK}

(* Collect and Diff.  With no memory to compare with, the snapshot is only
   taken as the baseline. *)
Diff(claudeOK, tmuxOK) ==
    /\ At("diff")
    /\ cur' = [k \in Keys |-> IF k \in Visible(claudeOK, tmuxOK) THEN world[k] ELSE Absent]
    /\ queue' = IF memory.seeded THEN Fired(memory.sessions, cur', memory.ledger) ELSE {}
    /\ ledger' = IF memory.seeded THEN LedgerAfter(queue', memory.ledger) ELSE memory.ledger
    /\ phase' = After
    /\ UNCHANGED <<mode, world, memory, quiet, told>>

(* A plausible slip: the ledger is saved with the previous sessions. *)
RememberedStale == [memory EXCEPT !.ledger = ledger, !.seeded = TRUE]

Remembered == [sessions |-> cur, ledger |-> ledger, seeded |-> TRUE]

(* The new memory takes the place of the old: d.prev = curIdx, or the rename
   of the state file.  A spell of needing input ends when the differ sees it
   end. *)
Persist ==
    /\ At("persist")
    /\ memory' = Remembered
    /\ told' = [k \in Keys |-> IF NeedsInput(cur[k]) THEN told[k] ELSE 0]
    /\ phase' = After
    /\ cur' = NoSessions
    /\ UNCHANGED <<mode, world, ledger, queue, quiet>>

(* What is left when the process ends: of a stream, nothing.  The histories
   speak of one memory, so they end with it. *)
Ended ==
    /\ phase' = 1
    /\ cur' = NoSessions
    /\ ledger' = EmptyLedger
    /\ queue' = {}
    /\ memory' = IF mode = "stream" THEN NoMemory ELSE memory
    /\ quiet' = IF mode = "stream" THEN [e \in Events |-> Debounce] ELSE quiet
    /\ told' = IF mode = "stream" THEN [k \in Keys |-> 0] ELSE told
    /\ UNCHANGED <<mode, world>>

(* The state file cannot be written: runOnce returns without emitting. *)
PersistFails == mode = "once" /\ At("persist") /\ Ended

(* The session of an event, its rank among the events of the session. *)
Rank(t) == CASE t \in {"session_new", "interactive_claude_appeared"} -> 1
             [] t = "needs_input" -> 2
             [] t = "completed" -> 3
             [] t = "failed" -> 4
             [] t = "session_gone" -> 5

FirstOfSession(e) == \A f \in queue : f[1] = e[1] => Rank(e[2]) <= Rank(f[2])

Emit(e) ==
    /\ At("emit")
    /\ e \in queue
    /\ FirstOfSession(e)
    /\ queue' = queue \ {e}
    /\ quiet' = [quiet EXCEPT ![e] = IF Recent(ledger[e]) THEN ledger[e] ELSE Debounce]
    /\ told' = IF e[2] = "needs_input" THEN [told EXCEPT ![e[1]] = @ + 1] ELSE told
    /\ UNCHANGED <<mode, world, memory, phase, cur, ledger>>

(* The command or the write failed: the remaining events are dropped. *)
EmitFails == At("emit") /\ queue # {} /\ Ended

Emitted ==
    /\ At("emit")
    /\ queue = {}
    /\ phase' = After
    /\ ledger' = IF After = 1 THEN EmptyLedger ELSE ledger
    /\ UNCHANGED <<mode, world, memory, cur, queue, quiet, told>>

Killed == Ended

-----------------------------------------------------------------------------
(* The environment: sessions come, change and go, and time passes. *)

WorldChanges(k) ==
    /\ \E s \in Possible(k) : world' = [world EXCEPT ![k] = s]
    /\ UNCHANGED <<mode, memory, procVars, quiet, told>>

Tick ==
    /\ memory' = [memory EXCEPT !.ledger = OlderLedger(@)]
    /\ ledger' = OlderLedger(ledger)
    /\ quiet' = [e \in Events |-> IF quiet[e] < Debounce THEN quiet[e] + 1 ELSE Debounce]
    /\ UNCHANGED <<mode, world, phase, cur, queue, told>>

Next ==
    \/ \E claudeOK, tmuxOK \in BOOLEAN : Diff(claudeOK, tmuxOK)
    \/ Persist \/ PersistFails
    \/ \E e \in Events : Emit(e)
    \/ EmitFails \/ Emitted \/ Killed
    \/ \E k \in Keys : WorldChanges(k)
    \/ Tick

Spec == Init /\ [][Next]_vars

(* Cycles go on (the stream's loop, or cron), not every one with a failed
   collector; and not every cycle that saw a session as it is ends before it
   is remembered. *)
Agrees(k)        == NeedsInput(cur[k]) <=> NeedsInput(world[k])
PersistsAsIs(k)  == Persist /\ Agrees(k)
Emits            == Emitted \/ \E e \in Events : Emit(e)

CollectsAgain    == SF_vars(Diff(TRUE, TRUE))
Saves            == WF_vars(Persist)
SavesAsIs(k)     == SF_vars(PersistsAsIs(k))
EmitsGoOn        == WF_vars(Emits)

FairSpec ==
    /\ Spec
    /\ CollectsAgain /\ Saves /\ EmitsGoOn
    /\ \A k \in Keys : SavesAsIs(k)

-----------------------------------------------------------------------------
(* Properties. *)

(* No event is produced less than Debounce after one for the same session   *)
(* and of the same type was delivered, whatever was killed, failed to be    *)
(* saved or was trimmed from the ledger in between (SPEC.md:138,            *)
(* differ.go:66-73, 110-116).                                               *)
WindowRespected ==
    [][\A e \in queue' \ queue : quiet[e] >= Debounce]_vars

(* While the differ sees a session as needing input, its user is told of it *)
(* at most once: a crash between saving and emitting, or an emit that       *)
(* fails, cannot make the next run repeat it (run.go:114-115).              *)
ToldAtMostOnce == \A k \in Keys : told[k] <= 1

(* A cycle always goes on: whatever is in the queue, and whatever was trimmed *)
(* or dropped before, there is an event to emit or the cycle is over, and a    *)
(* memory can always take the place of the old (run.go:57-127).                *)
NeverStuck ==
    /\ At("diff") => ENABLED <<Diff(TRUE, TRUE)>>_vars
    /\ At("persist") => ENABLED <<Persist>>_vars
    /\ \A k \in Keys : At("persist") /\ Agrees(k) => ENABLED <<PersistsAsIs(k)>>_vars
    /\ At("emit") => ENABLED <<Emits>>_vars

(* A session that comes to need input and goes on needing it is noticed:    *)
(* failed collectors, kills and unsavable state only delay it, and leave    *)
(* nothing that a cycle gets stuck in.                                      *)
NeedNoticed ==
    /\ []NeverStuck
    /\ \A k \in Keys : NeedsInput(world[k]) ~>
          (~NeedsInput(world[k]) \/ NeedsInput(memory.sessions[k]))

(* What fleet.go:9-12 makes the caller's business: a failed claude collector *)
(* is not an empty fleet.  Then a session reported as gone is gone.          *)
GoneIsGone ==
    [][\A k \in Keys : <<k, "session_gone">> \in queue' \ queue => world[k] = Absent]_vars

=============================================================================
