---------------------------- MODULE NotifyProofs ----------------------------
(***************************************************************************)
(* Proofs about Differ and Notify, for every set of keys, every debounce   *)
(* window and every time the ledger keeps its entries, as long as that is  *)
(* not shorter than the window.                                            *)
(***************************************************************************)
EXTENDS Notify, TLAPS

USE DifferAssumption, NotifyAssumption

(* Ages stay ages as time passes. *)
LEMMA AgesTyped ==
    /\ Never \in Ages /\ 0 \in Ages
    /\ \A a \in Ages : Older(a) \in Ages
  BY DEF Ages, Never, Oldest, Older

(* Ages of the ledger below the window grow by one, like quiet, and Diff      *)
(* does not trim an entry the window still needs.                             *)
LEMMA LedgerTyped ==
    ASSUME NEW l \in [Events -> Ages], NEW fired
    PROVE  /\ OlderLedger(l) \in [Events -> Ages]
           /\ LedgerAfter(fired, l) \in [Events -> Ages]
           /\ EmptyLedger \in [Events -> Ages]
  BY AgesTyped DEF OlderLedger, LedgerAfter, EmptyLedger

(* What the window has no business with is kept by Diff as it is.             *)
LEMMA LedgerKeeps ==
    ASSUME NEW l \in [Events -> Ages], NEW fired, NEW e \in Events,
           e \notin fired, l[e] < Debounce
    PROVE  LedgerAfter(fired, l)[e] = l[e]
  BY DEF LedgerAfter, Ages, Never, Oldest

(* What Diff reports are events. *)
LEMMA FiredTyped ==
    ASSUME NEW prev, NEW cur2, NEW l PROVE Fired(prev, cur2, l) \in SUBSET Events
  BY DEF Fired, Triggers, Appeared, Events, EventTypes

(* The empty snapshot, the empty memory and what the world may hold. *)
LEMMA SnapshotsTyped ==
    /\ NoSessions \in Snapshot
    /\ NoMemory \in Memory
    /\ \A k \in Keys : Possible(k) \subseteq Session \cup {Absent}
<1>1. NoSessions \in Snapshot
  BY DEF NoSessions, Snapshot
<1>2. EmptyLedger \in [Events -> Ages]
  BY AgesTyped DEF EmptyLedger
<1>3. NoMemory \in Memory
  BY <1>1, <1>2 DEF NoMemory, Memory
<1>4. [state |-> "unknown", waiting |-> FALSE] \in Session
  BY DEF Session, States
<1> QED
  BY <1>1, <1>3, <1>4 DEF Possible

(* A phase is followed by a phase. *)
LEMMA PhaseTyped == phase \in 1..3 => After \in 1..3
  BY DEF After

(* The end of a process keeps the types. *)
LEMMA EndedTyped == ASSUME TypeOK, Ended PROVE TypeOK'
  BY SnapshotsTyped, LedgerTyped, AgesTyped DEF TypeOK, Ended, Memory, EmptyLedger

(* Every step keeps the variables of both modes in their types                *)
(* (differ.go:32-38, run.go:83-86).                                           *)
THEOREM NotifyTypeCorrect == Spec => []TypeOK
<1>1. Init => TypeOK
  BY SnapshotsTyped, AgesTyped DEF Init, TypeOK, EmptyLedger
<1>2. TypeOK /\ [Next]_vars => TypeOK'
  <2> SUFFICES ASSUME TypeOK, [Next]_vars PROVE TypeOK'
    OBVIOUS
  <2> USE DEF TypeOK
  <2>1. ASSUME NEW c \in BOOLEAN, NEW t \in BOOLEAN, Diff(c, t) PROVE TypeOK'
    <3>1. cur' \in Snapshot
      BY <2>1, SnapshotsTyped DEF Diff, Snapshot
    <3>2. memory.ledger \in [Events -> Ages]
      BY DEF Memory
    <3>3. queue' \in SUBSET Events /\ ledger' \in [Events -> Ages]
      BY <2>1, <3>2, FiredTyped, LedgerTyped DEF Diff
    <3>4. \A e \in queue' : ledger'[e] # Never
      BY <2>1, <3>3 DEF Diff, LedgerAfter, Never
    <3> QED
      BY <2>1, <3>1, <3>3, <3>4, PhaseTyped DEF Diff
  <2>2. CASE Persist
    BY <2>2, PhaseTyped, SnapshotsTyped DEF Persist, Remembered, Memory
  <2>3. CASE PersistFails \/ EmitFails \/ Killed
    BY <2>3, EndedTyped DEF PersistFails, EmitFails, Killed
  <2>4. ASSUME NEW e \in Events, Emit(e) PROVE TypeOK'
    <3>1. quiet' \in [Events -> 0..Debounce]
      BY <2>4 DEF Emit, Recent, Ages, Never, Oldest
    <3>2. told' \in [Keys -> Nat]
      BY <2>4 DEF Emit, Events
    <3> QED
      BY <2>4, <3>1, <3>2 DEF Emit
  <2>5. CASE Emitted
    BY <2>5, PhaseTyped, LedgerTyped DEF Emitted
  <2>6. ASSUME NEW k \in Keys, WorldChanges(k) PROVE TypeOK'
    BY <2>6, SnapshotsTyped DEF WorldChanges, Snapshot, procVars
  <2>7. CASE Tick
    <3>1. memory' \in Memory
      BY <2>7, LedgerTyped DEF Tick, Memory
    <3>2. ledger' \in [Events -> Ages]
      BY <2>7, LedgerTyped DEF Tick
    <3>3. \A e \in queue' : ledger'[e] # Never
      BY <2>7 DEF Tick, OlderLedger, Older, Ages, Never
    <3> QED
      BY <2>7, <3>1, <3>2, <3>3 DEF Tick
  <2>8. CASE UNCHANGED vars
    BY <2>8 DEF vars, procVars
  <2> QED
    BY <2>1, <2>2, <2>3, <2>4, <2>5, <2>6, <2>7, <2>8 DEF Next
<1> QED
  BY <1>1, <1>2, PTL DEF Spec

-----------------------------------------------------------------------------
(* The debounce window. *)

LEMMA PhaseAt ==
    ASSUME phase \in 1..3
    PROVE  /\ At("diff") => phase = 1 /\ After = 2
           /\ At("persist") => phase = 2 /\ After = 3
           /\ At("emit") => phase = 3 /\ After = 1
  BY DEF At, After, Phases

(* A ledger remembers every event delivered within the window, by its stamp. *)
Remembers(l) == \A e \in Events : quiet[e] < Debounce => l[e] = quiet[e]

(* The inductive invariant: the memory remembers what was delivered, so does  *)
(* the cycle's own ledger, and while events are delivered they are the same.  *)
WindowInv ==
    /\ Remembers(memory.ledger)
    /\ phase \in {2, 3} => Remembers(ledger)
    /\ phase = 3 => ledger = memory.ledger

(* What Diff queues is outside the window of what was delivered.              *)
LEMMA DiffRespectsWindow ==
    ASSUME TypeOK, WindowInv, NEW c \in BOOLEAN, NEW t \in BOOLEAN, Diff(c, t)
    PROVE  /\ \A e \in queue' \ queue : quiet[e] >= Debounce
           /\ WindowInv'
<1> USE DEF TypeOK
<1>1. memory.ledger \in [Events -> Ages]
  BY DEF Memory
<1>2. \A e \in queue' : e \in Events /\ ~Recent(memory.ledger[e])
  BY FiredTyped DEF Diff, Fired
<1>3. \A e \in queue' : quiet[e] >= Debounce
  BY <1>1, <1>2 DEF WindowInv, Remembers, Recent, Ages, Never, Oldest
<1>4. ASSUME NEW e \in Events, quiet[e] < Debounce PROVE ledger'[e] = quiet[e]
  <2>1. e \notin queue' /\ memory.ledger[e] = quiet[e]
    BY <1>3, <1>4 DEF WindowInv, Remembers
  <2>2. LedgerAfter(queue', memory.ledger)[e] = memory.ledger[e]
    BY <1>1, <1>4, <2>1, LedgerKeeps
  <2> QED
    BY <2>1, <2>2 DEF Diff
<1>5. phase' = 2 /\ UNCHANGED <<memory, quiet>>
  BY PhaseAt DEF Diff
<1> QED
  BY <1>3, <1>4, <1>5 DEF WindowInv, Remembers

(* Time passes for the ledgers and for the history alike.                     *)
LEMMA TickRemembers ==
    ASSUME TypeOK, NEW l \in [Events -> Ages], Remembers(l), Tick
    PROVE  \A e \in Events : quiet'[e] < Debounce => OlderLedger(l)[e] = quiet'[e]
<1> SUFFICES ASSUME NEW e \in Events, quiet'[e] < Debounce
             PROVE  OlderLedger(l)[e] = quiet'[e]
  OBVIOUS
<1>1. quiet[e] \in 0..Debounce /\ l[e] \in Ages
  BY DEF TypeOK
<1>2. quiet'[e] = IF quiet[e] < Debounce THEN quiet[e] + 1 ELSE Debounce
  BY DEF Tick
<1>3. quiet[e] < Debounce /\ quiet'[e] = quiet[e] + 1
  BY <1>1, <1>2
<1>4. l[e] = quiet[e]
  BY <1>3 DEF Remembers
<1> QED
  BY <1>1, <1>3, <1>4 DEF OlderLedger, Older, Never, Oldest

(* The end of a process keeps the window's invariant: a stream forgets both
   sides of it, a once-run keeps the state file. *)
LEMMA EndedWindow == ASSUME TypeOK, WindowInv, Ended PROVE WindowInv'
<1>1. phase' = 1
  BY DEF Ended
<1>2. CASE mode = "stream"
  BY <1>1, <1>2 DEF TypeOK, Ended, WindowInv, Remembers
<1>3. CASE mode # "stream"
  BY <1>1, <1>3 DEF Ended, WindowInv, Remembers
<1> QED
  BY <1>2, <1>3

(* Every step keeps the window's invariant. *)
LEMMA WindowStep ==
    ASSUME TypeOK, WindowInv, [Next]_vars
    PROVE  WindowInv' /\ \A e \in queue' \ queue : quiet[e] >= Debounce
<1> USE DEF TypeOK
<1>1. ASSUME NEW c \in BOOLEAN, NEW t \in BOOLEAN, Diff(c, t)
      PROVE  WindowInv' /\ \A e \in queue' \ queue : quiet[e] >= Debounce
  BY <1>1, DiffRespectsWindow
<1>2. CASE Persist
  BY <1>2, PhaseAt DEF Persist, Remembered, WindowInv, Remembers
<1>3. CASE PersistFails \/ EmitFails \/ Killed
  <2>1. Ended
    BY <1>3 DEF PersistFails, EmitFails, Killed
  <2> QED
    BY <2>1, EndedWindow DEF Ended
<1>4. ASSUME NEW e \in Events, Emit(e)
      PROVE  WindowInv' /\ \A f \in queue' \ queue : quiet[f] >= Debounce
  <2>1. phase = 3 /\ phase' = 3 /\ UNCHANGED <<memory, ledger>> /\ queue' \subseteq queue
    BY <1>4, PhaseAt DEF Emit
  <2>2. ASSUME NEW f \in Events, quiet'[f] < Debounce PROVE ledger[f] = quiet'[f]
    BY <1>4, <2>1, <2>2 DEF Emit, Recent, WindowInv, Remembers
  <2> QED
    BY <2>1, <2>2 DEF WindowInv, Remembers
<1>5. CASE Emitted
  BY <1>5, PhaseAt DEF Emitted, WindowInv, Remembers
<1>6. ASSUME NEW k \in Keys, WorldChanges(k)
      PROVE  WindowInv' /\ \A e \in queue' \ queue : quiet[e] >= Debounce
  BY <1>6 DEF WorldChanges, procVars, WindowInv, Remembers
<1>7. CASE Tick
  <2>1. memory.ledger \in [Events -> Ages]
    BY DEF Memory
  <2>2. memory'.ledger = OlderLedger(memory.ledger) /\ ledger' = OlderLedger(ledger)
    BY <1>7 DEF Tick, Memory
  <2>3. UNCHANGED <<phase, queue>>
    BY <1>7 DEF Tick
  <2>4. Remembers(memory.ledger)'
    BY <1>7, <2>1, <2>2, TickRemembers DEF WindowInv, Remembers
  <2>5. phase \in {2, 3} => Remembers(ledger)'
    BY <1>7, <2>2, TickRemembers DEF WindowInv, Remembers
  <2> QED
    BY <2>2, <2>3, <2>4, <2>5 DEF WindowInv
<1>8. CASE UNCHANGED vars
  BY <1>8 DEF vars, procVars, WindowInv, Remembers
<1> QED
  BY <1>1, <1>2, <1>3, <1>4, <1>5, <1>6, <1>7, <1>8 DEF Next

(* No event repeats one of its session and type within the debounce window    *)
(* (SPEC.md:138, differ.go:66-73 and 110-116), for every window.              *)
THEOREM WindowHolds == Spec => WindowRespected
<1>1. Init => WindowInv
  BY DEF Init, WindowInv, Remembers
<1>2. TypeOK /\ WindowInv /\ [Next]_vars => WindowInv'
  BY WindowStep
<1>3. TypeOK /\ WindowInv /\ [Next]_vars =>
        [\A e \in queue' \ queue : quiet[e] >= Debounce]_vars
  BY WindowStep
<1> QED
  BY <1>1, <1>2, <1>3, NotifyTypeCorrect, PTL DEF Spec, WindowRespected

-----------------------------------------------------------------------------
(* At most one needs_input per spell. *)

Need(k) == <<k, "needs_input">>

(* The inductive invariant: who has been told is remembered as needing input, *)
(* and an event still to be delivered is the first of its spell - which the   *)
(* memory already shows once the cycle emits.                                 *)
ToldInv ==
    \A k \in Keys :
        /\ told[k] <= 1
        /\ told[k] = 1 => NeedsInput(memory.sessions[k])
        /\ Need(k) \in queue =>
              /\ told[k] = 0
              /\ phase = 2 => NeedsInput(cur[k])
              /\ phase = 3 => NeedsInput(memory.sessions[k])

(* A needs_input trigger is a session that did not need input before.         *)
LEMMA NeedTriggered ==
    ASSUME NEW prev, NEW now, NEW l, NEW k \in Keys, Need(k) \in Fired(prev, now, l)
    PROVE  NeedsInput(now[k]) /\ ~NeedsInput(prev[k])
<1>1. Need(k) \in Triggers(prev, now)
  BY DEF Fired
<1>2. Need(k) \in {<<j, "needs_input">> :
                     j \in {i \in Keys : NeedsInput(now[i]) /\ ~NeedsInput(prev[i])}}
  BY <1>1 DEF Triggers, Appeared, Need
<1> QED
  BY <1>2 DEF Need

(* Every step keeps the invariant of the spells. *)
LEMMA ToldStep ==
    ASSUME TypeOK, ToldInv, [Next]_vars PROVE ToldInv'
<1> USE DEF TypeOK
<1>1. ASSUME NEW c \in BOOLEAN, NEW t \in BOOLEAN, Diff(c, t) PROVE ToldInv'
  <2>1. ASSUME NEW k \in Keys, Need(k) \in queue'
        PROVE  NeedsInput(cur'[k]) /\ ~NeedsInput(memory.sessions[k])
    <3>1. Need(k) \in Fired(memory.sessions, cur', memory.ledger)
      BY <1>1, <2>1 DEF Diff
    <3> QED
      BY <3>1, NeedTriggered
  <2>2. phase' = 2 /\ UNCHANGED <<memory, told>>
    BY <1>1, PhaseAt DEF Diff
  <2> QED
    BY <2>1, <2>2 DEF ToldInv
<1>2. CASE Persist
  <2>1. phase = 2 /\ phase' = 3 /\ memory'.sessions = cur /\ queue' = queue
    BY <1>2, PhaseAt DEF Persist, Remembered
  <2>2. \A k \in Keys : told'[k] = IF NeedsInput(cur[k]) THEN told[k] ELSE 0
    BY <1>2 DEF Persist
  <2> QED
    BY <2>1, <2>2 DEF ToldInv
<1>3. CASE PersistFails \/ EmitFails \/ Killed
  <2>1. Ended
    BY <1>3 DEF PersistFails, EmitFails, Killed
  <2>2. queue' = {}
    BY <2>1 DEF Ended
  <2>3. CASE mode = "stream"
    BY <2>1, <2>2, <2>3 DEF Ended, ToldInv
  <2>4. CASE mode # "stream"
    BY <2>1, <2>2, <2>4 DEF Ended, ToldInv
  <2> QED
    BY <2>3, <2>4
<1>4. ASSUME NEW e \in Events, Emit(e) PROVE ToldInv'
  <2>1. phase = 3 /\ phase' = 3 /\ UNCHANGED memory /\ e \in queue /\ queue' = queue \ {e}
    BY <1>4, PhaseAt DEF Emit
  <2>2. CASE e[2] = "needs_input"
    <3>1. e = Need(e[1]) /\ e[1] \in Keys
      BY <2>2 DEF Need, Events
    <3>2. told' = [told EXCEPT ![e[1]] = @ + 1]
      BY <1>4, <2>2 DEF Emit
    <3>3. \A k \in Keys : k # e[1] => told'[k] = told[k]
      BY <3>1, <3>2
    <3>4. told[e[1]] = 0 /\ told'[e[1]] = 1 /\ NeedsInput(memory.sessions[e[1]])
      BY <2>1, <3>1, <3>2 DEF ToldInv
    <3> QED
      BY <2>1, <3>1, <3>3, <3>4 DEF ToldInv
  <2>3. CASE e[2] # "needs_input"
    BY <1>4, <2>1, <2>3 DEF Emit, ToldInv
  <2> QED
    BY <2>2, <2>3
<1>5. CASE Emitted
  BY <1>5, PhaseAt DEF Emitted, ToldInv
<1>6. ASSUME NEW k \in Keys, WorldChanges(k) PROVE ToldInv'
  BY <1>6 DEF WorldChanges, procVars, ToldInv
<1>7. CASE Tick
  <2>1. memory'.sessions = memory.sessions
    BY <1>7 DEF Tick, Memory
  <2> QED
    BY <1>7, <2>1 DEF Tick, ToldInv
<1>8. CASE UNCHANGED vars
  BY <1>8 DEF vars, procVars, ToldInv
<1> QED
  BY <1>1, <1>2, <1>3, <1>4, <1>5, <1>6, <1>7, <1>8 DEF Next

(* Whatever crashes or fails between saving and emitting, nobody is told      *)
(* twice that the same session needs input (run.go:114-128).                  *)
THEOREM ToldOnce == Spec => []ToldAtMostOnce
<1>1. Init => ToldInv
  <2> SUFFICES ASSUME Init, NEW k \in Keys
               PROVE  told[k] <= 1 /\ told[k] # 1 /\ Need(k) \notin queue
    BY DEF ToldInv
  <2>1. told[k] = 0
    BY DEF Init
  <2>2. queue = {}
    BY DEF Init
  <2> QED
    BY <2>1, <2>2
<1>2. TypeOK /\ ToldInv /\ [Next]_vars => ToldInv'
  BY ToldStep
<1>3. ToldInv => ToldAtMostOnce
  BY DEF ToldInv, ToldAtMostOnce
<1> QED
  BY <1>1, <1>2, <1>3, NotifyTypeCorrect, PTL DEF Spec

-----------------------------------------------------------------------------
(* A need is noticed.  Two things the provers cannot supply are hypotheses    *)
(* here: that a cycle can go on, a fact about ENABLED that is an invariant of *)
(* the run, and an instance of the induction on finite sets.                  *)

(* A finite queue that only loses events loses them finitely often: true of   *)
(* any such queue, by induction on its length.                                *)
QueueRunsOut ==
    ~ (/\ <>[][queue' \subseteq queue]_queue
       /\ []<><<queue' # queue>>_queue)

Cycling == [][Next]_vars /\ []TypeOK /\ []NeverStuck /\ []QueueRunsOut

(* Where the cycle can go from each of its phases. *)
LEMMA PhaseStep ==
    ASSUME TypeOK, [Next]_vars
    PROVE  /\ At("persist") => At("persist")' \/ At("emit")' \/ At("diff")'
           /\ At("emit") => (At("emit")' /\ queue' \subseteq queue) \/ At("diff")'
<1>0. phase \in 1..3
  BY DEF TypeOK
<1> USE <1>0, PhaseAt DEF At, Phases
<1>1. CASE \E claudeOK, tmuxOK \in BOOLEAN : Diff(claudeOK, tmuxOK)
  BY <1>1 DEF Diff
<1>2. CASE Persist
  BY <1>2 DEF Persist
<1>3. CASE PersistFails \/ EmitFails \/ Killed
  BY <1>3 DEF PersistFails, EmitFails, Killed, Ended
<1>4. CASE (\E e \in Events : Emit(e)) \/ Emitted
  BY <1>4 DEF Emit, Emitted
<1>5. CASE (\E k \in Keys : WorldChanges(k)) \/ Tick \/ UNCHANGED vars
  BY <1>5 DEF WorldChanges, Tick, vars, procVars
<1> QED
  BY <1>1, <1>2, <1>3, <1>4, <1>5 DEF Next

(* Cycles end: the queue runs out, or the process is ended, and the next one  *)
(* collects.                                                                  *)
LEMMA CyclesEnd == Cycling /\ Saves /\ EmitsGoOn => []<>At("diff")
<1>1. TypeOK => At("diff") \/ At("persist") \/ At("emit")
  BY DEF TypeOK, At, Phases
<1>2. TypeOK /\ At("persist") /\ [Next]_vars => At("persist")' \/ At("emit")' \/ At("diff")'
  BY PhaseStep
<1>3. TypeOK /\ At("persist") /\ <<Persist>>_vars => At("emit")'
  BY DEF Persist, TypeOK, At, After, Phases
<1>4. TypeOK /\ At("emit") /\ [Next]_vars => At("emit")' \/ At("diff")'
  BY PhaseStep
<1>5. TypeOK /\ At("emit") /\ At("emit")' /\ [Next]_vars => [queue' \subseteq queue]_queue
  <2>1. At("emit") /\ At("diff")' /\ At("emit")' => FALSE
    BY DEF At
  <2> QED
    BY <2>1, PhaseStep
<1>6. TypeOK /\ At("emit") /\ At("emit")' /\ <<Emits>>_vars => <<queue' # queue>>_queue
  BY DEF Emits, Emit, Emitted, TypeOK, At, After, Phases
<1>7. /\ NeverStuck /\ At("persist") => ENABLED <<Persist>>_vars
      /\ NeverStuck /\ At("emit") => ENABLED <<Emits>>_vars
  BY DEF NeverStuck
<1> QED
  BY <1>1, <1>2, <1>3, <1>4, <1>5, <1>6, <1>7, PTL DEF Cycling, Saves, EmitsGoOn, QueueRunsOut

(* A session that goes on needing input is remembered as needing it, for any   *)
(* set of sessions (run.go:57-127, differ.go:86-150): a cycle whose collectors  *)
(* work sees it, not every such cycle ends before it is remembered, and a cycle *)
(* that failed before leaves nothing that keeps it from being seen.            *)
THEOREM NeedIsNoticed == FairSpec /\ []NeverStuck /\ []QueueRunsOut => NeedNoticed
<1> SUFFICES ASSUME NEW k \in Keys
             PROVE  FairSpec /\ []NeverStuck /\ []QueueRunsOut
                      => (NeedsInput(world[k]) ~>
                            (~NeedsInput(world[k]) \/ NeedsInput(memory.sessions[k])))
  BY DEF NeedNoticed
<1> DEFINE Needs == NeedsInput(world[k])
           Noted == NeedsInput(memory.sessions[k])
           Seen  == At("persist") /\ NeedsInput(cur[k])
<1>1. FairSpec => Spec /\ CollectsAgain /\ Saves /\ EmitsGoOn /\ SavesAsIs(k)
  BY DEF FairSpec
<1>2. NeverStuck /\ At("diff") => ENABLED <<Diff(TRUE, TRUE)>>_vars
  BY DEF NeverStuck
<1>3. TypeOK /\ Needs /\ <<Diff(TRUE, TRUE)>>_vars => Seen'
  <2> SUFFICES ASSUME TypeOK, Needs, Diff(TRUE, TRUE) PROVE Seen'
    OBVIOUS
  <2>1. k \in Visible(TRUE, TRUE)
    BY DEF Visible
  <2> QED
    BY <2>1 DEF Diff, TypeOK, At, After, Phases
<1>4. NeverStuck /\ Needs /\ Seen => ENABLED <<PersistsAsIs(k)>>_vars
  <2>1. NeverStuck => (At("persist") /\ Agrees(k) => ENABLED <<PersistsAsIs(k)>>_vars)
    BY DEF NeverStuck
  <2>2. Needs /\ Seen => At("persist") /\ Agrees(k)
    BY DEF Agrees
  <2> QED
    BY <2>1, <2>2
<1>5. Needs /\ <<PersistsAsIs(k)>>_vars => Noted'
  BY DEF PersistsAsIs, Persist, Agrees, Remembered
<1> HIDE DEF Needs, Noted, Seen
<1>6. Spec => []TypeOK
  BY NotifyTypeCorrect
<1>7. FairSpec /\ []NeverStuck /\ []QueueRunsOut => (Needs ~> (~Needs \/ Noted))
  BY <1>1, <1>2, <1>3, <1>4, <1>5, <1>6, CyclesEnd, PTL
     DEF Spec, Cycling, CollectsAgain, Saves, EmitsGoOn, SavesAsIs
<1> QED
  BY <1>7 DEF Needs, Noted

=============================================================================
