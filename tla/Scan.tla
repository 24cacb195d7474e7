-------------------------------- MODULE Scan --------------------------------
(***************************************************************************)
(* A collection cycle against a world that does not hold still: claude     *)
(* processes start, become known to the supervisor and end while the       *)
(* listing, the panes and the process table are read one after the other.  *)
(*                                                                         *)
(*   collect  Fleet.Collect (internal/collect/fleet.go): what fails is     *)
(*            empty.                                                       *)
(*   daemon   the loop of Poller.Run (internal/store/poller.go): a failed  *)
(*            listing is empty, panes and processes are kept from the last *)
(*            tick when they are not due or fail.  When they are due is    *)
(*            Poller's subject; here it may be at any cycle.               *)
(*                                                                         *)
(* A process id is used once.                                              *)
(***************************************************************************)
EXTENDS Correlate, FiniteSets

CONSTANTS Pids,         \* sequence: the process ids, in the order of the listings
          Claudes,      \* those of claude processes
          PanePid,      \* sequence: the process id of each pane, a shell's or,
                        \* for a pane that runs claude directly, a claude's
          PanePath,     \* sequence: the directory of each pane
          Dirs,         \* the directories
          Path,         \* Path[d]: the path of a directory
          Worktrees,    \* sequence: the worktrees git lists; Poller has git fail
          Degraded      \* claudes listed without any id

ASSUME ScanAssumption ==
    /\ Pids \in Seq(Nat \ {NoPid, 1}) /\ IsInjective(Pids)
    /\ Claudes \subseteq ToSet(Pids)
    /\ PanePid \in Seq(ToSet(Pids)) /\ IsInjective(PanePid)
    /\ PanePath \in Seq(Dirs) /\ Len(PanePath) = Len(PanePid)
    /\ Path \in [Dirs -> Seq(STRING) \ {Loose}]
    /\ Worktrees \in Seq(Seq(STRING) \ {Loose})
    /\ Degraded \subseteq Claudes

VARIABLES
    mode,       \* "daemon" or "collect", fixed
    proc,       \* proc[c]: what there is to know of claude c
    phase,      \* what the cycle does next
    agents,     \* the listing of this cycle
    panes,      \* the panes in use
    procs,      \* the process table in use
    snap,       \* the last snapshot: its sessions
    steady,     \* history: processes that have been as they are during the cycle
    flawless    \* history: every collector has run in this cycle, and succeeded

vars == <<mode, proc, phase, agents, panes, procs, snap, steady, flawless>>

System == 1     \* the parent of processes without one of interest

Kinds  == {"interactive", "background", "unlisted"}
Unborn == [life |-> "unborn", kind |-> "unlisted", parent |-> System, cwd |-> ""]
Life   == {"unborn", "alive", "ended"}

Panes  == DOMAIN PanePid
Direct == {i \in Panes : PanePid[i] \in Claudes}
Shells == {PanePid[i] : i \in Panes \ Direct}

AgentEntry == [ident : Claudes \cup {NoIdent}, kind : Kinds,
               cwd : Dirs, pid : Claudes \cup {NoPid}]
PaneEntry  == [id : Panes, pid : Claudes \cup Shells, path : Dirs]

ProcEntry  == [pid : Claudes \cup Shells, ppid : {System} \cup Shells \cup Claudes,
               claude : BOOLEAN]
Process    == [life : Life, kind : Kinds, cwd : Dirs \cup {""},
               parent : {System} \cup Shells \cup Claudes]

Alive(c) == proc[c].life = "alive"

Open   == {i \in Panes : i \in Direct => Alive(PanePid[i])}

(* Claude c runs in pane i: in the pane's process or below it, and so in any    *)
(* set with this process that has with a process its children.                  *)
InPane(c, i) ==
    /\ Alive(c) /\ i \in Open
    /\ \A X \in SUBSET ToSet(Pids) :
          /\ PanePid[i] \in X
          /\ \A d \in Claudes : Alive(d) /\ proc[d].parent \in X => d \in X
          => c \in X

TypeOK ==
    /\ mode \in {"daemon", "collect"}
    /\ proc \in [Claudes -> Process]
    /\ phase \in {"agents", "panes", "procs", "correlate"}
    /\ agents \in Seq(AgentEntry)
    /\ panes \in Seq(PaneEntry)
    /\ procs \in Seq(ProcEntry)
    /\ \A i \in DOMAIN snap : snap[i].pid \in Claudes \cup {NoPid}
    /\ steady \subseteq {c \in Claudes : Alive(c)}
    /\ flawless \in BOOLEAN

-----------------------------------------------------------------------------
(* What the commands would print now. *)

Ident(c) == IF c \in Degraded THEN NoIdent ELSE c

(* The supervisor lists what it knows of: processes that run, and background
   sessions that have ended, unless they are without identity then
   (ParseAgentsJSON drops those). *)
Listed(c) ==
    /\ proc[c].kind # "unlisted"
    /\ Alive(c) \/ (proc[c].life = "ended" /\ proc[c].kind = "background" /\ c \notin Degraded)

Listing ==
    LET entry(c) == [ident |-> Ident(c), kind |-> proc[c].kind, cwd |-> proc[c].cwd,
                     pid |-> IF Alive(c) THEN c ELSE NoPid]
        known    == Those(Pids, {c \in Claudes : Listed(c)})
    IN  [i \in DOMAIN known |-> entry(known[i])]

PaneList ==
    LET open == Those([i \in Panes |-> i], Open)
    IN  [i \in DOMAIN open |->
            [id |-> open[i], pid |-> PanePid[open[i]], path |-> PanePath[open[i]]]]

ProcTable ==
    LET running == Those(Pids, Shells \cup {c \in Claudes : Alive(c)})
    IN  [i \in DOMAIN running |->
            [pid    |-> running[i],
             ppid   |-> IF running[i] \in Claudes THEN proc[running[i]].parent ELSE System,
             claude |-> running[i] \in Claudes]]

-----------------------------------------------------------------------------
(* The cycle. *)

Agents(ok) ==
    /\ phase = "agents"
    /\ agents' = IF ok THEN Listing ELSE <<>>
    /\ flawless' = ok
    /\ steady' = {c \in Claudes : Alive(c)}
    /\ phase' = "panes"
    /\ UNCHANGED <<mode, proc, panes, procs, snap>>

(* Fleet.Collect reads the process table if there is anything to look up in it. *)
ListPanes ==
    /\ phase = "panes"
    /\ panes' = PaneList
    /\ phase' = IF mode = "daemon" \/ panes' # <<>> \/ agents # <<>> THEN "procs" ELSE "correlate"
    /\ procs' = IF phase' = "procs" THEN procs ELSE <<>>
    /\ UNCHANGED <<mode, proc, agents, snap, steady, flawless>>

PanesFail ==
    /\ phase = "panes"
    /\ panes' = IF mode = "daemon" THEN panes ELSE <<>>
    /\ phase' = IF mode = "collect" /\ agents # <<>> THEN "procs" ELSE "correlate"
    /\ procs' = IF mode = "collect" /\ agents = <<>> THEN <<>> ELSE procs
    /\ flawless' = FALSE
    /\ UNCHANGED <<mode, proc, agents, snap, steady>>

(* The tmux interval has not elapsed. *)
TmuxNotDue ==
    /\ phase = "panes"
    /\ mode = "daemon"
    /\ phase' = "correlate"
    /\ flawless' = FALSE
    /\ UNCHANGED <<mode, proc, agents, panes, procs, snap, steady>>

Processes(ok) ==
    /\ phase = "procs"
    /\ procs' = CASE ok                        -> ProcTable
                  [] ~ok /\ mode = "daemon"    -> procs
                  [] ~ok /\ mode = "collect"   -> <<>>
    /\ flawless' = (flawless /\ ok)
    /\ phase' = "correlate"
    /\ UNCHANGED <<mode, proc, agents, panes, snap, steady>>

Binding == [d \in Dirs |-> Bound(Path[d], Worktrees)]

(* The snapshot, and the wait for the next cycle. *)
Correlated ==
    /\ phase = "correlate"
    /\ snap' = SessionsOf(agents, panes, procs, Binding)
    /\ phase' = "agents"
    /\ agents' = <<>>
    /\ panes' = IF mode = "daemon" THEN panes ELSE <<>>
    /\ procs' = IF mode = "daemon" THEN procs ELSE <<>>
    /\ UNCHANGED <<mode, proc, steady, flawless>>

-----------------------------------------------------------------------------
(* The environment. *)

Becomes(c, p) ==
    /\ proc' = [proc EXCEPT ![c] = p]
    /\ steady' = steady \ {c}
    /\ UNCHANGED <<mode, phase, agents, panes, procs, snap, flawless>>

(* A human starts claude at the prompt of a pane, or as its command. *)
StartInPane(c, i) ==
    /\ proc[c].life = "unborn"
    /\ i \in Direct => PanePid[i] = c
    /\ i \notin Direct => \A j \in Direct : PanePid[j] # c
    /\ Becomes(c, [life |-> "alive", kind |-> "unlisted", cwd |-> PanePath[i],
                   parent |-> IF i \in Direct THEN System ELSE PanePid[i]])

(* The supervisor takes note of it. *)
Registers(c) ==
    /\ Alive(c) /\ proc[c].kind = "unlisted"
    /\ Becomes(c, [proc[c] EXCEPT !.kind = "interactive"])

(* A background job: the supervisor's child, or that of a shell or a claude. *)
StartBackground(c, parent, dir) ==
    /\ proc[c].life = "unborn"
    /\ \A j \in Direct : PanePid[j] # c
    /\ parent \in {System} \cup Shells \cup {d \in Claudes : Alive(d)}
    /\ Becomes(c, [life |-> "alive", kind |-> "background", cwd |-> dir, parent |-> parent])

(* Its children go on without it. *)
Exits(c) ==
    /\ Alive(c)
    /\ proc' = [d \in Claudes |->
                  IF d = c THEN [proc[c] EXCEPT !.life = "ended", !.parent = System]
                  ELSE IF proc[d].parent = c THEN [proc[d] EXCEPT !.parent = System]
                  ELSE proc[d]]
    /\ steady' = steady \ ({c} \cup {d \in Claudes : proc[d].parent = c})
    /\ UNCHANGED <<mode, phase, agents, panes, procs, snap, flawless>>

Init ==
    /\ mode \in {"daemon", "collect"}
    /\ proc = [c \in Claudes |-> Unborn]
    /\ phase = "agents"
    /\ agents = <<>>
    /\ panes = <<>>
    /\ procs = <<>>
    /\ snap = <<>>
    /\ steady = {}
    /\ flawless = FALSE

Next ==
    \/ \E ok \in BOOLEAN : Agents(ok) \/ Processes(ok)
    \/ ListPanes \/ PanesFail \/ TmuxNotDue
    \/ Correlated
    \/ \E c \in Claudes :
          \/ \E i \in Panes : StartInPane(c, i)
          \/ \E parent \in {System} \cup Shells \cup Claudes, dir \in Dirs : StartBackground(c, parent, dir)
          \/ Registers(c) \/ Exits(c)

Spec == Init /\ [][Next]_vars

-----------------------------------------------------------------------------
(* Properties. *)

(* No pane is the pane of two sessions, whatever was cached, failed or       *)
(* changed between the readings (correlate.go:88-101, 115-118).             *)
PaneOnce ==
    \A i, j \in DOMAIN snap :
        i # j /\ snap[i].pane = snap[j].pane => snap[i].pane = NoPane

(* No session is shown twice: not under one key, and no process both as a   *)
(* supervisor session and as an unknown claude in a pane, also when the      *)
(* process table is older than the listing (correlate.go:105-127,           *)
(* model.go:121-136).                                                       *)
SessionOnce ==
    \A i, j \in DOMAIN snap :
        i # j => /\ snap[i].key # snap[j].key
                 /\ snap[i].pid = snap[j].pid => snap[i].pid = NoPid

(* A claude that runs in a pane all through a cycle without failures is not *)
(* missed: its pane is some session's, or it is taken for a live supervisor  *)
(* session in the same directory.  One that has ended does not hide it       *)
(* (correlate.go:106-127).                                                  *)
NobodyMissed ==
    phase = "agents" /\ flawless =>
        \A c \in steady : \A p \in Panes : InPane(c, p) =>
            \E i \in DOMAIN snap :
                \/ snap[i].pane = p
                \/ snap[i].pid \notin {NoPid, c} /\ snap[i].cwd = PanePath[p]

(* A pane in which an interactive session runs is shown as an interactive   *)
(* session's, not as that of a background job started from it               *)
(* (correlate.go:36-44).                                                    *)
InteractiveOwnsPane ==
    phase = "agents" /\ flawless =>
        \A c \in steady : \A p \in Panes :
            InPane(c, p) /\ proc[c].kind = "interactive" =>
                \E i \in DOMAIN snap : snap[i].pane = p /\ snap[i].kind = "interactive"

(* A session is shown in the innermost worktree around its directory, also    *)
(* when that lies inside the main checkout of its repository, and in none     *)
(* only if there is none (correlate.go:140-180).                              *)
BoundToDeepest ==
    phase = "agents" => \A i \in DOMAIN snap :
        LET around == {w \in ToSet(Worktrees) : IsPrefix(w, Path[snap[i].cwd])}
        IN  IF around = {} THEN snap[i].worktree = Loose
            ELSE /\ snap[i].worktree \in around
                 /\ \A w \in around : IsPrefix(w, snap[i].worktree)

=============================================================================
