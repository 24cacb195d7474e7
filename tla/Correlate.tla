------------------------------ MODULE Correlate ------------------------------
(***************************************************************************)
(* The sessions of a snapshot: how model.Correlate                         *)
(* (internal/model/correlate.go) merges what the supervisor lists with      *)
(* what runs in tmux panes, over the process table.                        *)
(*                                                                         *)
(*   agents   sequence of [ident, kind, pid, cwd]: `claude agents --json`;  *)
(*            pid is NoPid once the process has ended                      *)
(*   panes    sequence of [id, pid, path]: `tmux list-panes`                *)
(*   procs    sequence of [pid, ppid, claude]: `ps -e`; claude says that    *)
(*            the command is one (isClaudeCommand)                         *)
(*                                                                         *)
(* and binds each to the worktree it is in.  A path is the sequence of its *)
(* components.  Names, states and times are carried through unchanged and  *)
(* left out.                                                               *)
(***************************************************************************)
EXTENDS Integers, SequencesExt

NoPid   == 0
NoPane  == 0
NoIdent == 0
Loose   == <<>>

(* The elements of q that are in T, in the order of q: SelectSeq for a set     *)
(* instead of a test.                                                          *)
Those(q, T) ==
    LET f[n \in 0..Len(q)] ==
            IF n = 0 THEN <<>> ELSE IF q[n] \in T THEN Append(f[n - 1], q[n]) ELSE f[n - 1]
    IN  f[Len(q)]

Children(procs, pid) ==
    LET below == Those(procs, {p \in ToSet(procs) : p.ppid = pid})
    IN  [i \in DOMAIN below |-> below[i].pid]

(* One turn of the walk's loop: a pid is taken from the stack and, unless it
   has been seen, noted, and its children are put there. *)
Turn(procs, w) ==
    LET pid == Last(w.stack)
    IN  IF w.stack = <<>> THEN w
        ELSE IF pid \in ToSet(w.order) THEN [w EXCEPT !.stack = Front(@)]
        ELSE [stack |-> Front(w.stack) \o Children(procs, pid), order |-> Append(w.order, pid)]

(* The depth-first walk over root's subtree, with the code's explicit stack:
   the pids in the order in which they are popped for the first time. *)
Walk(procs, root) ==
    LET w[n \in 0..Len(procs) + 1] ==
            IF n = 0 THEN [stack |-> <<root>>, order |-> <<>>] ELSE Turn(procs, w[n - 1])
    IN  w[Len(procs) + 1].order

ContainsPID(procs, root, needle) == needle \in ToSet(Walk(procs, root))

ClaudesIn(procs) == {p.pid : p \in {q \in ToSet(procs) : q.claude}}

(* A plausible slip: with no claude in the subtree, its root. *)
FindOrRoot(procs, root) ==
    LET below == Those(Walk(procs, root), ClaudesIn(procs) \ {root})
    IN  IF below # <<>> THEN Head(below) ELSE root

(* The first claude below root, or root itself. *)
FindClaudeDescendant(procs, root) ==
    LET below == Those(Walk(procs, root), ClaudesIn(procs) \ {root})
    IN  CASE below # <<>>                                -> Head(below)
          [] below = <<>> /\ root \in ClaudesIn(procs)   -> root
          [] below = <<>> /\ root \notin ClaudesIn(procs) -> NoPid

(* KeyFor. *)
SupervisorKey(a) == IF a.ident # NoIdent THEN <<"sup", a.ident>> ELSE <<"sup-pid", a.pid>>
TmuxKey(pane, pid) == <<"tmux", pane.id, pid>>

(* A plausible slip: the order of the listing. *)
AsListed(agents) == agents

InteractiveFirst(agents) ==
    LET interactive == {a \in ToSet(agents) : a.kind = "interactive"}
    IN  Those(agents, interactive) \o Those(agents, ToSet(agents) \ interactive)

(* A plausible slip: a pane can be claimed again. *)
ClaimAny(a, panes, procs, claimed) ==
    LET mine == Those(panes, {p \in ToSet(panes) : ContainsPID(procs, p.pid, a.pid)})
    IN  IF a.pid = NoPid \/ mine = <<>> THEN NoPane ELSE Head(mine).id

(* The pane of a's process: the first one that nobody has claimed. *)
Claim(a, panes, procs, claimed) ==
    LET mine == Those(panes, {p \in ToSet(panes) : /\ p.pid # NoPid
                                                   /\ p.id \notin claimed
                                                   /\ ContainsPID(procs, p.pid, a.pid)})
    IN  IF a.pid = NoPid \/ mine = <<>> THEN NoPane ELSE Head(mine).id

(* The panes of the agents, who claim them one after the other. *)
Claims(agents, panes, procs) ==
    LET got[n \in 0..Len(agents)] ==
            IF n = 0 THEN <<>>
            ELSE LET before == got[n - 1]
                 IN  Append(before, Claim(agents[n], panes, procs, ToSet(before)))
    IN  got[Len(agents)]

(* A plausible slip: the directories of ended sessions too. *)
EveryCWD(agents) == {agents[i].cwd : i \in DOMAIN agents}

SupervisorCWDs(agents) ==
    {agents[i].cwd : i \in {j \in DOMAIN agents : agents[j].pid # NoPid}}

(* A plausible slip: claimed panes are not passed over. *)
TmuxOnlyClaimed(agents, panes, procs, claimed) ==
    Those(panes, {p \in ToSet(panes) : /\ FindClaudeDescendant(procs, p.pid) # NoPid
                                       /\ p.path \notin SupervisorCWDs(agents)})

(* The panes in which a claude runs that the supervisor does not seem to know. *)
TmuxOnly(agents, panes, procs, claimed) ==
    Those(panes, {p \in ToSet(panes) : /\ p.id \notin claimed
                                       /\ p.pid # NoPid
                                       /\ FindClaudeDescendant(procs, p.pid) # NoPid
                                       /\ p.path \notin SupervisorCWDs(agents)})

(* pathHasPrefix: component by component.                                       *)
Under(path, base) == IsPrefix(base, path)

(* A plausible slip: the first worktree that git lists around cwd. *)
BoundToFirst(cwd, worktrees) ==
    LET around == {i \in DOMAIN worktrees : Under(cwd, worktrees[i])}
    IN  IF around = {} THEN Loose
        ELSE worktrees[CHOOSE i \in around : \A j \in around : i <= j]

(* The worktree with the longest path among those around cwd: bindings are      *)
(* sorted by length, and the first that fits is taken.  With none, it is loose. *)
Bound(cwd, worktrees) ==
    LET around == {i \in DOMAIN worktrees : Under(cwd, worktrees[i])}
    IN  IF around = {} THEN Loose
        ELSE worktrees[CHOOSE i \in around : \A j \in around : Len(worktrees[j]) <= Len(worktrees[i])]

(* bound[cwd]: Bound of a directory. *)
SessionsOf(agents, panes, procs, bound) ==
    LET sorted  == InteractiveFirst(agents)
        claims  == Claims(sorted, panes, procs)
        others  == TmuxOnly(agents, panes, procs, ToSet(claims))
        found   == [i \in DOMAIN others |-> FindClaudeDescendant(procs, others[i].pid)]
    IN  [i \in DOMAIN sorted |->
            [key |-> SupervisorKey(sorted[i]), kind |-> sorted[i].kind,
             pid |-> sorted[i].pid, cwd |-> sorted[i].cwd, pane |-> claims[i],
             worktree |-> bound[sorted[i].cwd]]]
        \o [i \in DOMAIN others |->
            [key |-> TmuxKey(others[i], found[i]), kind |-> "tmux-interactive",
             pid |-> found[i], cwd |-> others[i].path, pane |-> others[i].id,
             worktree |-> bound[others[i].path]]]

=============================================================================
