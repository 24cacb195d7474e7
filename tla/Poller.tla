------------------------------- MODULE Poller -------------------------------
(***************************************************************************)
(* The collection loop (internal/store/poller.go) over the collectors      *)
(* (internal/collect): which of them run in an iteration, what is cached    *)
(* between their ticks, what a failure leaves behind, and what the          *)
(* snapshot and /healthz then say.                                         *)
(*                                                                         *)
(*   daemon  Poller.Run: claude in every iteration, tmux and git when their *)
(*           interval has elapsed, their last results otherwise.           *)
(*   local   Poller.RunOnce, called over and over by a TUI with no daemon:  *)
(*           every collector every time, nothing cached.                   *)
(*                                                                         *)
(* A session is where it works: one of the repositories.  One that only tmux *)
(* knows takes two commands to find: list-panes for the pane, ps for the   *)
(* claude below it.  How sessions and panes are matched to one another is   *)
(* the subject of Correlate.                                               *)
(***************************************************************************)
EXTENDS Integers

CONSTANTS Repos,        \* the repositories there are
          Supervised,   \* sessions the claude collector lists
          Paned,        \* sessions only the tmux collector finds, each in its pane
          TmuxEvery,    \* poll.tmux_seconds
          GitEvery,     \* poll.git_seconds
          Pauses,       \* times from the start of one iteration to the next
          MaxPause,     \* the longest of them
          Horizon,      \* ages are told apart up to this one
          Setups        \* the configurations: [configured, linked]

ASSUME PollerAssumption ==
    /\ Supervised \cap Paned = {}
    /\ TmuxEvery \in Nat \ {0} /\ GitEvery \in Nat \ {0}
    /\ MaxPause \in Nat \ {0}
    /\ Pauses \subseteq 1..MaxPause
    /\ Horizon \in Nat
    /\ TmuxEvery + MaxPause <= Horizon
    /\ GitEvery + MaxPause <= Horizon
    /\ \A u \in Setups : u.configured \subseteq Repos /\ u.linked \subseteq u.configured

Sessions == Supervised \cup Paned

Gone  == "gone"
Place == Repos \cup {Gone}

VARIABLES
    mode,           \* "daemon" or "local", fixed
    configured,     \* repositories named by config.repos, or in a workspace dir
    linked,         \* those of them whose path is a linked worktree
    at,             \* at[s]: the repository session s works in (the pane is in), or Gone
    running,        \* the panes in which a claude runs
    awake,          \* an iteration is about to start
    panes,          \* cachedPanes: where each pane is
    procs,          \* cachedProcs: the panes with a claude below them
    repos,          \* cachedRepos
    tmuxAge,        \* now - lastTmux
    gitAge,         \* now - lastGit
    claudeHealth,   \* the ages of Store.health
    tmuxHealth,
    gitHealth,
    snap,           \* snap[s]: where the snapshot has s, and whether as loose
    snapAge,        \* history: the age of the snapshot
    panesAge,       \* history: the age of what panes holds
    procsAge,       \* history: the age of what procs holds
    reposAge,       \* history: the age of what repos holds
    tmuxFailed,     \* history: the last list-panes failed
    psFailed,       \* history: the last ps failed
    gitFailed       \* history: the last git tick listed no repository

world   == <<mode, configured, linked, at, running>>
tmuxVars == <<panes, procs, tmuxAge, tmuxHealth, panesAge, procsAge, tmuxFailed, psFailed>>
gitVars  == <<repos, gitAge, gitHealth, reposAge, gitFailed>>
vars == <<world, awake, tmuxVars, gitVars, claudeHealth, snap, snapAge>>

Never == -1
Ages  == {Never} \cup 0..Horizon

TypeOK ==
    /\ mode \in {"daemon", "local"}
    /\ configured \in SUBSET Repos
    /\ linked \in SUBSET configured
    /\ at \in [Sessions -> Place]
    /\ running \in SUBSET Paned
    /\ awake \in BOOLEAN
    /\ panes \in [Paned -> Place]
    /\ procs \in SUBSET Paned
    /\ repos \in SUBSET Repos
    /\ tmuxAge \in 0..Horizon
    /\ gitAge \in 0..Horizon
    /\ claudeHealth \in Ages
    /\ tmuxHealth \in Ages
    /\ gitHealth \in Ages
    /\ snap \in [Sessions -> [place : Place, loose : BOOLEAN]]
    /\ snapAge \in 0..Horizon
    /\ panesAge \in Ages
    /\ procsAge \in Ages
    /\ reposAge \in Ages
    /\ tmuxFailed \in BOOLEAN
    /\ psFailed \in BOOLEAN
    /\ gitFailed \in BOOLEAN

NoSession == [place |-> Gone, loose |-> FALSE]

(* lastTmux and lastGit are the zero time: both collectors are due. *)
Init ==
    /\ mode \in {"daemon", "local"}
    /\ \E u \in Setups : configured = u.configured /\ linked = u.linked
    /\ at = [s \in Sessions |-> Gone]
    /\ running = {}
    /\ awake = TRUE
    /\ panes = [p \in Paned |-> Gone]
    /\ procs = {}
    /\ repos = {}
    /\ tmuxAge = Horizon
    /\ gitAge = Horizon
    /\ claudeHealth = Never
    /\ tmuxHealth = Never
    /\ gitHealth = Never
    /\ snap = [s \in Sessions |-> NoSession]
    /\ snapAge = 0
    /\ panesAge = Never
    /\ procsAge = Never
    /\ reposAge = Never
    /\ tmuxFailed = FALSE
    /\ psFailed = FALSE
    /\ gitFailed = FALSE

-----------------------------------------------------------------------------
(* The collectors. *)

(* claude agents: a failure is an empty list. *)
Agents(ok) == [s \in Supervised |-> IF ok THEN at[s] ELSE Gone]

(* A plausible slip: the working directory of a session that has none is tried
   too. *)
DiscoveredBlank(agents, inPanes, mute) ==
    IF configured # {}
    THEN configured \ (linked \cap mute)
    ELSE ({agents[s] : s \in Supervised} \cup {inPanes[p] : p \in Paned}) \ mute

(* DiscoverReposAuto.  With a configuration, its repositories: git is asked
   only about a linked worktree among them, which is left out when
   --git-common-dir fails in it.  Without one, the repositories of the
   sessions and panes in sight: a directory is left out when --show-toplevel
   fails in it; when only --git-common-dir does, the worktree itself is listed
   in the repository's stead, and `git worktree list` there names the same
   worktrees, so the same sessions are bound.  `mute` are the repositories in
   which the one that matters fails. *)
Discovered(agents, inPanes, mute) ==
    IF configured # {}
    THEN configured \ (linked \cap mute)
    ELSE ({agents[s] : s \in Supervised} \cup {inPanes[p] : p \in Paned}) \ (mute \cup {Gone})

(* Correlate: a pane shows a session if there is a claude in its process tree,
   and a session is bound to its repository if that one was listed. *)
Correlated(agents, inPanes, inProcs, listed) ==
    LET seen(s) == IF s \in Supervised THEN agents[s]
                   ELSE IF s \in inProcs THEN inPanes[s] ELSE Gone
    IN  [s \in Sessions |-> [place |-> seen(s),
                             loose |-> seen(s) # Gone /\ seen(s) \notin listed]]

-----------------------------------------------------------------------------
(* Poller.Run: the sections of an iteration. *)

(* A plausible slip: due in the iteration after the interval has passed. *)
TmuxDueLate == tmuxAge >= TmuxEvery + MaxPause

(* A plausible slip: the panes are collected until that has worked once. *)
TmuxDueOnce == panesAge = Never

TmuxDue == tmuxAge >= TmuxEvery
GitDue  == gitAge >= GitEvery

(* A failed tick counts as a tick: the next one is an interval away.  ps is run
   only after list-panes has worked, and then tmux is healthy already: when ps
   fails the panes are new and the process table is as old as it was. *)
TmuxTick(panesOK, psOK) ==
    /\ TmuxDue
    /\ tmuxAge' = 0
    /\ tmuxFailed' = ~panesOK
    /\ psFailed' = IF panesOK THEN ~psOK ELSE psFailed
    /\ IF panesOK
       THEN panes' = [p \in Paned |-> at[p]] /\ tmuxHealth' = 0 /\ panesAge' = 0
       ELSE UNCHANGED <<panes, tmuxHealth, panesAge>>
    /\ IF panesOK /\ psOK
       THEN procs' = running /\ procsAge' = 0
       ELSE UNCHANGED <<procs, procsAge>>

TmuxNotDue == ~TmuxDue /\ UNCHANGED tmuxVars

(* A plausible slip, what the comment in the loop is about: a tick that listed
   nothing replaces the list as well. *)
ReplacesAlways(paths, listed) == TRUE

(* When the list of this tick replaces the cached one. *)
Replaces(paths, listed) == listed # {} \/ paths = {}

(* A plausible slip: healthy whatever the listings returned. *)
HealthyAlways(paths, listed) == TRUE

(* When the tick counts as a success of the git collector. *)
Healthy(paths, listed) == paths \subseteq listed \/ listed # {}

(* `broken` are the repositories whose worktrees cannot be listed. *)
GitTick(agents, mute, broken) ==
    LET paths  == Discovered(agents, panes', mute)
        listed == paths \ broken
    IN  /\ GitDue
        /\ gitAge' = 0
        /\ gitFailed' = (listed = {})
        /\ gitHealth' = IF Healthy(paths, listed) THEN 0 ELSE gitHealth
        /\ repos' = IF Replaces(paths, listed) THEN listed ELSE repos
        /\ reposAge' = IF Replaces(paths, listed) THEN 0 ELSE reposAge

GitNotDue == ~GitDue /\ UNCHANGED gitVars

(* One iteration, from time.Now() to Store.Set. *)
Iteration(claudeOK, panesOK, psOK, mute, broken) ==
    /\ mode = "daemon"
    /\ awake
    /\ awake' = FALSE
    /\ claudeHealth' = IF claudeOK THEN 0 ELSE claudeHealth
    /\ TmuxTick(panesOK, psOK) \/ TmuxNotDue
    /\ GitTick(Agents(claudeOK), mute, broken) \/ GitNotDue
    /\ snap' = Correlated(Agents(claudeOK), panes', procs', repos')
    /\ snapAge' = 0
    /\ UNCHANGED world

(* Poller.RunOnce: Fleet.Collect, no cache; the process table is empty when ps
   fails, and the git collector is healthy only if no listing failed. *)
RunOnce(claudeOK, panesOK, psOK, mute, broken) ==
    LET inPanes == [p \in Paned |-> IF panesOK THEN at[p] ELSE Gone]
        inProcs == IF psOK THEN running ELSE {}
        paths   == Discovered(Agents(claudeOK), inPanes, mute)
        listed  == paths \ broken
    IN  /\ mode = "local"
        /\ awake
        /\ awake' = FALSE
        /\ claudeHealth' = IF claudeOK THEN 0 ELSE claudeHealth
        /\ tmuxHealth' = IF panesOK THEN 0 ELSE tmuxHealth
        /\ gitHealth' = IF paths \subseteq listed THEN 0 ELSE gitHealth
        /\ snap' = Correlated(Agents(claudeOK), inPanes, inProcs, listed)
        /\ snapAge' = 0
        /\ UNCHANGED <<world, panes, procs, tmuxAge, panesAge, procsAge, tmuxFailed,
                       psFailed, repos, gitAge, reposAge, gitFailed>>

-----------------------------------------------------------------------------
(* The environment. *)

Later(age, d) ==
    IF age = Never THEN Never ELSE IF age + d < Horizon THEN age + d ELSE Horizon

(* Ages told apart up to one that is less than the horizon. *)
Capped(age, most) == IF age < most THEN age ELSE most

(* The rest of the iteration and the jittered sleep after it. *)
Pause(d) ==
    /\ ~awake
    /\ awake' = TRUE
    /\ tmuxAge' = Later(tmuxAge, d)
    /\ gitAge' = Later(gitAge, d)
    /\ claudeHealth' = Capped(Later(claudeHealth, d), MaxPause + 1)
    /\ tmuxHealth' = Later(tmuxHealth, d)
    /\ gitHealth' = Later(gitHealth, d)
    /\ snapAge' = Later(snapAge, d)
    /\ panesAge' = Later(panesAge, d)
    /\ procsAge' = Later(procsAge, d)
    /\ reposAge' = Later(reposAge, d)
    /\ UNCHANGED <<world, panes, procs, tmuxFailed, psFailed, repos, gitFailed, snap>>

(* A session or a pane comes, goes, or changes directory; a claude starts or
   ends in a pane that is there. *)
Moves(s) ==
    /\ \E p \in Place : at' = [at EXCEPT ![s] = p]
    /\ \/ running' = running \ {s}
       \/ s \in Paned /\ at'[s] # Gone /\ running' = running \cup {s}
    /\ <<at', running'>> # <<at, running>>
    /\ UNCHANGED <<mode, configured, linked, awake, tmuxVars, gitVars,
                   claudeHealth, snap, snapAge>>

(* What may go wrong, in the collectors that run. *)
TmuxOutcomes == IF mode = "local" \/ TmuxDue THEN BOOLEAN ELSE {TRUE}
GitFailures  == IF mode = "local" \/ GitDue THEN SUBSET Repos ELSE {{}}

Next ==
    \/ \E claudeOK \in BOOLEAN, panesOK, psOK \in TmuxOutcomes, mute, broken \in GitFailures :
          /\ panesOK \/ psOK          \* after a failed list-panes, ps makes no difference
          /\ mute \cap broken = {}    \* nor does worktree list after a failed rev-parse
          /\ \/ Iteration(claudeOK, panesOK, psOK, mute, broken)
             \/ RunOnce(claudeOK, panesOK, psOK, mute, broken)
    \/ \E d \in Pauses : Pause(d)
    \/ \E s \in Sessions : Moves(s)

Spec == Init /\ [][Next]_vars

(* The loop goes on, and no collector fails at every one of its ticks. *)
Flawless     == Iteration(TRUE, TRUE, TRUE, {}, {})
FlawlessTmux == TmuxDue /\ Flawless
FlawlessGit  == GitDue /\ Flawless
FlawlessOnce == RunOnce(TRUE, TRUE, TRUE, {}, {})
Wakes        == \E d \in Pauses : Pause(d)

Fairness ==
    /\ WF_vars(Wakes)
    /\ WF_vars(Flawless)
    /\ SF_vars(FlawlessTmux)
    /\ SF_vars(FlawlessGit)
    /\ SF_vars(FlawlessOnce)

FairSpec == Spec /\ Fairness

-----------------------------------------------------------------------------
(* Properties. *)

(* What /healthz and the snapshot's collectorAges say of the data in use.   *)
(* Panes and repositories were collected exactly when their collector last   *)
(* counted as healthy, although "healthy" and "use the new list" are two     *)
(* conditions (poller.go:68-70, 91-93, 98-100).  The process table is as old *)
(* as the panes unless the last ps has failed: then it is older, by any      *)
(* number of ticks, and never newer.  A snapshot with supervised sessions is *)
(* as old as the claude collector's last success, and one with sessions in   *)
(* panes, collected by RunOnce, as old as that of tmux (poller.go:61-76,     *)
(* 25-32).                                                                  *)
HealthTellsData ==
    /\ mode = "daemon" =>
          /\ tmuxHealth = panesAge /\ gitHealth = reposAge
          /\ procsAge # panesAge => psFailed
          /\ procsAge # Never => procsAge >= panesAge
    /\ (\E s \in Supervised : snap[s].place # Gone) => claudeHealth = snapAge
    /\ mode = "local" /\ (\E p \in Paned : snap[p].place # Gone) => tmuxHealth = snapAge

(* Data on show that is older than an interval and one pause is the mark of *)
(* a failed command: caching and jitter alone never make it that old        *)
(* (poller.go:13-15, 66, 71-74, 79, 111).                                   *)
OldMeansFailed ==
    mode = "daemon" =>
        /\ panesAge >= TmuxEvery + MaxPause => tmuxFailed
        /\ procsAge >= TmuxEvery + MaxPause => tmuxFailed \/ psFailed
        /\ reposAge >= GitEvery + MaxPause => gitFailed

(* Session s, which the last snapshot had in its repository, is still there *)
(* and is loose in the new one.                                             *)
Dumped(s) ==
    /\ snap[s].place # Gone /\ ~snap[s].loose
    /\ snap'[s].place = snap[s].place /\ snap'[s].loose

(* With a repository configured by its main checkout, git failing           *)
(* altogether loosens no session (poller.go:94-97).                         *)
KeptThroughFailure ==
    [][configured \ linked # {} /\ gitFailed' => \A s \in Sessions : ~Dumped(s)]_vars

(* What the comment at poller.go:94-97 says, of every configuration: "a     *)
(* transient git failure must not dump every session into (loose)".         *)
NeverAllDumped ==
    [][mode = "daemon" /\ gitFailed' /\ (\E s \in Sessions : Dumped(s))
         => \E s \in Sessions : snap'[s].place # Gone /\ ~snap'[s].loose]_vars

(* The loop is never held up, neither by a collector that is not due nor by    *)
(* what the last tick left behind: an iteration in which all goes well is      *)
(* possible whenever one starts, and so is the pause after it                  *)
(* (poller.go:59-117).                                                         *)
NeverStuck ==
    /\ ~awake => ENABLED <<Wakes>>_vars
    /\ awake /\ mode = "daemon" =>
          /\ ENABLED <<Flawless>>_vars
          /\ TmuxDue => ENABLED <<FlawlessTmux>>_vars
          /\ GitDue => ENABLED <<FlawlessGit>>_vars
    /\ awake /\ mode = "local" => ENABLED <<FlawlessOnce>>_vars

(* Once sessions stay where they are, the snapshot shows each of them, in   *)
(* its repository if that is known, again and again: no failure, and no     *)
(* cached result, is shown for ever, and the loop is never held up.         *)
Accurate ==
    \A s \in Sessions :
        LET place == IF s \in Supervised \cup running THEN at[s] ELSE Gone
        IN  snap[s] = [place |-> place,
                       loose |-> place # Gone /\ configured # {} /\ place \notin configured]

SettlesAccurate ==
    /\ []NeverStuck
    /\ <>[][UNCHANGED <<at, running>>]_vars => []<>Accurate

=============================================================================
