---------------------------- MODULE PollerProofs ----------------------------
(* Theorems about Poller: what holds for every set of repositories, sessions *)
(* and configurations, and for all intervals and pauses.                     *)
EXTENDS Poller, TLAPS

-----------------------------------------------------------------------------
(* The operators. *)

LEMMA LaterInAges ==
    ASSUME NEW age \in Ages, NEW d \in Pauses
    PROVE  /\ Later(age, d) \in Ages
           /\ age # Never => Later(age, d) \in 0..Horizon
           /\ age = Never => Later(age, d) = Never
  BY PollerAssumption DEF Later, Ages, Never

(* Time adds to an age at most the pause. *)
LEMMA LaterBelow ==
    ASSUME NEW age \in 0..Horizon, NEW d \in Pauses, NEW every \in Nat,
           age < every, every + MaxPause <= Horizon
    PROVE  Later(age, d) < every + MaxPause
  BY PollerAssumption DEF Later, Never

(* The claude collector reports places. *)
LEMMA AgentsPlaced ==
    ASSUME at \in [Sessions -> Place], NEW ok \in BOOLEAN
    PROVE  Agents(ok) \in [Supervised -> Place]
  BY DEF Agents, Sessions, Place

(* Discovery reports repositories, never the place of a session that is gone. *)
LEMMA DiscoveredRepos ==
    ASSUME configured \in SUBSET Repos,
           NEW agents \in [Supervised -> Place], NEW inPanes \in [Paned -> Place], NEW mute
    PROVE  Discovered(agents, inPanes, mute) \in SUBSET Repos
<1>1. CASE configured # {}
  BY <1>1 DEF Discovered
<1>2. CASE configured = {}
  BY <1>2 DEF Discovered, Place
<1> QED
  BY <1>1, <1>2

(* Correlate returns a snapshot. *)
LEMMA CorrelatedPlaced ==
    ASSUME NEW agents \in [Supervised -> Place], NEW inPanes \in [Paned -> Place],
           NEW inProcs, NEW listed
    PROVE  Correlated(agents, inPanes, inProcs, listed) \in
               [Sessions -> [place : Place, loose : BOOLEAN]]
  BY DEF Correlated, Sessions, Place

(* A session that is not loose is in a repository that was listed. *)
LEMMA CorrelatedBound ==
    ASSUME NEW agents, NEW inPanes, NEW inProcs, NEW listed, NEW s \in Sessions
    PROVE  LET c == Correlated(agents, inPanes, inProcs, listed)[s]
           IN  c.place # Gone => (c.loose <=> c.place \notin listed)
  BY DEF Correlated

-----------------------------------------------------------------------------
(* Type correctness. *)

LEMMA TmuxTyped ==
    ASSUME TypeOK,
           \/ \E panesOK, psOK \in BOOLEAN : TmuxTick(panesOK, psOK)
           \/ TmuxNotDue
    PROVE  /\ panes' \in [Paned -> Place]
           /\ procs' \in SUBSET Paned
           /\ tmuxAge' \in 0..Horizon
           /\ tmuxHealth' \in Ages
           /\ panesAge' \in Ages
           /\ procsAge' \in Ages
           /\ tmuxFailed' \in BOOLEAN
           /\ psFailed' \in BOOLEAN
<1>1. 0 \in 0..Horizon /\ 0 \in Ages
  BY PollerAssumption DEF Ages
<1>2. ASSUME NEW panesOK \in BOOLEAN, NEW psOK \in BOOLEAN, TmuxTick(panesOK, psOK)
      PROVE  /\ tmuxAge' = 0 /\ tmuxFailed' \in BOOLEAN /\ psFailed' \in BOOLEAN
             /\ \/ panes' = [p \in Paned |-> at[p]] /\ tmuxHealth' = 0 /\ panesAge' = 0
                \/ UNCHANGED <<panes, tmuxHealth, panesAge>>
             /\ \/ procs' = running /\ procsAge' = 0
                \/ UNCHANGED <<procs, procsAge>>
  BY <1>2 DEF TmuxTick, TypeOK
<1>3. [p \in Paned |-> at[p]] \in [Paned -> Place] /\ running \in SUBSET Paned
  BY DEF TypeOK, Sessions
<1>4. ASSUME NEW panesOK \in BOOLEAN, NEW psOK \in BOOLEAN, TmuxTick(panesOK, psOK)
      PROVE  /\ panes' \in [Paned -> Place] /\ procs' \in SUBSET Paned
             /\ tmuxHealth' \in Ages /\ panesAge' \in Ages /\ procsAge' \in Ages
  BY <1>1, <1>2, <1>3, <1>4 DEF TypeOK
<1>5. CASE TmuxNotDue
  BY <1>5 DEF TmuxNotDue, tmuxVars, TypeOK
<1> QED
  BY <1>1, <1>2, <1>4, <1>5

(* The git section of an iteration keeps the types. *)
LEMMA GitTyped ==
    ASSUME TypeOK, panes' \in [Paned -> Place], NEW ok \in BOOLEAN,
           \/ \E mute, broken \in SUBSET Repos : GitTick(Agents(ok), mute, broken)
           \/ GitNotDue
    PROVE  /\ repos' \in SUBSET Repos
           /\ gitAge' \in 0..Horizon
           /\ gitHealth' \in Ages
           /\ reposAge' \in Ages
           /\ gitFailed' \in BOOLEAN
<1>1. 0 \in 0..Horizon /\ 0 \in Ages
  BY PollerAssumption DEF Ages
<1>2. ASSUME NEW mute \in SUBSET Repos, NEW broken \in SUBSET Repos,
             GitTick(Agents(ok), mute, broken)
      PROVE  /\ repos' \in SUBSET Repos
             /\ gitAge' = 0
             /\ gitHealth' \in Ages
             /\ reposAge' \in Ages
             /\ gitFailed' \in BOOLEAN
  <2> DEFINE paths  == Discovered(Agents(ok), panes', mute)
             listed == paths \ broken
  <2>1. paths \in SUBSET Repos
    BY AgentsPlaced, DiscoveredRepos DEF TypeOK
  <2>2. /\ gitAge' = 0
        /\ gitFailed' = (listed = {})
        /\ gitHealth' = IF Healthy(paths, listed) THEN 0 ELSE gitHealth
        /\ repos' = IF Replaces(paths, listed) THEN listed ELSE repos
        /\ reposAge' = IF Replaces(paths, listed) THEN 0 ELSE reposAge
    BY <1>2 DEF GitTick
  <2> HIDE DEF paths
  <2> QED
    BY <1>1, <2>1, <2>2 DEF TypeOK
<1>3. CASE GitNotDue
  BY <1>3 DEF GitNotDue, gitVars, TypeOK
<1> QED
  BY <1>1, <1>2, <1>3

(* Every step keeps the types. *)
LEMMA PollerTypeStep == TypeOK /\ [Next]_vars => TypeOK'
<1> SUFFICES ASSUME TypeOK, [Next]_vars PROVE TypeOK'
  OBVIOUS
<1>0. 0 \in 0..Horizon /\ 0 \in Ages
  BY PollerAssumption DEF Ages
<1>1. ASSUME NEW claudeOK \in BOOLEAN, NEW panesOK \in BOOLEAN, NEW psOK \in BOOLEAN,
             NEW mute \in SUBSET Repos, NEW broken \in SUBSET Repos,
             Iteration(claudeOK, panesOK, psOK, mute, broken)
      PROVE  TypeOK'
  <2>1. /\ panes' \in [Paned -> Place]
        /\ procs' \in SUBSET Paned
        /\ tmuxAge' \in 0..Horizon
        /\ tmuxHealth' \in Ages
        /\ panesAge' \in Ages
        /\ procsAge' \in Ages
        /\ tmuxFailed' \in BOOLEAN
        /\ psFailed' \in BOOLEAN
    BY <1>1, TmuxTyped DEF Iteration
  <2>2. /\ repos' \in SUBSET Repos
        /\ gitAge' \in 0..Horizon
        /\ gitHealth' \in Ages
        /\ reposAge' \in Ages
        /\ gitFailed' \in BOOLEAN
    BY <1>1, <2>1, GitTyped DEF Iteration
  <2>3. snap' \in [Sessions -> [place : Place, loose : BOOLEAN]]
    BY <1>1, <2>1, AgentsPlaced, CorrelatedPlaced DEF Iteration, TypeOK
  <2>4. claudeHealth' \in Ages /\ snapAge' \in 0..Horizon /\ awake' \in BOOLEAN
    BY <1>0, <1>1 DEF Iteration, TypeOK
  <2>5. UNCHANGED world
    BY <1>1 DEF Iteration
  <2> QED
    BY <2>1, <2>2, <2>3, <2>4, <2>5 DEF TypeOK, world
<1>2. ASSUME NEW claudeOK \in BOOLEAN, NEW panesOK \in BOOLEAN, NEW psOK \in BOOLEAN,
             NEW mute \in SUBSET Repos, NEW broken \in SUBSET Repos,
             RunOnce(claudeOK, panesOK, psOK, mute, broken)
      PROVE  TypeOK'
  <2> DEFINE inPanes == [p \in Paned |-> IF panesOK THEN at[p] ELSE Gone]
             inProcs == IF psOK THEN running ELSE {}
             paths   == Discovered(Agents(claudeOK), inPanes, mute)
  <2>1. inPanes \in [Paned -> Place]
    BY DEF TypeOK, Sessions, Place
  <2>2. snap' = Correlated(Agents(claudeOK), inPanes, inProcs, paths \ broken)
    BY <1>2 DEF RunOnce
  <2>3. snap' \in [Sessions -> [place : Place, loose : BOOLEAN]]
    <3> HIDE DEF inPanes, inProcs, paths
    <3> QED
      BY <2>1, <2>2, AgentsPlaced, CorrelatedPlaced DEF TypeOK
  <2>4. /\ claudeHealth' \in Ages /\ tmuxHealth' \in Ages /\ gitHealth' \in Ages
        /\ snapAge' \in 0..Horizon /\ awake' \in BOOLEAN
    BY <1>0, <1>2 DEF RunOnce, TypeOK
  <2>5. UNCHANGED <<world, panes, procs, tmuxAge, panesAge, procsAge, tmuxFailed,
                    psFailed, repos, gitAge, reposAge, gitFailed>>
    BY <1>2 DEF RunOnce
  <2> QED
    BY <2>3, <2>4, <2>5 DEF TypeOK, world
<1>3. ASSUME NEW d \in Pauses, Pause(d) PROVE TypeOK'
  <2>1. /\ tmuxAge \in Ages /\ gitAge \in Ages /\ snapAge \in Ages
        /\ tmuxAge # Never /\ gitAge # Never /\ snapAge # Never
    BY PollerAssumption DEF TypeOK, Ages, Never
  <2>2. /\ tmuxAge' \in 0..Horizon /\ gitAge' \in 0..Horizon /\ snapAge' \in 0..Horizon
    BY <1>3, <2>1, LaterInAges DEF Pause
  <2>3. /\ claudeHealth' \in Ages /\ tmuxHealth' \in Ages /\ gitHealth' \in Ages
        /\ panesAge' \in Ages /\ procsAge' \in Ages /\ reposAge' \in Ages
    <3>1. Later(claudeHealth, d) \in Ages
      BY LaterInAges DEF TypeOK
    <3>2. claudeHealth' \in Ages
      BY <1>3, <3>1, PollerAssumption DEF Pause, Capped, Ages, Never
    <3> QED
      BY <1>3, <3>2, LaterInAges DEF Pause, TypeOK
  <2>4. awake' \in BOOLEAN /\ UNCHANGED <<world, panes, procs, tmuxFailed, psFailed, repos,
                                         gitFailed, snap>>
    BY <1>3 DEF Pause
  <2> QED
    BY <2>2, <2>3, <2>4 DEF TypeOK, world
<1>4. ASSUME NEW s \in Sessions, Moves(s) PROVE TypeOK'
  <2>1. at' \in [Sessions -> Place] /\ running' \in SUBSET Paned
    BY <1>4 DEF Moves, TypeOK
  <2>2. UNCHANGED <<mode, configured, linked, awake, tmuxVars, gitVars, claudeHealth, snap, snapAge>>
    BY <1>4 DEF Moves
  <2> QED
    BY <2>1, <2>2 DEF TypeOK, tmuxVars, gitVars
<1>5. CASE UNCHANGED vars
  BY <1>5 DEF vars, world, tmuxVars, gitVars, TypeOK
<1> QED
  BY <1>1, <1>2, <1>3, <1>4, <1>5 DEF Next, TmuxOutcomes, GitFailures

(* The loop keeps its caches, clocks and snapshot well-typed: in particular  *)
(* no cached repository list ever holds anything but repositories.           *)
THEOREM PollerTypeCorrect == Spec => []TypeOK
<1>1. Init => TypeOK
  <2> SUFFICES ASSUME Init PROVE TypeOK
    OBVIOUS
  <2>1. Never \in Ages /\ Horizon \in 0..Horizon /\ 0 \in 0..Horizon
    BY PollerAssumption DEF Ages, Never
  <2>2. configured \in SUBSET Repos /\ linked \in SUBSET configured
    BY PollerAssumption DEF Init
  <2>3. /\ at \in [Sessions -> Place] /\ panes \in [Paned -> Place]
        /\ snap \in [Sessions -> [place : Place, loose : BOOLEAN]]
    BY DEF Init, Place, NoSession
  <2> QED
    BY <2>1, <2>2, <2>3 DEF Init, TypeOK
<1> QED
  BY <1>1, PollerTypeStep, PTL DEF Spec

-----------------------------------------------------------------------------
(* Ages.  The inductive invariant relates each collector's clock (lastTmux,  *)
(* lastGit), its health and the age of what it cached.                       *)

(* The clock of a collector with interval `every`, given the age of its data: *)
(* it ran at most an interval ago when the iteration ended.                  *)
OnTime(age, data, every) ==
    /\ ~awake => age < every
    /\ awake => data = Never \/ age < every + MaxPause

AgeInv ==
    /\ mode = "daemon" =>
          /\ tmuxHealth = panesAge
          /\ gitHealth = reposAge
          /\ procsAge # panesAge => psFailed
          /\ procsAge # Never => procsAge >= panesAge
          /\ ~tmuxFailed => panesAge = Never \/ panesAge = tmuxAge
          /\ ~gitFailed => reposAge = Never \/ reposAge = gitAge
          /\ OnTime(tmuxAge, panesAge, TmuxEvery)
          /\ OnTime(gitAge, reposAge, GitEvery)
    /\ snapAge <= MaxPause
    /\ ~awake => snapAge = 0
    /\ (\E s \in Supervised : snap[s].place # Gone) => claudeHealth = snapAge
    /\ mode = "local" /\ (\E p \in Paned : snap[p].place # Gone) => tmuxHealth = snapAge

(* A tick that is healthy is one whose list is used, and the other way round: *)
(* the two conditions of the loop are the same.                              *)
LEMMA HealthyIffReplaced ==
    ASSUME NEW paths, NEW broken
    PROVE  Healthy(paths, paths \ broken) <=> Replaces(paths, paths \ broken)
  BY DEF Healthy, Replaces

(* The tmux section keeps the health of tmux the age of the panes, and leaves
   the process table behind only when ps fails. *)
LEMMA TmuxAges ==
    ASSUME TypeOK, AgeInv, mode = "daemon", awake,
           \/ \E panesOK, psOK \in BOOLEAN : TmuxTick(panesOK, psOK)
           \/ TmuxNotDue
    PROVE  /\ tmuxHealth' = panesAge'
           /\ procsAge' # panesAge' => psFailed'
           /\ procsAge' # Never => procsAge' >= panesAge'
           /\ ~tmuxFailed' => panesAge' = Never \/ panesAge' = tmuxAge'
           /\ tmuxAge' < TmuxEvery
<1>1. ASSUME NEW panesOK \in BOOLEAN, NEW psOK \in BOOLEAN, TmuxTick(panesOK, psOK), panesOK
      PROVE  /\ tmuxHealth' = 0 /\ panesAge' = 0 /\ tmuxAge' = 0
             /\ psFailed' = ~psOK
             /\ procsAge' = IF psOK THEN 0 ELSE procsAge
  BY <1>1 DEF TmuxTick
<1>2. ASSUME NEW panesOK \in BOOLEAN, NEW psOK \in BOOLEAN, TmuxTick(panesOK, psOK), ~panesOK
      PROVE  /\ UNCHANGED <<tmuxHealth, panesAge, procsAge, psFailed>>
             /\ tmuxAge' = 0 /\ tmuxFailed'
  BY <1>2 DEF TmuxTick
<1>3. CASE TmuxNotDue
  <2>1. UNCHANGED tmuxVars /\ tmuxAge < TmuxEvery
    BY <1>3, PollerAssumption DEF TmuxNotDue, TmuxDue, TypeOK
  <2> QED
    BY <2>1 DEF tmuxVars, AgeInv
<1>4. 0 < TmuxEvery
  BY PollerAssumption
<1>5. procsAge # Never => procsAge >= 0
  BY PollerAssumption DEF TypeOK, Ages, Never
<1>6. ASSUME NEW panesOK \in BOOLEAN, NEW psOK \in BOOLEAN, TmuxTick(panesOK, psOK), panesOK
      PROVE  procsAge' # 0 => psFailed' /\ procsAge' = procsAge
  BY <1>1, <1>6
<1> QED
  BY <1>1, <1>2, <1>3, <1>4, <1>5, <1>6 DEF AgeInv

(* The git section keeps the health of git the age of the list. *)
LEMMA GitAges ==
    ASSUME TypeOK, AgeInv, mode = "daemon", awake, NEW agents,
           \/ \E mute, broken \in SUBSET Repos : GitTick(agents, mute, broken)
           \/ GitNotDue
    PROVE  /\ gitHealth' = reposAge'
           /\ ~gitFailed' => reposAge' = Never \/ reposAge' = gitAge'
           /\ gitAge' < GitEvery
<1>1. ASSUME NEW mute \in SUBSET Repos, NEW broken \in SUBSET Repos,
             GitTick(agents, mute, broken)
      PROVE  /\ gitHealth' = reposAge'
             /\ ~gitFailed' => reposAge' = 0
             /\ gitAge' = 0
  <2> DEFINE paths  == Discovered(agents, panes', mute)
             listed == paths \ broken
  <2>1. /\ gitAge' = 0
        /\ gitFailed' = (listed = {})
        /\ gitHealth' = IF Healthy(paths, listed) THEN 0 ELSE gitHealth
        /\ reposAge' = IF Replaces(paths, listed) THEN 0 ELSE reposAge
    BY <1>1 DEF GitTick
  <2>2. Healthy(paths, listed) <=> Replaces(paths, listed)
    BY HealthyIffReplaced
  <2>3. gitHealth = reposAge
    BY DEF AgeInv
  <2>4. listed # {} => Replaces(paths, listed)
    BY DEF Replaces
  <2> HIDE DEF paths, listed
  <2> QED
    BY <2>1, <2>2, <2>3, <2>4
<1>2. CASE GitNotDue
  <2>1. UNCHANGED gitVars /\ gitAge < GitEvery
    BY <1>2, PollerAssumption DEF GitNotDue, GitDue, TypeOK
  <2> QED
    BY <2>1 DEF gitVars, AgeInv
<1>3. 0 < GitEvery
  BY PollerAssumption
<1> QED
  BY <1>1, <1>2, <1>3

(* A listing that failed shows no supervised session. *)
LEMMA ClaudeAges ==
    ASSUME NEW claudeOK \in BOOLEAN, NEW inPanes, NEW inProcs, NEW listed,
           snap' = Correlated(Agents(claudeOK), inPanes, inProcs, listed),
           claudeHealth' = IF claudeOK THEN 0 ELSE claudeHealth,
           snapAge' = 0
    PROVE  (\E s \in Supervised : snap'[s].place # Gone) => claudeHealth' = snapAge'
<1>1. CASE claudeOK
  BY <1>1
<1>2. CASE ~claudeOK
  <2>1. \A s \in Supervised : snap'[s].place = Agents(claudeOK)[s]
    BY DEF Correlated, Sessions
  <2>2. \A s \in Supervised : Agents(claudeOK)[s] = Gone
    BY <1>2 DEF Agents
  <2> QED
    BY <2>1, <2>2
<1> QED
  BY <1>1, <1>2

(* And a RunOnce whose list-panes failed shows no session in a pane. *)
LEMMA PaneAges ==
    ASSUME NEW claudeOK, NEW panesOK \in BOOLEAN, NEW psOK, NEW mute, NEW broken,
           RunOnce(claudeOK, panesOK, psOK, mute, broken)
    PROVE  (\E p \in Paned : snap'[p].place # Gone) => tmuxHealth' = snapAge'
<1>1. CASE panesOK
  BY <1>1 DEF RunOnce
<1>2. CASE ~panesOK
  <2> DEFINE inPanes == [p \in Paned |-> IF panesOK THEN at[p] ELSE Gone]
             inProcs == IF psOK THEN running ELSE {}
             listed  == Discovered(Agents(claudeOK), inPanes, mute) \ broken
  <2>1. snap' = Correlated(Agents(claudeOK), inPanes, inProcs, listed)
    BY DEF RunOnce
  <2>2. \A p \in Paned : inPanes[p] = Gone
    BY <1>2
  <2> HIDE DEF inPanes, inProcs, listed
  <2>3. \A p \in Paned : p \in Sessions /\ p \notin Supervised
    BY PollerAssumption DEF Sessions
  <2> QED
    BY <2>1, <2>2, <2>3 DEF Correlated
<1> QED
  BY <1>1, <1>2

(* A tick that is not overdue is overdue by less than a pause after one. *)
LEMMA PauseOnTime ==
    ASSUME NEW age \in 0..Horizon, NEW data \in Ages, NEW every \in Nat, NEW d \in Pauses,
           every + MaxPause <= Horizon, Pause(d), OnTime(age, data, every)
    PROVE  Later(age, d) < every + MaxPause /\ awake'
<1>1. ~awake /\ awake'
  BY DEF Pause
<1>2. age < every
  BY <1>1 DEF OnTime
<1> QED
  BY <1>1, <1>2, LaterBelow

(* Time keeps the order of two ages. *)
LEMMA LaterMonotone ==
    ASSUME NEW old \in Ages, NEW new \in Ages, NEW d \in Pauses, old # Never, old >= new
    PROVE  Later(old, d) # Never /\ Later(old, d) >= Later(new, d)
  BY PollerAssumption DEF Later, Ages, Never

(* Every step keeps the invariant of the ages. *)
LEMMA AgeStep == TypeOK /\ AgeInv /\ [Next]_vars => AgeInv'
<1> SUFFICES ASSUME TypeOK, AgeInv, [Next]_vars PROVE AgeInv'
  OBVIOUS
<1>1. ASSUME NEW claudeOK \in BOOLEAN, NEW panesOK \in BOOLEAN, NEW psOK \in BOOLEAN,
             NEW mute \in SUBSET Repos, NEW broken \in SUBSET Repos,
             Iteration(claudeOK, panesOK, psOK, mute, broken)
      PROVE  AgeInv'
  <2>1. mode = "daemon" /\ awake /\ ~awake'
    BY <1>1 DEF Iteration
  <2>2. /\ tmuxHealth' = panesAge'
        /\ procsAge' # panesAge' => psFailed'
        /\ procsAge' # Never => procsAge' >= panesAge'
        /\ ~tmuxFailed' => panesAge' = Never \/ panesAge' = tmuxAge'
        /\ tmuxAge' < TmuxEvery
    BY <1>1, <2>1, TmuxAges DEF Iteration
  <2>3. /\ gitHealth' = reposAge'
        /\ ~gitFailed' => reposAge' = Never \/ reposAge' = gitAge'
        /\ gitAge' < GitEvery
    BY <1>1, <2>1, GitAges DEF Iteration
  <2>4. (\E s \in Supervised : snap'[s].place # Gone) => claudeHealth' = snapAge'
    BY <1>1, ClaudeAges DEF Iteration
  <2>5. snapAge' = 0 /\ snapAge' <= MaxPause /\ mode' = "daemon"
    BY <1>1, PollerAssumption DEF Iteration, world
  <2> QED
    BY <2>1, <2>2, <2>3, <2>4, <2>5 DEF AgeInv, OnTime
<1>2. ASSUME NEW claudeOK \in BOOLEAN, NEW panesOK \in BOOLEAN, NEW psOK \in BOOLEAN,
             NEW mute \in SUBSET Repos, NEW broken \in SUBSET Repos,
             RunOnce(claudeOK, panesOK, psOK, mute, broken)
      PROVE  AgeInv'
  <2>1. mode' # "daemon"
    BY <1>2 DEF RunOnce, world
  <2>2. (\E s \in Supervised : snap'[s].place # Gone) => claudeHealth' = snapAge'
    BY <1>2, ClaudeAges DEF RunOnce
  <2>3. (\E p \in Paned : snap'[p].place # Gone) => tmuxHealth' = snapAge'
    BY <1>2, PaneAges
  <2>4. snapAge' = 0 /\ snapAge' <= MaxPause
    BY <1>2, PollerAssumption DEF RunOnce
  <2> QED
    BY <2>1, <2>2, <2>3, <2>4 DEF AgeInv
<1>3. ASSUME NEW d \in Pauses, Pause(d) PROVE AgeInv'
  <2>1. /\ mode' = mode /\ snap' = snap /\ tmuxFailed' = tmuxFailed /\ gitFailed' = gitFailed
        /\ psFailed' = psFailed /\ ~awake /\ awake'
        /\ tmuxAge' = Later(tmuxAge, d) /\ gitAge' = Later(gitAge, d)
        /\ claudeHealth' = Capped(Later(claudeHealth, d), MaxPause + 1)
        /\ snapAge' = Later(snapAge, d)
        /\ tmuxHealth' = Later(tmuxHealth, d) /\ gitHealth' = Later(gitHealth, d)
        /\ panesAge' = Later(panesAge, d) /\ reposAge' = Later(reposAge, d)
        /\ procsAge' = Later(procsAge, d)
    BY <1>3 DEF Pause, world
  <2>2. Later(Never, d) = Never
    BY DEF Later
  <2>3. snapAge' <= MaxPause
    BY <2>1, PollerAssumption DEF AgeInv, Later, Never
  <2>4. ASSUME \E s \in Supervised : snap'[s].place # Gone PROVE claudeHealth' = snapAge'
    <3>1. claudeHealth = snapAge
      BY <2>1, <2>4 DEF AgeInv
    <3>2. Later(snapAge, d) \in Int
      BY PollerAssumption DEF Later, Never, TypeOK
    <3> QED
      BY <2>1, <2>3, <3>1, <3>2, PollerAssumption DEF Capped
  <2>5. ASSUME mode = "daemon"
        PROVE  /\ tmuxHealth' = panesAge' /\ gitHealth' = reposAge'
               /\ procsAge' # panesAge' => psFailed'
               /\ ~tmuxFailed' => panesAge' = Never \/ panesAge' = tmuxAge'
               /\ ~gitFailed' => reposAge' = Never \/ reposAge' = gitAge'
    BY <2>1, <2>2, <2>5 DEF AgeInv
  <2>6. ASSUME mode = "daemon" PROVE procsAge' # Never => procsAge' >= panesAge'
    BY <2>1, <2>2, <2>6, LaterMonotone DEF AgeInv, TypeOK
  <2>7. ASSUME mode = "daemon"
        PROVE  tmuxAge' < TmuxEvery + MaxPause /\ gitAge' < GitEvery + MaxPause
    BY <1>3, <2>1, <2>7, PauseOnTime, PollerAssumption DEF AgeInv, TypeOK
  <2>8. mode = "local" /\ (\E q \in Paned : snap'[q].place # Gone) => tmuxHealth' = snapAge'
    BY <2>1 DEF AgeInv
  <2> QED
    BY <2>1, <2>3, <2>4, <2>5, <2>6, <2>7, <2>8 DEF AgeInv, OnTime
<1>4. ASSUME NEW s \in Sessions, Moves(s) PROVE AgeInv'
  BY <1>4 DEF Moves, tmuxVars, gitVars, AgeInv, OnTime
<1>5. CASE UNCHANGED vars
  BY <1>5 DEF vars, world, tmuxVars, gitVars, AgeInv, OnTime
<1> QED
  BY <1>1, <1>2, <1>3, <1>4, <1>5 DEF Next, TmuxOutcomes, GitFailures

(* The types and the ages of the collection loop hold together (poller.go:58-117). *)
THEOREM AgesHold == Spec => [](TypeOK /\ AgeInv)
<1>1. Init => AgeInv
  <2> SUFFICES ASSUME Init PROVE AgeInv
    OBVIOUS
  <2>1. \A s \in Sessions : snap[s].place = Gone
    BY DEF Init, NoSession
  <2>2. Supervised \subseteq Sessions /\ Paned \subseteq Sessions
    BY DEF Sessions
  <2> QED
    BY <2>1, <2>2, PollerAssumption DEF Init, AgeInv, OnTime
<1> QED
  BY <1>1, AgeStep, PollerTypeCorrect, PTL DEF Spec

(* What /healthz says is true of the data on show (poller.go:61-109), for     *)
(* all intervals, pauses, configurations and failures: panes and repositories *)
(* are exactly as old as their collector's health; of the process table it    *)
(* says nothing after a failed ps, and the table is then never the newer one. *)
THEOREM HealthIsTrue == Spec => []HealthTellsData
<1>1. AgeInv => HealthTellsData
  BY DEF AgeInv, HealthTellsData
<1> QED
  BY <1>1, AgesHold, PTL

(* Caching and jitter alone never leave data on show that is older than its   *)
(* interval and one pause: then its command failed the last time it was run,  *)
(* ps included (poller.go:66, 71-74, 79, 111).                               *)
THEOREM OldIsFailed == Spec => []OldMeansFailed
<1>1. TypeOK /\ AgeInv => OldMeansFailed
  <2> SUFFICES ASSUME TypeOK, AgeInv, mode = "daemon"
               PROVE  /\ ~tmuxFailed => ~(panesAge >= TmuxEvery + MaxPause)
                      /\ ~tmuxFailed /\ ~psFailed => ~(procsAge >= TmuxEvery + MaxPause)
                      /\ ~gitFailed => ~(reposAge >= GitEvery + MaxPause)
    BY DEF OldMeansFailed, TypeOK
  <2>1. panesAge # Never => tmuxAge < TmuxEvery + MaxPause
    BY PollerAssumption DEF AgeInv, OnTime, TypeOK
  <2>2. reposAge # Never => gitAge < GitEvery + MaxPause
    BY PollerAssumption DEF AgeInv, OnTime, TypeOK
  <2>3. ~(Never >= TmuxEvery + MaxPause) /\ ~(Never >= GitEvery + MaxPause)
    BY PollerAssumption DEF Never
  <2>4. ASSUME ~tmuxFailed PROVE ~(panesAge >= TmuxEvery + MaxPause)
    <3>1. panesAge = Never \/ panesAge = tmuxAge
      BY <2>4 DEF AgeInv
    <3> QED
      BY <2>1, <2>3, <3>1, PollerAssumption DEF TypeOK
  <2>5. ~psFailed => procsAge = panesAge
    BY DEF AgeInv
  <2>6. ASSUME ~gitFailed PROVE ~(reposAge >= GitEvery + MaxPause)
    <3>1. reposAge = Never \/ reposAge = gitAge
      BY <2>6 DEF AgeInv
    <3> QED
      BY <2>2, <2>3, <3>1, PollerAssumption DEF TypeOK
  <2> QED
    BY <2>4, <2>5, <2>6
<1> QED
  BY <1>1, AgesHold, PTL

-----------------------------------------------------------------------------
(* Git failures.  A session that the snapshot has in a repository is in one   *)
(* of the cached list; and only the daemon records failed ticks.             *)

BoundInv ==
    /\ mode = "daemon" =>
          \A s \in Sessions : snap[s].place # Gone /\ ~snap[s].loose => snap[s].place \in repos
    /\ mode = "local" => ~gitFailed

(* Every step keeps the invariant of the bindings. *)
LEMMA BoundStep == TypeOK /\ BoundInv /\ [Next]_vars => BoundInv'
<1> SUFFICES ASSUME TypeOK, BoundInv, [Next]_vars PROVE BoundInv'
  OBVIOUS
<1>1. ASSUME NEW claudeOK \in BOOLEAN, NEW panesOK \in BOOLEAN, NEW psOK \in BOOLEAN,
             NEW mute \in SUBSET Repos, NEW broken \in SUBSET Repos,
             Iteration(claudeOK, panesOK, psOK, mute, broken)
      PROVE  BoundInv'
  <2>1. mode' = "daemon" /\ snap' = Correlated(Agents(claudeOK), panes', procs', repos')
    BY <1>1 DEF Iteration, world
  <2> QED
    BY <2>1, CorrelatedBound DEF BoundInv
<1>2. ASSUME NEW claudeOK \in BOOLEAN, NEW panesOK \in BOOLEAN, NEW psOK \in BOOLEAN,
             NEW mute \in SUBSET Repos, NEW broken \in SUBSET Repos,
             RunOnce(claudeOK, panesOK, psOK, mute, broken)
      PROVE  BoundInv'
  BY <1>2 DEF RunOnce, world, BoundInv
<1>3. ASSUME NEW d \in Pauses, Pause(d) PROVE BoundInv'
  BY <1>3 DEF Pause, world, BoundInv
<1>4. ASSUME NEW s \in Sessions, Moves(s) PROVE BoundInv'
  BY <1>4 DEF Moves, gitVars, BoundInv
<1>5. CASE UNCHANGED vars
  BY <1>5 DEF vars, world, gitVars, BoundInv
<1> QED
  BY <1>1, <1>2, <1>3, <1>4, <1>5 DEF Next, TmuxOutcomes, GitFailures

(* What an iteration dumps into (loose) it had dropped from the list. *)
LEMMA NothingDumped ==
    ASSUME TypeOK, BoundInv, [Next]_vars, configured \ linked # {}, gitFailed',
           NEW s \in Sessions
    PROVE  ~Dumped(s)
<1>1. ASSUME NEW claudeOK \in BOOLEAN, NEW panesOK \in BOOLEAN, NEW psOK \in BOOLEAN,
             NEW mute \in SUBSET Repos, NEW broken \in SUBSET Repos,
             Iteration(claudeOK, panesOK, psOK, mute, broken)
      PROVE  ~Dumped(s)
  <2>1. mode = "daemon" /\ snap' = Correlated(Agents(claudeOK), panes', procs', repos')
    BY <1>1 DEF Iteration
  <2>2. repos' = repos
    <3>1. CASE GitTick(Agents(claudeOK), mute, broken)
      <4> DEFINE paths  == Discovered(Agents(claudeOK), panes', mute)
                 listed == paths \ broken
      <4>1. gitFailed' = (listed = {})
            /\ repos' = IF Replaces(paths, listed) THEN listed ELSE repos
        BY <3>1 DEF GitTick
      <4>2. configured \ linked \subseteq paths
        BY DEF Discovered
      <4>3. ~Replaces(paths, listed)
        BY <4>1, <4>2 DEF Replaces
      <4> QED
        BY <4>1, <4>3
    <3>2. CASE GitNotDue
      BY <3>2 DEF GitNotDue, gitVars
    <3> QED
      BY <1>1, <3>1, <3>2 DEF Iteration
  <2>3. ASSUME Dumped(s) PROVE FALSE
    <3>1. snap[s].place \in repos
      BY <2>1, <2>3 DEF BoundInv, Dumped
    <3>2. snap'[s].place \notin repos'
      BY <2>1, <2>3, CorrelatedBound DEF Dumped
    <3> QED
      BY <2>2, <2>3, <3>1, <3>2 DEF Dumped
  <2> QED
    BY <2>3
<1>2. ASSUME NEW claudeOK \in BOOLEAN, NEW panesOK \in BOOLEAN, NEW psOK \in BOOLEAN,
             NEW mute \in SUBSET Repos, NEW broken \in SUBSET Repos,
             RunOnce(claudeOK, panesOK, psOK, mute, broken)
      PROVE  ~Dumped(s)
  BY <1>2 DEF RunOnce, BoundInv
<1>3. snap' = snap => ~Dumped(s)
  BY DEF Dumped
<1>4. ASSUME NEW d \in Pauses, Pause(d) PROVE snap' = snap
  BY <1>4 DEF Pause
<1>5. ASSUME NEW t \in Sessions, Moves(t) PROVE snap' = snap
  BY <1>5 DEF Moves
<1>6. CASE UNCHANGED vars
  BY <1>3, <1>6 DEF vars
<1> QED
  BY <1>1, <1>2, <1>3, <1>4, <1>5, <1>6 DEF Next, TmuxOutcomes, GitFailures

(* With a repository configured by its main checkout, a tick in which git     *)
(* lists nothing loosens no session (poller.go:94-100).                      *)
THEOREM KeptWhenGitFails == Spec => KeptThroughFailure
<1>1. Init => BoundInv
  <2> SUFFICES ASSUME Init PROVE BoundInv
    OBVIOUS
  <2>1. \A s \in Sessions : snap[s].place = Gone
    BY DEF Init, NoSession
  <2> QED
    BY <2>1 DEF Init, BoundInv
<1>2. TypeOK /\ BoundInv /\ [Next]_vars
        => [configured \ linked # {} /\ gitFailed' => \A s \in Sessions : ~Dumped(s)]_vars
  BY NothingDumped
<1> QED
  BY <1>1, <1>2, BoundStep, PollerTypeCorrect, PTL DEF Spec, KeptThroughFailure

-----------------------------------------------------------------------------
(* The snapshot settles.  Two things the provers cannot supply are hypotheses *)
(* here: that the loop is never held up, a fact about ENABLED that is an      *)
(* invariant of the run, and two instances of the induction on numbers.       *)

(* An age that is not set back and rises again and again passes every bound:  *)
(* true of any number, by induction.                                          *)
TmuxAgePasses ==
    ~ (/\ <>[](tmuxAge < TmuxEvery)
       /\ <>[][tmuxAge' >= tmuxAge]_tmuxAge
       /\ []<><<tmuxAge' # tmuxAge>>_tmuxAge)
GitAgePasses ==
    ~ (/\ <>[](gitAge < GitEvery)
       /\ <>[][gitAge' >= gitAge]_gitAge
       /\ []<><<gitAge' # gitAge>>_gitAge)

Daemon  == mode = "daemon"
Looping == /\ [][Next]_vars /\ []TypeOK /\ []NeverStuck
           /\ []TmuxAgePasses /\ []GitAgePasses /\ Fairness

LEMMA ModeStays == [Next]_vars => mode' = mode
<1>1. ASSUME NEW claudeOK, NEW panesOK, NEW psOK, NEW mute, NEW broken,
             \/ Iteration(claudeOK, panesOK, psOK, mute, broken)
             \/ RunOnce(claudeOK, panesOK, psOK, mute, broken)
      PROVE  mode' = mode
  BY <1>1 DEF Iteration, RunOnce, world
<1>2. ASSUME NEW d, Pause(d) PROVE mode' = mode
  BY <1>2 DEF Pause, world
<1>3. ASSUME NEW s, Moves(s) PROVE mode' = mode
  BY <1>3 DEF Moves
<1> QED
  BY <1>1, <1>2, <1>3 DEF Next, vars, world

(* Only a pause starts an iteration. *)
LEMMA OnlyPausesWake == [Next]_vars /\ ~awake /\ awake' => <<Wakes>>_vars
<1> SUFFICES ASSUME [Next]_vars, ~awake, awake' PROVE <<Wakes>>_vars
  OBVIOUS
<1>1. ASSUME NEW claudeOK, NEW panesOK, NEW psOK, NEW mute, NEW broken,
             \/ Iteration(claudeOK, panesOK, psOK, mute, broken)
             \/ RunOnce(claudeOK, panesOK, psOK, mute, broken)
      PROVE  FALSE
  BY <1>1 DEF Iteration, RunOnce
<1>2. ASSUME NEW s, Moves(s) PROVE FALSE
  BY <1>2 DEF Moves
<1> QED
  BY <1>1, <1>2 DEF Next, Wakes, vars

(* What a pause does to an age below its interval. *)
LEMMA LaterRises ==
    ASSUME NEW age \in 0..Horizon, NEW d \in Pauses
    PROVE  /\ Later(age, d) >= age
           /\ age < Horizon => Later(age, d) > age
  BY PollerAssumption DEF Later, Never

(* A collector that is not due gets older. *)
LEMMA AgesRise ==
    ASSUME TypeOK, [Next]_vars
    PROVE  /\ ~TmuxDue => tmuxAge' >= tmuxAge
           /\ ~GitDue => gitAge' >= gitAge
           /\ ~awake => tmuxAge' >= tmuxAge /\ gitAge' >= gitAge
<1>0. tmuxAge \in 0..Horizon /\ gitAge \in 0..Horizon /\ Horizon \in Nat
  BY PollerAssumption DEF TypeOK
<1>1. ASSUME NEW claudeOK \in BOOLEAN, NEW panesOK \in BOOLEAN, NEW psOK \in BOOLEAN, NEW mute, NEW broken,
             Iteration(claudeOK, panesOK, psOK, mute, broken)
      PROVE  awake /\ (~TmuxDue => tmuxAge' = tmuxAge) /\ (~GitDue => gitAge' = gitAge)
  BY <1>1 DEF Iteration, TmuxTick, TmuxNotDue, GitTick, GitNotDue, tmuxVars, gitVars
<1>2. ASSUME NEW claudeOK \in BOOLEAN, NEW panesOK \in BOOLEAN, NEW psOK \in BOOLEAN, NEW mute, NEW broken,
             RunOnce(claudeOK, panesOK, psOK, mute, broken)
      PROVE  tmuxAge' = tmuxAge /\ gitAge' = gitAge
  BY <1>2 DEF RunOnce
<1>3. ASSUME NEW d \in Pauses, Pause(d) PROVE tmuxAge' >= tmuxAge /\ gitAge' >= gitAge
  BY <1>0, <1>3, LaterRises DEF Pause
<1>4. ASSUME NEW s \in Sessions, Moves(s) PROVE tmuxAge' = tmuxAge /\ gitAge' = gitAge
  BY <1>4 DEF Moves, tmuxVars, gitVars
<1>5. CASE UNCHANGED vars
  BY <1>0, <1>5 DEF vars, tmuxVars, gitVars
<1>6. TmuxOutcomes \subseteq BOOLEAN
  BY DEF TmuxOutcomes
<1> QED
  BY <1>0, <1>1, <1>2, <1>3, <1>4, <1>5, <1>6 DEF Next

(* The loop sleeps and wakes. *)
LEMMA LoopTurns == Looping => []<>awake /\ (Daemon => []<>~awake)
<1>1. NeverStuck /\ ~awake => ENABLED <<Wakes>>_vars
  BY DEF NeverStuck
<1>2. <<Wakes>>_vars => awake'
  BY DEF Wakes, Pause
<1>3. NeverStuck /\ Daemon /\ awake => ENABLED <<Flawless>>_vars
  BY DEF NeverStuck, Daemon
<1>4. <<Flawless>>_vars => (~awake)'
  BY DEF Flawless, Iteration
<1>5. Daemon /\ [Next]_vars => Daemon'
  BY ModeStays DEF Daemon
<1> QED
  BY <1>1, <1>2, <1>3, <1>4, <1>5, PTL DEF Looping, Fairness

(* Each interval passes, and an iteration starts when it has. *)
LEMMA TmuxComesDue == Looping /\ Daemon => []<>(awake /\ TmuxDue)
<1>1. TypeOK /\ ~TmuxDue /\ [Next]_vars => [tmuxAge' >= tmuxAge]_tmuxAge
  BY AgesRise
<1>2. TypeOK /\ ~TmuxDue => tmuxAge < TmuxEvery
  BY PollerAssumption DEF TypeOK, TmuxDue
<1>3. TypeOK /\ ~TmuxDue /\ <<Wakes>>_vars => <<tmuxAge' # tmuxAge>>_tmuxAge
  <2> SUFFICES ASSUME TypeOK, ~TmuxDue, NEW d \in Pauses, Pause(d) PROVE tmuxAge' # tmuxAge
    BY DEF Wakes
  <2>1. tmuxAge \in 0..Horizon /\ tmuxAge < Horizon
    BY PollerAssumption DEF TypeOK, TmuxDue
  <2>2. Later(tmuxAge, d) > tmuxAge /\ tmuxAge' = Later(tmuxAge, d)
    BY <2>1, LaterRises DEF Pause
  <2>3. Later(tmuxAge, d) \in Int
    BY <2>1, PollerAssumption DEF Later, Never
  <2> QED
    BY <2>1, <2>2, <2>3
<1>4. TypeOK /\ TypeOK' /\ ~awake /\ TmuxDue /\ [Next]_vars => TmuxDue'
  BY AgesRise, PollerAssumption DEF TypeOK, TmuxDue
<1>5. [Next]_vars /\ ~awake /\ awake' => <<Wakes>>_vars
  BY OnlyPausesWake
<1>6. Looping /\ Daemon => []<>awake /\ []<>~awake
  BY LoopTurns
<1> QED
  BY <1>1, <1>2, <1>3, <1>4, <1>5, <1>6, PTL DEF Looping, TmuxAgePasses

LEMMA GitComesDue == Looping /\ Daemon => []<>(awake /\ GitDue)
<1>1. TypeOK /\ ~GitDue /\ [Next]_vars => [gitAge' >= gitAge]_gitAge
  BY AgesRise
<1>2. TypeOK /\ ~GitDue => gitAge < GitEvery
  BY PollerAssumption DEF TypeOK, GitDue
<1>3. TypeOK /\ ~GitDue /\ <<Wakes>>_vars => <<gitAge' # gitAge>>_gitAge
  <2> SUFFICES ASSUME TypeOK, ~GitDue, NEW d \in Pauses, Pause(d) PROVE gitAge' # gitAge
    BY DEF Wakes
  <2>1. gitAge \in 0..Horizon /\ gitAge < Horizon
    BY PollerAssumption DEF TypeOK, GitDue
  <2>2. Later(gitAge, d) > gitAge /\ gitAge' = Later(gitAge, d)
    BY <2>1, LaterRises DEF Pause
  <2>3. Later(gitAge, d) \in Int
    BY <2>1, PollerAssumption DEF Later, Never
  <2> QED
    BY <2>1, <2>2, <2>3
<1>4. TypeOK /\ TypeOK' /\ ~awake /\ GitDue /\ [Next]_vars => GitDue'
  BY AgesRise, PollerAssumption DEF TypeOK, GitDue
<1>5. [Next]_vars /\ ~awake /\ awake' => <<Wakes>>_vars
  BY OnlyPausesWake
<1>6. Looping /\ Daemon => []<>awake /\ []<>~awake
  BY LoopTurns
<1> QED
  BY <1>1, <1>2, <1>3, <1>4, <1>5, <1>6, PTL DEF Looping, GitAgePasses

(* Once sessions stay where they are, a tick of tmux gets the panes and the    *)
(* processes right for good: a failed one keeps the last result.              *)
PanesRight == panes = [p \in Paned |-> at[p]] /\ procs = running
AtRest     == <>[][UNCHANGED <<at, running>>]_vars

LEMMA PanesStay ==
    ASSUME PanesRight, [Next]_vars, [UNCHANGED <<at, running>>]_vars
    PROVE  PanesRight'
<1>1. at' = at /\ running' = running
  BY DEF vars, world
<1>2. ASSUME NEW claudeOK, NEW panesOK, NEW psOK, NEW mute, NEW broken,
             Iteration(claudeOK, panesOK, psOK, mute, broken)
      PROVE  panes' = panes /\ procs' = procs
  BY <1>2 DEF Iteration, TmuxTick, TmuxNotDue, tmuxVars, PanesRight
<1>3. ASSUME NEW claudeOK, NEW panesOK, NEW psOK, NEW mute, NEW broken,
             RunOnce(claudeOK, panesOK, psOK, mute, broken)
      PROVE  panes' = panes /\ procs' = procs
  BY <1>3 DEF RunOnce
<1>4. ASSUME NEW d, Pause(d) PROVE panes' = panes /\ procs' = procs
  BY <1>4 DEF Pause
<1>5. ASSUME NEW s, Moves(s) PROVE panes' = panes /\ procs' = procs
  BY <1>5 DEF Moves, tmuxVars
<1>6. panes' = panes /\ procs' = procs
  BY <1>2, <1>3, <1>4, <1>5 DEF Next, vars, tmuxVars
<1> QED
  BY <1>1, <1>6 DEF PanesRight

LEMMA PanesSettle == Looping /\ Daemon /\ AtRest => <>[]PanesRight
<1>1. PanesRight /\ [Next]_vars /\ [UNCHANGED <<at, running>>]_vars => PanesRight'
  BY PanesStay
<1>2. <<FlawlessTmux>>_vars => PanesRight'
  BY DEF FlawlessTmux, Flawless, Iteration, TmuxTick, TmuxNotDue, world, PanesRight
<1>3. NeverStuck /\ Daemon /\ awake /\ TmuxDue => ENABLED <<FlawlessTmux>>_vars
  BY DEF NeverStuck, Daemon
<1>4. Daemon /\ [Next]_vars => Daemon'
  BY ModeStays DEF Daemon
<1>5. Looping /\ Daemon => []<>(awake /\ TmuxDue)
  BY TmuxComesDue
<1> QED
  BY <1>1, <1>2, <1>3, <1>4, <1>5, PTL DEF Looping, Fairness, AtRest

(* What Correlate makes of a sight of every session, of all the repositories  *)
(* discovery finds in it, is accurate.                                        *)
LEMMA CorrelatedAccurate ==
    ASSUME TypeOK, at' = at, running' = running, configured' = configured,
           NEW inPanes, inPanes = [p \in Paned |-> at[p]],
           NEW listed, listed = Discovered(Agents(TRUE), inPanes, {}),
           snap' = Correlated(Agents(TRUE), inPanes, running, listed)
    PROVE  Accurate'
<1> DEFINE place(s) == IF s \in Supervised \cup running THEN at[s] ELSE Gone
<1> SUFFICES ASSUME NEW s \in Sessions
             PROVE  snap'[s] = [place |-> place(s),
                                loose |-> /\ place(s) # Gone
                                          /\ configured # {} /\ place(s) \notin configured]
  BY DEF Accurate
<1>0. running \subseteq Paned
  BY DEF TypeOK
<1>1. (IF s \in Supervised THEN Agents(TRUE)[s]
       ELSE IF s \in running THEN inPanes[s] ELSE Gone) = place(s)
  BY <1>0 DEF Agents, Sessions
<1> HIDE DEF place
<1>2. snap'[s] = [place |-> place(s), loose |-> place(s) # Gone /\ place(s) \notin listed]
  BY <1>1 DEF Correlated
<1>3. CASE configured # {}
  <2>1. listed = configured
    BY <1>3 DEF Discovered
  <2> QED
    BY <1>2, <1>3, <2>1
<1>4. CASE configured = {}
  <2>1. at[s] \in {Agents(TRUE)[q] : q \in Supervised} \cup {inPanes[p] : p \in Paned}
    BY DEF Agents, Sessions
  <2>2. place(s) # Gone => place(s) \in listed
    BY <1>4, <2>1 DEF Discovered, place
  <2> QED
    BY <1>2, <1>4, <2>2
<1> QED
  BY <1>3, <1>4

(* A flawless tick of git, with the panes right, and a flawless once-run.     *)
LEMMA GitGetsItRight ==
    ASSUME TypeOK, PanesRight, FlawlessGit
    PROVE  Accurate'
<1>1. panes' = [p \in Paned |-> at[p]] /\ procs' = running
  BY DEF FlawlessGit, Flawless, Iteration, TmuxTick, TmuxNotDue, tmuxVars, PanesRight
<1>2. at' = at /\ running' = running /\ configured' = configured
  BY DEF FlawlessGit, Flawless, Iteration, world
<1>3. GitTick(Agents(TRUE), {}, {})
  BY DEF FlawlessGit, Flawless, Iteration, GitNotDue
<1>4. repos' = Discovered(Agents(TRUE), panes', {})
  BY <1>3 DEF GitTick, Replaces
<1>5. snap' = Correlated(Agents(TRUE), panes', procs', repos')
  BY DEF FlawlessGit, Flawless, Iteration
<1> QED
  BY <1>1, <1>2, <1>4, <1>5, CorrelatedAccurate

LEMMA OnceGetsItRight ==
    ASSUME TypeOK, FlawlessOnce
    PROVE  Accurate'
<1> DEFINE inPanes == [p \in Paned |-> at[p]]
           listed  == Discovered(Agents(TRUE), inPanes, {})
<1>1. at' = at /\ running' = running /\ configured' = configured
  BY DEF FlawlessOnce, RunOnce, world
<1>2. snap' = Correlated(Agents(TRUE), inPanes, running, listed)
  BY DEF FlawlessOnce, RunOnce
<1> HIDE DEF inPanes
<1>3. inPanes = [p \in Paned |-> at[p]]
  BY DEF inPanes
<1> QED
  BY <1>1, <1>2, <1>3, CorrelatedAccurate

(* No failure and no cached result is shown for ever, with the daemon or      *)
(* without it: a tick of every collector that fails is followed by one that   *)
(* does not, and a tick of git by one that has seen the right panes           *)
(* (poller.go:59-117, 31-45).                                                 *)
THEOREM SnapshotSettles ==
    FairSpec /\ []NeverStuck /\ []TmuxAgePasses /\ []GitAgePasses => SettlesAccurate
<1>1. Init => mode = "daemon" \/ mode = "local"
  BY DEF Init
<1>2. Daemon /\ [Next]_vars => Daemon'
  BY ModeStays DEF Daemon
<1>3. mode = "local" /\ [Next]_vars => (mode = "local")'
  BY ModeStays
<1>4. NeverStuck /\ Daemon /\ awake /\ GitDue => ENABLED <<FlawlessGit>>_vars
  BY DEF NeverStuck, Daemon
<1>5. NeverStuck /\ mode = "local" /\ awake => ENABLED <<FlawlessOnce>>_vars
  BY DEF NeverStuck
<1>6. TypeOK /\ PanesRight /\ <<FlawlessGit>>_vars => Accurate'
  BY GitGetsItRight
<1>7. TypeOK /\ <<FlawlessOnce>>_vars => Accurate'
  BY OnceGetsItRight
<1>8. Spec => []TypeOK
  BY PollerTypeCorrect
<1>9. FairSpec /\ []NeverStuck /\ []TmuxAgePasses /\ []GitAgePasses => Looping
  BY <1>8, PTL DEF FairSpec, Spec, Looping
<1>10. mode = "daemon" => Daemon
  BY DEF Daemon
<1>11. Looping => []<>awake
  BY LoopTurns
<1>12. Looping /\ Daemon => []<>(awake /\ GitDue)
  BY GitComesDue
<1>13. Looping /\ Daemon /\ AtRest => <>[]PanesRight
  BY PanesSettle
<1>14. Looping /\ Daemon /\ AtRest => []<>Accurate
  BY <1>2, <1>4, <1>6, <1>12, <1>13, PTL DEF Looping, Fairness
<1>15. Looping /\ mode = "local" => []<>Accurate
  BY <1>3, <1>5, <1>7, <1>11, PTL DEF Looping, Fairness
<1> QED
  BY <1>1, <1>9, <1>10, <1>14, <1>15, PTL DEF FairSpec, Spec, SettlesAccurate, AtRest

=============================================================================
