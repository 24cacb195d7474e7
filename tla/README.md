# clauditor: a verification project

TLA+ models of clauditor, a daemon with a web dashboard and a terminal UI that
shows the Claude Code sessions of a machine. Modules are checked with TLC on
small instances; the properties that matter most are proved with TLAPS for every
value of the constants.

Paths below are relative to the repository (`internal/...`, `cmd/...`, `web/...`).

## The system

```
 claude agents --json ─┐
 tmux list-panes, ps  ─┼─> collect ─> model.Correlate ─> store.Store ─┬─> api (REST, SSE) ─> browser, TUI
 git rev-parse, worktree┘   (Poller decides when)                      └─> snapshot file
                            collect ─> Correlate ─> notify.Differ ─> text | JSON | a command
 browser, TUI ─> api guards ─> actions ─> tmux, claude, git
```

| component | state it keeps | operations | what is hard | what makes it correct |
|---|---|---|---|---|
| snapshot store (`internal/store/store.go`) | current snapshot, version, subscribers with one-slot channels, collector health times, snapshot file | `Set`, `Get`, `Subscribe`/cancel, `MarkCollector`, `CollectorAges` | three critical sections in `Set`; slow subscribers; kill during the file write | order, no leak, never blocked, file always whole, news arrives |
| SSE stream (`internal/api/handlers.go`, `web/static/app.js`) | `pending`, the connection, what the page shows | `handleEvents`: greet, subscribe, select loop, deferred cancel | gap between `Get` and `Subscribe`; writes that hang; reconnects | never an older snapshot after a newer one |
| poller (`internal/store/poller.go`) | last tmux and git ticks, cached panes, processes, repositories | `Run`, `RunOnce` | three cadences in one loop; each collector fails on its own; two conditions for "healthy" and "replace" | health tells the age of the data; failures neither loosen sessions nor last |
| collectors (`internal/collect`) | none | `Agents`, `Panes`, `Processes`, `DiscoverReposAuto`, `Worktrees`, `Fleet.Collect` | three commands read one after the other while processes come and go | what fails is empty (or kept, in the poller) |
| correlation (`internal/model`) | none (a function) | `Correlate`, `KeyFor`, `SortSessions` | sources of different age; background jobs inside a pane's process tree | no session and no pane twice, nobody missed |
| notifier (`internal/notify`) | previous sessions, debounce ledger, `notify-state.json` | `Diff`, `Run`, `runOnce` | crash between save and emit; failed emits; trimmed ledger; a failed collection looks like an empty fleet | nothing twice within the window, nothing told twice, lasting needs noticed |
| HTTP server and guards (`internal/api/server.go`, `middleware.go`, `jwks.go`) | JWKS cache, rate windows | authenticate, limit, serve | concurrent refreshes of one cache; window borders | a valid key is found; the limit holds |
| actions (`internal/actions`) | none of its own; tmux windows, worktrees | `Dispatch`, `Reply`, `Stop`, `Respawn`, `OpenInTmux` | multi-step protocols against tmux, claude and git, several callers at once | text goes to the window it was meant for; what is reported happened |
| terminal UI (`internal/tui`) | snapshot, rows, cursor, filters, preview with its generation, modes and sheets, spinner | `Update` with its messages and keys | results out of order; a selection that moves under the user | what is shown and what is acted on belong together |
| terminal UI clients (`internal/tui/client.go`, `actionclient.go`) | the source, chosen once | fetch, logs, actions over HTTP or in process | timeouts shorter than the action | a call that is cut off tells no untruth |
| transcript (`internal/transcript`) | none | tail, parse, render | a file being appended to | whole lines only |
| web dashboard (`web/static/app.js`) | the shown snapshot, drawer, filters | `connectSSE`, drawing, dispatch sheet | reconnects | shows what came last |
| doctor, configuration, commands | none | probes, flags | — | — |

## Modules

| module | models |
|---|---|
| `SnapshotFeed` | abstract: snapshots are published and clients are brought forward, never back |
| `SnapshotStore` | `Set`, `Get`, `Subscribe`, cancel, the snapshot file and the SSE handlers |
| `SnapshotStoreProofs` | theorems about it, the refinement of `SnapshotFeed` among them |
| `Poller` | `Poller.Run` and `Poller.RunOnce` over collectors that fail |
| `PollerProofs` | theorems about it |
| `Correlate` | `model.Correlate`: sessions, panes, binding to worktrees, `PIDTree`, `KeyFor`, as operators |
| `Scan` | a collection cycle (`Poller.Run` or `Fleet.Collect`) in its separate readings, against a changing world; uses `Correlate` |
| `ScanProofs` | theorems about both |
| `Differ` | events, debounce ledger, as operators |
| `Notify` | `notify.Run` in both modes; uses `Differ` |
| `NotifyProofs` | theorems about both |
| `Rows` | the cockpit's list as operators: `BuildRows`, filters, cursor, `VisibleWindow`, what the keys offer |
| `Cockpit` | `Model.Update` over messages and keys; uses `Rows` |
| `CockpitProofs` | theorems about both |
| `Reply` | `Reply` and `OpenInTmux`, several at a time, against tmux and a session's screen |
| `ReplyProofs` | theorems about it |
| `Dispatch` | `Dispatch` with `createWorktree`, several at a time, against git and the user |
| `DispatchProofs` | theorems about it |
| `Gate` | `AuthConfig.Auth`, the JWKS cache, `MutatingGuard` and its limiter |
| `GateProofs` | theorems about it |
| `MCSnapshotStore`, `MCPoller`, `MCScan`, `MCNotify`, `MCCockpit`, `MCReply`, `MCDispatch`, `MCGate` | the instances TLC checks |

### SnapshotStore

A snapshot is its version. `Set` is three sections, as in the code, and between
any two of them a handler may run: `Stamp` (under `mu`), the file (`OpenFile`,
`FillFile`, `RenameFile`, or `SkipFile` when a step fails or no file is
configured: the code ignores the error), and `FanOut` (under `subMu`). `FanOut` is
one action because no `Subscribe` or cancel can run inside it; a handler that
receives meanwhile commutes with the part of the loop that serves the others.

A handler goes through `Connect`, `Greeting` (its `Get`), `GreetDone` or
`GreetFails`, `Subscribe`, then the cases of its `select`: `Receive`,
`Throttle`/`WriteDone`, and `Return`, followed by the deferred `Cancel`. A write
is two steps, because a publication may fall into it. The heartbeat changes no
state; when it fails it is one of the reasons to `Return`. Writing to a connection that
is gone may succeed, and then shows nothing (`Displayed`).

Environment: `LoseConnection`; `Restart`, after which a new daemon counts its
snapshots from one, as do the pages that reconnect to it. Versions are capped
at `MaxVersion`, which stands for all later ones; this lets the poller run for
ever, and liveness is about the last version.

*Fairness* (`PollFairness`, `StreamFairness`). The poller's loop goes on; a goroutine that can take a step takes it;
each ready case of `select` is taken in the end, which Go's random choice among
the ready cases and the one-second ticker justify; a write ends. Nothing is
assumed of browsers and networks.

### Poller

Sessions are in repositories (`at`), and in some of the panes runs a claude (`running`); both change
as they like (`Moves`). `Iteration` is one pass
through the loop, from `time.Now()` to `Store.Set`, and uses the parts `TmuxTick` or
`TmuxNotDue`, and `GitTick` or `GitNotDue`; `Pause` is the jittered sleep. What
goes wrong is chosen for each iteration: claude, list-panes, ps, the repositories in which
the `rev-parse` that matters fails (`mute`) and those in which `worktree list` fails (`broken`).
list-panes and ps are two commands with two caches, `panes` and `procs`: the second is run only after the
first has worked, and when it fails tmux is healthy over new panes and an old process table.
Discovery depends on the configuration: with repositories configured it asks git
only about those that are linked worktrees, without any it asks about the directories of
the sessions in sight. A directory in which `--show-toplevel` fails is left out; one in which only
`--git-common-dir` does is listed by its own path, which binds the same sessions and is no case
of its own here.

Times are ages, told apart up to `Horizon`. The variables `panesAge`, `procsAge`, `reposAge`,
`tmuxFailed`, `psFailed`, `gitFailed` and `snapAge` are history: no action reads them to decide
what it does.

The binding of a session to a repository is by name here; the longest prefix is
in `Correlate`, and so is the process tree, with processes that are not the ones listed.

*Fairness.* The loop goes on (`Wakes`, `Flawless`), and no collector fails at every one of
its ticks (strong fairness of an iteration without failures that is also a tick:
`FlawlessTmux`, `FlawlessGit`, `FlawlessOnce`).
Without it a git that never works would be a counterexample to every liveness
property, and no scheduler excludes one.

### Correlate and Scan

`Correlate` has the operators: the walk over the process tree with the code's
stack (`Walk`, one `Turn` of the loop after the other), claims of panes by supervisor sessions, interactive ones first,
and what is left as `tmux-interactive` sessions. `Scan` reads the listing, the
panes and the process table in separate steps; claudes start in a pane or in the
background, become known to the supervisor, and end in between. In mode `daemon`
panes and processes survive from an earlier cycle when they are not due or fail,
at any cycle (a superset of what `Poller`'s cadences allow); in mode `collect`
(`status`, the notifier, a terminal UI without daemon) what fails is empty.

The walk, the claims (`Claims`) and the selections (`Those`) are recursive functions, one
value per turn of the code's loops. `Walk` takes as many turns as the table has processes,
and one more: `WalkComplete` shows that the code's loop has then ended.

A session is bound to the first worktree that contains its directory, taking the longest
paths first: `Bound` is the longest of those around it.
A path is a sequence of components, so `Under` is `pathHasPrefix`, and a longer path
is one of more components: of the paths above one directory the deeper is the
longer in bytes too. The worktrees do not change during a run of `Scan`; what
becomes of them when git fails is `Poller`'s.

Names, states, times and the sorting of sessions and repositories are carried
through unchanged and left out. A process id is used once. `Pids` is the order in which
the commands list; `InPane`, who really runs in a pane, is by closed sets of processes
and has nothing of the walk it is compared with.

### Differ and Notify

A snapshot maps keys to what `Diff` looks at: the state and whether something is
waited for. A ledger entry is an age. A cycle is collect and diff, remember, emit.
In mode `stream` the memory is the process's; in mode `once` it is the state file,
which is renamed into place before anything is emitted. `Ended` is the end of the
process, by a kill (`Killed`), a state file that cannot be written (`PersistFails`) or
an emit that fails (`EmitFails`); a stream loses its memory with it. Events
of different sessions are emitted in any order, as Go's map iteration is random;
those of one session in the order of the code. `quiet` and `told` are history.

Time goes forward, and a once-run does not start while another is under way.

*Fairness.* Cycles go on (`Saves`, `EmitsGoOn`), not every one with a failed collector
(`CollectsAgain`); and not every cycle that saw the present state is ended before it has
saved it (`SavesAsIs`).

### Rows and Cockpit

`Rows` has the pure parts of the list: four buckets, and in each the repositories,
worktrees and sessions of the snapshot that the query and the state filter leave,
under headers (`GroupRows`, `RepoRows`, `WorktreeRows`, one for each loop of the code); the movements of the cursor over rows that can be selected; and
the window of rows that fits a height, with its indicator lines (`WindowRows`,
`ListBody`).

`Cockpit` has one action per message of `Update` and per key or group of keys of
`handleKey`. Bubbletea runs `Update` once at a time; what is concurrent are its
commands, whose answers come at any time and in any order. A poll brings any of the
snapshots, or an error, whenever it likes. The generation of previews is not a
number: the previews on their way that belong to the current generation are in
`fetching`, and a new generation empties it, as the code discards the others on arrival.
`Settle` is a new generation with a delayed fetch, `Renew` one with a fetch at
once, `Refresh` a fetch within the generation. `sent` is the command a step issues;
`aim`, history, is the session that was selected when the current mode was entered.
`Onward` is one pass through the loop of `halfPage`.

A snapshot is assumed to have no two sessions with one key (`KeysOnce`). This is what
`SessionOnce` says of the snapshots that `Scan` collects; there it is proved
(`SessionsOnce`), here it is an assumption. Another is `NobodyAssumption`: no session's key
is the one that stands for "none", the empty string in the code.

Left out: wording, colours, what the pager shows, the toast, drawing.

*Fairness.* The preview tick is rescheduled when it fires (`TicksGoOn`), and a preview that
is asked for again and again comes back at some time before the next new
generation (`ComesInTheEnd`): a capture takes milliseconds, polls are 3 s apart. While nothing is
loaded every poll starts a new generation, which is why strong fairness is needed.
Both are asked for only while the cockpit is `Awake`: after it has quit no message is
handled, and while the terminal is handed over to an attached session, which may be
for ever, none is sure to be.

### Reply

The callers are the goroutines of the daemon's requests, and the cockpits. A
caller goes through the commands of `Reply` (or the three of `OpenInTmux` and of
the cockpit's `openResumeWindow`), one action per command, and any other may run
between two. Each command may fail, or be killed after it has had its effect. tmux
refuses a name that stands for two windows (`Found`); this is what makes two
replies to one session hinder each other. The session's screen is one of four
kinds with a length, and changes when it takes a key (`Takes`) or on its own.
`Cancel` ends the context, after which each further command fails, except for the
deferred `kill-window`. `Dies` is the end of the process. Deadlines are not counted:
any poll may be the last (`WaitEnds`, `VerifyEnds`).

`typed`, `entered` and `tangled` are history.

*Fairness.* A caller whose next command can be run goes on. Sessions,
users and the end of contexts are under no obligation.

### Dispatch

One repository; a directory is absent, somebody's (`foreign`), made but
without `.git` (`bare`), with `.git` but incomplete (`half`), or `whole`. git's own entries for worktrees
(`record`) live apart from the directories, which is what `prune` is about. The
steps of `createWorktree` are actions of their own: prune, base, triage, probe,
add. git's `worktree add` is external and again several steps: it enters the worktree
as locked, makes the directory, `.git`, the files, and unlocks.

Every command has 5 s of its own (exec.go:44-48) and may fail alone. A failed prune, which leaves
some of the stale entries, is ignored (`PruneFails`, dispatch.go:159); a failed show-ref is taken to mean
that there is no such branch (`ProbeFails`, dispatch.go:183). A failed rev-parse or add ends the
call, and so does `CutOff`: the add runs into its timeout, the caller's context is done, the process dies.
In the middle of an add git is killed and leaves what there is. Meanwhile
the user deletes directories and branches, switches worktrees to other branches or puts things in
the way, and other dispatches run. A dispatch to a listed worktree goes by a snapshot of any age.

`missed`, `disturbed`, `cut` and `switched` are history: which of its commands have failed unnoticed;
whether anybody else has changed git's state, or the user anything, since the call began; where an add
was cut off; where another branch was checked out.

The validation of prompt, names and flags is passed or not; a request that
is refused there has no effect. A slug is a constant function.

### Gate

A request goes through `Auth` (local token, none, or a JWT whose key id is looked
up), and if it is let through, a handler that reads or one that mutates. `LookUp`,
`Refresh`, `FetchReads` or `FetchFails`, `Install` and `Reread` are the sections of
`JWKS.Key` and `refresh` between locks; the requests interleave between them.
Cloudflare changes the published keys whenever it likes (`Rotate`). A key set has
at least one usable key or the fetch counts as failed. Time is in ticks, and the
age of the last fetch is kept up to an hour and one. A fetch is over by its timeout
of 10 s, which is less than the 30 s between fetches (`GateAssumption`, which also says
that there is room for a request at all); with the order of the steps in `Refresh` this
keeps two fetches apart (`OneFetch`).

`past[route][i]` is how long ago the last call but `i - 1` was let through, for twice the limit and one
more; it and `dropped` are history. The bound on the rate is then one about ages: of the oldest
of these calls a minute has passed.

*Fairness.* A request that is in a handler goes on (`GoesOn`), time passes (`TimePasses`);
requests with every key come again and again (`AskedAgain`), and fetches do not fail for
ever (`FetchesSucceed`).

## Runs

| run | instance | result |
|---|---|---|
| `store` | one stream, three versions | 22128 states, all properties hold |
| `store_laggard` | the same | `LaggardMissesOnlyIntermediate` is violated |
| `poller` | one repository, one supervised session, one only in a pane; no configuration, or the repository configured by its main checkout or by a linked worktree; intervals 2 and 3, pauses of 1 and 2 | 306534 states, all hold |
| `poller_loose` | two repositories, the same sessions, intervals and pauses; no configuration, or both configured with one as linked worktree | `NeverAllDumped` is violated |
| `scan` | three claudes, a pane with a shell and a pane that runs claude, two directories, one of them in a worktree inside a repository, one claude listed without ids | 3454831 states, all hold |
| `cockpit` | four snapshots (one empty) with two sessions, one query, a wide and a narrow terminal | 161643 states, all hold |
| `reply` | two callers on one session, each to reply or to open, one with a choice number; two lengths of a screen | 205712 states, all hold |
| `reply_permission` | the same | `PermissionNeverAnswered` is violated |
| `gate` | two requests, two key ids, one route with a limit of 1, a minute of 2 ticks, fetches of at most 1 and 2 apart, an hour of 3 | 144200 states, all hold |
| `dispatch` | two callers, branches `Fix`, `fix` and `next`, the first two with one slug | 2120282 states, all hold |
| `notify` | one session (working, blocked, done or absent), window 2, ledger kept for 3 | 373292 states, all hold |
| `notify_gone` | the same | `GoneIsGone` is violated |

What they show:

- `store`. `InOrder`: versions along screen, send, pending, channel, store only
  grow, although a publication may fall between any two steps.
  `NoSubscriptionLeak`: registered are exactly the handlers past `Subscribe` and
  before cancel. `SnapshotFileWhole`: whatever is killed, the file is whole.
  `NeverBlocked`: a step of `Set` is always enabled, however the streams stand, and so is
  one of a stream's handler at each of its waits, whatever is being published and whatever
  the other cases of its `select` hold. `ImplementsFeed`: the
  screens implement `SnapshotFeed`. `NewsArrives`: what the channel drops, or
  falls between `Get` and `Subscribe`, is made up for by a later poll.
- `poller`. `HealthTellsData`: what `/healthz` says of tmux and git is the age of the panes and
  repositories in use, though the conditions for "healthy" (poller.go:91) and "replace"
  (poller.go:98) differ. Of the process table it says nothing after a failed ps, which marks
  tmux healthy all the same (poller.go:69-74): the property claims that this is the only
  case, and that the table is then the older one.
  `KeptThroughFailure`: with a repository configured by its main checkout,
  a tick that lists nothing loosens nobody.
  `OldMeansFailed`: data older than an interval and a pause betrays a command
  that failed the last time it was run. `SettlesAccurate`: the loop is never held up, not by
  a collector that is not due either, and in a world that
  settles, the snapshot shows it as it is, again and again.
- `scan`. `PaneOnce` and `SessionOnce`: no duplicates, with caches of any age
  and any failure. `NobodyMissed`: a claude that sits in a pane through a
  cycle without failures is accounted for. `InteractiveOwnsPane`: its pane is shown as
  its own, or as that of another interactive session there. `BoundToDeepest`: a
  session in a worktree that lies inside a repository is shown in the worktree.
- `cockpit`. `CursorOnSession`, `ListedOnce`: after every message and key the list is
  that of the last snapshot and filters, in the order of urgency, and the cursor
  on a session if there is one. `SelectedVisible`: the selected row is drawn at every height
  from two lines on. `OneSpinner`: no second chain of ticks. `SentAsMeant`: stop and resume
  go to the session the sheet was opened for, a reply only to one that waits for it.
  `PreviewCatchesUp`: no mode and no sheet keeps the tick from asking for the preview, or the
  preview from coming in; when the selection rests, its preview is shown in the
  end and is not replaced by a late one.
- `reply`. `AnswerTells`: what the caller is told agrees with what was sent, whoever
  else is at work and wherever the context ends: nothing was typed after a timeout or a refusal,
  so that it may be repeated, and both text and Enter after ok and unverified.
  `WindowGone`: windows go, unless two of one session have existed at a time, or
  the process or new-window was cut off. `EveryCallEnds`: at each step of a call there
  is a next one, whatever the others have done to the windows, and the last one comes.
- `gate`. `RateBound`: at most twice the limit in any minute. `KnownKeyHonoured`: who
  comes with a key the cache knows is not refused while that key is published, whatever
  fetches fail or replace. `RotatedKeyArrives`: no request waits for another,
  nor for the interval between fetches, and a new key is known in the end.
- `dispatch`. `RunsInWorktree`: a call that nobody disturbs starts claude in a
  whole worktree; the exceptions are a directory it has found in which an add was cut off, or is
  under way. It is on the branch asked for if the call has made it, and if it has found it,
  unless another branch has the same slug or somebody has switched it. `RefusedForCause`: what
  earlier dispatches or a user have left behind does not keep git from the
  add of an undisturbed call. It is refused for a branch that is in use, or a locked entry; and
  when the call's own prune has failed, for a stale entry, or its own show-ref, for the branch that is there.
  Each of these exceptions does occur in the instance.
- `notify`. `WindowRespected`, `ToldAtMostOnce`, `NeedNoticed`: see below, against
  kills between any two steps. Part of `NeedNoticed` is that whatever is in the queue, there
  is an event that may be emitted next, and a memory can always be saved.

### Disagreements between comments and code

- `store_laggard`. store.go:70 says that laggards miss *intermediate* snapshots.
  A full channel keeps what it holds, so they miss the *newest* one and wait for
  the next poll.
- `poller_loose`. poller.go:94-97 says a transient git failure must not dump every
  session into `(loose)`. The guard compares with the repositories that
  discovery returned, and discovery asks git as well: without configured
  repositories (the default), or with a linked worktree configured, it returns none
  and the list is emptied for an interval.
- `notify_gone`. fleet.go:9-12 makes a claude failure the caller's business.
  The notifier does not look at it: one failed listing reports all supervised
  sessions as gone, the next good one reports them as new.
- `reply_permission`. docs/REPLY.md:59 says that clauditor refuses to answer
  permission prompts remotely. The screen is classified once; text and Enter follow
  without another look, at least 300 ms apart, so a prompt that comes up in between is
  answered, be it by the session itself, by the text, or by another reply.

Met on the way, without a run: the comment of `SessionCWDs` (fleet.go:68) speaks
of live sessions and of panes that run claude; the code takes every listed session and
every pane. A tmux window that two replies have tangled stays until a human closes
it, and until then every reply to that session ends in a timeout. A `worktree add`
that is killed leaves a locked entry, which `prune` skips: once the directory
is removed, every further dispatch to it is refused.

### Why the bounds are enough

- *Streams* share only the poller, which serves each in the same `FanOut`; the
  theorems hold for any number. The instance with two streams and two versions
  (436671 states) was checked by hand and is too slow to keep. Three versions: one on the
  screen, one in the channel, one dropped.
- *Poller.* A unit is about the claude interval (4 to 6 s with jitter, against 10 s
  and 20 s). Intervals of 2 and 3 make ticks fall due with
  every other pass, together and apart, and pauses of 1 or 2 with every pass too. `Horizon` is an
  interval and the longest pause. Pauses that differ make a tick late. A git failure in one of two
  repositories is beyond the instance of `poller`: with two repositories and pauses of 1
  (699150 states) its properties were checked by hand and hold, which takes too long to
  keep. The theorems, of every property of the run, have any number. The health of claude is kept up to
  one more than the longest pause: no snapshot gets older than that pause.
- *Scan.* Three claudes: an interactive one in a pane, a background job below it,
  and one the supervisor does not know, or that has ended. Two panes to be claimed
  twice, two directories to be told apart.
- *Notify.* Keys do not interact: the ledger and the diff are per key, and
  a failed collector hides all of a kind. The theorems hold for any set of keys, those of
  tmux sessions included. A window of 2 and a ledger kept for 3 let an entry be
  inside the window, past it, and trimmed; the code keeps ten windows, and the
  proofs ask only that it is not less than one.
- *Cockpit.* The four snapshots let sessions change places, change buckets, become
  bare or stopped, and all go away; rows run up to seven with their headers, against heights of two to nine.
  Two sessions suffice for a late preview of another one.
- *Reply.* Two callers meet in every pair of steps; what a third could add is a third
  window of the same name, which tmux refuses just as the second. Two lengths tell
  changed from unchanged.
- *Gate.* Two requests: one fetches, one finds its traces. Two keys: an old and a
  new one. The ticks are the least numbers that keep the order of the code's times
  (fetch timeout, least interval, hour) and a minute of more than one tick.
- *Dispatch.* Two callers on the same directory, on two with the same branch free, or on one slug with two
  branches; the third branch can be the main worktree's.

## Theorems

All are proved with TLAPS, for every value of the constants that satisfies the
named assumptions of the modules.

| theorem | states | rests on |
|---|---|---|
| `TypeCorrect` | `Spec => []TypeOK` (store): among the types, a stream that is writing has a snapshot to write | itself inductive |
| `FileIsWhole` | `[]SnapshotFileWhole` | `FileInv`: also, a temporary file about to be renamed is whole |
| `SnapshotsInOrder`, `NoLeak` | `[]InOrder`, `[]NoSubscriptionLeak` | `OrderInv`: both and the types. `InOrder` alone is not inductive: that the channel of a new subscriber is empty needs `NoSubscriptionLeak` |
| `StoreImplementsFeed` | `Spec => SF!Feed` | `OrderInv`: a finished write delivers a version between the one shown and the newest |
| `NotifyTypeCorrect` | `Spec => []TypeOK` (notifier): among the types, an event that is to be told is in the ledger | itself inductive |
| `WindowHolds` | `Spec => WindowRespected` | `WindowInv`: for each delivered event within its window, the ledger that the next diff will read has an entry that is no older. This is where save-before-emit and trimming matter |
| `ToldOnce` | `[]ToldAtMostOnce` | `ToldInv`: a needs_input is queued only if nothing has been told in this spell, and a told spell is remembered |
| `PollerTypeCorrect` | `Spec => []TypeOK` (poller) | itself inductive |
| `HealthIsTrue` | `[]HealthTellsData`: of panes and repositories an equality of ages, of processes an order that only a failed ps may make strict | `AgeInv`, and `HealthyIffReplaced`: the two conditions are the same for the lists that git can return |
| `OldIsFailed` | `[]OldMeansFailed` | `AgeInv`, whose part `OnTime` bounds the age of ticks before and after a pause |
| `KeptWhenGitFails` | `Spec => KeptThroughFailure` | `BoundInv`: between iterations, who is not loose is in a repository of the cached list |
| `ReplyTypeCorrect` | `Spec => []TypeOK` (replies) | `KeyInv`: that Enter follows a text needs what the steps know of `typed` |
| `AnswersAreTrue` | `[]AnswerTells` | `KeyInv`: `KeysSent` says for each step of a call what it has sent by then |
| `WindowsGo` | `[]WindowGone` | `WindowInv`: a window whose name is good belongs to a call that has still to close it, and is the only one of that name. So the deferred kill-window can name it; `WindowGone` alone says nothing of windows in use |
| `DispatchTypeCorrect` | `Spec => []TypeOK` (dispatch) | `WorktreeInv`, below |
| `RunsWhereItShould`, `RefusalsHaveACause` | `[]RunsInWorktree`, `[]RefusedForCause` | `WorktreeInv`: what an undisturbed call knows of its directory, git's entry and its branch at each step (`Knows`), which of its commands have failed included; that no two calls add in one directory; that a half worktree is being made or was cut off; and that a worktree nobody has switched is on a branch with its slug (`OnItsBranch`). The first theorem grants half worktrees that were found, and says of the branch of a found one only what its slug can tell; the second lists four causes of a refusal, two of them failures of the call's own commands |
| `GateTypeCorrect` | `Spec => []TypeOK` (guards) | `KeyInv`, `LimitInv` |
| `TwiceTheLimit` | `[]RateBound` | `LimitInv`: the calls of the present window are the last ones and no older than it, those before them are at least as old as it, and of those no more than the limit are younger than a minute |
| `KnownKeysHonoured` | `[]KnownKeyHonoured` | `KeyInv`: a key that a waiting request found is in the cache and in every key set on its way to it (`Held`). This needs that the cache is young while a fetch is in flight: then no request can find its key in a stale cache while an older key set, which may lack it, is on its way |
| `ListInvariant`, `CockpitTypeCorrect`, `CursorRests` | `[](TypeOK /\ ListInv)`, `[]TypeOK`, `[]CursorOnSession` (cockpit) | `ListInv`: the list is `BuildRows` of the last snapshot, query and filter, and the cursor on a session of it. That every movement lands on a session is a fact about such lists only |
| `EveryoneListed` | `[]ListedOnce` | `ListInv` and `BuildList`, what the nested loops list, by induction over their parts |
| `DrawnAtAnyHeight`, `SelectedIsDrawn` | `[]SelectedVisible`, and the same of every height of two lines or more | `ListInv` and `DrawnWithCursor`, arithmetic of the window and its indicators |
| `SpinnerAlone` | `[]OneSpinner` | itself inductive |
| `ScanTypeCorrect` | `Spec => []TypeOK` (collection) | `ScanInv`: each listing, however old, has no process, pane or key twice, and the process of a pane is never below another's |
| `PanesOnce` | `[]PaneOnce` | `ScanInv` and `ClaimsOf`, the claims by induction over the agents |
| `SessionsOnce` | `[]SessionOnce` | `ScanInv`; the trees of two panes are disjoint by any table (`Apart`); and by the turn of an agent the pane its process is in has been claimed (`ClaimedByThen`), so what is left over is nobody's. That the table may be older than the listing does not matter, since both questions are put to the same one |
| `InDeepestWorktree` | `[]BoundToDeepest` | `BoundOf`: the prefixes of one path are nested |
| `WalkComplete` | the walk's turns suffice, and it sees all that is below its root | `Walking`, over the turns: what is below a noted process is noted or on the stack, nothing is on it twice; and counting |
| `ScanReads`, `NobodyIsMissed`, `InteractiveOwns` | `[]ReadInv`, `[]NobodyMissed`, `[]InteractiveOwnsPane` | `ReadInv`: what a cycle has read of a claude that has not changed is still so: its entry, its pane, its place below the pane. The claudes between it and the pane may have changed; `InPane` can only have been lost by that, never gained (`BornIsApart`, `ExitSevers`) |
| `FetchAlone` | `Spec => []OneFetch` | `KeyInv`: a fetch in flight is younger than its timeout, and a second one needs that the interval has passed |
| `NewsComes` | `NewsArrives`, under fairness | `NewsInv`: `OrderInv`, and a handler that is leaving or closed has no browser; a stream comes to its loop (`ComesToLoop`), its channel is emptied and filled (`ChannelEmptied`, `ChannelFilled`), and what is pending is shown (`PendingShown`) |
| `NeedIsNoticed` | `NeedNoticed`, under fairness | the phases of a cycle: each ends (`CyclesEnd`), and one that has seen the need is saved |
| `SnapshotSettles` | `SettlesAccurate`, under fairness | the loop turns (`LoopTurns`), each interval passes (`TmuxComesDue`, `GitComesDue`), the panes get right and stay so (`PanesSettle`), and a flawless tick of git on right panes gives an accurate snapshot (`CorrelatedAccurate`) |
| `CallsEnd` | `EveryCallEnds`, under fairness | each step of a call leads to a later one |
| `RotatedKeyComes` | `RotatedKeyArrives`, under fairness | `KeyInv`, `OneFetch`: while the key is missing, the interval passes (`FetchComesDue`), the next request for it fetches (`DueIsFetched`), one that fetches does not fail for ever, and what is then installed has the key and keeps it |
| `PreviewComes` | `PreviewCatchesUp`, under fairness | while the selection rests, the previews of others on their way run out (`Late`), and its own is asked for until it has come (`WantedIsAsked`) |
| `SentToWhomItIsMeant` | `Spec => SentAsMeant` | `AimInv`: the session of an open sheet is the one selected when it was opened; and `ListInv`, for the reply |

Induction. `FlattenSeq`, the fold behind it, `halfPage`'s loop, and `Those`, `Claims` and `Walk` of
`Correlate` are recursive functions. The library's theorems of induction take an operator as a
parameter, which the provers cannot find; `CockpitProofs` and `ScanProofs` derive induction over
the naturals for a set instead (`Induct`, from `WFMin`). With it each of these functions is shown
to exist and its value is described once (`FlattenInTurn`, `ThoseOf`, `ClaimsOf`, `WalkOf`).

The theorems about `Scan` and those about `Cockpit` meet in one point: `SessionsOnce` gives
what `KeysOnce` assumes. The snapshots of the two are different records (the cockpit's has what is
drawn), so this is not a theorem of its own.

### Liveness

Each of the six liveness properties is proved for every value of the constants, in the form

    FairSpec /\ []<never stuck> /\ []<counting> => <property>

`FairSpec` is the specification with the fairness of the module, as in the runs. The two
other hypotheses are what the provers cannot supply; neither is a demand on the program.

- *Never stuck* (`NeverStuck` in five modules, `NeverBlocked` in the store) says of each fair
  action in which states it is `ENABLED`, which the provers do not expand. TLC checks it as
  an invariant: in the store by its name, in the others as the first half of the
  liveness property, so that a run which checks the property also finds the theorem's
  hypothesis true of every behaviour of the instance. What the theorem adds is the second half.
- *Counting* is an instance of induction that the prover has no rule for, over steps of a
  behaviour: an age or a clock that is not set back and rises again and again passes every
  bound (`TmuxAgePasses`, `GitAgePasses` and `ClockPasses`), a finite set that only shrinks
  does not shrink again and again (`QueueRunsOut` of the events of a cycle, `AllRunOut` of
  the previews on their way). They speak of one variable, or one set, alone, and are true of
  any sequence of values of it, provided that there are finitely many sessions. `NewsComes`
  and `CallsEnd` need none.

So what the liveness proofs show is that nothing but a disabled action can keep the good
thing from happening: there is no cycle of steps, each of them allowed and fair, that avoids
it for ever, however many streams, callers, requests, sessions or intervals there are. Two
things came out of the attempts: the fairness of the cockpit had asked for steps after it
quit and while the terminal was handed over, which no code provides; and that the interval
between fetches passes rests on there being one fetch at a time, which is now `OneFetch`.

Only model-checked: `NeverBlocked` and the five `NeverStuck`, which are about `ENABLED`, and with
them liveness without that hypothesis. Only proved: `OneFetch`, which no run checks by itself.

## Not modelled, and why

- Text formats: `ParsePanes`, `ParsePS`, git porcelain, JSON salvage, the output of
  events, JWTs and key encodings, the patterns that classify a screen. What a record
  or a screen says is an input.
- Rendering (`render.go`, `theme.go`, `ansi.go`): layout without state, but for the
  rows that fit, which `Rows` has.
- Transcript: one pass over the tail of a file, without memory. The only
  hazard is a tail that starts at the start of a line, whose first line is dropped.
- Doctor, configuration, flags, deployment: probes and I/O without state
  between steps.
- Web dashboard: only the snapshot listener; filters and the drawer redraw from the last
  snapshot.
- The order of sessions within a worktree (`SortSessions`) and of repositories.
- The routes of the HTTP server and its start and end. Stop and Respawn, which run one
  command and keep nothing.
- Two once-runs of the notifier at a time, and a clock that is set back.

## Plan

Done: the path of a snapshot from the collectors to the screens and the
notifier, the cockpit, the actions and the guards; theorems about every safety property
of them that does not speak of `ENABLED`, and about every liveness property given what
does. Next: the order of sessions within a worktree, once something depends on it.
