------------------------------ MODULE Dispatch ------------------------------
(***************************************************************************)
(* Dispatch (internal/actions/dispatch.go): find or make the worktree a    *)
(* session is to run in, one git command after the other, then start       *)
(* claude there.  Every request of the daemon, the cockpit and the command *)
(* line runs in a goroutine or process of its own; nothing is locked, and  *)
(* what is there is looked at before it is used.                           *)
(*                                                                         *)
(* External: git, which makes a worktree in several steps and enters it in *)
(* the repository first, locked until it is done; claude; and the user,    *)
(* who may delete directories and branches, or switch a worktree to        *)
(* another branch, at any time.                                            *)
(*                                                                         *)
(* Every command has 5 s of its own and may fail by itself; a failed prune *)
(* or show-ref does not end the call, and is not told from a good one.     *)
(***************************************************************************)
EXTENDS FiniteSets

CONSTANTS Callers,          \* dispatches at a time
          Branches,         \* of one repository
          Dirs,             \* paths below the worktree base
          SlugForBranch     \* the path of a branch's worktree

None == "none"

ASSUME DispatchAssumption ==
    /\ SlugForBranch \in [Branches -> Dirs]
    /\ None \notin Branches

VARIABLES
    tree,       \* tree[d]: what is at the path d
    record,     \* record[d]: git's entry for a worktree there: its branch and whether it is locked
    branches,   \* the branches of the repository
    main,       \* the branch of the main worktree: fixed
    pc,         \* the next step of a call
    branch,     \* the branch it is to run on, or None for a worktree that was listed
    dir,        \* the directory it is to run in
    exists,     \* its probe has found the branch
    created,    \* res.CreatedWT is set
    missed,     \* history: the commands that failed and were taken for good
    disturbed,  \* history: another call, or the user, has changed git's state since it began
    cut,        \* history: directories in which an add was cut off
    switched    \* history: worktrees in which another branch was checked out

repo    == <<tree, record, branches, main>>
call    == <<branch, dir, exists, created, missed>>
history == <<disturbed, cut, switched>>
vars    == <<repo, pc, call, history>>

Trees   == {"absent", "foreign", "bare", "half", "whole"}
Entries == [on : Branches \cup {None}, locked : BOOLEAN]
NoEntry == [on |-> None, locked |-> FALSE]

TypeOK ==
    /\ tree \in [Dirs -> Trees]
    /\ record \in [Dirs -> Entries]
    /\ branches \subseteq Branches
    /\ main \in branches
    /\ pc \in [Callers -> {"idle", "prune", "triage", "probe", "add", "adding", "run", "claude"}]
    /\ branch \in [Callers -> Branches \cup {None}]
    /\ dir \in [Callers -> Dirs]
    /\ exists \in [Callers -> BOOLEAN] /\ created \in [Callers -> BOOLEAN]
    /\ missed \in [Callers -> SUBSET {"prune", "probe"}]
    /\ disturbed \in [Callers -> BOOLEAN]
    /\ cut \subseteq Dirs /\ switched \subseteq Dirs
    /\ \A d \in Dirs : record[d].on \in branches \cup {None}
    /\ \A c \in Callers : created[c] => pc[c] \in {"run", "claude"} /\ branch[c] # None

Goto(c, step) == pc' = [pc EXCEPT ![c] = step]

(* A plausible slip: one result for all calls. *)
EndsOnly(c) == Goto(c, "idle") /\ UNCHANGED call

(* A call that is over keeps nothing. *)
Ends(c) ==
    /\ Goto(c, "idle")
    /\ branch' = [branch EXCEPT ![c] = None]
    /\ exists' = [exists EXCEPT ![c] = FALSE]
    /\ created' = [created EXCEPT ![c] = FALSE]
    /\ missed' = [missed EXCEPT ![c] = {}]
    /\ UNCHANGED dir

(* The others learn nothing of it. *)
Disturbs(c) == disturbed' = [x \in Callers |-> disturbed[x] \/ (x # c /\ pc[x] # "idle")]

-----------------------------------------------------------------------------
(* Validation and resolveTarget.  A request that is refused there, or names   *)
(* a directory of its own, has nothing to do with what follows.               *)

(* To a new worktree of branch b. *)
Begin(c, b) ==
    /\ pc[c] = "idle"
    /\ Goto(c, "prune")
    /\ branch' = [branch EXCEPT ![c] = b]
    /\ dir' = [dir EXCEPT ![c] = SlugForBranch[b]]
    /\ disturbed' = [disturbed EXCEPT ![c] = FALSE]
    /\ UNCHANGED <<repo, exists, created, missed, cut, switched>>

(* To a worktree of the snapshot, which may be of any age: much can have      *)
(* happened to the worktree since.                                            *)
BeginListed(c, d) ==
    /\ pc[c] = "idle"
    /\ Goto(c, "run")
    /\ dir' = [dir EXCEPT ![c] = d]
    /\ disturbed' = [disturbed EXCEPT ![c] = TRUE]
    /\ UNCHANGED <<repo, branch, exists, created, missed, cut, switched>>

-----------------------------------------------------------------------------
(* createWorktree. *)

(* A plausible slip: what git still knows of a directory that is gone is left alone. *)
PruneNothing(c) ==
    /\ pc[c] = "prune"
    /\ Goto(c, "triage")
    /\ UNCHANGED <<repo, call, history>>

(* Git's entry is of a worktree that is gone. *)
Stale(d) == record[d] # NoEntry /\ tree[d] \in {"absent", "foreign"} /\ ~record[d].locked

Forget(c, gone) ==
    /\ record' = [d \in Dirs |-> IF d \in gone THEN NoEntry ELSE record[d]]
    /\ IF gone = {} THEN UNCHANGED disturbed ELSE Disturbs(c)
    /\ UNCHANGED <<tree, branches, main, cut, switched>>

(* git worktree prune: stale entries go; one that is locked is not stale. *)
Prune(c) ==
    /\ pc[c] = "prune"
    /\ Goto(c, "triage")
    /\ Forget(c, {d \in Dirs : Stale(d)})
    /\ UNCHANGED call

(* It fails or is killed with entries left, and nobody looks. *)
PruneFails(c) ==
    /\ pc[c] = "prune"
    /\ Goto(c, "triage")
    /\ \E left \in SUBSET {d \in Dirs : Stale(d)} :
          left # {} /\ Forget(c, {d \in Dirs : Stale(d)} \ left)
    /\ missed' = [missed EXCEPT ![c] = @ \cup {"prune"}]
    /\ UNCHANGED <<branch, dir, exists, created>>

(* A base was given and rev-parse fails on it, or the directory that is to    *)
(* hold the worktree cannot be made.                                          *)
BadBase(c) ==
    /\ pc[c] = "triage"
    /\ Ends(c)
    /\ UNCHANGED <<repo, history>>

(* What is there already is used; the file .git is enough. *)
Triage(c) ==
    /\ pc[c] = "triage"
    /\ CASE tree[dir[c]] = "absent"              -> Goto(c, "probe") /\ UNCHANGED call
         [] tree[dir[c]] \in {"half", "whole"}   -> Goto(c, "run") /\ UNCHANGED call
         [] tree[dir[c]] \in {"foreign", "bare"} -> Ends(c)
    /\ UNCHANGED <<repo, history>>

(* show-ref. *)
Probe(c) ==
    /\ pc[c] = "probe"
    /\ exists' = [exists EXCEPT ![c] = branch[c] \in branches]
    /\ Goto(c, "add")
    /\ UNCHANGED <<repo, branch, dir, created, missed, history>>

(* It fails on a branch that is there, which is then taken to be new. *)
ProbeFails(c) ==
    /\ pc[c] = "probe" /\ branch[c] \in branches
    /\ missed' = [missed EXCEPT ![c] = @ \cup {"probe"}]
    /\ Goto(c, "add")
    /\ UNCHANGED <<repo, branch, dir, exists, created, history>>

(* The branch is that of another worktree, one that is gone included. *)
Taken(b) == b = main \/ \E d \in Dirs : record[d].on = b

(* git worktree add has what it asks for: with -b that the branch is new. *)
CanAdd(c) ==
    /\ tree[dir[c]] = "absent" /\ record[dir[c]] = NoEntry
    /\ IF exists[c] THEN branch[c] \in branches /\ ~Taken(branch[c])
                    ELSE branch[c] \notin branches

Add(c) ==
    /\ pc[c] = "add" /\ CanAdd(c)
    /\ Goto(c, "adding")
    /\ branches' = branches \cup {branch[c]}
    /\ record' = [record EXCEPT ![dir[c]] = [on |-> branch[c], locked |-> TRUE]]
    /\ tree' = [tree EXCEPT ![dir[c]] = "bare"]
    /\ missed' = [missed EXCEPT ![c] = {}]
    /\ Disturbs(c)
    /\ UNCHANGED <<main, branch, dir, exists, created, cut, switched>>

(* A plausible slip: an add that fails is not noticed. *)
AddFailsUnseen(c) ==
    /\ pc[c] = "add"
    /\ Goto(c, "run")
    /\ UNCHANGED <<repo, call, history>>

(* git refuses or fails; a new branch is made first, and stays. *)
AddFails(c) ==
    /\ pc[c] = "add"
    /\ branches' \in {branches} \cup (IF exists[c] THEN {} ELSE {branches \cup {branch[c]}})
    /\ IF branches' = branches THEN UNCHANGED disturbed ELSE Disturbs(c)
    /\ Ends(c)
    /\ UNCHANGED <<tree, record, main, cut, switched>>

(* The file .git, then the files of the branch. *)
AddGoesOn(c) ==
    /\ pc[c] = "adding" /\ tree[dir[c]] = "bare"
    /\ tree' = [tree EXCEPT ![dir[c]] = "half"]
    /\ UNCHANGED <<record, branches, main, pc, call, history>>

AddDone(c) ==
    /\ pc[c] = "adding" /\ tree[dir[c]] = "half"
    /\ tree' = [tree EXCEPT ![dir[c]] = "whole"]
    /\ record' = [record EXCEPT ![dir[c]].locked = FALSE]
    /\ created' = [created EXCEPT ![c] = TRUE]
    /\ Goto(c, "run")
    /\ UNCHANGED <<branches, main, branch, dir, exists, missed, history>>

(* The directory has been deleted under git's hands; git takes away the rest. *)
AddBreaks(c) ==
    /\ pc[c] = "adding" /\ tree[dir[c]] \in {"absent", "foreign"}
    /\ record' = [record EXCEPT ![dir[c]] = NoEntry]
    /\ Disturbs(c)
    /\ Ends(c)
    /\ UNCHANGED <<tree, branches, main, cut, switched>>

-----------------------------------------------------------------------------
(* claude --bg, which needs the directory, and the answer. *)

RunClaude(c) ==
    /\ pc[c] = "run"
    /\ IF tree[dir[c]] = "absent" THEN Ends(c) ELSE Goto(c, "claude") /\ UNCHANGED call
    /\ UNCHANGED <<repo, history>>

(* With the short id or an error: then what was created is not told. *)
Answer(c) ==
    /\ pc[c] = "claude"
    /\ Ends(c)
    /\ UNCHANGED <<repo, history>>

-----------------------------------------------------------------------------
(* The environment. *)

(* The add runs into its timeout, or the process dies or the caller's context  *)
(* is done at any step: with the context every command that is left fails,    *)
(* the add among them.  git is killed and cannot take away what it has made.  *)
CutOff(c) ==
    /\ pc[c] # "idle"
    /\ cut' = IF pc[c] = "adding" THEN cut \cup {dir[c]} ELSE cut
    /\ Ends(c)
    /\ UNCHANGED <<repo, disturbed, switched>>

DisturbsAll == disturbed' = [x \in Callers |-> disturbed[x] \/ pc[x] # "idle"]

(* The user deletes a directory, or puts one of his own in the way. *)
Delete(d) ==
    /\ tree[d] # "absent"
    /\ tree' = [tree EXCEPT ![d] = "absent"]
    /\ DisturbsAll
    /\ cut' = cut \ {d}
    /\ switched' = switched \ {d}
    /\ UNCHANGED <<record, branches, main, pc, call>>

Clutter(d) ==
    /\ tree[d] = "absent"
    /\ tree' = [tree EXCEPT ![d] = "foreign"]
    /\ DisturbsAll
    /\ UNCHANGED <<record, branches, main, pc, call, cut, switched>>

DeleteBranch(b) ==
    /\ b \in branches /\ ~Taken(b)
    /\ branches' = branches \ {b}
    /\ DisturbsAll
    /\ UNCHANGED <<tree, record, main, pc, call, cut, switched>>

(* The user, or the claude at work there, checks out another branch. *)
Switch(d, b) ==
    /\ tree[d] = "whole" /\ b \in branches /\ ~Taken(b)
    /\ record' = [record EXCEPT ![d].on = b]
    /\ switched' = switched \cup {d}
    /\ DisturbsAll
    /\ UNCHANGED <<tree, branches, main, pc, call, cut>>

Init ==
    /\ tree = [d \in Dirs |-> "absent"]
    /\ record = [d \in Dirs |-> NoEntry]
    /\ branches \in SUBSET Branches /\ main \in branches
    /\ pc = [c \in Callers |-> "idle"]
    /\ branch = [c \in Callers |-> None]
    /\ dir \in [Callers -> Dirs]
    /\ exists = [c \in Callers |-> FALSE] /\ created = [c \in Callers |-> FALSE]
    /\ missed = [c \in Callers |-> {}]
    /\ disturbed = [c \in Callers |-> FALSE]
    /\ cut = {} /\ switched = {}

Step(c) ==
    \/ Prune(c) \/ PruneFails(c) \/ BadBase(c) \/ Triage(c) \/ Probe(c) \/ ProbeFails(c)
    \/ Add(c) \/ AddFails(c) \/ AddGoesOn(c) \/ AddDone(c) \/ AddBreaks(c)
    \/ RunClaude(c) \/ Answer(c) \/ CutOff(c)

Next ==
    \/ \E c \in Callers : Step(c)
    \/ \E c \in Callers, b \in Branches : Begin(c, b)
    \/ \E c \in Callers, d \in Dirs : BeginListed(c, d)
    \/ \E d \in Dirs : Delete(d) \/ Clutter(d)
    \/ \E b \in Branches : DeleteBranch(b)
    \/ \E d \in Dirs, b \in Branches : Switch(d, b)

Spec == Init /\ [][Next]_vars

-----------------------------------------------------------------------------
(* Properties. *)

Adding(d) == \E c \in Callers : pc[c] = "adding" /\ dir[c] = d

(* A call that nobody has disturbed starts claude in a worktree.  One it has  *)
(* made is whole and on the branch that was asked for.  One it has found is   *)
(* whole too, but for two kinds of half worktree that the code cannot tell    *)
(* from one: an add is at work in it, or was cut off there.  It is on the     *)
(* branch that was asked for if no other branch has that directory by its     *)
(* slug and nobody has switched it (dispatch.go:153-157, 168-177, 193-197).   *)
RunsInWorktree ==
    \A c \in Callers : pc[c] = "run" /\ ~disturbed[c] =>
        LET d     == dir[c]
            alone == \A b \in Branches : SlugForBranch[b] = d => b = branch[c]
        IN  /\ \/ tree[d] = "whole"
               \/ ~created[c] /\ tree[d] = "half" /\ (Adding(d) \/ d \in cut)
            /\ created[c] \/ (alone /\ d \notin switched) => record[d].on = branch[c]

(* The branch is checked out in a worktree, or kept by one that is locked. *)
InUse(b) == b = main \/ \E d \in Dirs : record[d].on = b /\ ~Stale(d)

(* What an earlier dispatch has left, a directory deleted by hand or a branch *)
(* without its worktree, does not keep the next one from its worktree.  git   *)
(* refuses an undisturbed add only for a branch that is in use, for an entry  *)
(* that a killed git has left locked, for a stale entry if this call's own    *)
(* prune has failed, or for a branch that is there if its own show-ref has    *)
(* (dispatch.go:159, 183-197).                                                *)
RefusedForCause ==
    \A c \in Callers : pc[c] = "add" /\ ~disturbed[c] /\ ~CanAdd(c) =>
        \/ InUse(branch[c])
        \/ record[dir[c]].locked
        \/ "prune" \in missed[c]
           /\ \E d \in Dirs : Stale(d) /\ (d = dir[c] \/ record[d].on = branch[c])
        \/ "probe" \in missed[c] /\ branch[c] \in branches
=============================================================================
