--------------------------- MODULE DispatchProofs ---------------------------
(***************************************************************************)
(* Proofs about Dispatch, for every set of callers, branches and           *)
(* directories and every choice of slugs.                                  *)
(***************************************************************************)
EXTENDS Dispatch, TLAPS

USE DispatchAssumption

Making == {"prune", "triage", "probe", "add", "adding"}

(* What a call knows that nobody has disturbed. *)
Knows(c) ==
    /\ pc[c] \in {"triage", "probe", "add"} /\ "prune" \notin missed[c] =>
          \A d \in Dirs : ~Stale(d)
    /\ pc[c] \in {"probe", "add"} => tree[dir[c]] = "absent"
    /\ pc[c] = "add" => /\ exists[c] => branch[c] \in branches
                        /\ branch[c] \in branches => exists[c] \/ "probe" \in missed[c]
    /\ pc[c] = "run" =>
          /\ branch[c] # None
          /\ IF created[c] THEN tree[dir[c]] = "whole" /\ record[dir[c]].on = branch[c]
                           ELSE tree[dir[c]] \in {"half", "whole"}

(* While git makes a worktree its entry is that of the call, and locked.      *)
CallInv(c) ==
    /\ pc[c] \in Making => branch[c] # None
    /\ pc[c] = "idle" => branch[c] = None
    /\ branch[c] # None => dir[c] = SlugForBranch[branch[c]]
    /\ pc[c] = "adding" => /\ record[dir[c]] = [on |-> branch[c], locked |-> TRUE]
                           /\ tree[dir[c]] # "whole"
    /\ ~disturbed[c] => Knows(c)

(* No two calls make a worktree in the same directory.                        *)
OneAdder ==
    \A c, e \in Callers : pc[c] = "adding" /\ pc[e] = "adding" /\ dir[c] = dir[e] => c = e

(* A worktree that is half there is being made, or its making was cut off.    *)
HalfOwned == \A d \in Dirs : tree[d] = "half" => Adding(d) \/ d \in cut

(* A worktree that nobody has switched is on a branch with its slug.          *)
OnItsBranch ==
    \A d \in Dirs : tree[d] \in {"bare", "half", "whole"} =>
        record[d].on # None /\ (d \in switched \/ SlugForBranch[record[d].on] = d)

WorktreeInv ==
    TypeOK /\ OneAdder /\ HalfOwned /\ OnItsBranch /\ \A c \in Callers : CallInv(c)

LEMMA InitWorktrees == Init => WorktreeInv
  BY DEF Init, WorktreeInv, TypeOK, OneAdder, HalfOwned, OnItsBranch, CallInv, Knows,
         Making, Trees, Entries, NoEntry

LEMMA EndsTyped ==
    ASSUME TypeOK, NEW c \in Callers, Ends(c)
    PROVE  /\ pc' = [pc EXCEPT ![c] = "idle"] /\ branch' = [branch EXCEPT ![c] = None]
           /\ exists' = [exists EXCEPT ![c] = FALSE] /\ created' = [created EXCEPT ![c] = FALSE]
           /\ missed' = [missed EXCEPT ![c] = {}] /\ dir' = dir
  BY DEF Ends, Goto

LEMMA BeginW ==
    ASSUME WorktreeInv, NEW c \in Callers, NEW b \in Branches, Begin(c, b) PROVE WorktreeInv'
<1> USE DEF WorktreeInv
<1>1. TypeOK'
  BY DEF Begin, Goto, TypeOK, repo
<1>2. OneAdder'
  BY DEF Begin, Goto, TypeOK, repo, OneAdder
<1>3. HalfOwned'
  BY DEF Begin, Goto, TypeOK, repo, HalfOwned, Adding
<1>4. CallInv(c)'
  BY DEF Begin, Goto, TypeOK, repo, CallInv, Knows, Making
<1>5. \A e \in Callers \ {c} : CallInv(e)'
  BY DEF Begin, Goto, TypeOK, repo, CallInv, Knows, Making, Stale
<1>6. OnItsBranch'
  BY DEF Begin, repo, OnItsBranch
<1> QED
  BY <1>1, <1>2, <1>3, <1>4, <1>5, <1>6

(* Whatever part of the stale entries a prune removes, no worktree loses its  *)
(* own.                                                                       *)
LEMMA PruneW ==
    ASSUME WorktreeInv, NEW c \in Callers, Prune(c) \/ PruneFails(c) PROVE WorktreeInv'
<1> USE DEF WorktreeInv
<1>1. PICK gone \in SUBSET {d \in Dirs : Stale(d)} :
          /\ Forget(c, gone)
          /\ missed' \in [Callers -> SUBSET {"prune", "probe"}]
          /\ \A e \in Callers \ {c} : missed'[e] = missed[e]
          /\ "prune" \in missed'[c] \/ gone = {d \in Dirs : Stale(d)}
  <2>1. CASE Prune(c)
    BY <2>1 DEF Prune, call, TypeOK
  <2>2. CASE PruneFails(c)
    BY <2>2 DEF PruneFails, TypeOK
  <2> QED
    BY <2>1, <2>2
<1>2. /\ pc[c] = "prune" /\ pc' = [pc EXCEPT ![c] = "triage"]
      /\ UNCHANGED <<tree, branches, main, branch, dir, exists, created, cut, switched>>
  BY <1>1 DEF Prune, PruneFails, Goto, call, Forget
<1>3. /\ record' = [d \in Dirs |-> IF d \in gone THEN NoEntry ELSE record[d]]
      /\ \A d \in gone : tree[d] \in {"absent", "foreign"} /\ ~record[d].locked
  BY <1>1 DEF Forget, Stale
<1>4. /\ disturbed' \in [Callers -> BOOLEAN]
      /\ \A e \in Callers : disturbed[e] => disturbed'[e]
      /\ \A e \in Callers \ {c} : pc[e] = "idle" \/ disturbed'[e] \/ gone = {}
  BY <1>1 DEF Forget, Disturbs, TypeOK
<1>5. gone = {} => record' = record
  BY <1>3 DEF TypeOK
<1>6. TypeOK'
  BY <1>1, <1>2, <1>3, <1>4 DEF TypeOK, Entries, NoEntry
<1>7. OneAdder'
  BY <1>2 DEF TypeOK, OneAdder
<1>8. HalfOwned'
  BY <1>2 DEF TypeOK, HalfOwned, Adding
<1>9. OnItsBranch'
  BY <1>2, <1>3 DEF OnItsBranch
<1>10. CallInv(c)'
  <2>1. ASSUME "prune" \notin missed'[c], NEW d \in Dirs PROVE ~Stale(d)'
    BY <1>1, <1>2, <1>3, <2>1 DEF Stale
  <2> QED
    BY <1>2, <2>1 DEF TypeOK, CallInv, Knows, Making
<1>11. \A e \in Callers \ {c} : CallInv(e)'
  <2> SUFFICES ASSUME NEW e \in Callers \ {c} PROVE CallInv(e)'
    OBVIOUS
  <2>1. CallInv(e) /\ pc'[e] = pc[e] /\ missed'[e] = missed[e]
    BY <1>1, <1>2 DEF TypeOK
  <2>2. pc[e] = "adding" => record'[dir[e]] = record[dir[e]]
    BY <1>3, <2>1 DEF CallInv, TypeOK
  <2>3. ASSUME ~disturbed'[e] PROVE Knows(e)'
    <3>1. CASE pc[e] = "idle"
      BY <2>1, <3>1 DEF Knows
    <3>2. CASE record' = record
      BY <1>2, <1>4, <2>1, <2>3, <3>2 DEF CallInv, Knows, Stale
    <3> QED
      BY <1>4, <1>5, <2>3, <3>1, <3>2
  <2> QED
    BY <1>2, <2>1, <2>2, <2>3 DEF CallInv
<1> QED
  BY <1>6, <1>7, <1>8, <1>9, <1>10, <1>11

(* Where git still has an entry that is locked nothing is added.              *)
LEMMA AddW ==
    ASSUME WorktreeInv, NEW c \in Callers, Add(c) PROVE WorktreeInv'
<1> USE DEF WorktreeInv
<1>1. /\ pc[c] = "add" /\ dir[c] \in Dirs /\ branch[c] \in Branches
      /\ tree[dir[c]] = "absent" /\ record[dir[c]] = NoEntry
  <2>1. pc[c] = "add" /\ CallInv(c) /\ CanAdd(c)
    BY DEF Add
  <2> QED
    BY <2>1 DEF CanAdd, TypeOK, CallInv, Making
<1>2. /\ pc' = [pc EXCEPT ![c] = "adding"]
      /\ branches' = branches \cup {branch[c]}
      /\ record' = [record EXCEPT ![dir[c]] = [on |-> branch[c], locked |-> TRUE]]
      /\ tree' = [tree EXCEPT ![dir[c]] = "bare"]
      /\ disturbed' = [x \in Callers |-> disturbed[x] \/ (x # c /\ pc[x] # "idle")]
      /\ missed' = [missed EXCEPT ![c] = {}]
      /\ UNCHANGED <<main, branch, dir, exists, created, cut, switched>>
  BY DEF Add, Goto, Disturbs
<1>3. \A e \in Callers : pc[e] = "adding" => dir[e] # dir[c]
  <2> SUFFICES ASSUME NEW e \in Callers, pc[e] = "adding", dir[e] = dir[c] PROVE FALSE
    OBVIOUS
  <2>1. CallInv(e)
    OBVIOUS
  <2>2. branch[e] # None
    BY <2>1 DEF CallInv, Making
  <2>3. record[dir[e]] = [on |-> branch[e], locked |-> TRUE]
    BY <2>1 DEF CallInv
  <2>4. NoEntry.on = None
    BY DEF NoEntry
  <2> QED
    BY <1>1, <2>2, <2>3, <2>4
<1>4. TypeOK'
  <2>1. tree' \in [Dirs -> Trees] /\ record' \in [Dirs -> Entries]
    BY <1>1, <1>2 DEF TypeOK, Trees, Entries
  <2>2. \A d \in Dirs : record'[d].on \in branches' \cup {None}
    BY <1>1, <1>2 DEF TypeOK
  <2>3. \A e \in Callers : created'[e] => pc'[e] \in {"run", "claude"} /\ branch'[e] # None
    BY <1>1, <1>2 DEF TypeOK
  <2> QED
    BY <1>1, <1>2, <2>1, <2>2, <2>3 DEF TypeOK
<1>5. OneAdder'
  BY <1>1, <1>2, <1>3 DEF OneAdder, TypeOK
<1>6. HalfOwned'
  BY <1>1, <1>2 DEF HalfOwned, Adding, TypeOK
<1>7. CallInv(c)'
  BY <1>1, <1>2 DEF CallInv, Knows, Making, TypeOK
<1>8. \A e \in Callers \ {c} : CallInv(e)'
  <2> SUFFICES ASSUME NEW e \in Callers \ {c} PROVE CallInv(e)'
    OBVIOUS
  <2>1. pc[e] = "idle" \/ disturbed'[e]
    BY <1>2
  <2> QED
    BY <1>1, <1>2, <1>3, <2>1 DEF CallInv, Knows, Making, TypeOK
<1>9. OnItsBranch'
  BY <1>1, <1>2 DEF OnItsBranch, CallInv, TypeOK
<1> QED
  BY <1>4, <1>5, <1>6, <1>7, <1>8, <1>9

LEMMA BeginListedW ==
    ASSUME WorktreeInv, NEW c \in Callers, NEW d \in Dirs, BeginListed(c, d) PROVE WorktreeInv'
<1> USE DEF WorktreeInv
<1>1. TypeOK'
  BY DEF BeginListed, Goto, TypeOK, repo
<1>2. OneAdder'
  BY DEF BeginListed, Goto, TypeOK, repo, OneAdder
<1>3. HalfOwned'
  BY DEF BeginListed, Goto, TypeOK, repo, HalfOwned, Adding
<1>4. CallInv(c)'
  BY DEF BeginListed, Goto, TypeOK, repo, CallInv, Knows, Making
<1>5. \A e \in Callers \ {c} : CallInv(e)'
  BY DEF BeginListed, Goto, TypeOK, repo, CallInv, Knows, Making, Stale
<1>6. OnItsBranch'
  BY DEF BeginListed, repo, OnItsBranch
<1> QED
  BY <1>1, <1>2, <1>3, <1>4, <1>5, <1>6

(* A call goes on to its next step and has only looked.                       *)
LEMMA MovedOnW ==
    ASSUME WorktreeInv, NEW c \in Callers, pc[c] # "adding",
           NEW step \in {"probe", "add", "run", "claude"}, Goto(c, step),
           UNCHANGED <<repo, branch, dir, created, history>>,
           exists' \in [Callers -> BOOLEAN],
           missed' \in [Callers -> SUBSET {"prune", "probe"}],
           \A e \in Callers \ {c} : exists'[e] = exists[e] /\ missed'[e] = missed[e],
           created[c] => step = "claude",
           step \in {"probe", "add"} => branch[c] # None,
           ~disturbed[c] => Knows(c)'
    PROVE  WorktreeInv'
<1> USE DEF WorktreeInv
<1>1. pc' = [pc EXCEPT ![c] = step]
  BY DEF Goto
<1>2. TypeOK'
  BY <1>1 DEF TypeOK, repo, history
<1>3. OneAdder'
  BY <1>1 DEF OneAdder, TypeOK
<1>4. HalfOwned'
  BY <1>1 DEF HalfOwned, Adding, TypeOK, repo, history
<1>5. CallInv(c)'
  BY <1>1 DEF CallInv, TypeOK, Making, history
<1>6. \A e \in Callers \ {c} : CallInv(e)'
  BY <1>1 DEF CallInv, Knows, TypeOK, repo, history, Stale
<1>7. OnItsBranch'
  BY DEF OnItsBranch, repo, history
<1> QED
  BY <1>2, <1>3, <1>4, <1>5, <1>6, <1>7

(* A call ends, and may leave a branch behind or an add that was cut off.     *)
LEMMA EndedW ==
    ASSUME WorktreeInv, NEW c \in Callers, Ends(c),
           UNCHANGED <<tree, record, main, switched>>,
           branches \subseteq branches', branches' \subseteq Branches,
           cut \subseteq cut', cut' \subseteq Dirs,
           pc[c] = "adding" => dir[c] \in cut',
           disturbed' \in [Callers -> BOOLEAN],
           \A e \in Callers : disturbed[e] => disturbed'[e],
           \A e \in Callers \ {c} : pc[e] = "idle" \/ disturbed'[e] \/ branches' = branches
    PROVE  WorktreeInv'
<1> USE DEF WorktreeInv
<1>1. /\ pc' = [pc EXCEPT ![c] = "idle"] /\ branch' = [branch EXCEPT ![c] = None]
      /\ exists' = [exists EXCEPT ![c] = FALSE] /\ created' = [created EXCEPT ![c] = FALSE]
      /\ missed' = [missed EXCEPT ![c] = {}] /\ dir' = dir
  BY EndsTyped
<1>2. TypeOK'
  BY <1>1 DEF TypeOK
<1>3. OneAdder'
  BY <1>1 DEF OneAdder, TypeOK
<1>4. HalfOwned'
  BY <1>1 DEF HalfOwned, Adding, TypeOK
<1>5. CallInv(c)'
  BY <1>1 DEF CallInv, Knows, TypeOK, Making
<1>6. \A e \in Callers \ {c} : CallInv(e)'
  <2> SUFFICES ASSUME NEW e \in Callers \ {c} PROVE CallInv(e)'
    OBVIOUS
  <2>1. /\ CallInv(e)
        /\ UNCHANGED <<pc[e], branch[e], dir[e], exists[e], created[e], missed[e]>>
    BY <1>1 DEF TypeOK
  <2>2. ASSUME ~disturbed'[e] PROVE Knows(e)'
    <3>1. CASE pc[e] = "idle"
      BY <2>1, <3>1 DEF Knows
    <3>2. CASE branches' = branches
      BY <2>1, <2>2, <3>2 DEF CallInv, Knows, Stale
    <3> QED
      BY <2>2, <3>1, <3>2
  <2> QED
    BY <2>1, <2>2 DEF CallInv
<1>7. OnItsBranch'
  BY DEF OnItsBranch
<1> QED
  BY <1>2, <1>3, <1>4, <1>5, <1>6, <1>7

LEMMA LookingW ==
    ASSUME WorktreeInv, NEW c \in Callers,
           Triage(c) \/ Probe(c) \/ ProbeFails(c) \/ RunClaude(c)
    PROVE  WorktreeInv'
<1>1. TypeOK /\ CallInv(c)
  BY DEF WorktreeInv
<1>2. ASSUME Ends(c), UNCHANGED <<repo, history>>, pc[c] # "adding" PROVE WorktreeInv'
  BY <1>1, <1>2, EndedW DEF repo, history, TypeOK
<1>3. CASE Triage(c)
  <2>1. pc[c] = "triage" /\ UNCHANGED <<repo, history>> /\ ~created[c] /\ branch[c] # None
    BY <1>1, <1>3 DEF Triage, TypeOK, CallInv, Making
  <2>2. CASE tree[dir[c]] = "absent"
    <3>1. Goto(c, "probe") /\ UNCHANGED call
      BY <1>3, <2>2 DEF Triage
    <3>2. Knows(c)' \/ disturbed[c]
      BY <1>1, <2>1, <2>2, <3>1 DEF Goto, call, repo, Knows, CallInv, TypeOK, Stale
    <3> QED
      BY <1>1, <2>1, <3>1, <3>2, MovedOnW DEF call, TypeOK
  <2>3. CASE tree[dir[c]] \in {"half", "whole"}
    <3>1. Goto(c, "run") /\ UNCHANGED call
      BY <1>3, <2>3 DEF Triage
    <3>2. Knows(c)' \/ disturbed[c]
      BY <1>1, <2>1, <2>3, <3>1 DEF Goto, call, repo, Knows, CallInv, TypeOK, Stale
    <3> QED
      BY <1>1, <2>1, <3>1, <3>2, MovedOnW DEF call, TypeOK
  <2>4. CASE tree[dir[c]] \in {"foreign", "bare"}
    <3>1. Ends(c)
      BY <1>3, <2>4 DEF Triage
    <3> QED
      BY <1>2, <2>1, <3>1
  <2> QED
    BY <1>1, <2>2, <2>3, <2>4 DEF TypeOK, Trees
<1>4. CASE Probe(c) \/ ProbeFails(c)
  <2>1. /\ pc[c] = "probe" /\ Goto(c, "add") /\ ~created[c] /\ branch[c] # None
        /\ UNCHANGED <<repo, branch, dir, created, history>>
    BY <1>1, <1>4 DEF Probe, ProbeFails, TypeOK, CallInv, Making
  <2>2. /\ exists' \in [Callers -> BOOLEAN]
        /\ missed' \in [Callers -> SUBSET {"prune", "probe"}]
        /\ \A e \in Callers \ {c} : exists'[e] = exists[e] /\ missed'[e] = missed[e]
        /\ missed[c] \subseteq missed'[c]
    <3>1. CASE Probe(c)
      BY <1>1, <3>1 DEF Probe, TypeOK
    <3>2. CASE ProbeFails(c)
      BY <1>1, <3>2 DEF ProbeFails, TypeOK
    <3> QED
      BY <1>4, <3>1, <3>2
  <2>3. ASSUME Probe(c) PROVE exists'[c] <=> branch[c] \in branches
    BY <1>1, <2>3 DEF Probe, TypeOK
  <2>4. ASSUME ProbeFails(c) PROVE branch[c] \in branches /\ "probe" \in missed'[c]
    BY <1>1, <2>4 DEF ProbeFails, TypeOK
  <2>5. Knows(c)' \/ disturbed[c]
    BY <1>1, <1>4, <2>1, <2>2, <2>3, <2>4 DEF Goto, repo, Knows, CallInv, TypeOK, Stale
  <2> QED
    BY <2>1, <2>2, <2>5, MovedOnW
<1>5. CASE RunClaude(c)
  <2>1. pc[c] = "run" /\ UNCHANGED <<repo, history>>
    BY <1>5 DEF RunClaude
  <2>2. CASE Goto(c, "claude") /\ UNCHANGED call
    <3>1. Knows(c)'
      BY <1>1, <2>2 DEF Goto, Knows, TypeOK
    <3> QED
      BY <1>1, <2>1, <2>2, <3>1, MovedOnW DEF call, TypeOK
  <2> QED
    BY <1>2, <1>5, <2>1, <2>2 DEF RunClaude
<1> QED
  BY <1>3, <1>4, <1>5

LEMMA EndingW ==
    ASSUME WorktreeInv, NEW c \in Callers, BadBase(c) \/ Answer(c) \/ AddFails(c) \/ CutOff(c)
    PROVE  WorktreeInv'
<1>1. TypeOK /\ CallInv(c)
  BY DEF WorktreeInv
<1>2. CASE BadBase(c) \/ Answer(c)
  BY <1>1, <1>2, EndedW DEF BadBase, Answer, repo, history, TypeOK
<1>3. CASE CutOff(c)
  BY <1>1, <1>3, EndedW DEF CutOff, repo, TypeOK
<1>4. CASE AddFails(c)
  <2>1. branch[c] \in Branches
    BY <1>1, <1>4 DEF AddFails, CallInv, Making, TypeOK
  <2>2. /\ branches \subseteq branches' /\ branches' \subseteq Branches
        /\ pc[c] = "add" /\ Ends(c) /\ UNCHANGED <<tree, record, main, cut, switched>>
    BY <1>1, <1>4, <2>1 DEF AddFails, TypeOK
  <2>3. CASE branches' = branches
    BY <1>1, <1>4, <2>2, <2>3, EndedW DEF AddFails, TypeOK
  <2>4. CASE branches' # branches
    <3>1. disturbed' = [x \in Callers |-> disturbed[x] \/ (x # c /\ pc[x] # "idle")]
      BY <1>4, <2>4 DEF AddFails, Disturbs
    <3>2. /\ disturbed' \in [Callers -> BOOLEAN]
          /\ \A e \in Callers : disturbed[e] => disturbed'[e]
          /\ \A e \in Callers \ {c} : pc[e] = "idle" \/ disturbed'[e]
      BY <1>1, <3>1 DEF TypeOK
    <3> QED
      BY <1>1, <2>2, <3>2, EndedW DEF TypeOK
  <2> QED
    BY <2>3, <2>4
<1> QED
  BY <1>2, <1>3, <1>4

(* A worktree goes on to be made: nobody else makes one there, and nobody who *)
(* is to use it minds.                                                        *)
LEMMA AddGoesOnW ==
    ASSUME WorktreeInv, NEW c \in Callers, AddGoesOn(c) PROVE WorktreeInv'
<1> USE DEF WorktreeInv
<1>1. /\ pc[c] = "adding" /\ tree[dir[c]] = "bare" /\ dir[c] \in Dirs
      /\ tree' = [tree EXCEPT ![dir[c]] = "half"]
      /\ UNCHANGED <<record, branches, main, pc, call, history>>
  BY DEF AddGoesOn, TypeOK
<1>2. TypeOK'
  BY <1>1 DEF TypeOK, Trees, call, history
<1>3. OneAdder'
  BY <1>1 DEF OneAdder, call
<1>4. HalfOwned'
  BY <1>1 DEF HalfOwned, Adding, call, history, TypeOK
<1>5. \A e \in Callers : CallInv(e)'
  BY <1>1 DEF CallInv, Knows, call, history, TypeOK, Stale
<1>6. OnItsBranch'
  BY <1>1 DEF OnItsBranch, history, TypeOK
<1> QED
  BY <1>2, <1>3, <1>4, <1>5, <1>6

LEMMA AddDoneW ==
    ASSUME WorktreeInv, NEW c \in Callers, AddDone(c) PROVE WorktreeInv'
<1> USE DEF WorktreeInv
<1>1. /\ pc[c] = "adding" /\ tree[dir[c]] = "half" /\ dir[c] \in Dirs
      /\ record[dir[c]] = [on |-> branch[c], locked |-> TRUE] /\ branch[c] # None
      /\ tree' = [tree EXCEPT ![dir[c]] = "whole"]
      /\ record' = [record EXCEPT ![dir[c]].locked = FALSE]
      /\ created' = [created EXCEPT ![c] = TRUE]
      /\ pc' = [pc EXCEPT ![c] = "run"]
      /\ UNCHANGED <<branches, main, branch, dir, exists, missed, disturbed, cut, switched>>
  BY DEF AddDone, TypeOK, Goto, history, CallInv, Making
<1>2. \A e \in Callers \ {c} : pc[e] = "adding" => dir[e] # dir[c]
  BY <1>1 DEF OneAdder
<1>3. record'[dir[c]].on = branch[c] /\ \A d \in Dirs : record'[d].on = record[d].on
  BY <1>1 DEF TypeOK, Entries
<1>4. TypeOK'
  <2>1. tree' \in [Dirs -> Trees] /\ record' \in [Dirs -> Entries]
    BY <1>1 DEF TypeOK, Trees, Entries
  <2> QED
    BY <1>1, <1>3, <2>1 DEF TypeOK
<1>5. OneAdder'
  BY <1>1 DEF OneAdder, TypeOK
<1>6. HalfOwned'
  BY <1>1 DEF HalfOwned, Adding, TypeOK
<1>7. CallInv(c)'
  BY <1>1, <1>3 DEF CallInv, Knows, TypeOK, Making
<1>8. \A e \in Callers \ {c} : CallInv(e)'
  <2>1. ASSUME NEW d \in Dirs, ~Stale(d) PROVE ~Stale(d)'
    BY <1>1, <2>1 DEF Stale, TypeOK
  <2> QED
    BY <1>1, <1>2, <1>3, <2>1 DEF CallInv, Knows, TypeOK, Making
<1>9. OnItsBranch'
  BY <1>1, <1>3 DEF OnItsBranch, TypeOK
<1> QED
  BY <1>4, <1>5, <1>6, <1>7, <1>8, <1>9

LEMMA AddBreaksW ==
    ASSUME WorktreeInv, NEW c \in Callers, AddBreaks(c) PROVE WorktreeInv'
<1> USE DEF WorktreeInv
<1>1. /\ pc[c] = "adding" /\ tree[dir[c]] \in {"absent", "foreign"} /\ dir[c] \in Dirs
      /\ record' = [record EXCEPT ![dir[c]] = NoEntry]
      /\ disturbed' = [x \in Callers |-> disturbed[x] \/ (x # c /\ pc[x] # "idle")]
      /\ Ends(c)
      /\ UNCHANGED <<tree, branches, main, cut, switched>>
  BY DEF AddBreaks, TypeOK, Disturbs
<1>2. \A e \in Callers \ {c} : pc[e] = "adding" => dir[e] # dir[c]
  BY <1>1 DEF OneAdder
<1>3. TypeOK'
  BY <1>1, EndsTyped DEF TypeOK, NoEntry, Entries
<1>4. OneAdder'
  BY <1>1, EndsTyped DEF OneAdder, TypeOK
<1>5. HalfOwned'
  BY <1>1, EndsTyped DEF HalfOwned, Adding, TypeOK
<1>6. CallInv(c)'
  BY <1>1, EndsTyped DEF CallInv, Knows, TypeOK, Making
<1>7. \A e \in Callers \ {c} : CallInv(e)'
  <2> SUFFICES ASSUME NEW e \in Callers \ {c} PROVE CallInv(e)'
    OBVIOUS
  <2>1. /\ CallInv(e)
        /\ UNCHANGED <<pc[e], branch[e], dir[e], exists[e], created[e], missed[e]>>
    BY <1>1, EndsTyped DEF TypeOK
  <2>2. pc[e] = "adding" => record'[dir[e]] = record[dir[e]] /\ tree'[dir[e]] = tree[dir[e]]
    BY <1>1, <1>2 DEF TypeOK
  <2>3. ASSUME ~disturbed'[e] PROVE Knows(e)' /\ ~disturbed[e]
    BY <1>1, <2>1, <2>3 DEF Knows
  <2> QED
    BY <2>1, <2>2, <2>3 DEF CallInv
<1>8. OnItsBranch'
  BY <1>1 DEF OnItsBranch, TypeOK
<1> QED
  BY <1>3, <1>4, <1>5, <1>6, <1>7, <1>8

(* What the user does is seen by every call under way.                        *)
LEMMA UserW ==
    ASSUME WorktreeInv,
           \/ \E d \in Dirs : Delete(d) \/ Clutter(d)
           \/ \E b \in Branches : DeleteBranch(b)
           \/ \E d \in Dirs, b \in Branches : Switch(d, b)
    PROVE  WorktreeInv'
<1> USE DEF WorktreeInv
<1>1. /\ UNCHANGED <<main, pc, call>>
      /\ disturbed' = [x \in Callers |-> disturbed[x] \/ pc[x] # "idle"]
  BY DEF Delete, Clutter, DeleteBranch, Switch, DisturbsAll
<1>2. /\ tree' \in [Dirs -> Trees] /\ cut' \subseteq Dirs /\ switched' \subseteq Dirs
      /\ \A d \in Dirs : tree'[d] \notin {"absent", "foreign"} => tree'[d] = tree[d]
      /\ \A d \in Dirs : tree'[d] = "half" /\ d \in cut => d \in cut'
  BY DEF Delete, Clutter, DeleteBranch, Switch, TypeOK, Trees
<1>3. /\ branches' \subseteq branches /\ main \in branches'
      /\ record' \in [Dirs -> Entries]
      /\ \A d \in Dirs : record'[d].on \in branches' \cup {None}
      /\ \A d \in Dirs : record'[d] = record[d] \/ tree[d] = "whole"
  <2>1. CASE \E d \in Dirs, b \in Branches : Switch(d, b)
    BY <2>1 DEF Switch, TypeOK, Entries
  <2>2. CASE \/ \E d \in Dirs : Delete(d) \/ Clutter(d)
             \/ \E b \in Branches : DeleteBranch(b)
    BY <2>2 DEF Delete, Clutter, DeleteBranch, TypeOK, Taken
  <2> QED
    BY <2>1, <2>2
<1>4. TypeOK'
  BY <1>1, <1>2, <1>3 DEF TypeOK, call
<1>5. OneAdder'
  BY <1>1 DEF OneAdder, call
<1>6. HalfOwned'
  BY <1>1, <1>2 DEF HalfOwned, Adding, call
<1>7. \A e \in Callers : CallInv(e)'
  <2> SUFFICES ASSUME NEW e \in Callers PROVE CallInv(e)'
    OBVIOUS
  <2>1. CallInv(e) /\ dir[e] \in Dirs
    BY DEF TypeOK
  <2>2. pc[e] = "idle" \/ disturbed'[e]
    BY <1>1
  <2>3. tree[dir[e]] # "whole" => tree'[dir[e]] # "whole" /\ record'[dir[e]] = record[dir[e]]
    BY <1>2, <1>3, <2>1
  <2>4. CASE pc[e] = "idle"
    BY <1>1, <2>1, <2>4 DEF CallInv, Knows, call, Making
  <2>5. CASE disturbed'[e]
    BY <1>1, <2>1, <2>3, <2>5 DEF CallInv, call
  <2> QED
    BY <2>2, <2>4, <2>5
<1>8. OnItsBranch'
  <2>1. ASSUME NEW d \in Dirs, NEW b \in Branches, Switch(d, b) PROVE OnItsBranch'
    <3>1. /\ record' = [record EXCEPT ![d].on = b] /\ b # None
          /\ tree' = tree /\ switched' = switched \cup {d}
      BY <2>1 DEF Switch
    <3>2. record'[d].on = b /\ \A f \in Dirs \ {d} : record'[f] = record[f]
      BY <3>1 DEF TypeOK, Entries
    <3> QED
      BY <3>1, <3>2 DEF OnItsBranch
  <2>2. ASSUME NEW d \in Dirs, Delete(d) PROVE OnItsBranch'
    BY <2>2 DEF Delete, OnItsBranch, TypeOK
  <2>3. ASSUME NEW d \in Dirs, Clutter(d) PROVE OnItsBranch'
    BY <2>3 DEF Clutter, OnItsBranch, TypeOK
  <2>4. ASSUME NEW b \in Branches, DeleteBranch(b) PROVE OnItsBranch'
    BY <2>4 DEF DeleteBranch, OnItsBranch
  <2> QED
    BY <2>1, <2>2, <2>3, <2>4
<1> QED
  BY <1>4, <1>5, <1>6, <1>7, <1>8

LEMMA NextWorktrees == WorktreeInv /\ [Next]_vars => WorktreeInv'
<1> SUFFICES ASSUME WorktreeInv, [Next]_vars PROVE WorktreeInv'
  OBVIOUS
<1>1. ASSUME NEW c \in Callers, Step(c) PROVE WorktreeInv'
  BY <1>1, PruneW, LookingW, EndingW, AddW, AddGoesOnW, AddDoneW, AddBreaksW DEF Step
<1>2. ASSUME NEW c \in Callers, NEW b \in Branches, Begin(c, b) PROVE WorktreeInv'
  BY <1>2, BeginW
<1>3. ASSUME NEW c \in Callers, NEW d \in Dirs, BeginListed(c, d) PROVE WorktreeInv'
  BY <1>3, BeginListedW
<1>4. CASE \/ \E d \in Dirs : Delete(d) \/ Clutter(d)
           \/ \E b \in Branches : DeleteBranch(b)
           \/ \E d \in Dirs, b \in Branches : Switch(d, b)
  BY <1>4, UserW
<1>5. CASE UNCHANGED vars
  BY <1>5 DEF vars, WorktreeInv, TypeOK, OneAdder, HalfOwned, OnItsBranch, Adding, CallInv,
              Knows, Stale, repo, call, history
<1> QED
  BY <1>1, <1>2, <1>3, <1>4, <1>5 DEF Next

(* Calls, directories and git's records keep their types: a record names a    *)
(* branch there is, and a result is told to have made a worktree only once    *)
(* its call runs claude (dispatch.go:38-61, 158-197).                         *)
THEOREM DispatchTypeCorrect == Spec => []TypeOK
  BY InitWorktrees, NextWorktrees, PTL DEF Spec, WorktreeInv

(* Unless the user or another dispatch has been at work meanwhile, claude is  *)
(* started in a worktree that is whole, or half while an add is at work in it *)
(* or where one was cut off; and on the branch that was asked for if this     *)
(* call has made it, or if no other branch shares its directory and nobody    *)
(* has switched it: for any number of dispatches, branches and directories,   *)
(* and any slugs (dispatch.go:153-157, 168-177, 193-197).                     *)
THEOREM RunsWhereItShould == Spec => []RunsInWorktree
<1>1. WorktreeInv => RunsInWorktree
  <2> SUFFICES ASSUME WorktreeInv, NEW c \in Callers, pc[c] = "run", ~disturbed[c]
               PROVE  LET d     == dir[c]
                          alone == \A b \in Branches : SlugForBranch[b] = d => b = branch[c]
                      IN  /\ \/ tree[d] = "whole"
                             \/ ~created[c] /\ tree[d] = "half" /\ (Adding(d) \/ d \in cut)
                          /\ created[c] \/ (alone /\ d \notin switched)
                                => record[d].on = branch[c]
    BY DEF RunsInWorktree
  <2>1. Knows(c) /\ dir[c] \in Dirs /\ tree[dir[c]] \in {"half", "whole"}
    BY DEF WorktreeInv, CallInv, Knows, TypeOK
  <2>2. tree[dir[c]] = "half" => ~created[c] /\ (Adding(dir[c]) \/ dir[c] \in cut)
    BY <2>1 DEF WorktreeInv, HalfOwned, Knows
  <2>3. /\ record[dir[c]].on \in Branches
        /\ dir[c] \in switched \/ SlugForBranch[record[dir[c]].on] = dir[c]
    BY <2>1 DEF WorktreeInv, OnItsBranch, TypeOK, Entries
  <2> QED
    BY <2>1, <2>2, <2>3 DEF Knows
<1> QED
  BY <1>1, InitWorktrees, NextWorktrees, PTL DEF Spec

(* An undisturbed dispatch is refused its worktree for one of four causes:    *)
(* its branch is in use, a killed git has left a locked entry at its path, or *)
(* its own prune or show-ref has failed and the stale entry, or the branch,   *)
(* is there (dispatch.go:159, 183-197).                                       *)
THEOREM RefusalsHaveACause == Spec => []RefusedForCause
<1>1. WorktreeInv => RefusedForCause
  <2> SUFFICES ASSUME WorktreeInv, NEW c \in Callers, pc[c] = "add", ~disturbed[c], ~CanAdd(c),
                      ~InUse(branch[c]), ~record[dir[c]].locked,
                      ~("probe" \in missed[c] /\ branch[c] \in branches)
               PROVE  /\ "prune" \in missed[c]
                      /\ \E d \in Dirs : Stale(d) /\ (d = dir[c] \/ record[d].on = branch[c])
    BY DEF RefusedForCause
  <2>1. Knows(c) /\ dir[c] \in Dirs /\ branch[c] # None
    BY DEF WorktreeInv, CallInv, Making, TypeOK
  <2>2. tree[dir[c]] = "absent" /\ (exists[c] <=> branch[c] \in branches)
    BY <2>1 DEF Knows
  <2>3. record[dir[c]] # NoEntry \/ Taken(branch[c])
    BY <2>2 DEF CanAdd
  <2>4. PICK d \in Dirs : Stale(d) /\ (d = dir[c] \/ record[d].on = branch[c])
    BY <2>1, <2>2, <2>3 DEF Stale, Taken, InUse
  <2> QED
    BY <2>1, <2>4 DEF Knows
<1> QED
  BY <1>1, InitWorktrees, NextWorktrees, PTL DEF Spec

=============================================================================
