----------------------------- MODULE ScanProofs -----------------------------
(***************************************************************************)
(* Proofs about Scan, for every set of panes, claudes, directories and     *)
(* worktrees: the types, that no pane and no session is shown twice, that  *)
(* a session is shown in its innermost worktree, that a claude in a pane   *)
(* is not missed and that an interactive session owns its pane.            *)
(*                                                                         *)
(* The first parts are about the operators of Correlate alone: what        *)
(* choosing, claiming and walking give, by induction over their turns.     *)
(***************************************************************************)
EXTENDS Scan, SequenceTheorems, FiniteSetTheorems, WellFoundedInduction, TLAPS

-----------------------------------------------------------------------------
(* Sequences of which some elements are kept. *)

(* The order of the naturals as a set of pairs. *)
Less == {p \in Nat \X Nat : p[1] < p[2]}

(* A set of naturals that is not empty has a least one. *)
LEMMA HasLeast ==
    ASSUME NEW S \in SUBSET Nat, S # {}
    PROVE  \E i \in S : \A j \in S : i <= j
<1>1. IsWellFoundedOn(Less, Nat)
  BY NatLessThanWellFounded DEF Less, OpToRel
<1>2. PICK i \in S : \A j \in S : ~ (<<j, i>> \in Less)
  BY <1>1, WFMin
<1>3. \A j \in S : ~ (j < i)
  BY <1>2 DEF Less
<1> QED
  BY <1>3

(* Induction over the naturals, for a set instead of a predicate: the provers *)
(* find the set to take, where they cannot find the operator that the         *)
(* library's theorems of induction are about.                                 *)
LEMMA Induct ==
    ASSUME NEW S, 0 \in S, \A n \in Nat : n \in S => n + 1 \in S
    PROVE  Nat \subseteq S
<1> SUFFICES ASSUME Nat \ S # {} PROVE FALSE
  OBVIOUS
<1>1. PICK i \in Nat \ S : \A j \in Nat \ S : i <= j
  BY HasLeast
<1>2. i # 0 /\ i - 1 \in Nat /\ i - 1 \in S
  BY <1>1
<1> QED
  BY <1>1, <1>2

(* One more element of q: kept or left out. *)
Kept(q, T, i, w) == IF q[i] \in T THEN Append(w, q[i]) ELSE w

(* f[i] is Those of the first i elements of q. *)
Keeps(q, T, n, f) == f = [i \in 0..n |-> IF i = 0 THEN <<>> ELSE Kept(q, T, i, f[i - 1])]

(* There is a function that the recursive definition of Those is of. *)
LEMMA ThoseExist ==
    ASSUME NEW q, NEW T, NEW n \in Nat
    PROVE  \E f : Keeps(q, T, n, f)
<1> DEFINE D == {m \in Nat : \E f : Keeps(q, T, m, f)}
<1>1. 0 \in D
  <2>1. Keeps(q, T, 0, [i \in 0..0 |-> <<>>])
    BY DEF Keeps
  <2> QED
    BY <2>1
<1>2. ASSUME NEW m \in Nat, m \in D PROVE m + 1 \in D
  <2>1. PICK f : Keeps(q, T, m, f)
    BY <1>2
  <2> DEFINE g == [i \in 0..(m + 1) |-> IF i \in 0..m THEN f[i] ELSE Kept(q, T, i, f[i - 1])]
  <2>2. \A i \in 0..(m + 1) : i # 0 => i - 1 \in 0..m /\ g[i - 1] = f[i - 1]
    OBVIOUS
  <2>3. \A i \in 0..m : f[i] = IF i = 0 THEN <<>> ELSE Kept(q, T, i, f[i - 1])
    BY <2>1 DEF Keeps
  <2>4. \A i \in 0..(m + 1) : g[i] = IF i = 0 THEN <<>> ELSE Kept(q, T, i, g[i - 1])
    BY <2>2, <2>3
  <2>5. g = [i \in 0..(m + 1) |-> g[i]]
    OBVIOUS
  <2>6. g = [i \in 0..(m + 1) |-> IF i = 0 THEN <<>> ELSE Kept(q, T, i, g[i - 1])]
    BY <2>4, <2>5, Zenon
  <2>7. Keeps(q, T, m + 1, g)
    BY <2>6 DEF Keeps
  <2> QED
    BY <2>7
<1> HIDE DEF D
<1>3. Nat \subseteq D
  BY <1>1, <1>2, Induct
<1> QED
  BY <1>3 DEF D

(* Those is the last value of such a function. *)
LEMMA ThoseUnfolds ==
    ASSUME NEW q, NEW T, Len(q) \in Nat
    PROVE  \E f : Keeps(q, T, Len(q), f) /\ Those(q, T) = f[Len(q)]
<1> DEFINE f == CHOOSE f : Keeps(q, T, Len(q), f)
<1>1. Keeps(q, T, Len(q), f)
  BY ThoseExist, Zenon
<1>2. Those(q, T) = f[Len(q)]
  BY Zenon DEF Those, Keeps, Kept
<1> QED
  BY <1>1, <1>2, Zenon

(* What appending does to the elements of a sequence, and to one without      *)
(* repetitions.                                                               *)
LEMMA KeptAppends ==
    ASSUME NEW S, NEW w \in Seq(S), NEW x \in S
    PROVE  /\ Append(w, x) \in Seq(S)
           /\ ToSet(Append(w, x)) = ToSet(w) \cup {x}
           /\ IsInjective(w) /\ x \notin ToSet(w) => IsInjective(Append(w, x))
<1> DEFINE v == Append(w, x)
<1>1. /\ DOMAIN w = 1..Len(w) /\ Len(w) \in Nat
      /\ v \in Seq(S) /\ DOMAIN v = 1..(Len(w) + 1)
      /\ \A i \in 1..Len(w) : v[i] = w[i]
      /\ v[Len(w) + 1] = x
  OBVIOUS
<1> HIDE DEF v
<1>2. ToSet(v) = ToSet(w) \cup {x}
  <2>1. \A i \in DOMAIN v : i \in DOMAIN w \/ i = Len(w) + 1
    BY <1>1
  <2>2. ToSet(v) \subseteq ToSet(w) \cup {x}
    BY <2>1, <1>1 DEF ToSet
  <2>3. DOMAIN w \subseteq DOMAIN v /\ Len(w) + 1 \in DOMAIN v
    BY <1>1
  <2>4. ToSet(w) \cup {x} \subseteq ToSet(v)
    BY <2>3, <1>1 DEF ToSet
  <2> QED
    BY <2>2, <2>4
<1>3. ASSUME IsInjective(w), x \notin ToSet(w) PROVE IsInjective(v)
  <2> SUFFICES ASSUME NEW i \in DOMAIN v, NEW j \in DOMAIN v, v[i] = v[j] PROVE i = j
    BY DEF IsInjective
  <2>1. CASE i \in DOMAIN w /\ j \in DOMAIN w
    BY <2>1, <1>1, <1>3 DEF IsInjective
  <2>2. CASE i \in DOMAIN w /\ j = Len(w) + 1
    BY <2>2, <1>1, <1>3 DEF ToSet
  <2>3. CASE j \in DOMAIN w /\ i = Len(w) + 1
    BY <2>3, <1>1, <1>3 DEF ToSet
  <2> QED
    BY <2>1, <2>2, <2>3, <1>1
<1> QED
  BY <1>1, <1>2, <1>3 DEF v

(* Those(q, T) are the elements of q in T, without repetitions if q has none. *)
LEMMA ThoseOf ==
    ASSUME NEW S, NEW q \in Seq(S), NEW T
    PROVE  /\ Those(q, T) \in Seq(S)
           /\ ToSet(Those(q, T)) = ToSet(q) \cap T
           /\ IsInjective(q) => IsInjective(Those(q, T))
<1>1. DOMAIN q = 1..Len(q) /\ Len(q) \in Nat
  OBVIOUS
<1>2. PICK f : Keeps(q, T, Len(q), f) /\ Those(q, T) = f[Len(q)]
  BY <1>1, ThoseUnfolds
<1>3. f[0] = <<>> /\ \A i \in 1..Len(q) : f[i] = Kept(q, T, i, f[i - 1])
  BY <1>1, <1>2 DEF Keeps
<1> DEFINE First(m) == {q[i] : i \in 1..m} \cap T
           D == {m \in Nat : m <= Len(q) =>
                    /\ f[m] \in Seq(S) /\ ToSet(f[m]) = First(m)
                    /\ IsInjective(q) => IsInjective(f[m])}
<1>4. 0 \in D
  <2>1. DOMAIN f[0] = {} /\ f[0] \in Seq(S) /\ First(0) = {}
    BY <1>3
  <2>2. ToSet(f[0]) = {} /\ IsInjective(f[0])
    BY <2>1 DEF ToSet, IsInjective
  <2> QED
    BY <2>1, <2>2
<1>5. ASSUME NEW m \in Nat, m \in D PROVE m + 1 \in D
  <2> SUFFICES ASSUME m + 1 <= Len(q)
               PROVE  /\ f[m + 1] \in Seq(S) /\ ToSet(f[m + 1]) = First(m + 1)
                      /\ IsInjective(q) => IsInjective(f[m + 1])
    OBVIOUS
  <2> DEFINE x == q[m + 1]
  <2>1. /\ f[m] \in Seq(S) /\ ToSet(f[m]) = First(m)
        /\ IsInjective(q) => IsInjective(f[m])
    BY <1>5
  <2>2. m + 1 \in 1..Len(q) /\ x \in S
    BY <1>1
  <2>3. f[m + 1] = IF x \in T THEN Append(f[m], x) ELSE f[m]
    BY <1>3, <2>2 DEF Kept
  <2>4. {q[i] : i \in 1..(m + 1)} = {q[i] : i \in 1..m} \cup {x}
    <3>1. 1..(m + 1) = (1..m) \cup {m + 1}
      OBVIOUS
    <3> QED
      BY <3>1
  <2>5. IsInjective(q) => x \notin First(m)
    BY <1>1, <2>2 DEF IsInjective
  <2> HIDE DEF x
  <2>6. CASE x \in T
    <3>1. First(m + 1) = First(m) \cup {x}
      BY <2>4, <2>6
    <3> QED
      BY <3>1, <2>1, <2>2, <2>3, <2>5, <2>6, KeptAppends
  <2>7. CASE x \notin T
    BY <2>1, <2>3, <2>4, <2>7
  <2> QED
    BY <2>6, <2>7
<1> HIDE DEF D
<1>6. Nat \subseteq D
  BY <1>4, <1>5, Induct
<1>7. ToSet(q) = {q[i] : i \in 1..Len(q)}
  BY <1>1 DEF ToSet
<1>8. Len(q) \in D
  BY <1>1, <1>6
<1> QED
  BY <1>2, <1>7, <1>8 DEF D

-----------------------------------------------------------------------------
(* Panes are claimed in turn. *)

(* The panes that a may have. *)
Mine(a, P, T, claimed) ==
    {p \in ToSet(P) : p.pid # NoPid /\ p.id \notin claimed /\ ContainsPID(T, p.pid, a.pid)}

(* A claim is the pane of one of them, and there is one if they are any       *)
(* (correlate.go:88-101).                                                     *)
LEMMA ClaimOf ==
    ASSUME NEW S, NEW P \in Seq(S), NEW a, NEW T, NEW claimed
    PROVE  IF a.pid = NoPid \/ Mine(a, P, T, claimed) = {} THEN Claim(a, P, T, claimed) = NoPane
           ELSE \E p \in Mine(a, P, T, claimed) : Claim(a, P, T, claimed) = p.id
<1> DEFINE mine == Mine(a, P, T, claimed)
           first == Those(P, mine)
<1>1. Claim(a, P, T, claimed) = IF a.pid = NoPid \/ first = <<>> THEN NoPane ELSE Head(first).id
  BY DEF Claim, Mine
<1>2. mine \subseteq ToSet(P)
  BY DEF Mine
<1> HIDE DEF mine
<1>3. first \in Seq(S) /\ ToSet(first) = mine
  <2>1. first \in Seq(S) /\ ToSet(first) = ToSet(P) \cap mine
    BY ThoseOf
  <2> QED
    BY <1>2, <2>1
<1> HIDE DEF first
<1>4. CASE first = <<>>
  <2>1. mine = {}
    BY <1>3, <1>4 DEF ToSet
  <2> QED
    BY <1>1, <1>4, <2>1 DEF mine
<1>5. CASE first # <<>>
  <2>1. 1 \in DOMAIN first /\ Head(first) = first[1]
    BY <1>3, <1>5
  <2>2. Head(first) \in mine
    BY <1>3, <2>1 DEF ToSet
  <2> QED
    BY <1>1, <1>5, <2>2 DEF mine
<1> QED
  BY <1>4, <1>5

(* One more agent claims, after what the others have claimed. *)
Claimed(A, P, T, i, w) == Append(w, Claim(A[i], P, T, ToSet(w)))

(* f[i] is what the first i agents have claimed. *)
ClaimsInTurn(A, P, T, n, f) == f = [i \in 0..n |-> IF i = 0 THEN <<>> ELSE Claimed(A, P, T, i, f[i - 1])]

(* There is a function that the recursive definition of Claims is of. *)
LEMMA ClaimsExist ==
    ASSUME NEW A, NEW P, NEW T, NEW n \in Nat
    PROVE  \E f : ClaimsInTurn(A, P, T, n, f)
<1> DEFINE D == {m \in Nat : \E f : ClaimsInTurn(A, P, T, m, f)}
<1>1. 0 \in D
  <2>1. ClaimsInTurn(A, P, T, 0, [i \in 0..0 |-> <<>>])
    BY DEF ClaimsInTurn
  <2> QED
    BY <2>1
<1>2. ASSUME NEW m \in Nat, m \in D PROVE m + 1 \in D
  <2>1. PICK f : ClaimsInTurn(A, P, T, m, f)
    BY <1>2
  <2> DEFINE g == [i \in 0..(m + 1) |-> IF i \in 0..m THEN f[i] ELSE Claimed(A, P, T, i, f[i - 1])]
  <2>2. \A i \in 0..(m + 1) : i # 0 => i - 1 \in 0..m /\ g[i - 1] = f[i - 1]
    OBVIOUS
  <2>3. \A i \in 0..m : f[i] = IF i = 0 THEN <<>> ELSE Claimed(A, P, T, i, f[i - 1])
    BY <2>1 DEF ClaimsInTurn
  <2>4. \A i \in 0..(m + 1) : g[i] = IF i = 0 THEN <<>> ELSE Claimed(A, P, T, i, g[i - 1])
    BY <2>2, <2>3
  <2>5. g = [i \in 0..(m + 1) |-> g[i]]
    OBVIOUS
  <2>6. g = [i \in 0..(m + 1) |-> IF i = 0 THEN <<>> ELSE Claimed(A, P, T, i, g[i - 1])]
    BY <2>4, <2>5, Zenon
  <2>7. ClaimsInTurn(A, P, T, m + 1, g)
    BY <2>6 DEF ClaimsInTurn
  <2> QED
    BY <2>7
<1> HIDE DEF D
<1>3. Nat \subseteq D
  BY <1>1, <1>2, Induct
<1> QED
  BY <1>3 DEF D

(* Claims is the last value of such a function. *)
LEMMA ClaimsUnfold ==
    ASSUME NEW A, NEW P, NEW T, Len(A) \in Nat
    PROVE  \E f : ClaimsInTurn(A, P, T, Len(A), f) /\ Claims(A, P, T) = f[Len(A)]
<1> DEFINE f == CHOOSE f : ClaimsInTurn(A, P, T, Len(A), f)
<1>1. ClaimsInTurn(A, P, T, Len(A), f)
  BY ClaimsExist, Zenon
<1>2. Claims(A, P, T) = f[Len(A)]
  BY Zenon DEF Claims, ClaimsInTurn, Claimed
<1> QED
  BY <1>1, <1>2, Zenon

(* What has been claimed before the turn of agent i. *)
Before(w, i) == {w[k] : k \in 1..(i - 1)}

(* The first m of w are the claims of the first m agents. *)
ClaimedUpTo(A, P, T, m, w) == \A i \in 1..m : w[i] = Claim(A[i], P, T, Before(w, i))

(* Each agent's claim is made after, and knowing, those of the agents before  *)
(* it (correlate.go:88-101).                                                  *)
LEMMA ClaimsOf ==
    ASSUME NEW S, NEW A \in Seq(S), NEW R, NEW P \in Seq(R), NEW T
    PROVE  /\ DOMAIN Claims(A, P, T) = DOMAIN A
           /\ ClaimedUpTo(A, P, T, Len(A), Claims(A, P, T))
<1> DEFINE V == {p.id : p \in R} \cup {NoPane}
<1>1. DOMAIN A = 1..Len(A) /\ Len(A) \in Nat
  OBVIOUS
<1>2. PICK f : ClaimsInTurn(A, P, T, Len(A), f) /\ Claims(A, P, T) = f[Len(A)]
  BY <1>1, ClaimsUnfold
<1>3. f[0] = <<>> /\ \A i \in 1..Len(A) : f[i] = Claimed(A, P, T, i, f[i - 1])
  BY <1>1, <1>2 DEF ClaimsInTurn
<1>4. \A a, c : Claim(a, P, T, c) \in V
  <2> SUFFICES ASSUME NEW a, NEW c PROVE Claim(a, P, T, c) \in V
    OBVIOUS
  <2>1. Claim(a, P, T, c) = NoPane \/ \E p \in ToSet(P) : Claim(a, P, T, c) = p.id
    BY ClaimOf DEF Mine
  <2>2. ToSet(P) \subseteq R
    BY DEF ToSet
  <2> QED
    BY <2>1, <2>2
<1> HIDE DEF V
<1> DEFINE Good(m) == f[m] \in Seq(V) /\ Len(f[m]) = m /\ ClaimedUpTo(A, P, T, m, f[m])
           D == {m \in Nat : m <= Len(A) => Good(m)}
<1>5. 0 \in D
  <2>1. f[0] \in Seq(V) /\ Len(f[0]) = 0
    BY <1>3
  <2>2. ClaimedUpTo(A, P, T, 0, f[0])
    BY DEF ClaimedUpTo
  <2> QED
    BY <2>1, <2>2
<1>6. ASSUME NEW m \in Nat, m \in D PROVE m + 1 \in D
  <2> SUFFICES ASSUME m + 1 <= Len(A) PROVE Good(m + 1)
    OBVIOUS
  <2> DEFINE w == f[m]
             x == Claim(A[m + 1], P, T, ToSet(w))
             v == Append(w, x)
  <2>1. w \in Seq(V) /\ Len(w) = m /\ ClaimedUpTo(A, P, T, m, w)
    <3>1. m <= Len(A)
      BY <1>1
    <3> QED
      BY <1>6, <3>1
  <2>2. f[m + 1] = v
    BY <1>1, <1>3 DEF Claimed
  <2>3. x \in V
    BY <1>4
  <2>4. ToSet(w) = Before(w, m + 1)
    BY <2>1 DEF ToSet, Before
  <2> HIDE DEF x, w
  <2>5. v \in Seq(V) /\ Len(v) = m + 1 /\ v[m + 1] = x /\ \A k \in 1..m : v[k] = w[k]
    BY <2>1, <2>3
  <2> HIDE DEF v
  <2>6. ASSUME NEW i \in 1..(m + 1) PROVE Before(v, i) = Before(w, i)
    <3>1. \A k \in 1..(i - 1) : v[k] = w[k]
      BY <2>5
    <3> QED
      BY <3>1 DEF Before
  <2>7. x = Claim(A[m + 1], P, T, Before(v, m + 1))
    BY <2>4, <2>6 DEF x
  <2>8. ASSUME NEW i \in 1..(m + 1) PROVE v[i] = Claim(A[i], P, T, Before(v, i))
    <3>1. CASE i = m + 1
      BY <3>1, <2>5, <2>7
    <3>2. CASE i # m + 1
      <4>1. i \in 1..m
        BY <3>2
      <4>2. w[i] = Claim(A[i], P, T, Before(w, i))
        BY <2>1, <4>1 DEF ClaimedUpTo
      <4> QED
        BY <4>1, <4>2, <2>5, <2>6
    <3> QED
      BY <3>1, <3>2
  <2> QED
    BY <2>2, <2>5, <2>8 DEF ClaimedUpTo
<1> HIDE DEF D
<1>7. Nat \subseteq D
  BY <1>5, <1>6, Induct
<1>8. Good(Len(A))
  BY <1>1, <1>7 DEF D
<1> QED
  BY <1>1, <1>2, <1>8

-----------------------------------------------------------------------------
(* The walk over the process table, turn by turn. *)

(* The walk before its first turn. *)
Start(root) == [stack |-> <<root>>, order |-> <<>>]

(* f[i] is the walk after i turns. *)
Turns(T, root, n, f) == f = [i \in 0..n |-> IF i = 0 THEN Start(root) ELSE Turn(T, f[i - 1])]

(* There is a function that the recursive definition of Walk is of. *)
LEMMA TurnsExist ==
    ASSUME NEW T, NEW root, NEW n \in Nat
    PROVE  \E f : Turns(T, root, n, f)
<1> DEFINE D == {m \in Nat : \E f : Turns(T, root, m, f)}
<1>1. 0 \in D
  <2>1. Turns(T, root, 0, [i \in 0..0 |-> Start(root)])
    BY DEF Turns
  <2> QED
    BY <2>1
<1>2. ASSUME NEW m \in Nat, m \in D PROVE m + 1 \in D
  <2>1. PICK f : Turns(T, root, m, f)
    BY <1>2
  <2> DEFINE g == [i \in 0..(m + 1) |-> IF i \in 0..m THEN f[i] ELSE Turn(T, f[i - 1])]
  <2>2. \A i \in 0..(m + 1) : i # 0 => i - 1 \in 0..m /\ g[i - 1] = f[i - 1]
    OBVIOUS
  <2>3. \A i \in 0..m : f[i] = IF i = 0 THEN Start(root) ELSE Turn(T, f[i - 1])
    BY <2>1 DEF Turns
  <2>4. \A i \in 0..(m + 1) : g[i] = IF i = 0 THEN Start(root) ELSE Turn(T, g[i - 1])
    BY <2>2, <2>3
  <2>5. g = [i \in 0..(m + 1) |-> g[i]]
    OBVIOUS
  <2>6. g = [i \in 0..(m + 1) |-> IF i = 0 THEN Start(root) ELSE Turn(T, g[i - 1])]
    BY <2>4, <2>5, Zenon
  <2>7. Turns(T, root, m + 1, g)
    BY <2>6 DEF Turns
  <2> QED
    BY <2>7
<1> HIDE DEF D
<1>3. Nat \subseteq D
  BY <1>1, <1>2, Induct
<1> QED
  BY <1>3 DEF D

(* Walk is what has been noted after the last turn. *)
LEMMA WalkUnfolds ==
    ASSUME NEW T, NEW root, Len(T) \in Nat
    PROVE  \E f : /\ f[0] = Start(root) /\ \A i \in 1..(Len(T) + 1) : f[i] = Turn(T, f[i - 1])
                  /\ Walk(T, root) = f[Len(T) + 1].order
<1> DEFINE f == CHOOSE f : Turns(T, root, Len(T) + 1, f)
<1>1. Turns(T, root, Len(T) + 1, f)
  BY TurnsExist, Len(T) + 1 \in Nat, Zenon
<1>2. Walk(T, root) = f[Len(T) + 1].order
  BY Zenon DEF Walk, Turns, Start
<1> HIDE DEF f
<1>3. f[0] = Start(root) /\ \A i \in 1..(Len(T) + 1) : f[i] = Turn(T, f[i - 1])
  BY <1>1 DEF Turns
<1> QED
  BY <1>2, <1>3

(* The processes right below one. *)
PidsBelow(T, pid) == {r.pid : r \in {s \in ToSet(T) : s.ppid = pid}}

(* Children(T, pid) are the processes right below pid, each once if no        *)
(* process is in the table twice.                                             *)
LEMMA ChildrenOf ==
    ASSUME NEW R, NEW T \in Seq(R), NEW pid, NEW X, PidsBelow(T, pid) \subseteq X
    PROVE  /\ Children(T, pid) \in Seq(X)
           /\ ToSet(Children(T, pid)) = PidsBelow(T, pid)
           /\ (\A i, j \in DOMAIN T : T[i].pid = T[j].pid => i = j) => IsInjective(Children(T, pid))
<1> DEFINE those == {s \in ToSet(T) : s.ppid = pid}
           below == Those(T, those)
           kids  == [i \in DOMAIN below |-> below[i].pid]
<1>1. Children(T, pid) = kids
  BY DEF Children
<1>2. /\ below \in Seq(R) /\ ToSet(below) = ToSet(T) \cap those
      /\ IsInjective(T) => IsInjective(below)
  BY ThoseOf
<1>3. ToSet(below) = those
  BY <1>2
<1>4. PidsBelow(T, pid) = {r.pid : r \in those}
  BY DEF PidsBelow
<1> HIDE DEF those, below
<1>5. DOMAIN below = 1..Len(below) /\ Len(below) \in Nat
  BY <1>2
<1>6. \A i \in DOMAIN below : below[i] \in those
  BY <1>3 DEF ToSet
<1>7. kids \in Seq(X)
  BY <1>4, <1>5, <1>6
<1>8. ToSet(kids) = {r.pid : r \in those}
  <2>1. \A r \in those : \E i \in DOMAIN below : r = below[i]
    BY <1>3 DEF ToSet
  <2> QED
    BY <2>1, <1>6 DEF ToSet
<1>9. ASSUME \A i, j \in DOMAIN T : T[i].pid = T[j].pid => i = j
      PROVE  IsInjective(kids)
  <2>1. IsInjective(T)
    BY <1>9 DEF IsInjective
  <2>2. ASSUME NEW i \in DOMAIN kids, NEW j \in DOMAIN kids, kids[i] = kids[j] PROVE i = j
    <3>1. below[i] \in ToSet(T) /\ below[j] \in ToSet(T) /\ below[i].pid = below[j].pid
      BY <2>2, <1>6 DEF those
    <3>2. below[i] = below[j]
      BY <3>1, <1>9 DEF ToSet
    <3> QED
      BY <1>2, <2>1, <3>2 DEF IsInjective
  <2> QED
    BY <2>2 DEF IsInjective
<1> QED
  BY <1>1, <1>4, <1>7, <1>8, <1>9

(* A stack: its top and the rest. *)
LEMMA StackOf ==
    ASSUME NEW X, NEW s \in Seq(X), s # <<>>
    PROVE  /\ Last(s) \in X /\ Front(s) \in Seq(X)
           /\ ToSet(s) = ToSet(Front(s)) \cup {Last(s)}
           /\ IsInjective(s) => IsInjective(Front(s)) /\ Last(s) \notin ToSet(Front(s))
<1>1. DOMAIN s = 1..Len(s) /\ Len(s) \in Nat /\ Len(s) >= 1 /\ Len(s) \in DOMAIN s
  OBVIOUS
<1>2. Last(s) = s[Len(s)] /\ Front(s) = SubSeq(s, 1, Len(s) - 1)
  BY DEF Last, Front
<1> DEFINE t == Front(s)
<1>3. t \in Seq(X) /\ DOMAIN t = 1..(Len(s) - 1) /\ \A i \in DOMAIN t : t[i] = s[i]
  BY <1>1, <1>2
<1> HIDE DEF t
<1>4. \A i \in DOMAIN s : i \in DOMAIN t \/ i = Len(s)
  BY <1>1, <1>3
<1>5. \A i \in DOMAIN t : i \in DOMAIN s /\ i # Len(s)
  BY <1>1, <1>3
<1>6. ToSet(s) = ToSet(t) \cup {Last(s)}
  BY <1>1, <1>2, <1>3, <1>4, <1>5 DEF ToSet
<1>7. IsInjective(s) => IsInjective(t) /\ Last(s) \notin ToSet(t)
  BY <1>1, <1>2, <1>3, <1>5 DEF ToSet, IsInjective
<1> QED
  BY <1>1, <1>2, <1>3, <1>6, <1>7 DEF t

(* What is in two sequences put together, and when nothing is in there twice. *)
LEMMA Joined ==
    ASSUME NEW X, NEW s \in Seq(X), NEW t \in Seq(X)
    PROVE  /\ s \o t \in Seq(X)
           /\ ToSet(s \o t) = ToSet(s) \cup ToSet(t)
           /\ IsInjective(s) /\ IsInjective(t) /\ ToSet(s) \cap ToSet(t) = {} => IsInjective(s \o t)
<1> DEFINE u == s \o t
<1>1. /\ u \in Seq(X) /\ Len(u) = Len(s) + Len(t)
      /\ \A i \in 1..Len(s) : u[i] = s[i]
      /\ \A i \in 1..Len(t) : u[Len(s) + i] = t[i]
  BY ConcatProperties
<1>2. /\ DOMAIN s = 1..Len(s) /\ Len(s) \in Nat /\ DOMAIN t = 1..Len(t) /\ Len(t) \in Nat
      /\ DOMAIN u = 1..Len(u)
  BY <1>1
<1> HIDE DEF u
<1>3. ASSUME NEW i \in DOMAIN u
      PROVE  \/ i \in DOMAIN s /\ u[i] = s[i]
             \/ i - Len(s) \in DOMAIN t /\ u[i] = t[i - Len(s)]
  <2>1. i \in 1..Len(s) \/ (i - Len(s) \in 1..Len(t) /\ i = Len(s) + (i - Len(s)))
    BY <1>1, <1>2
  <2> QED
    BY <2>1, <1>1, <1>2
<1>4. /\ \A i \in DOMAIN s : i \in DOMAIN u /\ u[i] = s[i]
      /\ \A i \in DOMAIN t : Len(s) + i \in DOMAIN u /\ u[Len(s) + i] = t[i]
  BY <1>1, <1>2
<1>5. ToSet(u) = ToSet(s) \cup ToSet(t)
  <2>1. ToSet(u) \subseteq ToSet(s) \cup ToSet(t)
    BY <1>3 DEF ToSet
  <2>2. ToSet(s) \cup ToSet(t) \subseteq ToSet(u)
    BY <1>4 DEF ToSet
  <2> QED
    BY <2>1, <2>2
<1>6. ASSUME IsInjective(s), IsInjective(t), ToSet(s) \cap ToSet(t) = {} PROVE IsInjective(u)
  <2> SUFFICES ASSUME NEW i \in DOMAIN u, NEW j \in DOMAIN u, u[i] = u[j] PROVE i = j
    BY DEF IsInjective
  <2>1. \A k \in DOMAIN s, l \in DOMAIN t : s[k] # t[l]
    BY <1>6 DEF ToSet
  <2>2. \/ i \in DOMAIN s /\ j \in DOMAIN s /\ s[i] = s[j]
        \/ i - Len(s) \in DOMAIN t /\ j - Len(s) \in DOMAIN t /\ t[i - Len(s)] = t[j - Len(s)]
    BY <1>3, <2>1
  <2>3. i = j \/ i - Len(s) = j - Len(s)
    BY <1>6, <2>2 DEF IsInjective
  <2> QED
    BY <2>3, <1>2
<1> QED
  BY <1>1, <1>5, <1>6 DEF u

-----------------------------------------------------------------------------
(* What a walk reaches. *)

(* X has with a process those below it, by the table. *)
Downward(T, X) == \A r \in ToSet(T) : r.ppid \in X => r.pid \in X

(* A walk that starts in such a set does not leave it. *)
LEMMA WalkWithin ==
    ASSUME NEW R, NEW T \in Seq(R), NEW X, NEW root \in X, Downward(T, X)
    PROVE  Walk(T, root) \in Seq(X)
<1>1. Len(T) \in Nat
  OBVIOUS
<1>2. PICK f : /\ f[0] = Start(root) /\ \A i \in 1..(Len(T) + 1) : f[i] = Turn(T, f[i - 1])
               /\ Walk(T, root) = f[Len(T) + 1].order
  BY <1>1, WalkUnfolds
<1> DEFINE Good(w) == w \in [stack : Seq(X), order : Seq(X)]
           D == {m \in Nat : m <= Len(T) + 1 => Good(f[m])}
<1>3. 0 \in D
  <2>1. Good(Start(root))
    BY DEF Start
  <2> QED
    BY <1>2, <2>1
<1>4. ASSUME NEW w, Good(w) PROVE Good(Turn(T, w))
  <2> DEFINE pid == Last(w.stack)
  <2>1. CASE w.stack = <<>>
    BY <1>4, <2>1 DEF Turn
  <2>2. CASE w.stack # <<>>
    <3>1. pid \in X /\ Front(w.stack) \in Seq(X)
      BY <1>4, <2>2, StackOf
    <3>2. CASE pid \in ToSet(w.order)
      BY <1>4, <2>2, <3>1, <3>2 DEF Turn
    <3>3. CASE pid \notin ToSet(w.order)
      <4>1. PidsBelow(T, pid) \subseteq X
        BY <3>1 DEF PidsBelow, Downward
      <4>2. Children(T, pid) \in Seq(X)
        BY <4>1, ChildrenOf
      <4>3. Front(w.stack) \o Children(T, pid) \in Seq(X)
        BY <3>1, <4>2, Joined
      <4>4. Append(w.order, pid) \in Seq(X)
        BY <1>4, <3>1
      <4>5. Turn(T, w) = [stack |-> Front(w.stack) \o Children(T, pid), order |-> Append(w.order, pid)]
        BY <2>2, <3>3 DEF Turn
      <4> QED
        BY <4>3, <4>4, <4>5
    <3> QED
      BY <3>2, <3>3
  <2> QED
    BY <2>1, <2>2
<1> HIDE DEF Good
<1>5. ASSUME NEW m \in Nat, m \in D PROVE m + 1 \in D
  <2> SUFFICES ASSUME m + 1 <= Len(T) + 1 PROVE Good(f[m + 1])
    OBVIOUS
  <2>1. Good(f[m])
    BY <1>1, <1>5
  <2>2. f[m + 1] = Turn(T, f[m])
    BY <1>1, <1>2
  <2> QED
    BY <1>4, <2>1, <2>2
<1> HIDE DEF D
<1>6. Nat \subseteq D
  BY <1>3, <1>5, Induct
<1>7. Good(f[Len(T) + 1])
  BY <1>1, <1>6 DEF D
<1> QED
  BY <1>2, <1>7 DEF Good

(* No process is in the table twice. *)
Once(T) == \A i, j \in DOMAIN T : T[i].pid = T[j].pid => i = j

(* What the walk knows while it lasts. *)
Walking(T, root, X, n, w) ==
    /\ w \in [stack : Seq(X), order : Seq(X)]
    /\ IsInjective(w.stack) /\ IsInjective(w.order) /\ ToSet(w.stack) \cap ToSet(w.order) = {}
    /\ root \in ToSet(w.stack) \cup ToSet(w.order)
    /\ \A x \in ToSet(w.order) : PidsBelow(T, x) \subseteq ToSet(w.stack) \cup ToSet(w.order)
    /\ \A x \in (ToSet(w.stack) \cup ToSet(w.order)) \ {root} : \E y \in ToSet(w.order) : x \in PidsBelow(T, y)
    /\ w.stack # <<>> => Len(w.order) = n

(* A turn preserves it, when nothing that the walk can reach lies above its   *)
(* root: every child is put on the stack once, below its only parent.         *)
LEMMA TurnWalks ==
    ASSUME NEW R, NEW T \in Seq(R), Once(T), NEW X, NEW root \in X, Downward(T, X),
           \A r \in ToSet(T) : r.pid = root => r.ppid \notin X,
           NEW n \in Nat, NEW w, Walking(T, root, X, n, w)
    PROVE  Walking(T, root, X, n + 1, Turn(T, w))
<1> DEFINE pid == Last(w.stack)
           rest == Front(w.stack)
           kids == Children(T, pid)
<1>1. CASE w.stack = <<>>
  BY <1>1 DEF Turn, Walking
<1>2. CASE w.stack # <<>>
  <2>1. /\ w.stack \in Seq(X) /\ w.order \in Seq(X) /\ Len(w.order) = n
        /\ IsInjective(w.stack) /\ IsInjective(w.order) /\ ToSet(w.stack) \cap ToSet(w.order) = {}
    BY <1>2 DEF Walking
  <2>2. /\ pid \in X /\ rest \in Seq(X) /\ ToSet(w.stack) = ToSet(rest) \cup {pid}
        /\ IsInjective(rest) /\ pid \notin ToSet(rest) /\ pid \notin ToSet(w.order)
    BY <1>2, <2>1, StackOf
  <2>3. Turn(T, w) = [stack |-> rest \o kids, order |-> Append(w.order, pid)]
    BY <1>2, <2>2 DEF Turn
  <2>4. PidsBelow(T, pid) \subseteq X
    BY <2>2 DEF PidsBelow, Downward
  <2>5. kids \in Seq(X) /\ ToSet(kids) = PidsBelow(T, pid) /\ IsInjective(kids)
    BY <2>4, ChildrenOf DEF Once
  <2>6. ASSUME NEW x \in PidsBelow(T, pid), NEW y, x \in PidsBelow(T, y) PROVE y = pid
    <3>1. PICK i \in DOMAIN T : T[i].pid = x /\ T[i].ppid = pid
      BY DEF PidsBelow, ToSet
    <3>2. PICK j \in DOMAIN T : T[j].pid = x /\ T[j].ppid = y
      BY <2>6 DEF PidsBelow, ToSet
    <3> QED
      BY <3>1, <3>2 DEF Once
  <2>7. root \notin PidsBelow(T, pid)
    BY <2>2 DEF PidsBelow
  <2>8. PidsBelow(T, pid) \cap (ToSet(w.stack) \cup ToSet(w.order)) = {}
    <3> SUFFICES ASSUME NEW x \in PidsBelow(T, pid), x \in ToSet(w.stack) \cup ToSet(w.order) PROVE FALSE
      OBVIOUS
    <3>1. PICK y \in ToSet(w.order) : x \in PidsBelow(T, y)
      BY <2>7 DEF Walking
    <3> QED
      BY <2>2, <2>6, <3>1
  <2> DEFINE s == rest \o kids
             o == Append(w.order, pid)
  <2>9. s \in Seq(X) /\ ToSet(s) = ToSet(rest) \cup PidsBelow(T, pid) /\ IsInjective(s)
    <3>1. ToSet(rest) \cap ToSet(kids) = {}
      BY <2>2, <2>5, <2>8
    <3> HIDE DEF rest, kids
    <3> QED
      BY <3>1, <2>2, <2>5, Joined
  <2>10. o \in Seq(X) /\ ToSet(o) = ToSet(w.order) \cup {pid} /\ IsInjective(o) /\ Len(o) = n + 1
    <3>1. /\ o \in Seq(X) /\ ToSet(o) = ToSet(w.order) \cup {pid} /\ IsInjective(o)
      BY <2>1, <2>2, KeptAppends
    <3>2. Len(o) = n + 1
      BY <2>1, <2>2
    <3> QED
      BY <3>1, <3>2
  <2> HIDE DEF s, o, rest, kids, pid
  <2>11. ToSet(s) \cup ToSet(o) = ToSet(w.stack) \cup ToSet(w.order) \cup PidsBelow(T, pid)
    BY <2>2, <2>9, <2>10
  <2>12. ToSet(s) \cap ToSet(o) = {}
    BY <2>1, <2>2, <2>8, <2>9, <2>10
  <2>13. root \in ToSet(s) \cup ToSet(o)
    BY <2>11 DEF Walking
  <2>14. \A x \in ToSet(o) : PidsBelow(T, x) \subseteq ToSet(s) \cup ToSet(o)
    BY <2>10, <2>11 DEF Walking
  <2>15. \A x \in (ToSet(s) \cup ToSet(o)) \ {root} : \E y \in ToSet(o) : x \in PidsBelow(T, y)
    BY <2>10, <2>11 DEF Walking
  <2>16. Turn(T, w) = [stack |-> s, order |-> o]
    BY <2>3 DEF s, o
  <2> DEFINE v == Turn(T, w)
  <2>17. v \in [stack : Seq(X), order : Seq(X)] /\ v.stack = s /\ v.order = o
    BY <2>9, <2>10, <2>16
  <2> HIDE DEF v
  <2>18. Walking(T, root, X, n + 1, v)
    BY <2>9, <2>10, <2>12, <2>13, <2>14, <2>15, <2>17 DEF Walking
  <2> QED
    BY <2>18 DEF v
<1> QED
  BY <1>1, <1>2

(* A sequence without repetitions that misses an element of a set is shorter  *)
(* than the set is large.                                                     *)
LEMMA Pigeons ==
    ASSUME NEW n \in Nat, NEW f, NEW S, DOMAIN f = 1..n, \A i \in 1..n : f[i] \in S, IsInjective(f),
           IsFiniteSet(S), NEW x \in S, \A i \in 1..n : f[i] # x
    PROVE  n + 1 <= Cardinality(S)
<1> DEFINE F == {f[i] : i \in 1..n}
<1>1. IsFiniteSet(1..n) /\ Cardinality(1..n) = n
  BY FS_Interval
<1>2. F \subseteq S \ {x} /\ F \subseteq S
  OBVIOUS
<1>3. IsFiniteSet(F)
  BY <1>2, FS_Subset
<1>4. ExistsBijection(1..n, F)
  <2> DEFINE g == [i \in 1..n |-> f[i]]
  <2>1. g \in Bijection(1..n, F)
    BY DEF Bijection, Injection, Surjection, IsInjective
  <2> QED
    BY <2>1 DEF ExistsBijection
<1>5. Cardinality(F) = n
  BY <1>1, <1>3, <1>4, FS_Bijection
<1>6. Cardinality(F) <= Cardinality(S \ {x})
  BY <1>2, FS_Subset, FS_RemoveElement
<1>7. Cardinality(S \ {x}) = Cardinality(S) - 1 /\ Cardinality(S) \in Nat
  BY FS_RemoveElement, FS_CardinalityType
<1> QED
  BY <1>5, <1>6, <1>7

(* The turns suffice: with one per process of the table and one more, the     *)
(* stack is empty at the end, and what was noted is closed under children     *)
(* (tmux.go:97-146: the loop ends, and ContainsPID and FindClaudeDescendant   *)
(* see the whole subtree).                                                    *)
LEMMA WalkComplete ==
    ASSUME NEW R, NEW T \in Seq(R), Once(T), NEW X, NEW root \in X, Downward(T, X),
           \A r \in ToSet(T) : r.pid = root => r.ppid \notin X
    PROVE  /\ root \in ToSet(Walk(T, root))
           /\ Downward(T, ToSet(Walk(T, root)))
<1>1. Len(T) \in Nat /\ DOMAIN T = 1..Len(T)
  OBVIOUS
<1>2. PICK f : /\ f[0] = Start(root) /\ \A i \in 1..(Len(T) + 1) : f[i] = Turn(T, f[i - 1])
               /\ Walk(T, root) = f[Len(T) + 1].order
  BY <1>1, WalkUnfolds
<1> DEFINE D == {m \in Nat : m <= Len(T) + 1 => Walking(T, root, X, m, f[m])}
<1>3. 0 \in D
  <2>1. /\ <<root>> \in Seq(X) /\ DOMAIN <<root>> = {1} /\ <<root>>[1] = root
        /\ <<>> \in Seq(X) /\ DOMAIN <<>> = {} /\ Len(<<>>) = 0
    OBVIOUS
  <2>2. ToSet(<<root>>) = {root} /\ ToSet(<<>>) = {} /\ IsInjective(<<root>>) /\ IsInjective(<<>>)
    BY <2>1 DEF ToSet, IsInjective
  <2>3. Walking(T, root, X, 0, Start(root))
    BY <2>1, <2>2 DEF Walking, Start
  <2> QED
    BY <1>2, <2>3
<1>4. ASSUME NEW m \in Nat, m \in D PROVE m + 1 \in D
  <2> SUFFICES ASSUME m + 1 <= Len(T) + 1 PROVE Walking(T, root, X, m + 1, f[m + 1])
    OBVIOUS
  <2>1. Walking(T, root, X, m, f[m])
    BY <1>1, <1>4
  <2>2. f[m + 1] = Turn(T, f[m])
    BY <1>1, <1>2
  <2> QED
    BY <2>1, <2>2, TurnWalks
<1> HIDE DEF D
<1>5. Nat \subseteq D
  BY <1>3, <1>4, Induct
<1> DEFINE w == f[Len(T) + 1]
<1>6. Walking(T, root, X, Len(T) + 1, w)
  BY <1>1, <1>5 DEF D
<1> HIDE DEF w
<1>7. w.stack = <<>>
  <2> SUFFICES ASSUME w.stack # <<>> PROVE FALSE
    OBVIOUS
  <2> DEFINE P == {T[i].pid : i \in 1..Len(T)}
             S == P \cup {root}
             o == w.order
  <2>1. IsFiniteSet(P) /\ Cardinality(P) <= Len(T)
    <3>1. IsFiniteSet(1..Len(T)) /\ Cardinality(1..Len(T)) = Len(T)
      BY <1>1, FS_Interval
    <3> DEFINE g == [i \in 1..Len(T) |-> T[i].pid]
    <3>2. P = {g[i] : i \in 1..Len(T)} /\ g \in Surjection(1..Len(T), P)
      BY DEF Surjection
    <3> QED
      BY <3>1, <3>2, FS_Surjection
  <2>2. IsFiniteSet(S) /\ Cardinality(S) <= Len(T) + 1
    <3> HIDE DEF P
    <3>1. Cardinality(P) \in Nat
      BY <2>1, FS_CardinalityType
    <3>2. /\ IsFiniteSet(P \cup {root})
          /\ Cardinality(P \cup {root}) = IF root \in P THEN Cardinality(P) ELSE Cardinality(P) + 1
      BY <2>1, FS_AddElement
    <3> QED
      BY <1>1, <2>1, <3>1, <3>2
  <2>3. \A x, y : x \in PidsBelow(T, y) => x \in P
    BY <1>1 DEF PidsBelow, ToSet
  <2>4. ToSet(w.stack) \cup ToSet(o) \subseteq S
    BY <1>6, <2>3 DEF Walking
  <2>5. /\ o \in Seq(X) /\ w.stack \in Seq(X) /\ Len(o) = Len(T) + 1
        /\ IsInjective(o) /\ ToSet(w.stack) \cap ToSet(o) = {}
    BY <1>6 DEF Walking
  <2>6. Last(w.stack) \in ToSet(w.stack)
    <3>1. ToSet(w.stack) = ToSet(Front(w.stack)) \cup {Last(w.stack)}
      BY <2>5, StackOf
    <3> QED
      BY <3>1
  <2> DEFINE x == Last(w.stack)
  <2>7. DOMAIN o = 1..(Len(T) + 1) /\ (\A i \in 1..(Len(T) + 1) : o[i] \in ToSet(o))
    BY <2>5 DEF ToSet
  <2> HIDE DEF S, o, x
  <2>8. (\A i \in 1..(Len(T) + 1) : o[i] \in S /\ o[i] # x) /\ x \in S
    BY <2>4, <2>5, <2>6, <2>7 DEF x
  <2>9. Len(T) + 2 <= Cardinality(S)
    <3>1. Len(T) + 1 \in Nat
      BY <1>1
    <3>2. Len(T) + 1 + 1 <= Cardinality(S)
      BY <3>1, <2>2, <2>5, <2>7, <2>8, Pigeons
    <3> QED
      BY <1>1, <3>2
  <2> QED
    BY <1>1, <2>2, <2>9, FS_CardinalityType
<1>8. ToSet(w.stack) = {}
  BY <1>7 DEF ToSet
<1> QED
  BY <1>2, <1>6, <1>8 DEF Walking, Downward, PidsBelow, w

(* What a walk notes: its root, everything below, and nothing but. *)
LEMMA WalkOf ==
    ASSUME NEW R, NEW T \in Seq(R), Once(T), NEW U, NEW root \in U,
           \A r \in ToSet(T) : r.pid \in U,
           \A r \in ToSet(T) : r.pid = root => r.ppid \notin U
    PROVE  /\ Walk(T, root) \in Seq(U)
           /\ root \in ToSet(Walk(T, root))
           /\ ToSet(Walk(T, root)) \subseteq U
           /\ Downward(T, ToSet(Walk(T, root)))
           /\ \A x \in ToSet(Walk(T, root)) \ {root} :
                 \E r \in ToSet(T) : r.pid = x /\ r.ppid \in ToSet(Walk(T, root))
<1> DEFINE W == ToSet(Walk(T, root))
           Y == {x \in W : x = root \/ \E r \in ToSet(T) : r.pid = x /\ r.ppid \in W}
<1>1. Downward(T, U)
  BY DEF Downward
<1>2. Walk(T, root) \in Seq(U)
  BY <1>1, WalkWithin
<1>3. root \in W /\ Downward(T, W)
  BY <1>1, WalkComplete
<1>4. root \in Y /\ Downward(T, Y)
  BY <1>3 DEF Downward
<1> HIDE DEF Y
<1>5. Walk(T, root) \in Seq(Y)
  BY <1>4, WalkWithin
<1>6. W \subseteq Y /\ W \subseteq U
  BY <1>2, <1>5 DEF ToSet
<1> QED
  BY <1>2, <1>3, <1>6 DEF Y

(* The walks from two roots of which neither is below a process of U do not   *)
(* meet.                                                                      *)
LEMMA Apart ==
    ASSUME NEW R, NEW T \in Seq(R), Once(T), NEW U, NEW r1 \in U, NEW r2 \in U, r1 # r2,
           \A r \in ToSet(T) : r.pid \in U,
           \A r \in ToSet(T) : r.pid \in {r1, r2} => r.ppid \notin U
    PROVE  ToSet(Walk(T, r1)) \cap ToSet(Walk(T, r2)) = {}
<1> DEFINE W == ToSet(Walk(T, r1))
           X == U \ W
<1>1. /\ r1 \in W /\ W \subseteq U
      /\ \A x \in W \ {r1} : \E r \in ToSet(T) : r.pid = x /\ r.ppid \in W
  BY WalkOf
<1> HIDE DEF W
<1>2. r2 \in X
  BY <1>1
<1>3. Downward(T, X)
  <2> SUFFICES ASSUME NEW r \in ToSet(T), r.ppid \in X, r.pid \in W PROVE FALSE
    BY DEF Downward
  <2>1. r.pid # r1
    OBVIOUS
  <2>2. PICK s \in ToSet(T) : s.pid = r.pid /\ s.ppid \in W
    BY <1>1, <2>1
  <2>3. r = s
    BY <2>2 DEF Once, ToSet
  <2> QED
    BY <2>2, <2>3
<1> HIDE DEF X
<1>4. Walk(T, r2) \in Seq(X)
  BY <1>2, <1>3, WalkWithin
<1>5. ToSet(Walk(T, r2)) \subseteq X
  BY <1>4 DEF ToSet
<1> QED
  BY <1>5 DEF X, W

(* FindClaudeDescendant finds a claude of the subtree if it has any. *)
LEMMA FindOf ==
    ASSUME NEW T, NEW root, NEW U, Walk(T, root) \in Seq(U), root \in ToSet(Walk(T, root))
    PROVE  IF ToSet(Walk(T, root)) \cap ClaudesIn(T) = {}
           THEN FindClaudeDescendant(T, root) = NoPid
           ELSE FindClaudeDescendant(T, root) \in ToSet(Walk(T, root)) \cap ClaudesIn(T)
<1> DEFINE C == ClaudesIn(T) \ {root}
           below == Those(Walk(T, root), C)
<1>1. FindClaudeDescendant(T, root) = CASE below # <<>>                                 -> Head(below)
                                        [] below = <<>> /\ root \in ClaudesIn(T)        -> root
                                        [] below = <<>> /\ root \notin ClaudesIn(T)     -> NoPid
  BY DEF FindClaudeDescendant
<1>2. below \in Seq(U) /\ ToSet(below) = ToSet(Walk(T, root)) \cap C
  BY ThoseOf
<1> HIDE DEF below
<1>3. CASE below = <<>>
  <2>1. ToSet(below) = {}
    BY <1>3 DEF ToSet
  <2> QED
    BY <1>1, <1>2, <1>3, <2>1
<1>4. CASE below # <<>>
  <2>1. 1 \in DOMAIN below /\ Head(below) = below[1]
    BY <1>2, <1>4
  <2>2. Head(below) \in ToSet(below)
    BY <2>1 DEF ToSet
  <2> QED
    BY <1>1, <1>2, <1>4, <2>2
<1> QED
  BY <1>3, <1>4

(* InteractiveFirst lists the same agents, the interactive ones before the    *)
(* others.                                                                    *)
LEMMA InteractiveFirstOf ==
    ASSUME NEW S, NEW A \in Seq(S)
    PROVE  /\ InteractiveFirst(A) \in Seq(S)
           /\ ToSet(InteractiveFirst(A)) = ToSet(A)
           /\ IsInjective(A) => IsInjective(InteractiveFirst(A))
           /\ \A i, j \in DOMAIN InteractiveFirst(A) :
                 i < j /\ InteractiveFirst(A)[j].kind = "interactive" => InteractiveFirst(A)[i].kind = "interactive"
<1> DEFINE I == {a \in ToSet(A) : a.kind = "interactive"}
           s == Those(A, I)
           t == Those(A, ToSet(A) \ I)
<1>1. InteractiveFirst(A) = s \o t
  BY DEF InteractiveFirst
<1>2. I \subseteq ToSet(A)
  OBVIOUS
<1>3. s \in Seq(S) /\ ToSet(s) = ToSet(A) \cap I /\ (IsInjective(A) => IsInjective(s))
  BY ThoseOf
<1>4. t \in Seq(S) /\ ToSet(t) = ToSet(A) \cap (ToSet(A) \ I) /\ (IsInjective(A) => IsInjective(t))
  BY ThoseOf
<1>5. ToSet(s) = I /\ ToSet(t) = ToSet(A) \ I
  BY <1>2, <1>3, <1>4
<1> HIDE DEF s, t
<1>6. /\ s \o t \in Seq(S) /\ ToSet(s \o t) = ToSet(A)
      /\ IsInjective(A) => IsInjective(s \o t)
  <2>1. ToSet(s) \cap ToSet(t) = {}
    BY <1>5
  <2>2. ToSet(s \o t) = ToSet(s) \cup ToSet(t)
    BY <1>3, <1>4, Joined
  <2> QED
    BY <1>2, <1>3, <1>4, <1>5, <2>1, <2>2, Joined
<1>7. /\ Len(s) \in Nat /\ DOMAIN s = 1..Len(s) /\ Len(t) \in Nat /\ DOMAIN t = 1..Len(t)
      /\ DOMAIN (s \o t) = 1..(Len(s) + Len(t))
      /\ \A i \in 1..Len(s) : (s \o t)[i] = s[i]
      /\ \A i \in 1..Len(t) : (s \o t)[Len(s) + i] = t[i]
  BY <1>3, <1>4, ConcatProperties
<1>8. \A i \in 1..Len(s) : (s \o t)[i].kind = "interactive"
  BY <1>5, <1>7 DEF ToSet, I
<1>9. \A i \in 1..Len(t) : (s \o t)[Len(s) + i].kind # "interactive"
  BY <1>5, <1>7 DEF ToSet, I
<1>10. ASSUME NEW i \in DOMAIN (s \o t), NEW j \in DOMAIN (s \o t), i < j, (s \o t)[j].kind = "interactive"
       PROVE  (s \o t)[i].kind = "interactive"
  <2>1. j \in 1..Len(s)
    <3>1. j \in 1..Len(s) \/ (j - Len(s) \in 1..Len(t) /\ j = Len(s) + (j - Len(s)))
      BY <1>7
    <3> QED
      BY <3>1, <1>9, <1>10
  <2>2. i \in 1..Len(s)
    BY <2>1, <1>7, <1>10
  <2> QED
    BY <2>2, <1>8
<1> QED
  BY <1>1, <1>6, <1>10

(* The elements of two sequences put together. *)
LEMMA Appended ==
    ASSUME NEW S, NEW s \in Seq(S), NEW t \in Seq(S)
    PROVE  /\ s \o t \in Seq(S) /\ Len(s \o t) = Len(s) + Len(t)
           /\ \A i \in 1..Len(s) : (s \o t)[i] = s[i]
           /\ \A i \in 1..Len(t) : (s \o t)[Len(s) + i] = t[i]
BY ConcatProperties

-----------------------------------------------------------------------------
(* The inductive invariant, and what it says of a snapshot that is made. *)

(* The world as the environment leaves it: what has not been born is nobody's *)
(* parent, a parent that is a claude is alive, and what a pane runs directly  *)
(* is the system's child.                                                     *)
WorldInv ==
    \A c \in Claudes :
        /\ proc[c].life = "unborn" => proc[c].kind = "unlisted" /\ proc[c].parent = System
        /\ proc[c].life # "unborn" => proc[c].cwd \in Dirs
        /\ proc[c].parent \in Claudes => Alive(proc[c].parent)
        /\ c \in {PanePid[i] : i \in Panes} => proc[c].parent = System

(* A listing has no process and no key twice. *)
AgentsInv ==
    \A i, j \in DOMAIN agents : i # j =>
        /\ agents[i].pid = agents[j].pid => agents[i].pid = NoPid
        /\ SupervisorKey(agents[i]) # SupervisorKey(agents[j])

(* The panes in use are as tmux has them, each once. *)
PanesInv ==
    \A i \in DOMAIN panes :
        /\ panes[i].pid = PanePid[panes[i].id] /\ panes[i].path = PanePath[panes[i].id]
        /\ \A j \in DOMAIN panes : panes[i].id = panes[j].id => i = j

(* The process table in use, however old, knows what is a claude, has no      *)
(* process twice, and has the processes of the panes right below the system.  *)
ProcsInv ==
    \A i \in DOMAIN procs :
        /\ procs[i].claude <=> procs[i].pid \in Claudes
        /\ \A p \in Panes : procs[i].pid = PanePid[p] => procs[i].ppid = System
        /\ \A j \in DOMAIN procs : procs[i].pid = procs[j].pid => i = j

(* The inductive invariant. *)
ScanInv == TypeOK /\ WorldInv /\ AgentsInv /\ PanesInv /\ ProcsInv

(* What the assumptions on the constants say of panes and processes. *)
LEMMA PidFacts ==
    /\ Panes = 1..Len(PanePid) /\ Len(PanePid) \in Nat /\ NoPane \notin Panes
    /\ \A p \in Panes : PanePid[p] \in ToSet(Pids) /\ PanePath[p] \in Dirs /\ PanePid[p] \in Claudes \cup Shells
    /\ \A p, q \in Panes : PanePid[p] = PanePid[q] => p = q
    /\ System \notin ToSet(Pids) /\ NoPid \notin ToSet(Pids)
    /\ Claudes \subseteq ToSet(Pids) /\ Shells \subseteq ToSet(Pids)
<1>1. PanePid \in Seq(ToSet(Pids)) /\ PanePath \in Seq(Dirs) /\ Len(PanePath) = Len(PanePid)
  BY ScanAssumption
<1>2. Panes = 1..Len(PanePid) /\ Len(PanePid) \in Nat /\ NoPane \notin Panes
  BY <1>1 DEF Panes, NoPane
<1>3. \A p \in Panes : PanePid[p] \in ToSet(Pids) /\ PanePath[p] \in Dirs
  BY <1>1, <1>2
<1>4. \A p \in Panes : PanePid[p] \in Claudes \cup Shells
  BY DEF Shells, Direct
<1>5. \A p, q \in Panes : PanePid[p] = PanePid[q] => p = q
  BY ScanAssumption DEF IsInjective, Panes
<1>6. ToSet(Pids) \subseteq Nat \ {NoPid, 1}
  BY ScanAssumption DEF ToSet
<1>7. Shells \subseteq ToSet(Pids)
  BY <1>3 DEF Shells
<1> QED
  BY <1>2, <1>3, <1>4, <1>5, <1>6, <1>7, ScanAssumption DEF System, NoPid

(* What the invariant says of the process table. *)
LEMMA TableFacts ==
    ASSUME TypeOK, ProcsInv
    PROVE  /\ procs \in Seq(ProcEntry) /\ Once(procs)
           /\ \A r \in ToSet(procs) : r.pid \in ToSet(Pids)
           /\ \A r \in ToSet(procs), p \in Panes : r.pid = PanePid[p] => r.ppid = System
           /\ ClaudesIn(procs) \subseteq Claudes
<1>1. procs \in Seq(ProcEntry)
  BY DEF TypeOK
<1>2. \A r \in ToSet(procs) : r \in ProcEntry
  BY <1>1 DEF ToSet
<1>3. Once(procs)
  BY DEF ProcsInv, Once
<1>4. ASSUME NEW r \in ToSet(procs)
      PROVE  /\ r.pid \in ToSet(Pids)
             /\ \A p \in Panes : r.pid = PanePid[p] => r.ppid = System
             /\ r.claude <=> r.pid \in Claudes
  <2>1. PICK i \in DOMAIN procs : r = procs[i]
    BY DEF ToSet
  <2>2. r.pid \in Claudes \cup Shells
    BY <1>2 DEF ProcEntry
  <2>3. r.pid \in ToSet(Pids)
    BY <2>2, PidFacts
  <2> QED
    BY <2>1, <2>3 DEF ProcsInv
<1>5. ClaudesIn(procs) \subseteq Claudes
  BY <1>4 DEF ClaudesIn
<1> QED
  BY <1>1, <1>3, <1>4, <1>5

(* The processes in and below a pane, by the table in use. *)
Tree(p) == ToSet(Walk(procs, PanePid[p]))

(* The trees of two panes have no process in common, and a claude is found in *)
(* one just if there is any: also by a table that is older than the panes.    *)
LEMMA TreeFacts ==
    ASSUME TypeOK, ProcsInv
    PROVE  /\ \A p \in Panes : /\ Tree(p) \subseteq ToSet(Pids) /\ PanePid[p] \in Tree(p)
                               /\ Downward(procs, Tree(p)) /\ Walk(procs, PanePid[p]) \in Seq(ToSet(Pids))
           /\ \A p, q \in Panes : p # q => Tree(p) \cap Tree(q) = {}
           /\ \A p \in Panes : LET found == FindClaudeDescendant(procs, PanePid[p])
                               IN  IF Tree(p) \cap ClaudesIn(procs) = {} THEN found = NoPid
                                   ELSE found \in Tree(p) /\ found \in Claudes
<1>1. ASSUME NEW p \in Panes
      PROVE  /\ Tree(p) \subseteq ToSet(Pids) /\ PanePid[p] \in Tree(p)
             /\ Downward(procs, Tree(p)) /\ Walk(procs, PanePid[p]) \in Seq(ToSet(Pids))
  <2>1. PanePid[p] \in ToSet(Pids)
    BY PidFacts
  <2>2. \A r \in ToSet(procs) : r.pid = PanePid[p] => r.ppid \notin ToSet(Pids)
    BY TableFacts, PidFacts
  <2> QED
    BY <2>1, <2>2, TableFacts, WalkOf DEF Tree
<1>2. ASSUME NEW p \in Panes, NEW q \in Panes, p # q PROVE Tree(p) \cap Tree(q) = {}
  <2>1. PanePid[p] \in ToSet(Pids) /\ PanePid[q] \in ToSet(Pids) /\ PanePid[p] # PanePid[q]
    BY <1>2, PidFacts
  <2>2. \A r \in ToSet(procs) : r.pid \in {PanePid[p], PanePid[q]} => r.ppid \notin ToSet(Pids)
    BY TableFacts, PidFacts
  <2> QED
    BY <2>1, <2>2, TableFacts, Apart DEF Tree
<1>3. ASSUME NEW p \in Panes
      PROVE  IF Tree(p) \cap ClaudesIn(procs) = {} THEN FindClaudeDescendant(procs, PanePid[p]) = NoPid
             ELSE FindClaudeDescendant(procs, PanePid[p]) \in Tree(p) \cap ClaudesIn(procs)
  BY <1>1, FindOf DEF Tree
<1> QED
  BY <1>1, <1>2, <1>3, TableFacts

(* The parts of a snapshot that is made now: the agents in the order of their *)
(* claims, the claims, and the panes of unknown claudes.                      *)
Sorted == InteractiveFirst(agents)
Got    == Claims(Sorted, panes, procs)
Others == TmuxOnly(agents, panes, procs, ToSet(Got))

(* The session of an agent. *)
Supervised(i) ==
    [key |-> SupervisorKey(Sorted[i]), kind |-> Sorted[i].kind, pid |-> Sorted[i].pid,
     cwd |-> Sorted[i].cwd, pane |-> Got[i], worktree |-> Binding[Sorted[i].cwd]]

(* The session of an unknown claude in a pane. *)
Unknown(i) ==
    LET found == FindClaudeDescendant(procs, Others[i].pid)
    IN  [key |-> TmuxKey(Others[i], found), kind |-> "tmux-interactive", pid |-> found,
         cwd |-> Others[i].path, pane |-> Others[i].id, worktree |-> Binding[Others[i].path]]

(* What the invariant says of the panes. *)
LEMMA PaneFacts ==
    ASSUME TypeOK, PanesInv
    PROVE  /\ panes \in Seq(PaneEntry) /\ IsInjective(panes)
           /\ \A p \in ToSet(panes) : /\ p.id \in Panes /\ p.pid = PanePid[p.id] /\ p.path = PanePath[p.id]
                                      /\ p.pid # NoPid /\ p.id # NoPane
           /\ \A p, q \in ToSet(panes) : p.id = q.id => p = q
<1>1. panes \in Seq(PaneEntry)
  BY DEF TypeOK
<1>2. \A i \in DOMAIN panes : panes[i] \in PaneEntry
  BY <1>1
<1>3. ASSUME NEW p \in ToSet(panes)
      PROVE  /\ p.id \in Panes /\ p.pid = PanePid[p.id] /\ p.path = PanePath[p.id]
  BY <1>2 DEF PanesInv, ToSet, PaneEntry
<1>4. \A p \in Panes : PanePid[p] # NoPid /\ p # NoPane
  BY PidFacts
<1>5. IsInjective(panes)
  BY DEF PanesInv, IsInjective
<1>6. \A p, q \in ToSet(panes) : p.id = q.id => p = q
  BY DEF PanesInv, ToSet
<1> QED
  BY <1>1, <1>3, <1>4, <1>5, <1>6

(* What the invariant says of the agents, in the order of their claims. *)
LEMMA SortedFacts ==
    ASSUME TypeOK, AgentsInv
    PROVE  /\ Sorted \in Seq(AgentEntry) /\ DOMAIN Sorted = 1..Len(Sorted) /\ Len(Sorted) \in Nat
           /\ \A i \in DOMAIN Sorted : Sorted[i] \in AgentEntry
           /\ ToSet(Sorted) = ToSet(agents)
           /\ \A i, j \in DOMAIN Sorted : i # j =>
                 /\ Sorted[i].pid = Sorted[j].pid => Sorted[i].pid = NoPid
                 /\ SupervisorKey(Sorted[i]) # SupervisorKey(Sorted[j])
           /\ \A i, j \in DOMAIN Sorted :
                 i < j /\ Sorted[j].kind = "interactive" => Sorted[i].kind = "interactive"
<1>1. agents \in Seq(AgentEntry)
  BY DEF TypeOK
<1>2. IsInjective(agents)
  BY DEF AgentsInv, IsInjective
<1>3. /\ Sorted \in Seq(AgentEntry) /\ ToSet(Sorted) = ToSet(agents) /\ IsInjective(Sorted)
      /\ \A i, j \in DOMAIN Sorted :
            i < j /\ Sorted[j].kind = "interactive" => Sorted[i].kind = "interactive"
  BY <1>1, <1>2, InteractiveFirstOf DEF Sorted
<1> HIDE DEF Sorted
<1>4. DOMAIN Sorted = 1..Len(Sorted) /\ Len(Sorted) \in Nat /\ \A i \in DOMAIN Sorted : Sorted[i] \in AgentEntry
  BY <1>3
<1>5. ASSUME NEW i \in DOMAIN Sorted, NEW j \in DOMAIN Sorted, i # j
      PROVE  /\ Sorted[i].pid = Sorted[j].pid => Sorted[i].pid = NoPid
             /\ SupervisorKey(Sorted[i]) # SupervisorKey(Sorted[j])
  <2>1. Sorted[i] \in ToSet(agents) /\ Sorted[j] \in ToSet(agents) /\ Sorted[i] # Sorted[j]
    BY <1>3, <1>5 DEF ToSet, IsInjective
  <2>2. PICK k \in DOMAIN agents : Sorted[i] = agents[k]
    BY <2>1 DEF ToSet
  <2>3. PICK l \in DOMAIN agents : Sorted[j] = agents[l]
    BY <2>1 DEF ToSet
  <2> QED
    BY <2>1, <2>2, <2>3 DEF AgentsInv
<1> QED
  BY <1>3, <1>4, <1>5

(* An agent claims a pane that its process is in or below and that nobody has *)
(* claimed before, if there is one.                                           *)
LEMMA GotFacts ==
    ASSUME TypeOK, AgentsInv, PanesInv
    PROVE  /\ DOMAIN Got = DOMAIN Sorted
           /\ \A i \in DOMAIN Sorted :
                 LET mine == {p \in ToSet(panes) : p.id \notin Before(Got, i) /\ Sorted[i].pid \in Tree(p.id)}
                 IN  IF Sorted[i].pid = NoPid \/ mine = {} THEN Got[i] = NoPane
                     ELSE \E p \in mine : Got[i] = p.id
<1>1. Sorted \in Seq(AgentEntry) /\ panes \in Seq(PaneEntry) /\ DOMAIN Sorted = 1..Len(Sorted)
  BY SortedFacts, PaneFacts
<1>2. DOMAIN Got = DOMAIN Sorted /\ ClaimedUpTo(Sorted, panes, procs, Len(Sorted), Got)
  BY <1>1, ClaimsOf DEF Got
<1>3. ASSUME NEW i \in DOMAIN Sorted
      PROVE  LET mine == {p \in ToSet(panes) : p.id \notin Before(Got, i) /\ Sorted[i].pid \in Tree(p.id)}
             IN  IF Sorted[i].pid = NoPid \/ mine = {} THEN Got[i] = NoPane
                 ELSE \E p \in mine : Got[i] = p.id
  <2>1. Got[i] = Claim(Sorted[i], panes, procs, Before(Got, i))
    BY <1>1, <1>2 DEF ClaimedUpTo
  <2> DEFINE mine == {p \in ToSet(panes) : p.id \notin Before(Got, i) /\ Sorted[i].pid \in Tree(p.id)}
             same == Mine(Sorted[i], panes, procs, Before(Got, i))
  <2>2. mine = same
    BY PaneFacts DEF ContainsPID, Tree, Mine
  <2>3. IF Sorted[i].pid = NoPid \/ same = {} THEN Got[i] = NoPane ELSE \E p \in same : Got[i] = p.id
    <3>1. panes \in Seq(PaneEntry)
      BY <1>1
    <3>2. ASSUME NEW a, NEW c
          PROVE  IF a.pid = NoPid \/ Mine(a, panes, procs, c) = {} THEN Claim(a, panes, procs, c) = NoPane
                 ELSE \E p \in Mine(a, panes, procs, c) : Claim(a, panes, procs, c) = p.id
      BY <3>1, ClaimOf
    <3> QED
      BY <2>1, <3>2
  <2> QED
    BY <2>2, <2>3
<1> QED
  BY <1>2, <1>3

(* The panes of unknown claudes: unclaimed, with a claude, and not in the     *)
(* directory of a session whose process runs.                                 *)
LEMMA OthersFacts ==
    ASSUME TypeOK, AgentsInv, PanesInv
    PROVE  /\ Others \in Seq(PaneEntry) /\ IsInjective(Others)
           /\ ToSet(Others) = {p \in ToSet(panes) : /\ p.id \notin ToSet(Got)
                                                    /\ FindClaudeDescendant(procs, PanePid[p.id]) # NoPid
                                                    /\ p.path \notin SupervisorCWDs(agents)}
<1> DEFINE O == {p \in ToSet(panes) : /\ p.id \notin ToSet(Got) /\ p.pid # NoPid
                                      /\ FindClaudeDescendant(procs, p.pid) # NoPid
                                      /\ p.path \notin SupervisorCWDs(agents)}
<1>1. Others = Those(panes, O)
  BY DEF Others, TmuxOnly
<1>2. Others \in Seq(PaneEntry) /\ IsInjective(Others) /\ ToSet(Others) = ToSet(panes) \cap O
  BY <1>1, PaneFacts, ThoseOf
<1> QED
  BY <1>2, PaneFacts

(* The sessions are those of the agents, in their order, and then those of    *)
(* the unknown.                                                               *)
LEMMA SessionsAre ==
    ASSUME TypeOK, AgentsInv, PanesInv
    PROVE  LET s == SessionsOf(agents, panes, procs, Binding)
           IN  /\ DOMAIN s = 1..(Len(Sorted) + Len(Others))
               /\ \A i \in DOMAIN Sorted : i \in DOMAIN s /\ s[i] = Supervised(i)
               /\ \A i \in DOMAIN Others : Len(Sorted) + i \in DOMAIN s /\ s[Len(Sorted) + i] = Unknown(i)
               /\ \A i \in DOMAIN s : \/ i \in DOMAIN Sorted
                                      \/ i - Len(Sorted) \in DOMAIN Others
                                         /\ i = Len(Sorted) + (i - Len(Sorted))
               /\ Len(Sorted) \in Nat
<1> DEFINE a == [i \in DOMAIN Sorted |-> Supervised(i)]
           b == [i \in DOMAIN Others |-> Unknown(i)]
           S == {Supervised(i) : i \in DOMAIN Sorted} \cup {Unknown(i) : i \in DOMAIN Others}
<1>1. SessionsOf(agents, panes, procs, Binding) = a \o b
  BY DEF SessionsOf, Sorted, Got, Others, Supervised, Unknown
<1>2. /\ DOMAIN Sorted = 1..Len(Sorted) /\ Len(Sorted) \in Nat
      /\ DOMAIN Others = 1..Len(Others) /\ Len(Others) \in Nat
  BY SortedFacts, OthersFacts
<1>3. a \in Seq(S) /\ b \in Seq(S) /\ Len(a) = Len(Sorted) /\ Len(b) = Len(Others)
  BY <1>2
<1>4. /\ \A i \in DOMAIN Sorted : a[i] = Supervised(i)
      /\ \A i \in DOMAIN Others : b[i] = Unknown(i)
  OBVIOUS
<1> HIDE DEF S, a, b
<1>5. /\ DOMAIN (a \o b) = 1..(Len(Sorted) + Len(Others))
      /\ \A i \in 1..Len(Sorted) : (a \o b)[i] = a[i]
      /\ \A i \in 1..Len(Others) : (a \o b)[Len(Sorted) + i] = b[i]
  <2>1. /\ a \o b \in Seq(S) /\ Len(a \o b) = Len(a) + Len(b)
        /\ \A i \in 1..Len(a) : (a \o b)[i] = a[i]
        /\ \A i \in 1..Len(b) : (a \o b)[Len(a) + i] = b[i]
    <3>1. a \in Seq(S)
      BY <1>3
    <3>2. b \in Seq(S)
      BY <1>3
    <3>3. a \o b \in Seq(S)
      BY <3>1, <3>2, Appended
    <3>4. Len(a \o b) = Len(a) + Len(b)
      BY <3>1, <3>2, Appended
    <3>5. \A i \in 1..Len(a) : (a \o b)[i] = a[i]
      BY <3>1, <3>2, Appended
    <3>6. \A i \in 1..Len(b) : (a \o b)[Len(a) + i] = b[i]
      BY <3>1, <3>2, Appended
    <3> QED
      BY <3>3, <3>4, <3>5, <3>6
  <2>2. DOMAIN (a \o b) = 1..Len(a \o b)
    BY <2>1
  <2> QED
    BY <2>1, <2>2, <1>3
<1> DEFINE s == a \o b
<1>6. \A i \in DOMAIN Sorted : i \in DOMAIN s /\ s[i] = Supervised(i)
  BY <1>2, <1>4, <1>5
<1>7. \A i \in DOMAIN Others : Len(Sorted) + i \in DOMAIN s /\ s[Len(Sorted) + i] = Unknown(i)
  <2> SUFFICES ASSUME NEW i \in DOMAIN Others
               PROVE  Len(Sorted) + i \in DOMAIN s /\ s[Len(Sorted) + i] = Unknown(i)
    OBVIOUS
  <2>1. i \in 1..Len(Others)
    BY <1>2
  <2>2. Len(Sorted) + i \in 1..(Len(Sorted) + Len(Others))
    BY <1>2, <2>1
  <2>3. s[Len(Sorted) + i] = b[i]
    BY <1>5, <2>1
  <2> QED
    BY <1>4, <1>5, <2>2, <2>3
<1>8. \A i \in DOMAIN s : \/ i \in DOMAIN Sorted
                          \/ i - Len(Sorted) \in DOMAIN Others /\ i = Len(Sorted) + (i - Len(Sorted))
  <2> SUFFICES ASSUME NEW i \in 1..(Len(Sorted) + Len(Others)), i \notin 1..Len(Sorted)
               PROVE  i - Len(Sorted) \in 1..Len(Others) /\ i = Len(Sorted) + (i - Len(Sorted))
    BY <1>2, <1>5
  <2> QED
    BY <1>2
<1> HIDE DEF s
<1>9. DOMAIN s = 1..(Len(Sorted) + Len(Others)) /\ SessionsOf(agents, panes, procs, Binding) = s
  BY <1>1, <1>5 DEF s
<1> QED
  BY <1>2, <1>6, <1>7, <1>8, <1>9

-----------------------------------------------------------------------------
(* What the commands print. *)

(* The sequence of process ids, as one over its own elements. *)
LEMMA PidsInTurn == Pids \in Seq(ToSet(Pids)) /\ IsInjective(Pids)
<1>1. Pids \in Seq(Nat \ {NoPid, 1}) /\ IsInjective(Pids)
  BY ScanAssumption
<1>2. DOMAIN Pids = 1..Len(Pids) /\ Len(Pids) \in Nat /\ Pids = [i \in 1..Len(Pids) |-> Pids[i]]
  BY <1>1
<1>3. \A i \in 1..Len(Pids) : Pids[i] \in ToSet(Pids)
  BY <1>2 DEF ToSet
<1>4. [i \in 1..Len(Pids) |-> Pids[i]] \in Seq(ToSet(Pids))
  BY <1>2, <1>3, IsASeq
<1> QED
  BY <1>1, <1>2, <1>4

(* The listing has the claudes that the supervisor knows of, as they are now, *)
(* and none twice.                                                            *)
LEMMA ListingOf ==
    ASSUME TypeOK, WorldInv
    PROVE  /\ Listing \in Seq(AgentEntry)
           /\ \A i, j \in DOMAIN Listing : i # j =>
                 /\ Listing[i].pid = Listing[j].pid => Listing[i].pid = NoPid
                 /\ SupervisorKey(Listing[i]) # SupervisorKey(Listing[j])
           /\ \A i \in DOMAIN Listing : \E c \in Claudes :
                 /\ Listed(c) /\ Listing[i].kind = proc[c].kind /\ Listing[i].cwd = proc[c].cwd
                 /\ Listing[i].pid = IF Alive(c) THEN c ELSE NoPid
           /\ \A c \in Claudes : Listed(c) => \E i \in DOMAIN Listing :
                 /\ Listing[i].kind = proc[c].kind /\ Listing[i].cwd = proc[c].cwd
                 /\ Listing[i].pid = IF Alive(c) THEN c ELSE NoPid
<1> DEFINE those == {c \in Claudes : Listed(c)}
           known == Those(Pids, those)
           pid(c) == IF Alive(c) THEN c ELSE NoPid
           entry(c) == [ident |-> Ident(c), kind |-> proc[c].kind, cwd |-> proc[c].cwd, pid |-> pid(c)]
<1>1. Listing = [i \in DOMAIN known |-> entry(known[i])]
  BY DEF Listing
<1>2. /\ known \in Seq(ToSet(Pids)) /\ IsInjective(known) /\ ToSet(known) = those
  <2>1. those \subseteq ToSet(Pids)
    BY PidFacts
  <2> HIDE DEF those
  <2>2. known \in Seq(ToSet(Pids)) /\ IsInjective(known) /\ ToSet(known) = ToSet(Pids) \cap those
    BY PidsInTurn, ThoseOf
  <2> QED
    BY <2>1, <2>2
<1> HIDE DEF known
<1>3. DOMAIN known = 1..Len(known) /\ Len(known) \in Nat
      /\ \A i \in DOMAIN known : known[i] \in Claudes /\ Listed(known[i])
  BY <1>2 DEF ToSet
<1>4. ASSUME NEW c \in Claudes, Listed(c) PROVE entry(c) \in AgentEntry
  <2>1. proc[c].kind \in Kinds
    BY DEF TypeOK, Process
  <2>2. proc[c].cwd \in Dirs
    BY <1>4 DEF WorldInv, Listed
  <2> QED
    BY <2>1, <2>2 DEF AgentEntry, Ident
<1>5. Listing \in Seq(AgentEntry)
  <2>1. \A i \in 1..Len(known) : entry(known[i]) \in AgentEntry
    BY <1>3, <1>4
  <2> HIDE DEF entry
  <2> QED
    BY <1>1, <1>3, <2>1
<1>6. ASSUME NEW c \in Claudes, NEW d \in Claudes, c # d, Listed(c), Listed(d)
      PROVE  /\ pid(c) = pid(d) => pid(c) = NoPid
             /\ SupervisorKey(entry(c)) # SupervisorKey(entry(d))
  <2>1. c # NoPid /\ d # NoPid /\ c # NoIdent /\ d # NoIdent
    BY PidFacts DEF NoPid, NoIdent
  <2>2. pid(c) = pid(d) => pid(c) = NoPid
    BY <1>6, <2>1
  <2>3. SupervisorKey(entry(c)) = IF c \in Degraded THEN <<"sup-pid", c>> ELSE <<"sup", c>>
    BY <1>6, <2>1 DEF SupervisorKey, Ident, Listed
  <2>4. SupervisorKey(entry(d)) = IF d \in Degraded THEN <<"sup-pid", d>> ELSE <<"sup", d>>
    BY <1>6, <2>1 DEF SupervisorKey, Ident, Listed
  <2> QED
    BY <1>6, <2>2, <2>3, <2>4
<1>7. DOMAIN Listing = DOMAIN known /\ \A i \in DOMAIN known : Listing[i] = entry(known[i])
  BY <1>1
<1> DEFINE l == Listing
<1>8. ASSUME NEW i \in DOMAIN known, NEW j \in DOMAIN known, i # j
      PROVE  /\ l[i].pid = l[j].pid => l[i].pid = NoPid
             /\ SupervisorKey(l[i]) # SupervisorKey(l[j])
  <2>1. /\ known[i] # known[j] /\ Listed(known[i]) /\ Listed(known[j])
        /\ known[i] \in Claudes /\ known[j] \in Claudes
    BY <1>2, <1>3, <1>8 DEF IsInjective
  <2>2. l[i] = entry(known[i]) /\ l[j] = entry(known[j]) /\ l[i].pid = pid(known[i]) /\ l[j].pid = pid(known[j])
    BY <1>7
  <2> QED
    BY <2>1, <2>2, <1>6
<1>9. ASSUME NEW i \in DOMAIN known
      PROVE  \E c \in Claudes : /\ Listed(c) /\ l[i].kind = proc[c].kind /\ l[i].cwd = proc[c].cwd
                                /\ l[i].pid = pid(c)
  BY <1>3, <1>7
<1>10. ASSUME NEW c \in Claudes, Listed(c)
       PROVE  \E i \in DOMAIN known : /\ l[i].kind = proc[c].kind /\ l[i].cwd = proc[c].cwd
                                     /\ l[i].pid = pid(c)
  <2>1. PICK i \in DOMAIN known : known[i] = c
    BY <1>2, <1>10 DEF ToSet
  <2> QED
    BY <2>1, <1>7
<1> HIDE DEF l
<1>11. l \in Seq(AgentEntry) /\ DOMAIN l = DOMAIN known /\ l = Listing
  BY <1>5, <1>7 DEF l
<1> QED
  BY <1>8, <1>9, <1>10, <1>11

(* The list of panes has the open ones, and none twice. *)
LEMMA PaneListOf ==
    /\ PaneList \in Seq(PaneEntry)
    /\ \A i \in DOMAIN PaneList :
          /\ PaneList[i].pid = PanePid[PaneList[i].id] /\ PaneList[i].path = PanePath[PaneList[i].id]
          /\ \A j \in DOMAIN PaneList : PaneList[i].id = PaneList[j].id => i = j
    /\ \A p \in Open : \E i \in DOMAIN PaneList : PaneList[i].id = p
<1> DEFINE ids  == [i \in Panes |-> i]
           open == Those(ids, Open)
           entry(i) == [id |-> i, pid |-> PanePid[i], path |-> PanePath[i]]
<1>1. PaneList = [i \in DOMAIN open |-> entry(open[i])]
  BY DEF PaneList
<1>2. ids \in Seq(Panes) /\ IsInjective(ids) /\ ToSet(ids) = Panes
  <2>1. DOMAIN ids = Panes /\ \A i \in Panes : ids[i] = i
    OBVIOUS
  <2>2. ids \in Seq(Panes)
    BY PidFacts
  <2> QED
    BY <2>1, <2>2 DEF IsInjective, ToSet
<1>3. open \in Seq(Panes) /\ IsInjective(open) /\ ToSet(open) = Panes \cap Open
  BY <1>2, ThoseOf
<1> HIDE DEF open, ids
<1>4. DOMAIN open = 1..Len(open) /\ Len(open) \in Nat /\ \A i \in DOMAIN open : open[i] \in Panes
  BY <1>3
<1>5. \A p \in Panes : entry(p) \in PaneEntry
  BY PidFacts DEF PaneEntry
<1>6. PaneList \in Seq(PaneEntry)
  <2>1. \A i \in 1..Len(open) : entry(open[i]) \in PaneEntry
    BY <1>4, <1>5
  <2> HIDE DEF entry
  <2> QED
    BY <1>1, <1>4, <2>1
<1>7. DOMAIN PaneList = DOMAIN open /\ \A i \in DOMAIN open : PaneList[i] = entry(open[i])
  BY <1>1
<1>8. \A p \in Open : \E i \in DOMAIN open : open[i] = p
  <2>1. Open \subseteq Panes
    BY DEF Open
  <2> QED
    BY <1>3, <2>1 DEF ToSet
<1>9. \A i, j \in DOMAIN open : open[i] = open[j] => i = j
  BY <1>3 DEF IsInjective
<1> QED
  BY <1>6, <1>7, <1>8, <1>9

(* The process table has the claudes that are alive, below their parents, and *)
(* none twice.                                                                *)
LEMMA ProcTableOf ==
    ASSUME TypeOK, WorldInv
    PROVE  /\ ProcTable \in Seq(ProcEntry)
           /\ \A i \in DOMAIN ProcTable :
                 /\ ProcTable[i].claude <=> ProcTable[i].pid \in Claudes
                 /\ \A p \in Panes : ProcTable[i].pid = PanePid[p] => ProcTable[i].ppid = System
                 /\ \A j \in DOMAIN ProcTable : ProcTable[i].pid = ProcTable[j].pid => i = j
           /\ \A c \in Claudes : Alive(c) => \E i \in DOMAIN ProcTable :
                 ProcTable[i].pid = c /\ ProcTable[i].ppid = proc[c].parent /\ ProcTable[i].claude
           /\ \A i \in DOMAIN ProcTable : ProcTable[i].pid \in Claudes =>
                 Alive(ProcTable[i].pid) /\ ProcTable[i].ppid = proc[ProcTable[i].pid].parent
<1> DEFINE those   == Shells \cup {c \in Claudes : Alive(c)}
           running == Those(Pids, those)
           entry(x) == [pid    |-> x,
                        ppid   |-> IF x \in Claudes THEN proc[x].parent ELSE System,
                        claude |-> x \in Claudes]
<1>1. ProcTable = [i \in DOMAIN running |-> entry(running[i])]
  BY DEF ProcTable
<1>2. /\ running \in Seq(ToSet(Pids)) /\ IsInjective(running) /\ ToSet(running) = those
  <2>1. those \subseteq ToSet(Pids)
    BY PidFacts
  <2> HIDE DEF those
  <2>2. running \in Seq(ToSet(Pids)) /\ IsInjective(running) /\ ToSet(running) = ToSet(Pids) \cap those
    BY PidsInTurn, ThoseOf
  <2> QED
    BY <2>1, <2>2
<1> HIDE DEF running
<1>3. DOMAIN running = 1..Len(running) /\ Len(running) \in Nat /\ \A i \in DOMAIN running : running[i] \in those
  BY <1>2 DEF ToSet
<1>4. ASSUME NEW x \in those PROVE entry(x) \in ProcEntry
  <2>1. x \in Claudes => proc[x].parent \in {System} \cup Shells \cup Claudes
    BY DEF TypeOK, Process
  <2> QED
    BY <2>1 DEF ProcEntry
<1>5. ProcTable \in Seq(ProcEntry)
  <2>1. \A i \in 1..Len(running) : entry(running[i]) \in ProcEntry
    BY <1>3, <1>4
  <2> HIDE DEF entry
  <2> QED
    BY <1>1, <1>3, <2>1
<1>6. DOMAIN ProcTable = DOMAIN running /\ \A i \in DOMAIN running : ProcTable[i] = entry(running[i])
  BY <1>1
<1>7. \A i, j \in DOMAIN running : running[i] = running[j] => i = j
  BY <1>2 DEF IsInjective
<1>8. \A c \in Claudes : Alive(c) => \E i \in DOMAIN running : running[i] = c
  BY <1>2 DEF ToSet
<1>9. \A x \in Claudes, p \in Panes : x = PanePid[p] => proc[x].parent = System
  BY DEF WorldInv
<1>10. \A x \in those : x \in Claudes => Alive(x)
  BY DEF Shells, Direct
<1> DEFINE t == ProcTable
<1>15. ASSUME NEW i \in DOMAIN running
       PROVE  /\ t[i].pid = running[i] /\ (t[i].claude <=> running[i] \in Claudes)
              /\ running[i] \in Claudes => t[i].ppid = proc[running[i]].parent
  <2> DEFINE x == running[i]
  <2>1. t[i] = entry(x)
    BY <1>6
  <2> HIDE DEF t, x
  <2>2. t[i].claude = (x \in Claudes)
    <3> DEFINE u == proc[x].parent
               v == IF x \in Claudes THEN u ELSE System
               b == x \in Claudes
    <3>1. t[i] = [pid |-> x, ppid |-> v, claude |-> b]
      BY <2>1
    <3> HIDE DEF b, v
    <3>2. t[i].claude = b
      BY <3>1
    <3> QED
      BY <3>2 DEF b
  <2>3. t[i].pid = x /\ (x \in Claudes => t[i].ppid = proc[x].parent)
    BY <2>1
  <2> QED
    BY <2>2, <2>3 DEF x
<1>11. ASSUME NEW i \in DOMAIN running
       PROVE  /\ t[i].claude <=> t[i].pid \in Claudes
              /\ \A p \in Panes : t[i].pid = PanePid[p] => t[i].ppid = System
              /\ t[i].pid \in Claudes => Alive(t[i].pid) /\ t[i].ppid = proc[t[i].pid].parent
  <2>1. t[i].claude <=> t[i].pid \in Claudes
    BY <1>15
  <2>2. \A p \in Panes : t[i].pid = PanePid[p] => t[i].ppid = System
    BY <1>6, <1>9
  <2>3. t[i].pid \in Claudes => Alive(t[i].pid) /\ t[i].ppid = proc[t[i].pid].parent
    BY <1>3, <1>6, <1>10
  <2> QED
    BY <2>1, <2>2, <2>3
<1>12. \A i, j \in DOMAIN running : t[i].pid = t[j].pid => i = j
  BY <1>6, <1>7
<1>13. ASSUME NEW c \in Claudes, Alive(c)
       PROVE  \E i \in DOMAIN running : t[i].pid = c /\ t[i].ppid = proc[c].parent /\ t[i].claude
  <2>1. PICK i \in DOMAIN running : running[i] = c
    BY <1>8, <1>13
  <2> QED
    BY <2>1, <1>15
<1> HIDE DEF t
<1>14. t \in Seq(ProcEntry) /\ DOMAIN t = DOMAIN running /\ t = ProcTable
  BY <1>5, <1>6 DEF t
<1> QED
  BY <1>11, <1>12, <1>13, <1>14

-----------------------------------------------------------------------------
(* Every step preserves the invariant. *)

(* The empty sequence is one over any set. *)
LEMMA Nothing == \A S : <<>> \in Seq(S)
OBVIOUS

(* The invariant holds in the beginning. *)
LEMMA ScanInvInit == Init => ScanInv
<1> SUFFICES ASSUME Init PROVE ScanInv
  OBVIOUS
<1>1. TypeOK
  <2>1. Unborn \in Process
    BY DEF Unborn, Process, Life, Kinds
  <2>2. proc \in [Claudes -> Process]
    BY <2>1 DEF Init
  <2> QED
    <3>1. mode \in {"daemon", "collect"} /\ phase = "agents" /\ steady = {} /\ flawless \in BOOLEAN
      BY Zenon DEF Init
    <3>2. snap = <<>> /\ agents = <<>> /\ panes = <<>> /\ procs = <<>>
      BY Zenon DEF Init
    <3>3. DOMAIN snap = {}
      BY <3>2
    <3>4. agents \in Seq(AgentEntry) /\ panes \in Seq(PaneEntry) /\ procs \in Seq(ProcEntry)
      BY <3>2, Nothing, Zenon
    <3> QED
      BY <2>2, <3>1, <3>3, <3>4 DEF TypeOK
<1>2. WorldInv
  <2>1. \A c \in Claudes : proc[c] = Unborn
    BY DEF Init
  <2>2. System \notin Claudes
    BY PidFacts
  <2> QED
    <3> SUFFICES ASSUME NEW c \in Claudes
                 PROVE  /\ proc[c].life = "unborn" /\ proc[c].kind = "unlisted" /\ proc[c].parent = System
      BY <2>2 DEF WorldInv
    <3> QED
      <4>1. proc[c] = Unborn
        BY <2>1
      <4>2. Unborn.life = "unborn" /\ Unborn.kind = "unlisted" /\ Unborn.parent = System
        BY DEF Unborn
      <4> QED
        BY <4>1, <4>2
<1>3. AgentsInv /\ PanesInv /\ ProcsInv
  BY DEF Init, AgentsInv, PanesInv, ProcsInv
<1> QED
  BY <1>1, <1>2, <1>3 DEF ScanInv

(* The listing of the agents preserves it. *)
LEMMA AgentsKeeps ==
    ASSUME ScanInv, NEW ok \in BOOLEAN, Agents(ok)
    PROVE  ScanInv'
<1> USE DEF ScanInv
<1>1. agents' = Listing \/ agents' = <<>>
  BY DEF Agents
<1>2. agents' \in Seq(AgentEntry)
  BY <1>1, ListingOf, Nothing
<1>3. TypeOK'
  BY <1>2 DEF TypeOK, Agents, Alive
<1>4. AgentsInv'
  BY <1>1, ListingOf DEF AgentsInv
<1>5. (WorldInv /\ PanesInv /\ ProcsInv)'
  BY DEF Agents, WorldInv, PanesInv, ProcsInv, Alive
<1> QED
  BY <1>3, <1>4, <1>5

(* The list of the panes preserves it, read, failed or not due. *)
LEMMA PanesKeep ==
    ASSUME ScanInv, ListPanes \/ PanesFail \/ TmuxNotDue
    PROVE  ScanInv'
<1> USE DEF ScanInv
<1>1. panes' = PaneList \/ panes' = panes \/ panes' = <<>>
  BY DEF ListPanes, PanesFail, TmuxNotDue
<1>2. procs' = procs \/ procs' = <<>>
  BY DEF ListPanes, PanesFail, TmuxNotDue
<1>3. phase' \in {"procs", "correlate"}
  BY DEF ListPanes, PanesFail, TmuxNotDue
<1>4. flawless' = flawless \/ flawless' = FALSE
  BY DEF ListPanes, PanesFail, TmuxNotDue
<1>5. UNCHANGED <<mode, proc, agents, snap, steady>>
  BY DEF ListPanes, PanesFail, TmuxNotDue
<1>6. panes' \in Seq(PaneEntry)
  <2>1. panes \in Seq(PaneEntry)
    BY DEF TypeOK
  <2> QED
    <3>1. PaneList \in Seq(PaneEntry)
      BY PaneListOf
    <3> QED
      BY <1>1, <2>1, <3>1, Nothing
<1>7. procs' \in Seq(ProcEntry)
  BY <1>2, Nothing DEF TypeOK
<1>8. TypeOK'
  BY <1>3, <1>4, <1>5, <1>6, <1>7 DEF TypeOK, Alive
<1>9. PanesInv'
  BY <1>1, PaneListOf DEF PanesInv
<1>10. ProcsInv'
  BY <1>2 DEF ProcsInv
<1>11. WorldInv' /\ AgentsInv'
  BY <1>5 DEF WorldInv, AgentsInv, Alive
<1> QED
  BY <1>8, <1>9, <1>10, <1>11

(* The process table preserves it, read or failed. *)
LEMMA ProcessesKeeps ==
    ASSUME ScanInv, NEW ok \in BOOLEAN, Processes(ok)
    PROVE  ScanInv'
<1> USE DEF ScanInv
<1>1. procs' = ProcTable \/ procs' = procs \/ procs' = <<>>
  BY DEF Processes, TypeOK
<1>2. procs' \in Seq(ProcEntry)
  BY <1>1, ProcTableOf, Nothing DEF TypeOK
<1>3. flawless' \in BOOLEAN
  BY DEF Processes, TypeOK
<1>4. TypeOK'
  BY <1>2, <1>3 DEF TypeOK, Processes, Alive
<1>5. ProcsInv'
  BY <1>1, ProcTableOf DEF ProcsInv
<1>6. (WorldInv /\ AgentsInv /\ PanesInv)'
  BY DEF Processes, WorldInv, AgentsInv, PanesInv, Alive
<1> QED
  BY <1>4, <1>5, <1>6

(* The snapshot preserves it. *)
LEMMA CorrelatedKeeps ==
    ASSUME ScanInv, Correlated
    PROVE  ScanInv'
<1> USE DEF ScanInv
<1>1. snap' = SessionsOf(agents, panes, procs, Binding)
  BY DEF Correlated
<1>2. ASSUME NEW i \in DOMAIN snap' PROVE snap'[i].pid \in Claudes \cup {NoPid}
  <2>1. CASE i \in DOMAIN Sorted
    <3>1. snap'[i] = Supervised(i) /\ Sorted[i] \in AgentEntry
      BY <1>1, <2>1, SessionsAre, SortedFacts
    <3> QED
      BY <3>1 DEF Supervised, AgentEntry
  <2>2. CASE \E k \in DOMAIN Others : i = Len(Sorted) + k
    <3>1. PICK k \in DOMAIN Others : snap'[i] = Unknown(k)
      BY <1>1, <2>2, SessionsAre
    <3>2. Others[k] \in ToSet(Others)
      BY DEF ToSet
    <3>3. Others[k].id \in Panes /\ Others[k].pid = PanePid[Others[k].id]
      BY <3>2, OthersFacts, PaneFacts
    <3>4. FindClaudeDescendant(procs, Others[k].pid) \in Claudes \cup {NoPid}
      BY <3>3, TreeFacts
    <3> QED
      BY <3>1, <3>4 DEF Unknown
  <2> QED
    BY <1>1, <2>1, <2>2, SessionsAre
<1>3. /\ panes' = panes \/ panes' = <<>>
      /\ procs' = procs \/ procs' = <<>>
      /\ agents' = <<>> /\ phase' = "agents"
      /\ UNCHANGED <<mode, proc, steady, flawless>>
  BY DEF Correlated
<1>4. TypeOK'
  <2>1. panes' \in Seq(PaneEntry) /\ procs' \in Seq(ProcEntry) /\ agents' \in Seq(AgentEntry)
    BY <1>3, Nothing DEF TypeOK
  <2> QED
    BY <1>2, <1>3, <2>1 DEF TypeOK, Alive
<1>5. (WorldInv /\ AgentsInv /\ PanesInv /\ ProcsInv)'
  BY <1>3 DEF WorldInv, AgentsInv, PanesInv, ProcsInv, Alive
<1> QED
  BY <1>4, <1>5

(* What a step of the environment leaves to the cycle. *)
LEMMA WorldTurns ==
    ASSUME ScanInv, UNCHANGED <<mode, phase, agents, panes, procs, snap, flawless>>,
           proc' \in [Claudes -> Process], WorldInv', steady' \subseteq {c \in Claudes : Alive(c)'}
    PROVE  ScanInv'
<1> USE DEF ScanInv
<1>1. TypeOK'
  BY DEF TypeOK
<1>2. (AgentsInv /\ PanesInv /\ ProcsInv)'
  BY DEF AgentsInv, PanesInv, ProcsInv
<1> QED
  BY <1>1, <1>2

(* A process that starts or changes preserves it if it runs, in a directory,  *)
(* below what is alive, and below the system if it is what a pane runs.       *)
LEMMA BecomesKeeps ==
    ASSUME ScanInv, NEW c \in Claudes, NEW p \in Process, Becomes(c, p),
           p.life = "alive", p.cwd \in Dirs,
           p.parent \in Claudes => Alive(p.parent),
           c \in {PanePid[i] : i \in Panes} => p.parent = System
    PROVE  ScanInv'
<1> USE DEF ScanInv
<1>1. /\ proc' = [proc EXCEPT ![c] = p] /\ steady' = steady \ {c}
      /\ UNCHANGED <<mode, phase, agents, panes, procs, snap, flawless>>
  BY DEF Becomes
<1>2. proc \in [Claudes -> Process] /\ steady \subseteq {d \in Claudes : Alive(d)}
  BY DEF TypeOK
<1>3. proc' \in [Claudes -> Process] /\ proc'[c] = p /\ \A d \in Claudes \ {c} : proc'[d] = proc[d]
  BY <1>1, <1>2
<1>4. \A d \in Claudes : Alive(d) => Alive(d)'
  BY <1>3 DEF Alive
<1>7. \A d \in Claudes : Alive(d) => proc'[d].life = "alive"
  BY <1>4 DEF Alive
<1>5. steady' \subseteq {d \in Claudes : Alive(d)'}
  BY <1>1, <1>2, <1>4
<1>6. WorldInv'
  <2> SUFFICES ASSUME NEW d \in Claudes
               PROVE  /\ proc'[d].life = "unborn" => proc'[d].kind = "unlisted" /\ proc'[d].parent = System
                      /\ proc'[d].life # "unborn" => proc'[d].cwd \in Dirs
                      /\ proc'[d].parent \in Claudes => proc'[proc'[d].parent].life = "alive"
                      /\ d \in {PanePid[i] : i \in Panes} => proc'[d].parent = System
    BY DEF WorldInv, Alive
  <2>1. CASE d = c
    <3>1. proc'[d] = p
      BY <1>3, <2>1
    <3> QED
      BY <1>7, <2>1, <3>1
  <2>2. CASE d # c
    <3>1. proc'[d] = proc[d]
      BY <1>3, <2>2
    <3> QED
      BY <1>7, <3>1 DEF WorldInv
  <2> QED
    BY <2>1, <2>2
<1> QED
  BY <1>1, <1>3, <1>5, <1>6, WorldTurns

(* A claude that starts in a pane preserves it. *)
LEMMA StartInPaneKeeps ==
    ASSUME ScanInv, NEW c \in Claudes, NEW i \in Panes, StartInPane(c, i)
    PROVE  ScanInv'
<1> DEFINE p == [life |-> "alive", kind |-> "unlisted", cwd |-> PanePath[i],
                 parent |-> IF i \in Direct THEN System ELSE PanePid[i]]
<1>1. Becomes(c, p)
  BY DEF StartInPane
<1>2. i \notin Direct => PanePid[i] \in Shells /\ PanePid[i] \notin Claudes
  BY DEF Shells, Direct
<1>3. /\ p.life = "alive" /\ p.kind = "unlisted" /\ p.cwd = PanePath[i]
      /\ p.parent = IF i \in Direct THEN System ELSE PanePid[i]
  OBVIOUS
<1>4. PanePath[i] \in Dirs /\ System \notin Claudes
  BY PidFacts
<1>5. p \in Process
  BY <1>2, <1>4 DEF Process, Life, Kinds
<1>6. c \in {PanePid[k] : k \in Panes} => i \in Direct
  BY DEF StartInPane, Direct
<1> HIDE DEF p
<1> QED
  BY <1>1, <1>2, <1>3, <1>4, <1>5, <1>6, BecomesKeeps

(* A background job that starts preserves it. *)
LEMMA StartBackgroundKeeps ==
    ASSUME ScanInv, NEW c \in Claudes, NEW dir \in Dirs,
           NEW parent \in {System} \cup Shells \cup Claudes, StartBackground(c, parent, dir)
    PROVE  ScanInv'
<1> DEFINE p == [life |-> "alive", kind |-> "background", cwd |-> dir, parent |-> parent]
<1>1. Becomes(c, p)
  BY DEF StartBackground
<1>2. p \in Process /\ p.life = "alive" /\ p.cwd = dir /\ p.parent = parent
  BY DEF Process, Life, Kinds
<1>3. Shells \cap Claudes = {} /\ System \notin Claudes
  BY PidFacts DEF Shells, Direct
<1>4. parent \in Claudes => Alive(parent)
  BY <1>3 DEF StartBackground
<1>5. c \notin {PanePid[k] : k \in Panes}
  BY DEF StartBackground, Direct
<1> HIDE DEF p
<1> QED
  BY <1>1, <1>2, <1>4, <1>5, BecomesKeeps

(* The supervisor's taking note preserves it. *)
LEMMA RegistersKeeps ==
    ASSUME ScanInv, NEW c \in Claudes, Registers(c)
    PROVE  ScanInv'
<1> DEFINE p == [proc[c] EXCEPT !.kind = "interactive"]
<1>1. Becomes(c, p) /\ proc[c].life = "alive"
  BY DEF Registers, Alive
<1>2. proc[c] \in Process /\ WorldInv
  BY DEF ScanInv, TypeOK
<1>3. p \in Process /\ p.life = "alive" /\ p.cwd = proc[c].cwd /\ p.parent = proc[c].parent
  BY <1>1, <1>2 DEF Process, Kinds
<1>4. /\ proc[c].cwd \in Dirs /\ (proc[c].parent \in Claudes => Alive(proc[c].parent))
      /\ c \in {PanePid[k] : k \in Panes} => proc[c].parent = System
  BY <1>1, <1>2 DEF WorldInv
<1> HIDE DEF p
<1> QED
  BY <1>1, <1>3, <1>4, BecomesKeeps

(* A claude that ends preserves it: its children become the system's. *)
LEMMA ExitsKeeps ==
    ASSUME ScanInv, NEW c \in Claudes, Exits(c)
    PROVE  ScanInv'
<1>1. /\ proc' = [d \in Claudes |->
                    IF d = c THEN [proc[c] EXCEPT !.life = "ended", !.parent = System]
                    ELSE IF proc[d].parent = c THEN [proc[d] EXCEPT !.parent = System]
                    ELSE proc[d]]
      /\ steady' = steady \ ({c} \cup {d \in Claudes : proc[d].parent = c})
      /\ UNCHANGED <<mode, phase, agents, panes, procs, snap, flawless>>
      /\ proc[c].life = "alive"
  BY DEF Exits, Alive
<1>2. /\ proc \in [Claudes -> Process] /\ steady \subseteq {d \in Claudes : Alive(d)} /\ WorldInv
  BY DEF ScanInv, TypeOK
<1>3. ASSUME NEW d \in Claudes
      PROVE  /\ proc'[d] \in Process /\ proc'[d].cwd = proc[d].cwd /\ proc'[d].kind = proc[d].kind
             /\ proc'[d].life = IF d = c THEN "ended" ELSE proc[d].life
             /\ proc'[d].parent = IF d = c \/ proc[d].parent = c THEN System ELSE proc[d].parent
  <2>1. CASE d = c
    <3>1. proc'[d] = [proc[d] EXCEPT !.life = "ended", !.parent = System] /\ proc[d] \in Process
      BY <1>1, <1>2, <2>1
    <3>2. /\ proc'[d] \in Process /\ proc'[d].cwd = proc[d].cwd /\ proc'[d].kind = proc[d].kind
          /\ proc'[d].life = "ended" /\ proc'[d].parent = System
      BY <3>1 DEF Process, Life
    <3> QED
      BY <2>1, <3>2
  <2>2. CASE d # c /\ proc[d].parent = c
    <3>1. proc'[d] = [proc[d] EXCEPT !.parent = System] /\ proc[d] \in Process
      BY <1>1, <1>2, <2>2
    <3>2. /\ proc'[d] \in Process /\ proc'[d].cwd = proc[d].cwd /\ proc'[d].kind = proc[d].kind
          /\ proc'[d].life = proc[d].life /\ proc'[d].parent = System
      BY <3>1 DEF Process
    <3> QED
      BY <2>2, <3>2
  <2>3. CASE d # c /\ proc[d].parent # c
    BY <1>1, <1>2, <2>3
  <2> QED
    BY <2>1, <2>2, <2>3
<1>4. proc' \in [Claudes -> Process]
  BY <1>1, <1>3
<1>5. steady' \subseteq {d \in Claudes : Alive(d)'}
  BY <1>1, <1>2, <1>3 DEF Alive
<1>6. System \notin Claudes
  BY PidFacts
<1>7. WorldInv'
  <2> SUFFICES ASSUME NEW d \in Claudes
               PROVE  /\ proc'[d].life = "unborn" => proc'[d].kind = "unlisted" /\ proc'[d].parent = System
                      /\ proc'[d].life # "unborn" => proc'[d].cwd \in Dirs
                      /\ proc'[d].parent \in Claudes => proc'[proc'[d].parent].life = "alive"
                      /\ d \in {PanePid[i] : i \in Panes} => proc'[d].parent = System
    BY DEF WorldInv, Alive
  <2>1. /\ proc[d].life = "unborn" => proc[d].kind = "unlisted" /\ proc[d].parent = System
        /\ proc[d].life # "unborn" => proc[d].cwd \in Dirs
        /\ proc[d].parent \in Claudes => proc[proc[d].parent].life = "alive"
        /\ d \in {PanePid[i] : i \in Panes} => proc[d].parent = System
    BY <1>2 DEF WorldInv, Alive
  <2>2. proc'[d].parent \in Claudes =>
           /\ proc'[d].parent = proc[d].parent /\ proc[d].parent # c
           /\ proc'[proc[d].parent].life = proc[proc[d].parent].life
    BY <1>3, <1>6
  <2> QED
    BY <1>1, <1>3, <2>1, <2>2
<1> QED
  BY <1>1, <1>4, <1>5, <1>7, WorldTurns

(* Every step preserves the invariant. *)
LEMMA ScanInvNext == ScanInv /\ [Next]_vars => ScanInv'
<1> SUFFICES ASSUME ScanInv, [Next]_vars PROVE ScanInv'
  OBVIOUS
<1>1. ASSUME NEW ok \in BOOLEAN, Agents(ok) PROVE ScanInv'
  BY <1>1, AgentsKeeps
<1>2. ASSUME NEW ok \in BOOLEAN, Processes(ok) PROVE ScanInv'
  BY <1>2, ProcessesKeeps
<1>3. CASE ListPanes \/ PanesFail \/ TmuxNotDue
  BY <1>3, PanesKeep
<1>4. CASE Correlated
  BY <1>4, CorrelatedKeeps
<1>5. ASSUME NEW c \in Claudes, NEW i \in Panes, StartInPane(c, i) PROVE ScanInv'
  BY <1>5, StartInPaneKeeps
<1>6. ASSUME NEW c \in Claudes, NEW parent \in {System} \cup Shells \cup Claudes, NEW dir \in Dirs,
             StartBackground(c, parent, dir)
      PROVE  ScanInv'
  BY <1>6, StartBackgroundKeeps
<1>7. ASSUME NEW c \in Claudes, Registers(c) PROVE ScanInv'
  BY <1>7, RegistersKeeps
<1>8. ASSUME NEW c \in Claudes, Exits(c) PROVE ScanInv'
  BY <1>8, ExitsKeeps
<1>9. CASE UNCHANGED vars
  BY <1>9 DEF vars, ScanInv, TypeOK, WorldInv, AgentsInv, PanesInv, ProcsInv, Alive
<1> QED
  BY <1>1, <1>2, <1>3, <1>4, <1>5, <1>6, <1>7, <1>8, <1>9 DEF Next

(* The inductive invariant holds of every reachable state. *)
THEOREM ScanInvariant == Spec => []ScanInv
<1> QED
  BY ScanInvInit, ScanInvNext, PTL DEF Spec

(* The types, of which the one of the sessions' processes is not obvious:     *)
(* what a snapshot shows as running is a claude, also where the process table *)
(* is old or has failed.                                                      *)
THEOREM ScanTypeCorrect == Spec => []TypeOK
<1>1. ScanInv => TypeOK
  BY DEF ScanInv
<1> QED
  BY <1>1, ScanInvariant, PTL

-----------------------------------------------------------------------------
(* No pane and no session twice. *)

(* The sessions of a snapshot that is made now. *)
Sessions == SessionsOf(agents, panes, procs, Binding)

(* A session is an agent's or that of an unknown claude. *)
LEMMA SessionIs ==
    ASSUME ScanInv, NEW i \in DOMAIN Sessions
    PROVE  \/ i \in DOMAIN Sorted /\ Sessions[i] = Supervised(i)
           \/ \E k \in DOMAIN Others : i = Len(Sorted) + k /\ Sessions[i] = Unknown(k)
BY SessionsAre DEF ScanInv, Sessions

(* What is known of the pane of an unknown claude: nobody has claimed it, and *)
(* its claude is in its tree.                                                 *)
LEMMA OtherIs ==
    ASSUME ScanInv, NEW k \in DOMAIN Others
    PROVE  /\ Others[k].id \in Panes /\ Others[k].id \notin ToSet(Got) /\ Others[k].id # NoPane
           /\ Others[k] \in ToSet(panes)
           /\ Others[k].pid = PanePid[Others[k].id] /\ Others[k].path = PanePath[Others[k].id]
           /\ FindClaudeDescendant(procs, Others[k].pid) \in Tree(Others[k].id) \cap Claudes
           /\ FindClaudeDescendant(procs, Others[k].pid) # NoPid
           /\ \A l \in DOMAIN Others : Others[k].id = Others[l].id => k = l
<1> USE DEF ScanInv
<1>1. \A l \in DOMAIN Others : Others[l] \in ToSet(Others)
  BY DEF ToSet
<1>2. /\ \A o \in ToSet(Others) : o \in ToSet(panes) /\ o.id \notin ToSet(Got)
                                  /\ FindClaudeDescendant(procs, PanePid[o.id]) # NoPid
      /\ IsInjective(Others)
  BY OthersFacts
<1>3. \A l \in DOMAIN Others : Others[k].id = Others[l].id => k = l
  BY <1>1, <1>2, PaneFacts DEF IsInjective
<1>4. /\ Others[k].id \in Panes /\ Others[k].id # NoPane /\ Others[k] \in ToSet(panes)
      /\ Others[k].pid = PanePid[Others[k].id] /\ Others[k].path = PanePath[Others[k].id]
  BY <1>1, <1>2, PaneFacts
<1>5. Others[k].id \notin ToSet(Got) /\ FindClaudeDescendant(procs, PanePid[Others[k].id]) # NoPid
  BY <1>1, <1>2
<1>6. FindClaudeDescendant(procs, PanePid[Others[k].id]) \in Tree(Others[k].id) \cap Claudes
  BY <1>4, <1>5, TreeFacts
<1> QED
  BY <1>3, <1>4, <1>5, <1>6

(* Nobody claims a pane that has been claimed. *)
LEMMA GotOnce ==
    ASSUME ScanInv, NEW i \in DOMAIN Sorted, NEW j \in DOMAIN Sorted, i < j, Got[i] = Got[j]
    PROVE  Got[j] = NoPane
<1> USE DEF ScanInv
<1>1. Got[i] \in Before(Got, j)
  BY SortedFacts DEF Before
<1> DEFINE mine == {p \in ToSet(panes) : p.id \notin Before(Got, j) /\ Sorted[j].pid \in Tree(p.id)}
<1>2. Got[j] = NoPane \/ \E p \in mine : Got[j] = p.id
  BY GotFacts
<1> QED
  BY <1>1, <1>2

(* By the turn of a session whose process is below a pane, the pane is claimed. *)
LEMMA ClaimedByThen ==
    ASSUME ScanInv, NEW m \in DOMAIN Sorted, NEW q \in ToSet(panes), Sorted[m].pid \in Tree(q.id)
    PROVE  \E l \in DOMAIN Sorted : l <= m /\ Got[l] = q.id
<1> USE DEF ScanInv
<1>1. DOMAIN Sorted = 1..Len(Sorted) /\ Len(Sorted) \in Nat
  BY SortedFacts
<1>2. CASE q.id \in Before(Got, m)
  <2>1. PICK l \in 1..(m - 1) : Got[l] = q.id
    BY <1>2 DEF Before
  <2> QED
    BY <1>1, <2>1
<1>3. CASE q.id \notin Before(Got, m)
  <2> DEFINE mine == {p \in ToSet(panes) : p.id \notin Before(Got, m) /\ Sorted[m].pid \in Tree(p.id)}
  <2>1. q \in mine /\ q.id \in Panes
    BY <1>3, PaneFacts
  <2>2. Sorted[m].pid # NoPid
    BY <2>1, TreeFacts, PidFacts
  <2>3. \E p \in mine : Got[m] = p.id
    BY <2>1, <2>2, GotFacts
  <2>4. PICK p \in mine : Got[m] = p.id
    BY <2>3
  <2>5. p.id = q.id
    BY <2>1, PaneFacts, TreeFacts
  <2> QED
    BY <1>1, <2>4, <2>5
<1> QED
  BY <1>2, <1>3

(* No two sessions of a snapshot have one pane. *)
LEMMA PanesApart ==
    ASSUME ScanInv, NEW i \in DOMAIN Sessions, NEW j \in DOMAIN Sessions, i # j,
           Sessions[i].pane = Sessions[j].pane
    PROVE  Sessions[i].pane = NoPane
<1> USE DEF ScanInv
<1>1. \A k \in DOMAIN Sorted : Supervised(k).pane = Got[k] /\ k \in DOMAIN Got
  BY GotFacts DEF Supervised
<1>2. \A k \in DOMAIN Others : Unknown(k).pane = Others[k].id
  BY DEF Unknown
<1>3. ASSUME NEW m \in DOMAIN Sorted, NEW k \in DOMAIN Others, Got[m] = Others[k].id PROVE FALSE
  BY <1>1, <1>3, OtherIs DEF ToSet
<1>4. CASE /\ i \in DOMAIN Sorted /\ Sessions[i] = Supervised(i)
           /\ j \in DOMAIN Sorted /\ Sessions[j] = Supervised(j)
  <2>1. Got[i] = Got[j] /\ (i < j \/ j < i)
    BY <1>1, <1>4, SortedFacts
  <2> QED
    BY <1>1, <1>4, <2>1, GotOnce
<1>5. CASE /\ \E k \in DOMAIN Others : i = Len(Sorted) + k /\ Sessions[i] = Unknown(k)
           /\ \E k \in DOMAIN Others : j = Len(Sorted) + k /\ Sessions[j] = Unknown(k)
  <2>1. PICK k \in DOMAIN Others : i = Len(Sorted) + k /\ Sessions[i] = Unknown(k)
    BY <1>5
  <2>2. PICK l \in DOMAIN Others : j = Len(Sorted) + l /\ Sessions[j] = Unknown(l)
    BY <1>5
  <2> QED
    BY <1>2, <2>1, <2>2, OtherIs
<1> QED
  BY <1>1, <1>2, <1>3, <1>4, <1>5, SessionIs

(* No two have one key or one process: an unknown claude that is an agent's   *)
(* process as well would be in the tree of a pane that the agent has had the  *)
(* occasion to claim.                                                         *)
LEMMA SessionsApart ==
    ASSUME ScanInv, NEW i \in DOMAIN Sessions, NEW j \in DOMAIN Sessions, i # j
    PROVE  /\ Sessions[i].key # Sessions[j].key
           /\ Sessions[i].pid = Sessions[j].pid => Sessions[i].pid = NoPid
<1> USE DEF ScanInv
<1> DEFINE found(k) == FindClaudeDescendant(procs, Others[k].pid)
<1>1. \A k \in DOMAIN Sorted : Supervised(k).key = SupervisorKey(Sorted[k]) /\ Supervised(k).pid = Sorted[k].pid
  BY DEF Supervised
<1>2. \A k \in DOMAIN Others : Unknown(k).key = <<"tmux", Others[k].id, found(k)>> /\ Unknown(k).pid = found(k)
  BY DEF Unknown, TmuxKey
<1>3. ASSUME NEW m \in DOMAIN Sorted, NEW k \in DOMAIN Others
      PROVE  /\ SupervisorKey(Sorted[m]) # <<"tmux", Others[k].id, found(k)>>
             /\ Sorted[m].pid # found(k)
  <2>1. SupervisorKey(Sorted[m]) # <<"tmux", Others[k].id, found(k)>>
    <3>1. SupervisorKey(Sorted[m])[1] \in {"sup", "sup-pid"}
      BY DEF SupervisorKey
    <3> QED
      BY <3>1
  <2>2. ASSUME Sorted[m].pid = found(k) PROVE FALSE
    <3> DEFINE q == Others[k]
    <3>1. /\ q.id \in Panes /\ q.id \notin ToSet(Got) /\ q \in ToSet(panes)
          /\ found(k) \in Tree(q.id) /\ found(k) # NoPid
      BY OtherIs
    <3>2. \E l \in DOMAIN Sorted : Got[l] = q.id
      BY <2>2, <3>1, ClaimedByThen
    <3> QED
      BY <3>1, <3>2, GotFacts DEF ToSet
  <2> QED
    BY <2>1, <2>2
<1>4. CASE /\ i \in DOMAIN Sorted /\ Sessions[i] = Supervised(i)
           /\ j \in DOMAIN Sorted /\ Sessions[j] = Supervised(j)
  BY <1>1, <1>4, SortedFacts
<1>5. CASE /\ \E k \in DOMAIN Others : i = Len(Sorted) + k /\ Sessions[i] = Unknown(k)
           /\ \E k \in DOMAIN Others : j = Len(Sorted) + k /\ Sessions[j] = Unknown(k)
  <2>1. PICK k \in DOMAIN Others : i = Len(Sorted) + k /\ Sessions[i] = Unknown(k)
    BY <1>5
  <2>2. PICK l \in DOMAIN Others : j = Len(Sorted) + l /\ Sessions[j] = Unknown(l)
    BY <1>5
  <2>3. Others[k].id # Others[l].id
    BY <2>1, <2>2, OtherIs
  <2>4. found(k) # found(l)
    BY <2>3, OtherIs, TreeFacts
  <2> QED
    BY <1>2, <2>1, <2>2, <2>3, <2>4
<1> HIDE DEF found
<1>6. ASSUME NEW m \in DOMAIN Sorted, NEW k \in DOMAIN Others
      PROVE  Supervised(m).key # Unknown(k).key /\ Supervised(m).pid # Unknown(k).pid
  <2>1. /\ Supervised(m).key = SupervisorKey(Sorted[m]) /\ Supervised(m).pid = Sorted[m].pid
        /\ Unknown(k).key = <<"tmux", Others[k].id, found(k)>> /\ Unknown(k).pid = found(k)
    BY <1>1, <1>2
  <2>2. /\ SupervisorKey(Sorted[m]) # <<"tmux", Others[k].id, found(k)>>
        /\ Sorted[m].pid # found(k)
    BY <1>3
  <2> QED
    BY <2>1, <2>2
<1>7. CASE /\ i \in DOMAIN Sorted /\ Sessions[i] = Supervised(i)
           /\ \E k \in DOMAIN Others : Sessions[j] = Unknown(k)
  BY <1>6, <1>7
<1>8. CASE /\ j \in DOMAIN Sorted /\ Sessions[j] = Supervised(j)
           /\ \E k \in DOMAIN Others : Sessions[i] = Unknown(k)
  BY <1>6, <1>8
<1> QED
  BY <1>4, <1>5, <1>7, <1>8, SessionIs

(* No pane is the pane of two sessions, whatever was cached, failed or        *)
(* changed between the readings (correlate.go:88-101, 115-118).               *)
THEOREM PanesOnce == Spec => []PaneOnce
<1>1. Init => PaneOnce
  BY DEF Init, PaneOnce
<1>2. ScanInv /\ PaneOnce /\ [Next]_vars => PaneOnce'
  <2> SUFFICES ASSUME ScanInv, PaneOnce, [Next]_vars PROVE PaneOnce'
    OBVIOUS
  <2>1. CASE Correlated
    BY <2>1, PanesApart DEF Correlated, PaneOnce, Sessions
  <2>2. CASE UNCHANGED snap
    BY <2>2 DEF PaneOnce
  <2> QED
    BY <2>1, <2>2 DEF Next, vars, Agents, Processes, ListPanes, PanesFail, TmuxNotDue, StartInPane,
                      StartBackground, Registers, Exits, Becomes
<1> QED
  BY <1>1, <1>2, ScanInvariant, PTL DEF Spec

(* No session is shown twice, under one key or with one process, also when    *)
(* the process table is older than the listing (correlate.go:105-127).        *)
THEOREM SessionsOnce == Spec => []SessionOnce
<1>1. Init => SessionOnce
  BY DEF Init, SessionOnce
<1>2. ScanInv /\ SessionOnce /\ [Next]_vars => SessionOnce'
  <2> SUFFICES ASSUME ScanInv, SessionOnce, [Next]_vars PROVE SessionOnce'
    OBVIOUS
  <2>1. CASE Correlated
    BY <2>1, SessionsApart DEF Correlated, SessionOnce, Sessions
  <2>2. CASE UNCHANGED snap
    BY <2>2 DEF SessionOnce
  <2> QED
    BY <2>1, <2>2 DEF Next, vars, Agents, Processes, ListPanes, PanesFail, TmuxNotDue, StartInPane,
                      StartBackground, Registers, Exits, Becomes
<1> QED
  BY <1>1, <1>2, ScanInvariant, PTL DEF Spec

-----------------------------------------------------------------------------
(* The worktree of a session. *)

(* A prefix, element by element. *)
LEMMA PrefixIs ==
    ASSUME NEW S, NEW v \in Seq(S), NEW w \in Seq(S)
    PROVE  IsPrefix(v, w) <=> Len(v) <= Len(w) /\ \A k \in 1..Len(v) : v[k] = w[k]
<1>1. Len(v) \in Nat /\ Len(w) \in Nat
  OBVIOUS
<1>2. SubSeq(v, 1, Len(v)) = [k \in 1..Len(v) |-> v[k]]
  BY <1>1, SubSeqProperties
<1>3. ASSUME Len(v) <= Len(w) PROVE SubSeq(w, 1, Len(v)) = [k \in 1..Len(v) |-> w[k]]
  BY <1>1, <1>3, SubSeqProperties
<1> QED
  BY <1>1, <1>2, <1>3 DEF IsPrefix

(* Of two prefixes of a path the shorter one is a prefix of the longer. *)
LEMMA PrefixesNest ==
    ASSUME NEW S, NEW v \in Seq(S), NEW w \in Seq(S), NEW path \in Seq(S),
           IsPrefix(v, path), IsPrefix(w, path), Len(v) <= Len(w)
    PROVE  IsPrefix(v, w)
<1>1. \A k \in 1..Len(v) : v[k] = path[k]
  BY PrefixIs
<1>2. \A k \in 1..Len(w) : w[k] = path[k]
  BY PrefixIs
<1>3. Len(v) \in Nat /\ Len(w) \in Nat
  OBVIOUS
<1> QED
  BY <1>1, <1>2, <1>3, PrefixIs

(* Bound takes the innermost worktree around a path: the longest, in which    *)
(* the others are nested (correlate.go:149-180).                              *)
LEMMA BoundOf ==
    ASSUME NEW S, NEW path \in Seq(S), NEW trees \in Seq(Seq(S))
    PROVE  LET around == {w \in ToSet(trees) : IsPrefix(w, path)}
           IN  IF around = {} THEN Bound(path, trees) = Loose
               ELSE /\ Bound(path, trees) \in around
                    /\ \A w \in around : IsPrefix(w, Bound(path, trees))
<1> DEFINE I == {i \in DOMAIN trees : Under(path, trees[i])}
           around == {w \in ToSet(trees) : IsPrefix(w, path)}
<1>1. around = {trees[i] : i \in I}
  BY DEF Under, ToSet
<1>2. Bound(path, trees) = IF I = {} THEN Loose
                           ELSE trees[CHOOSE i \in I : \A j \in I : Len(trees[j]) <= Len(trees[i])]
  BY DEF Bound
<1>3. \A i \in I : trees[i] \in Seq(S) /\ IsPrefix(trees[i], path)
  BY DEF Under
<1> HIDE DEF I, around
<1>4. CASE I = {}
  BY <1>1, <1>2, <1>4 DEF around
<1>5. CASE I # {}
  <2> DEFINE L == {Len(path) - Len(trees[i]) : i \in I}
  <2>1. L \subseteq Nat /\ L # {}
    <3>1. \A i \in I : Len(trees[i]) \in Nat /\ Len(trees[i]) <= Len(path)
      BY <1>3, PrefixIs
    <3>2. Len(path) \in Nat
      OBVIOUS
    <3>3. \A i \in I : Len(path) - Len(trees[i]) \in Nat
      BY <3>1, <3>2
    <3> QED
      BY <1>5, <3>3
  <2>2. PICK i \in I : \A j \in I : Len(path) - Len(trees[i]) <= Len(path) - Len(trees[j])
    <3>1. PICK l \in L : \A m \in L : l <= m
      <4> HIDE DEF L
      <4> QED
        BY <2>1, HasLeast
    <3>2. PICK i \in I : l = Len(path) - Len(trees[i])
      OBVIOUS
    <3> QED
      BY <3>1, <3>2
  <2>3. \A j \in I : Len(trees[j]) <= Len(trees[i])
    <3>1. \A j \in I : Len(trees[j]) \in Nat
      BY <1>3
    <3> QED
      BY <2>2, <3>1
  <2> DEFINE b == CHOOSE k \in I : \A j \in I : Len(trees[j]) <= Len(trees[k])
  <2>4. b \in I /\ \A j \in I : Len(trees[j]) <= Len(trees[b])
    BY <2>3
  <2> HIDE DEF b
  <2>5. \A j \in I : IsPrefix(trees[j], trees[b])
    BY <1>3, <2>4, PrefixesNest
  <2>6. Bound(path, trees) = trees[b]
    BY <1>2, <1>5 DEF b
  <2> QED
    BY <1>1, <2>4, <2>5, <2>6 DEF around
<1> QED
  BY <1>4, <1>5

(* A session is shown in the innermost worktree around its directory, and in  *)
(* none only if there is none.                                                *)
LEMMA SessionsBound ==
    ASSUME ScanInv, NEW i \in DOMAIN Sessions
    PROVE  LET around == {w \in ToSet(Worktrees) : IsPrefix(w, Path[Sessions[i].cwd])}
           IN  IF around = {} THEN Sessions[i].worktree = Loose
               ELSE /\ Sessions[i].worktree \in around
                    /\ \A w \in around : IsPrefix(w, Sessions[i].worktree)
<1> USE DEF ScanInv
<1>1. Sessions[i].cwd \in Dirs /\ Sessions[i].worktree = Binding[Sessions[i].cwd]
  <2>1. ASSUME NEW m \in DOMAIN Sorted
        PROVE  Supervised(m).cwd \in Dirs /\ Supervised(m).worktree = Binding[Supervised(m).cwd]
    BY SortedFacts DEF Supervised, AgentEntry
  <2>2. ASSUME NEW k \in DOMAIN Others
        PROVE  Unknown(k).cwd \in Dirs /\ Unknown(k).worktree = Binding[Unknown(k).cwd]
    BY OtherIs, PidFacts DEF Unknown
  <2> QED
    BY <2>1, <2>2, SessionIs
<1> DEFINE d == Sessions[i].cwd
<1>2. Path[d] \in Seq(STRING) /\ Worktrees \in Seq(Seq(STRING))
  <2>1. Path[d] \in Seq(STRING)
    BY <1>1, ScanAssumption
  <2>2. Worktrees \in Seq(Seq(STRING) \ {Loose})
    BY ScanAssumption
  <2> QED
    BY <2>1, <2>2
<1>3. Sessions[i].worktree = Bound(Path[d], Worktrees)
  BY <1>1 DEF Binding
<1> HIDE DEF d
<1>4. LET around == {w \in ToSet(Worktrees) : IsPrefix(w, Path[d])}
      IN  IF around = {} THEN Bound(Path[d], Worktrees) = Loose
          ELSE /\ Bound(Path[d], Worktrees) \in around
               /\ \A w \in around : IsPrefix(w, Bound(Path[d], Worktrees))
  BY <1>2, BoundOf
<1> QED
  BY <1>3, <1>4 DEF d

(* A session is shown in the innermost worktree around its directory          *)
(* (correlate.go:140-180).                                                    *)
THEOREM InDeepestWorktree == Spec => []BoundToDeepest
<1>1. Init => BoundToDeepest
  BY DEF Init, BoundToDeepest
<1>2. ScanInv /\ BoundToDeepest /\ [Next]_vars => BoundToDeepest'
  <2> SUFFICES ASSUME ScanInv, BoundToDeepest, [Next]_vars PROVE BoundToDeepest'
    OBVIOUS
  <2>1. CASE Correlated
    BY <2>1, SessionsBound DEF Correlated, BoundToDeepest, Sessions
  <2>2. CASE UNCHANGED snap /\ (phase' = "agents" => phase = "agents")
    BY <2>2 DEF BoundToDeepest
  <2> QED
    BY <2>1, <2>2 DEF Next, vars, Agents, Processes, ListPanes, PanesFail, TmuxNotDue, StartInPane,
                      StartBackground, Registers, Exits, Becomes
<1> QED
  BY <1>1, <1>2, ScanInvariant, PTL DEF Spec

-----------------------------------------------------------------------------
(* What a cycle has read of a claude that has not changed since it began. *)

(* c is in or below root by table T: in every set that has root and is closed *)
(* under children.                                                            *)
BelowIn(T, root, c) ==
    \A X \in SUBSET ToSet(Pids) : root \in X /\ Downward(T, X) => c \in X

(* What a cycle has read so far of a claude that has not changed since it     *)
(* began: its entry in the listing, its pane among the panes, its place below *)
(* the pane in the process table. The claudes above it may have changed, but  *)
(* what is above it now was so when the table was read.                       *)
ReadInv ==
    flawless => \A c \in steady :
        /\ phase # "agents" /\ proc[c].kind # "unlisted" =>
              \E a \in ToSet(agents) : a.pid = c /\ a.kind = proc[c].kind /\ a.cwd = proc[c].cwd
        /\ \A p \in Panes : InPane(c, p) =>
              /\ phase \in {"procs", "correlate"} => \E q \in ToSet(panes) : q.id = p
              /\ phase = "correlate" => BelowIn(procs, PanePid[p], c) /\ c \in ClaudesIn(procs)

(* Sets of processes that have with one its children. *)
Closed(X) == \A d \in Claudes : Alive(d) /\ proc[d].parent \in X => d \in X

(* InPane in terms of those sets, before a step and after it. *)
LEMMA InPaneIs ==
    ASSUME NEW c, NEW p
    PROVE  /\ InPane(c, p) <=> /\ Alive(c) /\ p \in Open
                               /\ \A X \in SUBSET ToSet(Pids) : PanePid[p] \in X /\ Closed(X) => c \in X
           /\ InPane(c, p)' <=> /\ Alive(c)' /\ p \in Open'
                                /\ \A X \in SUBSET ToSet(Pids) : PanePid[p] \in X /\ Closed(X)' => c \in X
BY DEF InPane, Closed

(* What a step of the environment leaves of what is steady. *)
WorldStep ==
    /\ UNCHANGED <<phase, agents, panes, procs, snap, flawless>>
    /\ steady' \subseteq steady
    /\ \A c \in steady' : /\ proc'[c] = proc[c]
                          /\ \A p \in Panes : InPane(c, p)' => InPane(c, p)

(* A claude that starts comes in below nobody that is steady. *)
LEMMA BornIsApart ==
    ASSUME ScanInv, NEW x \in Claudes, proc[x].life = "unborn", NEW v, Becomes(x, v)
    PROVE  WorldStep
<1> USE DEF ScanInv
<1>1. /\ proc' = [proc EXCEPT ![x] = v] /\ steady' = steady \ {x}
      /\ UNCHANGED <<phase, agents, panes, procs, snap, flawless>>
  BY DEF Becomes
<1>2. \A d \in Claudes \ {x} : proc'[d] = proc[d]
  BY <1>1 DEF TypeOK
<1>3. steady' \subseteq Claudes \ {x}
  BY <1>1 DEF TypeOK
<1>4. \A d \in Claudes : proc[d].parent # x
  BY DEF WorldInv, Alive
<1>5. x \in ToSet(Pids)
  BY PidFacts
<1>6. ASSUME NEW X, Closed(X) PROVE Closed(X \cup {x})'
  BY <1>2, <1>4, <1>6 DEF Closed, Alive
<1>7. ASSUME NEW c \in steady', NEW p \in Panes, InPane(c, p)' PROVE InPane(c, p)
  <2>1. c \in Claudes /\ c # x /\ Alive(c)
    BY <1>3, <1>1 DEF TypeOK
  <2>2. \A X \in SUBSET ToSet(Pids) : PanePid[p] \in X /\ Closed(X)' => c \in X
    BY <1>7, InPaneIs
  <2>3. PanePid[p] # x
    <3>1. Closed({})
      BY DEF Closed
    <3>2. Closed({} \cup {x})'
      BY <1>6, <3>1
    <3>3. Closed({x})'
      BY <3>2
    <3> QED
      BY <1>5, <2>1, <2>2, <3>3
  <2>4. p \in Open
    <3>1. p \in Open'
      BY <1>7, InPaneIs
    <3> QED
      BY <1>2, <2>3, <3>1 DEF Open, Direct, Alive
  <2>5. ASSUME NEW X \in SUBSET ToSet(Pids), PanePid[p] \in X, Closed(X) PROVE c \in X
    <3>1. X \cup {x} \in SUBSET ToSet(Pids) /\ PanePid[p] \in X \cup {x} /\ Closed(X \cup {x})'
      BY <1>5, <1>6, <2>5
    <3>2. c \in X \cup {x}
      BY <2>2, <3>1
    <3> QED
      BY <2>1, <3>2
  <2> QED
    BY <2>1, <2>4, <2>5, InPaneIs
<1> QED
  BY <1>1, <1>2, <1>3, <1>7 DEF WorldStep

(* One that becomes known stays where it is. *)
LEMMA RegisteredStays ==
    ASSUME ScanInv, NEW x \in Claudes, Registers(x)
    PROVE  WorldStep
<1> USE DEF ScanInv
<1>1. /\ proc' = [proc EXCEPT ![x] = [proc[x] EXCEPT !.kind = "interactive"]] /\ steady' = steady \ {x}
      /\ UNCHANGED <<phase, agents, panes, procs, snap, flawless>>
  BY DEF Registers, Becomes
<1>2. proc \in [Claudes -> Process] /\ steady \subseteq Claudes
  BY DEF TypeOK
<1>3. \A d \in Claudes \ {x} : proc'[d] = proc[d]
  BY <1>1, <1>2
<1>4. \A d \in Claudes : proc'[d].life = proc[d].life /\ proc'[d].parent = proc[d].parent
  <2>1. proc'[x] = [proc[x] EXCEPT !.kind = "interactive"] /\ proc[x] \in Process
    BY <1>1, <1>2
  <2>2. proc'[x].life = proc[x].life /\ proc'[x].parent = proc[x].parent
    BY <2>1 DEF Process
  <2> QED
    BY <1>3, <2>2
<1>5. ASSUME NEW c \in steady', NEW p \in Panes, InPane(c, p)' PROVE InPane(c, p)
  <2>1. \A X : Closed(X)' <=> Closed(X)
    BY <1>4 DEF Closed, Alive
  <2>2. Open' = Open
    BY <1>4 DEF Open, Direct, Alive
  <2>3. c \in Claudes
    BY <1>1, <1>2
  <2>4. Alive(c)' <=> Alive(c)
    BY <1>4, <2>3 DEF Alive
  <2> QED
    BY <1>5, <2>1, <2>2, <2>4, InPaneIs
<1> QED
  BY <1>1, <1>2, <1>3, <1>5 DEF WorldStep

(* One that ends takes steady claudes out of panes and brings none in. *)
LEMMA ExitSevers ==
    ASSUME ScanInv, NEW x \in Claudes, Exits(x)
    PROVE  WorldStep
<1> USE DEF ScanInv
<1>1. /\ proc' = [d \in Claudes |->
                    IF d = x THEN [proc[x] EXCEPT !.life = "ended", !.parent = System]
                    ELSE IF proc[d].parent = x THEN [proc[d] EXCEPT !.parent = System]
                    ELSE proc[d]]
      /\ steady' = steady \ ({x} \cup {d \in Claudes : proc[d].parent = x})
      /\ UNCHANGED <<phase, agents, panes, procs, snap, flawless>>
  BY DEF Exits
<1>2. proc \in [Claudes -> Process] /\ steady \subseteq {d \in Claudes : Alive(d)}
  BY DEF TypeOK
<1>3. \A d \in Claudes : d # x /\ proc[d].parent # x => proc'[d] = proc[d]
  BY <1>1
<1>4. ASSUME NEW d \in Claudes, proc'[d].life = "alive"
      PROVE  /\ proc[d].life = "alive"
             /\ proc'[d].parent = System \/ proc'[d].parent = proc[d].parent
  <2>1. proc[d] \in Process
    BY <1>2
  <2>2. CASE d = x
    <3>1. proc'[d] = [proc[d] EXCEPT !.life = "ended", !.parent = System]
      BY <1>1, <2>2
    <3>2. proc'[d].life = "ended"
      BY <2>1, <3>1 DEF Process
    <3> QED
      BY <1>4, <3>2
  <2>3. CASE d # x /\ proc[d].parent = x
    <3>1. proc'[d] = [proc[d] EXCEPT !.parent = System]
      BY <1>1, <2>3
    <3>2. proc'[d].life = proc[d].life /\ proc'[d].parent = System
      BY <2>1, <3>1 DEF Process
    <3> QED
      BY <1>4, <3>2
  <2>4. CASE d # x /\ proc[d].parent # x
    BY <1>3, <1>4, <2>4
  <2> QED
    BY <2>2, <2>3, <2>4
<1>5. ASSUME NEW c \in steady', NEW p \in Panes, InPane(c, p)' PROVE InPane(c, p)
  <2>1. c \in Claudes /\ Alive(c)
    BY <1>1, <1>2
  <2>2. p \in Open
    <3>1. p \in Open'
      BY <1>5, InPaneIs
    <3> QED
      BY <1>4, <3>1 DEF Open, Direct, Alive
  <2>3. ASSUME NEW X \in SUBSET ToSet(Pids), Closed(X) PROVE Closed(X)'
    <3>1. System \notin X
      BY PidFacts
    <3> QED
      BY <1>4, <2>3, <3>1 DEF Closed, Alive
  <2> QED
    BY <1>5, <2>1, <2>2, <2>3, InPaneIs
<1> QED
  BY <1>1, <1>2, <1>3, <1>5 DEF WorldStep

(* A step of the environment leaves what has been read of steady claudes      *)
(* true.                                                                      *)
LEMMA WorldStepKeeps ==
    ASSUME WorldStep, ReadInv
    PROVE  ReadInv'
<1>1. /\ UNCHANGED <<phase, agents, panes, procs, snap, flawless>>
      /\ steady' \subseteq steady
      /\ \A c \in steady' : /\ proc'[c] = proc[c]
                            /\ \A p \in Panes : InPane(c, p)' => InPane(c, p)
  BY DEF WorldStep
<1> SUFFICES ASSUME flawless, NEW c \in steady'
             PROVE  /\ phase # "agents" /\ proc[c].kind # "unlisted" =>
                          \E a \in ToSet(agents) : a.pid = c /\ a.kind = proc[c].kind /\ a.cwd = proc[c].cwd
                    /\ \A p \in Panes : InPane(c, p)' =>
                          /\ phase \in {"procs", "correlate"} => \E q \in ToSet(panes) : q.id = p
                          /\ phase = "correlate" => BelowIn(procs, PanePid[p], c) /\ c \in ClaudesIn(procs)
  BY <1>1 DEF ReadInv
<1> QED
  BY <1>1 DEF ReadInv

(* The steps of the cycle and those of the environment. *)
Turning == \/ \E ok \in BOOLEAN : Agents(ok) \/ Processes(ok)
           \/ ListPanes \/ PanesFail \/ TmuxNotDue \/ Correlated

(* Every step is one of the cycle or one of the environment. *)
LEMMA TurnOrWorld ==
    ASSUME ScanInv, [Next]_vars
    PROVE  Turning \/ WorldStep
<1>1. ASSUME NEW c \in Claudes, NEW i \in Panes, StartInPane(c, i) PROVE WorldStep
  BY <1>1, BornIsApart DEF StartInPane
<1>2. ASSUME NEW c \in Claudes, NEW parent, NEW dir, StartBackground(c, parent, dir) PROVE WorldStep
  BY <1>2, BornIsApart DEF StartBackground
<1>3. ASSUME NEW c \in Claudes, Registers(c) PROVE WorldStep
  BY <1>3, RegisteredStays
<1>4. ASSUME NEW c \in Claudes, Exits(c) PROVE WorldStep
  BY <1>4, ExitSevers
<1>5. CASE UNCHANGED vars
  <2>1. \A X : Closed(X)' <=> Closed(X)
    BY <1>5 DEF Closed, Alive, vars
  <2>2. Open' = Open
    BY <1>5 DEF Open, Direct, Alive, vars
  <2>3. ASSUME NEW c, NEW p, InPane(c, p)' PROVE InPane(c, p)
    BY <1>5, <2>1, <2>2, <2>3, InPaneIs DEF Alive, vars
  <2> QED
    BY <1>5, <2>3 DEF WorldStep, vars
<1> QED
  BY <1>1, <1>2, <1>3, <1>4, <1>5 DEF Next, Turning

(* The listing has those that are known when it is made. *)
LEMMA AgentsRead ==
    ASSUME ScanInv, NEW ok \in BOOLEAN, Agents(ok)
    PROVE  ReadInv'
<1> USE DEF ScanInv
<1>1. /\ agents' = IF ok THEN Listing ELSE <<>>
      /\ flawless' = ok /\ steady' = {c \in Claudes : Alive(c)} /\ phase' = "panes" /\ proc' = proc
  BY DEF Agents
<1> SUFFICES ASSUME flawless', NEW c \in Claudes, Alive(c), proc[c].kind # "unlisted"
             PROVE  \E a \in ToSet(Listing) : a.pid = c /\ a.kind = proc[c].kind /\ a.cwd = proc[c].cwd
  BY <1>1 DEF ReadInv
<1>2. Listed(c)
  BY DEF Listed
<1>3. PICK i \in DOMAIN Listing : /\ Listing[i].kind = proc[c].kind /\ Listing[i].cwd = proc[c].cwd
                                  /\ Listing[i].pid = c
  BY <1>2, ListingOf
<1>4. Listing[i] \in ToSet(Listing)
  BY DEF ToSet
<1> QED
  BY <1>3, <1>4

(* The panes have those that anyone is in when they are read; in a cycle      *)
(* without failures the table is read whenever there is any.                  *)
LEMMA PanesRead ==
    ASSUME ScanInv, ReadInv, ListPanes \/ PanesFail \/ TmuxNotDue
    PROVE  ReadInv'
<1> USE DEF ScanInv
<1>1. CASE PanesFail \/ TmuxNotDue
  BY <1>1 DEF PanesFail, TmuxNotDue, ReadInv
<1>2. CASE ListPanes
  <2>1. /\ panes' = PaneList /\ phase = "panes" /\ UNCHANGED <<mode, proc, agents, steady, flawless>>
        /\ phase' \in {"procs", "correlate"} /\ (phase' = "correlate" => panes' = <<>>)
    BY <1>2 DEF ListPanes
  <2>2. ASSUME NEW c \in steady, NEW p \in Panes, InPane(c, p)'
        PROVE  (\E q \in ToSet(panes') : q.id = p) /\ phase' # "correlate"
    <3>1. p \in Open
      BY <2>1, <2>2, InPaneIs DEF Open, Direct, Alive
    <3>2. PICK i \in DOMAIN PaneList : PaneList[i].id = p
      BY <3>1, PaneListOf
    <3>3. DOMAIN <<>> = {}
      OBVIOUS
    <3> QED
      BY <2>1, <3>2, <3>3 DEF ToSet
  <2> SUFFICES ASSUME flawless, NEW c \in steady
               PROVE  /\ proc[c].kind # "unlisted" =>
                            \E a \in ToSet(agents) : a.pid = c /\ a.kind = proc[c].kind /\ a.cwd = proc[c].cwd
                      /\ \A p \in Panes : InPane(c, p)' =>
                            (\E q \in ToSet(panes') : q.id = p) /\ phase' # "correlate"
    BY <2>1 DEF ReadInv
  <2> QED
    BY <2>1, <2>2 DEF ReadInv
<1> QED
  BY <1>1, <1>2

(* The process table has those that run below a pane when it is read. *)
LEMMA ProcessesRead ==
    ASSUME ScanInv, ReadInv, NEW ok \in BOOLEAN, Processes(ok)
    PROVE  ReadInv'
<1> USE DEF ScanInv
<1>1. /\ ok => procs' = ProcTable
      /\ phase = "procs" /\ phase' = "correlate"
      /\ UNCHANGED <<mode, proc, agents, panes, steady>>
  BY DEF Processes
<1>4. flawless' => flawless /\ ok
  BY Zenon DEF Processes
<1>2. ASSUME NEW c \in Claudes, NEW p \in Panes, InPane(c, p)'
      PROVE  InPane(c, p) /\ BelowIn(ProcTable, PanePid[p], c) /\ c \in ClaudesIn(ProcTable)
  <2>1. \A X : Closed(X)' <=> Closed(X)
    BY <1>1 DEF Closed, Alive
  <2>2. Open' = Open /\ (Alive(c)' <=> Alive(c))
    BY <1>1 DEF Open, Direct, Alive
  <2>3. InPane(c, p)
    BY <1>2, <2>1, <2>2, InPaneIs
  <2>4. Alive(c) /\ \A X \in SUBSET ToSet(Pids) : PanePid[p] \in X /\ Closed(X) => c \in X
    BY <2>3, InPaneIs
  <2>5. ASSUME NEW X \in SUBSET ToSet(Pids), Downward(ProcTable, X) PROVE Closed(X)
    <3> SUFFICES ASSUME NEW d \in Claudes, Alive(d), proc[d].parent \in X PROVE d \in X
      BY DEF Closed
    <3>1. PICK i \in DOMAIN ProcTable : ProcTable[i].pid = d /\ ProcTable[i].ppid = proc[d].parent
      BY ProcTableOf
    <3>2. ProcTable[i] \in ToSet(ProcTable)
      BY DEF ToSet
    <3> QED
      BY <2>5, <3>1, <3>2 DEF Downward
  <2>6. BelowIn(ProcTable, PanePid[p], c)
    BY <2>4, <2>5 DEF BelowIn
  <2>7. c \in ClaudesIn(ProcTable)
    <3>1. PICK i \in DOMAIN ProcTable : ProcTable[i].pid = c /\ ProcTable[i].claude
      BY <2>4, ProcTableOf
    <3>2. ProcTable[i] \in ToSet(ProcTable)
      BY DEF ToSet
    <3> QED
      BY <3>1, <3>2 DEF ClaudesIn
  <2> QED
    BY <2>3, <2>6, <2>7
<1>3. steady \subseteq Claudes
  BY DEF TypeOK
<1> SUFFICES ASSUME flawless', NEW c \in steady
             PROVE  /\ proc[c].kind # "unlisted" =>
                          \E a \in ToSet(agents) : a.pid = c /\ a.kind = proc[c].kind /\ a.cwd = proc[c].cwd
                    /\ \A p \in Panes : InPane(c, p)' =>
                          /\ \E q \in ToSet(panes) : q.id = p
                          /\ BelowIn(ProcTable, PanePid[p], c) /\ c \in ClaudesIn(ProcTable)
  BY <1>1, <1>4 DEF ReadInv
<1> QED
  BY <1>1, <1>2, <1>3, <1>4 DEF ReadInv

(* Every step preserves what has been read. *)
LEMMA ReadInvHolds ==
    ASSUME ScanInv, ReadInv, [Next]_vars
    PROVE  ReadInv'
<1>1. ASSUME NEW ok \in BOOLEAN, Agents(ok) PROVE ReadInv'
  BY <1>1, AgentsRead
<1>2. ASSUME NEW ok \in BOOLEAN, Processes(ok) PROVE ReadInv'
  BY <1>2, ProcessesRead
<1>3. CASE ListPanes \/ PanesFail \/ TmuxNotDue
  BY <1>3, PanesRead
<1>4. CASE Correlated
  <2>1. phase' = "agents"
    BY <1>4 DEF Correlated
  <2> QED
    BY <2>1 DEF ReadInv
<1>5. CASE WorldStep
  BY <1>5, WorldStepKeeps
<1> QED
  BY <1>1, <1>2, <1>3, <1>4, <1>5, TurnOrWorld DEF Turning

(* What is known of a claude in a pane when the snapshot is made. *)
LEMMA SeenInPane ==
    ASSUME ScanInv, ReadInv, flawless, phase = "correlate", NEW c \in steady, NEW p \in Panes, InPane(c, p)
    PROVE  (\E q \in ToSet(panes) : q.id = p) /\ c \in Tree(p) /\ c \in ClaudesIn(procs)
<1> USE DEF ScanInv
<1>1. (\E q \in ToSet(panes) : q.id = p) /\ BelowIn(procs, PanePid[p], c) /\ c \in ClaudesIn(procs)
  BY DEF ReadInv
<1>2. Tree(p) \subseteq ToSet(Pids) /\ PanePid[p] \in Tree(p) /\ Downward(procs, Tree(p))
  BY TreeFacts
<1> QED
  BY <1>1, <1>2 DEF BelowIn

(* A snapshot made of such readings shows something for the pane. *)
LEMMA CorrelatedMisses ==
    ASSUME ScanInv, ReadInv, flawless, phase = "correlate", NEW c \in steady, NEW p \in Panes, InPane(c, p)
    PROVE  \E i \in DOMAIN Sessions :
              \/ Sessions[i].pane = p
              \/ Sessions[i].pid \notin {NoPid, c} /\ Sessions[i].cwd = PanePath[p]
<1> USE DEF ScanInv
<1>1. PICK q \in ToSet(panes) : q.id = p
  BY SeenInPane
<1>2. c \in Tree(p) /\ c \in ClaudesIn(procs)
  BY SeenInPane
<1>3. q.path = PanePath[p]
  BY <1>1, PaneFacts
<1>4. \A m \in DOMAIN Sorted : m \in DOMAIN Sessions /\ Sessions[m] = Supervised(m)
  BY SessionsAre DEF Sessions
<1>8. \A m \in DOMAIN Sorted :
         Supervised(m).pane = Got[m] /\ Supervised(m).pid = Sorted[m].pid /\ Supervised(m).cwd = Sorted[m].cwd
  BY DEF Supervised
<1>5. CASE p \in ToSet(Got)
  <2>1. PICK m \in DOMAIN Sorted : Got[m] = p
    BY <1>5, GotFacts DEF ToSet
  <2>2. Sessions[m].pane = p
    BY <1>4, <1>8, <2>1
  <2> QED
    BY <1>4, <2>1, <2>2
<1>6. CASE p \notin ToSet(Got) /\ q.path \in SupervisorCWDs(agents)
  <2>1. PICK j \in DOMAIN agents : agents[j].pid # NoPid /\ agents[j].cwd = q.path
    BY <1>6 DEF SupervisorCWDs
  <2>2. PICK m \in DOMAIN Sorted : Sorted[m] = agents[j]
    <3>1. agents[j] \in ToSet(Sorted)
      BY SortedFacts DEF ToSet
    <3> QED
      BY <3>1 DEF ToSet
  <2>3. Sorted[m].pid # c
    <3> SUFFICES ASSUME Sorted[m].pid = c PROVE FALSE
      OBVIOUS
    <3>1. \E l \in DOMAIN Sorted : Got[l] = q.id
      BY <1>1, <1>2, ClaimedByThen
    <3> QED
      BY <1>1, <1>6, <3>1, GotFacts DEF ToSet
  <2>4. Sessions[m].pid = Sorted[m].pid /\ Sessions[m].cwd = Sorted[m].cwd
    BY <1>4, <1>8
  <2> QED
    BY <1>3, <1>4, <2>1, <2>2, <2>3, <2>4
<1>7. CASE p \notin ToSet(Got) /\ q.path \notin SupervisorCWDs(agents)
  <2>1. FindClaudeDescendant(procs, PanePid[p]) # NoPid
    <3>1. FindClaudeDescendant(procs, PanePid[p]) \in Claudes
      BY <1>2, TreeFacts
    <3> QED
      BY <3>1, PidFacts
  <2>2. q \in ToSet(Others)
    BY <1>1, <1>7, <2>1, OthersFacts
  <2>3. PICK k \in DOMAIN Others : Others[k] = q
    BY <2>2 DEF ToSet
  <2>4. Len(Sorted) + k \in DOMAIN Sessions /\ Sessions[Len(Sorted) + k] = Unknown(k)
    BY SessionsAre DEF Sessions
  <2>5. Unknown(k).pane = p
    BY <1>1, <2>3 DEF Unknown
  <2> QED
    BY <2>4, <2>5
<1> QED
  BY <1>5, <1>6, <1>7

(* It shows the pane of an interactive session as an interactive session's:   *)
(* whoever has claimed it did so before the session or as it, and only        *)
(* interactive ones come before.                                              *)
LEMMA CorrelatedOwns ==
    ASSUME ScanInv, ReadInv, flawless, phase = "correlate", NEW c \in steady, NEW p \in Panes, InPane(c, p),
           proc[c].kind = "interactive"
    PROVE  \E i \in DOMAIN Sessions : Sessions[i].pane = p /\ Sessions[i].kind = "interactive"
<1> USE DEF ScanInv
<1>1. PICK q \in ToSet(panes) : q.id = p
  BY SeenInPane
<1>2. c \in Tree(p)
  BY SeenInPane
<1>3. PICK a \in ToSet(agents) : a.pid = c /\ a.kind = "interactive"
  BY DEF ReadInv
<1>4. PICK m \in DOMAIN Sorted : Sorted[m] = a
  <2>1. a \in ToSet(Sorted)
    BY SortedFacts
  <2> QED
    BY <2>1 DEF ToSet
<1>5. PICK l \in DOMAIN Sorted : l <= m /\ Got[l] = q.id
  BY <1>1, <1>2, <1>3, <1>4, ClaimedByThen
<1>6. Sorted[l].kind = "interactive"
  <2>1. l \in Nat /\ m \in Nat
    BY SortedFacts
  <2> QED
    BY <1>3, <1>4, <1>5, <2>1, SortedFacts
<1>7. l \in DOMAIN Sessions /\ Sessions[l] = Supervised(l)
  BY SessionsAre DEF Sessions
<1> QED
  BY <1>1, <1>5, <1>6, <1>7 DEF Supervised

(* What has been read of steady claudes is true in every reachable state. *)
THEOREM ScanReads == Spec => []ReadInv
<1>1. Init => ReadInv
  BY DEF Init, ReadInv
<1>2. ScanInv /\ ReadInv /\ [Next]_vars => ReadInv'
  BY ReadInvHolds
<1> QED
  BY <1>1, <1>2, ScanInvariant, PTL DEF Spec

(* A claude that runs in a pane all through a cycle without failures is not   *)
(* missed: its pane is some session's, or it is taken for a live supervisor   *)
(* session in the same directory (correlate.go:106-127).                      *)
THEOREM NobodyIsMissed == Spec => []NobodyMissed
<1>1. Init => NobodyMissed
  BY DEF Init, NobodyMissed
<1>2. ScanInv /\ ReadInv /\ NobodyMissed /\ [Next]_vars => NobodyMissed'
  <2> SUFFICES ASSUME ScanInv, ReadInv, NobodyMissed, [Next]_vars PROVE NobodyMissed'
    OBVIOUS
  <2>1. CASE Correlated
    <3>1. phase = "correlate" /\ snap' = Sessions /\ UNCHANGED <<mode, proc, steady, flawless>>
      BY <2>1 DEF Correlated, Sessions
    <3>2. ASSUME NEW c, NEW p, InPane(c, p)' PROVE InPane(c, p)
      BY <3>1, <3>2, InPaneIs DEF Closed, Open, Direct, Alive
    <3> QED
      BY <3>1, <3>2, CorrelatedMisses DEF NobodyMissed
  <2>2. CASE WorldStep
    BY <2>2 DEF WorldStep, NobodyMissed
  <2>3. CASE Turning /\ ~Correlated
    BY <2>3 DEF Turning, Agents, Processes, ListPanes, PanesFail, TmuxNotDue, NobodyMissed
  <2> QED
    BY <2>1, <2>2, <2>3, TurnOrWorld
<1> QED
  BY <1>1, <1>2, ScanInvariant, ScanReads, PTL DEF Spec

(* A pane in which an interactive session runs is shown as an interactive     *)
(* session's, not as that of a background job started from it                 *)
(* (correlate.go:36-44).                                                      *)
THEOREM InteractiveOwns == Spec => []InteractiveOwnsPane
<1>1. Init => InteractiveOwnsPane
  BY DEF Init, InteractiveOwnsPane
<1>2. ScanInv /\ ReadInv /\ InteractiveOwnsPane /\ [Next]_vars => InteractiveOwnsPane'
  <2> SUFFICES ASSUME ScanInv, ReadInv, InteractiveOwnsPane, [Next]_vars PROVE InteractiveOwnsPane'
    OBVIOUS
  <2>1. CASE Correlated
    <3>1. phase = "correlate" /\ snap' = Sessions /\ UNCHANGED <<mode, proc, steady, flawless>>
      BY <2>1 DEF Correlated, Sessions
    <3>2. ASSUME NEW c, NEW p, InPane(c, p)' PROVE InPane(c, p)
      BY <3>1, <3>2, InPaneIs DEF Closed, Open, Direct, Alive
    <3> QED
      BY <3>1, <3>2, CorrelatedOwns DEF InteractiveOwnsPane
  <2>2. CASE WorldStep
    BY <2>2 DEF WorldStep, InteractiveOwnsPane
  <2>3. CASE Turning /\ ~Correlated
    BY <2>3 DEF Turning, Agents, Processes, ListPanes, PanesFail, TmuxNotDue, InteractiveOwnsPane
  <2> QED
    BY <2>1, <2>2, <2>3, TurnOrWorld
<1> QED
  BY <1>1, <1>2, ScanInvariant, ScanReads, PTL DEF Spec

=============================================================================
