---------------------------- MODULE CockpitProofs ----------------------------
(***************************************************************************)
(* Proofs about Cockpit and the list of Rows, for every set of snapshots   *)
(* in which no two sessions have one key, all queries and all terminals:   *)
(* the types, what the list holds, that the cursor rests on a session and  *)
(* its row is drawn, that one spinner runs, and that what is sent goes to  *)
(* whom it was meant for.                                                  *)
(*                                                                         *)
(* The list is made by putting sequences together, three levels deep, by   *)
(* recursion; the first part has the induction that says what that gives.  *)
(***************************************************************************)
EXTENDS Cockpit, SequenceTheorems, WellFoundedInduction, TLAPS

-----------------------------------------------------------------------------
(* Sequences put together. *)

(* The order of the naturals as a set of pairs. *)
Less == {p \in Nat \X Nat : p[1] < p[2]}

(* A set of naturals that is not empty has a least one. *)
LEMMA HasLeast ==
    ASSUME NEW S \in SUBSET Nat, S # {}
    PROVE  \E i \in S : \A j \in S : i <= j
<1>1. IsWellFoundedOn(Less, Nat)
  BY NatLessThanWellFounded DEF Less, OpToRel
<1>2. PICK i \in S : \A j \in S : ~ (<<j, i>> \in Less)
  BY <1>1, WFMin
<1>3. \A j \in S : ~ (j < i)
  BY <1>2 DEF Less
<1> QED
  BY <1>3

(* Induction over the naturals, for a set instead of a predicate: the         *)
(* provers find the set to take, where they cannot find the operator that the *)
(* library's theorems of induction are about.                                 *)
LEMMA Induct ==
    ASSUME NEW S, 0 \in S, \A n \in Nat : n \in S => n + 1 \in S
    PROVE  Nat \subseteq S
<1> SUFFICES ASSUME Nat \ S # {} PROVE FALSE
  OBVIOUS
<1>1. PICK i \in Nat \ S : \A j \in Nat \ S : i <= j
  BY HasLeast
<1>2. i # 0 /\ i - 1 \in Nat /\ i - 1 \in S
  BY <1>1
<1> QED
  BY <1>1, <1>2

(* f[i] is the first i sequences of Q put together. *)
Joins(Q, n, f) == f = [i \in 1..n |-> IF i = 1 THEN Q[i] ELSE f[i - 1] \o Q[i]]

(* There is a function that FlattenSeq's recursive definition is of. *)
LEMMA FlattenExists ==
    ASSUME NEW Q, NEW n \in Nat
    PROVE  \E f : Joins(Q, n, f)
<1> DEFINE T == {m \in Nat : \E f : Joins(Q, m, f)}
<1>1. 0 \in T
  <2>1. Joins(Q, 0, [i \in 1..0 |-> 0])
    BY DEF Joins
  <2> QED
    BY <2>1
<1>2. ASSUME NEW m \in Nat, m \in T PROVE m + 1 \in T
  <2>1. PICK f : Joins(Q, m, f)
    BY <1>2
  <2> DEFINE g == [i \in 1..(m + 1) |-> IF i \in 1..m THEN f[i]
                                        ELSE IF i = 1 THEN Q[i] ELSE f[i - 1] \o Q[i]]
  <2>2. \A i \in 1..(m + 1) : i # 1 => i - 1 \in 1..m /\ g[i - 1] = f[i - 1]
    OBVIOUS
  <2>3. \A i \in 1..m : f[i] = IF i = 1 THEN Q[i] ELSE f[i - 1] \o Q[i]
    BY <2>1 DEF Joins
  <2>4. \A i \in 1..(m + 1) : g[i] = IF i = 1 THEN Q[i] ELSE g[i - 1] \o Q[i]
    BY <2>2, <2>3
  <2>5. g = [i \in 1..(m + 1) |-> g[i]]
    OBVIOUS
  <2>6. g = [i \in 1..(m + 1) |-> IF i = 1 THEN Q[i] ELSE g[i - 1] \o Q[i]]
    BY <2>4, <2>5, Zenon
  <2>7. Joins(Q, m + 1, g)
    BY <2>6 DEF Joins
  <2> QED
    BY <2>7
<1> HIDE DEF T
<1>3. Nat \subseteq T
  BY <1>1, <1>2, Induct
<1> QED
  BY <1>3 DEF T

(* FlattenSeq, without the recursion. *)
LEMMA FlattenUnfolds ==
    ASSUME NEW Q, Len(Q) # 0, Len(Q) \in Nat
    PROVE  \E f : Joins(Q, Len(Q), f) /\ FlattenSeq(Q) = f[Len(Q)]
<1> DEFINE f == CHOOSE f : f = [i \in 1..Len(Q) |-> IF i = 1 THEN Q[i] ELSE f[i - 1] \o Q[i]]
<1>1. f = [i \in 1..Len(Q) |-> IF i = 1 THEN Q[i] ELSE f[i - 1] \o Q[i]]
  BY FlattenExists, Zenon DEF Joins
<1>2. FlattenSeq(Q) = f[Len(Q)]
  BY Zenon DEF FlattenSeq
<1> QED
  BY <1>1, <1>2, Zenon DEF Joins

(* F has the elements of the first n sequences of Q, and in their order. *)
InTurn(Q, n, F) ==
    /\ \A i \in 1..n : \A j \in DOMAIN Q[i] : \E p \in DOMAIN F : F[p] = Q[i][j]
    /\ \A p \in DOMAIN F : \E i \in 1..n : \E j \in DOMAIN Q[i] : F[p] = Q[i][j]
    /\ \A p, r \in DOMAIN F : p < r =>
          \E i, k \in 1..n : \E j \in DOMAIN Q[i], l \in DOMAIN Q[k] :
              F[p] = Q[i][j] /\ F[r] = Q[k][l] /\ (i < k \/ (i = k /\ j < l))

(* One more sequence of Q at the end keeps that so. *)
LEMMA OneMore ==
    ASSUME NEW S, NEW Q \in Seq(Seq(S)), NEW n \in Nat, n + 1 <= Len(Q),
           NEW F \in Seq(S), InTurn(Q, n, F)
    PROVE  InTurn(Q, n + 1, F \o Q[n + 1])
<1> DEFINE G == F \o Q[n + 1]
<1>1. /\ \A i \in 1..(n + 1) : Q[i] \in Seq(S)
      /\ \A i \in 1..(n + 1) : DOMAIN Q[i] = 1..Len(Q[i]) /\ Len(Q[i]) \in Nat
      /\ DOMAIN F = 1..Len(F) /\ Len(F) \in Nat
      /\ DOMAIN G = 1..(Len(F) + Len(Q[n + 1]))
      /\ \A p \in DOMAIN F : G[p] = F[p]
      /\ \A p \in DOMAIN Q[n + 1] : G[Len(F) + p] = Q[n + 1][p]
  <2>1. \A i \in 1..(n + 1) : Q[i] \in Seq(S)
    OBVIOUS
  <2>2. \A q \in Seq(S) : DOMAIN q = 1..Len(q) /\ Len(q) \in Nat
    OBVIOUS
  <2>3. n + 1 \in 1..(n + 1) /\ Q[n + 1] \in Seq(S)
    BY <2>1
  <2> DEFINE e == Q[n + 1]
  <2> HIDE DEF e
  <2>4. e \in Seq(S)
    BY <2>3 DEF e
  <2>5. /\ DOMAIN (F \o e) = 1..(Len(F) + Len(e))
        /\ \A p \in DOMAIN F : (F \o e)[p] = F[p]
        /\ \A p \in DOMAIN e : (F \o e)[Len(F) + p] = e[p]
    BY <2>4, <2>2
  <2> QED
    BY <2>1, <2>2, <2>5 DEF e
<1>2. \A p \in DOMAIN G : p \in DOMAIN F \/ (p - Len(F) \in DOMAIN Q[n + 1] /\ G[p] = Q[n + 1][p - Len(F)])
  BY <1>1
<1>q. n + 1 \in 1..(n + 1) /\ 1..n \subseteq 1..(n + 1)
  OBVIOUS
<1>r. DOMAIN F \subseteq DOMAIN G
  BY <1>1
<1> HIDE DEF G
<1>3. ASSUME NEW i \in 1..(n + 1), NEW j \in DOMAIN Q[i] PROVE \E p \in DOMAIN G : G[p] = Q[i][j]
  <2>1. CASE i = n + 1
    <3>1. Len(F) + j \in DOMAIN G /\ G[Len(F) + j] = Q[i][j]
      BY <1>1, <2>1
    <3> QED
      BY <3>1
  <2>2. CASE i # n + 1
    <3>1. i \in 1..n
      BY <2>2
    <3>2. PICK p \in DOMAIN F : F[p] = Q[i][j]
      BY <3>1 DEF InTurn
    <3> QED
      BY <3>2, <1>1, <1>r
  <2> QED
    BY <2>1, <2>2
<1>4. ASSUME NEW p \in DOMAIN G PROVE \E i \in 1..(n + 1) : \E j \in DOMAIN Q[i] : G[p] = Q[i][j]
  <2>1. CASE p \in DOMAIN F
    <3>1. PICK i \in 1..n : \E j \in DOMAIN Q[i] : F[p] = Q[i][j]
      BY <2>1 DEF InTurn
    <3> QED
      BY <3>1, <2>1, <1>1, <1>q
  <2>2. CASE p \notin DOMAIN F
    BY <2>2, <1>2, <1>q
  <2> QED
    BY <2>1, <2>2
<1>5. ASSUME NEW p \in DOMAIN G, NEW r \in DOMAIN G, p < r
      PROVE  \E i, k \in 1..(n + 1) : \E j \in DOMAIN Q[i], l \in DOMAIN Q[k] :
                G[p] = Q[i][j] /\ G[r] = Q[k][l] /\ (i < k \/ (i = k /\ j < l))
  <2>1. CASE r \in DOMAIN F
    <3>1. p \in DOMAIN F
      BY <2>1, <1>1, <1>5
    <3>2. PICK i \in 1..n, k \in 1..n : \E j \in DOMAIN Q[i], l \in DOMAIN Q[k] :
                F[p] = Q[i][j] /\ F[r] = Q[k][l] /\ (i < k \/ (i = k /\ j < l))
      BY <3>1, <2>1, <1>5 DEF InTurn
    <3> QED
      BY <3>2, <3>1, <2>1, <1>1, <1>q
  <2>2. CASE r \notin DOMAIN F /\ p \in DOMAIN F
    <3>1. PICK i \in 1..n : \E j \in DOMAIN Q[i] : F[p] = Q[i][j]
      BY <2>2 DEF InTurn
    <3>2. i < n + 1 /\ i \in 1..(n + 1)
      OBVIOUS
    <3>3. r - Len(F) \in DOMAIN Q[n + 1] /\ G[r] = Q[n + 1][r - Len(F)]
      BY <2>2, <1>2
    <3> QED
      BY <3>1, <3>2, <3>3, <2>2, <1>1, <1>q
  <2>3. CASE p \notin DOMAIN F /\ r \notin DOMAIN F
    <3>1. /\ p - Len(F) \in DOMAIN Q[n + 1] /\ G[p] = Q[n + 1][p - Len(F)]
          /\ r - Len(F) \in DOMAIN Q[n + 1] /\ G[r] = Q[n + 1][r - Len(F)]
      BY <2>3, <1>2
    <3>2. p - Len(F) < r - Len(F)
      BY <1>1, <1>5
    <3> QED
      BY <3>1, <3>2, <1>q
  <2> QED
    BY <2>1, <2>2, <2>3
<1> QED
  BY <1>3, <1>4, <1>5 DEF InTurn, G

(* FlattenSeq puts its sequences one after the other. *)
LEMMA FlattenInTurn ==
    ASSUME NEW S, NEW Q \in Seq(Seq(S))
    PROVE  FlattenSeq(Q) \in Seq(S) /\ InTurn(Q, Len(Q), FlattenSeq(Q))
<1>1. CASE Len(Q) = 0
  <2>1. FlattenSeq(Q) = Q /\ Q = <<>>
    BY <1>1 DEF FlattenSeq
  <2> QED
    BY <2>1 DEF InTurn
<1>2. CASE Len(Q) # 0
  <2>1. PICK f : Joins(Q, Len(Q), f) /\ FlattenSeq(Q) = f[Len(Q)]
    BY <1>2, FlattenUnfolds
  <2>2. \A i \in 1..Len(Q) : f[i] = IF i = 1 THEN Q[i] ELSE f[i - 1] \o Q[i]
    BY <2>1 DEF Joins
  <2> DEFINE T == {n \in Nat : n + 1 <= Len(Q) => f[n + 1] \in Seq(S) /\ InTurn(Q, n + 1, f[n + 1])}
  <2>3. 0 \in T
    <3>1. f[1] = Q[1] /\ Q[1] \in Seq(S)
      BY <2>2, <1>2
    <3>2. InTurn(Q, 1, Q[1])
      BY <3>1 DEF InTurn
    <3> QED
      BY <3>1, <3>2
  <2>4. ASSUME NEW n \in Nat, n \in T PROVE n + 1 \in T
    <3> SUFFICES ASSUME n + 2 <= Len(Q) PROVE f[n + 2] \in Seq(S) /\ InTurn(Q, n + 2, f[n + 2])
      OBVIOUS
    <3>1. f[n + 1] \in Seq(S) /\ InTurn(Q, n + 1, f[n + 1])
      BY <2>4
    <3>2. f[n + 2] = f[n + 1] \o Q[n + 2] /\ Q[n + 2] \in Seq(S)
      <4>1. n + 2 \in 1..Len(Q) /\ n + 2 # 1 /\ (n + 2) - 1 = n + 1
        OBVIOUS
      <4>2. f[n + 2] = f[(n + 2) - 1] \o Q[n + 2]
        BY <4>1, <2>2
      <4> QED
        BY <4>1, <4>2
    <3>3. InTurn(Q, (n + 1) + 1, f[n + 1] \o Q[(n + 1) + 1])
      BY <3>1, OneMore
    <3> QED
      BY <3>1, <3>2, <3>3
  <2> HIDE DEF T
  <2>5. Len(Q) - 1 \in T
    <3>1. Nat \subseteq T
      BY <2>3, <2>4, Induct
    <3>2. Len(Q) - 1 \in Nat
      BY <1>2
    <3> QED
      BY <3>1, <3>2
  <2> QED
    BY <2>5, <2>1, <1>2 DEF T
<1> QED
  BY <1>1, <1>2

-----------------------------------------------------------------------------
(* The rows. *)

RowKinds == {"bucket", "repo", "worktree", "session"}

(* Rows of sessions in X, and headers (Row, rows.go:15-35). *)
RowsOver(X) == {Header(k) : k \in RowKinds \ {"session"}} \cup {SessionRow(x) : x \in X}

(* The sessions that have a row. *)
ListedIn(L) == {L[i].session : i \in Selectables(L)}

(* No two rows are of sessions with one key. *)
KeysDiffer(L) ==
    \A i, j \in Selectables(L) : i < j => L[i].session.key # L[j].session.key

(* A row is a header, of nobody, or that of a session. *)
LEMMA RowIsEither ==
    ASSUME NEW X, NEW row \in RowsOver(X)
    PROVE  /\ row = [kind |-> row.kind, session |-> row.session]
           /\ Selectable(row) => row.session \in X
           /\ ~Selectable(row) => row.session = NoSession
  BY DEF RowsOver, RowKinds, Header, SessionRow, Selectable

(* A header over rows adds no session and takes none *)
(* (rows.go:99-103, 117-128).                        *)
LEMMA HeadedRows ==
    ASSUME NEW X, NEW L \in Seq(RowsOver(X)), NEW k \in RowKinds \ {"session"}
    PROVE  /\ Headed(k, L) \in Seq(RowsOver(X))
           /\ ListedIn(Headed(k, L)) = ListedIn(L)
           /\ KeysDiffer(L) => KeysDiffer(Headed(k, L))
<1>1. CASE L = <<>>
  BY <1>1 DEF Headed
<1>2. CASE L # <<>>
  <2> DEFINE h == <<Header(k)>>
  <2> DEFINE H == h \o L
  <2>1. Headed(k, L) = H
    BY <1>2 DEF Headed
  <2>2. h \in Seq(RowsOver(X)) /\ Len(h) = 1 /\ h[1] = Header(k)
    BY DEF RowsOver
  <2> HIDE DEF h
  <2>3. /\ H \in Seq(RowsOver(X))
        /\ DOMAIN H = 1..(Len(L) + 1)
        /\ H[1] = Header(k)
        /\ \A i \in DOMAIN L : i + 1 \in DOMAIN H /\ H[i + 1] = L[i]
        /\ \A i \in DOMAIN H : i # 1 => i - 1 \in DOMAIN L /\ H[i] = L[i - 1]
    <3>1. H \in Seq(RowsOver(X)) /\ Len(H) = Len(L) + 1
      <4> DEFINE S == RowsOver(X)
      <4>1. h \in Seq(S) /\ L \in Seq(S)
        BY <2>2
      <4> HIDE DEF S
      <4>2. h \o L \in Seq(S) /\ Len(h \o L) = Len(h) + Len(L)
        BY <4>1
      <4> QED
        BY <4>2, <2>2 DEF S
    <3>2. Len(L) \in Nat /\ DOMAIN L = 1..Len(L) /\ DOMAIN H = 1..(Len(L) + 1)
      BY <3>1
    <3>3. H[1] = Header(k)
      <4>1. 1 \in 1..(Len(h) + Len(L)) /\ 1 <= Len(h)
        BY <2>2, <3>2
      <4> QED
        BY <2>2, <4>1, ConcatProperties
    <3>4. ASSUME NEW i \in DOMAIN H, i # 1 PROVE i - 1 \in DOMAIN L /\ H[i] = L[i - 1]
      <4>1. i \in 1..(Len(h) + Len(L)) /\ ~(i <= Len(h)) /\ i - 1 \in 1..Len(L)
        BY <2>2, <3>2, <3>4
      <4> QED
        BY <2>2, <3>2, <4>1, ConcatProperties
    <3>5. \A i \in DOMAIN L : i + 1 \in DOMAIN H /\ i + 1 # 1 /\ (i + 1) - 1 = i
      BY <3>2
    <3> HIDE DEF H
    <3>6. \A i \in DOMAIN L : i + 1 \in DOMAIN H /\ H[i + 1] = L[i]
      <4> TAKE i \in DOMAIN L
      <4>1. H[i + 1] = L[(i + 1) - 1]
        BY <3>4, <3>5
      <4> QED
        BY <4>1, <3>5
    <3> QED
      BY <3>1, <3>2, <3>3, <3>4, <3>6
  <2>4. ~Selectable(H[1])
    BY <2>3 DEF Header, Selectable, RowKinds
  <2> HIDE DEF H
  <2>5. \A i \in Selectables(H) : i \in Nat /\ i - 1 \in Selectables(L) /\ H[i] = L[i - 1]
    BY <2>3, <2>4 DEF Selectables
  <2>6. \A i \in Selectables(L) : i + 1 \in Selectables(H) /\ H[i + 1] = L[i]
    BY <2>3 DEF Selectables
  <2>7. ListedIn(H) = ListedIn(L)
    BY <2>5, <2>6 DEF ListedIn
  <2>8. ASSUME KeysDiffer(L) PROVE KeysDiffer(H)
    <3> SUFFICES ASSUME NEW i \in Selectables(H), NEW j \in Selectables(H), i < j
                 PROVE  H[i].session.key # H[j].session.key
      BY DEF KeysDiffer
    <3>1. i - 1 < j - 1
      BY <2>5
    <3> QED
      BY <3>1, <2>5, <2>8 DEF KeysDiffer
  <2> QED
    BY <2>1, <2>3, <2>7, <2>8
<1> QED
  BY <1>1, <1>2

(* What rows put one after the other list: everybody that the parts list, in  *)
(* the order of the parts, and nobody twice if the parts have none in common. *)
LEMMA FlattenRows ==
    ASSUME NEW X, NEW Q \in Seq(Seq(RowsOver(X)))
    PROVE  /\ FlattenSeq(Q) \in Seq(RowsOver(X))
           /\ ListedIn(FlattenSeq(Q)) = UNION {ListedIn(Q[i]) : i \in DOMAIN Q}
           /\ \A p, r \in Selectables(FlattenSeq(Q)) : p < r =>
                 \E i, k \in DOMAIN Q : /\ i <= k
                                        /\ FlattenSeq(Q)[p].session \in ListedIn(Q[i])
                                        /\ FlattenSeq(Q)[r].session \in ListedIn(Q[k])
           /\ (/\ \A i \in DOMAIN Q : KeysDiffer(Q[i])
               /\ \A i, k \in DOMAIN Q : i < k =>
                     \A x \in ListedIn(Q[i]), y \in ListedIn(Q[k]) : x.key # y.key)
              => KeysDiffer(FlattenSeq(Q))
<1> DEFINE F == FlattenSeq(Q)
<1>1. F \in Seq(RowsOver(X)) /\ InTurn(Q, Len(Q), F)
  BY FlattenInTurn
<1>2. DOMAIN Q = 1..Len(Q) /\ DOMAIN F = 1..Len(F)
  BY <1>1
<1>a. \A i \in 1..Len(Q) : \A j \in DOMAIN Q[i] : \E p \in DOMAIN F : F[p] = Q[i][j]
  BY <1>1, Zenon DEF InTurn
<1>b. \A p \in DOMAIN F : \E i \in 1..Len(Q) : \E j \in DOMAIN Q[i] : F[p] = Q[i][j]
  BY <1>1, Zenon DEF InTurn
<1>c. \A p, r \in DOMAIN F : p < r =>
          \E i, k \in 1..Len(Q) : \E j \in DOMAIN Q[i], l \in DOMAIN Q[k] :
              F[p] = Q[i][j] /\ F[r] = Q[k][l] /\ (i < k \/ (i = k /\ j < l))
  BY <1>1, Zenon DEF InTurn
<1> HIDE DEF F
<1>3. ListedIn(F) \subseteq UNION {ListedIn(Q[i]) : i \in DOMAIN Q}
  <2> SUFFICES ASSUME NEW p \in DOMAIN F, Selectable(F[p])
               PROVE  \E i \in DOMAIN Q : F[p].session \in ListedIn(Q[i])
    BY DEF ListedIn, Selectables
  <2> QED
    BY <1>b, <1>2 DEF ListedIn, Selectables
<1>4. UNION {ListedIn(Q[i]) : i \in DOMAIN Q} \subseteq ListedIn(F)
  <2> SUFFICES ASSUME NEW i \in DOMAIN Q, NEW j \in DOMAIN Q[i], Selectable(Q[i][j])
               PROVE  Q[i][j].session \in ListedIn(F)
    BY DEF ListedIn, Selectables
  <2>1. PICK p \in DOMAIN F : F[p] = Q[i][j]
    BY <1>a
  <2> QED
    BY <2>1 DEF ListedIn, Selectables
<1>5. ASSUME \A i \in DOMAIN Q : KeysDiffer(Q[i]),
             \A i, k \in DOMAIN Q : i < k =>
                 \A x \in ListedIn(Q[i]), y \in ListedIn(Q[k]) : x.key # y.key
      PROVE  KeysDiffer(F)
  <2> SUFFICES ASSUME NEW p \in DOMAIN F, NEW r \in DOMAIN F, p < r,
                      Selectable(F[p]), Selectable(F[r])
               PROVE  F[p].session.key # F[r].session.key
    BY DEF KeysDiffer, Selectables
  <2>0. PICK i \in 1..Len(Q), k \in 1..Len(Q) : \E j \in DOMAIN Q[i], l \in DOMAIN Q[k] :
                F[p] = Q[i][j] /\ F[r] = Q[k][l] /\ (i < k \/ (i = k /\ j < l))
    BY <1>c, Zenon
  <2>1. PICK j \in DOMAIN Q[i], l \in DOMAIN Q[k] :
                F[p] = Q[i][j] /\ F[r] = Q[k][l] /\ (i < k \/ (i = k /\ j < l))
    BY <2>0
  <2>2. CASE i < k
    <3>1. F[p].session \in ListedIn(Q[i]) /\ F[r].session \in ListedIn(Q[k])
      BY <2>1 DEF ListedIn, Selectables
    <3> QED
      BY <3>1, <2>2, <1>5, <1>2
  <2>3. CASE i = k /\ j < l
    BY <2>1, <2>3, <1>5, <1>2 DEF KeysDiffer, Selectables
  <2> QED
    BY <2>1, <2>2, <2>3
<1>6. ASSUME NEW p \in Selectables(F), NEW r \in Selectables(F), p < r
      PROVE  \E i, k \in DOMAIN Q : /\ i <= k
                                    /\ F[p].session \in ListedIn(Q[i])
                                    /\ F[r].session \in ListedIn(Q[k])
  <2>1. p \in DOMAIN F /\ r \in DOMAIN F /\ Selectable(F[p]) /\ Selectable(F[r])
    BY DEF Selectables
  <2>2. PICK i \in 1..Len(Q), k \in 1..Len(Q) : \E j \in DOMAIN Q[i], l \in DOMAIN Q[k] :
                F[p] = Q[i][j] /\ F[r] = Q[k][l] /\ (i < k \/ (i = k /\ j < l))
    BY <2>1, <1>6, <1>c, Zenon
  <2>3. F[p].session \in ListedIn(Q[i]) /\ F[r].session \in ListedIn(Q[k])
    BY <2>1, <2>2 DEF ListedIn, Selectables
  <2>4. i <= k
    BY <2>2
  <2> QED
    BY <2>3, <2>4, <1>2
<1> QED
  BY <1>1, <1>3, <1>4, <1>5, <1>6 DEF F

(* The rows of a worktree list its sessions of the bucket that the query *)
(* leaves in, each once (rows.go:82-116).                                *)
LEMMA WorktreeList ==
    ASSUME NEW X, NEW wt \in Seq(X), NEW b, NEW q
    PROVE  /\ WorktreeRows(wt, b, q) \in Seq(RowsOver(X))
           /\ ListedIn(WorktreeRows(wt, b, q)) = {x \in ToSet(wt) : Shown(x, b, q)}
           /\ (\A i, k \in DOMAIN wt : i < k => wt[i].key # wt[k].key)
              => KeysDiffer(WorktreeRows(wt, b, q))
<1> DEFINE Q == [i \in DOMAIN wt |-> IF Shown(wt[i], b, q) THEN <<SessionRow(wt[i])>> ELSE <<>>]
<1>1. DOMAIN wt = 1..Len(wt) /\ Len(wt) \in Nat /\ DOMAIN Q = DOMAIN wt
  OBVIOUS
<1>2. \A i \in DOMAIN wt : wt[i] \in X
  OBVIOUS
<1>3. \A i \in DOMAIN wt : <<SessionRow(wt[i])>> \in Seq(RowsOver(X))
  BY <1>2 DEF RowsOver
<1>4. \A i \in DOMAIN wt : Q[i] \in Seq(RowsOver(X))
  BY <1>3
<1>5. Q \in Seq(Seq(RowsOver(X)))
  BY <1>1, <1>4
<1>6. \A i \in DOMAIN wt : ListedIn(Q[i]) = IF Shown(wt[i], b, q) THEN {wt[i]} ELSE {}
  <2> TAKE i \in DOMAIN wt
  <2> DEFINE one == <<SessionRow(wt[i])>>
  <2>1. ListedIn(one) = {wt[i]}
    <3>1. DOMAIN one = {1} /\ one[1] = SessionRow(wt[i])
      OBVIOUS
    <3>2. Selectables(one) = {1}
      BY <3>1 DEF Selectables, Selectable, SessionRow
    <3> QED
      BY <3>1, <3>2 DEF ListedIn, SessionRow
  <2>2. ListedIn(<<>>) = {}
    BY DEF ListedIn, Selectables
  <2> QED
    BY <2>1, <2>2
<1>7. \A i \in DOMAIN wt : KeysDiffer(Q[i])
  <2> TAKE i \in DOMAIN wt
  <2>1. DOMAIN Q[i] \subseteq {1}
    OBVIOUS
  <2> QED
    BY <2>1 DEF KeysDiffer, Selectables
<1>8. WorktreeRows(wt, b, q) = Headed("worktree", FlattenSeq(Q))
  BY DEF WorktreeRows
<1> HIDE DEF Q
<1>9. /\ FlattenSeq(Q) \in Seq(RowsOver(X))
      /\ ListedIn(FlattenSeq(Q)) = UNION {ListedIn(Q[i]) : i \in DOMAIN Q}
      /\ (/\ \A i \in DOMAIN Q : KeysDiffer(Q[i])
          /\ \A i, k \in DOMAIN Q : i < k =>
                \A x \in ListedIn(Q[i]), y \in ListedIn(Q[k]) : x.key # y.key)
         => KeysDiffer(FlattenSeq(Q))
  BY <1>5, FlattenRows
<1>10. ListedIn(FlattenSeq(Q)) = {x \in ToSet(wt) : Shown(x, b, q)}
  BY <1>1, <1>6, <1>9 DEF ToSet
<1>11. ASSUME \A i, k \in DOMAIN wt : i < k => wt[i].key # wt[k].key PROVE KeysDiffer(FlattenSeq(Q))
  <2>1. ASSUME NEW i \in DOMAIN Q, NEW k \in DOMAIN Q, i < k,
               NEW x \in ListedIn(Q[i]), NEW y \in ListedIn(Q[k])
        PROVE  x.key # y.key
    <3>1. x = wt[i] /\ y = wt[k]
      BY <2>1, <1>1, <1>6
    <3> QED
      BY <3>1, <2>1, <1>11, <1>1
  <2> QED
    BY <2>1, <1>7, <1>1, <1>9
<1> QED
  BY <1>8, <1>9, <1>10, <1>11, HeadedRows DEF RowKinds

(* The same of a repository (rows.go:80-122). *)
LEMMA RepoList ==
    ASSUME NEW X, NEW repo \in Seq(Seq(X)), NEW b, NEW q
    PROVE  /\ RepoRows(repo, b, q) \in Seq(RowsOver(X))
           /\ ListedIn(RepoRows(repo, b, q))
                = {x \in UNION {ToSet(repo[w]) : w \in DOMAIN repo} : Shown(x, b, q)}
           /\ (\A w1, w2 \in DOMAIN repo : \A i1 \in DOMAIN repo[w1], i2 \in DOMAIN repo[w2] :
                  repo[w1][i1].key = repo[w2][i2].key => w1 = w2 /\ i1 = i2)
              => KeysDiffer(RepoRows(repo, b, q))
<1> DEFINE Q == [w \in DOMAIN repo |-> WorktreeRows(repo[w], b, q)]
<1>1. DOMAIN repo = 1..Len(repo) /\ Len(repo) \in Nat /\ DOMAIN Q = DOMAIN repo
  OBVIOUS
<1>2. \A w \in DOMAIN repo : repo[w] \in Seq(X)
  OBVIOUS
<1>3. \A w \in DOMAIN repo : /\ Q[w] \in Seq(RowsOver(X))
                             /\ ListedIn(Q[w]) = {x \in ToSet(repo[w]) : Shown(x, b, q)}
  BY <1>2, WorktreeList
<1>4. Q \in Seq(Seq(RowsOver(X)))
  BY <1>1, <1>3
<1>5. RepoRows(repo, b, q) = Headed("repo", FlattenSeq(Q))
  BY DEF RepoRows
<1>6. ASSUME NEW w \in DOMAIN repo, \A i, k \in DOMAIN repo[w] : i < k => repo[w][i].key # repo[w][k].key
      PROVE  KeysDiffer(Q[w])
  BY <1>2, <1>6, WorktreeList
<1> HIDE DEF Q
<1>9. /\ FlattenSeq(Q) \in Seq(RowsOver(X))
      /\ ListedIn(FlattenSeq(Q)) = UNION {ListedIn(Q[i]) : i \in DOMAIN Q}
      /\ (/\ \A i \in DOMAIN Q : KeysDiffer(Q[i])
          /\ \A i, k \in DOMAIN Q : i < k =>
                \A x \in ListedIn(Q[i]), y \in ListedIn(Q[k]) : x.key # y.key)
         => KeysDiffer(FlattenSeq(Q))
  BY <1>4, FlattenRows
<1>10. ListedIn(FlattenSeq(Q)) = {x \in UNION {ToSet(repo[w]) : w \in DOMAIN repo} : Shown(x, b, q)}
  BY <1>1, <1>3, <1>9
<1>11. ASSUME \A w1, w2 \in DOMAIN repo : \A i1 \in DOMAIN repo[w1], i2 \in DOMAIN repo[w2] :
                  repo[w1][i1].key = repo[w2][i2].key => w1 = w2 /\ i1 = i2
       PROVE  KeysDiffer(FlattenSeq(Q))
  <2>1. ASSUME NEW i \in DOMAIN Q, NEW k \in DOMAIN Q, i < k,
               NEW x \in ListedIn(Q[i]), NEW y \in ListedIn(Q[k])
        PROVE  x.key # y.key
    <3>1. PICK i1 \in DOMAIN repo[i] : x = repo[i][i1]
      BY <1>1, <1>3 DEF ToSet
    <3>2. PICK i2 \in DOMAIN repo[k] : y = repo[k][i2]
      BY <1>1, <1>3 DEF ToSet
    <3> QED
      BY <3>1, <3>2, <2>1, <1>11, <1>1
  <2>2. ASSUME NEW w \in DOMAIN Q PROVE KeysDiffer(Q[w])
    <3>1. DOMAIN repo[w] \subseteq Nat
      BY <1>1, <1>2
    <3>2. \A i, k \in DOMAIN repo[w] : i < k => repo[w][i].key # repo[w][k].key
      BY <3>1, <1>1, <1>11
    <3> QED
      BY <3>2, <1>1, <1>6
  <2> QED
    BY <2>1, <2>2, <1>9
<1> QED
  BY <1>5, <1>9, <1>10, <1>11, HeadedRows DEF RowKinds

(* Sessions with one key are at one place of the snapshot. *)
LEMMA KeysApart ==
    ASSUME NEW s, KeysOnce(s),
           NEW r1 \in DOMAIN s, NEW w1 \in DOMAIN s[r1], NEW i1 \in DOMAIN s[r1][w1],
           NEW r2 \in DOMAIN s, NEW w2 \in DOMAIN s[r2], NEW i2 \in DOMAIN s[r2][w2],
           s[r1][w1][i1].key = s[r2][w2][i2].key
    PROVE  r1 = r2 /\ w1 = w2 /\ i1 = i2
  BY DEF KeysOnce

(* The same of a bucket (rows.go:73-128). *)
LEMMA GroupList ==
    ASSUME NEW X, NEW s \in Seq(Seq(Seq(X))), NEW b, NEW q
    PROVE  /\ GroupRows(s, b, q) \in Seq(RowsOver(X))
           /\ ListedIn(GroupRows(s, b, q)) = {x \in SessionsIn(s) : Shown(x, b, q)}
           /\ KeysOnce(s) => KeysDiffer(GroupRows(s, b, q))
<1> DEFINE Q == [r \in DOMAIN s |-> RepoRows(s[r], b, q)]
<1>1. DOMAIN s = 1..Len(s) /\ Len(s) \in Nat /\ DOMAIN Q = DOMAIN s
  OBVIOUS
<1>2. \A r \in DOMAIN s : s[r] \in Seq(Seq(X))
  OBVIOUS
<1>3. \A r \in DOMAIN s :
         /\ Q[r] \in Seq(RowsOver(X))
         /\ ListedIn(Q[r]) = {x \in UNION {ToSet(s[r][w]) : w \in DOMAIN s[r]} : Shown(x, b, q)}
  BY <1>2, RepoList
<1>4. Q \in Seq(Seq(RowsOver(X)))
  BY <1>1, <1>3
<1>5. GroupRows(s, b, q) = Headed("bucket", FlattenSeq(Q))
  BY DEF GroupRows
<1>6. ASSUME NEW r \in DOMAIN s,
             \A w1, w2 \in DOMAIN s[r] : \A i1 \in DOMAIN s[r][w1], i2 \in DOMAIN s[r][w2] :
                  s[r][w1][i1].key = s[r][w2][i2].key => w1 = w2 /\ i1 = i2
      PROVE  KeysDiffer(Q[r])
  BY <1>2, <1>6, RepoList
<1> HIDE DEF Q
<1>9. /\ FlattenSeq(Q) \in Seq(RowsOver(X))
      /\ ListedIn(FlattenSeq(Q)) = UNION {ListedIn(Q[i]) : i \in DOMAIN Q}
      /\ (/\ \A i \in DOMAIN Q : KeysDiffer(Q[i])
          /\ \A i, k \in DOMAIN Q : i < k =>
                \A x \in ListedIn(Q[i]), y \in ListedIn(Q[k]) : x.key # y.key)
         => KeysDiffer(FlattenSeq(Q))
  BY <1>4, FlattenRows
<1>10. ListedIn(FlattenSeq(Q)) = {x \in SessionsIn(s) : Shown(x, b, q)}
  <2>1. ASSUME NEW x \in ListedIn(FlattenSeq(Q))
        PROVE  x \in SessionsIn(s) /\ Shown(x, b, q)
    <3>1. PICK i \in DOMAIN s : x \in ListedIn(Q[i])
      BY <1>1, <1>9
    <3>2. x \in UNION {ToSet(s[i][w]) : w \in DOMAIN s[i]} /\ Shown(x, b, q)
      BY <1>3, <3>1
    <3> QED
      BY <3>2, Zenon DEF SessionsIn
  <2>2. ASSUME NEW x \in SessionsIn(s), Shown(x, b, q)
        PROVE  x \in ListedIn(FlattenSeq(Q))
    <3>1. PICK i \in DOMAIN s : x \in UNION {ToSet(s[i][w]) : w \in DOMAIN s[i]}
      BY DEF SessionsIn
    <3>2. x \in ListedIn(Q[i])
      BY <1>3, <2>2, <3>1
    <3> QED
      BY <1>1, <1>9, <3>2
  <2> QED
    BY <2>1, <2>2
<1>11. ASSUME KeysOnce(s) PROVE KeysDiffer(FlattenSeq(Q))
  <2>1. ASSUME NEW i \in DOMAIN Q, NEW k \in DOMAIN Q, i < k,
               NEW x \in ListedIn(Q[i]), NEW y \in ListedIn(Q[k])
        PROVE  x.key # y.key
    <3>1. PICK w1 \in DOMAIN s[i] : x \in ToSet(s[i][w1])
      BY <1>1, <1>3
    <3>2. PICK i1 \in DOMAIN s[i][w1] : x = s[i][w1][i1]
      BY <3>1 DEF ToSet
    <3>3. PICK w2 \in DOMAIN s[k] : y \in ToSet(s[k][w2])
      BY <1>1, <1>3
    <3>4. PICK i2 \in DOMAIN s[k][w2] : y = s[k][w2][i2]
      BY <3>3 DEF ToSet
    <3>5. i \in DOMAIN s /\ k \in DOMAIN s /\ i # k
      BY <1>1, <2>1
    <3>6. s[i][w1][i1].key = s[k][w2][i2].key => i = k
      BY <3>5, <1>11, KeysApart
    <3> QED
      BY <3>2, <3>4, <3>5, <3>6
  <2>2. ASSUME NEW r \in DOMAIN Q PROVE KeysDiffer(Q[r])
    <3>1. r \in DOMAIN s
      BY <1>1
    <3>2. \A w1, w2 \in DOMAIN s[r] : \A i1 \in DOMAIN s[r][w1], i2 \in DOMAIN s[r][w2] :
                s[r][w1][i1].key = s[r][w2][i2].key => w1 = w2 /\ i1 = i2
      BY <3>1, <1>11, KeysApart
    <3> QED
      BY <3>1, <3>2, <1>6
  <2> QED
    BY <2>1, <2>2, <1>9
<1> QED
  BY <1>5, <1>9, <1>10, <1>11, HeadedRows DEF RowKinds

(* Where a session's bucket is in the order of the list. *)
Rank(x) == CHOOSE b \in DOMAIN BucketOrder : BucketOrder[b] = BucketOf(x)

LEMMA RankIs ==
    ASSUME NEW x, NEW b \in DOMAIN BucketOrder, BucketOf(x) = BucketOrder[b]
    PROVE  Rank(x) = b
<1>1. \A c \in DOMAIN BucketOrder : BucketOrder[c] = BucketOrder[b] => c = b
  BY DEF BucketOrder
<1> QED
  BY <1>1 DEF Rank

(* Every session is of one of the four buckets (rows.go:52-65). *)
LEMMA BucketIsOne ==
    ASSUME NEW x
    PROVE  \E b \in DOMAIN BucketOrder : BucketOf(x) = BucketOrder[b]
<1>1. BucketOf(x) \in {"needs", "working", "idle", "terminal"}
  BY DEF BucketOf
<1>2. /\ DOMAIN BucketOrder = 1..4
      /\ BucketOrder[1] = "needs" /\ BucketOrder[2] = "working"
      /\ BucketOrder[3] = "idle" /\ BucketOrder[4] = "terminal"
  BY DEF BucketOrder
<1> QED
  BY <1>1, <1>2

(* What BuildRows lists: the sessions that query and filter leave, nobody *)
(* twice if the snapshot has nobody twice, in the order of the buckets    *)
(* (rows.go:67-131).                                                      *)
LEMMA BuildList ==
    ASSUME NEW X, NEW s \in Seq(Seq(Seq(X))), NEW q, NEW f
    PROVE  /\ BuildRows(s, q, f) \in Seq(RowsOver(X))
           /\ ListedIn(BuildRows(s, q, f))
                = {x \in SessionsIn(s) : MatchesQuery(x, q) /\ Matches(f, BucketOf(x))}
           /\ KeysOnce(s) => KeysDiffer(BuildRows(s, q, f))
           /\ \A i, j \in Selectables(BuildRows(s, q, f)) : i < j =>
                 Rank(BuildRows(s, q, f)[i].session) <= Rank(BuildRows(s, q, f)[j].session)
<1> DEFINE Q == [i \in DOMAIN BucketOrder |->
                    IF Matches(f, BucketOrder[i]) THEN GroupRows(s, BucketOrder[i], q) ELSE <<>>]
<1>1. DOMAIN BucketOrder = 1..4 /\ DOMAIN Q = 1..4
  BY DEF BucketOrder
<1>2. ListedIn(<<>>) = {} /\ KeysDiffer(<<>>)
  BY DEF ListedIn, Selectables, KeysDiffer
<1>3. \A i \in 1..4 : /\ Q[i] \in Seq(RowsOver(X))
                      /\ ListedIn(Q[i]) = {x \in SessionsIn(s) : Shown(x, BucketOrder[i], q)
                                                              /\ Matches(f, BucketOrder[i])}
  BY <1>1, <1>2, GroupList
<1>4. KeysOnce(s) => \A i \in 1..4 : KeysDiffer(Q[i])
  BY <1>1, <1>2, GroupList
<1>5. Q \in Seq(Seq(RowsOver(X)))
  BY <1>1, <1>3
<1>6. BuildRows(s, q, f) = FlattenSeq(Q)
  BY DEF BuildRows
<1> HIDE DEF Q
<1>7. /\ FlattenSeq(Q) \in Seq(RowsOver(X))
      /\ ListedIn(FlattenSeq(Q)) = UNION {ListedIn(Q[i]) : i \in DOMAIN Q}
      /\ \A p, r \in Selectables(FlattenSeq(Q)) : p < r =>
             \E i, k \in DOMAIN Q : /\ i <= k
                                    /\ FlattenSeq(Q)[p].session \in ListedIn(Q[i])
                                    /\ FlattenSeq(Q)[r].session \in ListedIn(Q[k])
      /\ (/\ \A i \in DOMAIN Q : KeysDiffer(Q[i])
          /\ \A i, k \in DOMAIN Q : i < k =>
                \A x \in ListedIn(Q[i]), y \in ListedIn(Q[k]) : x.key # y.key)
         => KeysDiffer(FlattenSeq(Q))
  BY <1>5, FlattenRows
<1>8. ListedIn(FlattenSeq(Q)) = {x \in SessionsIn(s) : MatchesQuery(x, q) /\ Matches(f, BucketOf(x))}
  <2>1. ASSUME NEW x \in ListedIn(FlattenSeq(Q))
        PROVE  x \in SessionsIn(s) /\ MatchesQuery(x, q) /\ Matches(f, BucketOf(x))
    <3>1. PICK i \in 1..4 : x \in ListedIn(Q[i])
      BY <1>1, <1>7
    <3> QED
      BY <1>3, <3>1 DEF Shown
  <2>2. ASSUME NEW x \in SessionsIn(s), MatchesQuery(x, q), Matches(f, BucketOf(x))
        PROVE  x \in ListedIn(FlattenSeq(Q))
    <3>1. PICK i \in 1..4 : BucketOf(x) = BucketOrder[i]
      BY <1>1, BucketIsOne
    <3>2. x \in ListedIn(Q[i])
      BY <1>3, <2>2, <3>1 DEF Shown
    <3> QED
      BY <1>1, <1>7, <3>2
  <2> QED
    BY <2>1, <2>2
<1>9. ASSUME NEW i \in 1..4, NEW x \in ListedIn(Q[i]) PROVE x \in SessionsIn(s) /\ BucketOf(x) = BucketOrder[i] /\ Rank(x) = i
  BY <1>1, <1>3, RankIs DEF Shown
<1>10. ASSUME KeysOnce(s) PROVE KeysDiffer(FlattenSeq(Q))
  <2>1. ASSUME NEW i \in DOMAIN Q, NEW k \in DOMAIN Q, i < k,
               NEW x \in ListedIn(Q[i]), NEW y \in ListedIn(Q[k]), x.key = y.key
        PROVE  FALSE
    <3>1. x \in SessionsIn(s) /\ y \in SessionsIn(s) /\ Rank(x) = i /\ Rank(y) = k
      BY <1>1, <1>9
    <3>2. PICK r1 \in DOMAIN s : \E w1 \in DOMAIN s[r1] : \E i1 \in DOMAIN s[r1][w1] : x = s[r1][w1][i1]
      BY <3>1 DEF SessionsIn, ToSet
    <3>3. PICK r2 \in DOMAIN s : \E w2 \in DOMAIN s[r2] : \E i2 \in DOMAIN s[r2][w2] : y = s[r2][w2][i2]
      BY <3>1 DEF SessionsIn, ToSet
    <3>4. x = y
      <4>1. PICK w1 \in DOMAIN s[r1] : \E i1 \in DOMAIN s[r1][w1] : x = s[r1][w1][i1]
        BY <3>2
      <4>2. PICK i1 \in DOMAIN s[r1][w1] : x = s[r1][w1][i1]
        BY <4>1
      <4>3. PICK w2 \in DOMAIN s[r2] : \E i2 \in DOMAIN s[r2][w2] : y = s[r2][w2][i2]
        BY <3>3
      <4>4. PICK i2 \in DOMAIN s[r2][w2] : y = s[r2][w2][i2]
        BY <4>3
      <4>5. r1 = r2 /\ w1 = w2 /\ i1 = i2
        BY <4>2, <4>4, <2>1, <1>10, KeysApart
      <4> QED
        BY <4>2, <4>4, <4>5
    <3> QED
      BY <3>1, <3>4, <2>1, <1>1
  <2> QED
    BY <2>1, <1>1, <1>4, <1>7, <1>10
<1>11. ASSUME NEW p \in Selectables(FlattenSeq(Q)), NEW r \in Selectables(FlattenSeq(Q)), p < r
       PROVE  Rank(FlattenSeq(Q)[p].session) <= Rank(FlattenSeq(Q)[r].session)
  <2>1. PICK i \in 1..4, k \in 1..4 : /\ i <= k
                                      /\ FlattenSeq(Q)[p].session \in ListedIn(Q[i])
                                      /\ FlattenSeq(Q)[r].session \in ListedIn(Q[k])
    BY <1>1, <1>7, <1>11
  <2> QED
    BY <2>1, <1>9
<1> QED
  BY <1>6, <1>7, <1>8, <1>10, <1>11

-----------------------------------------------------------------------------
(* The cursor. *)

(* Least is what its name says, *)
LEMMA LeastIs ==
    ASSUME NEW S \in SUBSET Nat, S # {}
    PROVE  Least(S) \in S /\ \A j \in S : Least(S) <= j
<1>1. \E i \in S : \A j \in S : i <= j
  BY HasLeast
<1> QED
  BY <1>1 DEF Least

(* and so is Greatest of a set with an upper bound. *)
LEMMA GreatestIs ==
    ASSUME NEW n \in Nat, NEW S \in SUBSET (1..n), S # {}
    PROVE  Greatest(S) \in S /\ \A j \in S : Greatest(S) >= j
<1> DEFINE T == {n - i : i \in S}
<1>1. T \in SUBSET Nat /\ T # {}
  <2>1. \A i \in S : i \in Nat /\ n - i \in Nat
    OBVIOUS
  <2>2. PICK i \in S : TRUE
    OBVIOUS
  <2>3. n - i \in T
    OBVIOUS
  <2> QED
    BY <2>1, <2>3
<1>2. PICK m \in T : \A j \in T : m <= j
  BY <1>1, HasLeast
<1>3. PICK i \in S : m = n - i
  BY <1>2
<1>4. \A j \in S : n - j \in T /\ j \in Nat
  OBVIOUS
<1>5. ASSUME NEW j \in S PROVE i >= j
  <2>1. m <= n - j
    BY <1>2, <1>4
  <2> QED
    BY <1>3, <1>4, <2>1
<1> QED
  BY <1>5 DEF Greatest

(* The cursor is on a session's row if the list has one. *)
OnSession(L, c) == IF Selectables(L) = {} THEN c = 0 ELSE c \in Selectables(L)

(* It is there after every key and after every new list, wherever it was *)
(* before (rows.go:133-219).                                             *)
LEMMA CursorMoves ==
    ASSUME NEW S, NEW L \in Seq(S), NEW c \in Nat
    PROVE  /\ OnSession(L, FirstSelectable(L))
           /\ OnSession(L, NextSelectable(L, c))
           /\ OnSession(L, PrevSelectable(L, c))
           /\ OnSession(L, ClampCursor(L, c))
<1>1. DOMAIN L = 1..Len(L) /\ Len(L) \in Nat
  OBVIOUS
<1>2. Selectables(L) \in SUBSET (1..Len(L))
  BY <1>1 DEF Selectables
<1>3. ASSUME NEW T \in SUBSET Selectables(L), T # {} PROVE Least(T) \in T /\ Greatest(T) \in T
  <2>1. T \in SUBSET (1..Len(L)) /\ T \in SUBSET Nat
    BY <1>1, <1>2
  <2> QED
    BY <1>1, <1>3, <2>1, LeastIs, GreatestIs
<1>4. OnSession(L, FirstSelectable(L))
  BY <1>3 DEF OnSession, FirstSelectable
<1>5. OnSession(L, NextSelectable(L, c))
  <2> DEFINE after == {i \in Selectables(L) : i > c}
  <2>1. after # {} => Least(after) \in Selectables(L)
    BY <1>3
  <2> QED
    BY <2>1, <1>4 DEF OnSession, NextSelectable
<1>6. OnSession(L, PrevSelectable(L, c))
  <2> DEFINE before == {i \in Selectables(L) : i < c}
  <2>1. before # {} => Greatest(before) \in Selectables(L)
    BY <1>3
  <2>2. Selectables(L) # {} => Greatest(Selectables(L)) \in Selectables(L)
    BY <1>3
  <2> QED
    BY <2>1, <2>2 DEF OnSession, PrevSelectable
<1>7. OnSession(L, ClampCursor(L, c))
  <2> DEFINE at == IF c < 1 THEN 1 ELSE IF c > Len(L) THEN Len(L) ELSE c
             below == {i \in Selectables(L) : i >= at}
  <2>1. below # {} => Least(below) \in Selectables(L)
    BY <1>3
  <2>2. Selectables(L) # {} => Greatest(Selectables(L)) \in Selectables(L)
    BY <1>3
  <2> QED
    BY <2>1, <2>2 DEF OnSession, ClampCursor
<1> QED
  BY <1>4, <1>5, <1>6, <1>7

-----------------------------------------------------------------------------
(* The window. *)

(* The window has the cursor's row in it, and fills the height if there are *)
(* rows enough (rows.go:175-190).                                           *)
LEMMA WindowShows ==
    ASSUME NEW total \in Nat, NEW c \in 1..total, NEW h \in Nat, h >= 1
    PROVE  LET w == VisibleWindow(total, c, h)
           IN  /\ w[1] \in 1..c /\ w[2] \in c..total
               /\ w[2] - w[1] + 1 <= h
               /\ total <= h => w[1] = 1 /\ w[2] = total
               /\ total > h => w[2] - w[1] + 1 = h
<1> DEFINE half == h \div 2
<1>1. half \in Nat /\ 2 * half <= h /\ h <= 2 * half + 1
  OBVIOUS
<1> QED
  BY <1>1 DEF VisibleWindow

(* A row of the window a..b is drawn unless the cut to the height takes it: *)
(* it and the rows above it, with their indicator, must have room.          *)
LEMMA DrawnUnlessCut ==
    ASSUME NEW total \in Nat, NEW a \in 1..total, NEW b \in a..total, NEW c \in a..b,
           NEW h \in Nat,
           c - a + 1 + (IF a > 1 THEN 1 ELSE 0) <= h
    PROVE  LET lines == (IF a > 1 THEN <<0>> ELSE <<>>)
                        \o [i \in 1..(b - a + 1) |-> a + i - 1]
                        \o (IF b < total THEN <<0>> ELSE <<>>)
           IN  c \in ToSet(SubSeq(lines, 1, IF Len(lines) > h THEN h ELSE Len(lines)))
<1> DEFINE top == IF a > 1 THEN <<0>> ELSE <<>>
           mid == [i \in 1..(b - a + 1) |-> a + i - 1]
           end == IF b < total THEN <<0>> ELSE <<>>
           n   == IF a > 1 THEN 1 ELSE 0
           m   == b - a + 1
           p   == c - a + 1 + n
<1>1. top \in Seq(Nat) /\ Len(top) = n /\ n \in Nat
  OBVIOUS
<1>2. end \in Seq(Nat) /\ Len(end) \in Nat
  OBVIOUS
<1>3. m \in Nat /\ mid \in Seq(Nat) /\ Len(mid) = m /\ \A i \in 1..m : mid[i] = a + i - 1
  OBVIOUS
<1>4. c - a + 1 \in 1..m /\ mid[c - a + 1] = c
  OBVIOUS
<1> HIDE DEF top, mid, end, n, m
<1>5. top \o mid \in Seq(Nat) /\ Len(top \o mid) = n + m /\ (top \o mid)[p] = c
  <2>1. top \o mid \in Seq(Nat) /\ Len(top \o mid) = n + m
    BY <1>1, <1>3, ConcatProperties
  <2>2. p \in 1..(n + m) /\ p > n /\ p - n = c - a + 1
    BY <1>1, <1>3, <1>4
  <2> HIDE DEF p
  <2>3. (top \o mid)[p] = mid[p - n]
    BY <1>1, <1>3, <2>2
  <2> QED
    BY <2>1, <2>2, <2>3, <1>4
<1> DEFINE all == (top \o mid) \o end
<1>6. all \in Seq(Nat) /\ Len(all) \in Nat /\ p \in 1..Len(all) /\ all[p] = c
  <2> DEFINE tm == top \o mid
  <2>1. p \in 1..(n + m)
    BY <1>1, <1>3, <1>4
  <2>2. tm \in Seq(Nat) /\ Len(tm) = n + m /\ tm[p] = c
    BY <1>5
  <2> HIDE DEF tm, p
  <2>3. /\ tm \o end \in Seq(Nat) /\ Len(tm \o end) = n + m + Len(end)
        /\ (tm \o end)[p] = tm[p]
    <3>1. tm \o end \in Seq(Nat) /\ Len(tm \o end) = Len(tm) + Len(end)
      BY <1>2, <2>2, ConcatProperties
    <3>2. (tm \o end)[p] = tm[p]
      BY <1>1, <1>2, <1>3, <2>1, <2>2, ConcatProperties
    <3> QED
      BY <3>1, <3>2, <2>2
  <2> QED
    BY <1>1, <1>2, <1>3, <2>1, <2>2, <2>3 DEF tm
<1> HIDE DEF all
<1> DEFINE cut == IF Len(all) > h THEN h ELSE Len(all)
           sub == SubSeq(all, 1, cut)
<1>7. cut \in 0..Len(all) /\ p \in 1..cut
  BY <1>1, <1>6 DEF n
<1> HIDE DEF cut, p
<1>8. p \in DOMAIN sub /\ sub[p] = all[p]
  BY <1>6, <1>7
<1>9. c \in ToSet(sub)
  BY <1>8, <1>6 DEF ToSet
<1> QED
  BY <1>9 DEF cut, all, top, mid, end

(* In two lines or more the cursor's row is drawn: the window is made for the  *)
(* lines that the indicators of its first attempt leave, and has one that this *)
(* attempt did not have only when the other is gone (app.go:1201-1247).        *)
LEMMA DrawnWithCursor ==
    ASSUME NEW total \in Nat, NEW c \in 1..total, NEW h \in Nat, h >= 2
    PROVE  c \in ToSet(ListBody(total, c, h))
<1> DEFINE w == WindowRows(total, c, h)
<1>1. /\ w[1] \in 1..c /\ w[2] \in c..total
      /\ c - w[1] + 1 + (IF w[1] > 1 THEN 1 ELSE 0) <= h
  <2> DEFINE v == VisibleWindow(total, c, h)
             e == h - (IF v[1] > 1 THEN 1 ELSE 0) - (IF v[2] < total THEN 1 ELSE 0)
             eff == IF e < 1 THEN 1 ELSE e
             u == VisibleWindow(total, c, eff)
  <2>1. CASE total <= h
    BY <2>1 DEF WindowRows
  <2>2. CASE total > h
    <3>1. w = u
      BY <2>2 DEF WindowRows
    <3>2. /\ v[1] \in 1..c /\ v[2] \in c..total
          /\ v[2] - v[1] + 1 = h
      BY <2>2, WindowShows
    <3>3. eff \in Nat /\ eff >= 1 /\ eff <= h - 1
      BY <3>2, <2>2
    <3>4. /\ u[1] \in 1..c /\ u[2] \in c..total
          /\ u[2] - u[1] + 1 <= eff
      BY <3>3, WindowShows
    <3> HIDE DEF u, v
    <3> QED
      BY <3>1, <3>3, <3>4
  <2> QED
    BY <2>1, <2>2
<1> HIDE DEF w
<1>2. w[1] \in 1..total /\ w[2] \in w[1]..total /\ c \in w[1]..w[2]
  BY <1>1
<1> QED
  BY <1>1, <1>2, DrawnUnlessCut DEF ListBody, w

-----------------------------------------------------------------------------
(* The cockpit. *)

USE CockpitAssumption

(* Every snapshot the cockpit has is one that a poll may bring, or none yet. *)
LEMMA SnapFacts ==
    ASSUME NEW s \in Snaps \cup {<<>>}
    PROVE  s \in Seq(Seq(Seq(Session))) /\ KeysOnce(s) /\ SessionsIn(s) \subseteq Sessions
<1>1. CASE s \in Snaps
  BY <1>1 DEF CockpitAssumption, Sessions
<1>2. CASE s = <<>>
  BY <1>2 DEF KeysOnce, SessionsIn
<1> QED
  BY <1>1, <1>2

(* What a list of a snapshot and a cursor on it hold: sessions of that snapshot. *)
LEMMA ListFacts ==
    ASSUME NEW s \in Snaps \cup {<<>>}, NEW q, NEW f, NEW L, L = BuildRows(s, q, f),
           NEW c, OnSession(L, c)
    PROVE  /\ L \in Seq(RowsOver(Session)) /\ c \in 0..Len(L)
           /\ \A i \in DOMAIN L : L[i].session \in SessionsIn(s) \cup {NoSession}
           /\ SessionAt(L, c) \in SessionsIn(s) \cup {NoSession}
           /\ SessionsIn(s) \subseteq Sessions
<1>1. L \in Seq(RowsOver(Session)) /\ ListedIn(L) \subseteq SessionsIn(s)
  BY SnapFacts, BuildList
<1>2. DOMAIN L = 1..Len(L) /\ Len(L) \in Nat /\ \A i \in DOMAIN L : L[i] \in RowsOver(Session)
  BY <1>1
<1>3. c \in 0..Len(L)
  BY <1>2 DEF OnSession, Selectables
<1>4. ASSUME NEW i \in DOMAIN L PROVE L[i].session \in SessionsIn(s) \cup {NoSession}
  <2>1. CASE Selectable(L[i])
    BY <2>1, <1>1 DEF ListedIn, Selectables
  <2>2. CASE ~Selectable(L[i])
    BY <2>2, <1>2, RowIsEither
  <2> QED
    BY <2>1, <2>2
<1>5. SessionAt(L, c) \in SessionsIn(s) \cup {NoSession}
  BY <1>4 DEF SessionAt
<1> QED
  BY <1>1, <1>3, <1>4, <1>5, SnapFacts

(* Before the first snapshot the list is empty (rows.go:75-77). *)
LEMMA NothingListed == \A q, f : BuildRows(<<>>, q, f) = <<>>
<1> TAKE q, f
<1>1. \A b : GroupRows(<<>>, b, q) = <<>>
  <2> TAKE b
  <2> DEFINE Q == [r \in DOMAIN <<>> |-> RepoRows(<<>>[r], b, q)]
  <2>1. Q = <<>>
    OBVIOUS
  <2>2. FlattenSeq(<<>>) = <<>>
    BY DEF FlattenSeq
  <2>3. GroupRows(<<>>, b, q) = Headed("bucket", FlattenSeq(Q))
    BY DEF GroupRows
  <2> QED
    BY <2>1, <2>2, <2>3 DEF Headed
<1> DEFINE E == [i \in DOMAIN BucketOrder |->
                    IF Matches(f, BucketOrder[i]) THEN GroupRows(<<>>, BucketOrder[i], q) ELSE <<>>]
<1>2. DOMAIN E = 1..4 /\ \A i \in 1..4 : E[i] = <<>>
  BY <1>1 DEF BucketOrder
<1>3. BuildRows(<<>>, q, f) = FlattenSeq(E)
  BY DEF BuildRows
<1> HIDE DEF E
<1>4. E \in Seq(Seq({}))
  <2>1. E = [i \in 1..4 |-> <<>>]
    BY <1>2, <1>3 DEF E
  <2> QED
    BY <2>1
<1>5. FlattenSeq(E) \in Seq({})
  BY <1>4, FlattenInTurn
<1> QED
  BY <1>3, <1>5

(* The list is always that of the last snapshot, query and filter, and the      *)
(* cursor on a session of it.  Each part needs the other: that a key leaves the *)
(* cursor on a session is a fact about the rows as BuildRows makes them.        *)
ListInv ==
    /\ rows = BuildRows(snap, query, stateFilter)
    /\ CursorOnSession

(* Every handler that calls rebuildRows leaves it so (app.go:479-482). *)
LEMMA Rebuilds ==
    ASSUME TypeOK, ListInv, snap' \in Snaps \cup {<<>>}, Rebuild
    PROVE  ListInv'
<1>1. rows \in Seq(RowsOver(Session)) /\ cursor \in Nat
  <2>1. OnSession(rows, cursor)
    BY DEF ListInv, CursorOnSession, OnSession
  <2>2. rows \in Seq(RowsOver(Session)) /\ cursor \in 0..Len(rows)
    BY <2>1, ListFacts DEF ListInv, TypeOK
  <2> QED
    BY <2>2
<1>2. rows' = BuildRows(snap', query', stateFilter') /\ cursor' = ClampCursor(rows', cursor)
  BY DEF Rebuild
<1>3. rows' \in Seq(RowsOver(Session))
  BY <1>2, SnapFacts, BuildList
<1>4. OnSession(rows', cursor')
  BY <1>1, <1>2, <1>3, CursorMoves
<1> QED
  BY <1>2, <1>4 DEF ListInv, CursorOnSession, OnSession

(* f[i] is where half a page has come to after i rows. *)
Paces(down, n, f) == f = [i \in 0..n |-> IF i = 0 THEN cursor ELSE Onward(down, f[i - 1])]

(* There is a function that HalfPage's recursive definition is of. *)
LEMMA PacesExist ==
    ASSUME NEW down, NEW n \in Nat
    PROVE  \E f : Paces(down, n, f)
<1> DEFINE T == {m \in Nat : \E f : Paces(down, m, f)}
<1>1. 0 \in T
  <2>1. Paces(down, 0, [i \in 0..0 |-> cursor])
    BY DEF Paces
  <2> QED
    BY <2>1
<1>2. ASSUME NEW m \in Nat, m \in T PROVE m + 1 \in T
  <2>1. PICK f : Paces(down, m, f)
    BY <1>2
  <2> DEFINE g == [i \in 0..(m + 1) |-> IF i \in 0..m THEN f[i] ELSE Onward(down, f[i - 1])]
  <2>2. \A i \in 0..(m + 1) : i # 0 => i - 1 \in 0..m /\ g[i - 1] = f[i - 1]
    OBVIOUS
  <2>3. \A i \in 0..m : f[i] = IF i = 0 THEN cursor ELSE Onward(down, f[i - 1])
    BY <2>1 DEF Paces
  <2>4. \A i \in 0..(m + 1) : g[i] = IF i = 0 THEN cursor ELSE Onward(down, g[i - 1])
    BY <2>2, <2>3
  <2>5. g = [i \in 0..(m + 1) |-> g[i]]
    OBVIOUS
  <2>6. g = [i \in 0..(m + 1) |-> IF i = 0 THEN cursor ELSE Onward(down, g[i - 1])]
    BY <2>4, <2>5, Zenon
  <2>7. Paces(down, m + 1, g)
    BY <2>6 DEF Paces
  <2> QED
    BY <2>7
<1> HIDE DEF T
<1>3. Nat \subseteq T
  BY <1>1, <1>2, Induct
<1> QED
  BY <1>3 DEF T

(* One row of it ends on a session, *)
LEMMA OnwardLands ==
    ASSUME NEW S, rows \in Seq(S), NEW down \in BOOLEAN, NEW c \in Nat, OnSession(rows, c)
    PROVE  Onward(down, c) \in Nat /\ OnSession(rows, Onward(down, c))
<1>1. OnSession(rows, NextSelectable(rows, c)) /\ OnSession(rows, PrevSelectable(rows, c))
  BY CursorMoves
<1>2. \A d : OnSession(rows, d) => d \in Nat
  BY DEF OnSession, Selectables
<1> QED
  BY <1>1, <1>2 DEF Onward

(* and so does all of it (app.go:818-841). *)
LEMMA HalfPageLands ==
    ASSUME NEW S, rows \in Seq(S), cursor \in Nat, OnSession(rows, cursor), size.body \in Nat,
           NEW down \in BOOLEAN, HalfPage(down)
    PROVE  \E to \in Nat : OnSession(rows, to) /\ MoveCursor(to)
<1> DEFINE step == IF size.body < 2 THEN 1 ELSE size.body \div 2
           at == CHOOSE at : at = [n \in 0..step |-> IF n = 0 THEN cursor ELSE Onward(down, at[n - 1])]
<1>1. step \in Nat
  OBVIOUS
<1>2. MoveCursor(at[step])
  BY Zenon DEF HalfPage
<1> HIDE DEF step
<1>3. at = [n \in 0..step |-> IF n = 0 THEN cursor ELSE Onward(down, at[n - 1])]
  BY <1>1, PacesExist, Zenon DEF Paces
<1> HIDE DEF at
<1>4. \A n \in 0..step : at[n] = IF n = 0 THEN cursor ELSE Onward(down, at[n - 1])
  BY <1>3
<1> DEFINE T == {n \in Nat : n <= step => at[n] \in Nat /\ OnSession(rows, at[n])}
<1>5. 0 \in T
  BY <1>1, <1>4
<1>6. ASSUME NEW n \in Nat, n \in T PROVE n + 1 \in T
  <2> SUFFICES ASSUME n + 1 <= step PROVE at[n + 1] \in Nat /\ OnSession(rows, at[n + 1])
    OBVIOUS
  <2>1. at[n] \in Nat /\ OnSession(rows, at[n])
    BY <1>1, <1>6
  <2>2. n + 1 \in 0..step /\ n + 1 # 0 /\ (n + 1) - 1 = n
    BY <1>1
  <2>3. at[n + 1] = Onward(down, at[n])
    BY <2>2, <1>4
  <2> QED
    BY <2>1, <2>3, OnwardLands
<1> HIDE DEF T
<1>7. step \in T
  BY <1>1, <1>5, <1>6, Induct
<1>8. at[step] \in Nat /\ OnSession(rows, at[step])
  BY <1>1, <1>7 DEF T
<1> QED
  BY <1>2, <1>8

LEMMA FiltersAre == Filters = {"all", "needs", "working", "idle", "terminal"}
<1>1. /\ DOMAIN BucketOrder = 1..4
      /\ BucketOrder[1] = "needs" /\ BucketOrder[2] = "working"
      /\ BucketOrder[3] = "idle" /\ BucketOrder[4] = "terminal"
  BY DEF BucketOrder
<1> QED
  BY <1>1 DEF Filters, ToSet

LEMMA KeysTyped ==
    ASSUME NEW x \in Sessions \cup {NoSession}
    PROVE  x.key \in Keys \cup {Nobody} /\ (x # NoSession => x.key \in Keys)
  BY DEF Keys, Nobody

(* Every message and key keeps the list that of the last snapshot, query and *)
(* filter, and the cursor on it (app.go:484-784).                            *)
LEMMA ListStep == TypeOK /\ ListInv /\ [Next]_vars => ListInv'
<1> SUFFICES ASSUME TypeOK, ListInv, [Next]_vars PROVE ListInv'
  OBVIOUS
<1>1. ASSUME UNCHANGED list PROVE ListInv'
  BY <1>1 DEF ListInv, CursorOnSession, list
<1>2. /\ rows \in Seq(RowsOver(Session)) /\ cursor \in Nat /\ OnSession(rows, cursor)
  <2>1. OnSession(rows, cursor)
    BY DEF ListInv, CursorOnSession, OnSession
  <2>2. rows \in Seq(RowsOver(Session)) /\ cursor \in 0..Len(rows)
    BY <2>1, ListFacts DEF ListInv, TypeOK
  <2> QED
    BY <2>1, <2>2
<1>3. ASSUME NEW to \in Nat, OnSession(rows, to), MoveCursor(to) PROVE ListInv'
  <2>1. OnSession(rows, cursor')
    BY <1>2, <1>3 DEF MoveCursor
  <2>2. UNCHANGED <<snap, query, stateFilter, rows>>
    BY <1>3 DEF MoveCursor
  <2> QED
    BY <2>1, <2>2 DEF ListInv, CursorOnSession, OnSession
<1>4. ASSUME UNCHANGED snap, Rebuild PROVE ListInv'
  <2>1. snap' \in Snaps \cup {<<>>}
    BY <1>4 DEF TypeOK
  <2> QED
    BY <1>4, <2>1, Rebuilds
<1>5. ASSUME NEW s \in Snaps, SnapMsg(s, TRUE) PROVE ListInv'
  <2>1. snap' \in Snaps \cup {<<>>} /\ Rebuild
    BY <1>5 DEF SnapMsg
  <2> QED
    BY <2>1, Rebuilds
<1>6. CASE SnapMsg(snap, FALSE)
  BY <1>4, <1>6 DEF SnapMsg
<1>7. ASSUME NEW s \in Sizes, WindowSizeMsg(s) PROVE ListInv'
  BY <1>1, <1>7 DEF WindowSizeMsg
<1>8. CASE PreviewTick \/ PreviewSettled \/ SpinnerTick \/ AttachDoneMsg
  BY <1>1, <1>8 DEF PreviewTick, PreviewSettled, SpinnerTick, AttachDoneMsg
<1>9. ASSUME NEW k \in Keys, PreviewMsg(k) PROVE ListInv'
  BY <1>1, <1>9 DEF PreviewMsg
<1>10. CASE Down \/ Up \/ ToFirst \/ ToLast
  <2>1. /\ OnSession(rows, NextSelectable(rows, cursor)) /\ OnSession(rows, PrevSelectable(rows, cursor))
        /\ OnSession(rows, FirstSelectable(rows)) /\ OnSession(rows, PrevSelectable(rows, 1))
    BY <1>2, CursorMoves
  <2>2. \A d : OnSession(rows, d) => d \in Nat
    BY <1>2 DEF OnSession, Selectables
  <2> QED
    BY <1>3, <1>10, <2>1, <2>2 DEF Down, Up, ToFirst, ToLast
<1>11. ASSUME NEW down \in BOOLEAN, HalfPage(down) PROVE ListInv'
  <2>1. size.body \in Nat
    BY DEF TypeOK, CockpitAssumption
  <2> QED
    BY <1>2, <1>3, <1>11, <2>1, HalfPageLands
<1>12. ASSUME NEW f, SetFilter(f) PROVE ListInv'
  BY <1>4, <1>12 DEF SetFilter
<1>13. CASE EscClear
  <2>1. CASE query # Everything \/ stateFilter # "all"
    BY <1>4, <1>13, <2>1 DEF EscClear
  <2>2. CASE query = Everything /\ stateFilter = "all"
    BY <1>13, <2>2 DEF EscClear, ListInv, CursorOnSession
  <2> QED
    BY <2>1, <2>2
<1>14. CASE TogglePreview \/ OpenKey \/ RespawnKey \/ OpenMode \/ Quit
  BY <1>1, <1>14 DEF TogglePreview, OpenKey, RespawnKey, OpenMode, Quit
<1>15. CASE FilterKey
  BY <1>15 DEF FilterKey, ListInv, CursorOnSession
<1>16. ASSUME NEW inTmux \in BOOLEAN, EnterKey(inTmux) \/ DurableAttach(inTmux) PROVE ListInv'
  BY <1>1, <1>16 DEF EnterKey, DurableAttach
<1>17. CASE Dismiss \/ DispatchEnter \/ ReplyEnter \/ ConfirmYes \/ DurableResume
  BY <1>1, <1>17 DEF Dismiss, DispatchEnter, ReplyEnter, ConfirmYes, DurableResume
<1>18. ASSUME NEW q \in Queries, FilterEdit(q) PROVE ListInv'
  BY <1>4, <1>18 DEF FilterEdit
<1>19. CASE FilterEsc \/ FilterEnter
  BY <1>4, <1>19 DEF FilterEsc, FilterEnter
<1>20. CASE UNCHANGED vars
  BY <1>1, <1>20 DEF vars
<1> QED
  BY <1>5, <1>6, <1>7, <1>8, <1>9, <1>10, <1>11, <1>12, <1>13, <1>14, <1>15, <1>16, <1>17,
     <1>18, <1>19, <1>20 DEF Next, Message, KeyMsg, ApplyStateFilter, CycleFilter

(* What the list and its cursor hold is of the types. *)
LEMMA BoardTyped ==
    ASSUME NEW s \in Snaps \cup {<<>>}, NEW q, NEW f, NEW L, L = BuildRows(s, q, f),
           NEW c, OnSession(L, c)
    PROVE  /\ \A i \in DOMAIN L : L[i].session \in Sessions \cup {NoSession}
           /\ c \in 0..Len(L)
           /\ SessionAt(L, c) \in Sessions \cup {NoSession}
           /\ SessionAt(L, c).key \in Keys \cup {Nobody}
           /\ SessionAt(L, c) # NoSession => SessionAt(L, c).key \in Keys
  BY ListFacts, KeysTyped

(* The parts of TypeOK that say nothing of the list. *)
Typed ==
    /\ query \in Queries /\ queryPrev \in Queries
    /\ stateFilter \in Filters
    /\ snap \in Snaps \cup {<<>>}
    /\ mode \in Modes
    /\ sheet \in Sessions \cup {NoSession}
    /\ showPreview \in BOOLEAN /\ settling \in BOOLEAN /\ spinnerOn \in BOOLEAN
    /\ suspending \in BOOLEAN
    /\ size \in Sizes
    /\ previewKey \in Keys \cup {Nobody}
    /\ fetching \subseteq Keys
    /\ spinnerTicks \in Nat
    /\ sent.verb \in Verbs /\ sent.key \in Keys \cup {Nobody}
    /\ sent = [verb |-> sent.verb, key |-> sent.key]
    /\ aim \in Keys \cup {Nobody}

LEMMA TypedIs ==
    TypeOK <=> /\ Typed
               /\ \A i \in DOMAIN rows : rows[i].session \in Sessions \cup {NoSession}
               /\ cursor \in 0..Len(rows)
  BY DEF TypeOK, Typed

(* Every message and key keeps the types (app.go:484-1013). *)
LEMMA TypeStep == TypeOK /\ ListInv /\ ListInv' /\ [Next]_vars => TypeOK'
<1> SUFFICES ASSUME TypeOK, ListInv, ListInv', [Next]_vars PROVE TypeOK'
  OBVIOUS
<1>0. Typed
  BY TypedIs
<1>1. snap' \in Snaps \cup {<<>>}
  <2>1. (\E s \in Snaps : SnapMsg(s, TRUE)) \/ SnapMsg(snap, FALSE) \/ UNCHANGED snap
    BY DEF Next, Message, KeyMsg, vars, list, WindowSizeMsg, PreviewTick, PreviewSettled, PreviewMsg,
           SpinnerTick, AttachDoneMsg, Down, Up, ToFirst, ToLast, HalfPage, MoveCursor, SetFilter,
           ApplyStateFilter, CycleFilter, EscClear, TogglePreview, EnterKey, OpenKey, RespawnKey,
           FilterKey, OpenMode, Quit, Dismiss, FilterEdit, FilterEsc, FilterEnter, DispatchEnter,
           ReplyEnter, ConfirmYes, DurableResume, DurableAttach
  <2> QED
    BY <2>1, <1>0 DEF Typed, SnapMsg
<1>2. /\ Selected \in Sessions \cup {NoSession} /\ Selected.key \in Keys \cup {Nobody}
      /\ Selected # NoSession => Selected.key \in Keys
  <2>1. OnSession(rows, cursor) /\ rows = BuildRows(snap, query, stateFilter)
    BY DEF ListInv, CursorOnSession, OnSession
  <2> QED
    BY <1>0, <2>1, BoardTyped DEF Typed, Selected
<1>3. /\ Selected' \in Sessions \cup {NoSession} /\ Selected'.key \in Keys \cup {Nobody}
      /\ Selected' # NoSession => Selected'.key \in Keys
      /\ \A i \in DOMAIN rows' : rows'[i].session \in Sessions \cup {NoSession}
      /\ cursor' \in 0..Len(rows')
  <2>1. OnSession(rows', cursor') /\ rows' = BuildRows(snap', query', stateFilter')
    BY DEF ListInv, CursorOnSession, OnSession
  <2> QED
    BY <1>1, <2>1, BoardTyped DEF Selected
<1>4. Wanted \subseteq Keys /\ Wanted' \subseteq Keys
  BY <1>2, <1>3 DEF Wanted
<1>5. sheet.key \in Keys \cup {Nobody}
  BY <1>0, KeysTyped DEF Typed
<1>6. Nobody \in Keys \cup {Nobody} /\ NoSession \in Sessions \cup {NoSession} /\ NoSession.key = Nobody
  BY DEF Nobody
<1> SUFFICES Typed'
  BY <1>3, TypedIs DEF TypeOK, Typed
<1> USE DEF Typed
<1>a. ASSUME NEW s, NEW ok \in BOOLEAN, SnapMsg(s, ok) PROVE Typed'
  <2>1. spinnerOn' \in BOOLEAN /\ spinnerTicks' \in Nat
    <3>1. StartSpinner
      BY <1>a DEF SnapMsg
    <3> QED
      BY <3>1, <1>0 DEF StartSpinner
  <2>2. previewKey' \in Keys \cup {Nobody} /\ fetching' \subseteq Keys /\ settling' \in BOOLEAN
    <3>1. Renew \/ UNCHANGED preview
      BY <1>a DEF SnapMsg
    <3> QED
      BY <3>1, <1>0, <1>4 DEF Renew, preview
  <2>3. UNCHANGED <<query, queryPrev, stateFilter, size, showPreview, mode, sheet, aim, suspending>>
        /\ sent' = Nothing
    BY <1>a DEF SnapMsg, screen, dialogue
  <2> QED
    BY <2>1, <2>2, <2>3, <1>0, <1>1, <1>6 DEF Nothing, Verbs
<1>b. ASSUME NEW s \in Sizes, WindowSizeMsg(s) PROVE Typed'
  BY <1>b, <1>0, <1>4, <1>6 DEF WindowSizeMsg, Refresh, Nothing, Verbs, list, spinner, dialogue
<1>c. CASE PreviewTick
  BY <1>c, <1>0, <1>4, <1>6 DEF PreviewTick, Refresh, Nothing, Verbs, list, screen, spinner, dialogue
<1>d. CASE PreviewSettled
  BY <1>d, <1>0, <1>4, <1>6 DEF PreviewSettled, Nothing, Verbs, list, screen, spinner, dialogue
<1>e. ASSUME NEW k \in Keys, PreviewMsg(k) PROVE Typed'
  BY <1>e, <1>0, <1>6 DEF PreviewMsg, Nothing, Verbs, list, screen, spinner, dialogue
<1>f. CASE SpinnerTick
  <2>1. spinnerOn' \in BOOLEAN /\ spinnerTicks' \in Nat
    <3>1. spinnerTicks > 0 /\ (UNCHANGED spinner \/ (spinnerOn' = FALSE /\ spinnerTicks' = spinnerTicks - 1))
      BY <1>f DEF SpinnerTick
    <3>2. CASE UNCHANGED spinner
      BY <3>2, <1>0 DEF spinner
    <3>3. CASE spinnerOn' = FALSE /\ spinnerTicks' = spinnerTicks - 1
      <4>1. spinnerTicks \in Nat /\ spinnerTicks > 0
        BY <3>1, <1>0
      <4>2. spinnerTicks' = spinnerTicks - 1
        BY <3>3, Zenon
      <4>3. spinnerTicks' \in Nat
        BY <4>1, <4>2
      <4> QED
        BY <4>3, <3>3, Zenon
    <3> QED
      BY <3>1, <3>2, <3>3
  <2>2. UNCHANGED <<list, screen, preview, dialogue, suspending>> /\ sent' = Nothing
    BY <1>f DEF SpinnerTick
  <2> QED
    BY <2>1, <2>2, <1>0, <1>6 DEF Nothing, Verbs, list, screen, preview, dialogue
<1>g. CASE AttachDoneMsg
  BY <1>g, <1>0, <1>4, <1>6 DEF AttachDoneMsg, Refresh, Nothing, Verbs, list, screen, spinner, dialogue
<1>h. ASSUME NEW to, MoveCursor(to) PROVE Typed'
  BY <1>h, <1>0, <1>6 DEF MoveCursor, Settle, Visible, Nothing, Verbs, screen, spinner, dialogue
<1>i. ASSUME NEW f \in Filters, SetFilter(f) PROVE Typed'
  BY <1>i, <1>0, <1>4, <1>6 DEF SetFilter, Refresh, Nothing, Verbs, screen, spinner, dialogue
<1>j. CASE EscClear
  <2>1. Everything \in Queries /\ "all" \in Filters
    BY FiltersAre DEF CockpitAssumption
  <2> QED
    BY <1>j, <2>1, <1>0, <1>4, <1>6 DEF EscClear, Refresh, Nothing, Verbs, preview, screen, spinner, dialogue
<1>k. CASE TogglePreview
  BY <1>k, <1>0, <1>4, <1>6 DEF TogglePreview, Refresh, Nothing, Verbs, list, preview, spinner, dialogue
<1>l. ASSUME NEW inTmux \in BOOLEAN, EnterKey(inTmux) PROVE Typed'
  BY <1>l, <1>0, <1>2 DEF EnterKey, Attach, Send, Verbs, list, screen, preview, spinner, dialogue
<1>m. CASE OpenKey \/ RespawnKey
  BY <1>m, <1>0, <1>2 DEF OpenKey, RespawnKey, Send, Verbs, list, screen, preview, spinner, dialogue
<1>n. CASE FilterKey
  BY <1>n, <1>0, <1>2, <1>6 DEF FilterKey, Enters, Nothing, Modes, Verbs, screen, preview, spinner
<1>o. CASE OpenMode
  BY <1>o, <1>0, <1>2, <1>6 DEF OpenMode, Enters, Nothing, Modes, Verbs, list, screen, preview, spinner
<1>p. CASE Quit
  BY <1>p, <1>0, <1>6 DEF Quit, Nothing, Modes, Verbs, list, screen, preview, spinner
<1>q. CASE Dismiss
  BY <1>q, <1>0, <1>6 DEF Dismiss, BackToList, Nothing, Modes, Verbs, list, screen, preview, spinner
<1>r. ASSUME NEW q \in Queries, FilterEdit(q) PROVE Typed'
  BY <1>r, <1>0, <1>6 DEF FilterEdit, Nothing, Verbs, screen, preview, spinner, dialogue
<1>s. CASE FilterEsc
  BY <1>s, <1>0, <1>6 DEF FilterEsc, BackToList, Nothing, Modes, Verbs, screen, preview, spinner
<1>t. CASE FilterEnter
  BY <1>t, <1>0, <1>4, <1>6 DEF FilterEnter, BackToList, Refresh, Nothing, Modes, Verbs, screen, spinner
<1>u. CASE DispatchEnter
  BY <1>u, <1>0, <1>2, <1>6 DEF DispatchEnter, BackToList, Send, Modes, Verbs, list, screen, preview, spinner
<1>v. CASE ReplyEnter
  BY <1>v, <1>0, <1>2, <1>6 DEF ReplyEnter, BackToList, Send, Nothing, Modes, Verbs, list, screen, preview, spinner
<1>w. CASE ConfirmYes
  BY <1>w, <1>0, <1>5, <1>6 DEF ConfirmYes, BackToList, Send, Modes, Verbs, list, screen, preview, spinner
<1>x. CASE DurableResume
  BY <1>x, <1>0, <1>5, <1>6 DEF DurableResume, BackToList, Send, Nothing, Modes, Verbs, list, screen, preview, spinner
<1>y. ASSUME NEW inTmux \in BOOLEAN, DurableAttach(inTmux) PROVE Typed'
  <2>1. BackToList /\ UNCHANGED <<list, screen, preview, spinner>>
    BY <1>y DEF DurableAttach
  <2>2. CASE Attach(sheet, inTmux)
    <3>1. suspending' \in BOOLEAN
      BY <2>2 DEF Attach
    <3>2. \E v \in Verbs : sent' = [verb |-> v, key |-> sheet.key]
      BY <2>2 DEF Attach, Send, Verbs
    <3> QED
      BY <2>1, <3>1, <3>2, <1>0, <1>5, <1>6 DEF BackToList, Modes, list, screen, preview, spinner
  <2>3. CASE sent' = Nothing /\ UNCHANGED suspending
    BY <2>1, <2>3, <1>0, <1>6 DEF BackToList, Nothing, Modes, Verbs, list, screen, preview, spinner
  <2> QED
    BY <2>2, <2>3, <1>y DEF DurableAttach
<1>z. CASE UNCHANGED vars
  BY <1>z, <1>0 DEF vars, list, screen, preview, spinner, dialogue
<1>A. ASSUME NEW f \in ToSet(BucketOrder), ApplyStateFilter(f) PROVE Typed'
  <2>1. f \in Filters /\ "all" \in Filters
    BY FiltersAre DEF Filters
  <2> QED
    BY <1>A, <1>i, <2>1 DEF ApplyStateFilter
<1>B. CASE CycleFilter
  <2>1. FilterAfter(stateFilter) \in Filters
    BY <1>0, FiltersAre DEF FilterAfter
  <2> QED
    BY <1>B, <1>i, <2>1 DEF CycleFilter
<1>C. ASSUME NEW down \in BOOLEAN, HalfPage(down) PROVE Typed'
  <2>1. \E to : MoveCursor(to)
    BY <1>C DEF HalfPage
  <2> QED
    BY <2>1, <1>h
<1>D. CASE Down \/ Up \/ ToFirst \/ ToLast
  BY <1>D, <1>h DEF Down, Up, ToFirst, ToLast
<1> QED
  BY <1>a, <1>b, <1>c, <1>d, <1>e, <1>f, <1>g, <1>j, <1>k, <1>l, <1>m, <1>n, <1>o, <1>p, <1>q,
     <1>r, <1>s, <1>t, <1>u, <1>v, <1>w, <1>x, <1>y, <1>z, <1>A, <1>B, <1>C, <1>D
  DEF Next, Message, KeyMsg

(* The types hold and the list is that of the last snapshot, query and filter, *)
(* with the cursor on a session of it, whatever comes when.                    *)
THEOREM ListInvariant == Spec => [](TypeOK /\ ListInv)
<1>1. Init => TypeOK /\ ListInv
  <2> SUFFICES ASSUME Init PROVE TypeOK /\ ListInv
    OBVIOUS
  <2>1. rows = BuildRows(snap, query, stateFilter) /\ rows = <<>> /\ cursor = 0
    BY NothingListed DEF Init
  <2>2. CursorOnSession
    BY <2>1 DEF CursorOnSession, Selectables
  <2>3. TypeOK
    <3>1. NoSession.key = Nobody /\ "all" \in Filters /\ Everything \in Queries
      BY FiltersAre DEF Nobody, CockpitAssumption
    <3>2. Typed
      BY <3>1 DEF Init, Typed, Modes, Nothing, Verbs
    <3> QED
      BY <2>1, <3>2, TypedIs
  <2> QED
    BY <2>1, <2>2, <2>3 DEF ListInv
<1> QED
  BY <1>1, ListStep, TypeStep, PTL DEF Spec

(* The types hold for any snapshots, queries and terminals (app.go:86-153). *)
THEOREM CockpitTypeCorrect == Spec => []TypeOK
  BY ListInvariant, PTL

(* The cursor is on a session's row whenever the list has one, for any *)
(* snapshots, queries and terminals (rows.go:134-219, app.go:479-482). *)
THEOREM CursorRests == Spec => []CursorOnSession
<1>1. ListInv => CursorOnSession
  BY DEF ListInv
<1> QED
  BY <1>1, ListInvariant, PTL

(* The list has every session that query and filter leave in one row, and     *)
(* nobody else, the buckets in their order, for any snapshots in which no two *)
(* sessions have one key (rows.go:67-131).                                    *)
THEOREM EveryoneListed == Spec => []ListedOnce
<1>1. TypeOK /\ ListInv => ListedOnce
  <2> SUFFICES ASSUME TypeOK, ListInv PROVE ListedOnce
    OBVIOUS
  <2>1. snap \in Seq(Seq(Seq(Session))) /\ KeysOnce(snap)
    BY SnapFacts DEF TypeOK
  <2>2. rows = BuildRows(snap, query, stateFilter)
    BY DEF ListInv
  <2>3. /\ ListedIn(rows) = {x \in SessionsIn(snap) : MatchesQuery(x, query) /\ Matches(stateFilter, BucketOf(x))}
        /\ KeysDiffer(rows)
        /\ \A i, j \in Selectables(rows) : i < j => Rank(rows[i].session) <= Rank(rows[j].session)
    BY <2>1, <2>2, BuildList
  <2> QED
    BY <2>3 DEF ListedOnce, ListedIn, KeysDiffer, Rank
<1> QED
  BY <1>1, ListInvariant, PTL

(* The row of the cursor is drawn in a list of this height. *)
Drawn(height) == cursor > 0 => cursor \in ToSet(ListBody(Len(rows), cursor, height))

(* The selected row is drawn at every height of two lines or more, whatever is *)
(* in the list and wherever the cursor is (app.go:1201-1247).                  *)
THEOREM DrawnAtAnyHeight == Spec => [](\A height \in Nat : height >= 2 => Drawn(height))
<1>1. TypeOK /\ ListInv => (\A height \in Nat : height >= 2 => Drawn(height))
  <2> SUFFICES ASSUME TypeOK, ListInv, NEW height \in Nat, height >= 2, cursor > 0
               PROVE  cursor \in ToSet(ListBody(Len(rows), cursor, height))
    BY DEF Drawn
  <2>1. OnSession(rows, cursor) /\ rows = BuildRows(snap, query, stateFilter) /\ snap \in Snaps \cup {<<>>}
    BY DEF ListInv, CursorOnSession, OnSession, TypeOK
  <2>2. rows \in Seq(RowsOver(Session)) /\ cursor \in 0..Len(rows)
    BY <2>1, ListFacts
  <2>3. Len(rows) \in Nat /\ cursor \in 1..Len(rows)
    BY <2>2
  <2> QED
    BY <2>3, DrawnWithCursor
<1> QED
  BY <1>1, ListInvariant, PTL

(* So it is at the heights that the property names (app.go:1201-1247). *)
THEOREM SelectedIsDrawn == Spec => []SelectedVisible
<1>1. (\A height \in Nat : height >= 2 => Drawn(height)) => SelectedVisible
  BY DEF Drawn, SelectedVisible
<1> QED
  BY <1>1, DrawnAtAnyHeight, PTL

(* One spinner runs while somebody works, and none otherwise in the end, for *)
(* any snapshots in any order (app.go:517-526, 547-551).                     *)
THEOREM SpinnerAlone == Spec => []OneSpinner
<1>1. Init => OneSpinner
  BY DEF Init, OneSpinner, AnyWorking, SessionsIn
<1>2. TypeOK /\ OneSpinner /\ [Next]_vars => OneSpinner'
  <2> SUFFICES ASSUME TypeOK, OneSpinner, [Next]_vars PROVE OneSpinner'
    OBVIOUS
  <2>1. spinnerOn \in BOOLEAN /\ spinnerTicks \in Nat
    BY DEF TypeOK
  <2>2. ASSUME StartSpinner PROVE OneSpinner'
    <3>1. CASE spinnerOn
      <4>1. spinnerOn'
        BY <2>2, <3>1, Zenon DEF StartSpinner
      <4>2. spinnerTicks' = spinnerTicks + 0 /\ spinnerTicks = 1
        BY <2>2, <3>1 DEF StartSpinner, OneSpinner
      <4> QED
        BY <4>1, <4>2 DEF OneSpinner
    <3>2. CASE ~spinnerOn /\ AnyWorking(snap')
      <4>1. spinnerOn'
        BY <2>2, <3>2, Zenon DEF StartSpinner
      <4>2. spinnerTicks' = spinnerTicks + 1 /\ spinnerTicks = 0
        BY <2>2, <3>2 DEF StartSpinner, OneSpinner
      <4> QED
        BY <4>1, <4>2 DEF OneSpinner
    <3>3. CASE ~spinnerOn /\ ~AnyWorking(snap')
      BY <2>1, <2>2, <3>3 DEF StartSpinner, OneSpinner
    <3> QED
      BY <3>1, <3>2, <3>3
  <2>3. CASE UNCHANGED <<snap, spinner>>
    BY <2>3 DEF OneSpinner, AnyWorking, spinner
  <2>4. CASE SpinnerTick
    <3>1. UNCHANGED snap
      BY <2>4 DEF SpinnerTick, list
    <3>2. CASE spinnerOn /\ AnyWorking(snap)
      BY <2>3, <2>4, <3>1, <3>2 DEF SpinnerTick
    <3>3. CASE ~(spinnerOn /\ AnyWorking(snap))
      <4>1. ~AnyWorking(snap)
        BY <3>3 DEF OneSpinner
      <4>2. spinnerTicks = 1 /\ spinnerOn' = FALSE /\ spinnerTicks' = spinnerTicks - 1
        BY <2>1, <2>4, <3>3 DEF SpinnerTick, OneSpinner
      <4> QED
        BY <3>1, <4>1, <4>2 DEF OneSpinner
    <3> QED
      BY <3>2, <3>3
  <2>5. StartSpinner \/ UNCHANGED <<snap, spinner>> \/ SpinnerTick
    BY DEF Next, Message, KeyMsg, vars, list, SnapMsg, WindowSizeMsg, PreviewTick, PreviewSettled, PreviewMsg,
           AttachDoneMsg, Down, Up, ToFirst, ToLast, HalfPage, MoveCursor, SetFilter,
           ApplyStateFilter, CycleFilter, EscClear, TogglePreview, EnterKey, OpenKey, RespawnKey,
           FilterKey, OpenMode, Quit, Dismiss, FilterEdit, FilterEsc, FilterEnter, DispatchEnter,
           ReplyEnter, ConfirmYes, DurableResume, DurableAttach
  <2> QED
    BY <2>2, <2>3, <2>4, <2>5
<1> QED
  BY <1>1, <1>2, CockpitTypeCorrect, PTL DEF Spec

(* While a sheet is open its session is the one that was selected then:        *)
(* the sheet is opened and closed with its session, and polls do not touch it. *)
AimInv == mode \in {"confirmStop", "durable"} => sheet.key = aim

(* What SentAsMeant says of a step. *)
Meant ==
    /\ sent'.verb \in {"stop", "resume"} => sent'.key = aim
    /\ sent'.verb = "reply" =>
          \E s \in SessionsIn(snap') : s.key = sent'.key /\ NeedsInput(s) /\ s.id

(* What is stopped or resumed is what the sheet was opened for, and a reply     *)
(* goes only to a session of the snapshot that waits for one, for any snapshots *)
(* in any order (app.go:748-781, 883-902, 974-1013).                            *)
THEOREM SentToWhomItIsMeant == Spec => SentAsMeant
<1>1. Init => AimInv
  BY DEF Init, AimInv
<1>2. AimInv /\ [Next]_vars => AimInv'
  <2> SUFFICES ASSUME AimInv, [Next]_vars PROVE AimInv'
    OBVIOUS
  <2>1. CASE UNCHANGED dialogue
    BY <2>1 DEF AimInv, dialogue
  <2>2. CASE mode' \notin {"confirmStop", "durable"}
    BY <2>2 DEF AimInv
  <2>3. CASE OpenMode
    BY <2>3 DEF OpenMode, Enters, AimInv
  <2>4. UNCHANGED dialogue \/ mode' \notin {"confirmStop", "durable"} \/ OpenMode
    BY DEF Next, Message, KeyMsg, vars, SnapMsg, WindowSizeMsg, PreviewTick, PreviewSettled, PreviewMsg,
           SpinnerTick, AttachDoneMsg, Down, Up, ToFirst, ToLast, HalfPage, MoveCursor, SetFilter,
           ApplyStateFilter, CycleFilter, EscClear, TogglePreview, EnterKey, OpenKey, RespawnKey,
           FilterKey, Enters, BackToList, Quit, Dismiss, FilterEdit, FilterEsc, FilterEnter, DispatchEnter,
           ReplyEnter, ConfirmYes, DurableResume, DurableAttach
  <2> QED
    BY <2>1, <2>2, <2>3, <2>4
<1>3. TypeOK /\ ListInv /\ AimInv /\ [Next]_vars => [Meant]_vars
  <2> SUFFICES ASSUME TypeOK, ListInv, AimInv, Next PROVE Meant
    OBVIOUS
  <2>1. CASE sent'.verb \notin {"stop", "resume", "reply"}
    BY <2>1 DEF Meant
  <2>2. CASE ConfirmYes \/ DurableResume
    BY <2>2 DEF ConfirmYes, DurableResume, Key, Send, Nothing, AimInv, Meant
  <2>3. CASE ReplyEnter
    <3>1. CASE ReplyEnabled(Selected)
      <4>1. OnSession(rows, cursor) /\ rows = BuildRows(snap, query, stateFilter) /\ snap \in Snaps \cup {<<>>}
        BY DEF ListInv, CursorOnSession, OnSession, TypeOK
      <4>2. Selected \in SessionsIn(snap) \cup {NoSession}
        BY <4>1, ListFacts DEF Selected
      <4>3. Selected \in SessionsIn(snap) /\ NeedsInput(Selected) /\ Selected.id
        BY <3>1, <4>2 DEF ReplyEnabled
      <4>4. sent' = [verb |-> "reply", key |-> Selected.key] /\ snap' = snap
        BY <2>3, <3>1 DEF ReplyEnter, Send, list
      <4> QED
        BY <4>3, <4>4 DEF Meant
    <3>2. CASE ~ReplyEnabled(Selected)
      BY <2>3, <3>2 DEF ReplyEnter, Nothing, Meant
    <3> QED
      BY <3>1, <3>2
  <2>4. sent'.verb \notin {"stop", "resume", "reply"} \/ ConfirmYes \/ DurableResume \/ ReplyEnter
    BY DEF Next, Message, KeyMsg, SnapMsg, WindowSizeMsg, PreviewTick, PreviewSettled, PreviewMsg,
           SpinnerTick, AttachDoneMsg, Down, Up, ToFirst, ToLast, HalfPage, MoveCursor, SetFilter,
           ApplyStateFilter, CycleFilter, EscClear, TogglePreview, EnterKey, OpenKey, RespawnKey,
           FilterKey, OpenMode, Quit, Dismiss, FilterEdit, FilterEsc, FilterEnter, DispatchEnter,
           DurableAttach, Attach, Send, Nothing
  <2> QED
    BY <2>1, <2>2, <2>3, <2>4
<1>4. [][Meant]_vars => SentAsMeant
  BY PTL DEF SentAsMeant, Meant
<1> QED
  BY <1>1, <1>2, <1>3, <1>4, ListInvariant, PTL DEF Spec

-----------------------------------------------------------------------------
(* The preview catches up.  Two things the provers cannot supply are          *)
(* hypotheses here: that no mode stops the previews, a fact about ENABLED     *)
(* that is an invariant of the run, and an instance of the induction on       *)
(* finite sets.                                                               *)

(* The previews on their way that are not for k. *)
Late(k) == fetching \ {k}

(* A finite set that only loses members loses them finitely often: true of    *)
(* any such set, by induction on its size.                                    *)
LateRunOut(k) ==
    ~ (/\ <>[][Late(k)' \subseteq Late(k)]_(Late(k))
       /\ []<><<Late(k)' # Late(k)>>_(Late(k)))

AllRunOut == \A r \in Keys : LateRunOut(r)

(* While the selection rests on k, nobody else's preview is asked for, and    *)
(* what is shown changes only to what has come in.                            *)
LEMMA RestStep ==
    ASSUME NEW k \in Keys
    PROVE  AtRest(k) /\ AtRest(k)' /\ [Next]_vars
             => /\ Late(k)' \subseteq Late(k)
                /\ previewKey' = previewKey \/ (previewKey' \in fetching /\ previewKey' \notin fetching')
<1> SUFFICES ASSUME AtRest(k), AtRest(k)', [Next]_vars
             PROVE  /\ fetching' \subseteq fetching \cup {k}
                    /\ \/ previewKey' = previewKey
                       \/ previewKey' \in fetching /\ previewKey' \notin fetching'
  BY DEF Late
<1>1. Wanted \subseteq {k} /\ Wanted' \subseteq {k}
  BY DEF Wanted, AtRest
<1>2. CASE Refresh
  BY <1>1, <1>2 DEF Refresh
<1>3. CASE Renew \/ Settle
  BY <1>1, <1>3 DEF Renew, Settle
<1>4. CASE PreviewSettled
  BY <1>1, <1>4 DEF PreviewSettled
<1>5. ASSUME NEW j \in Keys, PreviewMsg(j)
      PROVE  /\ fetching' \subseteq fetching
             /\ previewKey' \in fetching /\ previewKey' \notin fetching'
  BY <1>5 DEF PreviewMsg
<1>6. \/ Refresh \/ Renew \/ Settle \/ PreviewSettled \/ (\E j \in Keys : PreviewMsg(j))
      \/ UNCHANGED <<previewKey, fetching>>
  BY DEF Next, Message, KeyMsg, vars, preview, SnapMsg, WindowSizeMsg, PreviewTick,
         SpinnerTick, AttachDoneMsg, Down, Up, ToFirst, ToLast, HalfPage, MoveCursor, SetFilter,
         ApplyStateFilter, CycleFilter, EscClear, TogglePreview, EnterKey, OpenKey, RespawnKey,
         FilterKey, OpenMode, Quit, Dismiss, FilterEdit, FilterEsc, FilterEnter, DispatchEnter,
         ReplyEnter, ConfirmYes, DurableResume, DurableAttach
<1> QED
  BY <1>2, <1>3, <1>4, <1>5, <1>6

PreviewsCome == \A k \in Keys : ComesInTheEnd(k)
Resting(k) == /\ [][Next]_vars /\ []TypeOK /\ []NeverStuck /\ []PreviewsCome
              /\ []AtRest(k)

LEMMA FairTogether == (\A k \in Keys : ComesInTheEnd(k)) => []PreviewsCome
<1>1. ASSUME NEW k \in Keys PROVE ComesInTheEnd(k) => []ComesInTheEnd(k)
  BY PTL DEF ComesInTheEnd
<1>2. (\A k \in Keys : ComesInTheEnd(k)) => \A k \in Keys : []ComesInTheEnd(k)
  BY <1>1
<1>3. (\A k \in Keys : []ComesInTheEnd(k)) => [](\A k \in Keys : ComesInTheEnd(k))
  OBVIOUS
<1> QED
  BY <1>2, <1>3 DEF PreviewsCome

(* A preview that is late comes in, or another one does before it; so from    *)
(* some time on none is late.                                                 *)
Lessens(k) == <><<Late(k)' # Late(k)>>_(Late(k))

LEMMA LateOnesEnd ==
    ASSUME NEW r \in Keys
    PROVE  Resting(r) /\ LateRunOut(r) => <>[](Late(r) = {})
<1> DEFINE AllComeIn == \A k \in Keys : k \in Late(r) => Lessens(r)
<1>1. ASSUME NEW k \in Keys PROVE Resting(r) => [](k \in Late(r) => Lessens(r))
  <2>1. k \in Late(r) /\ [Next]_vars => (k \in Late(r))' \/ <<Late(r)' # Late(r)>>_(Late(r))
    OBVIOUS
  <2>2. NeverStuck /\ AtRest(r) /\ k \in Late(r) => ENABLED <<Comes(k)>>_vars
    <3>1. NeverStuck => (Awake /\ k \in fetching => ENABLED <<Comes(k)>>_vars)
      BY DEF NeverStuck
    <3>2. AtRest(r) /\ k \in Late(r) => Awake /\ k \in fetching
      BY DEF AtRest, Late
    <3> QED
      BY <3>1, <3>2
  <2>3. k \in Late(r) /\ <<Comes(k)>>_vars => <<Late(r)' # Late(r)>>_(Late(r))
    BY DEF Comes, PreviewMsg, Late
  <2>4. PreviewsCome => ComesInTheEnd(k)
    BY DEF PreviewsCome
  <2> QED
    BY <2>1, <2>2, <2>3, <2>4, PTL DEF Resting, ComesInTheEnd, Lessens
<1>2. Resting(r) => []AllComeIn
  <2>1. Resting(r) => \A k \in Keys : [](k \in Late(r) => Lessens(r))
    BY <1>1
  <2>2. (\A k \in Keys : [](k \in Late(r) => Lessens(r))) => []AllComeIn
    OBVIOUS
  <2> QED
    BY <2>1, <2>2
<1>3. TypeOK /\ AllComeIn => (Late(r) = {} \/ Lessens(r))
  BY DEF TypeOK, Late
<1>4. AtRest(r) /\ AtRest(r)' /\ [Next]_vars => [Late(r)' \subseteq Late(r)]_(Late(r))
  BY RestStep
<1>5. Late(r) = {} /\ [Late(r)' \subseteq Late(r)]_(Late(r)) => (Late(r) = {})'
  OBVIOUS
<1> QED
  BY <1>2, <1>3, <1>4, <1>5, PTL DEF Resting, LateRunOut, Lessens

(* The preview of r is asked for whenever it is not on its way.               *)
LEMMA WantedIsAsked ==
    ASSUME NEW r \in Keys
    PROVE  Resting(r) /\ TicksGoOn => []<>(r \in fetching)
<1>1. AtRest(r) => Wanted = {r}
  BY NobodyAssumption DEF AtRest, Wanted, Nobody
<1>2. NeverStuck /\ AtRest(r) /\ ~(r \in fetching) => ENABLED <<Ticks>>_vars
  BY <1>1 DEF NeverStuck, AtRest
<1>3. AtRest(r)' /\ <<Ticks>>_vars => (r \in fetching)'
  <2>1. AtRest(r)' => (Wanted = {r})'
    BY NobodyAssumption DEF AtRest, Wanted, Nobody
  <2> QED
    BY <2>1 DEF Ticks, PreviewTick, Refresh
<1> QED
  BY <1>2, <1>3, PTL DEF Resting, TicksGoOn

(* Without an older one on its way, what comes in is the preview of r, and it *)
(* stays.                                                                     *)
LEMMA ComesAndStays ==
    ASSUME NEW r \in Keys, NEW k \in Keys, k = r
    PROVE  Resting(r) /\ TicksGoOn /\ [](Late(r) = {}) => <>[](previewKey = r)
<1>1. NeverStuck /\ AtRest(r) /\ r \in fetching => ENABLED <<Comes(k)>>_vars
  <2>1. NeverStuck => (Awake /\ k \in fetching => ENABLED <<Comes(k)>>_vars)
    BY DEF NeverStuck
  <2> QED
    BY <2>1 DEF AtRest
<1>2. <<Comes(k)>>_vars => (previewKey = r)'
  BY DEF Comes, PreviewMsg
<1>3. Late(r) = {} /\ AtRest(r) /\ AtRest(r)' /\ previewKey = r /\ [Next]_vars => (previewKey = r)'
  BY RestStep DEF Late
<1>4. PreviewsCome => ComesInTheEnd(k)
  BY DEF PreviewsCome
<1> QED
  BY <1>1, <1>2, <1>3, <1>4, WantedIsAsked, PTL DEF Resting, ComesInTheEnd

(* A selection that comes to rest is shown in the end and stays, for any       *)
(* snapshots, queries and terminals (app.go:269-291, 499-515, 552-574): from    *)
(* then on only its own preview is asked for, so those for others run out.     *)
THEOREM PreviewComes ==
    FairSpec /\ []NeverStuck /\ []AllRunOut => PreviewCatchesUp
<1> SUFFICES ASSUME NEW r \in Keys
             PROVE  FairSpec /\ []NeverStuck /\ []AllRunOut
                      => (<>[]AtRest(r) => <>[](previewKey = r))
  BY DEF PreviewCatchesUp
<1>1. FairSpec => Spec /\ TicksGoOn /\ []PreviewsCome
  BY FairTogether DEF FairSpec
<1>2. AllRunOut => LateRunOut(r)
  BY DEF AllRunOut
<1>3. Resting(r) /\ LateRunOut(r) => <>[](Late(r) = {})
  BY LateOnesEnd
<1>4. Resting(r) /\ TicksGoOn /\ [](Late(r) = {}) => <>[](previewKey = r)
  BY ComesAndStays
<1> QED
  BY <1>1, <1>2, <1>3, <1>4, CockpitTypeCorrect, PTL DEF Spec, Resting, TicksGoOn

=============================================================================
