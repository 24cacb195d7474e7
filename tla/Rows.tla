-------------------------------- MODULE Rows --------------------------------
(***************************************************************************)
(* The list of the cockpit: how a snapshot becomes rows, which rows the    *)
(* cursor may rest on, and which of them fit a screen of some height       *)
(* (internal/tui/rows.go, filter.go, layout.go, durability.go and the      *)
(* window of app.go).                                                      *)
(*                                                                         *)
(* A snapshot is a sequence of repositories, a repository a sequence of    *)
(* worktrees, a worktree a sequence of sessions.  Of a session the list    *)
(* and the keys need the key, the state, whether it waits for a human,     *)
(* whether it has a background id, where it can be seen and its kind.      *)
(* Labels, branches and counts are left out.  Indices start at 1; 0 is the *)
(* code's -1, no row.                                                      *)
(***************************************************************************)
EXTENDS Naturals, Integers, Sequences, SequencesExt

CONSTANT Hits       \* Hits[q]: the keys of the sessions the query q finds

NoSession == [key |-> "none"]

(* No query. *)
Everything == "all"

NeedsInput(s) == s.state = "blocked" \/ s.waiting

-----------------------------------------------------------------------------
(* The rows. *)

BucketOrder == <<"needs", "working", "idle", "terminal">>

BucketOf(s) ==
    CASE NeedsInput(s)                                        -> "needs"
      [] ~NeedsInput(s) /\ s.state = "working"                -> "working"
      [] ~NeedsInput(s) /\ s.state \in {"idle", "unknown"}    -> "idle"
      [] OTHER                                                -> "terminal"

(* The cycle of the key s. *)
FilterAfter(f) ==
    CASE f = "all"      -> "needs"
      [] f = "needs"    -> "working"
      [] f = "working"  -> "idle"
      [] f = "idle"     -> "terminal"
      [] f = "terminal" -> "all"

Matches(f, bucket) == f \in {"all", bucket}

MatchesQuery(s, query) == query = Everything \/ s.key \in Hits[query]

Header(kind)  == [kind |-> kind, session |-> NoSession]
SessionRow(s) == [kind |-> "session", session |-> s]
Selectable(row) == row.kind = "session"

(* A header over what it heads, nothing over nothing. *)
Headed(kind, rows) == IF rows = <<>> THEN <<>> ELSE <<Header(kind)>> \o rows

(* A session of this bucket that the query leaves in. *)
Shown(s, bucket, query) == BucketOf(s) = bucket /\ MatchesQuery(s, query)

WorktreeRows(wt, bucket, query) ==
    Headed("worktree", FlattenSeq([i \in DOMAIN wt |->
        IF Shown(wt[i], bucket, query) THEN <<SessionRow(wt[i])>> ELSE <<>>]))

RepoRows(repo, bucket, query) ==
    Headed("repo", FlattenSeq([i \in DOMAIN repo |-> WorktreeRows(repo[i], bucket, query)]))

GroupRows(snap, bucket, query) ==
    Headed("bucket", FlattenSeq([i \in DOMAIN snap |-> RepoRows(snap[i], bucket, query)]))

BuildRows(snap, query, filter) ==
    FlattenSeq([i \in DOMAIN BucketOrder |->
        IF Matches(filter, BucketOrder[i]) THEN GroupRows(snap, BucketOrder[i], query) ELSE <<>>])

-----------------------------------------------------------------------------
(* The cursor. *)

Selectables(rows) == {i \in DOMAIN rows : Selectable(rows[i])}

Least(S)    == CHOOSE i \in S : \A j \in S : i <= j
Greatest(S) == CHOOSE i \in S : \A j \in S : i >= j

FirstSelectable(rows) == IF Selectables(rows) = {} THEN 0 ELSE Least(Selectables(rows))

(* Forward from the row after from, round the end, to from itself. *)
NextSelectable(rows, from) ==
    LET after == {i \in Selectables(rows) : i > from}
    IN  IF after # {} THEN Least(after) ELSE FirstSelectable(rows)

(* A plausible slip: the row above, whatever it is. *)
PrevRow(rows, from) == IF from > 1 THEN from - 1 ELSE Len(rows)

(* Backward from the row before from, round the start, to from itself. *)
PrevSelectable(rows, from) ==
    LET before == {i \in Selectables(rows) : i < from}
    IN  CASE before # {}                              -> Greatest(before)
          [] before = {} /\ Selectables(rows) # {}    -> Greatest(Selectables(rows))
          [] Selectables(rows) = {}                   -> 0

(* The selectable row at the cursor, or the next one below, or else above. *)
ClampCursor(rows, cursor) ==
    LET at    == IF cursor < 1 THEN 1 ELSE IF cursor > Len(rows) THEN Len(rows) ELSE cursor
        below == {i \in Selectables(rows) : i >= at}
    IN  CASE Selectables(rows) = {}                   -> 0
          [] below # {}                               -> Least(below)
          [] below = {} /\ Selectables(rows) # {}     -> Greatest(Selectables(rows))

SessionAt(rows, cursor) == IF cursor \in DOMAIN rows THEN rows[cursor].session ELSE NoSession

-----------------------------------------------------------------------------
(* The window: first and last row shown, and the lines of the list, in     *)
(* which 0 stands for an indicator of rows above or below.                 *)

VisibleWindow(total, cursor, height) ==
    LET middle == cursor - height \div 2
        first  == IF middle < 1 THEN 1 ELSE middle
        start  == IF first + height > total + 1 THEN total - height + 1 ELSE first
    IN  IF height <= 0 \/ total <= height THEN <<1, total>> ELSE <<start, start + height - 1>>

(* A plausible slip: no line is reserved for the indicators. *)
WindowUnreserved(total, cursor, height) ==
    VisibleWindow(total, IF cursor < 1 THEN 1 ELSE cursor, height)

WindowRows(total, cursor, height) ==
    LET at  == IF cursor < 1 THEN 1 ELSE cursor
        w   == VisibleWindow(total, at, height)
        eff == height - (IF w[1] > 1 THEN 1 ELSE 0) - (IF w[2] < total THEN 1 ELSE 0)
    IN  IF total <= height THEN <<1, total>>
        ELSE VisibleWindow(total, at, IF eff < 1 THEN 1 ELSE eff)

(* What is drawn of it is cut to the height. *)
ListBody(total, cursor, height) ==
    LET w     == WindowRows(total, cursor, height)
        lines == (IF w[1] > 1 THEN <<0>> ELSE <<>>)
                 \o [i \in 1..(w[2] - w[1] + 1) |-> w[1] + i - 1]
                 \o (IF w[2] < total THEN <<0>> ELSE <<>>)
    IN  SubSeq(lines, 1, IF Len(lines) > height THEN height ELSE Len(lines))

-----------------------------------------------------------------------------
(* What the keys offer for a session. *)

ReplyEnabled(s)   == s # NoSession /\ NeedsInput(s) /\ s.id
RespawnEnabled(s) == s # NoSession /\ s.id /\ s.state \in {"stopped", "failed"}

(* A supervisor's interactive session in a bare terminal. *)
SessionBare(s) == s # NoSession /\ s.kind = "interactive" /\ ~s.pane
=============================================================================
