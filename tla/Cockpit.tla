------------------------------ MODULE Cockpit ------------------------------
(***************************************************************************)
(* The cockpit of clauditor tui: Model.Update (internal/tui/app.go) as a   *)
(* state machine over the messages of its commands and the keys of its     *)
(* user.  Update is never run twice at once; what is concurrent is every-  *)
(* thing it has asked for.  Answers come late, in any order, and into      *)
(* whatever mode and selection the cockpit is in by then.                  *)
(*                                                                         *)
(* previewGen is not modelled as a number.  A preview or a settle timer of *)
(* an older generation has no effect when it arrives; here it is dropped   *)
(* when the generation moves on, so that fetching and settling hold what   *)
(* belongs to the current one.                                             *)
(*                                                                         *)
(* Polls overlap (every 3 s, each up to 4 s): a poll brings any snapshot   *)
(* there has been, or an error, at any time.                               *)
(*                                                                         *)
(* Left out: wording, colours, the toast, and what the pager of the mode   *)
(* logs shows: the last answer to come, whatever else happens.             *)
(***************************************************************************)
EXTENDS Rows, FiniteSets

CONSTANTS Snaps,        \* the snapshots a poll may bring
          Queries,      \* what may stand in the filter line, "all" if nothing
          Sizes         \* terminals: [wide |-> BOOLEAN, body |-> lines]

Session == [key : STRING, state : STRING, waiting : BOOLEAN, id : BOOLEAN,
            pane : BOOLEAN, transcript : BOOLEAN, kind : STRING]

(* No two sessions of a snapshot have one key: what SessionOnce says of those *)
(* that Scan collects.                                                        *)
KeysOnce(s) ==
    \A r1, r2 \in DOMAIN s : \A w1 \in DOMAIN s[r1], w2 \in DOMAIN s[r2] :
        \A i1 \in DOMAIN s[r1][w1], i2 \in DOMAIN s[r2][w2] :
            s[r1][w1][i1].key = s[r2][w2][i2].key => r1 = r2 /\ w1 = w2 /\ i1 = i2

ASSUME CockpitAssumption ==
    /\ \A s \in Snaps : s \in Seq(Seq(Seq(Session))) /\ KeysOnce(s)
    /\ Everything \in Queries
    /\ Sizes \subseteq [wide : BOOLEAN, body : Nat]

VARIABLES
    snap,           \* the last good snapshot, <<>> before the first
    query, queryPrev, stateFilter,
    rows, cursor,   \* the list, and its selected row
    mode,
    sheet,          \* confirmSess, durableSess: the session the sheet is about
    size, showPreview,
    previewKey,     \* whose preview is loaded
    fetching,       \* previews on their way: keys
    settling,       \* a settle timer is running
    spinnerOn,
    spinnerTicks,   \* spinner ticks on their way
    suspending,     \* the terminal is handed over
    sent,           \* the command this step has issued
    aim             \* history: the session selected when the mode was entered

list     == <<snap, query, queryPrev, stateFilter, rows, cursor>>
screen   == <<size, showPreview>>
preview  == <<previewKey, fetching, settling>>
spinner  == <<spinnerOn, spinnerTicks>>
dialogue == <<mode, sheet, aim>>
vars == <<list, screen, preview, spinner, dialogue, suspending, sent>>

SessionsIn(s) == UNION {UNION {ToSet(s[r][w]) : w \in DOMAIN s[r]} : r \in DOMAIN s}
AnyWorking(s) == \E x \in SessionsIn(s) : x.state = "working"

Sessions == UNION {SessionsIn(s) : s \in Snaps}
Keys     == {x.key : x \in Sessions}
Nobody   == NoSession.key
Modes    == {"list", "filter", "dispatch", "reply", "confirmStop", "logs", "help", "durable", "quit"}
Filters  == {"all"} \cup ToSet(BucketOrder)
Verbs    == {"none", "attach", "switch", "open", "resume", "stop", "respawn", "reply", "dispatch"}

(* No session has the empty key. *)
ASSUME NobodyAssumption == Nobody \notin Keys

TypeOK ==
    /\ snap \in Snaps \cup {<<>>}
    /\ query \in Queries /\ queryPrev \in Queries
    /\ stateFilter \in Filters
    /\ \A i \in DOMAIN rows : rows[i].session \in Sessions \cup {NoSession}
    /\ cursor \in 0..Len(rows)
    /\ mode \in Modes
    /\ sheet \in Sessions \cup {NoSession}
    /\ {showPreview, settling, spinnerOn, suspending} \subseteq BOOLEAN
    /\ size \in Sizes
    /\ previewKey \in Keys \cup {Nobody}
    /\ fetching \subseteq Keys
    /\ spinnerTicks \in Nat
    /\ sent \in [verb : Verbs, key : Keys \cup {Nobody}]
    /\ aim \in Keys \cup {Nobody}

-----------------------------------------------------------------------------
(* What several messages and keys do. *)

Selected == SessionAt(rows, cursor)
Visible  == size.wide \/ showPreview

(* previewRefreshCmd: whose preview it fetches. *)
Wanted == IF Visible /\ Selected # NoSession THEN {Selected.key} ELSE {}

(* A plausible slip: the cursor stays where it was when the rows change. *)
RebuildOnly ==
    /\ rows' = BuildRows(snap', query', stateFilter')
    /\ cursor' = cursor

Rebuild ==
    /\ rows' = BuildRows(snap', query', stateFilter')
    /\ cursor' = ClampCursor(rows', cursor)

(* A refresh in place, in the same generation. *)
Refresh == fetching' = fetching \cup Wanted' /\ UNCHANGED <<previewKey, settling>>

(* A new generation, with a fetch at once. *)
Renew == fetching' = Wanted' /\ settling' = FALSE /\ UNCHANGED previewKey

(* A new generation, with a fetch when the selection has settled. *)
Settle == fetching' = {} /\ settling' = Visible /\ UNCHANGED previewKey

(* A plausible slip: a spinner for every poll that finds work. *)
SpinnerEachPoll ==
    /\ spinnerOn' = (spinnerOn \/ AnyWorking(snap'))
    /\ spinnerTicks' = spinnerTicks + (IF AnyWorking(snap') /\ spinnerTicks < 2 THEN 1 ELSE 0)

(* It stops by itself when work ends. *)
StartSpinner ==
    /\ spinnerOn' = (spinnerOn \/ AnyWorking(snap'))
    /\ spinnerTicks' = spinnerTicks + (IF AnyWorking(snap') /\ ~spinnerOn THEN 1 ELSE 0)

Nothing == [verb |-> "none", key |-> Nobody]
Send(verb, s) == sent' = [verb |-> verb, key |-> s.key]

Enters(m, s) == mode' = m /\ sheet' = s /\ aim' = Selected.key
BackToList   == mode' = "list" /\ sheet' = NoSession /\ aim' = Nobody

-----------------------------------------------------------------------------
(* Messages. *)

SnapMsg(s, ok) ==
    /\ snap' = IF ok THEN s ELSE snap
    /\ UNCHANGED <<query, queryPrev, stateFilter, screen>>
    /\ Rebuild
    /\ StartSpinner
    /\ IF (Selected' # NoSession /\ Selected'.key # Selected.key) \/ previewKey = Nobody
       THEN Renew
       ELSE UNCHANGED preview
    /\ sent' = Nothing
    /\ UNCHANGED <<dialogue, suspending>>

WindowSizeMsg(s) ==
    /\ size # s
    /\ size' = s
    /\ UNCHANGED <<list, showPreview>>
    /\ Refresh
    /\ sent' = Nothing
    /\ UNCHANGED <<spinner, dialogue, suspending>>

PreviewTick ==
    /\ UNCHANGED <<list, screen>>
    /\ Refresh
    /\ sent' = Nothing
    /\ UNCHANGED <<spinner, dialogue, suspending>>

PreviewSettled ==
    /\ settling
    /\ settling' = FALSE
    /\ fetching' = fetching \cup Wanted
    /\ sent' = Nothing
    /\ UNCHANGED <<list, screen, previewKey, spinner, dialogue, suspending>>

(* A plausible slip: what is shown is replaced only when it has been cleared. *)
PreviewMsgFirst(k) ==
    /\ k \in fetching
    /\ previewKey' = IF previewKey = Nobody THEN k ELSE previewKey
    /\ fetching' = fetching \ {k}
    /\ sent' = Nothing
    /\ UNCHANGED <<list, screen, settling, spinner, dialogue, suspending>>

(* A capture or a transcript, or the error there was instead. *)
PreviewMsg(k) ==
    /\ k \in fetching
    /\ previewKey' = k
    /\ fetching' = fetching \ {k}
    /\ sent' = Nothing
    /\ UNCHANGED <<list, screen, settling, spinner, dialogue, suspending>>

SpinnerTick ==
    /\ spinnerTicks > 0
    /\ IF spinnerOn /\ AnyWorking(snap)
       THEN UNCHANGED spinner
       ELSE spinnerOn' = FALSE /\ spinnerTicks' = spinnerTicks - 1
    /\ sent' = Nothing
    /\ UNCHANGED <<list, screen, preview, dialogue, suspending>>

(* The terminal is back. *)
AttachDoneMsg ==
    /\ suspending
    /\ suspending' = FALSE
    /\ UNCHANGED <<list, screen>>
    /\ Refresh
    /\ sent' = Nothing
    /\ UNCHANGED <<spinner, dialogue>>

-----------------------------------------------------------------------------
(* Keys of the list. *)

Key(m) == mode = m /\ ~suspending

MoveCursor(to) ==
    /\ Key("list")
    /\ cursor' = IF to > 0 THEN to ELSE cursor
    /\ Settle
    /\ sent' = Nothing
    /\ UNCHANGED <<snap, query, queryPrev, stateFilter, rows, screen, spinner,
                   dialogue, suspending>>

Down   == MoveCursor(NextSelectable(rows, cursor))
Up     == MoveCursor(PrevSelectable(rows, cursor))
ToFirst == MoveCursor(FirstSelectable(rows))
ToLast  == MoveCursor(PrevSelectable(rows, 1))

(* One row on, but not round the end. *)
Onward(down, from) ==
    LET idx == IF down THEN NextSelectable(rows, from) ELSE PrevSelectable(rows, from)
    IN  IF (down /\ idx <= from) \/ (~down /\ (idx = 0 \/ idx >= from)) THEN from ELSE idx

HalfPage(down) ==
    LET step == IF size.body < 2 THEN 1 ELSE size.body \div 2
        at[n \in 0..step] == IF n = 0 THEN cursor ELSE Onward(down, at[n - 1])
    IN  MoveCursor(at[step])

(* The keys 1 to 4, the same again clears; the key s cycles. *)
SetFilter(f) ==
    /\ Key("list")
    /\ stateFilter' = f
    /\ UNCHANGED <<snap, query, queryPrev, screen>>
    /\ Rebuild
    /\ Refresh
    /\ sent' = Nothing
    /\ UNCHANGED <<spinner, dialogue, suspending>>

ApplyStateFilter(f) == SetFilter(IF stateFilter = f THEN "all" ELSE f)
CycleFilter         == SetFilter(FilterAfter(stateFilter))

(* A plausible slip: the list is not rebuilt. *)
EscClearOnly ==
    /\ Key("list")
    /\ IF query # Everything
       THEN query' = Everything /\ queryPrev' = Everything /\ UNCHANGED stateFilter
       ELSE stateFilter' = "all" /\ UNCHANGED <<query, queryPrev>>
    /\ sent' = Nothing
    /\ UNCHANGED <<snap, rows, cursor, preview, screen, spinner, dialogue, suspending>>

EscClear ==
    /\ Key("list")
    /\ IF query # Everything
       THEN query' = Everything /\ queryPrev' = Everything /\ UNCHANGED stateFilter
       ELSE stateFilter' = "all" /\ UNCHANGED <<query, queryPrev>>
    /\ UNCHANGED <<snap, screen>>
    /\ IF query # Everything \/ stateFilter # "all"
       THEN Rebuild /\ Refresh
       ELSE UNCHANGED <<rows, cursor, preview>>
    /\ sent' = Nothing
    /\ UNCHANGED <<spinner, dialogue, suspending>>

TogglePreview ==
    /\ Key("list")
    /\ ~size.wide
    /\ showPreview' = ~showPreview
    /\ UNCHANGED <<list, size>>
    /\ IF showPreview' THEN Refresh ELSE UNCHANGED preview
    /\ sent' = Nothing
    /\ UNCHANGED <<spinner, dialogue, suspending>>

(* attach: the terminal goes to claude or tmux, or inside tmux the client to *)
(* the pane's session; not possible for a session without id and pane.       *)
Attach(s, inTmux) ==
    /\ s.id \/ s.pane
    /\ suspending' = (s.id \/ ~inTmux)
    /\ Send(IF suspending' THEN "attach" ELSE "switch", s)

EnterKey(inTmux) ==
    /\ Key("list") /\ Selected # NoSession
    /\ Attach(Selected, inTmux)
    /\ UNCHANGED <<list, screen, preview, spinner, dialogue>>

OpenKey ==
    /\ Key("list") /\ Selected # NoSession
    /\ Send("open", Selected)
    /\ UNCHANGED <<list, screen, preview, spinner, dialogue, suspending>>

RespawnKey ==
    /\ Key("list") /\ RespawnEnabled(Selected)
    /\ Send("respawn", Selected)
    /\ UNCHANGED <<list, screen, preview, spinner, dialogue, suspending>>

(* /, ?, d, r, l, x and D: the other modes. *)
FilterKey ==
    /\ Key("list")
    /\ Enters("filter", NoSession)
    /\ queryPrev' = query
    /\ sent' = Nothing
    /\ UNCHANGED <<snap, query, stateFilter, rows, cursor, screen, preview, spinner, suspending>>

OpenMode ==
    /\ Key("list")
    /\ \/ Enters("help", NoSession)
       \/ Enters("dispatch", NoSession)
       \/ Selected # NoSession /\ Enters("logs", NoSession)
       \/ ReplyEnabled(Selected) /\ Enters("reply", NoSession)
       \/ Selected # NoSession /\ Selected.id /\ Enters("confirmStop", Selected)
       \/ SessionBare(Selected) /\ Enters("durable", Selected)
    /\ sent' = Nothing
    /\ UNCHANGED <<list, screen, preview, spinner, suspending>>

Quit ==
    /\ Key("list")
    /\ mode' = "quit"
    /\ sent' = Nothing
    /\ UNCHANGED <<list, screen, preview, spinner, sheet, aim, suspending>>

-----------------------------------------------------------------------------
(* Keys of the other modes. *)

(* esc, n, q, ?: back, with nothing done. *)
Dismiss ==
    /\ \E m \in {"help", "dispatch", "reply", "confirmStop", "durable", "logs"} : Key(m)
    /\ BackToList
    /\ sent' = Nothing
    /\ UNCHANGED <<list, screen, preview, spinner, suspending>>

(* The list narrows with every letter. *)
FilterEdit(q) ==
    /\ Key("filter")
    /\ query' = q
    /\ UNCHANGED <<snap, queryPrev, stateFilter>>
    /\ Rebuild
    /\ sent' = Nothing
    /\ UNCHANGED <<screen, preview, spinner, dialogue, suspending>>

FilterEsc ==
    /\ Key("filter")
    /\ BackToList
    /\ query' = queryPrev
    /\ UNCHANGED <<snap, queryPrev, stateFilter>>
    /\ Rebuild
    /\ sent' = Nothing
    /\ UNCHANGED <<screen, preview, spinner, suspending>>

FilterEnter ==
    /\ Key("filter")
    /\ BackToList
    /\ UNCHANGED <<snap, query, queryPrev, stateFilter, screen>>
    /\ Rebuild
    /\ Refresh
    /\ sent' = Nothing
    /\ UNCHANGED <<spinner, suspending>>

(* With text in the line. *)
DispatchEnter ==
    /\ Key("dispatch")
    /\ BackToList
    /\ Send("dispatch", Selected)
    /\ UNCHANGED <<list, screen, preview, spinner, suspending>>

(* To what is selected now, if it still can be replied to. *)
ReplyEnter ==
    /\ Key("reply")
    /\ BackToList
    /\ IF ReplyEnabled(Selected) THEN Send("reply", Selected) ELSE sent' = Nothing
    /\ UNCHANGED <<list, screen, preview, spinner, suspending>>

(* A plausible slip: what is selected by now is stopped. *)
ConfirmSelected ==
    /\ Key("confirmStop")
    /\ BackToList
    /\ Send("stop", Selected)
    /\ UNCHANGED <<list, screen, preview, spinner, suspending>>

ConfirmYes ==
    /\ Key("confirmStop")
    /\ BackToList
    /\ Send("stop", sheet)
    /\ UNCHANGED <<list, screen, preview, spinner, suspending>>

DurableResume ==
    /\ Key("durable")
    /\ BackToList
    /\ IF sheet.transcript THEN Send("resume", sheet) ELSE sent' = Nothing
    /\ UNCHANGED <<list, screen, preview, spinner, suspending>>

DurableAttach(inTmux) ==
    /\ Key("durable")
    /\ BackToList
    /\ \/ Attach(sheet, inTmux)
       \/ ~sheet.id /\ ~sheet.pane /\ sent' = Nothing /\ UNCHANGED suspending
    /\ UNCHANGED <<list, screen, preview, spinner>>

-----------------------------------------------------------------------------
Init ==
    /\ snap = <<>> /\ rows = <<>> /\ cursor = 0
    /\ query = Everything /\ queryPrev = Everything /\ stateFilter = "all"
    /\ mode = "list" /\ sheet = NoSession /\ aim = Nobody
    /\ size \in Sizes /\ showPreview = FALSE
    /\ previewKey = Nobody /\ fetching = {} /\ settling = FALSE
    /\ spinnerOn = FALSE /\ spinnerTicks = 0
    /\ suspending = FALSE
    /\ sent = Nothing

Message ==
    \/ \E s \in Snaps : SnapMsg(s, TRUE)
    \/ SnapMsg(snap, FALSE)
    \/ \E s \in Sizes : WindowSizeMsg(s)
    \/ PreviewTick \/ PreviewSettled
    \/ \E k \in Keys : PreviewMsg(k)
    \/ SpinnerTick
    \/ AttachDoneMsg

KeyMsg ==
    \/ Down \/ Up \/ ToFirst \/ ToLast
    \/ \E down \in BOOLEAN : HalfPage(down)
    \/ \E f \in ToSet(BucketOrder) : ApplyStateFilter(f)
    \/ CycleFilter \/ EscClear \/ TogglePreview
    \/ OpenKey \/ RespawnKey \/ FilterKey \/ OpenMode \/ Quit
    \/ \E inTmux \in BOOLEAN : EnterKey(inTmux) \/ DurableAttach(inTmux)
    \/ Dismiss
    \/ \E q \in Queries : FilterEdit(q)
    \/ FilterEsc \/ FilterEnter
    \/ DispatchEnter \/ ReplyEnter
    \/ ConfirmYes \/ DurableResume

Next == mode # "quit" /\ (Message \/ KeyMsg)

Spec == Init /\ [][Next]_vars

(* The preview tick is rescheduled whenever it fires.  A capture takes        *)
(* milliseconds: a preview that is fetched again and again is some time there *)
(* before the next poll or key starts a new generation.  While the terminal   *)
(* is handed over, which may be for ever, nothing is sure to be handled.      *)
Awake    == mode # "quit" /\ ~suspending
Ticks    == Awake /\ PreviewTick
Comes(k) == Awake /\ PreviewMsg(k)

TicksGoOn         == WF_vars(Ticks)
ComesInTheEnd(k)  == SF_vars(Comes(k))

FairSpec == Spec /\ TicksGoOn /\ \A k \in Keys : ComesInTheEnd(k)

-----------------------------------------------------------------------------
(* Properties. *)

(* The cursor is on a session's row whenever the list has one, after every   *)
(* key, poll and filter: no key acts on a header, and no row is lost to the   *)
(* keys (rows.go:134-219, app.go:479-482).                                    *)
CursorOnSession ==
    IF Selectables(rows) = {} THEN cursor = 0 ELSE cursor \in Selectables(rows)

(* The list is that of the last snapshot, query and filter: every session     *)
(* they leave is in one row, no other is, and those that need input come      *)
(* first, then those that work, so that g lands on a blocked one if there is  *)
(* one (rows.go:67-131; docs/TUI-DESIGN.md:115).                              *)
ListedOnce ==
    LET rank(i)   == CHOOSE b \in DOMAIN BucketOrder : BucketOrder[b] = BucketOf(rows[i].session)
        listed(s) == MatchesQuery(s, query) /\ Matches(stateFilter, BucketOf(s))
    IN  /\ {rows[i].session : i \in Selectables(rows)} = {s \in SessionsIn(snap) : listed(s)}
        /\ \A i, j \in Selectables(rows) :
              i < j => rows[i].session.key # rows[j].session.key /\ rank(i) <= rank(j)

(* The selected row is among the lines that are drawn of the list, however    *)
(* low the terminal: the indicators of rows above and below, and the cut to   *)
(* the height, never push it off (app.go:1201-1247, rows.go:178-190).  In one *)
(* line there is room for the indicator alone.                                *)
SelectedVisible ==
    \A height \in 2..9 : cursor > 0 => cursor \in ToSet(ListBody(Len(rows), cursor, height))

(* One spinner runs while somebody works, not one for every poll that found   *)
(* work, and it is on as long as the last snapshot shows work                 *)
(* (app.go:517-526, 547-551).                                                 *)
OneSpinner ==
    /\ spinnerTicks = (IF spinnerOn THEN 1 ELSE 0)
    /\ AnyWorking(snap) => spinnerOn

(* What is stopped or resumed is what the sheet was opened for, however polls *)
(* have moved the selection since; and a reply is sent only to a session that *)
(* waits for one and has an id in the snapshot of that moment                 *)
(* (app.go:748-781, 883-902, 974-1013).                                       *)
SentAsMeant ==
    [][ /\ sent'.verb \in {"stop", "resume"} => sent'.key = aim
        /\ sent'.verb = "reply" =>
              \E s \in SessionsIn(snap') : s.key = sent'.key /\ NeedsInput(s) /\ s.id ]_vars

(* Until the user quits or hands the terminal over, no mode or sheet keeps a  *)
(* preview that was asked for from coming in, or the tick from asking for the *)
(* one that is wanted (app.go:499-515, 552-574).                              *)
NeverStuck ==
    Awake => /\ \A k \in Keys : k \in fetching => ENABLED <<Comes(k)>>_vars
             /\ ~(Wanted \subseteq fetching) => ENABLED <<Ticks>>_vars

(* The cockpit shows its list or a sheet, and session k is selected in view.  *)
AtRest(k) == Awake /\ Visible /\ Selected.key = k

(* If the selection comes to rest on a session and the preview is visible,    *)
(* its preview is shown in the end and stays, although fetches for others may *)
(* come in late and every poll without one loaded starts a new generation     *)
(* (app.go:269-291, 499-515, 552-574); no mode holds a preview up.            *)
PreviewCatchesUp ==
    /\ []NeverStuck
    /\ \A r \in Keys : <>[]AtRest(r) => <>[](previewKey = r)
=============================================================================
