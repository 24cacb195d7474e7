---------------------------- MODULE SnapshotStore ----------------------------
(***************************************************************************)
(* The path of a fleet snapshot from the poller to the browsers of a      *)
(* running daemon: internal/store/store.go (Set, Get, Subscribe, the      *)
(* snapshot file) and the SSE handler of internal/api/handlers.go.        *)
(*                                                                         *)
(* One goroutine, store.Poller.Run, calls Set over and over.  One handler  *)
(* goroutine per open stream reads the store.  Set has three sections:     *)
(* the stamp under mu, the snapshot file outside every lock, the fan-out   *)
(* under subMu.  A handler may run between any two of them.                *)
(*                                                                         *)
(* A snapshot is its Version.  Versions are counted up to MaxVersion,      *)
(* which stands for "MaxVersion or any later one", so that the poller can  *)
(* go on for ever in a finite model.                                       *)
(***************************************************************************)
EXTENDS Naturals

CONSTANTS Streams,      \* the clients; each has at most one open SSE stream
          MaxVersion    \* versions are told apart up to this one

ASSUME StoreAssumption == MaxVersion \in Nat \ {0}

None == 0                    \* the nil snapshot; real versions start at 1
Version == None..MaxVersion

VARIABLES
    current,    \* Store.current (= Store.version: assigned together under mu)
    setter,     \* where the poller is in Set
    tmpFile,    \* <SnapshotFile>.tmp
    snapFile,   \* SnapshotFile
    subs,       \* the streams with an entry in Store.subs
    chan,       \* chan[c]: what the one-slot channel of c holds, None if empty
    handler,    \* handler[c]: where the handler of stream c is
    pending,    \* pending[c]: the handler's coalesced snapshot
    sending,    \* sending[c]: the snapshot send() is writing to the socket
    online,     \* online[c]: the browser's end of the connection is up
    shown       \* shown[c]: the last snapshot the browser received

fileVars   == <<tmpFile, snapFile>>
streamVars == <<subs, chan, handler, pending, sending, online, shown>>
vars       == <<current, setter, fileVars, streamVars>>

(* The content of a file: which snapshot, and whether all of it. *)
Content == [of : Version, whole : BOOLEAN]
NoFile  == [of |-> None, whole |-> TRUE]

SetterPlaces  == {"asleep", "opening", "filling", "renaming", "fanout"}
HandlerPlaces == {"closed", "greeting", "greet", "subscribing", "selecting",
                  "write", "leaving"}

(* The types; and what a handler writes to its socket is a snapshot. *)
TypeOK ==
    /\ current \in Version
    /\ setter \in SetterPlaces
    /\ tmpFile \in Content
    /\ snapFile \in Content
    /\ subs \in SUBSET Streams
    /\ chan \in [Streams -> Version]
    /\ handler \in [Streams -> HandlerPlaces]
    /\ pending \in [Streams -> Version]
    /\ sending \in [Streams -> Version]
    /\ online \in [Streams -> BOOLEAN]
    /\ shown \in [Streams -> Version]
    /\ \A c \in Streams : handler[c] \in {"greet", "write"} => sending[c] # None

Init ==
    /\ current = None
    /\ setter = "asleep"
    /\ tmpFile = NoFile
    /\ snapFile = NoFile
    /\ subs = {}
    /\ chan = [c \in Streams |-> None]
    /\ handler = [c \in Streams |-> "closed"]
    /\ pending = [c \in Streams |-> None]
    /\ sending = [c \in Streams |-> None]
    /\ online = [c \in Streams |-> FALSE]
    /\ shown = [c \in Streams |-> None]

-----------------------------------------------------------------------------
(* Set, called by the poller. *)

NextVersion == IF current < MaxVersion THEN current + 1 ELSE MaxVersion

(* Section 1, under mu: stamp the snapshot and install it.  From here on
   Get returns it. *)
Stamp ==
    /\ setter = "asleep"
    /\ current' = NextVersion
    /\ setter' = "opening"
    /\ UNCHANGED <<fileVars, streamVars>>

(* A plausible slip: the snapshot file itself is written, without the rename. *)
OpenFileInPlace ==
    /\ setter = "opening"
    /\ snapFile' = [of |-> current, whole |-> FALSE]
    /\ setter' = "filling"
    /\ UNCHANGED <<current, tmpFile, streamVars>>

(* os.WriteFile truncates the temporary file ... *)
OpenFile ==
    /\ setter = "opening"
    /\ tmpFile' = [of |-> current, whole |-> FALSE]
    /\ setter' = "filling"
    /\ UNCHANGED <<current, snapFile, streamVars>>

(* ... and fills it. *)
FillFile ==
    /\ setter = "filling"
    /\ tmpFile' = [of |-> current, whole |-> TRUE]
    /\ setter' = "renaming"
    /\ UNCHANGED <<current, snapFile, streamVars>>

(* WriteFile failed, the rename failed, or there is no SnapshotFile at all:
   Set ignores the error and goes on with the fan-out. *)
SkipFile ==
    /\ setter \in {"opening", "filling", "renaming"}
    /\ setter' = "fanout"
    /\ UNCHANGED <<current, fileVars, streamVars>>

RenameFile ==
    /\ setter = "renaming"
    /\ snapFile' = tmpFile
    /\ tmpFile' = NoFile
    /\ setter' = "fanout"
    /\ UNCHANGED <<current, streamVars>>

(* What a subscriber's channel holds after the non-blocking send of v. *)
Offer(c, v) == IF c \in subs /\ chan[c] = None THEN v ELSE chan[c]

(* A plausible slip: "ch <- s" without the default case. *)
FanOutBlocking ==
    /\ setter = "fanout"
    /\ \A c \in subs : chan[c] = None
    /\ chan' = [c \in Streams |-> Offer(c, current)]
    /\ setter' = "asleep"
    /\ UNCHANGED <<current, fileVars, subs, handler, pending, sending, online, shown>>

(* Section 3, under subMu: a channel that is full keeps what it holds. *)
FanOut ==
    /\ setter = "fanout"
    /\ chan' = [c \in Streams |-> Offer(c, current)]
    /\ setter' = "asleep"
    /\ UNCHANGED <<current, fileVars, subs, handler, pending, sending, online, shown>>

-----------------------------------------------------------------------------
(* handleEvents, one goroutine per stream. *)

MoveHandler(c, from, to) ==
    /\ handler[c] = from
    /\ handler' = [handler EXCEPT ![c] = to]

(* A plausible slip, closing the gap between Get and Subscribe: subscribe
   first, read the current snapshot afterwards. *)
ConnectSubscribed(c) ==
    /\ MoveHandler(c, "closed", "greeting")
    /\ online' = [online EXCEPT ![c] = TRUE]
    /\ subs' = subs \cup {c}
    /\ UNCHANGED <<current, setter, fileVars, chan, pending, sending, shown>>

(* The browser connects (or its EventSource reconnects). *)
Connect(c) ==
    /\ MoveHandler(c, "closed", "greeting")
    /\ online' = [online EXCEPT ![c] = TRUE]
    /\ UNCHANGED <<current, setter, fileVars, subs, chan, pending, sending, shown>>

(* A plausible slip: the first snapshot is sent without looking whether there
   is one. *)
GreetingEmpty(c) ==
    /\ MoveHandler(c, "greeting", "greet")
    /\ sending' = [sending EXCEPT ![c] = current]
    /\ UNCHANGED <<current, setter, fileVars, subs, chan, pending, online, shown>>

(* A plausible slip: no snapshot yet ends the stream, as it ends /state. *)
GreetingRefused(c) ==
    /\ MoveHandler(c, "greeting", IF current = None THEN "closed" ELSE "greet")
    /\ sending' = [sending EXCEPT ![c] = current]
    /\ UNCHANGED <<current, setter, fileVars, subs, chan, pending, online, shown>>

(* Get: the first snapshot to send; with none there is nothing to greet with. *)
Greeting(c) ==
    /\ MoveHandler(c, "greeting", IF current = None THEN "subscribing" ELSE "greet")
    /\ sending' = [sending EXCEPT ![c] = current]
    /\ UNCHANGED <<current, setter, fileVars, subs, chan, pending, online, shown>>

(* send() returned: the browser has the snapshot if it is still there.  A
   write to a connection that is down may succeed too, into the void. *)
Displayed(c) == [shown EXCEPT ![c] = IF online[c] THEN sending[c] ELSE @]

GreetDone(c) ==
    /\ MoveHandler(c, "greet", "subscribing")
    /\ shown' = Displayed(c)
    /\ sending' = [sending EXCEPT ![c] = None]
    /\ UNCHANGED <<current, setter, fileVars, subs, chan, pending, online>>

(* The first send failed: return before there is a subscription. *)
GreetFails(c) ==
    /\ ~online[c]
    /\ MoveHandler(c, "greet", "closed")
    /\ sending' = [sending EXCEPT ![c] = None]
    /\ UNCHANGED <<current, setter, fileVars, subs, chan, pending, online, shown>>

(* Subscribe makes an empty channel: chan[c] is None as long as c is not in
   subs (Ordered says so). *)
Subscribe(c) ==
    /\ MoveHandler(c, "subscribing", "selecting")
    /\ subs' = subs \cup {c}
    /\ UNCHANGED <<current, setter, fileVars, chan, pending, sending, online, shown>>

(* case snap := <-sub: coalesce, only the latest matters. *)
Receive(c) ==
    /\ handler[c] = "selecting"
    /\ chan[c] # None
    /\ pending' = [pending EXCEPT ![c] = chan[c]]
    /\ chan' = [chan EXCEPT ![c] = None]
    /\ UNCHANGED <<current, setter, fileVars, subs, handler, sending, online, shown>>

(* case <-throttle.C with a pending snapshot: send() starts writing it. *)
Throttle(c) ==
    /\ pending[c] # None
    /\ MoveHandler(c, "selecting", "write")
    /\ sending' = [sending EXCEPT ![c] = pending[c]]
    /\ UNCHANGED <<current, setter, fileVars, subs, chan, pending, online, shown>>

WriteDone(c) ==
    /\ MoveHandler(c, "write", "selecting")
    /\ shown' = Displayed(c)
    /\ pending' = [pending EXCEPT ![c] = None]
    /\ sending' = [sending EXCEPT ![c] = None]
    /\ UNCHANGED <<current, setter, fileVars, subs, chan, online>>

(* A plausible slip: an early return before "defer cancel()". *)
ReturnUncancelled(c) ==
    /\ ~online[c]
    /\ \/ MoveHandler(c, "write", "closed")
       \/ MoveHandler(c, "selecting", "closed")
    /\ pending' = [pending EXCEPT ![c] = None]
    /\ sending' = [sending EXCEPT ![c] = None]
    /\ UNCHANGED <<current, setter, fileVars, subs, chan, online, shown>>

(* The write failed, the heartbeat failed, or the request context is done. *)
Return(c) ==
    /\ ~online[c]
    /\ \/ MoveHandler(c, "write", "leaving")
       \/ MoveHandler(c, "selecting", "leaving")
    /\ pending' = [pending EXCEPT ![c] = None]
    /\ sending' = [sending EXCEPT ![c] = None]
    /\ UNCHANGED <<current, setter, fileVars, subs, chan, online, shown>>

(* defer cancel(): the subscription goes and its channel is closed. *)
Cancel(c) ==
    /\ MoveHandler(c, "leaving", "closed")
    /\ subs' = subs \ {c}
    /\ chan' = [chan EXCEPT ![c] = None]
    /\ UNCHANGED <<current, setter, fileVars, pending, sending, online, shown>>

-----------------------------------------------------------------------------
(* The environment. *)

(* The browser closes the page or the network drops the connection. *)
LoseConnection(c) ==
    /\ online[c]
    /\ online' = [online EXCEPT ![c] = FALSE]
    /\ UNCHANGED <<current, setter, fileVars, subs, chan, handler, pending, sending, shown>>

(* The daemon is killed and started again: only the files survive.  What the
   browsers show belongs to the old daemon's numbering, so it counts as
   nothing in the new one's. *)
Restart ==
    /\ current' = None
    /\ setter' = "asleep"
    /\ subs' = {}
    /\ chan' = [c \in Streams |-> None]
    /\ handler' = [c \in Streams |-> "closed"]
    /\ pending' = [c \in Streams |-> None]
    /\ sending' = [c \in Streams |-> None]
    /\ online' = [c \in Streams |-> FALSE]
    /\ shown' = [c \in Streams |-> None]
    /\ UNCHANGED fileVars

Set == Stamp \/ OpenFile \/ FillFile \/ SkipFile \/ RenameFile \/ FanOut

HandleEvents(c) ==
    \/ Greeting(c) \/ GreetDone(c) \/ GreetFails(c)
    \/ Subscribe(c) \/ Receive(c) \/ Throttle(c) \/ WriteDone(c)
    \/ Return(c) \/ Cancel(c)

Next ==
    \/ Set
    \/ \E c \in Streams : HandleEvents(c) \/ Connect(c) \/ LoseConnection(c)
    \/ Restart

Spec == Init /\ [][Next]_vars

(* The poller never stops calling Set, and a goroutine that can go on does.
   Each case of the handler's select is fair on its own: the throttle ticks
   every second and select picks at random among the ready cases.  A write
   ends, one way or the other.  Nothing is assumed of browsers or networks. *)
Opens(c) == Greeting(c) \/ GreetDone(c) \/ GreetFails(c) \/ Subscribe(c)

StreamFairness(c) ==
    /\ WF_vars(Opens(c))
    /\ WF_vars(Receive(c))
    /\ WF_vars(Throttle(c))
    /\ WF_vars(WriteDone(c))
    /\ WF_vars(Return(c))
    /\ WF_vars(Cancel(c))

PollFairness == WF_vars(Set)
Fairness == PollFairness /\ \A c \in Streams : StreamFairness(c)

FairSpec == Spec /\ Fairness

-----------------------------------------------------------------------------
(* Properties. *)

(* What the handler of c is about to show, and what is queued behind it.    *)
(* Along the path from the store to the screen - current, channel, pending, *)
(* send, screen - snapshots only get older, and the stages that are not in  *)
(* use are empty.                                                           *)
Ordered(c) ==
    /\ shown[c] <= current
    /\ sending[c] <= current
    /\ handler[c] \in {"greet", "write"} => shown[c] <= sending[c]
    /\ handler[c] \notin {"greet", "write"} => sending[c] = None
    /\ handler[c] = "write" => sending[c] = pending[c]
    /\ handler[c] \notin {"selecting", "write"} => pending[c] = None
    /\ pending[c] # None => shown[c] <= pending[c] /\ pending[c] <= current
    /\ c \notin subs => chan[c] = None
    /\ chan[c] # None => /\ shown[c] <= chan[c] /\ chan[c] <= current
                         /\ pending[c] <= chan[c]

(* The snapshots on their way to a browser are in the order in which they   *)
(* were published, at every moment: the poller may be inside Set and the    *)
(* handler between Get and Subscribe (store.go:39-60, handlers.go:101-131). *)
InOrder == \A c \in Streams : Ordered(c)

(* A stream is registered with the store exactly while its handler is past  *)
(* Subscribe and has not yet run its deferred cancel: a handler that        *)
(* returns, for whatever reason, leaves no subscription behind              *)
(* (handlers.go:103-104, store.go:79-86).                                   *)
NoSubscriptionLeak ==
    subs = {c \in Streams : handler[c] \in {"selecting", "write", "leaving"}}

(* Whoever opens the snapshot file, at any moment and after any crash of    *)
(* the daemon, finds a whole snapshot (store.go:121-130).                   *)
SnapshotFileWhole == snapFile.whole

(* The poller can always go on: no stream, however slow, blocks Set         *)
(* (store.go:70-71, "never block the store").  Nor does the store, or       *)
(* another stream, keep a handler from its next step: the greeting goes out, *)
(* the channel is emptied while an earlier snapshot still waits for the     *)
(* throttle, and a write ends (handlers.go:97-131, store.go:53-75).         *)
NeverBlocked ==
    /\ ENABLED <<Set>>_vars
    /\ \A c \in Streams :
        /\ handler[c] \in {"greeting", "greet", "subscribing"} => ENABLED <<Opens(c)>>_vars
        /\ handler[c] = "selecting" /\ chan[c] # None => ENABLED <<Receive(c)>>_vars
        /\ handler[c] = "selecting" /\ pending[c] # None => ENABLED <<Throttle(c)>>_vars
        /\ handler[c] = "write" => ENABLED <<WriteDone(c)>>_vars

(* What a browser shows implements the abstract feed: only published        *)
(* snapshots, never an older one after a newer one.                         *)
SF == INSTANCE SnapshotFeed WITH published <- current
ImplementsFeed == SF!Feed

(* A snapshot that was published (or a newer one) reaches every browser     *)
(* that stays connected, although the channel drops what a laggard has no   *)
(* room for and a publication between Get and Subscribe is missed: a later  *)
(* poll makes up for both.                                                  *)
NewsArrives ==
    \A c \in Streams :
        (online[c] /\ current = MaxVersion) ~> (shown[c] = MaxVersion \/ ~online[c])

(* What store.go:70-71 says of a slow subscriber: it misses "intermediate   *)
(* snapshots".  Then what waits in its channel once Set is done is the      *)
(* newest one.                                                              *)
LaggardMissesOnlyIntermediate ==
    setter = "asleep" => \A c \in subs : chan[c] \in {None, current}

=============================================================================
