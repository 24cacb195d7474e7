------------------------- MODULE SnapshotStoreProofs -------------------------
(***************************************************************************)
(* Proofs about SnapshotStore, for every set of streams and every bound    *)
(* on the versions: the types, that a stream's subscription lives exactly  *)
(* as long as its handler's loop, that the snapshot file is never torn,    *)
(* that snapshots stay in order all the way to the screen, and that what   *)
(* the browsers show therefore implements SnapshotFeed.                    *)
(***************************************************************************)
EXTENDS SnapshotStore, TLAPS

USE StoreAssumption

(* The stamp of the next snapshot is a version, and not an older one. *)
LEMMA NextVersionForward ==
    ASSUME current \in Version
    PROVE  NextVersion \in Version /\ current <= NextVersion
  BY DEF NextVersion, Version, None

(* Every step of the daemon, its streams and its environment keeps the     *)
(* variables in their types (store.go:16-32, handlers.go:101-131).         *)
THEOREM TypeCorrect == Spec => []TypeOK
<1>1. Init => TypeOK
  BY DEF Init, TypeOK, Version, None, NoFile, Content, SetterPlaces, HandlerPlaces
<1>2. TypeOK /\ [Next]_vars => TypeOK'
  <2> SUFFICES ASSUME TypeOK, [Next]_vars PROVE TypeOK'
    OBVIOUS
  <2> USE DEF TypeOK, SetterPlaces, HandlerPlaces, fileVars, streamVars
  <2>1. CASE Set
    <3>1. CASE Stamp
      BY <3>1, NextVersionForward DEF Stamp
    <3>2. CASE OpenFile
      BY <3>2 DEF OpenFile, Content
    <3>3. CASE FillFile
      BY <3>3 DEF FillFile, Content
    <3>4. CASE SkipFile
      BY <3>4 DEF SkipFile
    <3>5. CASE RenameFile
      BY <3>5 DEF RenameFile, NoFile, Content, Version, None
    <3>6. CASE FanOut
      BY <3>6 DEF FanOut, Offer
    <3> QED
      BY <2>1, <3>1, <3>2, <3>3, <3>4, <3>5, <3>6 DEF Set
  <2>2. ASSUME NEW c \in Streams, HandleEvents(c) PROVE TypeOK'
    <3> USE DEF MoveHandler
    <3>1. CASE Greeting(c)
      BY <3>1 DEF Greeting
    <3>2. CASE GreetDone(c)
      BY <3>2 DEF GreetDone, Displayed, Version, None
    <3>3. CASE GreetFails(c)
      BY <3>3 DEF GreetFails, Version, None
    <3>4. CASE Subscribe(c)
      BY <3>4 DEF Subscribe
    <3>5. CASE Receive(c)
      BY <3>5 DEF Receive, Version, None
    <3>6. CASE Throttle(c)
      BY <3>6 DEF Throttle
    <3>7. CASE WriteDone(c)
      BY <3>7 DEF WriteDone, Displayed, Version, None
    <3>8. CASE Return(c)
      BY <3>8 DEF Return, Version, None
    <3>9. CASE Cancel(c)
      BY <3>9 DEF Cancel, Version, None
    <3> QED
      BY <2>2, <3>1, <3>2, <3>3, <3>4, <3>5, <3>6, <3>7, <3>8, <3>9 DEF HandleEvents
  <2>3. ASSUME NEW c \in Streams, Connect(c) PROVE TypeOK'
    BY <2>3 DEF Connect, MoveHandler
  <2>4. ASSUME NEW c \in Streams, LoseConnection(c) PROVE TypeOK'
    BY <2>4 DEF LoseConnection
  <2>5. CASE Restart
    BY <2>5 DEF Restart, Version, None
  <2>6. CASE UNCHANGED vars
    BY <2>6 DEF vars
  <2> QED
    BY <2>1, <2>2, <2>3, <2>4, <2>5, <2>6 DEF Next
<1> QED
  BY <1>1, <1>2, PTL DEF Spec

(* The temporary file is whole whenever Set is about to rename it.          *)
FileInv == SnapshotFileWhole /\ (setter = "renaming" => tmpFile.whole)

(* The snapshot file is only ever replaced by a temporary file that was     *)
(* written to its end, so it is whole at any moment (store.go:121-130).     *)
THEOREM FileIsWhole == Spec => []SnapshotFileWhole
<1>1. Init => FileInv
  BY DEF Init, FileInv, SnapshotFileWhole, NoFile
<1>2. FileInv /\ [Next]_vars => FileInv'
  <2> SUFFICES ASSUME FileInv, [Next]_vars PROVE FileInv'
    OBVIOUS
  <2> USE DEF FileInv, SnapshotFileWhole, fileVars, streamVars
  <2>1. CASE Set
    BY <2>1 DEF Set, Stamp, OpenFile, FillFile, SkipFile, RenameFile, FanOut
  <2>2. ASSUME NEW c \in Streams, HandleEvents(c) \/ Connect(c) \/ LoseConnection(c)
        PROVE  UNCHANGED <<setter, fileVars>>
    BY <2>2 DEF HandleEvents, Greeting, GreetDone, GreetFails, Subscribe, Receive,
                Throttle, WriteDone, Return, Cancel, Connect, LoseConnection
  <2>3. CASE Restart
    BY <2>3 DEF Restart
  <2>4. CASE UNCHANGED vars
    BY <2>4 DEF vars
  <2> QED
    BY <2>1, <2>2, <2>3, <2>4 DEF Next
<1>3. FileInv => SnapshotFileWhole
  BY DEF FileInv
<1> QED
  BY <1>1, <1>2, <1>3, PTL DEF Spec

(* The inductive invariant of the order of snapshots.  Ordered needs to know *)
(* that a channel is filled only while its handler is past Subscribe: that   *)
(* is when what the handler showed before is already on the screen.          *)
OrderInv == TypeOK /\ NoSubscriptionLeak /\ InOrder

(* A daemon that has just started satisfies the invariant. *)
LEMMA OrderInvInit == Init => OrderInv
  BY DEF Init, OrderInv, TypeOK, NoSubscriptionLeak, InOrder, Ordered, Version, None,
         NoFile, Content, SetterPlaces, HandlerPlaces

(* A step of another stream, of the poller outside its stamp and fan-out, or *)
(* no step at all leaves a stream as ordered as it was.                      *)
LEMMA OrderedUntouched ==
    ASSUME NEW d \in Streams, Ordered(d),
           current' = current, d \in subs' <=> d \in subs,
           chan'[d] = chan[d], handler'[d] = handler[d], pending'[d] = pending[d],
           sending'[d] = sending[d], shown'[d] = shown[d]
    PROVE  Ordered(d)'
  BY DEF Ordered

(* The poller's steps keep the order: the new stamp is not older, and a      *)
(* channel takes only the newest snapshot.                                   *)
LEMMA SetKeepsOrder ==
    ASSUME OrderInv, Set PROVE NoSubscriptionLeak' /\ InOrder'
<1> USE DEF OrderInv, TypeOK, streamVars, fileVars
<1>1. NoSubscriptionLeak'
  BY DEF NoSubscriptionLeak, Set, Stamp, OpenFile, FillFile, SkipFile, RenameFile, FanOut
<1>2. ASSUME NEW d \in Streams PROVE Ordered(d)'
  <2> Ordered(d)
    BY DEF InOrder
  <2>1. CASE Stamp
    <3>1. current <= current' /\ current' \in Version
      BY <2>1, NextVersionForward DEF Stamp
    <3> QED
      BY <2>1, <3>1 DEF Stamp, Ordered, Version, None
  <2>2. CASE FanOut
    <3>1. chan'[d] = IF d \in subs /\ chan[d] = None THEN current ELSE chan[d]
      BY <2>2 DEF FanOut, Offer
    <3> QED
      BY <2>2, <3>1 DEF FanOut, Ordered, Version, None
  <2>3. CASE OpenFile \/ FillFile \/ SkipFile \/ RenameFile
    BY <2>3, OrderedUntouched DEF OpenFile, FillFile, SkipFile, RenameFile
  <2> QED
    BY <2>1, <2>2, <2>3 DEF Set
<1> QED
  BY <1>1, <1>2 DEF InOrder

(* A step of stream c keeps the order of every stream.                       *)
LEMMA StreamKeepsOrder ==
    ASSUME OrderInv, NEW c \in Streams, HandleEvents(c) \/ Connect(c) \/ LoseConnection(c)
    PROVE  NoSubscriptionLeak' /\ InOrder'
<1> USE DEF OrderInv, TypeOK, HandlerPlaces, MoveHandler
<1>1. NoSubscriptionLeak'
  <2> USE DEF NoSubscriptionLeak
  <2>1. CASE Subscribe(c)
    BY <2>1 DEF Subscribe
  <2>2. CASE Cancel(c)
    BY <2>2 DEF Cancel
  <2>3. CASE Greeting(c) \/ GreetDone(c) \/ GreetFails(c) \/ Connect(c)
    BY <2>3 DEF Greeting, GreetDone, GreetFails, Connect
  <2>4. CASE Receive(c) \/ LoseConnection(c)
    BY <2>4 DEF Receive, LoseConnection
  <2>5. CASE Throttle(c) \/ WriteDone(c) \/ Return(c)
    BY <2>5 DEF Throttle, WriteDone, Return
  <2> QED
    BY <2>1, <2>2, <2>3, <2>4, <2>5 DEF HandleEvents
<1>2. ASSUME NEW d \in Streams, d # c PROVE Ordered(d)'
  <2> Ordered(d)
    BY DEF InOrder
  <2> USE <1>2, OrderedUntouched
  <2>1. CASE Greeting(c) \/ GreetDone(c) \/ GreetFails(c) \/ Connect(c) \/ LoseConnection(c)
    BY <2>1 DEF Greeting, GreetDone, GreetFails, Connect, LoseConnection, Displayed
  <2>2. CASE Subscribe(c) \/ Receive(c) \/ Throttle(c)
    BY <2>2 DEF Subscribe, Receive, Throttle
  <2>3. CASE WriteDone(c) \/ Return(c) \/ Cancel(c)
    BY <2>3 DEF WriteDone, Return, Cancel, Displayed
  <2> QED
    BY <2>1, <2>2, <2>3 DEF HandleEvents
<1>3. Ordered(c)'
  <2>1. /\ Ordered(c)
        /\ c \in subs <=> handler[c] \in {"selecting", "write", "leaving"}
    BY DEF InOrder, NoSubscriptionLeak
  <2> USE <2>1 DEF Ordered, Version, None
  <2>2. CASE Greeting(c)
    BY <2>2 DEF Greeting
  <2>3. CASE GreetDone(c)
    BY <2>3 DEF GreetDone, Displayed
  <2>4. CASE GreetFails(c)
    BY <2>4 DEF GreetFails
  <2>5. CASE Subscribe(c)
    BY <2>5 DEF Subscribe
  <2>6. CASE Receive(c)
    BY <2>6 DEF Receive
  <2>7. CASE Throttle(c)
    BY <2>7 DEF Throttle
  <2>8. CASE WriteDone(c)
    BY <2>8 DEF WriteDone, Displayed
  <2>9. CASE Return(c)
    BY <2>9 DEF Return
  <2>10. CASE Cancel(c)
    BY <2>10 DEF Cancel
  <2>11. CASE Connect(c)
    BY <2>11 DEF Connect
  <2>12. CASE LoseConnection(c)
    BY <2>12 DEF LoseConnection
  <2> QED
    BY <2>2, <2>3, <2>4, <2>5, <2>6, <2>7, <2>8, <2>9, <2>10, <2>11, <2>12 DEF HandleEvents
<1> QED
  BY <1>1, <1>2, <1>3 DEF InOrder

(* Wherever the poller is in Set and every handler in its loop, snapshots    *)
(* are in order on their way to each screen.                                 *)
THEOREM OrderHolds == Spec => []OrderInv
<1>1. TypeOK /\ OrderInv /\ [Next]_vars => NoSubscriptionLeak' /\ InOrder'
  <2> SUFFICES ASSUME OrderInv, [Next]_vars PROVE NoSubscriptionLeak' /\ InOrder'
    OBVIOUS
  <2>1. CASE Set
    BY <2>1, SetKeepsOrder
  <2>2. ASSUME NEW c \in Streams, HandleEvents(c) \/ Connect(c) \/ LoseConnection(c)
        PROVE  NoSubscriptionLeak' /\ InOrder'
    BY <2>2, StreamKeepsOrder
  <2>3. CASE Restart
    BY <2>3 DEF Restart, NoSubscriptionLeak, InOrder, Ordered, None
  <2>4. CASE UNCHANGED vars
    BY <2>4, OrderedUntouched
       DEF OrderInv, vars, streamVars, NoSubscriptionLeak, InOrder
  <2> QED
    BY <2>1, <2>2, <2>3, <2>4 DEF Next
<1> QED
  BY <1>1, OrderInvInit, TypeCorrect, PTL DEF Spec, OrderInv

(* Snapshots stay in order (store.go:39-60, handlers.go:101-131).            *)
THEOREM SnapshotsInOrder == Spec => []InOrder
  BY OrderHolds, PTL DEF OrderInv

(* No handler returns without its subscription (handlers.go:103-104).        *)
THEOREM NoLeak == Spec => []NoSubscriptionLeak
  BY OrderHolds, PTL DEF OrderInv

(* What the browsers show implements the abstract feed: no browser is ever   *)
(* shown an older snapshot after a newer one, nor one that was not published. *)
THEOREM StoreImplementsFeed == Spec => ImplementsFeed
<1>1. Init => SF!FeedInit
  BY DEF Init, SF!FeedInit, None
<1>2. OrderInv /\ [Next]_vars => [SF!FeedNext]_(SF!feedVars)
  <2> SUFFICES ASSUME OrderInv, [Next]_vars PROVE [SF!FeedNext]_(SF!feedVars)
    OBVIOUS
  <2> USE DEF OrderInv, TypeOK, fileVars, streamVars, SF!feedVars
  <2>1. CASE Stamp
    BY <2>1 DEF Stamp, NextVersion, Version, None, SF!FeedNext, SF!Publish
  <2>2. CASE OpenFile \/ FillFile \/ SkipFile \/ RenameFile \/ FanOut
    BY <2>2 DEF OpenFile, FillFile, SkipFile, RenameFile, FanOut
  <2>3. ASSUME NEW c \in Streams, GreetDone(c) \/ WriteDone(c)
        PROVE  [SF!FeedNext]_(SF!feedVars)
    <3>1. handler[c] \in {"greet", "write"} /\ shown' = Displayed(c) /\ current' = current
      BY <2>3 DEF GreetDone, WriteDone, MoveHandler
    <3>2. sending[c] \in shown[c]..current
      BY <3>1 DEF InOrder, Ordered, Version, None
    <3>3. CASE online[c]
      <4>1. shown' = [shown EXCEPT ![c] = sending[c]]
        BY <3>1, <3>3 DEF Displayed
      <4> QED
        BY <3>1, <3>2, <4>1 DEF SF!FeedNext, SF!Deliver
    <3>4. CASE ~online[c]
      BY <3>1, <3>4 DEF Displayed
    <3> QED
      BY <3>3, <3>4
  <2>4. ASSUME NEW c \in Streams,
               \/ Greeting(c) \/ GreetFails(c) \/ Subscribe(c) \/ Receive(c) \/ Throttle(c)
               \/ Return(c) \/ Cancel(c) \/ Connect(c) \/ LoseConnection(c)
        PROVE  UNCHANGED <<current, shown>>
    BY <2>4 DEF Greeting, GreetFails, Subscribe, Receive, Throttle, Return, Cancel,
                Connect, LoseConnection
  <2>5. CASE Restart
    BY <2>5 DEF Restart, None, SF!FeedNext, SF!StartOver
  <2>6. CASE UNCHANGED vars
    BY <2>6 DEF vars
  <2> QED
    BY <2>1, <2>2, <2>3, <2>4, <2>5, <2>6 DEF Next, Set, HandleEvents
<1> QED
  BY <1>1, <1>2, OrderHolds, PTL DEF Spec, ImplementsFeed, SF!Feed

-----------------------------------------------------------------------------
(* News arrives.  The provers know nothing of ENABLED: that the poller and the *)
(* handlers can go on are hypotheses, invariants of the run.                   *)

(* A handler that has left its loop, or not begun, has no browser.             *)
OnlineInv == \A c \in Streams : online[c] => handler[c] \notin {"closed", "leaving"}

NewsInv == OrderInv /\ OnlineInv

LEMMA NewsInvHolds == Spec => []NewsInv
<1>1. Init => OnlineInv
  BY DEF Init, OnlineInv
<1>2. OrderInv /\ OnlineInv /\ [Next]_vars => OnlineInv'
  <2> SUFFICES ASSUME OrderInv, OnlineInv, [Next]_vars PROVE OnlineInv'
    OBVIOUS
  <2> USE DEF OrderInv, TypeOK, OnlineInv, fileVars, streamVars, MoveHandler
  <2>1. CASE Set
    BY <2>1 DEF Set, Stamp, OpenFile, FillFile, SkipFile, RenameFile, FanOut
  <2>2. ASSUME NEW c \in Streams, HandleEvents(c) PROVE OnlineInv'
    <3>1. CASE Greeting(c) \/ GreetDone(c) \/ GreetFails(c)
      BY <3>1 DEF Greeting, GreetDone, GreetFails
    <3>2. CASE Subscribe(c) \/ Receive(c) \/ Throttle(c)
      BY <3>2 DEF Subscribe, Receive, Throttle
    <3>3. CASE WriteDone(c) \/ Return(c) \/ Cancel(c)
      BY <3>3 DEF WriteDone, Return, Cancel
    <3> QED
      BY <2>2, <3>1, <3>2, <3>3 DEF HandleEvents
  <2>3. ASSUME NEW c \in Streams, Connect(c) \/ LoseConnection(c) PROVE OnlineInv'
    BY <2>3 DEF Connect, LoseConnection
  <2>4. CASE Restart
    BY <2>4 DEF Restart
  <2>5. CASE UNCHANGED vars
    BY <2>5 DEF vars
  <2> QED
    BY <2>1, <2>2, <2>3, <2>4, <2>5 DEF Next
<1> QED
  BY <1>1, <1>2, OrderHolds, PTL DEF Spec, NewsInv

(* The last snapshot is there, and the browser of c has not got it; or it has, *)
(* or is gone.                                                                 *)
Awaits(c) == online[c] /\ current = MaxVersion /\ shown[c] # MaxVersion
Served(c) == shown[c] = MaxVersion \/ ~online[c]

(* What a step may do to a stream that awaits the news and does not get it.    *)
Passed(c)   == UNCHANGED <<handler[c], chan[c], pending[c]>>
Filled(c)   == /\ UNCHANGED <<handler[c], pending[c]>>
               /\ setter = "fanout" /\ chan[c] = None /\ chan'[c] = MaxVersion
Greeted(c)  == /\ UNCHANGED <<chan[c], pending[c]>>
               /\ \/ handler[c] = "greeting" /\ handler'[c] = "greet"
                  \/ handler[c] = "greet" /\ handler'[c] = "subscribing"
                  \/ handler[c] = "subscribing" /\ handler'[c] = "selecting"
Received(c) == /\ handler[c] = "selecting" /\ handler'[c] = "selecting"
               /\ chan[c] # None /\ chan'[c] = None /\ pending'[c] = chan[c]
Writes(c)   == /\ handler[c] = "selecting" /\ handler'[c] = "write"
               /\ UNCHANGED <<chan[c], pending[c]>> /\ pending[c] # None
Wrote(c)    == /\ handler[c] = "write" /\ handler'[c] = "selecting"
               /\ UNCHANGED chan[c] /\ pending[c] # MaxVersion /\ pending'[c] = None

LEMMA NewsStep ==
    ASSUME NewsInv, NEW c \in Streams, Awaits(c), [Next]_vars, ~Served(c)'
    PROVE  /\ Awaits(c)'
           /\ Passed(c) \/ Filled(c) \/ Greeted(c) \/ Received(c) \/ Writes(c) \/ Wrote(c)
<1> USE DEF NewsInv, OrderInv, TypeOK, fileVars, streamVars, MoveHandler, Awaits, Served, Version,
            None
<1>1. CASE Stamp
  BY <1>1 DEF Stamp, NextVersion, Passed
<1>2. CASE OpenFile \/ FillFile \/ SkipFile \/ RenameFile
  BY <1>2 DEF OpenFile, FillFile, SkipFile, RenameFile, Passed
<1>3. CASE FanOut
  BY <1>3 DEF FanOut, Offer, Passed, Filled
<1>4. CASE HandleEvents(c)
  <2>1. handler[c] \notin {"closed", "leaving"}
    BY DEF OnlineInv
  <2>2. CASE Greeting(c) \/ GreetDone(c) \/ GreetFails(c) \/ Subscribe(c)
    BY <2>2 DEF Greeting, GreetDone, GreetFails, Subscribe, Displayed, Greeted
  <2>3. CASE Receive(c)
    BY <2>3 DEF Receive, Received
  <2>4. CASE Throttle(c)
    BY <2>4 DEF Throttle, Writes
  <2>5. CASE WriteDone(c)
    <3>1. sending[c] = pending[c]
      BY <2>5 DEF WriteDone, InOrder, Ordered
    <3> QED
      BY <2>5, <3>1 DEF WriteDone, Displayed, Wrote
  <2>6. CASE Return(c) \/ Cancel(c)
    BY <2>1, <2>6 DEF Return, Cancel
  <2> QED
    BY <1>4, <2>2, <2>3, <2>4, <2>5, <2>6 DEF HandleEvents
<1>5. ASSUME NEW d \in Streams \ {c}, HandleEvents(d)
      PROVE  Awaits(c)' /\ Passed(c)
  <2>1. CASE Greeting(d) \/ GreetDone(d) \/ GreetFails(d) \/ Subscribe(d)
    BY <1>5, <2>1 DEF Greeting, GreetDone, GreetFails, Subscribe, Displayed, Passed
  <2>2. CASE Receive(d) \/ Throttle(d) \/ WriteDone(d) \/ Return(d) \/ Cancel(d)
    BY <1>5, <2>2 DEF Receive, Throttle, WriteDone, Return, Cancel, Displayed, Passed
  <2> QED
    BY <1>5, <2>1, <2>2 DEF HandleEvents
<1>6. ASSUME NEW d \in Streams, Connect(d) \/ LoseConnection(d)
      PROVE  Awaits(c)' /\ Passed(c)
  BY <1>6 DEF Connect, LoseConnection, Passed, OnlineInv
<1>7. CASE Restart
  BY <1>7 DEF Restart
<1>8. CASE UNCHANGED vars
  BY <1>8 DEF vars, Passed
<1> QED
  BY <1>1, <1>2, <1>3, <1>4, <1>5, <1>6, <1>7, <1>8 DEF Next, Set

(* What the news may be relied on: fairness for one stream, and that everybody *)
(* can go on.                                                                  *)
GoesOn(c) == Spec /\ PollFairness /\ StreamFairness(c) /\ []NeverBlocked

Opening(c, place) == Awaits(c) /\ handler[c] = place
Looping(c)        == Awaits(c) /\ handler[c] \in {"selecting", "write"}

(* Every handler comes to its loop. *)
LEMMA ComesToLoop ==
    ASSUME NEW c \in Streams
    PROVE  GoesOn(c) => (Awaits(c) ~> Looping(c) \/ Served(c))
<1> DEFINE Greeting0 == Opening(c, "greeting")
           Greet0    == Opening(c, "greet")
           Subscr0   == Opening(c, "subscribing")
<1> USE DEF Opening, Looping, Passed, Filled, Greeted, Received, Writes, Wrote
<1>1. NewsInv /\ Awaits(c) => Greeting0 \/ Greet0 \/ Subscr0 \/ Looping(c)
  BY DEF NewsInv, OrderInv, TypeOK, HandlerPlaces, OnlineInv, Awaits
<1>2. NewsInv /\ Greeting0 /\ [Next]_vars => Greeting0' \/ Greet0' \/ Served(c)'
  BY NewsStep
<1>3. NewsInv /\ Greet0 /\ [Next]_vars => Greet0' \/ Subscr0' \/ Served(c)'
  BY NewsStep
<1>4. NewsInv /\ Subscr0 /\ [Next]_vars => Subscr0' \/ Looping(c)' \/ Served(c)'
  BY NewsStep
<1>5. NewsInv /\ Awaits(c) /\ <<Opens(c)>>_vars => handler'[c] # handler[c]
  <2> SUFFICES ASSUME NewsInv, Awaits(c), Opens(c) PROVE handler'[c] # handler[c]
    OBVIOUS
  <2> QED
    BY DEF NewsInv, OrderInv, TypeOK, Opens, Greeting, GreetDone, GreetFails, Subscribe,
           MoveHandler
<1>6. <<Opens(c)>>_vars => [Next]_vars
  BY DEF Next, HandleEvents, Opens
<1>7. NewsInv /\ Greeting0 /\ <<Opens(c)>>_vars => Greet0' \/ Served(c)'
  BY <1>2, <1>5, <1>6
<1>8. NewsInv /\ Greet0 /\ <<Opens(c)>>_vars => Subscr0' \/ Served(c)'
  BY <1>3, <1>5, <1>6
<1>9. NewsInv /\ Subscr0 /\ <<Opens(c)>>_vars => Looping(c)' \/ Served(c)'
  BY <1>4, <1>5, <1>6
<1>10. NeverBlocked /\ (Greeting0 \/ Greet0 \/ Subscr0) => ENABLED <<Opens(c)>>_vars
  BY DEF NeverBlocked
<1> HIDE DEF Greeting0, Greet0, Subscr0
<1> QED
  BY <1>1, <1>2, <1>3, <1>4, <1>7, <1>8, <1>9, <1>10, NewsInvHolds, PTL
     DEF GoesOn, Spec, StreamFairness

(* What is in the channel becomes the pending snapshot: a handler that is in a *)
(* write comes back from it, and the throttle does not keep it for ever.       *)
Taken(c, V) ==
    (Looping(c) /\ chan[c] \in V)
        ~> ((Looping(c) /\ pending[c] \in V /\ chan[c] = None) \/ Served(c))

LEMMA ChannelEmptied ==
    ASSUME NEW c \in Streams, NEW V \in SUBSET (Version \ {None})
    PROVE  GoesOn(c) => Taken(c, V)
<1> DEFINE Full     == chan[c] \in V
           Throttled == Opening(c, "selecting") /\ Full /\ pending[c] # None
           InWrite   == Opening(c, "write") /\ Full
           Ready     == Opening(c, "selecting") /\ Full /\ pending[c] = None
           Goal      == Looping(c) /\ pending[c] \in V /\ chan[c] = None
<1> USE DEF Opening, Looping, Passed, Filled, Greeted, Received, Writes, Wrote
<1>1. Looping(c) /\ Full => Throttled \/ InWrite \/ Ready
  OBVIOUS
<1>2. NewsInv /\ Throttled /\ [Next]_vars => Throttled' \/ InWrite' \/ Goal' \/ Served(c)'
  BY NewsStep
<1>3. NewsInv /\ InWrite /\ [Next]_vars => InWrite' \/ Ready' \/ Served(c)'
  BY NewsStep
<1>4. NewsInv /\ Ready /\ [Next]_vars => Ready' \/ Goal' \/ Served(c)'
  BY NewsStep
<1>5. NewsInv /\ Throttled /\ <<Throttle(c)>>_vars => InWrite' \/ Served(c)'
  <2> SUFFICES ASSUME NewsInv, Throttled, Throttle(c), [Next]_vars PROVE InWrite' \/ Served(c)'
    BY DEF Next, HandleEvents
  <2>1. handler'[c] = "write"
    BY DEF Throttle, MoveHandler, NewsInv, OrderInv, TypeOK
  <2> QED
    BY <1>2, <2>1, NewsStep
<1>6. NewsInv /\ InWrite /\ <<WriteDone(c)>>_vars => Ready' \/ Served(c)'
  <2> SUFFICES ASSUME NewsInv, InWrite, WriteDone(c), [Next]_vars PROVE Ready' \/ Served(c)'
    BY DEF Next, HandleEvents
  <2>1. handler'[c] = "selecting"
    BY DEF WriteDone, MoveHandler, NewsInv, OrderInv, TypeOK
  <2> QED
    BY <1>3, <2>1
<1>7. NewsInv /\ Ready /\ <<Receive(c)>>_vars => Goal' \/ Served(c)'
  <2> SUFFICES ASSUME NewsInv, Ready, Receive(c), [Next]_vars PROVE Goal' \/ Served(c)'
    BY DEF Next, HandleEvents
  <2>1. chan'[c] = None
    BY DEF Receive, NewsInv, OrderInv, TypeOK
  <2> QED
    BY <1>4, <2>1
<1>8. /\ NeverBlocked /\ Throttled => ENABLED <<Throttle(c)>>_vars
      /\ NeverBlocked /\ InWrite => ENABLED <<WriteDone(c)>>_vars
      /\ NeverBlocked /\ Ready => ENABLED <<Receive(c)>>_vars
  BY DEF NeverBlocked
<1> HIDE DEF Full, Throttled, InWrite, Ready, Goal
<1>9. GoesOn(c) => (Looping(c) /\ Full ~> Goal \/ Served(c))
  BY <1>1, <1>2, <1>3, <1>4, <1>5, <1>6, <1>7, <1>8, NewsInvHolds, PTL
     DEF GoesOn, Spec, StreamFairness
<1> QED
  BY <1>9 DEF Taken, Full, Goal

(* A channel that is empty is filled by the next fan-out. *)
LEMMA ChannelFilled ==
    ASSUME NEW c \in Streams
    PROVE  GoesOn(c) => ((Looping(c) /\ chan[c] = None)
                            ~> ((Looping(c) /\ chan[c] = MaxVersion) \/ Served(c)))
<1> DEFINE Empty(place) == Looping(c) /\ chan[c] = None /\ setter = place
           Goal         == Looping(c) /\ chan[c] = MaxVersion
<1>1. ASSUME NEW place \in SetterPlaces, NewsInv, Empty(place), [Next]_vars, ~Served(c)'
      PROVE  Looping(c)' /\ (chan[c] = None \/ chan[c] = MaxVersion)'
  BY <1>1, NewsStep DEF Looping, Passed, Filled, Greeted, Received, Writes, Wrote
<1>2. ASSUME NewsInv, Looping(c), [Next]_vars, ~Served(c)'
      PROVE  setter' = setter \/ Set
  <2> USE <1>2
  <2>1. ASSUME NEW d \in Streams, HandleEvents(d) PROVE setter' = setter
    BY <2>1 DEF HandleEvents, Greeting, GreetDone, GreetFails, Subscribe, Receive, Throttle,
                WriteDone, Return, Cancel
  <2>2. ASSUME NEW d \in Streams, Connect(d) \/ LoseConnection(d) PROVE setter' = setter
    BY <2>2 DEF Connect, LoseConnection
  <2>3. CASE Restart
    BY <2>3 DEF Restart, Served
  <2> QED
    BY <2>1, <2>2, <2>3 DEF Next, vars
<1>3. ASSUME NewsInv, Looping(c), Set
      PROVE  /\ setter = "asleep"   => setter' = "opening"
             /\ setter = "opening"  => setter' \in {"filling", "fanout"}
             /\ setter = "filling"  => setter' \in {"renaming", "fanout"}
             /\ setter = "renaming" => setter' = "fanout"
             /\ setter = "fanout" /\ chan[c] = None => chan'[c] = MaxVersion
  <2>1. c \in subs
    BY <1>3 DEF NewsInv, OrderInv, NoSubscriptionLeak, Looping
  <2>2. current = MaxVersion
    BY <1>3 DEF Looping, Awaits
  <2> QED
    BY <1>3, <2>1, <2>2 DEF Set, Stamp, OpenFile, FillFile, SkipFile, RenameFile, FanOut, Offer
<1>4. /\ "asleep" \in SetterPlaces /\ "opening" \in SetterPlaces /\ "filling" \in SetterPlaces
      /\ "renaming" \in SetterPlaces /\ "fanout" \in SetterPlaces
  BY DEF SetterPlaces
<1>5. NewsInv /\ Looping(c) /\ chan[c] = None =>
        Empty("asleep") \/ Empty("opening") \/ Empty("filling") \/ Empty("renaming") \/ Empty("fanout")
  BY DEF NewsInv, OrderInv, TypeOK, SetterPlaces
<1>6. NewsInv /\ Empty("asleep") /\ [Next]_vars => Empty("asleep")' \/ Empty("opening")' \/ Goal' \/ Served(c)'
  BY <1>1, <1>2, <1>3, <1>4
<1>7. NewsInv /\ Empty("opening") /\ [Next]_vars
        => Empty("opening")' \/ Empty("filling")' \/ Empty("fanout")' \/ Goal' \/ Served(c)'
  BY <1>1, <1>2, <1>3, <1>4
<1>8. NewsInv /\ Empty("filling") /\ [Next]_vars
        => Empty("filling")' \/ Empty("renaming")' \/ Empty("fanout")' \/ Goal' \/ Served(c)'
  BY <1>1, <1>2, <1>3, <1>4
<1>9. NewsInv /\ Empty("renaming") /\ [Next]_vars => Empty("renaming")' \/ Empty("fanout")' \/ Goal' \/ Served(c)'
  BY <1>1, <1>2, <1>3, <1>4
<1>10. NewsInv /\ Empty("fanout") /\ [Next]_vars => Empty("fanout")' \/ Goal' \/ Served(c)'
  BY <1>1, <1>2, <1>3, <1>4
<1>11. <<Set>>_vars => [Next]_vars
  BY DEF Next
<1>12. /\ NewsInv /\ Empty("asleep") /\ <<Set>>_vars => Empty("opening")' \/ Goal' \/ Served(c)'
       /\ NewsInv /\ Empty("opening") /\ <<Set>>_vars
            => Empty("filling")' \/ Empty("fanout")' \/ Goal' \/ Served(c)'
       /\ NewsInv /\ Empty("filling") /\ <<Set>>_vars
            => Empty("renaming")' \/ Empty("fanout")' \/ Goal' \/ Served(c)'
       /\ NewsInv /\ Empty("renaming") /\ <<Set>>_vars => Empty("fanout")' \/ Goal' \/ Served(c)'
       /\ NewsInv /\ Empty("fanout") /\ <<Set>>_vars => Goal' \/ Served(c)'
  BY <1>1, <1>3, <1>4, <1>11
<1> HIDE DEF Empty, Goal
<1>13. NeverBlocked => ENABLED <<Set>>_vars
  BY DEF NeverBlocked
<1>14. GoesOn(c) => ((Looping(c) /\ chan[c] = None) ~> (Goal \/ Served(c)))
  BY <1>5, <1>6, <1>7, <1>8, <1>9, <1>10, <1>12, <1>13, NewsInvHolds, PTL
     DEF GoesOn, Spec, PollFairness
<1> QED
  BY <1>14 DEF Goal

(* The newest snapshot, once pending, is shown. *)
LEMMA PendingShown ==
    ASSUME NEW c \in Streams
    PROVE  GoesOn(c) => ((Looping(c) /\ pending[c] = MaxVersion) ~> Served(c))
<1> DEFINE Waits   == Opening(c, "selecting") /\ pending[c] = MaxVersion
           InWrite == Opening(c, "write") /\ pending[c] = MaxVersion
<1> USE DEF Opening, Looping, Passed, Filled, Greeted, Received, Writes, Wrote
<1>1. Looping(c) /\ pending[c] = MaxVersion => Waits \/ InWrite
  OBVIOUS
<1>2. ASSUME NewsInv, Waits, chan[c] # None PROVE chan[c] = MaxVersion
  BY <1>2 DEF NewsInv, OrderInv, TypeOK, InOrder, Ordered, Awaits, Version, None
<1>3. NewsInv /\ Waits /\ [Next]_vars => Waits' \/ InWrite' \/ Served(c)'
  BY <1>2, NewsStep
<1>4. NewsInv /\ InWrite /\ [Next]_vars => InWrite' \/ Served(c)'
  BY NewsStep
<1>5. NewsInv /\ Waits /\ <<Throttle(c)>>_vars => InWrite' \/ Served(c)'
  <2> SUFFICES ASSUME NewsInv, Waits, Throttle(c), [Next]_vars PROVE InWrite' \/ Served(c)'
    BY DEF Next, HandleEvents
  <2>1. handler'[c] = "write"
    BY DEF Throttle, MoveHandler, NewsInv, OrderInv, TypeOK
  <2> QED
    BY <1>3, <2>1
<1>6. NewsInv /\ InWrite /\ <<WriteDone(c)>>_vars => Served(c)'
  <2> SUFFICES ASSUME NewsInv, InWrite, WriteDone(c), [Next]_vars PROVE Served(c)'
    BY DEF Next, HandleEvents
  <2>1. handler'[c] = "selecting"
    BY DEF WriteDone, MoveHandler, NewsInv, OrderInv, TypeOK
  <2> QED
    BY <1>4, <2>1
<1>7. /\ NeverBlocked /\ Waits => ENABLED <<Throttle(c)>>_vars
      /\ NeverBlocked /\ InWrite => ENABLED <<WriteDone(c)>>_vars
  BY DEF NeverBlocked, Version, None
<1> HIDE DEF Waits, InWrite
<1> QED
  BY <1>1, <1>3, <1>4, <1>5, <1>6, <1>7, NewsInvHolds, PTL DEF GoesOn, Spec, StreamFairness

(* A snapshot that was published reaches every browser that stays connected:   *)
(* an older one in the channel is taken out, the next poll finds room, and     *)
(* what it puts there is taken, written and shown (store.go:53-75,             *)
(* handlers.go:99-131).                                                        *)
THEOREM NewsComes == FairSpec /\ []NeverBlocked => NewsArrives
<1> SUFFICES ASSUME NEW c \in Streams
             PROVE  FairSpec /\ []NeverBlocked
                       => (online[c] /\ current = MaxVersion)
                             ~> (shown[c] = MaxVersion \/ ~online[c])
  BY DEF NewsArrives
<1> DEFINE Old  == Version \ {None, MaxVersion}
           Newest == {MaxVersion}
<1>1. Fairness => PollFairness /\ StreamFairness(c)
  BY DEF Fairness
<1>2. Old \in SUBSET (Version \ {None}) /\ Newest \in SUBSET (Version \ {None})
  BY DEF Version, None
<1>3. GoesOn(c) => Taken(c, Old) /\ Taken(c, Newest)
  BY <1>2, ChannelEmptied
<1>4. NewsInv => chan[c] = None \/ chan[c] \in Old \/ chan[c] = MaxVersion
  BY DEF NewsInv, OrderInv, TypeOK
<1>5. chan[c] = MaxVersion <=> chan[c] \in Newest
  OBVIOUS
<1>6. pending[c] \in Newest => pending[c] = MaxVersion
  OBVIOUS
<1>7. online[c] /\ current = MaxVersion => Awaits(c) \/ Served(c)
  BY DEF Awaits, Served
<1>8. Served(c) => shown[c] = MaxVersion \/ ~online[c]
  BY DEF Served
<1> HIDE DEF Old, Newest
<1> QED
  BY <1>1, <1>3, <1>4, <1>5, <1>6, <1>7, <1>8, ComesToLoop, ChannelFilled, PendingShown,
     NewsInvHolds, PTL DEF FairSpec, GoesOn, Taken

=============================================================================
