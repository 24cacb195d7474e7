---------------------------- MODULE SnapshotFeed ----------------------------
(***************************************************************************)
(* What the live stream of fleet snapshots promises a client, whatever    *)
(* buffers, goroutines and locks lie between the poller and the browser:  *)
(* the client is shown nothing that was not published, and what it shows  *)
(* never goes back to an older snapshot of the same daemon.               *)
(***************************************************************************)
EXTENDS Naturals

CONSTANTS Streams      \* the clients (one SSE stream each)

VARIABLES published,   \* number of the newest published snapshot, 0 for none
          shown        \* shown[c]: what client c has on its screen, 0 for nothing

feedVars == <<published, shown>>

FeedInit ==
    /\ published = 0
    /\ shown = [c \in Streams |-> 0]

(* A newer snapshot becomes available. *)
Publish ==
    /\ published' = published + 1
    /\ UNCHANGED shown

(* Client c is brought forward to some published snapshot. *)
Deliver(c) ==
    /\ \E v \in shown[c]..published : shown' = [shown EXCEPT ![c] = v]
    /\ UNCHANGED published

(* A new daemon numbers its snapshots from the beginning. *)
StartOver ==
    /\ published' = 0
    /\ shown' = [c \in Streams |-> 0]

FeedNext ==
    \/ Publish
    \/ \E c \in Streams : Deliver(c)
    \/ StartOver

Feed == FeedInit /\ [][FeedNext]_feedVars

=============================================================================
