--------------------------- MODULE MCSnapshotStore ---------------------------
(* Instances of SnapshotStore for TLC: StreamCount browsers. *)
EXTENDS SnapshotStore

CONSTANT StreamCount

MCStreams == 1..StreamCount

=============================================================================
