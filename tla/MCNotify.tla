------------------------------ MODULE MCNotify ------------------------------
(* Instances of Notify for TLC. *)
EXTENDS Notify

Plain(s) == [state |-> s, waiting |-> FALSE]

(* A session that works, one that needs input, one that is done.            *)
MCObserved == {Plain("working"), Plain("blocked"), Plain("done")}

=============================================================================
