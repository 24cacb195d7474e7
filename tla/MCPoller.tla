------------------------------ MODULE MCPoller ------------------------------
(* Instances of Poller for TLC. *)
EXTENDS Poller

MCPauses == 1..MaxPause

(* Two repositories: not configured; and both, one of them by a linked
   worktree. *)
MCSetups == {[configured |-> {}, linked |-> {}],
             [configured |-> {"a", "b"}, linked |-> {"b"}]}

(* One repository: not configured, configured by its main checkout, and by a
   linked worktree. *)
MCOneRepoSetups == {[configured |-> {}, linked |-> {}],
                    [configured |-> {"a"}, linked |-> {}],
                    [configured |-> {"a"}, linked |-> {"a"}]}

=============================================================================
