------------------------------- MODULE MCScan -------------------------------
(* Instances of Scan for TLC. *)
EXTENDS Scan

(* A repository with a linked worktree "wt" inside its main checkout, and a
   directory outside of it. *)
MCPath      == [tmp |-> <<"tmp">>, wt |-> <<"repo", "wt">>]
MCWorktrees == <<<<"repo">>, <<"repo", "wt">>>>

(* A pane with a shell (process 2), outside; and a pane that runs claude 13
   directly, in the linked worktree. *)
MCPids     == <<2, 11, 12, 13>>
MCPanePid  == <<2, 13>>
MCPanePath == <<"tmp", "wt">>

=============================================================================
