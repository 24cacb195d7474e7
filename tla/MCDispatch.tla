----------------------------- MODULE MCDispatch -----------------------------
(* Instances of Dispatch for TLC: two branches share a slug. *)
EXTENDS Dispatch

MCCallers  == {"c", "d"}
MCBranches == {"Fix", "fix", "next"}
MCDirs     == {"wt-fix", "wt-next"}
MCSlug     == [b \in MCBranches |-> IF b = "next" THEN "wt-next" ELSE "wt-fix"]
=============================================================================
