CONSTANTS
    Pids <- MCPids
    Claudes = {11, 12, 13}
    PanePid <- MCPanePid
    PanePath <- MCPanePath
    Dirs = {"tmp", "wt"}
    Path <- MCPath
    Worktrees <- MCWorktrees
    Degraded = {12}
SPECIFICATION Spec
INVARIANTS
    TypeOK
    PaneOnce
    SessionOnce
    NobodyMissed
    InteractiveOwnsPane
    BoundToDeepest
