CONSTANTS
    Callers <- MCCallers
    Branches <- MCBranches
    Dirs <- MCDirs
    SlugForBranch <- MCSlug
SPECIFICATION Spec
INVARIANTS
    TypeOK
    RunsInWorktree
    RefusedForCause
