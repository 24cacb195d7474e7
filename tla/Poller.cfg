CONSTANTS
    Repos = {"a"}
    Supervised = {"s"}
    Paned = {"p"}
    TmuxEvery = 2
    GitEvery = 3
    MaxPause = 2
    Pauses <- MCPauses
    Horizon = 5
    Setups <- MCOneRepoSetups
SPECIFICATION FairSpec
INVARIANTS
    TypeOK
    HealthTellsData
    OldMeansFailed
PROPERTIES
    KeptThroughFailure
    SettlesAccurate
