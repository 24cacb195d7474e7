CONSTANTS
    Repos = {"a", "b"}
    Supervised = {"s"}
    Paned = {"p"}
    TmuxEvery = 2
    GitEvery = 3
    MaxPause = 2
    Pauses <- MCPauses
    Horizon = 5
    Setups <- MCSetups
SPECIFICATION Spec
PROPERTY NeverAllDumped
