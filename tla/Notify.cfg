CONSTANTS
    Keys = {"sup-1"}
    TmuxKeys = {}
    Debounce = 2
    Keep = 3
    Observed <- MCObserved
SPECIFICATION FairSpec
INVARIANTS
    TypeOK
    ToldAtMostOnce
PROPERTIES
    WindowRespected
    NeedNoticed
