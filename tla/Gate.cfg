CONSTANTS
    Slots <- MCSlots
    Kids <- MCKids
    Routes = {"stop"}
    ActionsEnabled = TRUE
    PerMinute = 1
    Minute = 2
    FetchTimeout = 1
    MinRefetch = 2
    Hour = 3
SPECIFICATION FairSpec
INVARIANTS
    TypeOK
    RateBound
    KnownKeyHonoured
PROPERTIES
    RotatedKeyArrives
