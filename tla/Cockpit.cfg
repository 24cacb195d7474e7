CONSTANTS
    Hits <- MCHits
    Snaps <- MCSnaps
    Queries <- MCQueries
    Sizes <- MCSizes
SPECIFICATION FairSpec
INVARIANTS
    TypeOK
    CursorOnSession
    ListedOnce
    SelectedVisible
    OneSpinner
PROPERTIES
    SentAsMeant
    PreviewCatchesUp
CHECK_DEADLOCK FALSE
