CONSTANTS
    Callers = {"c", "d"}
    Sessions = {"s"}
    Digit = {"d"}
    Lens <- MCLens
SPECIFICATION FairSpec
INVARIANTS
    TypeOK
    AnswerTells
    WindowGone
PROPERTIES
    EveryCallEnds
