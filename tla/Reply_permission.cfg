CONSTANTS
    Callers = {"c", "d"}
    Sessions = {"s"}
    Digit = {"d"}
    Lens <- MCLens
SPECIFICATION FairSpec
PROPERTY PermissionNeverAnswered
