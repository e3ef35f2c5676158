\* A careful operator; an upgrade that adds a store.
CONSTANTS
    Added = {"capability"}
    Legacy = FALSE
    Careful = TRUE
    MaxHeight = 3
    MaxCrashes = 2
SPECIFICATION FairSpec
INVARIANTS
    TypeOK
    RightSoftware
    RefusalsExplained
PROPERTIES
    Coordinated
    GetsThrough
