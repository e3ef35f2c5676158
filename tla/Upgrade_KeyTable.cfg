\* The old binary is of an older SDK, and the operator is careful.
CONSTANTS
    Added = {}
    Legacy = TRUE
    Careful = TRUE
    MaxHeight = 3
    MaxCrashes = 1
SPECIFICATION Spec
INVARIANT MigrationNeverPanics
