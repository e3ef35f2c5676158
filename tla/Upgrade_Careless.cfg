\* Binaries are exchanged at will; the upgrade adds no stores, as v2.Upgrade.
CONSTANTS
    Added = {}
    Legacy = FALSE
    Careful = FALSE
    MaxHeight = 3
    MaxCrashes = 2
SPECIFICATION Spec
PROPERTIES
    NeverTooEarly
    NeverDowngraded
    AppliedInItsBlock
