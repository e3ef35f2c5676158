CONSTANTS
    User = {alice, bob}
    Funds = 2
    Inflation = 1
    InvCheckPeriod = 1
    SkipGenesisInvariants = FALSE
    MaxHeight = 2
    MaxOps = 2
    MaxGen = 2
SPECIFICATION Spec
INVARIANTS
    TypeOK
    InvariantsHold
    PanicsExplained
PROPERTY AllAllocated
