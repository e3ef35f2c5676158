CONSTANTS
    Plain = {"send"}
    Size = 4
SPECIFICATION Spec
INVARIANTS
    NothingBlockedRuns
    OthersUnhindered
