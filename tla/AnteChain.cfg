\* Two accounts with four coins each and eight transactions, two blocks.
CONSTANTS
    Acct = {"alice", "gov"}
    Admin = "gov"
    Tx <- SomeTx
    Funds = 4
    MinFee = 1
    MaxHeight = 2
    MaxBlock = 3
    MaxPool = 3
SPECIFICATION Spec
INVARIANTS
    TypeOK
    NotTwice
    EverybodyPays
    CountersInOrder
    MempoolInSequence
    NoRedundantRelay
PROPERTIES
    NothingSentWhenTripped
