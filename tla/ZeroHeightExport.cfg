\* Two validators, their operators, who are the delegators; two chains in a row.
CONSTANTS
    Val = {1, 2}
    Del = {1, 2}
    MaxValidators = 1
    Stake = 2
    Reward = 2
    Commission = 6
    Unit = 12
    MaxPeriod = 7
    MaxHeight = 2
    MaxOps = 2
    MaxGen = 2
SPECIFICATION Spec
INVARIANTS
    TypeOK
    OneReferrer
    ReferenceCounts
    ModuleAccount
    CanWithdraw
    WithdrawalsNeverPanic
    PanicsExplained
    FreshStart
PROPERTIES
    UnslashedPaidInFull
