\* The same instance, one chain: the withdrawal loop against its comment.
CONSTANTS
    Val = {1, 2}
    Del = {1, 2}
    MaxValidators = 1
    Stake = 2
    Reward = 2
    Commission = 6
    Unit = 12
    MaxPeriod = 7
    MaxHeight = 2
    MaxOps = 2
    MaxGen = 1
SPECIFICATION Spec
INVARIANTS
    WithdrawalLoopCompletes
