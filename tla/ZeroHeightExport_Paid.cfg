\* The same instance, one chain: what is withdrawn against the comment on it.
CONSTANTS
    Val = {1, 2}
    Del = {1, 2}
    MaxValidators = 1
    Stake = 2
    Reward = 2
    Commission = 6
    Unit = 12
    MaxPeriod = 7
    MaxHeight = 2
    MaxOps = 2
    MaxGen = 1
SPECIFICATION Spec
PROPERTIES
    AllPaidAsInNextBlock
