\* Up to two nodes, at the end of a byte's range, three calls, one failure, of
\* which any of the files may be left.
CONSTANTS
    MaxNodes = 2
    StartIP = 255
    MaxCalls = 3
    MaxFailures = 1
SPECIFICATION FairSpec
INVARIANTS
    TypeOK
    SuccessIsOneNetwork
    NoMixedGenesis
    OnlyStaleGenTxsRefused
    KeysOfGenesisKept

    
