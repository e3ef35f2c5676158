\* Two transfers of two coins with up to one retry, quotas of two but for what
\* leaves to C, and fees on the channel with A or not.
CONSTANTS
    Homes = {"A", "B"}
    FeeEnabled = {"A"}
    Funds = 2
    Amount = {2}
    MaxSend <- MCMaxSend
    MaxRecv <- MCMaxRecv
    MaxRetries = 1
    MaxTransfers = 2
SPECIFICATION MCSpec
INVARIANTS
    TypeOK
    Backed
    QuotaHolds
PROPERTIES
    Promised
