SPECIFICATION Spec
CONSTANTS
    AccountSpecs <- MCAccounts
    TransferSpecs <- MCTransfers
    MaxBatch = 2
    ClockValues = {1, 4}
    IdMax = 9
    AmountMax = 2
    TimestampMax = 9
INVARIANTS
    TypeOK
    BalanceConstraints
    TotalsFit
    BalancesReplayTransfers
    ExpiryIndexExact
    BurnedNeverCreated
    SettledOnce
    ClosedByClosingPending
    TimestampsUnique
    RepliesMatchEffects
    RetryIsExists
PROPERTIES
    AppendOnly
