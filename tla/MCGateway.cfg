SPECIFICATION GatewayFairSpec
CONSTANTS
    Names = {n1, n2}
    Hashes = {h1}
    MaxOperations = 2
    MaxTransactions = 2
INVARIANTS
    GatewayTypeOK
    UnresolvedRemembered
    OneTransactionIfReadable
    WritesSerialized
    CompletedWasApplied
PROPERTY WritesAnswered
