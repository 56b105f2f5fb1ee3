SPECIFICATION GatewaySpec
CONSTANTS
    Names = {n1}
    Hashes = {h1}
    MaxOperations = 2
    MaxTransactions = 2
SYMMETRY Symmetry
INVARIANTS
    OneTransactionPerRequest
