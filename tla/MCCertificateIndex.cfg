SPECIFICATION IndexFairSpec
CONSTANTS
    Hashes = {h1}
    NoDocument = noDocument
    Confirmations = 2
    EventChunkSize = 1
    ReorgDepth = 3
    MaxBlocks = 4
    MaxForks = 3
INVARIANTS
    IndexTypeOK
    ListedUnlessDeep
    ReadyCoversCheckpoint
PROPERTIES
    IndexCatchesUp
    ListingIsFresh
