SPECIFICATION ReadsSpec
CONSTANTS
    Hashes = {h1}
    NULL = null
    Confirmations = 1
    EventChunkSize = 2
    EventMaxRange = 3
    MaxBlocks = 6
    Slots = {s1}
INVARIANTS
    DefaultRangeServed
