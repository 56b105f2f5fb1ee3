SPECIFICATION VerificationSpec
CONSTANTS
    Hashes = {h1, h2}
    NULL = null
    Confirmations = 1
    EventChunkSize = 1
    EventMaxRange = 2
    MaxBlocks = 3
    Slots = {s1, s2}
    MaxEntries = 1
SYMMETRY Symmetry
INVARIANTS
    VerificationTypeOK
    AnswersAgree
    EventsExact
    ProofsAreTrue
    ProofsAreNamed
