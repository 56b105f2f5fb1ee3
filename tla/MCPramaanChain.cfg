SPECIFICATION ChainSpec
CONSTANTS
    Accounts = {admin, w1, w2}
    Deployer = admin
    ZeroAddress = zeroAddress
    Hashes = {h1, h2}
    ZeroHash = zeroHash
    MaxTime = 3
    MaxEvents = 6
SYMMETRY Symmetry
INVARIANTS
    ChainTypeOK
    RegistryMatchesLog
    IssuedOnceRevokedOnceAfter
    RoleMatchesLog
    IssuedUnderAuthority
    RevokedByIssuerOrAdmin
PROPERTY RefinesLifecycle
CHECK_DEADLOCK FALSE
