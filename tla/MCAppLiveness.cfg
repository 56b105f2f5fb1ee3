SPECIFICATION AppFairSpec
CONSTANTS
    Accounts = {admin, w1}
    Deployer = admin
    ZeroAddress = zeroAddress
    Hashes = {h1}
    ZeroHash = zeroHash
    MaxTime = 1
    MaxEvents = 4
    Institutions = {i1}
    NoInstitution = noInstitution
    Requests = {r1}
    NoRequest = noRequest
    Calls = {c1}
    MaxAttempts = 2
PROPERTY IssuanceReconciled
CHECK_DEADLOCK FALSE
