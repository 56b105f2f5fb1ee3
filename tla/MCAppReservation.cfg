SPECIFICATION AppFairSpec
CONSTANTS
    Accounts = {admin, w1}
    Deployer = admin
    ZeroAddress = zeroAddress
    Hashes = {h1}
    ZeroHash = zeroHash
    MaxTime = 1
    MaxEvents = 3
    Institutions = {i1}
    NoInstitution = noInstitution
    Requests = {r1}
    NoRequest = noRequest
    Calls = {c1}
    MaxAttempts = 2
PROPERTY ReservationRecoverable
CHECK_DEADLOCK FALSE
