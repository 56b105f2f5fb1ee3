SPECIFICATION AppSpec
CONSTANTS
    Accounts = {admin, w1}
    Deployer = admin
    ZeroAddress = zeroAddress
    Hashes = {h1, h2}
    ZeroHash = zeroHash
    MaxTime = 1
    MaxEvents = 3
    Institutions = {i1, i2}
    NoInstitution = noInstitution
    Requests = {r1, r2}
    NoRequest = noRequest
    Calls = {c1, c2}
    MaxAttempts = 3
SYMMETRY Symmetry
INVARIANTS
    AppTypeOK
    RolesExclusive
    NoSelfIssuance
    OneRequestPerHash
    AssignmentsBacked
    MinedIsRecordable
PROPERTY RefinesWorkflow
CHECK_DEADLOCK FALSE
