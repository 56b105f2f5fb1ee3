SPECIFICATION DeploymentFairSpec
CONSTANTS
    NoNonce = noNonce
    Existing = 1
    MaxNonce = 3
INVARIANTS
    DeploymentTypeOK
    DeployedOnce
    ServicesAgree
    EvidenceIsTrue
PROPERTIES
    RecordKept
    RecordedIsConfigured
