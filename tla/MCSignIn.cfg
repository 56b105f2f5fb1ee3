SPECIFICATION SignInSpec
CONSTANTS
    Tabs = {t1, t2}
    Accounts = {alice, bob}
    NULL = null
    MaxSignIns = 2
    MaxRotations = 1
    MaxCalls = 3
SYMMETRY MCSymmetry
INVARIANTS
    SignInTypeOK
    ActsAsShown
    OneSessionPerSignature
