SPECIFICATION Spec
CONSTANTS
    NoBucket = NoBucket
    NoOne = NoOne
    Dead = Dead
    a1 = a1
    a2 = a2
    a3 = a3
    b1 = b1
    i1 = i1
    i2 = i2
    PublicIds = {ip}
    ProtectedIds = {}
    Public <- OneToken
    Protected <- OneToken
    Instances = {i1, i2}
    Requests = {a1, b1}
    Home <- MCHome
    CleanupEnabled = TRUE
    Interval = 1
    Failures = {i1}
    Disconnects = FALSE
    Crashes = {}
    Terminations = {i1}
    MaxTime = 3
    MaxLag = 0
    SpentCap = 1
    LateCap = 0
    FreeCap = 0
INVARIANTS
    TokensConserved
    ReturnsBounded
PROPERTIES
    KeepsLedger
