SPECIFICATION Spec
CONSTANTS
    NoBucket = NoBucket
    NoOne = NoOne
    Dead = Dead
    a1 = a1
    a2 = a2
    a3 = a3
    b1 = b1
    i1 = i1
    i2 = i2
    PublicIds = {ip}
    ProtectedIds = {}
    Public <- SmallPolicy
    Protected <- SmallPolicy
    Instances = {i1}
    Requests = {a1}
    Home <- MCHome
    CleanupEnabled = TRUE
    Interval = 1
    Failures = {}
    Disconnects = FALSE
    Crashes = {}
    Terminations = {i1}
    MaxTime = 3
    MaxLag = 0
    SpentCap = 4
    LateCap = 4
    FreeCap = 0
INVARIANTS
    SpentWithinQuota
