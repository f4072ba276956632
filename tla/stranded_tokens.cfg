SPECIFICATION Spec
CONSTANTS
    NoBucket = NoBucket
    NoOne = NoOne
    Dead = Dead
    a1 = a1
    a2 = a2
    a3 = a3
    b1 = b1
    i1 = i1
    i2 = i2
    PublicIds = {ip}
    ProtectedIds = {}
    Public <- OneLease
    Protected <- OneLease
    Instances = {i1}
    Requests = {a1, a2}
    Home <- MCHome
    CleanupEnabled = TRUE
    Interval = 1
    Failures = {}
    Disconnects = FALSE
    Crashes = {}
    Terminations = {}
    MaxTime = 2
    MaxLag = 0
    SpentCap = 0
    LateCap = 0
    FreeCap = 0
PROPERTIES
    HoldersServe
