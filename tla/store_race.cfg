SPECIFICATION Spec
CONSTANTS
    NoBucket = NoBucket
    NoOne = NoOne
    Dead = Dead
    a1 = a1
    a2 = a2
    a3 = a3
    b1 = b1
    i1 = i1
    i2 = i2
    PublicIds = {ip}
    ProtectedIds = {sub}
    Public <- SmallPolicy
    Protected <- ZeroReset
    Instances = {i1}
    Requests = {a1, a2, a3}
    Home <- MCHome
    CleanupEnabled = TRUE
    Interval = 1
    Failures = {}
    Disconnects = FALSE
    Crashes = {}
    Terminations = {}
    MaxTime = 3
    MaxLag = 1
    SpentCap = 4
    LateCap = 0
    FreeCap = 0
INVARIANTS
    TypeOK
    TokensConserved
    SingleFlight
    FollowersMatch
    WithinWindow
    ExhaustedIsTrue
PROPERTIES
    WindowsAdvance
    RetryWithinWindow
SYMMETRY Alike
