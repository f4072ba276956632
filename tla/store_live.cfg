SPECIFICATION FairSpec
CONSTANTS
    NoBucket = NoBucket
    NoOne = NoOne
    Dead = Dead
    a1 = a1
    a2 = a2
    a3 = a3
    b1 = b1
    i1 = i1
    i2 = i2
    PublicIds = {}
    ProtectedIds = {sub}
    Public <- OneToken
    Protected <- OneToken
    Instances = {i1}
    Requests = {a1, a2}
    Home <- MCHome
    CleanupEnabled = TRUE
    Interval = 1
    Failures = {i1}
    Disconnects = FALSE
    Crashes = {}
    Terminations = {i1}
    MaxTime = 3
    MaxLag = 0
    SpentCap = 0
    LateCap = 0
    FreeCap = 0
PROPERTIES
    InstancesStopInOrder
    FlightEnds
    WaitersWoken
    ExpiredDropped
    CleanupCompletes
\* A drained instance whose last request waits for a wakeup that was lost
\* never exits (see lost_wakeup), and the clock stops at MaxTime.
CHECK_DEADLOCK FALSE
