SPECIFICATION ServiceSpec
CONSTANTS
    NoBucket = NoBucket
    NoOne = NoOne
    Dead = Dead
    NoRequest = NoRequest
    NoReply = NoReply
    Absent = Absent
    Garbage = Garbage
    a1 = a1
    a2 = a2
    i1 = i1
    ip = ip
    sub = sub
    PublicIds = {ip}
    ProtectedIds = {sub}
    Public <- OneSecond
    Protected <- ZeroReset
    Domains <- MCDomains
    U32Max = 0
    Second = 2
    Instances = {i1}
    Requests = {a1, a2}
    Home <- MCHome
    HttpRequests <- MCHttpRequests
    EnvoyRequests <- MCEnvoyRequests
    CleanupEnabled = TRUE
    Interval = 1
    Failures = {}
    Disconnects = TRUE
    Crashes = {i1}
    Terminations = {}
    MaxTime = 3
    MaxLag = 0
    SpentCap = 0
    LateCap = 0
    FreeCap = 0
INVARIANTS
    ServiceTypeOK
PROPERTIES
    OwnersCharged
    TokensBuyAnswers
    WaitIsTold
SYMMETRY Alike
