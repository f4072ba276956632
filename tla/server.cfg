SPECIFICATION FairSpec
CONSTANTS
    Unset = Unset
    MaxInflight = 2
INVARIANTS
    TypeOK
    CommandNotLost
PROPERTIES
    StopsInOrder
    LeavingEnds
CHECK_DEADLOCK FALSE
