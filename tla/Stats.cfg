SPECIFICATION Spec
CONSTANTS
    List = {l1, l2}
    Length = {1, 2}
    Period = 1
    MaxInt = 1
    MaxBytes = 2
CHECK_DEADLOCK FALSE
INVARIANTS
    TypeOK
    WorkerBytesConserved
    ListBytesBounded
PROPERTIES
    StatsEnds
    RatedAgain
