SPECIFICATION Spec
CONSTANTS
    Conn = {k1, k2}
    Parts = 2
    MaxSent = 3
    Backlog = 2
    First = 100
    Last = 102
    SrcAddr = {a, b}
    Occupied = {b}
    DestAddr = {d}
    MaxFd = 4
    None = None
INVARIANTS
    TypeOK
    
    AnswerMeansDone
    EndsForCause
PROPERTIES
    Answered
CHECK_DEADLOCK FALSE
