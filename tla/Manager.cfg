SPECIFICATION Spec
CONSTANTS
    Type = {fwd, rtcp}
    Unstopped = {rtcp}
    SrcId = {1, 2}
    IP = {ip1}
    Port = {1, 2, 3}
    Occupied = {3}
    MaxWorkers = 3
    Pool = {w1, w2}
    QueueSize = 2
    None = None
INVARIANTS
    TypeOK
    
    
    WorkersKnown
    SourcesServed
PROPERTIES
    
    StoppedForgotten
