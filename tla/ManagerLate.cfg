SPECIFICATION Spec
CONSTANTS
    Type = {fwd, rtcp}
    Unstopped = {rtcp}
    SrcId = {1, 2}
    IP = {ip1}
    Port = {1, 2}
    Occupied = {}
    MaxWorkers = 3
    Pool = {w1, w2, w3}
    QueueSize = 2
    None = None
INVARIANT
    AddedIsServed
