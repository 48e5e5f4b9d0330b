SPECIFICATION Spec
CONSTANTS
    WorkerId = {1}
    Queue = {1, 2, 3, 4, 5}
    Capacity = 1
    None = None
INVARIANTS
    TypeOK
    
    OneQueue
PROPERTIES
    SendsReturn
    EndedForgotten
