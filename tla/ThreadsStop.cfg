SPECIFICATION Spec
CONSTANTS
    IP = {ip1}
    Port = {1, 2}
    Fd = {5, 6}
    SrcId = {1, 2}
    MaxAdds = 3
    None = None
    Null = Null
CHECK_DEADLOCK FALSE
PROPERTY
    StopStops
