SPECIFICATION RtcpSpec
CONSTANTS
    IP = {ip1, ip2}
    Port = {2, 3, 4, 5, 6}
    Occupied = {5}
    Fd = {5, 6, 7, 8, 9}
    SrcId = {1, 2, 3, 4}
    DestId = {1, 2}
    DestAddr = {20, 21}
    FreshSrcIds = TRUE
    Absent = Absent
    Null = Null
    NoPacket = NoPacket
    BaseId = {1, 2, 3}
    BasePort = {2, 3, 4}
    BaseDestId = {1}
    BaseDestAddr = {20}
    MaxListeners = 3
CHECK_DEADLOCK FALSE
CONSTRAINT
    BoundedListeners
INVARIANTS
    RtcpTypeOK
    
    PairsComplete
    PortsExact
PROPERTIES
    ImplementsPairs
