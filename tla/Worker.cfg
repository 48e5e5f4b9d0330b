SPECIFICATION Spec
CONSTANTS
    IP = {ip1, ip2}
    Port = {1, 2, 3}
    Occupied = {3}
    Fd = {5, 6}
    SrcId = {1, 2}
    DestId = {1, 2}
    DestAddr = {d1}
    FreshSrcIds = TRUE
    Absent = Absent
    Null = Null
    NoPacket = NoPacket
INVARIANTS
    TypeOK
    RoutingExact
    ListenersExact
    SocketsExact
    DestinationsUnique
PROPERTIES
    Implements
    LastSourceStopsWorker
