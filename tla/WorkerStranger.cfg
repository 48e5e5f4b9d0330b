SPECIFICATION Spec
CONSTANTS
    IP = {ip1, ip2}
    Port = {1, 2}
    Occupied = {}
    Fd = {5, 6}
    SrcId = {0, 1}
    DestId = {1, 2}
    DestAddr = {d1}
    FreshSrcIds = FALSE
    Absent = Absent
    Null = Null
    NoPacket = NoPacket
INVARIANT
    StrangersNotForwarded
