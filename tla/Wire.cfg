SPECIFICATION FairSpec
CONSTANTS
    Byte = {0, 1, 2}
    Limit = 6
    MaxChunk = 4
    Budget = 3
    MaxPayload = 1
    SocketSize = 2
    MaxPackets = 3
CHECK_DEADLOCK FALSE
INVARIANTS
    StorageBound
    PacketsInOrder
    StreamIsConserved
PROPERTIES
    ImplementsFifo
    PacketsArrive
