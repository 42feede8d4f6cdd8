CONSTANTS
    a = a
    b = b
    a1 = a1
    a2 = a2
    b1 = b1
    Uuid = {a, b}
    NoUuid = NoUuid
    Socket = {a1, a2, b1}
    NoSocket = NoSocket
    UuidOf <- MCUuidOf
    Late = {b1}
    Asked = {a}
    WsPath = {2}
    MaxRequest = 2
SPECIFICATION FairSpec
INVARIANTS OwnOpenhabWrites NoAbandonedWork TunnelServed TrackedIsWritable
PROPERTIES UnservedIsReclaimed
