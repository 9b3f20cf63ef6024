\* Nodes that reconnect, share names and carry the key: the registry's own
\* consistency, and what a lost connection leaves.
SPECIFICATION FairSpec
CONSTANTS
    s1 = s1
    s2 = s2
    s3 = s3
    s4 = s4
    n1 = n1
    n2 = n2
    r1 = r1
    r2 = r2
    r3 = r3
    KeyId = KeyId
    None = None
    Conns <- MCConns
    Names <- MCNames
    RoomIds <- MCRooms
    MaxLoads = {1}
    OwnNames = FALSE
INVARIANTS
    TypeOK
    RoomHasNode
    RoomHasClient
    NodeHasHandler
PROPERTIES
    LostIsForgotten
CHECK_DEADLOCK FALSE
