\* Nodes with names of their own: load, capacity and registration.
SPECIFICATION Spec
CONSTANTS
    s1 = s1
    s2 = s2
    s3 = s3
    s4 = s4
    n1 = n1
    n2 = n2
    r1 = r1
    r2 = r2
    r3 = r3
    KeyId = KeyId
    None = None
    Conns <- MCConns4
    Names <- MCNames
    RoomIds <- MCRooms3
    MaxLoads = {1, 2}
    OwnNames = TRUE
SYMMETRY MCSymmetry
INVARIANTS
    LoadIsRooms
PROPERTIES
    CapacityRespected
    OnlyOwnHandlerUnregisters
CHECK_DEADLOCK FALSE
