\* Two rooms, two registrations; clients by docs/protocol.md and of the Python SDK.
SPECIFICATION FairSpec
CONSTANTS
    r1 = r1
    r2 = r2
    None = None
    Rooms <- MCRooms
    MaxSessions = 2
    MaxDelay = 2
    Kinds = {"offering", "python"}
    Trickle <- MCFirst
    Leavers <- MCSecond
INVARIANTS
    TypeOK
    NoTimerForAnswered
    CandidateFindsPeer
PROPERTIES
    HandshakeSettles
    PeersFreed
CHECK_DEADLOCK FALSE
