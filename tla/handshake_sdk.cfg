\* One room, one registration, a client of an SDK.
SPECIFICATION FairSpec
CONSTANTS
    r1 = r1
    r2 = r2
    None = None
    Rooms <- MCFirst
    MaxSessions = 1
    MaxDelay = 2
    Kinds = {"python", "js"}
    Trickle = {}
    Leavers <- MCFirst
PROPERTIES
    DescriptionsExchanged
CHECK_DEADLOCK FALSE
