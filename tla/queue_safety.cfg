\* Four chat and two generate requests share one queue of two slots and a
\* deque of three futures, so that stale futures can swallow releases; liveness too.
SPECIFICATION FairSpec
CONSTANTS
    c1 = c1
    c2 = c2
    c3 = c3
    c4 = c4
    g1 = g1
    g2 = g2
    g3 = g3
    Chat <- MCChat
    Generate <- MCGenerate
    MaxConcurrent = 2
    MaxQueue = 3
    CanFail = TRUE
    CanDrop = TRUE
INVARIANTS
    TypeOK
    SlotConservation
    ActiveAtMostHolders
    NoSlotLost
    WaitersAreQueued
    WaiterHasWaker
PROPERTIES
    WokenInOrder
    WaiterServed
CHECK_DEADLOCK FALSE
