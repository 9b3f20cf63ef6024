\* Every operation, forced unloads and dropped streams included; three entries are made.
SPECIFICATION FairSpec
CONSTANTS
    m1 = m1
    m2 = m2
    m3 = m3
    c1 = c1
    c2 = c2
    c3 = c3
    g1 = g1
    g2 = g2
    e1 = e1
    None = None
    Models <- MCModels
    Chat <- MCChat
    Generate <- MCGenerate
    Embed <- MCEmbed
    MaxConcurrent = 1
    MaxQueue = 2
    MaxLoaded = 1
    MaxEntries = 3
    CanUnload = TRUE
    CanDrop = TRUE
INVARIANTS
    TypeOK
    LoadedBound
    OpenIffRegistered
    NoLeakedReference
PROPERTIES
    QueuesImplementInferenceQueue
    RequestsEnd
CHECK_DEADLOCK FALSE
