\* A forced unload, a reload, and the release of a handler that began before.
SPECIFICATION Spec
CONSTANTS
    m1 = m1
    m2 = m2
    m3 = m3
    c1 = c1
    c2 = c2
    c3 = c3
    g1 = g1
    g2 = g2
    e1 = e1
    None = None
    Models <- MCModels
    Chat <- MCChat
    Generate <- MCGenerate
    Embed <- MCEmbed
    MaxConcurrent = 1
    MaxQueue = 1
    MaxLoaded = 1
    MaxEntries = 4
    CanUnload = TRUE
    CanDrop = FALSE
INVARIANTS
    IdleIsUnused
CHECK_DEADLOCK FALSE
