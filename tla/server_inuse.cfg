\* No forced unloads: an engine in use stays open.
SPECIFICATION Spec
CONSTANTS
    m1 = m1
    m2 = m2
    m3 = m3
    c1 = c1
    c2 = c2
    c3 = c3
    g1 = g1
    g2 = g2
    e1 = e1
    None = None
    Models <- MCModels3
    Chat <- MCChat3
    Generate <- MCGenerate
    Embed <- MCEmbed
    MaxConcurrent = 1
    MaxQueue = 0
    MaxLoaded = 2
    MaxEntries = 4
    CanUnload = FALSE
    CanDrop = TRUE
SYMMETRY MCSymmetry
INVARIANTS
    UsersKeepEngineOpen
    IdleIsUnused
CHECK_DEADLOCK FALSE
