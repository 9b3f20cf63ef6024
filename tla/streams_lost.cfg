\* The same requests, answered by litert_ollama: a chunk may come when nobody waits.
SPECIFICATION Spec
CONSTANTS
    p1 = p1
    p2 = p2
    j1 = j1
    Python <- MCPython
    Js <- MCJs
    Chunks = 3
    MaxStreams = 1
    Servers = {"litert_ollama"}
INVARIANTS
    DoneMeansAll
CHECK_DEADLOCK FALSE
