\* A request of each SDK on one data channel, three chunks each, one stream at
\* a time.
SPECIFICATION FairSpec
CONSTANTS
    p1 = p1
    p2 = p2
    j1 = j1
    Python <- MCPython
    Js <- MCJs
    Chunks = 3
    MaxStreams = 1
    Servers = {"litert_ollama", "other"}
INVARIANTS
    TypeOK
    PermitsConserved
    InOrderOnce
PROPERTIES
    PromptCallersGetAll
    PythonEnds
CHECK_DEADLOCK FALSE
