\* Two models, one with a slash in its name, a modelfile, a pull by the server
\* and one by the command line, any number of renames, deletions and copies.
SPECIFICATION Spec
CONSTANTS
    plain = plain
    slashed = slashed
    dashed = dashed
    f1 = f1
    a1 = a1
    c1 = c1
    NoSource = NoSource
    None = None
    Names <- MCNames
    Dir <- MCDir
    Siblings <- MCSiblings
    Modelfiles <- MCModelfiles
    ApiPulls <- MCApiPulls
    CliPulls <- MCCliPulls
    Blocks = 2
INVARIANTS
    TypeOK
    SourceWasPulled
PROPERTIES
    PulledIsWhole
    RenameKeepsModels
CHECK_DEADLOCK FALSE
