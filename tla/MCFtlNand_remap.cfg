SPECIFICATION Spec
CONSTANTS
    D = 2
    R = 2
    T = 2
    P = 1
    Offsets = {0}
    Val = {v1}
    Words = {v1, blank}
    Blank = blank
    Junk = junk
    Unknown = unknown
    FactoryBad = {0, 1}
    Breakable = {0, 2, 4}
    TagFails = FALSE
    FTL_MAX_RETRY = 2
INVARIANTS
    RestartKeepsData
