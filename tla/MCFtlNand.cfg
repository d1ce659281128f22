SPECIFICATION Spec
CONSTANTS
    D = 2
    R = 2
    T = 2
    P = 2
    Offsets = {0}
    Val = {v1}
    Words = {v1}
    Blank = blank
    Junk = junk
    Unknown = unknown
    FactoryBad = {1}
    Breakable = {0, 2, 4}
    TagFails = FALSE
    FTL_MAX_RETRY = 2
INVARIANTS
    TypeOK
    NoSharedReserve
    WritesGoodBlocks
    ReadsBack
    BadBlocksSurvive
