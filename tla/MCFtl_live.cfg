SPECIFICATION FairSpec
CONSTANTS
    N = 4
    E = 4
    SeqMod = 5
    a1 = a1
    a2 = a2
    a3 = a3
    v0 = v0
    v1 = v1
    v2 = v2
    Addr = {a1, a2}
    Value = {v0, v1, v2}
    Saves <- OneWord
    Blank = Blank
    None = None
    Requests = {"save", "collect", "clear", "sweep"}
    GcPages = {2}
    GcCells = {4}
    TornCrash = FALSE
    ClearCrash = FALSE
    Cuts = {}
    EraseFaults = TRUE
PROPERTIES
    ReturnsToCaller
