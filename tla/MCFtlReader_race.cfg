SPECIFICATION ReaderSpec
CONSTANTS
    N = 3
    E = 6
    SeqMod = 4
    a1 = a1
    a2 = a2
    v0 = v0
    v1 = v1
    v2 = v2
    Addr = {a1, a2}
    Value = {v0, v1, v2}
    Saves <- OneVaries
    Blank = Blank
    None = None
    Requests = {"save", "collect"}
    GcPages = {0, 1}
    GcCells = {4}
    TornCrash = FALSE
    ClearCrash = FALSE
    Cuts = {}
    EraseFaults = FALSE
INVARIANTS
    LoadIsNeverWrong
