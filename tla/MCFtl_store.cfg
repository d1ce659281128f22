SPECIFICATION Spec
CONSTANTS
    N = 3
    E = 6
    SeqMod = 4
    a1 = a1
    a2 = a2
    a3 = a3
    v0 = v0
    v1 = v1
    v2 = v2
    Addr = {a1, a2}
    Value = {v0, v1, v2}
    Saves <- OneVaries
    Blank = Blank
    None = None
    Requests = {"save", "collect", "clear", "sweep"}
    GcPages = {1}
    GcCells = {4}
    TornCrash = FALSE
    ClearCrash = FALSE
    Cuts = {}
    EraseFaults = FALSE
INVARIANTS
    ReadsAgreeWithLog
PROPERTIES
    StoreSpec
