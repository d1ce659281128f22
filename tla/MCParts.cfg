SPECIFICATION PartsSpec
CONSTANTS
    E = 1024
    Words = 5
    Places <- SomePlaces
    Beyond = {165}
    Task = {t1, t2}
    None = None
    Device = {flash, crypto}
    NandPage = 2
    Sector = 4
    BlockPages = 2
    Size = 12
    Requests <- SomeRequests
    MaxCalls = 2
    Client = {a, b}
    NoClient = NoClient
    Rows = 2
    Width = 2
    PoolStart = 7
    PoolEnd = 9
    Local = 1
    Timer = {x, y}
    Handle = {h1, h2}
    NoHandle = NoHandle
    Version = {v1, v2}
    NoVersion = NoVersion
    Small = Small
    Big = Big
    Room = 2
    Commands = {"clear", "recover"}
    Length = 2
    Copies = 2
    Blocks = 5
    MaxFails = 1
    Streams = 2
    Blocking = TRUE
    MaxStarts = 1
    MaxSetups = 2
    MaxTokens = 2
SYMMETRY Alike
INVARIANTS
    TypesOK
    WriteIsWhole
    ReadIsExact
    OneHolder
    NoSharedAddress
    RecordedIsMarked
    NoDeadHandle
    QuietIsQuiet
    OneEntry
    NoTornImage
    SomeImageBoots
    SuccessIsBootable
    SendsInSession
    NoLostWakeup
PROPERTIES
    WritesOneEntry
    ClearLeavesOneNibble
    RenewKeepsAddress
