CONSTANTS
    Radix = 4
    Operands <- Edges
    RamSize = 16
    Bases <- Windows
    Line = 8
    Owned <- Hooked
    Device = 102
    LastReg = 2
    Contents <- Filled
    Addresses <- Places
    Unit = 128
    Scales <- SomeScales
    Float <- MiniFloat
    Lanes <- SomeLanes
    Types <- SomeTypes
    Gqrs <- SomeGqrs
    Tables <- OneTable
    MemorySize = 16
    Cached = 128
    Uncached = 192
    Capacity = 2
    Callees <- Called
    Budgets <- SomeBudgets

SPECIFICATION Spec

INVARIANTS
    TypeOK
    ChainIsExact
    StoredPairsReadBack
    DumpShowsLatestCalls
    DispatchAnswersByTable

PROPERTY
    MemoryIsBytes

\* The budget runs out.
CHECK_DEADLOCK FALSE
