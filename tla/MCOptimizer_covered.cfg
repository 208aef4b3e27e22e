SPECIFICATION Spec
CONSTANTS
    LastReg = 2
    Modulus = 128
    Compute <- Hash
    StartStates <- OneState
    Blocks <- CoveredBlocks
INVARIANTS
    TypeOK
    KnownValuesAreCurrent
    RewrittenAgrees
    PendingWritesAreUnread
    OptimizedAgrees
\* The optimizer ends when the block has been rebuilt.
CHECK_DEADLOCK FALSE
