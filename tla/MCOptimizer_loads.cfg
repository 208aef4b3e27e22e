SPECIFICATION Spec
CONSTANTS
    LastReg = 2
    Modulus = 128
    Compute <- Hash
    StartStates <- OneState
    Blocks <- LoadBlocks
INVARIANTS
    RewrittenAgrees
\* The optimizer ends when the block has been rebuilt.
CHECK_DEADLOCK FALSE
