CONSTANTS
    MaxAddr = 5
    Exec <- SeamExec
    SectionStarts <- SeamStarts
    Images <- SeamImages
    EntryPoint = 1
    LocalRange = 4

SPECIFICATION Spec

INVARIANT EveryReachedBlockListed
