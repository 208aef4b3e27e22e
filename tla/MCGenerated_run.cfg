CONSTANTS
    MaxAddr = 8
    Exec <- RunExec
    SectionStarts <- RunStarts
    Images <- RunImages
    EntryPoint = 1
    LocalRange = 4
    MaxDepth = 3

SPECIFICATION GeneratedSpec

INVARIANT OpenCallsAreAwaited

PROPERTY FollowsGuest

\* The run ends with the host, and at MaxDepth.
CHECK_DEADLOCK FALSE
