CONSTANTS
    MaxAddr = 8
    Exec <- RunExec
    SectionStarts <- RunStarts
    Images <- LeavingImages
    EntryPoint = 1
    LocalRange = 4
    MaxDepth = 3

SPECIFICATION GeneratedSpec

PROPERTY ReturnsGoWhereLrSays

\* The run ends with the host, and at MaxDepth.
CHECK_DEADLOCK FALSE
