CONSTANTS
    MaxAddr = 6
    Exec <- TextWords
    SectionStarts <- TextStarts
    Images <- SmallImages
    EntryPoint = 1
    LocalRange = 2

SPECIFICATION FairSpec

INVARIANTS
    TypeOK
    EverySeedScanned
    EveryFunctionAnalyzed
    EntryLabelExists
    EveryListedBlockBuilt
    NoBlockRunsIntoAFunction
    DispatchLandsOnLabel
    TransfersResolve
    ResumeLabelsExist
    FallThroughReachesNextWord

PROPERTIES
    Explores
    Termination
