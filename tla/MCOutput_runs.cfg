CONSTANTS
    Programs <- TwoPrograms
    FunctionCount <- Sizes
    BatchSize = 2
    Hooks = {hook}
    InitialTexts <- Directories
    MaxRuns = 3
    MaxCrashes = 1
    MaxFailures = 1
    MaxEdits = 2

SPECIFICATION Spec

INVARIANTS
    TypeOK
    OutputIsOneProgram
    NoHunkTwice
    HunksHaveTheirNeeds
    UserHooksKept
    PatchedTextsSettle

\* The tool may not be run again.
CHECK_DEADLOCK FALSE
