CONSTANTS
    Radix = 4
    FieldLI = 64
    Inputs <- LoaderInputs
    Lookups <- SomeAddresses

SPECIFICATION FairSpec

INVARIANTS
    TypeOK
    CachedRegionIsLive
    ExecutableWordsAreReadable

PROPERTIES
    ReadsAreStable
    LinksImages

\* Loading ends the program when it fails.
CHECK_DEADLOCK FALSE
