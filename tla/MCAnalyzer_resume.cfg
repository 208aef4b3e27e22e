CONSTANTS
    MaxAddr = 6
    Exec <- TextWords
    SectionStarts <- TextStarts
    Images <- SwitchImages
    EntryPoint = 1
    LocalRange = 2

SPECIFICATION Spec

INVARIANT NoGotoToMissingLabel
