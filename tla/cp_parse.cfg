\* Every kind of entry, every cut of the file, every size up to the wrap.
SPECIFICATION Spec
CONSTANTS
    UInt32 = 1000
    UInt16 = 4
    Garbage <- GarbageTags
    Lens <- WideLens
    Sizes = {0, 1, 2, 3}
    MajorVersions = {51, 52}
    Entries <- WideEntries
    EarlierTexts <- TwoTexts
INVARIANTS
    TypeOK
    AssertsOnlyOnWrap
PROPERTIES
    LeavesBufferOnlyAfterClass
    EveryStepMovesOn
    Terminates
