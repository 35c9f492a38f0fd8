\* Entries that name each other, in whole files.
SPECIFICATION Spec
CONSTANTS
    UInt32 = 1000
    UInt16 = 16
    Garbage <- GarbageTags
    Lens = {100}
    Sizes = {5}
    MajorVersions = {51, 52}
    Entries <- LinkedEntries
    EarlierTexts <- TwoTexts
INVARIANTS
    NoUnreachableCase
    EntityMatchesTag
    HandsOver
    AcceptsOnlyWellFormed
    RejectsOnlyIllFormed
    
PROPERTIES
    SlotLifecycle
