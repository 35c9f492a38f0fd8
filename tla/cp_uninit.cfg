\* References to the upper half of a Long.
SPECIFICATION Spec
CONSTANTS
    UInt32 = 1000
    UInt16 = 16
    Garbage <- GarbageTags
    Lens = {100}
    Sizes = {4}
    MajorVersions = {52}
    Entries <- FewEntries
    EarlierTexts <- TwoTexts
INVARIANT AcceptedPoolIsWellFormed
