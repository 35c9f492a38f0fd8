\* A Long in the last slot of the largest pool.
SPECIFICATION Spec
CONSTANTS
    UInt32 = 1000
    UInt16 = 4
    Garbage <- GarbageTags
    Lens = {100}
    Sizes = {3}
    MajorVersions = {52}
    Entries <- FewEntries
    EarlierTexts <- TwoTexts
INVARIANT PoolIndexIsValid
