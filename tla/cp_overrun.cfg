\* Truncated files.
SPECIFICATION Spec
CONSTANTS
    UInt32 = 1000
    UInt16 = 4
    Garbage <- GarbageTags
    Lens <- WideLens
    Sizes = {3}
    MajorVersions = {52}
    Entries <- FewEntries
    EarlierTexts <- TwoTexts
INVARIANT ReadsOnlyTheFile
