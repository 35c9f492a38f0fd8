\* Method handles of every kind and all that they refer to.
SPECIFICATION Spec
CONSTANTS
    UInt32 = 1000
    UInt16 = 16
    Garbage = {"None"}
    Lens = {100}
    Sizes = {6}
    MajorVersions = {51, 52}
    Entries <- HandleEntries
    EarlierTexts <- TwoTexts
INVARIANTS
    AcceptsOnlyWellFormed
    RejectsOnlyIllFormed
