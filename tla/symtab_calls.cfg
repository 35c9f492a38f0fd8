\* Two threads, two calls each.
SPECIFICATION RaceSpec
CONSTANTS
    Threads = {t1, t2}
    NoThread = NoThread
    Texts <- SomeTexts
    Hash <- SomeHashes
    UInt32 = 16
    MaxCalls = 2
INVARIANTS
    BucketsPartitionSymbols
    CopiesBoundedByRacers
PROPERTIES
    BucketsOnlyGrow
