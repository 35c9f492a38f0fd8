\* Three threads, one call each: every race of three calls.
SPECIFICATION Spec
CONSTANTS
    Threads = {t1, t2, t3}
    NoThread = NoThread
    Texts <- SomeTexts
    Hash <- SomeHashes
    UInt32 = 16
    MaxCalls = 1
INVARIANTS
    TypeOK
    MutualExclusion
    SomeoneCanMove
PROPERTIES
    ImplementsSymbolSet
    EveryCallReturns
