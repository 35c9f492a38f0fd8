\* Classes cut at many lengths, up to one of six nested loops and calls.
SPECIFICATION Spec
CONSTANTS
    UInt32 = 1000
    Pools <- SomePools
    Lens = {7, 9, 10, 17, 26, 34, 42}
    ClassFlags <- SomeClassFlags
    FieldFlags <- SomeFieldFlags
    Counts = {0, 1, 2}
    AttributeLengths = {0, 2, 3, 9}
INVARIANTS
    TypeOK
    ReadsOnlyTheFile
    AttributesEndWhereDeclared
    DepthBoundedByBytes
    FlagsConsistent
PROPERTIES
    EveryStepIsPaidFor
    Terminates
