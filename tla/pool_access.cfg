\* Any entry put over any other, at any index, in pools of up to two slots.
SPECIFICATION Spec
CONSTANTS
    UInt16 = 4
    Garbage = {"None", "Utf8"}
    Sizes = {0, 1, 3}
    Words <- EndWords
    Symbols = {1, 2}
INVARIANTS
    TypeOK
    GetsWhatWasPut
