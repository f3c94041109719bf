CONSTANTS
    SegmentWords = {5}
    StructSizes <- Sizes
    ListSizes = {2}
    StructLists = {0, 2}
    Caps = {c}
    MaxDepth = 2
    MaxOps = 4
SPECIFICATION Spec
INVARIANTS
    ReadsBack
    EveryWordOwned
    CanonicalForm
CHECK_DEADLOCK FALSE
