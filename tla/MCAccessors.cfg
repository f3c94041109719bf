SPECIFICATION Spec
CONSTANTS
    Structs <- AllStructs
    Roots <- AllRoots
INVARIANTS
    WritesStayInside
    StaticReads
    DynamicReads
    GeneratedFromSchema
CHECK_DEADLOCK FALSE
