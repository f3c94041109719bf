CONSTANTS
    Values = {x, y}
    None = None
    MaxSlots = 5
SPECIFICATION Spec
INVARIANTS
    FreeIdsExact
PROPERTY
    ImplementsIdTable
