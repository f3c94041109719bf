CONSTANTS
    None = None
    Promises = {p, q}
    Own = own
    Peer = peer
    Failed = {failed}
    Pipelined = {q}
    Givable = {p}
    MaxGives = 2
    MaxCalls = 2
    MaxExports = 2
    Lossy = {"A", "B"}
SPECIFICATION FairSpec
INVARIANTS
    CallOrder
    RefsConserved
    
PROPERTY
    EmbargoEnds
CHECK_DEADLOCK FALSE
