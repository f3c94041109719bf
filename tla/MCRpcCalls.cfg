CONSTANTS
    None = None
    Caps = {boot}
    BootstrapCap = boot
    Budget <- ThreeOrOne
    MaxQuestions = 2
    MaxExports = 1
    Quitters = {}
    Lossy = {}
SPECIFICATION EitherSpec
INVARIANTS
    TypeOK
    RefCountConservation
    IdsNeverConfused
    FreeIdIsReusable
    WantedCallsProgress
    NoProtocolError
    ReceiverHostedIsLive
CHECK_DEADLOCK FALSE
