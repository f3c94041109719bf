CONSTANTS
    None = None
    Caps = {boot, c}
    BootstrapCap = boot
    Budget <- TwoCalls
    MaxQuestions = 2
    MaxExports = 2
    Quitters = {0, 1}
    Lossy = {0, 1}
SPECIFICATION FairSpec
INVARIANTS
    ExportsByCapExact
    PanicsExplained
    DisconnectSettles
PROPERTY
    CallsAreSettled
CHECK_DEADLOCK FALSE
