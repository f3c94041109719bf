CONSTANTS
    None = None
    Caps = {boot}
    BootstrapCap = boot
    Budget <- TwoCalls
    MaxQuestions = 2
    MaxExports = 1
    Quitters = {0}
    Lossy = {}
SPECIFICATION Spec
INVARIANT WriteDescriptorNeverFails
CHECK_DEADLOCK FALSE
