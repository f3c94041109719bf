CONSTANTS
    Tasks = {1, 2, 3}
    Waiters = {1, 2}
    Size <- Sizes
    Window = 1
    NoWaiter = NoWaiter
SPECIFICATION MCFairSpec
INVARIANTS
    EmptyMeansDone
    InFlightExact
    WindowRespected
PROPERTIES
    BusyWaitersAnswered
    BlockedSendsSettle
CHECK_DEADLOCK FALSE
