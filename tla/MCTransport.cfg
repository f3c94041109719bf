CONSTANTS
    Senders = {s1, s2}
    MaxSends = 3
    MaxTerminates = 2
    U32 = 8
    SEGMENTS_COUNT_LIMIT = 4
    Capacity = 3
    Limits = {1}
    Content <- MCContent
SPECIFICATION TransportSpec
INVARIANTS WireIsPrefix TerminateDrains ParkedMeansIdle
PROPERTIES PromisesSettle EverythingArrives KeepsPipe
CHECK_DEADLOCK FALSE
