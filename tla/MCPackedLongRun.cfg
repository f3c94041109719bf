CONSTANTS
    U32 = 6
    SEGMENTS_COUNT_LIMIT = 5
    RUN_MAX = 2
    Sources = {"async"}
    Contents <- LongRun
    PeerByte = {0, 1, 2, 3}
    MaxPeer = 7
    DataByte = {0, 1}
    Limit = 4
SPECIFICATION StreamSpec
INVARIANT RoundTrip
CHECK_DEADLOCK FALSE
