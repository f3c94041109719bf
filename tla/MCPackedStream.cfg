CONSTANTS
    U32 = 6
    SEGMENTS_COUNT_LIMIT = 5
    RUN_MAX = 3
    Sources = {"async", "sync", "peer", "plain"}
    Contents <- MCContents
    PeerByte = {0, 1, 2, 3}
    MaxPeer = 7
    DataByte = {0, 1}
    Limit = 4
SPECIFICATION StreamSpec
INVARIANTS RoundTrip ReadersAgree UnpackersAgree
CHECK_DEADLOCK FALSE
