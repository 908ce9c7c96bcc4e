CONSTANTS
    Helpers = {"nack", "keyframes"}
    MaxValue = 15
    Step = 2
    DropSpacing = 9
    SyncPoints = {0, 5, 13}
    SyncGaps = {1, 2}
    Late = {}
    MaxDropout = 5
    MaxMisorder = 4
    MaxPacketAge = 4
    MaxNackPackets = 2
    MaxNackRetries = 2
    NackDelay = 1
    Rtt = 1
    KeyNumbers = {1, 5}
    Starts = {13}
    RestartPoints = {5, 6}
    Ahead = 1
    MaxTravel = 6
    Pauses = TRUE
    MaxTimestamp = 15
    MaxItems = 4
    MaxDelay = 2
    MaxJump = 5
    Ssrcs = {s1}
    Wait = 3
    Delay = 5
SPECIFICATION MCFairSpec
CHECK_DEADLOCK FALSE
PROPERTIES
    RequestsEnd
