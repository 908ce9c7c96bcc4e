SPECIFICATION MCSpec
CONSTANTS
    Parts = {"bitrate", "recv", "rate", "producer", "observers", "simulcast", "svc",
             "forwarding", "send"}
    ByPriority <- MCByPriority
    Priority <- MCPriority
    Ladder <- MCLadder
    Loss <- MCLoss
    IsSimple = {"s"}
    Remb = TRUE
    InitialBitrate = 6
    MinOutgoingBitrate = 1
    TargetRates = {6, 7, 10, 13}
    Limits = {0, 7}
    DecreasePercent = 50
    MaxAge = 2
    BweEvents = 6
    Producers = {"a", "b"}
    IsVideo = {"a"}
    Encodings <- MCEncodings
    Mid <- MCMid
    RtpSsrcs = {1, 2, 3}
    Mids = {"n"}
    Rids = {"r"}
    PayloadTypes = {"media", "rtx", "other"}
    Headers = {{"rid", "toffset"}}
    ProdEvents = 5
CHECK_DEADLOCK FALSE
INVARIANTS
    StreamsCountRight
    StreamsExact
    SpeakersAreTold
    
    
    
PROPERTIES
    
    SilenceIsNoticed
    BitrateSettles
