CONSTANTS
    Parts = {"ice"}
    Owners = {"webrtc", "plain", "server"}
    Wishes <- MCWishes
    Ips = {"any", "lo"}
    AnyIp = "any"
    MinPort = 1
    MaxPort = 3
    PortWord = 4
    MaxOthers = 1
    BufferSize = 6
    MaxFrame = 5
    MaxWire = 3
    Served = {w1, w2}
    Ufrags = {f1, f2, f3, f4}
    RemoteTuples <- MCRemoteTuples
    TcpPeers = {"x", "y"}
    MaxStored = 2
    Nobody = Nobody
    Tuples = {t1, t2, t3, t4}
    Credentials = {c1, c2, c3}
    Nominations = {1, 2}
    MaxTuples = 2
    None = None
SPECIFICATION MCSpec
INVARIANT NoAssertFails
CHECK_DEADLOCK FALSE
