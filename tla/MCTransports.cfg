SPECIFICATION MCFairSpec
CONSTANTS
    Consumers = {c1, c2}
    RemoteRoles = {"auto", "client", "server"}
    Modes <- MCModes
    Addresses = {"a", "b"}
    Suites = {"gcm", "cm"}
    NetEvents = 5
    DataConsumers = {"c", "d"}
    ConsumerStream <- MCConsumerStream
    DataProducers = {"p", "q"}
    ProducerStream <- MCProducerStream
    Os = 2
    AdditionalOs = 2
    MaxSctpStreams = 5
    MaxSctpMessageSize = 2
    SctpSendBufferSize = 3
    SendBufferThreshold = 2
    Thresholds = {0, 2}
    PeerMessages <- MCPeerMessages
    IsDataChannel = TRUE
    SctpEvents = 7
    Parts = {"webrtc", "plain", "rtcp", "sctp", "feedback"}
CHECK_DEADLOCK FALSE
INVARIANTS
    NoConsumerLeftBehind
    ConnectsAsAgreed
    PeerAndKeysAgreed
    
    MessagesExact
    FeedbackIsExact
PROPERTIES
    HandshakeResolves
    
