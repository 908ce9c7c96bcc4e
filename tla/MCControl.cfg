SPECIFICATION MCSpec
CONSTANTS
    Parts = {"api", "pair", "producer"}
    None = None
    Transports = {t1, t2}
    Producers = {p1}
    Consumers = {c1}
    ServedTransports = {t1}
    Routers = {A, B}
    MaxAttempts = 3
    MaxChanges = 4
CHECK_DEADLOCK FALSE
INVARIANTS
    ObjectsAgree
    
    FollowsInTheEnd
PROPERTIES
    EndsTogether
    CallsSettle
