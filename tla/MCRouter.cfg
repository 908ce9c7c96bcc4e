SPECIFICATION Spec
CONSTANTS
    Transports = {t1, t2}
    Producers = {p1, p2}
    Consumers = {c1, c2, c3}
    Observers = {level, speaker}
    AudioProducers = {p1}
    LevelObservers = {level}
SYMMETRY Symmetry
INVARIANTS
    NoDanglingPointer
    MirrorsExact
    NoAssertFails
PROPERTIES
    ImplementsTree
