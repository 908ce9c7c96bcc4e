---------------------------- MODULE RouterProofs ----------------------------
(***************************************************************************)
(* Proofs about a Router and its plain Transports.                         *)
(*                                                                         *)
(* For every number of Transports, Producers, Consumers and RtpObservers,  *)
(* the maps of the Router agree with each other and no assertion of the    *)
(* closure cascade fails.  The invariants are inductive only together.  A  *)
(* closure cascade walks from one map to the next, so that one map is      *)
(* updated rightly only if the map that led there was right;               *)
(* NoAssertFails needs them all.                                           *)
(*                                                                         *)
(* A PlainTransport or PipeTransport keeps to its peer and its keys for    *)
(* every set of addresses, suites and modes there can be.                  *)
(***************************************************************************)
EXTENDS Router, PlainTransport, TLAPS

IInv ==
    /\ TypeOK
    /\ MapsAgree
    /\ NoDanglingPointer
    /\ ObserversExact
    /\ HandlersExact
    /\ PauseMirrored
    /\ NoAssertFails

LEMMA InitEstablishes == Init => IInv
BY Zenon DEF Init, IInv, TypeOK, MapsAgree, NoDanglingPointer, ObserversExact, HandlersExact,
       PauseMirrored, NoAssertFails

LEMMA CreateTransportPreserves ==
    ASSUME IInv, NEW t \in Transports, CreateTransport(t)
    PROVE  IInv'
<1>1. TypeOK'
    BY DEF IInv, TypeOK, CreateTransport, routerMaps, transportMaps
<1>2. MapsAgree'
    BY DEF IInv, MapsAgree, TypeOK, NoDanglingPointer, CreateTransport, routerMaps,
           transportMaps
<1>3. NoDanglingPointer'
    BY DEF IInv, NoDanglingPointer, TypeOK, CreateTransport, routerMaps, transportMaps
<1>4. ObserversExact'
    BY DEF IInv, ObserversExact, TypeOK, CreateTransport, routerMaps, transportMaps
<1>5. HandlersExact'
    BY RouterAssumption DEF IInv, HandlersExact, TypeOK, CreateTransport, routerMaps,
           transportMaps
<1>6. PauseMirrored'
    BY DEF IInv, PauseMirrored, TypeOK, CreateTransport, routerMaps, transportMaps
<1>7. NoAssertFails'
    BY DEF IInv, NoAssertFails, TypeOK, CreateTransport, routerMaps, transportMaps
<1> QED BY <1>1, <1>2, <1>3, <1>4, <1>5, <1>6, <1>7 DEF IInv

LEMMA CreateRtpObserverPreserves ==
    ASSUME IInv, NEW o \in Observers, CreateRtpObserver(o)
    PROVE  IInv'
<1>1. TypeOK'
    BY DEF IInv, TypeOK, CreateRtpObserver, routerMaps, transportMaps
<1>2. MapsAgree'
    BY DEF IInv, MapsAgree, TypeOK, CreateRtpObserver, routerMaps, transportMaps
<1>3. NoDanglingPointer'
    BY DEF IInv, NoDanglingPointer, TypeOK, CreateRtpObserver, routerMaps, transportMaps
<1>4. ObserversExact'
    BY DEF IInv, ObserversExact, TypeOK, CreateRtpObserver, routerMaps, transportMaps
<1>5. HandlersExact'
    BY RouterAssumption DEF IInv, HandlersExact, TypeOK, CreateRtpObserver, routerMaps,
           transportMaps
<1>6. PauseMirrored'
    BY DEF IInv, PauseMirrored, TypeOK, CreateRtpObserver, routerMaps, transportMaps
<1>7. NoAssertFails'
    BY DEF IInv, NoAssertFails, TypeOK, CreateRtpObserver, routerMaps, transportMaps
<1> QED BY <1>1, <1>2, <1>3, <1>4, <1>5, <1>6, <1>7 DEF IInv

LEMMA ProduceAcceptedPreserves ==
    ASSUME IInv, NEW t \in Transports, NEW p \in Producers, ProduceAccepted(t, p)
    PROVE  IInv'
<1>1. TypeOK'
    BY DEF IInv, TypeOK, ProduceAccepted, ProduceBegins, Listening, With
<1>2. MapsAgree'
    BY DEF IInv, MapsAgree, TypeOK, NoDanglingPointer, ProduceAccepted, ProduceBegins,
           Listening, With
<1>3. NoDanglingPointer'
    <2>1. ASSUME NEW u \in Transports PROVE rtpListener'[u] = transportProducers'[u]
        <3>1. /\ rtpListener' = [rtpListener EXCEPT ![t] = @ \cup {p}]
              /\ transportProducers' = [transportProducers EXCEPT ![t] = @ \cup {p}]
            BY DEF ProduceAccepted, Listening
        <3>2. rtpListener[u] = transportProducers[u] /\ rtpListener[t] = transportProducers[t]
            BY DEF IInv, NoDanglingPointer
        <3>3. rtpListener \in [Transports -> SUBSET Producers]
              /\ transportProducers \in [Transports -> SUBSET Producers]
            BY DEF IInv, TypeOK
        <3> QED BY <3>1, <3>2, <3>3
    <2>2. \A u \in Transports \ mapTransports' : transportProducers'[u] = {} /\ transportConsumers'[u] = {}
        BY DEF IInv, NoDanglingPointer, TypeOK, MapsAgree, ProduceAccepted, ProduceBegins,
               Listening, With
    <2>3. \A o \in Observers : tracked'[o] \subseteq mapProducers'
        BY DEF IInv, NoDanglingPointer, TypeOK, MapsAgree, ProduceAccepted, ProduceBegins,
               Listening, With
    <2>4. \A q \in DOMAIN mapProducerRtpObservers' : mapProducerRtpObservers'[q] \subseteq mapRtpObservers'
        BY DEF IInv, NoDanglingPointer, TypeOK, MapsAgree, ProduceAccepted, ProduceBegins,
               Listening, With
    <2> QED BY <2>1, <2>2, <2>3, <2>4 DEF NoDanglingPointer
<1>4. ObserversExact'
    BY DEF IInv, ObserversExact, TypeOK, MapsAgree, NoDanglingPointer, ProduceAccepted,
           ProduceBegins, Listening, With
<1>5. HandlersExact'
    BY RouterAssumption DEF IInv, HandlersExact, TypeOK, ProduceAccepted, ProduceBegins,
           Listening, With
<1>6. PauseMirrored'
    BY DEF IInv, PauseMirrored, TypeOK, MapsAgree, ProduceAccepted, ProduceBegins,
           Listening, With
<1>7. NoAssertFails'
    BY DEF IInv, NoAssertFails, TypeOK, MapsAgree, ProduceAccepted, ProduceBegins,
           Listening, With
<1> QED BY <1>1, <1>2, <1>3, <1>4, <1>5, <1>6, <1>7 DEF IInv

LEMMA ProduceRefusedPreserves ==
    ASSUME IInv, NEW t \in Transports, NEW p \in Producers, ProduceRefused(t, p)
    PROVE  IInv'
<1>1. TypeOK'
    BY DEF IInv, TypeOK, ProduceRefused, ProduceBegins, Listening, AfterDelete, routerMaps,
           transportMaps
<1>2. MapsAgree'
    BY DEF IInv, MapsAgree, TypeOK, ProduceRefused, ProduceBegins, Listening, AfterDelete,
           routerMaps, transportMaps
<1>3. NoDanglingPointer'
    BY DEF IInv, NoDanglingPointer, TypeOK, ProduceRefused, ProduceBegins, Listening,
           AfterDelete, routerMaps, transportMaps
<1>4. ObserversExact'
    BY DEF IInv, ObserversExact, TypeOK, ProduceRefused, ProduceBegins, Listening,
           AfterDelete, routerMaps, transportMaps
<1>5. HandlersExact'
    BY RouterAssumption DEF IInv, HandlersExact, TypeOK, ProduceRefused, ProduceBegins,
           Listening, AfterDelete, routerMaps, transportMaps
<1>6. PauseMirrored'
    BY DEF IInv, PauseMirrored, TypeOK, ProduceRefused, ProduceBegins, Listening,
           AfterDelete, routerMaps, transportMaps
<1>7. NoAssertFails'
    BY DEF IInv, NoAssertFails, TypeOK, ProduceRefused, ProduceBegins, Listening,
           AfterDelete, routerMaps, transportMaps
<1> QED BY <1>1, <1>2, <1>3, <1>4, <1>5, <1>6, <1>7 DEF IInv

LEMMA ConsumeAcceptedPreserves ==
    ASSUME IInv, NEW t \in Transports, NEW c \in Consumers, NEW p \in Producers, ConsumeAccepted(t, c, p)
    PROVE  IInv'
<1>1. TypeOK'
    BY DEF IInv, TypeOK, MapsAgree, ConsumeAccepted, InitiallyPaused, With
<1>2. MapsAgree'
    BY DEF IInv, MapsAgree, TypeOK, NoDanglingPointer, HandlersExact, ConsumeAccepted,
           InitiallyPaused, With
<1>3. NoDanglingPointer'
    BY DEF IInv, NoDanglingPointer, TypeOK, ConsumeAccepted, InitiallyPaused, With
<1>4. ObserversExact'
    BY DEF IInv, ObserversExact, TypeOK, ConsumeAccepted, InitiallyPaused, With
<1>5. HandlersExact'
    BY RouterAssumption DEF IInv, HandlersExact, TypeOK, ConsumeAccepted, InitiallyPaused,
           With
<1>6. PauseMirrored'
    BY DEF IInv, PauseMirrored, TypeOK, MapsAgree, HandlersExact, ConsumeAccepted,
           InitiallyPaused, With
<1>7. NoAssertFails'
    BY DEF IInv, NoAssertFails, TypeOK, MapsAgree, HandlersExact, ConsumeAccepted,
           InitiallyPaused, With
<1> QED BY <1>1, <1>2, <1>3, <1>4, <1>5, <1>6, <1>7 DEF IInv

LEMMA ConsumeRefusedPreserves ==
    ASSUME IInv, NEW t \in Transports, NEW c \in Consumers, NEW p \in Producers, ConsumeRefused(t, c, p)
    PROVE  IInv'
<1>1. TypeOK'
    BY DEF IInv, TypeOK, ConsumeRefused, AfterDelete, routerMaps, transportMaps
<1>2. MapsAgree'
    BY DEF IInv, MapsAgree, TypeOK, ConsumeRefused, AfterDelete, routerMaps, transportMaps
<1>3. NoDanglingPointer'
    BY DEF IInv, NoDanglingPointer, TypeOK, ConsumeRefused, AfterDelete, routerMaps,
           transportMaps
<1>4. ObserversExact'
    BY DEF IInv, ObserversExact, TypeOK, ConsumeRefused, AfterDelete, routerMaps,
           transportMaps
<1>5. HandlersExact'
    BY RouterAssumption DEF IInv, HandlersExact, TypeOK, ConsumeRefused, AfterDelete,
           routerMaps, transportMaps
<1>6. PauseMirrored'
    BY DEF IInv, PauseMirrored, TypeOK, ConsumeRefused, AfterDelete, routerMaps,
           transportMaps
<1>7. NoAssertFails'
    BY DEF IInv, NoAssertFails, TypeOK, ConsumeRefused, AfterDelete, routerMaps,
           transportMaps
<1> QED BY <1>1, <1>2, <1>3, <1>4, <1>5, <1>6, <1>7 DEF IInv

LEMMA AddProducerPreserves ==
    ASSUME IInv, NEW o \in Observers, NEW p \in Producers, AddProducer(o, p)
    PROVE  IInv'
<1>1. TypeOK'
    BY DEF IInv, TypeOK, MapsAgree, AddProducer, With, transportMaps
<1>2. MapsAgree'
    BY DEF IInv, MapsAgree, TypeOK, AddProducer, With, transportMaps
<1>3. NoDanglingPointer'
    BY DEF IInv, NoDanglingPointer, TypeOK, MapsAgree, AddProducer, With, transportMaps
<1>4. ObserversExact'
    BY DEF IInv, ObserversExact, TypeOK, MapsAgree, AddProducer, With, transportMaps
<1>5. HandlersExact'
    BY RouterAssumption DEF IInv, HandlersExact, TypeOK, AddProducer, With, transportMaps
<1>6. PauseMirrored'
    BY DEF IInv, PauseMirrored, TypeOK, AddProducer, With, transportMaps
<1>7. NoAssertFails'
    BY DEF IInv, NoAssertFails, TypeOK, AddProducer, With, transportMaps
<1> QED BY <1>1, <1>2, <1>3, <1>4, <1>5, <1>6, <1>7 DEF IInv

LEMMA RemoveProducerPreserves ==
    ASSUME IInv, NEW o \in Observers, NEW p \in Producers, RemoveProducer(o, p)
    PROVE  IInv'
<1>1. TypeOK'
    BY DEF IInv, TypeOK, MapsAgree, RemoveProducer, With, transportMaps
<1>2. MapsAgree'
    BY DEF IInv, MapsAgree, TypeOK, RemoveProducer, With, transportMaps
<1>3. NoDanglingPointer'
    BY DEF IInv, NoDanglingPointer, TypeOK, MapsAgree, RemoveProducer, With, transportMaps
<1>4. ObserversExact'
    BY DEF IInv, ObserversExact, TypeOK, MapsAgree, RemoveProducer, With, transportMaps
<1>5. HandlersExact'
    BY RouterAssumption DEF IInv, HandlersExact, TypeOK, RemoveProducer, With, transportMaps
<1>6. PauseMirrored'
    BY DEF IInv, PauseMirrored, TypeOK, RemoveProducer, With, transportMaps
<1>7. NoAssertFails'
    BY DEF IInv, NoAssertFails, TypeOK, RemoveProducer, With, transportMaps
<1> QED BY <1>1, <1>2, <1>3, <1>4, <1>5, <1>6, <1>7 DEF IInv

LEMMA CloseRtpObserverPreserves ==
    ASSUME IInv, NEW o \in Observers, CloseRtpObserver(o)
    PROVE  IInv'
<1>1. TypeOK'
    BY DEF IInv, TypeOK, CloseRtpObserver, transportMaps
<1>2. MapsAgree'
    BY DEF IInv, MapsAgree, TypeOK, CloseRtpObserver, transportMaps
<1>3. NoDanglingPointer'
    BY DEF IInv, NoDanglingPointer, TypeOK, CloseRtpObserver, transportMaps
<1>4. ObserversExact'
    BY DEF IInv, ObserversExact, TypeOK, MapsAgree, CloseRtpObserver, transportMaps
<1>5. HandlersExact'
    BY RouterAssumption DEF IInv, HandlersExact, TypeOK, CloseRtpObserver, transportMaps
<1>6. PauseMirrored'
    BY DEF IInv, PauseMirrored, TypeOK, CloseRtpObserver, transportMaps
<1>7. NoAssertFails'
    BY DEF IInv, NoAssertFails, TypeOK, CloseRtpObserver, transportMaps
<1> QED BY <1>1, <1>2, <1>3, <1>4, <1>5, <1>6, <1>7 DEF IInv

LEMMA PauseProducerPreserves ==
    ASSUME IInv, NEW t \in Transports, NEW p \in Producers, PauseProducer(t, p)
    PROVE  IInv'
<1>1. TypeOK'
    BY DEF IInv, TypeOK, MapsAgree, NoDanglingPointer, PauseProducer, LevelFollowers,
           routerMaps, transportMaps
<1>2. MapsAgree'
    BY DEF IInv, MapsAgree, TypeOK, PauseProducer, LevelFollowers, routerMaps, transportMaps
<1>3. NoDanglingPointer'
    BY DEF IInv, NoDanglingPointer, TypeOK, PauseProducer, LevelFollowers, routerMaps,
           transportMaps
<1>4. ObserversExact'
    BY DEF IInv, ObserversExact, TypeOK, PauseProducer, LevelFollowers, routerMaps,
           transportMaps
<1>5. HandlersExact'
    BY RouterAssumption DEF IInv, HandlersExact, TypeOK, PauseProducer, LevelFollowers,
           routerMaps, transportMaps
<1>6. PauseMirrored'
    BY DEF IInv, PauseMirrored, TypeOK, MapsAgree, NoDanglingPointer, PauseProducer,
           LevelFollowers, routerMaps, transportMaps
<1>7. NoAssertFails'
    BY DEF IInv, NoAssertFails, TypeOK, MapsAgree, NoDanglingPointer, PauseProducer,
           LevelFollowers, routerMaps, transportMaps
<1> QED BY <1>1, <1>2, <1>3, <1>4, <1>5, <1>6, <1>7 DEF IInv

LEMMA ResumeProducerPreserves ==
    ASSUME IInv, NEW t \in Transports, NEW p \in Producers, ResumeProducer(t, p)
    PROVE  IInv'
<1>1. TypeOK'
    BY DEF IInv, TypeOK, ResumeProducer, LevelFollowers, Retrack, routerMaps, transportMaps
<1>2. MapsAgree'
    BY DEF IInv, MapsAgree, TypeOK, ResumeProducer, LevelFollowers, Retrack, routerMaps,
           transportMaps
<1>3. NoDanglingPointer'
    BY DEF IInv, NoDanglingPointer, TypeOK, MapsAgree, ResumeProducer, LevelFollowers,
           Retrack, routerMaps, transportMaps
<1>4. ObserversExact'
    BY DEF IInv, ObserversExact, TypeOK, MapsAgree, ResumeProducer, LevelFollowers, Retrack,
           routerMaps, transportMaps
<1>5. HandlersExact'
    BY RouterAssumption DEF IInv, HandlersExact, TypeOK, ResumeProducer, LevelFollowers,
           Retrack, routerMaps, transportMaps
<1>6. PauseMirrored'
    BY DEF IInv, PauseMirrored, TypeOK, MapsAgree, NoDanglingPointer, ResumeProducer,
           LevelFollowers, Retrack, routerMaps, transportMaps
<1>7. NoAssertFails'
    BY DEF IInv, NoAssertFails, TypeOK, MapsAgree, NoDanglingPointer, ResumeProducer,
           LevelFollowers, Retrack, routerMaps, transportMaps
<1> QED BY <1>1, <1>2, <1>3, <1>4, <1>5, <1>6, <1>7 DEF IInv

LEMMA RtpPacketReceivedPreserves ==
    ASSUME IInv, NEW t \in Transports, NEW p \in Producers, RtpPacketReceived(t, p)
    PROVE  IInv'
<1>1. TypeOK'
    BY DEF IInv, TypeOK, RtpPacketReceived, LevelFollowers, routerMaps, transportMaps
<1>2. MapsAgree'
    BY DEF IInv, MapsAgree, TypeOK, RtpPacketReceived, LevelFollowers, routerMaps,
           transportMaps
<1>3. NoDanglingPointer'
    BY DEF IInv, NoDanglingPointer, TypeOK, RtpPacketReceived, LevelFollowers, routerMaps,
           transportMaps
<1>4. ObserversExact'
    BY DEF IInv, ObserversExact, TypeOK, RtpPacketReceived, LevelFollowers, routerMaps,
           transportMaps
<1>5. HandlersExact'
    BY RouterAssumption DEF IInv, HandlersExact, TypeOK, RtpPacketReceived, LevelFollowers,
           routerMaps, transportMaps
<1>6. PauseMirrored'
    BY DEF IInv, PauseMirrored, TypeOK, RtpPacketReceived, LevelFollowers, routerMaps,
           transportMaps
<1>7. NoAssertFails'
    BY DEF IInv, NoAssertFails, TypeOK, MapsAgree, NoDanglingPointer, ObserversExact,
           RtpPacketReceived, LevelFollowers, routerMaps, transportMaps
<1> QED BY <1>1, <1>2, <1>3, <1>4, <1>5, <1>6, <1>7 DEF IInv

LEMMA CloseRouterPreserves ==
    ASSUME IInv, CloseRouter
    PROVE  IInv'
<1>1. TypeOK'
    BY Zenon DEF IInv, TypeOK, CloseRouter, Without
<1>2. MapsAgree'
    BY DEF IInv, MapsAgree, TypeOK, CloseRouter, Without
<1>3. NoDanglingPointer'
    BY DEF IInv, NoDanglingPointer, TypeOK, CloseRouter, Without
<1>4. ObserversExact'
    BY DEF IInv, ObserversExact, TypeOK, CloseRouter, Without
<1>5. HandlersExact'
    BY RouterAssumption DEF IInv, HandlersExact, TypeOK, MapsAgree, CloseRouter, Without
<1>6. PauseMirrored'
    BY DEF IInv, PauseMirrored, TypeOK, CloseRouter, Without
<1>7. NoAssertFails'
    BY DEF IInv, NoAssertFails, TypeOK, CloseRouter, Without
<1> QED BY <1>1, <1>2, <1>3, <1>4, <1>5, <1>6, <1>7 DEF IInv

LEMMA CreateRouterPreserves ==
    ASSUME IInv, CreateRouter
    PROVE  IInv'
<1>1. TypeOK'
    BY DEF IInv, TypeOK, CreateRouter, routerMaps, transportMaps
<1>2. MapsAgree'
    BY DEF IInv, MapsAgree, TypeOK, CreateRouter, routerMaps, transportMaps
<1>3. NoDanglingPointer'
    BY DEF IInv, NoDanglingPointer, TypeOK, CreateRouter, routerMaps, transportMaps
<1>4. ObserversExact'
    BY DEF IInv, ObserversExact, TypeOK, CreateRouter, routerMaps, transportMaps
<1>5. HandlersExact'
    BY RouterAssumption DEF IInv, HandlersExact, TypeOK, CreateRouter, routerMaps,
           transportMaps
<1>6. PauseMirrored'
    BY DEF IInv, PauseMirrored, TypeOK, CreateRouter, routerMaps, transportMaps
<1>7. NoAssertFails'
    BY DEF IInv, NoAssertFails, TypeOK, CreateRouter, routerMaps, transportMaps
<1> QED BY <1>1, <1>2, <1>3, <1>4, <1>5, <1>6, <1>7 DEF IInv

LEMMA CloseProducerPreserves ==
    ASSUME IInv, NEW t \in Transports, NEW p \in Producers, CloseProducer(t, p)
    PROVE  IInv'
<1>1. TypeOK'
    BY DEF IInv, TypeOK, CloseProducer, Cascade, CascadeAsserts, ClosedByProducer,
           ClosedByTransport, Untrack, Without
<1>2. MapsAgree'
    <2>1. DOMAIN mapProducerConsumers' = mapProducers' /\ DOMAIN mapProducerRtpObservers' = mapProducers'
        BY DEF IInv, MapsAgree, TypeOK, NoDanglingPointer, CloseProducer, Cascade,
               CascadeAsserts, ClosedByProducer, ClosedByTransport, Untrack, Without
    <2>2. \A q \in mapProducers', d \in Consumers :
              (d \in mapProducerConsumers'[q]) <=>
              (d \in DOMAIN mapConsumerProducer' /\ mapConsumerProducer'[d] = q)
        BY DEF IInv, MapsAgree, TypeOK, NoDanglingPointer, CloseProducer, Cascade,
               CascadeAsserts, ClosedByProducer, ClosedByTransport, Untrack, Without
    <2>3. \A d \in DOMAIN mapConsumerProducer' : mapConsumerProducer'[d] \in mapProducers'
        BY DEF IInv, MapsAgree, TypeOK, NoDanglingPointer, CloseProducer, Cascade,
               CascadeAsserts, ClosedByProducer, ClosedByTransport, Untrack, Without
    <2>4. \A q \in Producers : (q \in mapProducers') <=> (\E u \in mapTransports' : q \in transportProducers'[u])
        BY Zenon DEF IInv, MapsAgree, TypeOK, NoDanglingPointer, CloseProducer, Cascade,
               CascadeAsserts, ClosedByProducer, ClosedByTransport, Untrack, Without
    <2>5. \A d \in Consumers : (d \in DOMAIN mapConsumerProducer') <=>
                               (\E u \in mapTransports' : d \in transportConsumers'[u])
        BY Zenon DEF IInv, MapsAgree, TypeOK, NoDanglingPointer, CloseProducer, Cascade,
               CascadeAsserts, ClosedByProducer, ClosedByTransport, Untrack, Without
    <2>6. \A u \in Transports, v \in Transports :
              u # v => /\ transportProducers'[u] \cap transportProducers'[v] = {}
                       /\ transportConsumers'[u] \cap transportConsumers'[v] = {}
        BY DEF IInv, MapsAgree, TypeOK, NoDanglingPointer, CloseProducer, Cascade,
               CascadeAsserts, ClosedByProducer, ClosedByTransport, Untrack, Without
    <2> QED BY <2>1, <2>2, <2>3, <2>4, <2>5, <2>6 DEF MapsAgree
<1>3. NoDanglingPointer'
    BY DEF IInv, NoDanglingPointer, TypeOK, MapsAgree, ObserversExact, CloseProducer,
           Cascade, CascadeAsserts, ClosedByProducer, ClosedByTransport, Untrack, Without
<1>4. ObserversExact'
    BY DEF IInv, ObserversExact, TypeOK, MapsAgree, CloseProducer, Cascade, CascadeAsserts,
           ClosedByProducer, ClosedByTransport, Untrack, Without
<1>5. HandlersExact'
    BY RouterAssumption DEF IInv, HandlersExact, TypeOK, CloseProducer, Cascade,
           CascadeAsserts, ClosedByProducer, ClosedByTransport, Untrack, Without
<1>6. PauseMirrored'
    BY DEF IInv, PauseMirrored, TypeOK, MapsAgree, CloseProducer, Cascade, CascadeAsserts,
           ClosedByProducer, ClosedByTransport, Untrack, Without
<1>7. NoAssertFails'
    BY DEF IInv, NoAssertFails, TypeOK, MapsAgree, CloseProducer, Cascade, CascadeAsserts,
           ClosedByProducer, ClosedByTransport, Untrack, Without
<1> QED BY <1>1, <1>2, <1>3, <1>4, <1>5, <1>6, <1>7 DEF IInv

LEMMA CloseConsumerPreserves ==
    ASSUME IInv, NEW t \in Transports, NEW c \in Consumers, CloseConsumer(t, c)
    PROVE  IInv'
<1>1. TypeOK'
    BY DEF IInv, TypeOK, CloseConsumer, Cascade, CascadeAsserts, ClosedByProducer,
           ClosedByTransport, Untrack, Without
<1>2. MapsAgree'
    BY DEF IInv, MapsAgree, TypeOK, NoDanglingPointer, CloseConsumer, Cascade,
           CascadeAsserts, ClosedByProducer, ClosedByTransport, Untrack, Without
<1>3. NoDanglingPointer'
    BY DEF IInv, NoDanglingPointer, TypeOK, CloseConsumer, Cascade, CascadeAsserts,
           ClosedByProducer, ClosedByTransport, Untrack, Without
<1>4. ObserversExact'
    BY DEF IInv, ObserversExact, TypeOK, CloseConsumer, Cascade, CascadeAsserts,
           ClosedByProducer, ClosedByTransport, Untrack, Without
<1>5. HandlersExact'
    BY RouterAssumption DEF IInv, HandlersExact, TypeOK, CloseConsumer, Cascade,
           CascadeAsserts, ClosedByProducer, ClosedByTransport, Untrack, Without
<1>6. PauseMirrored'
    BY DEF IInv, PauseMirrored, TypeOK, CloseConsumer, Cascade, CascadeAsserts,
           ClosedByProducer, ClosedByTransport, Untrack, Without
<1>7. NoAssertFails'
    BY DEF IInv, NoAssertFails, TypeOK, MapsAgree, CloseConsumer, Cascade, CascadeAsserts,
           ClosedByProducer, ClosedByTransport, Untrack, Without
<1> QED BY <1>1, <1>2, <1>3, <1>4, <1>5, <1>6, <1>7 DEF IInv

LEMMA CloseTransportPreserves ==
    ASSUME IInv, NEW t \in Transports, CloseTransport(t)
    PROVE  IInv'
<1>1. TypeOK'
    BY DEF IInv, TypeOK, CloseTransport, Cascade, CascadeAsserts, ClosedByProducer,
           ClosedByTransport, Untrack, Without
<1>2. MapsAgree'
    <2>1. DOMAIN mapProducerConsumers' = mapProducers' /\ DOMAIN mapProducerRtpObservers' = mapProducers'
        BY Zenon DEF IInv, MapsAgree, TypeOK, NoDanglingPointer, CloseTransport, Cascade,
               CascadeAsserts, ClosedByProducer, ClosedByTransport, Untrack, Without
    <2>2. \A q \in mapProducers', d \in Consumers :
              (d \in mapProducerConsumers'[q]) <=>
              (d \in DOMAIN mapConsumerProducer' /\ mapConsumerProducer'[d] = q)
        BY DEF IInv, MapsAgree, TypeOK, NoDanglingPointer, CloseTransport, Cascade,
               CascadeAsserts, ClosedByProducer, ClosedByTransport, Untrack, Without
    <2>3. \A d \in DOMAIN mapConsumerProducer' : mapConsumerProducer'[d] \in mapProducers'
        BY DEF IInv, MapsAgree, TypeOK, NoDanglingPointer, CloseTransport, Cascade,
               CascadeAsserts, ClosedByProducer, ClosedByTransport, Untrack, Without
    <2>4. \A q \in Producers : (q \in mapProducers') <=> (\E u \in mapTransports' : q \in transportProducers'[u])
        BY DEF IInv, MapsAgree, TypeOK, NoDanglingPointer, CloseTransport, Cascade,
               CascadeAsserts, ClosedByProducer, ClosedByTransport, Untrack, Without
    <2>5. \A d \in Consumers : (d \in DOMAIN mapConsumerProducer') <=>
                               (\E u \in mapTransports' : d \in transportConsumers'[u])
        BY Zenon DEF IInv, MapsAgree, TypeOK, NoDanglingPointer, CloseTransport, Cascade,
               CascadeAsserts, ClosedByProducer, ClosedByTransport, Untrack, Without
    <2>6. \A u \in Transports, v \in Transports :
              u # v => /\ transportProducers'[u] \cap transportProducers'[v] = {}
                       /\ transportConsumers'[u] \cap transportConsumers'[v] = {}
        BY DEF IInv, MapsAgree, TypeOK, NoDanglingPointer, CloseTransport, Cascade,
               CascadeAsserts, ClosedByProducer, ClosedByTransport, Untrack, Without
    <2> QED BY <2>1, <2>2, <2>3, <2>4, <2>5, <2>6 DEF MapsAgree
<1>3. NoDanglingPointer'
    BY DEF IInv, NoDanglingPointer, TypeOK, MapsAgree, ObserversExact, CloseTransport,
           Cascade, CascadeAsserts, ClosedByProducer, ClosedByTransport, Untrack, Without
<1>4. ObserversExact'
    BY Zenon DEF IInv, ObserversExact, TypeOK, MapsAgree, CloseTransport, Cascade, CascadeAsserts,
           ClosedByProducer, ClosedByTransport, Untrack, Without
<1>5. HandlersExact'
    BY RouterAssumption DEF IInv, HandlersExact, TypeOK, CloseTransport, Cascade,
           CascadeAsserts, ClosedByProducer, ClosedByTransport, Untrack, Without
<1>6. PauseMirrored'
    BY DEF IInv, PauseMirrored, TypeOK, MapsAgree, CloseTransport, Cascade, CascadeAsserts,
           ClosedByProducer, ClosedByTransport, Untrack, Without
<1>7. NoAssertFails'
    BY DEF IInv, NoAssertFails, TypeOK, MapsAgree, CloseTransport, Cascade, CascadeAsserts,
           ClosedByProducer, ClosedByTransport, Untrack, Without
<1> QED BY <1>1, <1>2, <1>3, <1>4, <1>5, <1>6, <1>7 DEF IInv

LEMMA StepPreserves == IInv /\ [Next]_vars => IInv'
<1> SUFFICES ASSUME IInv, [Next]_vars
             PROVE  IInv'
    OBVIOUS
<1>1. ASSUME NEW t \in Transports, CreateTransport(t)
      PROVE  IInv'
    BY <1>1, CreateTransportPreserves
<1>2. ASSUME NEW o \in Observers, CreateRtpObserver(o)
      PROVE  IInv'
    BY <1>2, CreateRtpObserverPreserves
<1>3. ASSUME NEW t \in Transports, NEW p \in Producers, ProduceAccepted(t, p)
      PROVE  IInv'
    BY <1>3, ProduceAcceptedPreserves
<1>4. ASSUME NEW t \in Transports, NEW p \in Producers, ProduceRefused(t, p)
      PROVE  IInv'
    BY <1>4, ProduceRefusedPreserves
<1>5. ASSUME NEW t \in Transports, NEW c \in Consumers, NEW p \in Producers, ConsumeAccepted(t, c, p)
      PROVE  IInv'
    BY <1>5, ConsumeAcceptedPreserves
<1>6. ASSUME NEW t \in Transports, NEW c \in Consumers, NEW p \in Producers, ConsumeRefused(t, c, p)
      PROVE  IInv'
    BY <1>6, ConsumeRefusedPreserves
<1>7. ASSUME NEW o \in Observers, NEW p \in Producers, AddProducer(o, p)
      PROVE  IInv'
    BY <1>7, AddProducerPreserves
<1>8. ASSUME NEW o \in Observers, NEW p \in Producers, RemoveProducer(o, p)
      PROVE  IInv'
    BY <1>8, RemoveProducerPreserves
<1>9. ASSUME NEW o \in Observers, CloseRtpObserver(o)
      PROVE  IInv'
    BY <1>9, CloseRtpObserverPreserves
<1>10. ASSUME NEW t \in Transports, NEW p \in Producers, PauseProducer(t, p)
      PROVE  IInv'
    BY <1>10, PauseProducerPreserves
<1>11. ASSUME NEW t \in Transports, NEW p \in Producers, ResumeProducer(t, p)
      PROVE  IInv'
    BY <1>11, ResumeProducerPreserves
<1>12. ASSUME NEW t \in Transports, NEW p \in Producers, RtpPacketReceived(t, p)
      PROVE  IInv'
    BY <1>12, RtpPacketReceivedPreserves
<1>13. CASE CloseRouter
    BY <1>13, CloseRouterPreserves
<1>14. CASE CreateRouter
    BY <1>14, CreateRouterPreserves
<1>15. ASSUME NEW t \in Transports, NEW p \in Producers, CloseProducer(t, p)
      PROVE  IInv'
    BY <1>15, CloseProducerPreserves
<1>16. ASSUME NEW t \in Transports, NEW c \in Consumers, CloseConsumer(t, c)
      PROVE  IInv'
    BY <1>16, CloseConsumerPreserves
<1>17. ASSUME NEW t \in Transports, CloseTransport(t)
      PROVE  IInv'
    BY <1>17, CloseTransportPreserves
<1>18. CASE UNCHANGED vars
    BY <1>18 DEF vars, routerMaps, transportMaps, IInv, TypeOK, MapsAgree, NoDanglingPointer,
                  ObserversExact, HandlersExact, PauseMirrored, NoAssertFails
<1> QED BY <1>1, <1>2, <1>3, <1>4, <1>5, <1>6, <1>7, <1>8, <1>9, <1>10, <1>11, <1>12, <1>13,
       <1>14, <1>15, <1>16, <1>17, <1>18 DEF Next

\* The invariants hold together in every reachable state.
THEOREM Inductive == Spec => []IInv
BY InitEstablishes, StepPreserves, PTL DEF Spec

\* Each map of the Router and of its Transports holds the kind of pointer its C++ type says.
THEOREM TypeCorrect == Spec => []TypeOK
<1>1. IInv => TypeOK
    BY DEF IInv
<1> QED BY <1>1, Inductive, PTL

\* The maps of the Router and of its Transports describe the same objects.
THEOREM MapsConsistent == Spec => []MapsAgree
<1>1. IInv => MapsAgree
    BY DEF IInv
<1> QED BY <1>1, Inductive, PTL

\* No RtpListener, RtpObserver or Router map points to an object that is gone.
THEOREM NothingDangles == Spec => []NoDanglingPointer
<1>1. IInv => NoDanglingPointer
    BY DEF IInv
<1> QED BY <1>1, Inductive, PTL

\* RtpObservers track exactly the Producers the Router tells them about.
THEOREM ObserversFollow == Spec => []ObserversExact
<1>1. IInv => ObserversExact
    BY DEF IInv
<1> QED BY <1>1, Inductive, PTL

\* Channel requests reach exactly the live objects.
THEOREM HandlersRight == Spec => []HandlersExact
<1>1. IInv => HandlersExact
    BY DEF IInv
<1> QED BY <1>1, Inductive, PTL

\* Consumers know whether their Producer is paused.
THEOREM PauseKnown == Spec => []PauseMirrored
<1>1. IInv => PauseMirrored
    BY DEF IInv
<1> QED BY <1>1, Inductive, PTL

\* No request, packet or closure makes the Router abort the worker.
THEOREM RouterNeverAborts == Spec => []NoAssertFails
<1>1. IInv => NoAssertFails
    BY DEF IInv
<1> QED BY <1>1, Inductive, PTL

\* Handlers and producerPaused follow the tree of objects.
THEOREM MirrorsRight == Spec => []MirrorsExact
<1>1. HandlersExact /\ PauseMirrored => MirrorsExact
    BY DEF MirrorsExact
<1> QED BY <1>1, HandlersRight, PauseKnown, PTL

(***************************************************************************)
(* The refinement: each request is a step of the tree of objects.          *)
(***************************************************************************)

LEMMA CreateTransportOpens ==
    ASSUME IInv, NEW t \in Transports, CreateTransport(t)
    PROVE  Tree!OpenTransport(t)
BY DEF CreateTransport, transportMaps, routerMaps, Tree!OpenTransport

LEMMA ProduceOpens ==
    ASSUME IInv, NEW t \in Transports, NEW p \in Producers, ProduceAccepted(t, p)
    PROVE  Tree!OpenProducer(t, p)
BY DEF IInv, TypeOK, MapsAgree, NoDanglingPointer, ProduceAccepted, ProduceBegins,
       Tree!OpenProducer

LEMMA ConsumeOpens ==
    ASSUME IInv, NEW t \in Transports, NEW c \in Consumers, NEW p \in Producers,
           ConsumeAccepted(t, c, p)
    PROVE  Tree!OpenConsumer(t, c, p)
<1> DEFINE Triples(held, of) ==
        {triple \in Transports \X Consumers \X Producers :
            /\ triple[2] \in held[triple[1]]
            /\ triple[2] \in DOMAIN of
            /\ of[triple[2]] = triple[3]}
<1>1. c \notin DOMAIN mapConsumerProducer
    BY DEF IInv, HandlersExact, ConsumeAccepted
<1>2. \A u \in Transports : c \notin transportConsumers[u]
    BY <1>1 DEF IInv, TypeOK, MapsAgree, NoDanglingPointer
<1>3. \E pair \in {x \in Transports \X Producers : x[2] \in transportProducers[x[1]]} : pair[2] = p
    <2>1. PICK u \in mapTransports : p \in transportProducers[u]
        BY DEF IInv, MapsAgree, ConsumeAccepted
    <2>2. <<u, p>> \in {x \in Transports \X Producers : x[2] \in transportProducers[x[1]]}
        BY <2>1 DEF IInv, TypeOK
    <2>3. <<u, p>>[2] = p
        OBVIOUS
    <2> QED BY <2>2, <2>3
<1>4. Triples(transportConsumers', mapConsumerProducer')
          = Triples(transportConsumers, mapConsumerProducer) \cup {<<t, c, p>>}
    <2>1. ASSUME NEW u \in Transports, NEW d \in Consumers
          PROVE  (d \in transportConsumers'[u]) <=>
                     (d \in transportConsumers[u] \/ (u = t /\ d = c))
        BY DEF IInv, TypeOK, ConsumeAccepted
    <2>2. /\ DOMAIN mapConsumerProducer' = DOMAIN mapConsumerProducer \cup {c}
          /\ mapConsumerProducer'[c] = p
          /\ \A d \in DOMAIN mapConsumerProducer : mapConsumerProducer'[d] = mapConsumerProducer[d]
        BY <1>1 DEF ConsumeAccepted, With
    <2>3. ASSUME NEW u \in Transports, NEW d \in Consumers, NEW q \in Producers
          PROVE  (<<u, d, q>> \in Triples(transportConsumers', mapConsumerProducer')) <=>
                     \/ <<u, d, q>> \in Triples(transportConsumers, mapConsumerProducer)
                     \/ <<u, d, q>> = <<t, c, p>>
        BY <1>1, <1>2, <2>1, <2>2
    <2> QED BY <2>3
<1> QED BY <1>1, <1>3, <1>4 DEF ConsumeAccepted, Tree!OpenConsumer

LEMMA CloseConsumerShuts ==
    ASSUME IInv, NEW t \in Transports, NEW c \in Consumers, CloseConsumer(t, c)
    PROVE  Tree!ShutConsumer(t, c)
BY DEF IInv, TypeOK, MapsAgree, NoDanglingPointer, CloseConsumer, Cascade, ClosedByTransport,
       ClosedByProducer, Without, Tree!ShutConsumer

LEMMA CloseProducerShuts ==
    ASSUME IInv, NEW t \in Transports, NEW p \in Producers, CloseProducer(t, p)
    PROVE  Tree!ShutProducer(t, p)
BY DEF IInv, TypeOK, MapsAgree, NoDanglingPointer, CloseProducer, Cascade, ClosedByTransport,
       ClosedByProducer, Without, Tree!ShutProducer

LEMMA CloseTransportShuts ==
    ASSUME IInv, NEW t \in Transports, CloseTransport(t)
    PROVE  Tree!ShutTransports({t})
BY DEF IInv, TypeOK, MapsAgree, NoDanglingPointer, CloseTransport, Cascade, ClosedByTransport,
       ClosedByProducer, Without, Tree!ShutTransports

LEMMA CloseRouterShuts ==
    ASSUME IInv, CloseRouter
    PROVE  Tree!ShutTransports(mapTransports)
BY DEF IInv, TypeOK, MapsAgree, NoDanglingPointer, CloseRouter, Without, Tree!ShutTransports

\* The Router implements the tree of objects: a request closes exactly what
\* depends on the object it closes.
THEOREM RouterImplementsTree == Spec => ImplementsTree
<1>1. Init => Tree!TreeInit
    BY DEF Init, Tree!TreeInit
<1>2. IInv /\ [Next]_vars => [Tree!TreeNext]_(Tree!treeVars)
    <2> SUFFICES ASSUME IInv, [Next]_vars
                 PROVE  Tree!TreeNext \/ UNCHANGED Tree!treeVars
        BY DEF Tree!treeVars
    <2>1. ASSUME NEW t \in Transports, CreateTransport(t) PROVE Tree!TreeNext
        BY <2>1, CreateTransportOpens DEF Tree!TreeNext
    <2>2. ASSUME NEW t \in Transports, NEW p \in Producers, ProduceAccepted(t, p)
          PROVE  Tree!TreeNext
        BY <2>2, ProduceOpens DEF Tree!TreeNext
    <2>3. ASSUME NEW t \in Transports, NEW c \in Consumers, NEW p \in Producers,
                 ConsumeAccepted(t, c, p)
          PROVE  Tree!TreeNext
        BY <2>3, ConsumeOpens DEF Tree!TreeNext
    <2>4. ASSUME NEW t \in Transports, NEW c \in Consumers, CloseConsumer(t, c)
          PROVE  Tree!TreeNext
        BY <2>4, CloseConsumerShuts DEF Tree!TreeNext
    <2>5. ASSUME NEW t \in Transports, NEW p \in Producers, CloseProducer(t, p)
          PROVE  Tree!TreeNext
        BY <2>5, CloseProducerShuts DEF Tree!TreeNext
    <2>6. ASSUME NEW t \in Transports, CloseTransport(t) PROVE Tree!TreeNext
        BY <2>6, CloseTransportShuts, Zenon DEF Tree!TreeNext
    <2>7. CASE CloseRouter
        <3>1. \E ts \in SUBSET Transports : Tree!ShutTransports(ts)
            <4>1. Tree!ShutTransports(mapTransports)
                BY <2>7, CloseRouterShuts
            <4>2. mapTransports \in SUBSET Transports
                BY DEF IInv, TypeOK
            <4> QED BY <4>1, <4>2 DEF Tree!ShutTransports
        <3> QED BY <3>1 DEF Tree!TreeNext
    <2>8. ASSUME \/ \E o \in Observers : CreateRtpObserver(o) \/ CloseRtpObserver(o)
                 \/ \E o \in Observers, p \in Producers : AddProducer(o, p) \/ RemoveProducer(o, p)
                 \/ \E t \in Transports, p \in Producers :
                       \/ ProduceRefused(t, p) \/ PauseProducer(t, p)
                       \/ ResumeProducer(t, p) \/ RtpPacketReceived(t, p)
                 \/ \E t \in Transports, c \in Consumers, p \in Producers : ConsumeRefused(t, c, p)
                 \/ CreateRouter
                 \/ UNCHANGED vars
          PROVE  UNCHANGED Tree!treeVars
        <3>1. UNCHANGED <<mapTransports, transportProducers, transportConsumers, mapConsumerProducer>>
            BY <2>8, Zenon DEF CreateRtpObserver, CloseRtpObserver, AddProducer, RemoveProducer,
                        ProduceRefused, ConsumeRefused, PauseProducer, ResumeProducer,
                        RtpPacketReceived, CreateRouter, vars, transportMaps, routerMaps
        <3> QED BY <3>1 DEF Tree!treeVars
    <2> QED BY <2>1, <2>2, <2>3, <2>4, <2>5, <2>6, <2>7, <2>8 DEF Next
<1> QED BY <1>1, <1>2, Inductive, PTL DEF Spec, ImplementsTree, Tree!TreeSpec

-----------------------------------------------------------------------------
(* PlainTransport and PipeTransport *)

Tuples == [socket : {"rtp", "rtcp"}, addr : Addresses]
MaybeTuples == {Nothing} \cup Tuples
Kinds == {"rtp", "rtcp", "sctp"}

NodeRecords == [tuple : MaybeTuples, rtcpTuple : MaybeTuples, key : Nat, suite : Suites]
SendRecords == {Nothing} \cup [suite : Suites, key : Nat]
RecvRecords == {Nothing} \cup [suite : Suites]
PassedRecords == {Nothing} \cup [kind : Kinds, from : Tuples]
OutRecords == {Nothing} \cup [kind : Kinds, to : Tuples]
Reports == [packet : Nat, info : Nat]

NetRecords ==
    [mode : Modes, suite : Suites, key : Nat, connectCalled : BOOLEAN,
     tuple : MaybeTuples, rtcpTuple : MaybeTuples, send : SendRecords, recv : RecvRecords,
     parent : BOOLEAN, node : NodeRecords, passed : PassedRecords, out : OutRecords,
     broken : BOOLEAN, closed : BOOLEAN, wide : Nat, queue : Seq(Nat),
     answered : SUBSET Nat, reported : SUBSET Reports, twice : BOOLEAN, events : Nat]

\* Node was told of the addresses the transport has.
NodeKnows(b) ==
    /\ b.tuple # Nothing => b.node.tuple = b.tuple /\ b.parent
    /\ b.rtcpTuple # Nothing => b.node.rtcpTuple = b.rtcpTuple

\* The sessions exist, with what Node was told of.
Secured(b) ==
    /\ b.send = [suite |-> b.node.suite, key |-> b.node.key]
    /\ b.recv # Nothing

\* Only a PlainTransport in comedia mode has a peer before connect(), which makes the
\* sessions, as the connect() of a PipeTransport does.
Sessions(b) ==
    /\ b.mode.srtp /\ b.connectCalled /\ ~b.closed => Secured(b)
    /\ ~b.mode.pipe /\ ~b.mode.comedia /\ b.tuple # Nothing => b.connectCalled
    /\ b.mode.srtp /\ b.mode.pipe /\ b.tuple # Nothing => Secured(b)
    /\ b.closed => b.tuple = Nothing
    /\ b.mode.pipe => ~b.connectCalled

\* The packets up to `last' were answered or wait in the queue, once.
Waiting(b) == {b.queue[i] : i \in 1..Len(b.queue)}

Callbacks(b, last) ==
    /\ ~b.twice
    /\ b.answered \cup Waiting(b) = 1..last
    /\ b.answered \cap Waiting(b) = {}
    /\ \A i, j \in 1..Len(b.queue) : b.queue[i] = b.queue[j] => i = j

Peer(b) ==
    LET Known(kind, tuple) ==
            IF kind = "rtcp" /\ ~b.mode.mux THEN tuple = b.node.rtcpTuple
            ELSE tuple = b.node.tuple /\ b.parent
    IN  /\ b.passed # Nothing =>
                /\ Known(b.passed.kind, b.passed.from)
                /\ b.passed.from \in {b.tuple, b.rtcpTuple}
        /\ b.out # Nothing => Known(b.out.kind, b.out.to)

\* The inductive invariant, of the record.
Good(b) ==
    /\ b \in NetRecords
    /\ NodeKnows(b) /\ Sessions(b) /\ Peer(b)
    /\ ~b.twice
    /\ ~b.closed /\ ~b.broken => Callbacks(b, b.wide)
    /\ b.broken => Early(b)

NetInv == Good(net)

\* What Begin leaves.
Ready(b) ==
    /\ b \in NetRecords
    /\ NodeKnows(b) /\ Sessions(b)
    /\ b.passed = Nothing /\ b.out = Nothing
    /\ ~b.closed /\ ~b.broken

\* No address, session or packet is mistaken for none.
LEMMA NothingIsNoRecord ==
    /\ \A t \in Tuples : t # Nothing
    /\ \A s, k : [suite |-> s, key |-> k] # Nothing
    /\ \A s : [suite |-> s] # Nothing
    /\ \A k, f : [kind |-> k, from |-> f] # Nothing /\ [kind |-> k, to |-> f] # Nothing
BY DEF Tuples, Nothing

\* What the fields of the record may hold.
LEMMA FieldsHold ==
    /\ Nothing \in MaybeTuples /\ Nothing \in SendRecords
    /\ Nothing \in RecvRecords /\ Nothing \in PassedRecords
    /\ Nothing \in OutRecords
    /\ \A t \in Tuples : t \in MaybeTuples
    /\ \A k \in Kinds, t \in Tuples : /\ [kind |-> k, from |-> t] \in PassedRecords
                                     /\ [kind |-> k, to |-> t] \in OutRecords
    /\ \A x \in Suites, k \in Nat : [suite |-> x, key |-> k] \in SendRecords
    /\ \A x \in Suites : [suite |-> x] \in RecvRecords
    /\ \A n \in NodeRecords, t \in Tuples : /\ [n EXCEPT !.tuple = t] \in NodeRecords
                                           /\ [n EXCEPT !.rtcpTuple = t] \in NodeRecords
BY DEF MaybeTuples, SendRecords, RecvRecords, PassedRecords, OutRecords, NodeRecords

\* The inductive invariant gives what the run checks.
LEMMA NetInvImplies == ASSUME NetInv PROVE PeerAndKeysAgreed
<1>1. PeerIsKnown BY DEF NetInv, Good, Peer, PeerIsKnown
<1>2. SessionsReady
  BY NothingIsNoRecord, Zenon DEF NetInv, Good, Sessions, Secured, SessionsReady, PlainIsConnected,
     IsSrtpReady, Early, NetRecords
<1>3. AnsweredOnce
  <2>1. DOMAIN net.queue = 1..Len(net.queue) BY DEF NetInv, Good, NetRecords
  <2> QED BY <2>1 DEF NetInv, Good, Callbacks, Waiting, AnsweredOnce
<1> QED BY <1>1, <1>2, <1>3 DEF PeerAndKeysAgreed

\* It holds of a new transport.
LEMMA NetInitInv == ASSUME NetInit PROVE NetInv
<1>1. PICK mode \in Modes, suite \in Suites :
        net = [mode |-> mode, suite |-> suite, key |-> 0, connectCalled |-> FALSE,
               tuple |-> Nothing, rtcpTuple |-> Nothing, send |-> Nothing,
               recv |-> Nothing, parent |-> FALSE,
               node |-> [tuple |-> Nothing, rtcpTuple |-> Nothing, key |-> 0,
                         suite |-> suite],
               passed |-> Nothing, out |-> Nothing, broken |-> FALSE,
               closed |-> FALSE, wide |-> 0, queue |-> <<>>, answered |-> {},
               reported |-> {}, twice |-> FALSE, events |-> 0]
  BY Zenon DEF NetInit
<1>a. [tuple |-> Nothing, rtcpTuple |-> Nothing, key |-> 0, suite |-> suite]
        \in NodeRecords
  BY FieldsHold DEF NodeRecords
<1>2. net \in NetRecords BY <1>1, <1>a, FieldsHold DEF NetRecords
<1>3. NodeKnows(net) /\ Sessions(net) /\ Peer(net) /\ ~net.twice /\ ~net.broken
  BY <1>1 DEF NodeKnows, Sessions, Peer
<1>4. Callbacks(net, net.wide) BY <1>1 DEF Callbacks, Waiting
<1> QED BY <1>2, <1>3, <1>4 DEF NetInv, Good

\* A step begins with what was there, and no packet passed or sent.
LEMMA BeginReady ==
    ASSUME NetInv, ~net.closed, ~net.broken
    PROVE  /\ Ready(Begin) /\ Callbacks(Begin, Begin.wide)
           /\ Begin.mode = net.mode /\ Begin.connectCalled = net.connectCalled
           /\ Begin.tuple = net.tuple /\ Begin.rtcpTuple = net.rtcpTuple
           /\ Begin.send = net.send /\ Begin.queue = net.queue
           /\ Begin.wide = net.wide /\ Begin.suite = net.suite
<1>0. net \in NetRecords BY DEF NetInv, Good
<1>2. net.events + 1 \in Nat BY <1>0 DEF NetRecords
<1>3. PICK n : n = net.events + 1 OBVIOUS
<1>1. [net EXCEPT !.events = n, !.passed = Nothing, !.out = Nothing] \in NetRecords
  BY <1>0, <1>2, <1>3, FieldsHold, Zenon DEF NetRecords
<1>4. Begin \in NetRecords BY <1>1, <1>3, Zenon DEF Begin
<1> QED
  BY <1>4, SMTT(30) DEF Begin, NetInv, Good, NetRecords, Ready, NodeKnows, Sessions, Secured,
          Callbacks, Waiting

\* Nothing that NodeKnows() and Sessions() speak of differs.
Alike(r, b) ==
    /\ r.mode = b.mode /\ r.tuple = b.tuple /\ r.rtcpTuple = b.rtcpTuple
    /\ r.node = b.node /\ r.parent = b.parent /\ r.connectCalled = b.connectCalled
    /\ r.send = b.send /\ r.recv = b.recv /\ r.closed = b.closed /\ r.broken = b.broken

\* NodeKnows() and Sessions() are about nothing else.
LEMMA AlikeKeeps ==
    ASSUME NEW r, NEW b, Alike(r, b), NodeKnows(b), Sessions(b)
    PROVE  NodeKnows(r) /\ Sessions(r)
BY Zenon DEF Alike, NodeKnows, Sessions, Secured

\* Callbacks() is about the callbacks only.
LEMMA SameCallbacks ==
    ASSUME NEW r, NEW b, NEW n, Callbacks(b, n),
           r.twice = b.twice, r.queue = b.queue, r.answered = b.answered
    PROVE  Callbacks(r, n)
BY ZenonT(40) DEF Callbacks, Waiting

\* A step that does no more keeps the invariant.
LEMMA ReadyGood ==
    ASSUME NEW b, Ready(b), Callbacks(b, b.wide)
    PROVE  Good(b)
BY DEF Ready, Good, Peer, Callbacks

\* A packet from the peer is passed on.
LEMMA PassGood ==
    ASSUME NEW b, Ready(b), Callbacks(b, b.wide), NEW kind \in Kinds, NEW from \in Tuples,
           from = IF kind = "rtcp" /\ ~b.mode.mux THEN b.rtcpTuple ELSE b.tuple
    PROVE  Good(Pass(b, kind, from))
<1>a. b \in NetRecords BY DEF Ready
<1>b. Pass(b, kind, from) \in NetRecords 
  BY <1>a, FieldsHold, Zenon DEF Pass, NetRecords
<1>0. PICK r : r = Pass(b, kind, from) OBVIOUS
<1>1. r \in NetRecords BY <1>0, <1>b
<1>2. /\ r.mode = b.mode /\ r.tuple = b.tuple /\ r.rtcpTuple = b.rtcpTuple
      /\ r.node = b.node /\ r.parent = b.parent /\ r.out = Nothing
      /\ r.passed = [kind |-> kind, from |-> from]
      /\ r.twice = b.twice /\ r.closed = b.closed /\ r.broken = b.broken
      /\ r.queue = b.queue /\ r.answered = b.answered /\ r.wide = b.wide
      /\ r.send = b.send /\ r.recv = b.recv /\ r.connectCalled = b.connectCalled
  BY <1>0 DEF Pass, Ready, NetRecords
<1>3. NodeKnows(r) /\ Sessions(r) BY <1>2, Zenon DEF Ready, NodeKnows, Sessions, Secured
<1>4. Callbacks(r, r.wide) BY <1>2 DEF Callbacks, Waiting
<1>5. Peer(r) BY <1>2, NothingIsNoRecord DEF Ready, NodeKnows, Peer
<1> QED BY <1>0, <1>1, <1>2, <1>3, <1>4, <1>5, Zenon DEF Good, Ready, Callbacks

\* The comedia mode: the address is taken from a packet and Node is told.
LEMMA LearnReady ==
    ASSUME NEW b, Ready(b), Callbacks(b, b.wide), NEW from \in Tuples,
           b.mode.comedia
    PROVE  /\ Ready(LearnTuple(b, from))
           /\ Callbacks(LearnTuple(b, from), LearnTuple(b, from).wide)
           /\ LearnTuple(b, from).tuple = from
           /\ LearnTuple(b, from).mode = b.mode
<1>a. b \in NetRecords BY DEF Ready
<1>b. LearnTuple(b, from) \in NetRecords 
  BY <1>a, FieldsHold, Zenon DEF LearnTuple, NetRecords
<1>0. PICK r : r = LearnTuple(b, from) OBVIOUS
<1>1. r \in NetRecords BY <1>0, <1>b
<1>2. /\ r.mode = b.mode /\ r.tuple = from /\ r.rtcpTuple = b.rtcpTuple
      /\ r.node = [b.node EXCEPT !.tuple = from] /\ r.parent
      /\ r.out = b.out /\ r.passed = b.passed
      /\ r.twice = b.twice /\ r.closed = b.closed /\ r.broken = b.broken
      /\ r.queue = b.queue /\ r.answered = b.answered /\ r.wide = b.wide
      /\ r.send = b.send /\ r.recv = b.recv /\ r.connectCalled = b.connectCalled
  BY <1>0 DEF LearnTuple, Ready, NetRecords
<1>3. ~b.mode.pipe BY ModesAssumption DEF Ready, NetRecords
<1>4. NodeKnows(r) /\ Sessions(r)
  BY <1>2, <1>3 DEF Ready, NodeKnows, Sessions, Secured, NetRecords, NodeRecords
<1>5. Callbacks(r, r.wide) BY <1>2 DEF Callbacks, Waiting
<1> QED BY <1>0, <1>1, <1>2, <1>4, <1>5 DEF Ready

\* The first RTCP packet tells the RTCP address.
LearnRtcp(b, from) == [b EXCEPT !.rtcpTuple = from, !.node.rtcpTuple = from]

\* Likewise the address of RTCP.
LEMMA LearnRtcpReady ==
    ASSUME NEW b, Ready(b), Callbacks(b, b.wide), NEW from \in Tuples,
           b.rtcpTuple = Nothing,
           NEW c, c = LearnRtcp(b, from)
    PROVE  /\ Ready(c) /\ Callbacks(c, c.wide)
           /\ c.rtcpTuple = from /\ c.mode = b.mode
<1>a. b \in NetRecords BY DEF Ready
<1>b. PICK node : node = [b.node EXCEPT !.rtcpTuple = from] BY Zenon
<1>c. node \in NodeRecords /\ from \in MaybeTuples
  BY <1>a, <1>b DEF NetRecords, NodeRecords, MaybeTuples
<1>d. [b EXCEPT !.rtcpTuple = from, !.node = node] \in NetRecords
  BY <1>a, <1>c, Zenon DEF NetRecords
<1>0. c = [b EXCEPT !.rtcpTuple = from, !.node = node]
  BY <1>a, <1>b DEF NetRecords, LearnRtcp
<1>1. c \in NetRecords BY <1>0, <1>d
<1>2. /\ c.mode = b.mode /\ c.tuple = b.tuple /\ c.rtcpTuple = from
      /\ c.node = node /\ c.parent = b.parent
      /\ c.out = b.out /\ c.passed = b.passed
      /\ c.twice = b.twice /\ c.closed = b.closed /\ c.broken = b.broken
      /\ c.queue = b.queue /\ c.answered = b.answered /\ c.wide = b.wide
      /\ c.send = b.send /\ c.recv = b.recv /\ c.connectCalled = b.connectCalled
  BY <1>0, <1>a DEF NetRecords
<1>4. NodeKnows(c) /\ Sessions(c)
  BY <1>2, <1>a, <1>b DEF Ready, NodeKnows, Sessions, Secured, NetRecords, NodeRecords
<1>5. Callbacks(c, c.wide) BY <1>2, SameCallbacks
<1> QED BY <1>0, <1>1, <1>2, <1>4, <1>5 DEF Ready

\* OnRtpDataReceived() of PlainTransport.cpp.
LEMMA RtpGood ==
    ASSUME NEW b, Ready(b), Callbacks(b, b.wide), NEW from \in Tuples,
           NEW intact \in BOOLEAN
    PROVE  Good(OnRtpDataReceived(b, from, intact))
<1>1. CASE \/ b.mode.srtp /\ ~IsSrtpReady(b)
           \/ ~intact
           \/ ~PlainIsConnected(b) /\ ~b.mode.comedia
           \/ (IF PlainIsConnected(b) THEN b ELSE LearnTuple(b, from)).tuple # from
  BY <1>1, ReadyGood DEF OnRtpDataReceived
<1>2. CASE /\ ~(b.mode.srtp /\ ~IsSrtpReady(b)) /\ intact
           /\ PlainIsConnected(b) /\ b.tuple = from
  <2>1. OnRtpDataReceived(b, from, intact) = Pass(b, "rtp", from)
    BY <1>2 DEF OnRtpDataReceived
  <2> QED BY <1>2, <2>1, PassGood, Zenon DEF Kinds
<1>3. CASE /\ ~(b.mode.srtp /\ ~IsSrtpReady(b)) /\ intact
           /\ ~PlainIsConnected(b) /\ b.mode.comedia
  <2>0. PICK c : c = LearnTuple(b, from) OBVIOUS
  <2>1. Ready(c) /\ Callbacks(c, c.wide) /\ c.tuple = from BY <1>3, <2>0, LearnReady
  <2>2. OnRtpDataReceived(b, from, intact) = Pass(c, "rtp", from)
    BY <1>3, <2>0, <2>1 DEF OnRtpDataReceived
  <2> QED BY <2>1, <2>2, PassGood DEF Kinds
<1> QED BY <1>1, <1>2, <1>3

\* OnRtcpDataReceived() of PlainTransport.cpp.
LEMMA RtcpGood ==
    ASSUME NEW b, Ready(b), Callbacks(b, b.wide), NEW from \in Tuples,
           NEW decrypts \in BOOLEAN, NEW parses \in BOOLEAN
    PROVE  Good(OnRtcpDataReceived(b, from, decrypts, parses))
<1> DEFINE known == IF b.mode.mux THEN b.tuple ELSE b.rtcpTuple
           learnt == IF known # Nothing THEN b
                     ELSE IF b.mode.mux THEN LearnTuple(b, from)
                     ELSE LearnRtcp(b, from)
           result == OnRtcpDataReceived(b, from, decrypts, parses)
<1> SUFFICES Good(result) OBVIOUS
<1>1. result = b \/ /\ known # Nothing \/ b.mode.comedia
                    /\ \/ result = learnt
                       \/ known \in {Nothing, from} /\ result = Pass(learnt, "rtcp", from)
  BY DEF OnRtcpDataReceived, LearnRtcp
<1>2. PICK c : c = learnt OBVIOUS
<1>3. ASSUME known # Nothing \/ b.mode.comedia
      PROVE  /\ Ready(c) /\ Callbacks(c, c.wide)
             /\ known \in {Nothing, from} =>
                    from = IF c.mode.mux THEN c.tuple ELSE c.rtcpTuple
  <2>1. CASE known # Nothing
    BY <2>1, <1>2
  <2>2. CASE known = Nothing /\ b.mode.mux
    BY <2>2, <1>2, <1>3, LearnReady
  <2>3. CASE known = Nothing /\ ~b.mode.mux
    <3>1. c = LearnRtcp(b, from) BY <2>3, <1>2
    <3>2. b.rtcpTuple = Nothing BY <2>3
    <3>3. Ready(c) /\ Callbacks(c, c.wide) /\ c.rtcpTuple = from /\ c.mode = b.mode
      BY <3>1, <3>2, LearnRtcpReady, ZenonT(30)
    <3> QED BY <3>3, <2>3
  <2> QED BY <2>1, <2>2, <2>3
<1>4. CASE result = b BY <1>4, ReadyGood
<1>5. CASE (known # Nothing \/ b.mode.comedia) /\ result = c
  BY <1>3, <1>5, ReadyGood
<1>6. CASE /\ known # Nothing \/ b.mode.comedia
           /\ known \in {Nothing, from} /\ result = Pass(c, "rtcp", from)
  <2>1. Ready(c) /\ Callbacks(c, c.wide)
        /\ from = IF c.mode.mux THEN c.tuple ELSE c.rtcpTuple
    BY <1>3, <1>6
  <2> QED BY <2>1, <1>6, PassGood DEF Kinds
<1> HIDE DEF known, learnt, result
<1> QED BY <1>1, <1>2, <1>4, <1>5, <1>6

\* OnSctpDataReceived() of PlainTransport.cpp.
LEMMA SctpGood ==
    ASSUME NEW b, Ready(b), Callbacks(b, b.wide), NEW from \in Tuples
    PROVE  Good(OnSctpDataReceived(b, from))
<1>0. PICK c : c = IF PlainIsConnected(b) \/ ~b.mode.comedia THEN b
                   ELSE LearnTuple(b, from)
  OBVIOUS
<1>1. Ready(c) /\ Callbacks(c, c.wide) BY <1>0, LearnReady
<1>2. OnSctpDataReceived(b, from) = IF c.tuple # from THEN c ELSE Pass(c, "sctp", from)
  BY <1>0 DEF OnSctpDataReceived
<1> QED BY <1>1, <1>2, ReadyGood, PassGood DEF Kinds

\* What PipeTransport.cpp does with packets.
LEMMA PipePacketGood ==
    ASSUME NEW b, Ready(b), Callbacks(b, b.wide), NEW from \in Tuples,
           b.mode.pipe, NEW intact \in BOOLEAN
    PROVE  /\ Good(PipeOnRtpDataReceived(b, from, intact))
           /\ Good(PipeOnRtcpDataReceived(b, from, intact))
           /\ Good(PipeOnSctpDataReceived(b, from))
<1>1. b.mode.mux BY ModesAssumption DEF Ready, NetRecords
<1>2. Good(b) BY ReadyGood
<1>3. \A kind \in Kinds : b.tuple = from => Good(Pass(b, kind, from))
  BY <1>1, PassGood
<1> QED BY <1>2, <1>3 DEF Kinds, PipeOnRtpDataReceived, PipeOnRtcpDataReceived,
          PipeOnSctpDataReceived

-----------------------------------------------------------------------------
\* A connect request that fails leaves neither addresses nor sessions.
LEMMA FailedReady ==
    ASSUME NEW b, Ready(b), Callbacks(b, b.wide), ~b.connectCalled
    PROVE  Ready(Failed(b)) /\ Callbacks(Failed(b), Failed(b).wide)
<1>a. b \in NetRecords BY DEF Ready
<1>b. Failed(b) \in NetRecords BY <1>a, FieldsHold, Zenon DEF Failed, NetRecords
<1>0. PICK r : r = Failed(b) OBVIOUS
<1>2. /\ r.mode = b.mode /\ r.tuple = Nothing /\ r.rtcpTuple = Nothing
      /\ r.out = b.out /\ r.passed = b.passed
      /\ r.twice = b.twice /\ r.closed = b.closed /\ r.broken = b.broken
      /\ r.queue = b.queue /\ r.answered = b.answered /\ r.wide = b.wide
      /\ r.connectCalled = b.connectCalled
  BY <1>0, <1>a DEF Failed, NetRecords
<1>4. NodeKnows(r) /\ Sessions(r) BY <1>2, Zenon DEF Ready, NodeKnows, Sessions
<1>5. Callbacks(r, r.wide) BY <1>2, SameCallbacks
<1> QED BY <1>0, <1>b, <1>2, <1>4, <1>5, Zenon DEF Ready

\* A new suite takes a new key, of which Node is told only if the request succeeds.
LEMMA TakeSuiteReady ==
    ASSUME NEW b, Ready(b), Callbacks(b, b.wide), ~b.connectCalled, ~b.mode.pipe,
           NEW suite \in Suites
    PROVE  LET r == TakeSuite(b, suite) IN
           /\ Ready(r) /\ Callbacks(r, r.wide) /\ ~r.connectCalled /\ r.mode = b.mode
<1>a. b \in NetRecords BY DEF Ready
<1>b. b.key + 1 \in Nat BY <1>a DEF NetRecords
<1>c. PICK k \in Nat : k = b.key + 1 BY <1>b
<1>d. [b EXCEPT !.suite = suite, !.key = k] \in NetRecords BY <1>a, Zenon DEF NetRecords
<1>e. [b EXCEPT !.suite = suite, !.key = @ + 1] = [b EXCEPT !.suite = suite, !.key = k]
  BY <1>a, <1>c DEF NetRecords
<1>0. PICK r : r = TakeSuite(b, suite) OBVIOUS
<1>1. r \in NetRecords BY <1>0, <1>a, <1>d, <1>e DEF TakeSuite
<1>2. /\ Alike(r, b)
      /\ r.out = b.out /\ r.passed = b.passed /\ r.twice = b.twice
      /\ r.queue = b.queue /\ r.answered = b.answered /\ r.wide = b.wide
  BY <1>0, <1>a DEF TakeSuite, NetRecords, Alike
<1>3. NodeKnows(r) /\ Sessions(r) BY <1>2, AlikeKeeps DEF Ready
<1>4. Callbacks(r, r.wide) BY <1>2, SameCallbacks
<1> QED BY <1>0, <1>1, <1>2, <1>3, <1>4, Zenon DEF Ready, Alike

\* A request that succeeds: the sessions and the addresses are set and Node is told.
LEMMA AgreedGood ==
    ASSUME NEW c \in NetRecords, Callbacks(c, c.wide),
           c.passed = Nothing, c.out = Nothing, ~c.closed, ~c.broken,
           c.mode.srtp => /\ c.send = [suite |-> c.suite, key |-> c.key]
                          /\ c.recv # Nothing,
           ~c.connectCalled,
           NEW called \in BOOLEAN, called = ~c.mode.pipe,
           NEW r, r = IF called
                      THEN [TellNode(c) EXCEPT !.connectCalled = TRUE, !.parent = TRUE]
                      ELSE [TellNode(c) EXCEPT !.parent = TRUE]
    PROVE  Good(r)
<1>1. PICK node : node = [c.node EXCEPT !.tuple = IF PlainIsConnected(c) THEN c.tuple ELSE @,
              !.rtcpTuple = IF c.rtcpTuple # Nothing THEN c.rtcpTuple ELSE @,
              !.key = c.key, !.suite = c.suite]
  OBVIOUS
<1>2. /\ node \in NodeRecords /\ node.key = c.key /\ node.suite = c.suite
      /\ c.tuple # Nothing => node.tuple = c.tuple
      /\ c.rtcpTuple # Nothing => node.rtcpTuple = c.rtcpTuple
  BY <1>1, Zenon DEF NetRecords, NodeRecords, PlainIsConnected
<1>3. TellNode(c) = [c EXCEPT !.node = node]
  BY <1>1, Zenon DEF TellNode, NetRecords, NodeRecords
<1>6. /\ r \in NetRecords
      /\ r.mode = c.mode /\ r.tuple = c.tuple /\ r.rtcpTuple = c.rtcpTuple
      /\ r.out = c.out /\ r.passed = c.passed
      /\ r.twice = c.twice /\ r.closed = c.closed /\ r.broken = c.broken
      /\ r.queue = c.queue /\ r.answered = c.answered /\ r.wide = c.wide
      /\ r.send = c.send /\ r.recv = c.recv /\ r.connectCalled = called
      /\ r.node = node /\ r.parent
  <2>1. CASE called
    <3>1. r = [c EXCEPT !.node = node, !.connectCalled = TRUE, !.parent = TRUE]
      BY <1>3, <2>1
    <3>3. r \in NetRecords BY <3>1, <1>2, ZenonT(30) DEF NetRecords
    <3> QED BY <3>1, <3>3, <2>1, Zenon DEF NetRecords
  <2>2. CASE ~called
    <3>1. r = [c EXCEPT !.node = node, !.parent = TRUE] BY <1>3, <2>2
    <3>2. c.connectCalled = called BY <2>2, Zenon DEF NetRecords
    <3>3. r \in NetRecords BY <3>1, <1>2, ZenonT(30) DEF NetRecords
    <3> QED BY <3>1, <3>2, <3>3, Zenon DEF NetRecords
  <2> QED BY <2>1, <2>2, Zenon
<1>7. NodeKnows(r) BY <1>2, <1>6 DEF NodeKnows
<1>8. Sessions(r) BY <1>2, <1>6, Zenon DEF Sessions, Secured
<1>9. Callbacks(r, r.wide) BY <1>6, SameCallbacks, Zenon
<1>10. Peer(r) BY <1>6 DEF Peer
<1> QED BY <1>6, <1>7, <1>8, <1>9, <1>10, Zenon DEF Good, Callbacks

\* The sessions use the suite and the key the transport has.
LEMMA CreateSessionsReady ==
    ASSUME NEW b, Ready(b), Callbacks(b, b.wide), ~b.connectCalled,
           b.mode.pipe => b.tuple = Nothing
    PROVE  LET r == CreateSessions(b) IN
           /\ Ready(r) /\ Callbacks(r, r.wide) /\ ~r.connectCalled /\ r.mode = b.mode
           /\ r.send = [suite |-> r.suite, key |-> r.key] /\ r.recv # Nothing
           /\ r.tuple = b.tuple
<1>a. b \in NetRecords BY DEF Ready
<1>b. PICK x, y : x = [suite |-> b.suite, key |-> b.key] /\ y = [suite |-> b.suite] BY Zenon
<1>c. x \in SendRecords /\ y \in RecvRecords BY <1>a, <1>b, FieldsHold DEF NetRecords
<1>d. [b EXCEPT !.send = x, !.recv = y] \in NetRecords BY <1>a, <1>c, Zenon DEF NetRecords
<1>0. PICK r : r = CreateSessions(b) OBVIOUS
<1>e. r = [b EXCEPT !.send = x, !.recv = y] BY <1>0, <1>b DEF CreateSessions
<1>2. /\ r.mode = b.mode /\ r.tuple = b.tuple /\ r.rtcpTuple = b.rtcpTuple
      /\ r.node = b.node /\ r.parent = b.parent /\ r.connectCalled = b.connectCalled
      /\ r.out = b.out /\ r.passed = b.passed /\ r.suite = b.suite /\ r.key = b.key
      /\ r.twice = b.twice /\ r.closed = b.closed /\ r.broken = b.broken
      /\ r.queue = b.queue /\ r.answered = b.answered /\ r.wide = b.wide
      /\ r.send = x /\ r.recv = y
  BY <1>e, <1>a DEF NetRecords
<1>3. NodeKnows(r) /\ Sessions(r) BY <1>2, Zenon DEF Ready, NodeKnows, Sessions
<1>4. Callbacks(r, r.wide) BY <1>2, SameCallbacks
<1>5. r.send = [suite |-> r.suite, key |-> r.key] /\ r.recv # Nothing
  BY <1>b, <1>2, NothingIsNoRecord, ZenonT(40)
<1> QED BY <1>0, <1>d, <1>e, <1>2, <1>3, <1>4, <1>5 DEF Ready

\* connect() of a PlainTransport.
LEMMA ConnectGood ==
    ASSUME NetInv, ~net.closed, ~net.broken, PlainConnect
    PROVE  NetInv'
<1>0. PICK b : b = Begin OBVIOUS
<1>1. Ready(b) /\ Callbacks(b, b.wide) /\ ~b.connectCalled /\ ~b.mode.pipe
  BY <1>0, BeginReady DEF PlainConnect
<1>a. PICK srtp \in Srtps, remote \in Remotes :
        LET s == ConnectSrtp(b, srtp)
            r == ConnectRemote(s.b, remote)
        IN  net' = IF ~s.ok THEN Failed(s.b)
                   ELSE IF ~r.ok THEN Failed(r.b)
                   ELSE [TellNode(r.b) EXCEPT !.connectCalled = TRUE, !.parent = TRUE]
  BY <1>0, Zenon DEF PlainConnect
<1>b. PICK s : s = ConnectSrtp(b, srtp) OBVIOUS
<1>c. PICK r : r = ConnectRemote(s.b, remote) OBVIOUS
<1>2. /\ s = ConnectSrtp(b, srtp)
      /\ r = ConnectRemote(s.b, remote)
      /\ net' = IF ~s.ok THEN Failed(s.b)
                ELSE IF ~r.ok THEN Failed(r.b)
                ELSE [TellNode(r.b) EXCEPT !.connectCalled = TRUE, !.parent = TRUE]
  BY <1>a, <1>b, <1>c, Zenon
<1>3. PICK c : c = s.b OBVIOUS
<1>4. /\ Ready(c) /\ Callbacks(c, c.wide) /\ ~c.connectCalled /\ ~c.mode.pipe
      /\ s.ok /\ c.mode.srtp => /\ c.send = [suite |-> c.suite, key |-> c.key]
                                /\ c.recv # Nothing
  <2>1. CASE srtp = Nothing
    BY <2>1, <1>1, <1>2, <1>3, Zenon DEF ConnectSrtp
  <2>2. CASE srtp # Nothing /\ (~b.mode.srtp \/ srtp.suite \notin Suites)
    BY <2>2, <1>1, <1>2, <1>3 DEF ConnectSrtp
  <2>3. CASE srtp # Nothing /\ b.mode.srtp /\ srtp.suite \in Suites
    <3>0. PICK d : d = TakeSuite(b, srtp.suite) OBVIOUS
    <3>1. Ready(d) /\ Callbacks(d, d.wide) /\ ~d.connectCalled /\ d.mode = b.mode
      BY <3>0, <2>3, <1>1, TakeSuiteReady
    <3>2. CASE srtp.key = "bad"
      BY <3>0, <3>1, <3>2, <2>3, <1>1, <1>2, <1>3 DEF ConnectSrtp
    <3>3. CASE srtp.key # "bad"
      <4>1. c = CreateSessions(d)
        BY <3>0, <3>3, <2>3, <1>2, <1>3 DEF ConnectSrtp
      <4> QED BY <4>1, <3>1, <1>1, CreateSessionsReady, Zenon
    <3> QED BY <3>2, <3>3
  <2> QED BY <2>1, <2>2, <2>3, Zenon
<1>5. CASE ~s.ok
  BY <1>2, <1>3, <1>4, <1>5, FailedReady, ReadyGood DEF NetInv
<1>6. CASE s.ok /\ ~r.ok
  <2>1. r.b = c BY <1>2, <1>3, <1>6 DEF ConnectRemote
  <2> QED BY <2>1, <1>2, <1>4, <1>6, FailedReady, ReadyGood DEF NetInv
<1>7. CASE s.ok /\ r.ok
  <2>0. PICK d : d = r.b OBVIOUS
  <2>1. /\ d \in NetRecords
        /\ d.mode = c.mode /\ d.send = c.send /\ d.recv = c.recv
        /\ d.suite = c.suite /\ d.key = c.key /\ d.connectCalled = c.connectCalled
        /\ d.out = c.out /\ d.passed = c.passed /\ d.closed = c.closed
        /\ d.broken = c.broken /\ d.wide = c.wide
        /\ d.twice = c.twice /\ d.queue = c.queue /\ d.answered = c.answered
    <3>0. c \in NetRecords BY <1>4, Zenon DEF Ready
    <3>1. CASE c.mode.comedia
      BY <3>0, <3>1, <2>0, <1>2, <1>3 DEF ConnectRemote
    <3>2. CASE ~c.mode.comedia
      <4>1. remote # Nothing /\ remote.addr \in Addresses
        BY <3>2, <1>2, <1>3, <1>7 DEF ConnectRemote, Remotes
      <4>2. PICK t, u \in MaybeTuples : d = [c EXCEPT !.tuple = t, !.rtcpTuple = u]
        <5>1. /\ [socket |-> "rtp", addr |-> remote.addr] \in MaybeTuples
              /\ [socket |-> "rtcp", addr |-> remote.addr] \in MaybeTuples
          BY <4>1, FieldsHold DEF Tuples
        <5>2. c.rtcpTuple \in MaybeTuples BY <3>0 DEF NetRecords
        <5> QED BY <5>1, <5>2, <4>1, <3>2, <2>0, <1>2, <1>3, <1>7, Zenon DEF ConnectRemote
      <4> QED BY <4>2, <3>0, Zenon DEF NetRecords
    <3> QED BY <3>1, <3>2
  <2>2. Callbacks(d, d.wide) BY <2>1, <1>4, SameCallbacks
  <2>3. net' = [TellNode(d) EXCEPT !.connectCalled = TRUE, !.parent = TRUE]
    BY <2>0, <1>2, <1>7
  <2>4. Good(net')
    BY <2>1, <2>2, <2>3, <1>4, <1>7, AgreedGood, Zenon DEF Ready
  <2> QED BY <2>4 DEF NetInv
<1> QED BY <1>5, <1>6, <1>7

\* connect() of a PipeTransport.
LEMMA PipeConnectGood ==
    ASSUME NetInv, ~net.closed, ~net.broken, PipeConnect
    PROVE  NetInv'
<1>0. PICK b : b = Begin OBVIOUS
<1>1. /\ Ready(b) /\ Callbacks(b, b.wide) /\ b.mode.pipe /\ b.tuple = Nothing
      /\ b.mode = net.mode
  BY <1>0, BeginReady DEF PipeConnect, PlainIsConnected
<1>2. ~b.connectCalled BY <1>1, Zenon DEF Ready, Sessions
<1>a. PICK c : c = IF b.mode.srtp THEN CreateSessions(b) ELSE b OBVIOUS
<1>3. PICK remote \in Remotes :
        \/ net' = Failed(b)
        \/ /\ remote # Nothing
           /\ net' = [TellNode([c EXCEPT !.tuple = [socket |-> "rtp", addr |-> remote.addr]])
                       EXCEPT !.parent = TRUE]
  BY <1>0, <1>1, <1>a, ZenonT(30) DEF PipeConnect
<1>4. CASE net' = Failed(b)
  BY <1>1, <1>2, <1>4, FailedReady, ReadyGood DEF NetInv
<1>5. ASSUME NEW t, t = [socket |-> "rtp", addr |-> remote.addr], remote # Nothing,
             NEW d, d = [c EXCEPT !.tuple = t], net' = [TellNode(d) EXCEPT !.parent = TRUE]
      PROVE  NetInv'
  <2>1. /\ Ready(c) /\ Callbacks(c, c.wide) /\ ~c.connectCalled /\ c.mode = b.mode
        /\ c.mode.srtp => /\ c.send = [suite |-> c.suite, key |-> c.key]
                          /\ c.recv # Nothing
    BY <1>1, <1>2, <1>a, CreateSessionsReady
  <2>2. t \in MaybeTuples BY <1>5, FieldsHold DEF Remotes, Tuples
  <2>3. c \in NetRecords BY <2>1, Zenon DEF Ready
  <2>4. /\ d \in NetRecords
        /\ d.mode = c.mode /\ d.send = c.send /\ d.recv = c.recv
        /\ d.suite = c.suite /\ d.key = c.key /\ d.connectCalled = c.connectCalled
        /\ d.out = c.out /\ d.passed = c.passed /\ d.closed = c.closed
        /\ d.broken = c.broken /\ d.wide = c.wide
        /\ d.twice = c.twice /\ d.queue = c.queue /\ d.answered = c.answered
    BY <1>5, <2>2, <2>3, Zenon DEF NetRecords
  <2>5. Callbacks(d, d.wide) BY <2>1, <2>4, SameCallbacks, Zenon
  <2>8. Good(net')
    BY <1>1, <1>5, <2>1, <2>4, <2>5, AgreedGood, ZenonT(30) DEF Ready
  <2> QED BY <2>8 DEF NetInv
<1> QED BY <1>3, <1>4, <1>5, Zenon

\* A packet comes.
LEMMA ReceiveGood ==
    ASSUME NetInv, ~net.closed, ~net.broken, Receive
    PROVE  NetInv'
<1>0. PICK b : b = Begin OBVIOUS
<1>1. Ready(b) /\ Callbacks(b, b.wide) /\ b.mode = net.mode
  BY <1>0, BeginReady
<1>a. PICK socket \in {"rtp", "rtcp"}, addr \in Addresses :
        \/ ~net.mode.pipe /\ OnPacketReceived(b, [socket |-> socket, addr |-> addr])
        \/ net.mode.pipe /\ PipeOnPacketReceived(b, [socket |-> socket, addr |-> addr])
  BY <1>0 DEF Receive
<1>b. PICK from : from = [socket |-> socket, addr |-> addr] BY Zenon
<1>c. from \in Tuples BY <1>b DEF Tuples
<1>3. CASE ~net.mode.pipe
  <2>1. \/ \E intact \in BOOLEAN : net' = OnRtpDataReceived(b, from, intact)
        \/ \E decrypts, parses \in BOOLEAN :
               net' = OnRtcpDataReceived(b, from, decrypts, parses)
        \/ net' = OnSctpDataReceived(b, from)
    BY <1>a, <1>b, <1>3 DEF OnPacketReceived
  <2> QED BY <2>1, <1>1, <1>c, RtpGood, RtcpGood, SctpGood DEF NetInv
<1>4. CASE net.mode.pipe
  <2>1. \/ \E intact \in BOOLEAN : \/ net' = PipeOnRtpDataReceived(b, from, intact)
                                  \/ net' = PipeOnRtcpDataReceived(b, from, intact)
        \/ net' = PipeOnSctpDataReceived(b, from)
    BY <1>a, <1>b, <1>4 DEF PipeOnPacketReceived
  <2> QED BY <2>1, <1>1, <1>4, <1>c, PipePacketGood, Zenon DEF NetInv
<1> QED BY <1>3, <1>4

-----------------------------------------------------------------------------
\* The callback of a packet that was neither answered nor waits is run.
LEMMA AnswerGood ==
    ASSUME NEW b \in NetRecords, NodeKnows(b), Sessions(b), Peer(b),
           ~b.closed, ~b.broken, ~b.twice, NEW n \in Nat, NEW info \in Nat,
           NEW sent \in BOOLEAN,
           n \notin b.answered, n \notin Waiting(b),
           b.answered \cap Waiting(b) = {},
           b.answered \cup Waiting(b) \cup {n} = 1..b.wide,
           \A i, j \in 1..Len(b.queue) : b.queue[i] = b.queue[j] => i = j
    PROVE  Good(Answer(b, n, sent, info))
<1>1. PICK A, R, T : /\ A = b.answered \cup {n} /\ T = (b.twice \/ n \in b.answered)
                     /\ R = IF sent THEN b.reported \cup {[packet |-> n, info |-> info]}
                            ELSE b.reported
  BY Zenon
<1>2. A \in SUBSET Nat /\ R \in SUBSET Reports /\ T = FALSE
  BY <1>1 DEF NetRecords, Reports
<1>3. PICK r : r = [b EXCEPT !.answered = A, !.twice = T, !.reported = R] OBVIOUS
<1>4. r = Answer(b, n, sent, info) BY <1>1, <1>3, Zenon DEF Answer
<1>5. r \in NetRecords BY <1>2, <1>3, Zenon DEF NetRecords
<1>6. /\ Alike(r, b) /\ r.out = b.out /\ r.passed = b.passed /\ r.queue = b.queue
      /\ r.wide = b.wide /\ r.answered = A /\ r.twice = FALSE
  BY <1>2, <1>3 DEF NetRecords, Alike
<1>7. NodeKnows(r) /\ Sessions(r) BY <1>6, AlikeKeeps
<1>8. Peer(r) BY <1>6, Zenon DEF Peer, Alike
<1>9. Callbacks(r, r.wide)
  <2>1. Waiting(r) = Waiting(b) BY <1>6 DEF Waiting
  <2> QED BY <1>1, <1>6, <2>1 DEF Callbacks
<1>10. r.twice = FALSE /\ ~r.broken BY <1>6 DEF Alike
<1>11. Good(r) BY <1>5, <1>7, <1>8, <1>9, <1>10, Zenon DEF Good
<1> QED BY <1>4, <1>11, Zenon

\* The datagram waits in the queue.
LEMMA QueueGood ==
    ASSUME NEW b \in NetRecords, NodeKnows(b), Sessions(b), Peer(b),
           ~b.closed, ~b.broken, ~b.twice, NEW n \in Nat,
           n \notin b.answered, n \notin Waiting(b),
           b.answered \cap Waiting(b) = {},
           b.answered \cup Waiting(b) \cup {n} = 1..b.wide,
           \A i, j \in 1..Len(b.queue) : b.queue[i] = b.queue[j] => i = j
    PROVE  Good([b EXCEPT !.queue = Append(@, n)])
<1>1. PICK q : q = Append(b.queue, n) BY Zenon
<1>2. b.queue \in Seq(Nat) BY Zenon DEF NetRecords
<1>3. /\ q \in Seq(Nat) /\ Len(q) = Len(b.queue) + 1 /\ Len(b.queue) \in Nat
      /\ q[Len(b.queue) + 1] = n
      /\ \A i \in 1..Len(b.queue) : q[i] = b.queue[i]
  BY <1>1, <1>2, SMTT(30)
<1>4. PICK r : r = [b EXCEPT !.queue = q] BY Zenon
<1>5. r = [b EXCEPT !.queue = Append(@, n)] BY <1>1, <1>4
<1>6. r \in NetRecords BY <1>3, <1>4, Zenon DEF NetRecords
<1>7. /\ Alike(r, b) /\ r.out = b.out /\ r.passed = b.passed /\ r.queue = q
      /\ r.wide = b.wide /\ r.answered = b.answered /\ r.twice = b.twice
  BY <1>4 DEF NetRecords, Alike
<1>8. NodeKnows(r) /\ Sessions(r) BY <1>7, AlikeKeeps
<1>9. Peer(r) BY <1>7, Zenon DEF Peer, Alike
<1>a. PICK L \in Nat : L = Len(b.queue) BY <1>3, Zenon
<1>b. \A i \in 1..(L + 1) : i \in 1..L \/ i = L + 1 OBVIOUS
<1>c. \A i \in 1..L : i \in 1..(L + 1) OBVIOUS
<1>d. L + 1 \in 1..(L + 1) OBVIOUS
<1>10. Waiting(r) = Waiting(b) \cup {n}
  <2>1. Waiting(r) = {q[i] : i \in 1..(L + 1)} /\ Waiting(b) = {b.queue[i] : i \in 1..L}
    BY <1>3, <1>7, <1>a, SMTT(30) DEF Waiting
  <2>2. ASSUME NEW i \in 1..(L + 1) PROVE q[i] \in Waiting(b) \cup {n}
    BY <1>3, <1>a, <1>b, <2>1, Zenon
  <2>3. ASSUME NEW i \in 1..L PROVE b.queue[i] \in Waiting(r)
    <3>1. b.queue[i] = q[i] /\ i \in 1..(L + 1) BY <1>3, <1>a, <1>c
    <3> QED BY <2>1, <3>1, Zenon
  <2>4. n \in Waiting(r) BY <1>3, <1>a, <1>d, <2>1, Zenon
  <2>5. Waiting(r) \subseteq Waiting(b) \cup {n} BY <2>1, <2>2, ZenonT(40)
  <2>6. Waiting(b) \cup {n} \subseteq Waiting(r) BY <2>1, <2>3, <2>4, Zenon
  <2> QED BY <2>5, <2>6
<1>11. \A i, j \in 1..Len(q) : q[i] = q[j] => i = j
  <2>1. \A i \in 1..Len(b.queue) : q[i] # n BY <1>3, Zenon DEF Waiting
  <2> QED BY <1>3, <1>a, <1>b, <2>1, Zenon
<1>12. Callbacks(r, r.wide) BY <1>7, <1>10, <1>11, Zenon DEF Callbacks
<1> QED BY <1>5, <1>6, <1>7, <1>8, <1>9, <1>12 DEF Good, Alike

\* SendRtpPacket(): the packet numbered last is sent, refused or queued.
LEMMA SendRtpGood ==
    ASSUME NEW b, Ready(b), b.wide # 0, Callbacks(b, b.wide - 1), NEW outcome \in Outcomes
    PROVE  Good(SendRtpPacket(b, outcome))
<1>a. b \in NetRecords BY DEF Ready
<1>b. PICK n : n = b.wide OBVIOUS
<1>c. n \in Nat /\ n # 0 BY <1>a, <1>b DEF NetRecords
<1>d. n \notin 1..(n - 1) /\ (1..(n - 1)) \cup {n} = 1..n BY <1>c
<1>1. /\ NodeKnows(b) /\ Sessions(b) /\ Peer(b) /\ ~b.closed /\ ~b.broken /\ ~b.twice
      /\ n \notin b.answered /\ n \notin Waiting(b) /\ b.answered \cap Waiting(b) = {}
      /\ b.answered \cup Waiting(b) \cup {n} = 1..n
      /\ \A i, j \in 1..Len(b.queue) : b.queue[i] = b.queue[j] => i = j
  BY <1>b, <1>d, Zenon DEF Ready, Callbacks, Peer
<1>2. CASE ~PlainIsConnected(b)
  <2>1. SendRtpPacket(b, outcome) = Answer(b, n, FALSE, n)
    BY <1>2, <1>b DEF SendRtpPacket
  <2>2. b.answered \cup Waiting(b) \cup {n} = 1..b.wide BY <1>1, <1>b, SMTT(30)
  <2>3. \A sent \in BOOLEAN : Good(Answer(b, n, sent, n))
    BY <2>2, <1>1, <1>a, <1>c, AnswerGood, Zenon
  <2> QED BY <2>1, <2>3, Zenon
<1>3. CASE PlainIsConnected(b) /\ b.mode.srtp /\ b.send = Nothing
  <2>0. PICK r : r = [b EXCEPT !.broken = TRUE] BY Zenon
  <2>1. SendRtpPacket(b, outcome) = r BY <1>3, <2>0 DEF SendRtpPacket
  <2>2. r \in NetRecords BY <1>a, <2>0, Zenon DEF NetRecords
  <2>3. /\ r.mode = b.mode /\ r.tuple = b.tuple /\ r.rtcpTuple = b.rtcpTuple
        /\ r.node = b.node /\ r.parent = b.parent /\ r.connectCalled = b.connectCalled
        /\ r.send = b.send /\ r.recv = b.recv /\ r.closed = b.closed
        /\ r.passed = b.passed /\ r.out = b.out /\ r.twice = b.twice /\ r.broken
    BY <1>a, <2>0 DEF NetRecords
  <2>4. NodeKnows(r) /\ Sessions(r) /\ Peer(r)
    <3>1. NodeKnows(r) BY <1>1, <2>3, Zenon DEF NodeKnows
    <3>2. Sessions(r) BY <1>1, <2>3, Zenon DEF Sessions, Secured
    <3>3. Peer(r) BY <1>1, <2>3, ZenonT(40) DEF Peer
    <3> QED BY <3>1, <3>2, <3>3
  <2>5. Early(b)
    BY <1>1, <1>3, <1>a, NothingIsNoRecord, Zenon
       DEF Sessions, Secured, Early, PlainIsConnected, NetRecords
  <2>6. Early(r) BY <2>3, <2>5, Zenon DEF Early
  <2> QED BY <2>1, <2>2, <2>3, <2>4, <2>6, <1>1, Zenon DEF Good
<1>4. CASE PlainIsConnected(b) /\ ~(b.mode.srtp /\ b.send = Nothing)
  <2>0. PICK c : c = Send(b, "rtp", b.tuple) OBVIOUS
  <2>1. SendRtpPacket(b, outcome) = UdpSend(c, n, outcome)
    BY <1>4, <1>b, <2>0 DEF SendRtpPacket
  <2>2. b.tuple \in Tuples BY <1>4, <1>a, Zenon DEF PlainIsConnected, NetRecords, MaybeTuples
  <2>3. PICK o \in OutRecords : o = [kind |-> "rtp", to |-> b.tuple]
    BY <2>2, FieldsHold, Zenon DEF Kinds
  <2>4. c = [b EXCEPT !.out = o] BY <2>0, <2>3 DEF Send
  <2>5. c \in NetRecords BY <1>a, <2>4, Zenon DEF NetRecords
  <2>6. /\ Alike(c, b) /\ c.passed = b.passed /\ c.out = o /\ c.twice = b.twice
        /\ c.queue = b.queue /\ c.answered = b.answered /\ c.wide = b.wide
    BY <1>a, <2>4 DEF NetRecords, Alike
  <2>7. NodeKnows(c) /\ Sessions(c) BY <1>1, <2>6, AlikeKeeps, Zenon
  <2>8. Peer(c)
    BY <1>1, <1>4, <2>3, <2>6, SMTT(30) DEF Peer, Alike, NodeKnows, PlainIsConnected, Ready
  <2>9. Waiting(c) = Waiting(b) BY <2>6, Zenon DEF Waiting
  <2>10. /\ ~c.closed /\ ~c.broken /\ ~c.twice
         /\ n \notin c.answered /\ n \notin Waiting(c) /\ c.answered \cap Waiting(c) = {}
         /\ c.answered \cup Waiting(c) \cup {n} = 1..c.wide
         /\ \A i, j \in 1..Len(c.queue) : c.queue[i] = c.queue[j] => i = j
    BY <1>1, <1>b, <2>6, <2>9, Zenon DEF Alike
  <2>11. \A sent \in BOOLEAN : Good(Answer(c, n, sent, n))
    BY <2>5, <2>7, <2>8, <2>10, <1>c, AnswerGood, Zenon
  <2>12. Good([c EXCEPT !.queue = Append(@, n)])
    BY <2>5, <2>7, <2>8, <2>10, <1>c, QueueGood
  <2>13. Good(UdpSend(c, n, outcome))
    BY <2>11, <2>12, Zenon DEF UdpSend, Outcomes
  <2> QED BY <2>1, <2>13
<1> QED BY <1>2, <1>3, <1>4

\* The three ways a packet gets its number.
LEMMA ConsumerSendGood ==
    ASSUME NetInv, ~net.closed, ~net.broken, NEW outcome \in Outcomes,
           net' = SendRtpPacket(Numbered, outcome)
    PROVE  NetInv'
<1>0. PICK a : a = Begin OBVIOUS
<1>1. Ready(a) /\ Callbacks(a, a.wide) BY <1>0, BeginReady
<1>2. a \in NetRecords /\ a.wide \in Nat BY <1>1, Zenon DEF Ready, NetRecords
<1>3. PICK w \in Nat : w = a.wide + 1 BY <1>2
<1>4. PICK b : b = [a EXCEPT !.wide = w] BY Zenon
<1>5. b = Numbered BY <1>0, <1>3, <1>4 DEF Numbered
<1>6. b \in NetRecords BY <1>2, <1>4, Zenon DEF NetRecords
<1>7. /\ Alike(b, a) /\ b.passed = a.passed /\ b.out = a.out /\ b.twice = a.twice
      /\ b.queue = a.queue /\ b.answered = a.answered /\ b.wide = w
  BY <1>2, <1>4 DEF NetRecords, Alike
<1>8. NodeKnows(b) /\ Sessions(b) BY <1>1, <1>7, AlikeKeeps, Zenon DEF Ready
<1>9. Ready(b) BY <1>1, <1>6, <1>7, <1>8, Zenon DEF Ready, Alike
<1>10. b.wide # 0 /\ b.wide - 1 = a.wide BY <1>2, <1>3, <1>7, SMTT(30)
<1>11. Callbacks(b, b.wide - 1) BY <1>1, <1>7, <1>10, SameCallbacks
<1>12. Good(SendRtpPacket(b, outcome)) BY <1>9, <1>10, <1>11, SendRtpGood
<1> QED BY <1>5, <1>12 DEF NetInv

\* OnUvSend(): the datagram at the head of the queue leaves it.
LEMMA UvSendGood ==
    ASSUME NetInv, ~net.closed, ~net.broken, OnUvSend
    PROVE  NetInv'
<1>0. PICK a : a = Begin OBVIOUS
<1>1. Ready(a) /\ Callbacks(a, a.wide) /\ a.queue = net.queue /\ a.wide = net.wide
  BY <1>0, BeginReady
<1>2. a \in NetRecords /\ a.queue \in Seq(Nat) BY <1>1, Zenon DEF Ready, NetRecords
<1>3. PICK q, n : q = Tail(a.queue) /\ n = Head(a.queue) BY Zenon
<1>4. a.queue # <<>> BY <1>1 DEF OnUvSend
<1>a. q \in Seq(Nat) BY <1>2, <1>3, <1>4
<1>5. PICK L \in Nat : L = Len(q) BY <1>a
<1>6. /\ q \in Seq(Nat) /\ n \in Nat /\ Len(a.queue) = L + 1 /\ n = a.queue[1]
      /\ \A i \in 1..L : q[i] = a.queue[i + 1]
  BY <1>2, <1>3, <1>4, <1>5, SMTT(30)
<1>7. PICK b : b = [a EXCEPT !.queue = q] BY Zenon
<1>8. PICK sent \in BOOLEAN, info \in 1..net.wide : net' = Answer(b, n, sent, info)
  BY <1>0, <1>1, <1>3, <1>7 DEF OnUvSend
<1>9. b \in NetRecords BY <1>2, <1>6, <1>7, Zenon DEF NetRecords
<1>10. /\ Alike(b, a) /\ b.passed = a.passed /\ b.out = a.out /\ b.twice = a.twice
       /\ b.queue = q /\ b.answered = a.answered /\ b.wide = a.wide
  BY <1>2, <1>7 DEF NetRecords, Alike
<1>11. NodeKnows(b) /\ Sessions(b) BY <1>1, <1>10, AlikeKeeps, Zenon DEF Ready
<1>12. Peer(b) BY <1>1, <1>10, Zenon DEF Peer, Ready
<1>13. \A i \in 1..L : i + 1 \in 1..(L + 1) /\ i + 1 # 1 OBVIOUS
<1>14. \A i \in 1..(L + 1) : i = 1 \/ (i - 1 \in 1..L /\ (i - 1) + 1 = i) OBVIOUS
<1>15. Waiting(a) = {a.queue[i] : i \in 1..(L + 1)} /\ Waiting(b) = {q[i] : i \in 1..L}
  BY <1>5, <1>6, <1>10, Zenon DEF Waiting
<1>16. n \in Waiting(a) BY <1>6, <1>15
<1>17. Waiting(b) \subseteq Waiting(a) BY <1>6, <1>13, <1>15, Zenon
<1>18. Waiting(a) \subseteq Waiting(b) \cup {n}
  <2>1. ASSUME NEW i \in 1..(L + 1), i # 1 PROVE a.queue[i] \in Waiting(b)
    <3>1. i - 1 \in 1..L /\ (i - 1) + 1 = i BY <2>1, <1>14
    <3>2. q[i - 1] = a.queue[i] BY <3>1, <1>6, Zenon
    <3> QED BY <3>1, <3>2, <1>15
  <2>2. ASSUME NEW i \in 1..(L + 1) PROVE a.queue[i] \in Waiting(b) \cup {n}
    BY <2>1, <1>6
  <2> QED BY <2>2, <1>15
<1>19. \A i, j \in 1..(L + 1) : a.queue[i] = a.queue[j] => i = j
  BY <1>1, <1>6 DEF Callbacks
<1>20. n \notin Waiting(b)
  <2>1. ASSUME NEW i \in 1..L PROVE q[i] # n
    BY <1>6, <1>13, <1>19
  <2> QED BY <2>1, <1>15
<1>21. \A i, j \in 1..Len(b.queue) : b.queue[i] = b.queue[j] => i = j
  <2>1. ASSUME NEW i \in 1..L, NEW j \in 1..L, q[i] = q[j] PROVE i = j
    <3>1. i + 1 = j + 1 BY <2>1, <1>6, <1>13, <1>19
    <3> QED BY <3>1
  <2> QED BY <2>1, <1>5, <1>10
<1>22. /\ n \notin b.answered /\ b.answered \cap Waiting(b) = {}
       /\ b.answered \cup Waiting(b) \cup {n} = 1..b.wide /\ ~b.twice
  BY <1>1, <1>10, <1>16, <1>17, <1>18, ZenonT(40) DEF Callbacks
<1>23. info \in Nat BY <1>1, <1>2 DEF NetRecords
<1>24. Good(Answer(b, n, sent, info))
  BY <1>1, <1>6, <1>9, <1>10, <1>11, <1>12, <1>20, <1>21, <1>22, <1>23, AnswerGood, Zenon
     DEF Ready, Alike
<1> QED BY <1>8, <1>24 DEF NetInv

\* RTCP and SCTP.
LEMMA SendRtcpGood ==
    ASSUME NetInv, ~net.closed, ~net.broken, SendRtcpPacket \/ SendSctpData
    PROVE  NetInv'
<1>0. PICK b : b = Begin OBVIOUS
<1>1. /\ Ready(b) /\ Callbacks(b, b.wide) /\ b.tuple = net.tuple
      /\ b.rtcpTuple = net.rtcpTuple /\ b.mode = net.mode /\ b.send = net.send
      /\ b.tuple # Nothing
  BY <1>0, BeginReady DEF SendRtcpPacket, SendSctpData, PlainIsConnected
<1>a. b \in NetRecords BY <1>1 DEF Ready
<1>2. \/ net' = b
      \/ net' = [b EXCEPT !.broken = TRUE] /\ b.mode.srtp /\ b.send = Nothing
      \/ \E kind \in {"rtcp", "sctp"}, to \in Tuples :
            /\ net' = Send(b, kind, to)
            /\ to = IF kind = "rtcp" /\ ~b.mode.mux THEN b.rtcpTuple ELSE b.tuple
  <2>1. b.tuple \in Tuples BY <1>1, <1>a, Zenon DEF NetRecords, MaybeTuples
  <2>2. b.rtcpTuple # Nothing => b.rtcpTuple \in Tuples
    BY <1>a DEF NetRecords, MaybeTuples
  <2>3. CASE SendSctpData
    BY <2>1, <2>3, <1>0, <1>1 DEF SendSctpData
  <2>4. CASE SendRtcpPacket
    BY <2>1, <2>2, <2>4, <1>0, <1>1 DEF SendRtcpPacket
  <2> QED BY <2>3, <2>4
<1>3. CASE net' = b BY <1>1, <1>3, ReadyGood DEF NetInv
<1>4. CASE net' = [b EXCEPT !.broken = TRUE] /\ b.mode.srtp /\ b.send = Nothing
  <2>0. PICK r : r = [b EXCEPT !.broken = TRUE] BY Zenon
  <2>2. r \in NetRecords BY <1>a, <2>0, Zenon DEF NetRecords
  <2>3. /\ r.mode = b.mode /\ r.tuple = b.tuple /\ r.rtcpTuple = b.rtcpTuple
        /\ r.node = b.node /\ r.parent = b.parent /\ r.connectCalled = b.connectCalled
        /\ r.send = b.send /\ r.recv = b.recv /\ r.closed = b.closed
        /\ r.passed = b.passed /\ r.out = b.out /\ r.twice = b.twice /\ r.broken
    BY <1>a, <2>0 DEF NetRecords
  <2>4. NodeKnows(r) /\ Sessions(r) /\ Peer(r)
    BY <1>1, <2>3, Zenon DEF NodeKnows, Sessions, Secured, Peer, Ready
  <2>5. Early(b)
    BY <1>1, <1>4, <1>a, NothingIsNoRecord DEF Ready, Sessions, Secured, Early, NetRecords
  <2>6. Early(r) BY <2>3, <2>5, Zenon DEF Early
  <2>7. Good(r) BY <2>2, <2>3, <2>4, <2>6, <1>1, Zenon DEF Good, Callbacks
  <2> QED BY <2>0, <2>7, <1>4 DEF NetInv
<1>5. ASSUME NEW kind \in {"rtcp", "sctp"}, NEW to \in Tuples, net' = Send(b, kind, to),
             to = IF kind = "rtcp" /\ ~b.mode.mux THEN b.rtcpTuple ELSE b.tuple
      PROVE  NetInv'
  <2>0. PICK r : r = Send(b, kind, to) OBVIOUS
  <2>1. PICK o \in OutRecords : o = [kind |-> kind, to |-> to] BY FieldsHold, Zenon DEF Kinds
  <2>2. r = [b EXCEPT !.out = o] BY <2>0, <2>1 DEF Send
  <2>3. r \in NetRecords BY <1>a, <2>2 DEF NetRecords
  <2>4. /\ Alike(r, b) /\ r.passed = b.passed /\ r.out = o /\ r.twice = b.twice
        /\ r.queue = b.queue /\ r.answered = b.answered /\ r.wide = b.wide
    BY <1>a, <2>2 DEF NetRecords, Alike
  <2>5. NodeKnows(r) /\ Sessions(r) BY <1>1, <2>4, AlikeKeeps, Zenon DEF Ready
  <2>6. to # Nothing BY NothingIsNoRecord, Zenon
  <2>7. Peer(r)
    <3>1. r.passed = Nothing BY <1>1, <2>4, Zenon DEF Ready
    <3>2. r.out.kind = kind /\ r.out.to = to BY <2>1, <2>4
    <3>3. IF kind = "rtcp" /\ ~r.mode.mux THEN to = r.node.rtcpTuple
          ELSE to = r.node.tuple /\ r.parent
      BY <1>1, <1>5, <2>4, <2>6, Zenon DEF Alike, NodeKnows, Ready
    <3> QED BY <3>1, <3>2, <3>3 DEF Peer
  <2>8. Callbacks(r, r.wide) BY <1>1, <2>4, SameCallbacks, Zenon
  <2>9. Good(r) BY <1>1, <2>3, <2>4, <2>5, <2>7, <2>8, Zenon DEF Good, Alike, Ready, Callbacks
  <2> QED BY <2>0, <2>9, <1>5, Zenon DEF NetInv
<1> QED BY <1>2, <1>3, <1>4, <1>5

\* The sockets are closed.
LEMMA CloseGood ==
    ASSUME NetInv, ~net.closed, ~net.broken, Close
    PROVE  NetInv'
<1>0. PICK b : b = Begin OBVIOUS
<1>1. Ready(b) /\ Callbacks(b, b.wide) BY <1>0, BeginReady
<1>2. b \in NetRecords BY <1>1, SMTT(30) DEF Ready
<1>3. PICK c : c = Failed(b) OBVIOUS
<1>4. c \in NetRecords BY <1>2, <1>3, FieldsHold, Zenon DEF Failed, NetRecords
<1>5. /\ c.mode = b.mode /\ c.tuple = Nothing /\ c.rtcpTuple = Nothing
      /\ c.out = b.out /\ c.passed = b.passed /\ c.twice = b.twice /\ c.broken = b.broken
      /\ c.connectCalled = b.connectCalled
  BY <1>2, <1>3 DEF Failed, NetRecords
<1>a. <<>> \in Seq(Nat) OBVIOUS
<1>6. PICK q \in Seq(Nat) : q = <<>> BY <1>a, Zenon
<1>7. PICK r : r = [c EXCEPT !.closed = TRUE, !.queue = q] OBVIOUS
<1>8. net' = r BY <1>0, <1>3, <1>6, <1>7 DEF Close
<1>9. r \in NetRecords BY <1>4, <1>7, Zenon DEF NetRecords
<1>10. /\ r.mode = c.mode /\ r.tuple = c.tuple /\ r.rtcpTuple = c.rtcpTuple
       /\ r.out = c.out /\ r.passed = c.passed /\ r.twice = c.twice /\ r.broken = c.broken
       /\ r.connectCalled = c.connectCalled /\ r.closed
  BY <1>4, <1>7 DEF NetRecords
<1>11. NodeKnows(r) /\ Sessions(r) /\ Peer(r)
  BY <1>1, <1>5, <1>10, Zenon DEF NodeKnows, Sessions, Peer, Ready
<1>12. Good(r) BY <1>1, <1>5, <1>9, <1>10, <1>11, Zenon DEF Good, Ready, Callbacks
<1> QED BY <1>8, <1>12 DEF NetInv

\* Every step keeps the invariant.
LEMMA NetNextInv == ASSUME NetInv, [NetNext]_net PROVE NetInv'
<1>1. CASE UNCHANGED net BY <1>1 DEF NetInv
<1>2. CASE NetNext
  <2>1. ~net.closed /\ ~net.broken BY <1>2 DEF NetNext
  <2>2. CASE PlainConnect BY <2>1, <2>2, ConnectGood
  <2>3. CASE PipeConnect BY <2>1, <2>3, PipeConnectGood
  <2>4. CASE Receive BY <2>1, <2>4, ReceiveGood
  <2>5. CASE OnConsumerSendRtpPacket \/ OnConsumerRetransmitRtpPacket
             \/ OnProbationRtpPacket
    BY <2>1, <2>5, ConsumerSendGood, Zenon DEF OnConsumerSendRtpPacket,
       OnConsumerRetransmitRtpPacket, OnProbationRtpPacket
  <2>6. CASE OnUvSend BY <2>1, <2>6, UvSendGood
  <2>7. CASE SendRtcpPacket \/ SendSctpData BY <2>1, <2>7, SendRtcpGood
  <2>8. CASE Close BY <2>1, <2>8, CloseGood
  <2> QED BY <1>2, <2>2, <2>3, <2>4, <2>5, <2>6, <2>7, <2>8 DEF NetNext
<1> QED BY <1>1, <1>2

\* A PlainTransport or PipeTransport of any mode listens and sends only to the peer that
\* Node knows of, has the sessions connect() answered with, and runs each send callback once.
THEOREM PeerAgreed == NetSpec => []PeerAndKeysAgreed
<1>1. NetInit => NetInv BY NetInitInv
<1>2. NetInv /\ [NetNext]_net => NetInv' BY NetNextInv
<1>3. NetInv => PeerAndKeysAgreed BY NetInvImplies
<1> QED BY <1>1, <1>2, <1>3, PTL DEF NetSpec

=============================================================================
