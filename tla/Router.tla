------------------------------- MODULE Router -------------------------------
(***************************************************************************)
(* The bookkeeping of one Router of the worker: which Transports,          *)
(* Producers, Consumers and RtpObservers exist, who points to whom, and    *)
(* what every creation, closure, pause and resume does to those pointers.  *)
(*                                                                         *)
(* The same fact is stored several times.  A Producer is in its            *)
(* Transport's mapProducers and RtpListener, in three maps of the Router,  *)
(* in the maps of the RtpObservers that follow it and in the registrator   *)
(* of channel handlers.  The maps hold raw pointers, so an entry that      *)
(* survives its object is a dangling pointer.                              *)
(*                                                                         *)
(* The worker is single threaded and a handler runs to completion, with    *)
(* its listener callbacks nested inside it: one action is one request with *)
(* the whole cascade it triggers.  An identifier stands for the object and *)
(* for the pointer to it.                                                  *)
(***************************************************************************)
EXTENDS Naturals, FiniteSets

CONSTANTS
    Transports,
    Producers,
    Consumers,
    Observers,
    AudioProducers,     \* the Producers of kind AUDIO
    LevelObservers      \* the AudioLevelObservers; the others are ActiveSpeakerObservers

ASSUME RouterAssumption ==
    /\ AudioProducers \subseteq Producers
    /\ LevelObservers \subseteq Observers
    /\ Transports \cap (Producers \cup Consumers \cup Observers) = {}     \* UUIDs
    /\ Producers \cap (Consumers \cup Observers) = {}
    /\ Consumers \cap Observers = {}

VARIABLES
    routerOpen,
    mapTransports,              \* Router::mapTransports
    mapProducers,               \* Router::mapProducers
    mapProducerConsumers,       \* Router::mapProducerConsumers
    mapConsumerProducer,        \* Router::mapConsumerProducer
    mapProducerRtpObservers,    \* Router::mapProducerRtpObservers
    mapRtpObservers,            \* Router::mapRtpObservers
    transportProducers,         \* Transport::mapProducers, per Transport
    transportConsumers,         \* Transport::mapConsumers, per Transport
    rtpListener,                \* the Producers in Transport::rtpListener
    tracked,                    \* mapProducerDBovs or mapProducerSpeakers, per RtpObserver
    paused,                     \* the Producers with Producer::paused
    producerPaused,             \* the Consumers with Consumer::producerPaused
    handlers,                   \* ChannelMessageRegistrator::mapChannelRequestHandlers
    aborted                     \* an MS_ASSERT or a map.at() failed, which ends the worker

routerMaps == <<mapProducers, mapProducerConsumers, mapConsumerProducer, mapProducerRtpObservers>>

transportMaps == <<transportProducers, transportConsumers, rtpListener>>

vars == <<routerOpen, mapTransports, routerMaps, mapRtpObservers, transportMaps,
          tracked, paused, producerPaused, handlers, aborted>>

\* The function f without the keys in S.
Without(f, S) == [k \in DOMAIN f \ S |-> f[k]]

\* The function f with v at key k, which operator[] adds when it is missing.
With(f, k, v) == [x \in DOMAIN f \cup {k} |-> IF x = k THEN v ELSE f[x]]

Init ==
    /\ routerOpen = TRUE
    /\ mapTransports = {}
    /\ mapProducers = {}
    /\ mapProducerConsumers = [p \in {} |-> {}]
    /\ mapConsumerProducer = [c \in {} |-> {}]
    /\ mapProducerRtpObservers = [p \in {} |-> {}]
    /\ mapRtpObservers = {}
    /\ transportProducers = [t \in Transports |-> {}]
    /\ transportConsumers = [t \in Transports |-> {}]
    /\ rtpListener = [t \in Transports |-> {}]
    /\ tracked = [o \in Observers |-> {}]
    /\ paused = {}
    /\ producerPaused = {}
    /\ handlers = {}
    /\ aborted = FALSE

\* ROUTER_CREATE_*_TRANSPORT: a repeated id is refused by the Router or by
\* the registrator.
CreateTransport(t) ==
    /\ routerOpen
    /\ t \notin mapTransports \cup handlers
    /\ mapTransports' = mapTransports \cup {t}
    /\ handlers' = handlers \cup {t}
    /\ UNCHANGED <<routerOpen, routerMaps, mapRtpObservers, transportMaps, tracked,
                   paused, producerPaused, aborted>>

\* ROUTER_CREATE_ACTIVE_SPEAKER_OBSERVER, ROUTER_CREATE_AUDIO_LEVEL_OBSERVER.
CreateRtpObserver(o) ==
    /\ routerOpen
    /\ o \notin mapRtpObservers \cup handlers
    /\ mapRtpObservers' = mapRtpObservers \cup {o}
    /\ handlers' = handlers \cup {o}
    /\ UNCHANGED <<routerOpen, mapTransports, routerMaps, transportMaps, tracked,
                   paused, producerPaused, aborted>>

(***************************************************************************)
(* TRANSPORT_PRODUCE.  The Producer's constructor registers its handler.   *)
(* The RtpListener refuses it when an SSRC, MID or RID is taken, and the   *)
(* Router refuses a repeated id; each refusal undoes the steps before it.  *)
(***************************************************************************)
ProduceBegins(t, p) ==
    /\ t \in mapTransports
    /\ p \notin transportProducers[t] \cup handlers

Listening(t, p) == [rtpListener EXCEPT ![t] = @ \cup {p}]

ProduceAccepted(t, p) ==
    /\ ProduceBegins(t, p)
    /\ p \notin mapProducers
    /\ handlers' = handlers \cup {p}
    /\ rtpListener' = Listening(t, p)
    /\ transportProducers' = [transportProducers EXCEPT ![t] = @ \cup {p}]
    /\ mapProducers' = mapProducers \cup {p}
    /\ mapProducerConsumers' = With(mapProducerConsumers, p, {})
    /\ mapProducerRtpObservers' = With(mapProducerRtpObservers, p, {})
    /\ aborted' = (p \in DOMAIN mapProducerConsumers)
    /\ \E isPaused \in BOOLEAN : paused' = IF isPaused THEN paused \cup {p} ELSE paused
    /\ UNCHANGED <<routerOpen, mapTransports, mapConsumerProducer, mapRtpObservers,
                   transportConsumers, tracked, producerPaused>>

\* Mutant: the handler stays registered.
AfterDelete_Leak(p) == handlers \cup {p}

\* What `delete producer` in a catch block leaves in the registrator.
AfterDelete(p) == (handlers \cup {p}) \ {p}

\* RtpListener::AddProducer() threw, having removed its own entries, or
\* OnTransportNewProducer() threw and the catch block removes them.
ProduceRefused(t, p) ==
    /\ ProduceBegins(t, p)
    /\ handlers' = AfterDelete(p)
    /\ rtpListener' = [Listening(t, p) EXCEPT ![t] = @ \ {p}]
    /\ UNCHANGED <<routerOpen, mapTransports, routerMaps, mapRtpObservers,
                   transportProducers, transportConsumers, tracked, paused,
                   producerPaused, aborted>>

(***************************************************************************)
(* TRANSPORT_CONSUME and Router::OnTransportNewConsumer(), which copies    *)
(* the Producer's pause state into the new Consumer.                       *)
(***************************************************************************)
InitiallyPaused(c, p) == IF p \in paused THEN producerPaused \cup {c} ELSE producerPaused

ConsumeAccepted(t, c, p) ==
    /\ t \in mapTransports
    /\ c \notin transportConsumers[t] \cup handlers
    /\ p \in mapProducers
    /\ handlers' = handlers \cup {c}
    /\ producerPaused' = InitiallyPaused(c, p)
    /\ mapProducerConsumers' = With(mapProducerConsumers, p, mapProducerConsumers[p] \cup {c})
    /\ mapConsumerProducer' = With(mapConsumerProducer, c, p)
    /\ transportConsumers' = [transportConsumers EXCEPT ![t] = @ \cup {c}]
    /\ aborted' = (p \notin DOMAIN mapProducerConsumers \/ c \in DOMAIN mapConsumerProducer)
    /\ UNCHANGED <<routerOpen, mapTransports, mapProducers, mapProducerRtpObservers,
                   mapRtpObservers, transportProducers, rtpListener, tracked, paused>>

\* The Router does not know the Producer: the catch block deletes the Consumer.
ConsumeRefused(t, c, p) ==
    /\ t \in mapTransports
    /\ c \notin transportConsumers[t] \cup handlers
    /\ p \notin mapProducers
    /\ handlers' = AfterDelete(c)
    /\ UNCHANGED <<routerOpen, mapTransports, routerMaps, mapRtpObservers,
                   transportMaps, tracked, paused, producerPaused, aborted>>

(***************************************************************************)
(* The closure cascade.  PS are the Producers closed, one by one, through  *)
(* Router::OnTransportProducerClosed(); CS the Consumers that their own    *)
(* Transport then closes.  Each Consumer of a closed Producer, in whatever *)
(* Transport it lives, is removed there by ProducerClosed(), so that it is *)
(* no longer among CS.  The RtpObservers that follow a closed Producer     *)
(* drop it.                                                                *)
(***************************************************************************)
ClosedByProducer(PS) ==
    UNION {mapProducerConsumers[p] : p \in PS \cap DOMAIN mapProducerConsumers}

ClosedByTransport(PS, CS) == CS \ ClosedByProducer(PS)

\* The MS_ASSERTs on the way, in OnTransportProducerClosed(),
\* OnTransportConsumerProducerClosed() and OnTransportConsumerClosed().
CascadeAsserts(PS, CS) ==
    /\ PS \subseteq mapProducers
    /\ PS \subseteq DOMAIN mapProducerConsumers
    /\ PS \subseteq DOMAIN mapProducerRtpObservers
    /\ ClosedByProducer(PS) \subseteq DOMAIN mapConsumerProducer
    /\ \A c \in ClosedByTransport(PS, CS) :
          /\ c \in DOMAIN mapConsumerProducer
          /\ mapConsumerProducer[c] \in DOMAIN mapProducerConsumers \ PS

\* RtpObserver::RemoveProducer() of every RtpObserver that follows p.
Untrack(PS) ==
    [o \in Observers |->
        tracked[o] \ {p \in PS \cap DOMAIN mapProducerRtpObservers : o \in mapProducerRtpObservers[p]}]

Cascade(PS, CS) ==
    LET nested == ClosedByProducer(PS)
        own    == ClosedByTransport(PS, CS)
    IN  /\ aborted' = ~CascadeAsserts(PS, CS)
        /\ mapProducers' = mapProducers \ PS
        /\ mapProducerConsumers' =
              [p \in DOMAIN mapProducerConsumers \ PS |->
                  mapProducerConsumers[p] \
                      {c \in own \cap DOMAIN mapConsumerProducer : mapConsumerProducer[c] = p}]
        /\ mapProducerRtpObservers' = Without(mapProducerRtpObservers, PS)
        /\ mapConsumerProducer' = Without(mapConsumerProducer, nested \cup own)
        /\ tracked' = Untrack(PS)
        /\ transportProducers' = [t \in Transports |-> transportProducers[t] \ PS]
        /\ transportConsumers' = [t \in Transports |-> transportConsumers[t] \ (nested \cup own)]
        /\ paused' = paused \ PS
        /\ producerPaused' = producerPaused \ (nested \cup own)

\* TRANSPORT_CLOSE_PRODUCER.
CloseProducer(t, p) ==
    /\ t \in mapTransports
    /\ p \in transportProducers[t]
    /\ Cascade({p}, {})
    /\ rtpListener' = [rtpListener EXCEPT ![t] = @ \ {p}]
    /\ handlers' = handlers \ ({p} \cup ClosedByProducer({p}))
    /\ UNCHANGED <<routerOpen, mapTransports, mapRtpObservers>>

\* TRANSPORT_CLOSE_CONSUMER.
CloseConsumer(t, c) ==
    /\ t \in mapTransports
    /\ c \in transportConsumers[t]
    /\ Cascade({}, {c})
    /\ handlers' = handlers \ {c}
    /\ UNCHANGED <<routerOpen, mapTransports, mapRtpObservers, rtpListener>>

\* Mutant: the Router is not told of the Producers and Consumers.
CloseTransport_Silent(t) ==
    /\ t \in mapTransports
    /\ mapTransports' = mapTransports \ {t}
    /\ transportProducers' = [transportProducers EXCEPT ![t] = {}]
    /\ transportConsumers' = [transportConsumers EXCEPT ![t] = {}]
    /\ rtpListener' = [rtpListener EXCEPT ![t] = {}]
    /\ handlers' = handlers \ ({t} \cup transportProducers[t] \cup transportConsumers[t])
    /\ UNCHANGED <<routerOpen, routerMaps, mapRtpObservers, tracked, paused,
                   producerPaused, aborted>>

\* ROUTER_CLOSE_TRANSPORT: Transport::CloseProducersAndConsumers(), then the
\* Transport is deleted with its RtpListener.
CloseTransport(t) ==
    LET PS == transportProducers[t]
        CS == transportConsumers[t]
    IN  /\ t \in mapTransports
        /\ Cascade(PS, CS)
        /\ mapTransports' = mapTransports \ {t}
        /\ rtpListener' = [rtpListener EXCEPT ![t] = {}]
        /\ handlers' = handlers \ ({t} \cup PS \cup CS \cup ClosedByProducer(PS))
        /\ UNCHANGED <<routerOpen, mapRtpObservers>>

\* Mutant: the Producers still point to the observer.
CloseRtpObserver_KeepEntries(o) ==
    /\ o \in mapRtpObservers
    /\ mapRtpObservers' = mapRtpObservers \ {o}
    /\ tracked' = [tracked EXCEPT ![o] = {}]
    /\ handlers' = handlers \ {o}
    /\ UNCHANGED <<routerOpen, mapTransports, routerMaps, transportMaps, paused,
                   producerPaused, aborted>>

\* ROUTER_CLOSE_RTP_OBSERVER.
CloseRtpObserver(o) ==
    /\ o \in mapRtpObservers
    /\ mapRtpObservers' = mapRtpObservers \ {o}
    /\ mapProducerRtpObservers' =
          [p \in DOMAIN mapProducerRtpObservers |-> mapProducerRtpObservers[p] \ {o}]
    /\ tracked' = [tracked EXCEPT ![o] = {}]
    /\ handlers' = handlers \ {o}
    /\ UNCHANGED <<routerOpen, mapTransports, mapProducers, mapProducerConsumers,
                   mapConsumerProducer, transportMaps, paused, producerPaused, aborted>>

(***************************************************************************)
(* RTP_OBSERVER_ADD_PRODUCER and RTP_OBSERVER_REMOVE_PRODUCER.  Both       *)
(* observers refuse a video Producer, and the ActiveSpeakerObserver also   *)
(* one it has.                                                             *)
(***************************************************************************)
AddProducer(o, p) ==
    /\ o \in mapRtpObservers
    /\ p \in mapProducers
    /\ p \in AudioProducers
    /\ o \in LevelObservers \/ p \notin tracked[o]
    /\ tracked' = [tracked EXCEPT ![o] = @ \cup {p}]
    /\ mapProducerRtpObservers' =
          With(mapProducerRtpObservers, p, mapProducerRtpObservers[p] \cup {o})
    /\ UNCHANGED <<routerOpen, mapTransports, mapProducers, mapProducerConsumers,
                   mapConsumerProducer, mapRtpObservers, transportMaps, paused,
                   producerPaused, handlers, aborted>>

RemoveProducer(o, p) ==
    /\ o \in mapRtpObservers
    /\ p \in mapProducers
    /\ tracked' = [tracked EXCEPT ![o] = @ \ {p}]
    /\ mapProducerRtpObservers' =
          With(mapProducerRtpObservers, p, mapProducerRtpObservers[p] \ {o})
    /\ UNCHANGED <<routerOpen, mapTransports, mapProducers, mapProducerConsumers,
                   mapConsumerProducer, mapRtpObservers, transportMaps, paused,
                   producerPaused, handlers, aborted>>

(***************************************************************************)
(* PRODUCER_PAUSE and PRODUCER_RESUME.  An AudioLevelObserver forgets a    *)
(* paused Producer and inserts a resumed one.                              *)
(***************************************************************************)
LevelFollowers(p) ==
    IF p \in DOMAIN mapProducerRtpObservers
    THEN mapProducerRtpObservers[p] \cap LevelObservers
    ELSE {}

PauseProducer(t, p) ==
    /\ p \in transportProducers[t] \ paused
    /\ paused' = paused \cup {p}
    /\ aborted' = (p \notin DOMAIN mapProducerConsumers)
    /\ producerPaused' = producerPaused \cup mapProducerConsumers[p]
    /\ tracked' = [o \in Observers |-> IF o \in LevelFollowers(p) THEN tracked[o] \ {p} ELSE tracked[o]]
    /\ UNCHANGED <<routerOpen, mapTransports, routerMaps, mapRtpObservers, transportMaps, handlers>>

\* Mutant: a resumed Producer is not listened to again.
Retrack_None(p) == tracked

Retrack(p) == [o \in Observers |-> IF o \in LevelFollowers(p) THEN tracked[o] \cup {p} ELSE tracked[o]]

ResumeProducer(t, p) ==
    /\ p \in transportProducers[t] \cap paused
    /\ paused' = paused \ {p}
    /\ aborted' = (p \notin DOMAIN mapProducerConsumers)
    /\ producerPaused' = producerPaused \ mapProducerConsumers[p]
    /\ tracked' = Retrack(p)
    /\ UNCHANGED <<routerOpen, mapTransports, routerMaps, mapRtpObservers, transportMaps, handlers>>

\* An RTP packet of a Producer that is not paused reaches its Consumers and
\* RtpObservers.  AudioLevelObserver::ReceiveRtpPacket() looks the Producer
\* up with at().
RtpPacketReceived(t, p) ==
    /\ p \in rtpListener[t] \ paused
    /\ aborted' = \/ p \notin DOMAIN mapProducerConsumers
                  \/ \E o \in LevelFollowers(p) : p \notin tracked[o]
    /\ UNCHANGED <<routerOpen, mapTransports, routerMaps, mapRtpObservers, transportMaps,
                   tracked, paused, producerPaused, handlers>>

(***************************************************************************)
(* WORKER_CLOSE_ROUTER: ~Router() deletes the Transports, whose            *)
(* destructors delete Producers and Consumers without telling anyone, then *)
(* the RtpObservers, and clears its maps.  WORKER_CREATE_ROUTER makes a    *)
(* fresh one.                                                              *)
(***************************************************************************)
CloseRouter ==
    /\ routerOpen
    /\ routerOpen' = FALSE
    /\ mapTransports' = {}
    /\ mapProducers' = {}
    /\ mapProducerConsumers' = Without(mapProducerConsumers, DOMAIN mapProducerConsumers)
    /\ mapConsumerProducer' = Without(mapConsumerProducer, DOMAIN mapConsumerProducer)
    /\ mapProducerRtpObservers' = Without(mapProducerRtpObservers, DOMAIN mapProducerRtpObservers)
    /\ mapRtpObservers' = {}
    /\ transportProducers' = [t \in Transports |-> {}]
    /\ transportConsumers' = [t \in Transports |-> {}]
    /\ rtpListener' = [t \in Transports |-> {}]
    /\ tracked' = [o \in Observers |-> {}]
    /\ paused' = {}
    /\ producerPaused' = {}
    /\ handlers' = handlers \ (mapTransports \cup mapRtpObservers
                        \cup UNION {transportProducers[t] \cup transportConsumers[t] : t \in mapTransports})
    /\ UNCHANGED aborted

CreateRouter ==
    /\ ~routerOpen
    /\ routerOpen' = TRUE
    /\ UNCHANGED <<mapTransports, routerMaps, mapRtpObservers, transportMaps, tracked,
                   paused, producerPaused, handlers, aborted>>

Next ==
    \/ \E t \in Transports :
          \/ CreateTransport(t)
          \/ CloseTransport(t)
          \/ \E p \in Producers :
                \/ ProduceAccepted(t, p)
                \/ ProduceRefused(t, p)
                \/ CloseProducer(t, p)
                \/ PauseProducer(t, p)
                \/ ResumeProducer(t, p)
                \/ RtpPacketReceived(t, p)
                \/ \E c \in Consumers : ConsumeAccepted(t, c, p) \/ ConsumeRefused(t, c, p)
          \/ \E c \in Consumers : CloseConsumer(t, c)
    \/ \E o \in Observers :
          \/ CreateRtpObserver(o)
          \/ CloseRtpObserver(o)
          \/ \E p \in Producers : AddProducer(o, p) \/ RemoveProducer(o, p)
    \/ CloseRouter
    \/ CreateRouter

Spec == Init /\ [][Next]_vars

(***************************************************************************)
(* Properties.                                                             *)
(***************************************************************************)

\* Type invariant: each map holds the kind of pointer its C++ type says.
TypeOK ==
    /\ routerOpen \in BOOLEAN
    /\ mapTransports \subseteq Transports
    /\ mapProducers \subseteq Producers
    /\ DOMAIN mapProducerConsumers \subseteq Producers
    /\ mapProducerConsumers \in [DOMAIN mapProducerConsumers -> SUBSET Consumers]
    /\ DOMAIN mapConsumerProducer \subseteq Consumers
    /\ mapConsumerProducer \in [DOMAIN mapConsumerProducer -> Producers]
    /\ DOMAIN mapProducerRtpObservers \subseteq Producers
    /\ mapProducerRtpObservers \in [DOMAIN mapProducerRtpObservers -> SUBSET Observers]
    /\ mapRtpObservers \subseteq Observers
    /\ transportProducers \in [Transports -> SUBSET Producers]
    /\ transportConsumers \in [Transports -> SUBSET Consumers]
    /\ rtpListener \in [Transports -> SUBSET Producers]
    /\ tracked \in [Observers -> SUBSET Producers]
    /\ paused \subseteq Producers
    /\ producerPaused \subseteq Consumers
    /\ handlers \subseteq Transports \cup Producers \cup Consumers \cup Observers
    /\ aborted \in BOOLEAN

\* The Router's four maps and the Transports' maps describe the same objects:
\* every Producer and Consumer is owned by exactly one open Transport, and
\* mapProducerConsumers is the inverse of mapConsumerProducer.
MapsAgree ==
    /\ DOMAIN mapProducerConsumers = mapProducers
    /\ DOMAIN mapProducerRtpObservers = mapProducers
    /\ \A p \in mapProducers : \A c \in Consumers :
          (c \in mapProducerConsumers[p]) <=>
          (c \in DOMAIN mapConsumerProducer /\ mapConsumerProducer[c] = p)
    /\ \A c \in DOMAIN mapConsumerProducer : mapConsumerProducer[c] \in mapProducers
    /\ \A p \in Producers :
          (p \in mapProducers) <=> (\E t \in mapTransports : p \in transportProducers[t])
    /\ \A c \in Consumers :
          (c \in DOMAIN mapConsumerProducer) <=> (\E t \in mapTransports : c \in transportConsumers[t])
    /\ \A t \in Transports, u \in Transports :
          t # u => /\ transportProducers[t] \cap transportProducers[u] = {}
                   /\ transportConsumers[t] \cap transportConsumers[u] = {}

\* No map outlives the object it points to: RtpListeners and RtpObservers know
\* only live Producers, and the Router calls only live RtpObservers.
NoDanglingPointer ==
    /\ \A t \in Transports : rtpListener[t] = transportProducers[t]
    /\ \A t \in Transports \ mapTransports : transportProducers[t] = {} /\ transportConsumers[t] = {}
    /\ \A o \in Observers : tracked[o] \subseteq mapProducers
    /\ \A p \in DOMAIN mapProducerRtpObservers : mapProducerRtpObservers[p] \subseteq mapRtpObservers

\* An RtpObserver follows exactly the Producers the Router will tell it about:
\* what it tracks it gets packets and the closure of, and what it gets packets
\* of it tracks, except that an AudioLevelObserver may lack a paused Producer.
ObserversExact ==
    \A o \in Observers, p \in mapProducers :
        /\ p \in tracked[o] => o \in mapProducerRtpObservers[p]
        /\ o \in mapProducerRtpObservers[p] =>
              (p \in tracked[o] \/ (o \in LevelObservers /\ p \in paused))

\* The registrator routes channel requests to exactly the live objects, also
\* after creations that failed half way.
HandlersExact ==
    handlers = mapTransports \cup mapProducers \cup DOMAIN mapConsumerProducer \cup mapRtpObservers

\* A Consumer's producerPaused is its Producer's paused, however creation,
\* pause and resume interleave.
PauseMirrored ==
    producerPaused = {c \in DOMAIN mapConsumerProducer : mapConsumerProducer[c] \in paused}

\* No MS_ASSERT of the closure callbacks fails, and no at() misses, in
\* particular AudioLevelObserver's on the packet path.
NoAssertFails == ~aborted

\* The Router implements the tree of objects.
Tree == INSTANCE ObjectTree WITH
    transports <- mapTransports,
    produced   <- {pair \in Transports \X Producers : pair[2] \in transportProducers[pair[1]]},
    consumed   <- {triple \in Transports \X Consumers \X Producers :
                      /\ triple[2] \in transportConsumers[triple[1]]
                      /\ triple[2] \in DOMAIN mapConsumerProducer
                      /\ mapConsumerProducer[triple[2]] = triple[3]}

\* Every request, with its cascade through seven maps, is one step of the tree
\* of objects: it closes the objects that depend on the closed one, and no other.
ImplementsTree == Tree!TreeSpec

\* What is derived from the tree follows it: the registrator's handlers and the
\* producerPaused of Consumers, also after a creation that failed half way.
\* (Router.cpp, ChannelMessageRegistrator.cpp, Consumer.cpp.)
MirrorsExact == HandlersExact /\ PauseMirrored
=============================================================================
