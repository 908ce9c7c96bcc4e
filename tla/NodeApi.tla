------------------------------ MODULE NodeApi ------------------------------
(***************************************************************************)
(* The Node.js objects of one Router and the worker objects they stand     *)
(* for, joined by the Channel.                                             *)
(*                                                                         *)
(* An API call changes the JS objects at once and sends a request; the     *)
(* worker handles requests in order and answers with responses and         *)
(* notifications, in order too.  In the Node process a response resolves a *)
(* promise, whose continuation runs as a microtask, and a notification is  *)
(* put off with setImmediate().  So the two sides disagree for a while,    *)
(* and an application may close anything in the meantime.  The worker may  *)
(* die at any moment.                                                      *)
(*                                                                         *)
(* The worker side is the tree of objects that module Router implements.   *)
(* Ids are UUIDs, used once.                                               *)
(***************************************************************************)
EXTENDS Naturals, Sequences, FiniteSets

CONSTANTS
    Transports,
    Producers,
    Consumers,
    ServedTransports,   \* the WebRtcTransports that listen on a WebRtcServer
    None

ASSUME NodeAssumption ==
    /\ ServedTransports \subseteq Transports
    /\ Producers \cap Consumers = {}
    /\ IsFiniteSet(Producers \cup Consumers) /\ Cardinality(Producers \cup Consumers) \in Nat

VARIABLES
    transport,          \* JS Transports: "open" or "closed"
    producer,           \* JS Producers: "none", "pending", "failed", "open", "closed"
    consumer,           \* JS Consumers, likewise
    producerTransport,  \* the Transport a Producer was asked from
    consumerTransport,  \* the Transport a Consumer was asked from
    consumed,           \* the Producer a Consumer was asked for
    routerClosed,       \* Router.#closed
    routerProducers,    \* Router.#producers
    closeEvent,         \* the public event a JS Consumer ended with
    sents,              \* Channel.#sents: the ids whose creation is not answered
    channelClosed,      \* Channel.#closed
    requests,           \* from Node to the worker
    replies,            \* from the worker to Node
    microtasks,         \* continuations of settled promises
    immediates,         \* notifications put off by setImmediate()
    workerRunning,
    wTransports, wProduced, wConsumed   \* the worker's objects

jsVars == <<transport, producer, consumer, producerTransport, consumerTransport,
            consumed, routerClosed, routerProducers, closeEvent>>

queueVars == <<sents, requests, replies, microtasks, immediates>>

workerVars == <<wTransports, wProduced, wConsumed>>

vars == <<jsVars, queueVars, channelClosed, workerRunning, workerVars>>

Tree == INSTANCE ObjectTree WITH
    transports <- wTransports, produced <- wProduced, consumed <- wConsumed

Init ==
    /\ transport = [t \in Transports |-> "open"]
    /\ producer = [p \in Producers |-> "none"]
    /\ consumer = [c \in Consumers |-> "none"]
    /\ producerTransport = [p \in Producers |-> None]
    /\ consumerTransport = [c \in Consumers |-> None]
    /\ consumed = [c \in Consumers |-> None]
    /\ routerClosed = FALSE
    /\ routerProducers = {}
    /\ closeEvent = [c \in Consumers |-> None]
    /\ sents = {}
    /\ channelClosed = FALSE
    /\ requests = <<>>
    /\ replies = <<>>
    /\ microtasks = <<>>
    /\ immediates = <<>>
    /\ workerRunning = TRUE
    /\ wTransports = Transports
    /\ wProduced = {}
    /\ wConsumed = {}

\* Channel.request(): once the Channel is closed it throws, which the callers
\* of close requests ignore.
Send(request) == requests' = IF channelClosed THEN requests ELSE Append(requests, request)

(***************************************************************************)
(* API calls.                                                              *)
(***************************************************************************)

\* transport.produce() up to its await.
Produce(t, p) ==
    /\ producer[p] = "none"
    /\ ~channelClosed
    /\ producer' = [producer EXCEPT ![p] = "pending"]
    /\ producerTransport' = [producerTransport EXCEPT ![p] = t]
    /\ sents' = sents \cup {p}
    /\ Send([method |-> "produce", transport |-> t, id |-> p])
    /\ UNCHANGED <<transport, consumer, consumerTransport, consumed, routerClosed, routerProducers, closeEvent,
                   replies, microtasks, immediates, channelClosed, workerRunning, workerVars>>

\* transport.consume() up to its await: the Router must know the Producer.
Consume(t, c, p) ==
    /\ consumer[c] = "none"
    /\ p \in routerProducers
    /\ ~channelClosed
    /\ consumer' = [consumer EXCEPT ![c] = "pending"]
    /\ consumerTransport' = [consumerTransport EXCEPT ![c] = t]
    /\ consumed' = [consumed EXCEPT ![c] = p]
    /\ sents' = sents \cup {c}
    /\ Send([method |-> "consume", transport |-> t, id |-> c, producer |-> p])
    /\ UNCHANGED <<transport, producer, producerTransport, routerClosed, routerProducers, closeEvent,
                   replies, microtasks, immediates, channelClosed, workerRunning, workerVars>>

\* producer.close(); the '@close' event makes the Router forget the Producer.
CloseProducer(p) ==
    /\ producer[p] = "open"
    /\ producer' = [producer EXCEPT ![p] = "closed"]
    /\ routerProducers' = routerProducers \ {p}
    /\ Send([method |-> "closeProducer", transport |-> producerTransport[p], id |-> p])
    /\ UNCHANGED <<transport, consumer, producerTransport, consumerTransport, consumed, routerClosed, closeEvent,
                   sents, replies, microtasks, immediates, channelClosed, workerRunning, workerVars>>

\* consumer.close().
CloseConsumer(c) ==
    /\ consumer[c] = "open"
    /\ consumer' = [consumer EXCEPT ![c] = "closed"]
    /\ closeEvent' = [closeEvent EXCEPT ![c] = "close"]
    /\ Send([method |-> "closeConsumer", transport |-> consumerTransport[c], id |-> c])
    /\ UNCHANGED <<transport, producer, producerTransport, consumerTransport, consumed,
                   routerClosed, routerProducers, sents, replies, microtasks, immediates, channelClosed,
                   workerRunning, workerVars>>

\* Producers and Consumers registered in the JS Transports ts.
ProducersOf(ts) == {p \in Producers : producer[p] = "open" /\ producerTransport[p] \in ts}

ConsumersOf(ts) == {c \in Consumers : consumer[c] = "open" /\ consumerTransport[c] \in ts}

\* What closing the JS Transports ts does to them and their children:
\* producer.transportClosed() and consumer.transportClosed().
ChildrenClosed(ts) ==
    /\ transport' = [t \in Transports |-> IF t \in ts THEN "closed" ELSE transport[t]]
    /\ producer' = [p \in Producers |-> IF p \in ProducersOf(ts) THEN "closed" ELSE producer[p]]
    /\ consumer' = [c \in Consumers |-> IF c \in ConsumersOf(ts) THEN "closed" ELSE consumer[c]]
    /\ closeEvent' = [c \in Consumers |->
                         IF c \in ConsumersOf(ts) THEN "transportclose" ELSE closeEvent[c]]
    /\ UNCHANGED <<producerTransport, consumerTransport, consumed>>

OpenAmong(ts) == {t \in ts : transport[t] = "open"}

\* transport.close(), which tells the Router about each Producer.
CloseTransport(t) ==
    /\ transport[t] = "open"
    /\ Send([method |-> "closeTransports", transports |-> {t}])
    /\ ChildrenClosed({t})
    /\ routerProducers' = routerProducers \ ProducersOf({t})
    /\ UNCHANGED <<routerClosed, sents, replies, microtasks, immediates, channelClosed,
                   workerRunning, workerVars>>

\* webRtcServer.close(): transport.listenServerClosed() for each of its
\* Transports, which does not tell the Router about the Producers.
CloseWebRtcServer ==
    /\ OpenAmong(ServedTransports) # {}
    /\ Send([method |-> "closeTransports", transports |-> ServedTransports])
    /\ ChildrenClosed(OpenAmong(ServedTransports))
    /\ UNCHANGED <<routerClosed, routerProducers>>
    /\ UNCHANGED <<sents, replies, microtasks, immediates, channelClosed, workerRunning, workerVars>>

\* router.close() and transport.routerClosed().
CloseRouter ==
    /\ ~routerClosed
    /\ routerClosed' = TRUE
    /\ Send([method |-> "closeRouter"])
    /\ ChildrenClosed(OpenAmong(Transports))
    /\ routerProducers' = {}
    /\ UNCHANGED <<sents, replies, microtasks, immediates, channelClosed, workerRunning, workerVars>>

\* The orders in which a loop over a Map may visit S, whose members are about
\* different objects.
Listings(S) ==
    {s \in UNION {[1..n -> S] : n \in 0..Cardinality(Producers \cup Consumers)} :
        /\ \A x \in S : \E i \in DOMAIN s : s[i] = x
        /\ \A i, j \in DOMAIN s : s[i] = s[j] => i = j}

\* The continuations of all creations that are not answered: they are rejected.
RejectSents ==
    \E tasks \in Listings({[id |-> i, accepted |-> FALSE] : i \in sents}) :
        microtasks' = microtasks \o tasks

\* worker.close(), or the 'exit' event of the child: channel.close() rejects
\* what is pending and router.workerClosed() closes the objects.
WorkerClosed ==
    /\ ~channelClosed
    /\ channelClosed' = TRUE
    /\ workerRunning' = FALSE
    /\ sents' = {}
    /\ RejectSents
    /\ routerClosed' = TRUE
    /\ routerProducers' = IF routerClosed THEN routerProducers ELSE {}
    /\ ChildrenClosed(IF routerClosed THEN {} ELSE OpenAmong(Transports))
    /\ UNCHANGED <<requests, replies, immediates, workerVars>>

(***************************************************************************)
(* The Node event loop.                                                    *)
(***************************************************************************)

\* Mutant: a notification overtakes the responses before it.
Receive_EmitNow ==
    /\ replies # <<>>
    /\ LET msg == Head(replies)
       IN IF msg.kind = "response"
          THEN /\ sents' = sents \ {msg.id}
               /\ microtasks' = IF msg.id \in sents
                                THEN Append(microtasks, [id |-> msg.id, accepted |-> msg.accepted])
                                ELSE microtasks
               /\ UNCHANGED <<consumer, closeEvent>>
          ELSE /\ consumer' = [consumer EXCEPT ![msg.id] = IF @ = "open" THEN "closed" ELSE @]
               /\ closeEvent' = [closeEvent EXCEPT ![msg.id] =
                                   IF consumer[msg.id] = "open" THEN "producerclose" ELSE @]
               /\ UNCHANGED <<sents, microtasks>>
    /\ replies' = Tail(replies)
    /\ UNCHANGED <<transport, producer, producerTransport, consumerTransport, consumed,
                   routerClosed, routerProducers>>
    /\ UNCHANGED <<requests, immediates, channelClosed, workerRunning, workerVars>>

\* Channel.processMessage().  A response settles the promise of its request;
\* a notification waits for the next turn of the loop.
Receive ==
    /\ replies # <<>>
    /\ LET msg == Head(replies)
       IN \/ /\ msg.kind = "response"
             /\ sents' = sents \ {msg.id}
             /\ microtasks' = IF msg.id \in sents
                              THEN Append(microtasks, [id |-> msg.id, accepted |-> msg.accepted])
                              ELSE microtasks
             /\ UNCHANGED immediates
          \/ /\ msg.kind = "producerclose"
             /\ immediates' = Append(immediates, msg.id)
             /\ UNCHANGED <<sents, microtasks>>
    /\ replies' = Tail(replies)
    /\ UNCHANGED <<jsVars, requests, channelClosed, workerRunning, workerVars>>

\* What follows the await of produce() and of consume().
Continue ==
    /\ microtasks # <<>>
    /\ LET task == Head(microtasks)
           status == IF task.accepted THEN "open" ELSE "failed"
       IN \/ /\ task.id \in Producers
             /\ producer' = [producer EXCEPT ![task.id] = status]
             /\ routerProducers' = IF task.accepted THEN routerProducers \cup {task.id}
                                                    ELSE routerProducers
             /\ UNCHANGED consumer
          \/ /\ task.id \in Consumers
             /\ consumer' = [consumer EXCEPT ![task.id] = status]
             /\ UNCHANGED <<producer, routerProducers>>
    /\ microtasks' = Tail(microtasks)
    /\ UNCHANGED <<transport, producerTransport, consumerTransport, consumed, routerClosed, closeEvent,
                   sents, requests, replies, immediates, channelClosed, workerRunning, workerVars>>

\* A notification reaches its Consumer, if that one still listens.
Emit ==
    /\ microtasks = <<>>
    /\ immediates # <<>>
    /\ LET c == Head(immediates)
       IN IF consumer[c] = "open"
          THEN /\ consumer' = [consumer EXCEPT ![c] = "closed"]
               /\ closeEvent' = [closeEvent EXCEPT ![c] = "producerclose"]
          ELSE UNCHANGED <<consumer, closeEvent>>
    /\ immediates' = Tail(immediates)
    /\ UNCHANGED <<transport, producer, producerTransport, consumerTransport, consumed,
                   routerClosed, routerProducers, sents, requests, replies, microtasks,
                   channelClosed, workerRunning, workerVars>>

(***************************************************************************)
(* The worker.                                                             *)
(***************************************************************************)

Respond(i, outcome) ==
    replies' = Append(replies, [kind |-> "response", id |-> i, accepted |-> outcome])

\* consumer->ProducerClosed() for each Consumer of the Producers ps.
NotifyConsumers(ps) ==
    \E notes \in Listings({[kind |-> "producerclose", id |-> triple[2]] :
                              triple \in {x \in wConsumed : x[3] \in ps}}) :
        replies' = replies \o notes

\* A creation may also be refused for what it asks for, and then changes nothing.
Refuse(r) == Respond(r.id, FALSE) /\ UNCHANGED workerVars

WorkerProduce(r) ==
    \/ Tree!OpenProducer(r.transport, r.id) /\ Respond(r.id, TRUE)
    \/ Refuse(r)

WorkerConsume(r) ==
    \/ Tree!OpenConsumer(r.transport, r.id, r.producer) /\ Respond(r.id, TRUE)
    \/ Refuse(r)

WorkerCloseProducer(r) ==
    \/ Tree!ShutProducer(r.transport, r.id) /\ NotifyConsumers({r.id})
    \/ <<r.transport, r.id>> \notin wProduced /\ UNCHANGED <<replies, workerVars>>

WorkerCloseConsumer(r) ==
    /\ UNCHANGED replies
    /\ \/ Tree!ShutConsumer(r.transport, r.id)
       \/ /\ \A p \in Producers : <<r.transport, r.id, p>> \notin wConsumed
          /\ UNCHANGED workerVars

\* transport->CloseProducersAndConsumers() for each Transport that is there.
WorkerCloseTransports(r) ==
    LET ts == r.transports \cap wTransports
    IN /\ Tree!ShutTransports(ts)
       /\ NotifyConsumers({pair[2] : pair \in {x \in wProduced : x[1] \in ts}})

\* delete router, which notifies nobody.
WorkerCloseRouter == Tree!ShutTransports(wTransports) /\ UNCHANGED replies

\* The worker handles the next request.  The responses to close requests are
\* left out: nothing waits for them.
WorkerHandle ==
    /\ workerRunning
    /\ requests # <<>>
    /\ LET r == Head(requests)
       IN \/ r.method = "produce" /\ WorkerProduce(r)
          \/ r.method = "consume" /\ WorkerConsume(r)
          \/ r.method = "closeProducer" /\ WorkerCloseProducer(r)
          \/ r.method = "closeConsumer" /\ WorkerCloseConsumer(r)
          \/ r.method = "closeTransports" /\ WorkerCloseTransports(r)
          \/ r.method = "closeRouter" /\ WorkerCloseRouter
    /\ requests' = Tail(requests)
    /\ UNCHANGED <<jsVars, sents, microtasks, immediates, channelClosed, workerRunning>>

\* The process is killed or aborts.
WorkerDies ==
    /\ workerRunning
    /\ workerRunning' = FALSE
    /\ UNCHANGED <<jsVars, queueVars, channelClosed, workerVars>>

(***************************************************************************)
(* The specification.                                                      *)
(***************************************************************************)

\* The application.
Call ==
    \/ \E t \in Transports :
          \/ CloseTransport(t)
          \/ \E p \in Producers : Produce(t, p)
          \/ \E c \in Consumers, p \in Producers : Consume(t, c, p)
    \/ \E p \in Producers : CloseProducer(p)
    \/ \E c \in Consumers : CloseConsumer(c)
    \/ CloseWebRtcServer
    \/ CloseRouter

NodeLoop == Receive \/ Continue \/ Emit

Next == Call \/ WorkerClosed \/ NodeLoop \/ WorkerHandle \/ WorkerDies

\* The Node loop and the worker's loop keep turning, and the death of the
\* child process is reported.
Fairness ==
    /\ WF_vars(NodeLoop)
    /\ WF_vars(WorkerHandle)
    /\ WF_vars(~workerRunning /\ WorkerClosed)

Spec == Init /\ [][Next]_vars /\ Fairness

(***************************************************************************)
(* Properties.                                                             *)
(***************************************************************************)

Statuses == {"none", "pending", "failed", "open", "closed"}

\* Every object has a status, every task and every notification in a queue is
\* about a Producer or a Consumer that was asked for.
TypeOK ==
    /\ transport \in [Transports -> {"open", "closed"}]
    /\ producer \in [Producers -> Statuses]
    /\ consumer \in [Consumers -> Statuses]
    /\ producerTransport \in [Producers -> Transports \cup {None}]
    /\ consumerTransport \in [Consumers -> Transports \cup {None}]
    /\ consumed \in [Consumers -> Producers \cup {None}]
    /\ routerProducers \subseteq Producers
    /\ closeEvent \in [Consumers -> {None, "close", "transportclose", "producerclose"}]
    /\ sents \subseteq {p \in Producers : producer[p] = "pending"}
                        \cup {c \in Consumers : consumer[c] = "pending"}
    /\ \A i \in 1..Len(microtasks) :
          microtasks[i].id \in {p \in Producers : producer[p] = "pending"}
                                \cup {c \in Consumers : consumer[c] = "pending"}
    /\ \A i \in 1..Len(immediates) : consumer[immediates[i]] \notin {"none"}

\* Nothing is under way between the two sides.
Quiet == /\ requests = <<>> /\ replies = <<>>
         /\ microtasks = <<>> /\ immediates = <<>>
         /\ workerRunning

\* No leak: once both sides are quiet, whatever the worker holds has an open
\* JS object, whatever was closed while its creation was under way.
WorkerHoldsNothingUnknown ==
    Quiet => /\ \A pair \in wProduced : producer[pair[2]] = "open" /\ transport[pair[1]] = "open"
             /\ \A triple \in wConsumed : consumer[triple[2]] = "open" /\ transport[triple[1]] = "open"
             /\ \A t \in wTransports : transport[t] = "open"

\* Ordered delivery: once both sides are quiet, an open JS object of an open
\* Transport exists in the worker.  In particular a Consumer whose Producer was
\* closed while consume() was under way got its 'producerclose'.
OpenObjectsExist ==
    Quiet => /\ \A p \in Producers :
                   producer[p] = "open" /\ transport[producerTransport[p]] = "open"
                       => <<producerTransport[p], p>> \in wProduced
             /\ \A c \in Consumers :
                   consumer[c] = "open" /\ transport[consumerTransport[c]] = "open"
                       => <<consumerTransport[c], c, consumed[c]>> \in wConsumed

\* Router.#producers, from which consume() and pipeToRouter() take Producers,
\* misses none of an open Transport and holds no closed Producer, except those
\* closed with their WebRtcServer, of which the Router is not told.
RouterKnowsProducers ==
    /\ \A p \in routerProducers :
          producer[p] = "open" \/ producerTransport[p] \in ServedTransports
    /\ \A p \in Producers :
          producer[p] = "open" /\ transport[producerTransport[p]] = "open" => p \in routerProducers

\* A Consumer ends once, with one event: 'producerclose' never follows
\* 'transportclose' or a close() of the application.
EndsOnce ==
    [][\A c \in Consumers : closeEvent[c] # None => closeEvent'[c] = closeEvent[c]]_vars

\* Every produce() and consume() settles, also when the worker dies.
RequestsSettle ==
    /\ \A p \in Producers : producer[p] = "pending" ~> producer[p] # "pending"
    /\ \A c \in Consumers : consumer[c] = "pending" ~> consumer[c] # "pending"

\* A Consumer of a closed Producer is closed in the end, unless it was created
\* in a Transport closed meanwhile.
ConsumerFollowsProducer ==
    \A c \in Consumers, p \in Producers :
        (producer[p] = "closed" /\ consumed[c] = p /\ consumer[c] = "open")
            ~> (\/ consumer[c] = "closed"
                \/ \E t \in Transports : consumerTransport[c] = t /\ transport[t] = "closed")

\* Both sides agree when nothing is under way: the worker holds neither more nor
\* less than what is open in JS.
SidesAgree == WorkerHoldsNothingUnknown /\ OpenObjectsExist

\* Once both sides are quiet the worker's objects are the open JS ones, and the Router
\* knows its Producers.  (Transport.ts, Producer.ts, Consumer.ts, Router.ts close methods.)
ObjectsAgree == TypeOK /\ SidesAgree /\ RouterKnowsProducers

\* What was begun comes to an end: requests are settled, and the closure of a
\* Producer reaches its Consumers.
Settles == RequestsSettle /\ ConsumerFollowsProducer
=============================================================================
