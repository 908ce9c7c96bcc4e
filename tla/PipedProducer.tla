--------------------------- MODULE PipedProducer ---------------------------
(***************************************************************************)
(* pipeToRouter() for one Producer, once the pair of PipeTransports is     *)
(* there: a pipe Consumer of the Producer in Worker A feeds a pipe         *)
(* Producer in Worker B, and the two are to follow the original Producer   *)
(* when it is paused, resumed or closed.                                   *)
(*                                                                         *)
(* The call suspends four times.  Each Worker answers its Channel in       *)
(* order; the Node process runs the continuation of an answer at once and  *)
(* puts a notification off with setImmediate(), so an answer that came     *)
(* after a notification may be handled before it, or not.                  *)
(***************************************************************************)
EXTENDS Naturals, Sequences

CONSTANT MaxChanges     \* bound: calls of pause(), resume() and close() by the application

ASSUME ChangesAssumption == MaxChanges \in Nat

VARIABLES
    stage,          \* of the call: "pairing", "consuming", "producing", "syncing", "piped", "failed"
    original,       \* the original JS Producer: [closed, paused]
    pipeConsumer,   \* its JS pipe Consumer: [state, producerPaused]
    pipeProducer,   \* the JS pipe Producer: [state, paused]
    requestsA, repliesA, requestsB, repliesB,   \* the Channels of the Workers
    deferred,       \* notifications put off by setImmediate()
    workerA,        \* [producer, paused, consumer]: what Worker A has
    workerB,        \* "none", "paused", "playing" or "closed": the pipe Producer there
    changes,        \* changes the application made so far
    inStep          \* history: when the call compared, the pipe Consumer was up to date
                    \* with the Producer, and it reported nothing before the listeners

pipeVars == <<stage, original, pipeConsumer, pipeProducer, requestsA, repliesA,
          requestsB, repliesB, deferred, workerA, workerB, changes, inStep>>

States == {"none", "open", "closed"}

PipeInit ==
    \E p \in BOOLEAN :
        /\ stage = "pairing"
        /\ original = [closed |-> FALSE, paused |-> p]
        /\ pipeConsumer = [state |-> "none", producerPaused |-> FALSE]
        /\ pipeProducer = [state |-> "none", paused |-> FALSE]
        /\ requestsA = <<>> /\ repliesA = <<>>
        /\ requestsB = <<>> /\ repliesB = <<>> /\ deferred = <<>>
        /\ workerA = [producer |-> TRUE, paused |-> p, consumer |-> FALSE]
        /\ workerB = "none"
        /\ changes = 0
        /\ inStep = FALSE

-----------------------------------------------------------------------------
(* The application *)

\* Producer.pause(), resume() and close(): the request is sent; close() also
\* takes effect in the JS object at once.
ApplicationChange(what) ==
    /\ ~original.closed /\ changes < MaxChanges
    /\ changes' = changes + 1
    /\ requestsA' = Append(requestsA, what)
    /\ original' = [original EXCEPT !.closed = (what = "close")]
    /\ UNCHANGED <<stage, pipeConsumer, pipeProducer, repliesA, requestsB, repliesB,
                   deferred, workerA, workerB, inStep>>

\* close() of the pipe Consumer c and the pipe Producer q: a request for each
\* that is open.
Closed(x) == [x EXCEPT !.state = IF @ = "open" THEN "closed" ELSE @]

CloseBoth(c, q) ==
    /\ pipeConsumer' = Closed(c)
    /\ pipeProducer' = Closed(q)
    /\ requestsA' = IF c.state = "open" THEN Append(requestsA, "closeConsumer") ELSE requestsA
    /\ requestsB' = IF q.state = "open" THEN Append(requestsB, "close") ELSE requestsB

\* The application closes what pipeToRouter() gave it.
ApplicationClosesPipe ==
    /\ stage = "piped"
    /\ pipeConsumer.state = "open" /\ pipeProducer.state = "open"
    /\ changes < MaxChanges /\ changes' = changes + 1
    /\ CloseBoth(pipeConsumer, pipeProducer)
    /\ UNCHANGED <<stage, original, repliesA, repliesB, deferred, workerA, workerB,
                   inStep>>

-----------------------------------------------------------------------------
(* The Workers *)

\* What Worker A does with a request, and what it sends: an answer, and before
\* it the notifications of the pipe Consumer.
Notify(what) == IF workerA.consumer THEN <<what>> ELSE <<>>

HandleA(what) ==
    CASE what = "consume" ->
           <<[workerA EXCEPT !.consumer = TRUE],
             <<IF workerA.paused THEN "consumed paused" ELSE "consumed">> >>
      [] what = "pause" ->
           <<[workerA EXCEPT !.paused = TRUE],
             (IF workerA.paused THEN <<>> ELSE Notify("producerpause"))
                \o <<"pause done">> >>
      [] what = "resume" ->
           <<[workerA EXCEPT !.paused = FALSE],
             (IF workerA.paused THEN Notify("producerresume") ELSE <<>>)
                \o <<"resume done">> >>
      [] what = "close" ->
           <<[workerA EXCEPT !.producer = FALSE, !.consumer = FALSE],
             Notify("producerclose")>>
      [] what = "closeConsumer" -> <<[workerA EXCEPT !.consumer = FALSE], <<>> >>

\* Worker A may refuse the pipe Consumer.
WorkerAStep ==
    /\ requestsA # <<>>
    /\ requestsA' = Tail(requestsA)
    /\ \/ /\ workerA' = HandleA(Head(requestsA))[1]
          /\ repliesA' = repliesA \o HandleA(Head(requestsA))[2]
       \/ /\ Head(requestsA) = "consume"
          /\ workerA' = workerA
          /\ repliesA' = Append(repliesA, "refused")
    /\ UNCHANGED <<stage, original, pipeConsumer, pipeProducer, requestsB, repliesB,
                   deferred, workerB, changes, inStep>>

\* Worker B may refuse the pipe Producer.  A pause or a resume finds it open: once it is
\* closed, the pipe Consumer is too and forwards nothing more.
WorkerBStep ==
    /\ requestsB # <<>>
    /\ requestsB' = Tail(requestsB)
    /\ LET what == Head(requestsB) IN
       \/ /\ what \in {"produce", "produce paused"}
          /\ workerB' = IF what = "produce" THEN "playing" ELSE "paused"
          /\ repliesB' = Append(repliesB, "produced")
       \/ /\ what \in {"produce", "produce paused"}
          /\ workerB' = workerB
          /\ repliesB' = Append(repliesB, "refused")
       \/ /\ what = "pause" /\ workerB # "closed"
          /\ workerB' = "paused"
          /\ repliesB' = Append(repliesB, "pause done")
       \/ /\ what = "resume" /\ workerB # "closed"
          /\ workerB' = "playing"
          /\ repliesB' = Append(repliesB, "resume done")
       \/ /\ what = "close"
          /\ workerB' = "closed"
          /\ repliesB' = repliesB
    /\ UNCHANGED <<stage, original, pipeConsumer, pipeProducer, requestsA, repliesA,
                   deferred, workerA, changes, inStep>>
-----------------------------------------------------------------------------
(* The Node process *)

\* The pair is there: consume(), which throws if the Producer was closed while
\* the call awaited the pair.
PairReady ==
    /\ stage = "pairing"
    /\ stage' = IF original.closed THEN "failed" ELSE "consuming"
    /\ requestsA' = IF original.closed THEN requestsA ELSE Append(requestsA, "consume")
    /\ UNCHANGED <<original, pipeConsumer, pipeProducer, repliesA, requestsB, repliesB,
                   deferred, workerA, workerB, changes, inStep>>

\* consume() resolved: ask for the pipe Producer, paused as the pipe Consumer
\* says its producer is.
Consumed(paused) ==
    /\ stage' = "producing"
    /\ pipeConsumer' = [state |-> "open", producerPaused |-> paused]
    /\ pipeProducer' = [pipeProducer EXCEPT !.paused = paused]
    /\ requestsB' = Append(requestsB, IF paused THEN "produce paused" ELSE "produce")
    /\ UNCHANGED <<original, deferred>>

\* A message of Worker A.
ReceiveA ==
    /\ repliesA # <<>>
    /\ repliesA' = Tail(repliesA)
    /\ LET m == Head(repliesA) IN
       \/ m \in {"consumed", "consumed paused"} /\ Consumed(m = "consumed paused")
       \/ /\ m = "refused"
          /\ stage' = "failed"
          /\ UNCHANGED <<original, pipeConsumer, pipeProducer, requestsB, deferred>>
       \/ /\ m \in {"pause done", "resume done"}
          /\ original' = [original EXCEPT !.paused = (m = "pause done")]
          /\ UNCHANGED <<stage, pipeConsumer, pipeProducer, requestsB, deferred>>
       \/ /\ m \in {"producerpause", "producerresume", "producerclose"}
          /\ deferred' = Append(deferred, m)
          /\ UNCHANGED <<stage, original, pipeConsumer, pipeProducer, requestsB>>
    /\ UNCHANGED <<requestsA, repliesB, workerA, workerB, changes, inStep>>

\* Mutant: the pause state is not compared once more.
Produced_NoSync(q) ==
    IF original.closed
    THEN /\ stage' = "failed"
         /\ CloseBoth(pipeConsumer, q)
         /\ UNCHANGED inStep
    ELSE /\ stage' = "piped"
         /\ pipeProducer' = q
         /\ inStep' = (/\ pipeConsumer.state = "open"
                       /\ pipeConsumer.producerPaused = original.paused)
         /\ UNCHANGED <<pipeConsumer, requestsA, requestsB>>

\* produce() resolved with the pipe Producer q: fail if the original Producer is
\* closed by now, bring q in line if it differs from it, else set the listeners.
Produced(q) ==
    IF original.closed
    THEN /\ stage' = "failed"
         /\ CloseBoth(pipeConsumer, q)
         /\ UNCHANGED inStep
    ELSE /\ stage' = IF q.paused # original.paused THEN "syncing" ELSE "piped"
         /\ pipeProducer' = q
         /\ requestsB' = IF q.paused = original.paused THEN requestsB
                         ELSE Append(requestsB, IF original.paused THEN "pause" ELSE "resume")
         /\ inStep' = (/\ pipeConsumer.state = "open"
                       /\ pipeConsumer.producerPaused = original.paused)
         /\ UNCHANGED <<pipeConsumer, requestsA>>

\* A message of Worker B.  The answer to the call's own pause() or resume() lets
\* it set the listeners.
ReceiveB ==
    /\ repliesB # <<>>
    /\ repliesB' = Tail(repliesB)
    /\ LET m == Head(repliesB) IN
       \/ m = "produced" /\ Produced([pipeProducer EXCEPT !.state = "open"])
       \/ /\ m = "refused" /\ stage = "producing"
          /\ stage' = "failed"
          /\ CloseBoth(pipeConsumer, pipeProducer)
          /\ UNCHANGED inStep
       \/ /\ m \in {"pause done", "resume done"}
          /\ stage' = IF stage = "syncing" THEN "piped" ELSE stage
          /\ pipeProducer' = [pipeProducer EXCEPT !.paused = (m = "pause done")]
          /\ UNCHANGED <<pipeConsumer, requestsA, requestsB, inStep>>
    /\ UNCHANGED <<original, repliesA, deferred, workerA, workerB, changes>>

\* A notification reaches the pipe Consumer, if it is still open; its observer
\* events reach the pipe Producer once the listeners are set.
PassOn(what) ==
    requestsB' = IF stage = "piped" THEN Append(requestsB, what) ELSE requestsB

OnPause(pausing) ==
    /\ pipeConsumer' = [pipeConsumer EXCEPT !.producerPaused = pausing]
    /\ IF pausing # pipeConsumer.producerPaused
       THEN PassOn(IF pausing THEN "pause" ELSE "resume")
       ELSE UNCHANGED requestsB
    /\ UNCHANGED pipeProducer

OnProducerClose ==
    /\ pipeConsumer' = Closed(pipeConsumer)
    /\ pipeProducer' = IF stage = "piped" THEN Closed(pipeProducer) ELSE pipeProducer
    /\ IF pipeProducer.state = "open" THEN PassOn("close") ELSE UNCHANGED requestsB

RunImmediate ==
    /\ deferred # <<>>
    /\ deferred' = Tail(deferred)
    /\ IF pipeConsumer.state # "open"
       THEN UNCHANGED <<pipeConsumer, pipeProducer, requestsB>>
       ELSE \/ Head(deferred) = "producerpause" /\ OnPause(TRUE)
            \/ Head(deferred) = "producerresume" /\ OnPause(FALSE)
            \/ Head(deferred) = "producerclose" /\ OnProducerClose
    /\ inStep' = (inStep /\ stage # "syncing")
    /\ UNCHANGED <<stage, original, requestsA, repliesA, repliesB, workerA, workerB,
                   changes>>

PipeNext ==
    \/ \E what \in {"pause", "resume", "close"} : ApplicationChange(what)
    \/ ApplicationClosesPipe
    \/ WorkerAStep \/ WorkerBStep
    \/ PairReady \/ ReceiveA \/ ReceiveB \/ RunImmediate

\* Workers answer, the pair is settled (module PipeTransportPair) and the event
\* loop turns.
PipeFairness ==
    /\ WF_pipeVars(WorkerAStep) /\ WF_pipeVars(WorkerBStep)
    /\ WF_pipeVars(PairReady)
    /\ WF_pipeVars(ReceiveA) /\ WF_pipeVars(ReceiveB) /\ WF_pipeVars(RunImmediate)

PipeSpec == PipeInit /\ [][PipeNext]_pipeVars /\ PipeFairness
-----------------------------------------------------------------------------
\* The states of the call, of the JS objects and of the Workers' objects; a pipe
\* Producer that Worker B closed is closed in JS.
PipeTypeOK ==
    /\ stage \in {"pairing", "consuming", "producing", "syncing", "piped", "failed"}
    /\ original \in [closed : BOOLEAN, paused : BOOLEAN]
    /\ pipeConsumer \in [state : States, producerPaused : BOOLEAN]
    /\ pipeProducer \in [state : States, paused : BOOLEAN]
    /\ workerA \in [producer : BOOLEAN, paused : BOOLEAN, consumer : BOOLEAN]
    /\ workerB \in {"none", "paused", "playing", "closed"}
    /\ changes \in 0 .. MaxChanges
    /\ inStep \in BOOLEAN
    /\ workerB = "closed" => pipeProducer.state = "closed"

PipeQuiet ==
    /\ requestsA = <<>> /\ repliesA = <<>> /\ deferred = <<>>
    /\ requestsB = <<>> /\ repliesB = <<>>

\* The pipe Producer in Worker B is as the original Producer is.
Follows ==
    /\ original.closed => workerB = "closed"
    /\ workerB # "closed" => workerB = (IF original.paused THEN "paused" ELSE "playing")

\* When the pipe Consumer was up to date as the call compared the two Producers
\* and nothing changed before the listeners were set, then whatever the
\* application does afterwards the pipe Producer ends up following the original.
FollowsOnceInStep == stage = "piped" /\ inStep /\ PipeQuiet => Follows

\* A call that failed leaves neither a pipe Consumer in Worker A nor a pipe
\* Producer in Worker B.
FailureLeavesNothing ==
    stage = "failed" /\ PipeQuiet => ~workerA.consumer /\ workerB \in {"none", "closed"}

\* Whenever nothing is under way the JS objects agree with the Workers' ones.
MirrorsWorkers ==
    PipeQuiet => /\ original.paused = workerA.paused
                 /\ (pipeConsumer.state = "open") = workerA.consumer
                 /\ (pipeProducer.state = "open") = (workerB \in {"paused", "playing"})
                 /\ pipeProducer.state = "open" => pipeProducer.paused = (workerB = "paused")

\* When nothing is under way JS and the Workers agree, and the pipe Producer is as the
\* original if it was when the call set its listeners.  A call that failed leaves neither
\* a pipe Consumer nor a pipe Producer.  (Router.ts pipeToRouter().)
FollowsInTheEnd == PipeTypeOK /\ FollowsOnceInStep /\ MirrorsWorkers /\ FailureLeavesNothing
=============================================================================
