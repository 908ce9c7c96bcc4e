----------------------------- MODULE MCControl -----------------------------
(***************************************************************************)
(* The Node side: the JS objects and their requests to a worker, and the   *)
(* two stages of pipeToRouter(), the pair of PipeTransports that all calls *)
(* between two Routers share and what one call does once it has the pair.  *)
(* They share no state here, and a behaviour is one of a single part.      *)
(***************************************************************************)
EXTENDS NodeApi, PipeTransportPair, PipedProducer

CONSTANT Parts  \* those that are run: among "api", "pair" and "producer"

VARIABLE part

mcVars == <<part, vars, pairVars, pipeVars>>

MCInit ==
    /\ part \in Parts
    /\ Init /\ PairInit
    /\ PipeInit /\ (part # "producer" => ~original.paused)

MCNext ==
    /\ UNCHANGED part
    /\ \/ part = "api" /\ Next /\ UNCHANGED <<pairVars, pipeVars>>
       \/ part = "pair" /\ PairNext /\ UNCHANGED <<vars, pipeVars>>
       \/ part = "producer" /\ PipeNext /\ UNCHANGED <<vars, pairVars>>

InApi(A) == part = "api" /\ A /\ UNCHANGED <<part, pairVars, pipeVars>>

InPair(A) == part = "pair" /\ A /\ UNCHANGED <<part, vars, pipeVars>>

InPipe(A) == part = "producer" /\ A /\ UNCHANGED <<part, vars, pairVars>>

\* Fairness of NodeApi, PairFairness and PipeFairness.
MCFairness ==
    /\ WF_mcVars(InApi(NodeLoop)) /\ WF_mcVars(InApi(WorkerHandle))
    /\ WF_mcVars(InApi(~workerRunning /\ WorkerClosed))
    /\ \A r \in Routers, a \in Attempts : WF_mcVars(InPair(Answered(r, a)))
    /\ WF_mcVars(InPipe(WorkerAStep)) /\ WF_mcVars(InPipe(WorkerBStep))
    /\ WF_mcVars(InPipe(PairReady))
    /\ WF_mcVars(InPipe(ReceiveA)) /\ WF_mcVars(InPipe(ReceiveB))
    /\ WF_mcVars(InPipe(RunImmediate))

MCSpec == MCInit /\ [][MCNext]_mcVars /\ MCFairness

-----------------------------------------------------------------------------
(* Properties *)

\* A Consumer ends with one event, and the two ends of a pair in one step.
\* (Consumer.ts handleWorkerNotifications(); Router.ts, the 'close' listeners.)
EndsTogether == EndsOnce /\ PairFallsTogether

\* pipeToRouter() settles, whatever happens to the Producer meanwhile.
CallSettles == part = "producer" ~> stage \in {"piped", "failed"}

\* Every promise is settled: that of a creation, of the pair and of the call; and a
\* Consumer of a closed Producer ends.  (Channel.ts, Router.ts.)
CallsSettle == Settles /\ AttemptsSettle /\ CallSettles
=============================================================================
