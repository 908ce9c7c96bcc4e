------------------------- MODULE PipeTransportPair -------------------------
(***************************************************************************)
(* The pair of PipeTransports that two Routers of two Workers share for    *)
(* pipeToRouter().                                                         *)
(*                                                                         *)
(* Both Routers keep the promise of the pair in a map under the other's    *)
(* id, so that concurrent calls in either direction share it.  The promise *)
(* is settled by four answers of two Workers, and in between an            *)
(* application may close a PipeTransport (it gets them from the            *)
(* "newtransport" event) or a Router, and a Worker may die.                *)
(***************************************************************************)
EXTENDS Naturals

CONSTANTS
    Routers,        \* the two Routers
    MaxAttempts     \* bound: pairs ever asked for

ASSUME PairAssumption ==
    /\ \E a, b \in Routers : a # b /\ Routers = {a, b}
    /\ MaxAttempts \in Nat

VARIABLES
    entry,      \* mapRouterPairPipeTransportPairPromise: the attempt whose promise a
                \* Router holds, 0 for none
    caller,     \* the Router whose pipeToRouter() started an attempt
    phase,      \* "none", "creating", "connecting", "resolved", "rejected"
    endpoints,  \* each Router's PipeTransport of an attempt: "none", "asked", or
                \* "doomed" if asked of a closed Router; "refused", "open", "closed"
    connect,    \* its connect(): "none", "sent", or "doomed" if the Worker no
                \* longer has the transport; "done"
    shared,     \* attempts whose promise the other Router took as well
    router      \* "open", "closed", or "dead" with its Worker

pairVars == <<entry, caller, phase, endpoints, connect, shared, router>>

Attempts == 1 .. MaxAttempts

Other(r) == CHOOSE o \in Routers : o # r

PairInit ==
    /\ entry = [r \in Routers |-> 0]
    /\ caller = [a \in Attempts |-> CHOOSE r \in Routers : TRUE]
    /\ phase = [a \in Attempts |-> "none"]
    /\ endpoints = [a \in Attempts |-> [r \in Routers |-> "none"]]
    /\ connect = [a \in Attempts |-> [r \in Routers |-> "none"]]
    /\ shared = {}
    /\ router = [r \in Routers |-> "open"]

\* Both transports are asked for, the promise is put in the caller's map and
\* handed to the other Router, whose addPipeTransportPair() throws if it already
\* holds one: the call then fails and the attempt goes on unwatched.
StartPair(r, a) ==
    /\ phase' = [phase EXCEPT ![a] = "creating"]
    /\ caller' = [caller EXCEPT ![a] = r]
    /\ endpoints' = [endpoints EXCEPT ![a] = [q \in Routers |->
           IF router[q] = "open" THEN "asked" ELSE "doomed"]]
    /\ entry' = [q \in Routers |-> IF q = r \/ entry[q] = 0 THEN a ELSE entry[q]]
    /\ shared' = IF entry[Other(r)] = 0 THEN shared \cup {a} ELSE shared
    /\ UNCHANGED <<connect, router>>

Fresh(a) == phase[a] = "none" /\ \A b \in 1 .. (a - 1) : phase[b] # "none"

\* Mutant: a pair is started though there is one.
PipeToRouter_NoCache(r, a) ==
    router[r] = "open" /\ Fresh(a) /\ StartPair(r, a)

\* pipeToRouter() in r.  A promise in the map is awaited, which changes nothing
\* here; otherwise a pair is started.
PipeToRouter(r, a) ==
    router[r] = "open" /\ entry[r] = 0 /\ Fresh(a) /\ StartPair(r, a)

\* The promise of attempt a rejects.  The Router it was shared with deletes its
\* entry; the caller keeps the rejected promise.
Forget(a) ==
    [r \in Routers |-> IF a \in shared /\ r # caller[a] THEN 0 ELSE entry[r]]

Reject(a) ==
    /\ phase' = [phase EXCEPT ![a] = "rejected"]
    /\ entry' = Forget(a)

\* createPipeTransport() of r's side is answered.  The first refusal rejects
\* Promise.all(); the transport of the other side, which may exist already or
\* come to exist later, was never assigned to a variable and stays open.
Created(r, a) ==
    /\ endpoints[a][r] = "asked"
    /\ router[r] # "dead"
    /\ endpoints' = [endpoints EXCEPT ![a][r] = "open"]
    /\ IF phase[a] = "creating" /\ endpoints[a][Other(r)] \in {"open", "closed"}
       THEN /\ phase' = [phase EXCEPT ![a] = "connecting"]
            /\ connect' = [connect EXCEPT ![a] = [q \in Routers |->
                  IF endpoints'[a][q] = "open" /\ router[q] = "open"
                  THEN "sent" ELSE "doomed"]]
       ELSE UNCHANGED <<phase, connect>>
    /\ UNCHANGED <<entry, caller, shared, router>>

\* Mutant: a refusal does not reject the promise.
CreateRefused_Ignored(r, a) ==
    /\ endpoints[a][r] \in {"asked", "doomed"}
    /\ endpoints' = [endpoints EXCEPT ![a][r] = "refused"]
    /\ UNCHANGED <<entry, caller, phase, connect, shared, router>>

CreateRefused(r, a) ==
    /\ endpoints[a][r] \in {"asked", "doomed"}
    /\ endpoints' = [endpoints EXCEPT ![a][r] = "refused"]
    /\ IF phase[a] = "creating" THEN Reject(a) ELSE UNCHANGED <<phase, entry>>
    /\ UNCHANGED <<caller, connect, shared, router>>

\* Mutant: only the caller's entry is deleted.
Unmap_CallerOnly(a) == [entry EXCEPT ![caller[a]] = 0]

\* The maps once a transport of the resolved attempt a closes: the listeners on
\* either transport delete the caller's entry, the one on the other Router's own
\* transport its entry.  They delete by key, whatever the entry is.
Unmap(a) ==
    [r \in Routers |->
        IF r = caller[a] \/ (a \in shared /\ endpoints[a][r] = "open")
        THEN 0 ELSE entry[r]]

\* connect() of r's side answers well.  With the second one the "close"
\* listeners are set and the promise resolves.
Connected(r, a) ==
    /\ connect[a][r] = "sent"
    /\ router[r] # "dead"
    /\ connect' = [connect EXCEPT ![a][r] = "done"]
    /\ phase' = IF phase[a] = "connecting" /\ connect[a][Other(r)] = "done"
                THEN [phase EXCEPT ![a] = "resolved"] ELSE phase
    /\ UNCHANGED <<entry, caller, endpoints, shared, router>>

\* connect() of r's side fails.  The catch closes both transports.
CloseTransports(a) == [endpoints EXCEPT ![a] = [q \in Routers |-> "closed"]]

ConnectRefused(r, a) ==
    /\ connect[a][r] \in {"sent", "doomed"}
    /\ connect' = [connect EXCEPT ![a][r] = "done"]
    /\ IF phase[a] = "connecting"
       THEN Reject(a) /\ endpoints' = CloseTransports(a)
       ELSE UNCHANGED <<phase, entry, endpoints>>
    /\ UNCHANGED <<caller, shared, router>>

\* The transports of the attempts As of Router r close.  A resolved attempt has
\* listeners, so the other side closes too and the maps lose the pair; for any
\* other attempt nobody listens.
CloseSide(r, As) ==
    LET closing == {a \in As : endpoints[a][r] = "open"}
        heard == {a \in closing : phase[a] = "resolved"}
    IN  /\ endpoints' = [a \in Attempts |-> [q \in Routers |->
              IF a \in closing /\ (q = r \/ a \in heard) THEN "closed"
              ELSE endpoints[a][q]]]
        /\ entry' = [q \in Routers |->
              IF \E a \in heard : Unmap(a)[q] = 0 THEN 0 ELSE entry[q]]

TransportClose(r, a) ==
    /\ endpoints[a][r] = "open"
    /\ CloseSide(r, {a})
    /\ UNCHANGED <<caller, phase, connect, shared, router>>

\* Router.close(), or Router.workerClosed() when its Worker died: every
\* transport it knows closes.  A dead Worker answers nothing more, and its
\* Channel rejects what was asked of it.
RouterClose(r) ==
    /\ router[r] = "open"
    /\ \E how \in {"closed", "dead"} : router' = [router EXCEPT ![r] = how]
    /\ CloseSide(r, Attempts)
    /\ UNCHANGED <<caller, phase, connect, shared>>

Answered(r, a) ==
    Created(r, a) \/ CreateRefused(r, a) \/ Connected(r, a) \/ ConnectRefused(r, a)

PairNext ==
    \/ \E r \in Routers, a \in Attempts :
          PipeToRouter(r, a) \/ Answered(r, a) \/ TransportClose(r, a)
    \/ \E r \in Routers : RouterClose(r)

\* The Workers answer every request, or die and have them rejected.
PairFairness == \A r \in Routers, a \in Attempts : WF_pairVars(Answered(r, a))

PairSpec == PairInit /\ [][PairNext]_pairVars /\ PairFairness
-----------------------------------------------------------------------------
\* The promises, transports and answers have the states below, and a pair that is
\* connecting or resolved was created on both sides.
PairTypeOK ==
    /\ entry \in [Routers -> 0 .. MaxAttempts]
    /\ caller \in [Attempts -> Routers]
    /\ phase \in [Attempts -> {"none", "creating", "connecting", "resolved", "rejected"}]
    /\ endpoints \in [Attempts -> [Routers ->
          {"none", "asked", "doomed", "refused", "open", "closed"}]]
    /\ connect \in [Attempts -> [Routers -> {"none", "sent", "doomed", "done"}]]
    /\ shared \subseteq Attempts
    /\ router \in [Routers -> {"open", "closed", "dead"}]
    /\ \A a \in Attempts : phase[a] \in {"connecting", "resolved"} =>
          \A r \in Routers : endpoints[a][r] \in {"open", "closed"}

BothOpen(a) == \A r \in Routers : endpoints[a][r] = "open"

InUse(a) ==
    \/ phase[a] \in {"creating", "connecting"}
    \/ phase[a] = "resolved" /\ BothOpen(a)

\* Calls in both directions, however they interleave with failures and closures,
\* never have two PipeTransport pairs between the two Routers.
SinglePair == \A a, b \in Attempts : InUse(a) /\ InUse(b) => a = b

\* A pair in use is found by the next call: the map of the Router that asked for
\* it holds it, and so does that of the other Router unless that one refused it.
PairIsReused ==
    \A a \in Attempts : InUse(a) =>
        \A r \in Routers : r = caller[a] \/ a \in shared => entry[r] = a

\* An attempt whose connect() failed leaves no transport open on either Router.
FailedConnectCleansUp ==
    \A a \in Attempts :
        phase[a] = "rejected" /\ (\E r \in Routers : connect[a][r] # "none") =>
            \A r \in Routers : endpoints[a][r] # "open"

\* A Router that was only handed the promise of a pair does not keep a promise
\* that was rejected: addPipeTransportPair() deletes it.
CalleeForgetsRejected ==
    \A a \in Attempts, r \in Routers :
        phase[a] = "rejected" /\ entry[r] = a => r = caller[a]

\* There is one pair at most, and both Routers find it for their next calls.  A call that
\* failed leaves no transport, and no promise with the Router that was handed it.
\* (Router.ts pipeToRouter(), its catch blocks, and addPipeTransportPair().)
PairIsShared ==
    PairTypeOK /\ SinglePair /\ PairIsReused /\ FailedConnectCleansUp /\ CalleeForgetsRejected

\* Once the promise resolved with both transports open they close in one step,
\* and in that step both maps lose the pair.
PairFallsTogether ==
    [][\A a \in Attempts : phase[a] = "resolved" /\ BothOpen(a) /\ ~BothOpen(a)' =>
          /\ \A r \in Routers : endpoints'[a][r] = "closed"
          /\ \A r \in Routers : entry'[r] # a]_pairVars

\* Every attempt settles, so no call of pipeToRouter() waits for ever.
AttemptsSettle ==
    \A a \in Attempts :
        phase[a] = "creating" ~> phase[a] \in {"resolved", "rejected"}
=============================================================================
