----------------------------- MODULE ObjectTree -----------------------------
(***************************************************************************)
(* What a Router promises about its objects, with one copy of each fact.   *)
(* A Producer lives in a Transport; a Consumer lives in a Transport and    *)
(* consumes a Producer.  Closing an object closes exactly what depends on  *)
(* it: a Producer takes its Consumers along wherever they live, and a      *)
(* Transport takes its own Consumers, its Producers and their Consumers.   *)
(***************************************************************************)
CONSTANTS Transports, Producers, Consumers

VARIABLES
    transports,     \* the open Transports
    produced,       \* <<t, p>>: Transport t owns Producer p
    consumed        \* <<t, c, p>>: Transport t owns Consumer c of Producer p

treeVars == <<transports, produced, consumed>>

TreeInit == transports = {} /\ produced = {} /\ consumed = {}

OpenTransport(t) ==
    /\ t \notin transports
    /\ transports' = transports \cup {t}
    /\ UNCHANGED <<produced, consumed>>

OpenProducer(t, p) ==
    /\ t \in transports
    /\ \A pair \in produced : pair[2] # p
    /\ produced' = produced \cup {<<t, p>>}
    /\ UNCHANGED <<transports, consumed>>

OpenConsumer(t, c, p) ==
    /\ t \in transports
    /\ \E pair \in produced : pair[2] = p
    /\ \A triple \in consumed : triple[2] # c
    /\ consumed' = consumed \cup {<<t, c, p>>}
    /\ UNCHANGED <<transports, produced>>

ShutConsumer(t, c) ==
    /\ \E p \in Producers : <<t, c, p>> \in consumed
    /\ consumed' = {triple \in consumed : triple[2] # c}
    /\ UNCHANGED <<transports, produced>>

ShutProducer(t, p) ==
    /\ <<t, p>> \in produced
    /\ produced' = {pair \in produced : pair[2] # p}
    /\ consumed' = {triple \in consumed : triple[3] # p}
    /\ UNCHANGED transports

ShutTransports(ts) ==
    /\ ts \subseteq transports
    /\ transports' = transports \ ts
    /\ produced' = {pair \in produced : pair[1] \notin ts}
    /\ consumed' = {triple \in consumed :
                       /\ triple[1] \notin ts
                       /\ \A t \in ts : <<t, triple[3]>> \notin produced}

TreeNext ==
    \/ \E t \in Transports :
          \/ OpenTransport(t)
          \/ \E p \in Producers : OpenProducer(t, p) \/ ShutProducer(t, p)
          \/ \E c \in Consumers : ShutConsumer(t, c)
          \/ \E c \in Consumers, p \in Producers : OpenConsumer(t, c, p)
    \/ \E ts \in SUBSET Transports : ShutTransports(ts)

TreeSpec == TreeInit /\ [][TreeNext]_treeVars
=============================================================================
