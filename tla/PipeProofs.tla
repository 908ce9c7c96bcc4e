----------------------------- MODULE PipeProofs -----------------------------
(***************************************************************************)
(* Proofs about Router.pipeToRouter().  Its calls between two Routers      *)
(* share one pair of PipeTransports, for any number of attempts.  What it  *)
(* makes of a Producer, a Consumer on one Router and a Producer on the     *)
(* other, follows it in the end, for any number of changes.                *)
(***************************************************************************)
EXTENDS PipeTransportPair, PipedProducer, TLAPS

-----------------------------------------------------------------------------
(* The pair of PipeTransports. *)

\* The two Routers.
LEMMA TwoRouters ==
    ASSUME NEW r \in Routers
    PROVE  Other(r) \in Routers /\ Other(r) # r /\ \A q \in Routers : q = r \/ q = Other(r)
<1>1. PICK a, b \in Routers : a # b /\ Routers = {a, b}
  BY PairAssumption
<1>2. PICK o : Routers \ {r} = {o}
  BY <1>1, SMT
<1>3. o \in Routers /\ o # r
  BY <1>2
<1>4. Other(r) \in Routers /\ Other(r) # r
  BY <1>3 DEF Other
<1> QED BY <1>2, <1>4

-----------------------------------------------------------------------------
(* An attempt is live while anything that happens to it may still change   *)
(* the maps.  There is one live attempt at most: the caller's map holds it *)
(* and the other one holds it as well, or an attempt that is over.         *)

Live(a) ==
    \/ phase[a] \in {"creating", "connecting"}
    \/ phase[a] = "resolved" /\ \E r \in Routers : endpoints[a][r] = "open"

OneLive == \A a, b \in Attempts : Live(a) /\ Live(b) => a = b

LiveIsMapped ==
    \A a \in Attempts : Live(a) =>
        /\ entry[caller[a]] = a
        /\ a \in shared => entry[Other(caller[a])] = a
        /\ a \notin shared => entry[Other(caller[a])] \notin {0, a}

\* What did not begin has nothing, connect() comes after the creation, and a failed
\* connect() closed both transports.
StagesInOrder ==
    \A a \in Attempts :
        /\ phase[a] = "none" => a \notin shared /\ \A r \in Routers : entry[r] # a
        /\ phase[a] \in {"none", "creating"} => \A r \in Routers : connect[a][r] = "none"
        /\ phase[a] = "rejected" /\ (\E r \in Routers : connect[a][r] # "none") =>
              \A r \in Routers : endpoints[a][r] = "closed"

PairInv ==
    PairTypeOK /\ OneLive /\ LiveIsMapped /\ StagesInOrder /\ CalleeForgetsRejected

\* The inductive invariant is strong enough for what the run checks.
LEMMA PairInvImplies == PairInv => PairIsShared
<1> SUFFICES ASSUME PairInv PROVE PairIsShared
  OBVIOUS
<1>1. PICK s \in Routers : TRUE
  BY PairAssumption
<1>2. ASSUME NEW a \in Attempts, InUse(a) PROVE Live(a)
  BY <1>1, <1>2 DEF InUse, Live, BothOpen
<1>3. SinglePair
  BY <1>2 DEF PairInv, OneLive, SinglePair
<1>4. PairIsReused
  <2> SUFFICES ASSUME NEW a \in Attempts, InUse(a), NEW r \in Routers, r = caller[a] \/ a \in shared
               PROVE  entry[r] = a
    BY DEF PairIsReused
  <2>1. caller[a] \in Routers
    BY DEF PairInv, PairTypeOK
  <2>2. r = caller[a] \/ r = Other(caller[a])
    BY <2>1, TwoRouters
  <2> QED BY <1>2, <2>2 DEF PairInv, LiveIsMapped
<1>5. FailedConnectCleansUp
  BY DEF PairInv, StagesInOrder, FailedConnectCleansUp
<1> QED BY <1>3, <1>4, <1>5 DEF PairInv, PairIsShared

\* Before the first call there is no pair.
LEMMA PairInitInv == PairInit => PairInv
<1> SUFFICES ASSUME PairInit PROVE PairInv
  OBVIOUS
<1>1. PICK s \in Routers : TRUE
  BY PairAssumption
<1>2. PairTypeOK
  BY <1>1, PairAssumption DEF PairInit, PairTypeOK, Attempts
<1>3. \A a \in Attempts : phase[a] = "none" /\ ~Live(a) /\ a \notin shared
                          /\ \A r \in Routers : connect[a][r] = "none" /\ entry[r] # a
  BY PairAssumption DEF PairInit, Live, Attempts
<1>4. OneLive /\ LiveIsMapped
  BY <1>3 DEF OneLive, LiveIsMapped
<1>5. StagesInOrder /\ CalleeForgetsRejected
  BY <1>3 DEF StagesInOrder, CalleeForgetsRejected
<1> QED BY <1>2, <1>4, <1>5 DEF PairInv

\* A step that starts no attempt and leaves the maps alone, or changes them when no
\* attempt lives on.
LEMMA NoStart ==
    ASSUME PairInv, UNCHANGED <<caller, shared>>,
           \A a \in Attempts : Live(a)' => Live(a),
           entry' = entry \/ \A a \in Attempts : ~Live(a)'
    PROVE  OneLive' /\ LiveIsMapped'
<1>1. OneLive'
  BY DEF PairInv, OneLive
<1>2. LiveIsMapped'
  BY DEF PairInv, LiveIsMapped, Other
<1> QED BY <1>1, <1>2

\* Maps that only lose entries hold no attempt that did not begin.
LEMMA EntriesLost ==
    ASSUME PairInv, UNCHANGED shared,
           \A q \in Routers : entry'[q] = 0 \/ entry'[q] = entry[q]
    PROVE  \A a \in Attempts :
              phase[a] = "none" => a \notin shared' /\ \A q \in Routers : entry'[q] # a
<1>1. \A a \in Attempts : a # 0
  BY PairAssumption DEF Attempts
<1> QED BY <1>1 DEF PairInv, StagesInOrder

\* pipeToRouter() starts a pair only when none is live.
LEMMA PipeToRouterInv ==
    ASSUME PairInv, NEW r \in Routers, NEW a \in Attempts, PipeToRouter(r, a)
    PROVE  PairInv'
<1> USE DEF PipeToRouter, StartPair
<1>0. Other(r) \in Routers /\ Other(r) # r /\ \A q \in Routers : q = r \/ q = Other(r)
  BY TwoRouters
<1>1. entry[r] = 0 /\ phase[a] = "none" /\ a \notin shared /\ a # 0
  BY PairAssumption DEF Fresh, PairInv, StagesInOrder, Attempts
<1>2. ASSUME NEW b \in Attempts, Live(b) PROVE FALSE
  <2>1. caller[b] \in Routers /\ b # 0
    BY PairAssumption DEF PairInv, PairTypeOK, Attempts
  <2>2. r = caller[b] \/ r = Other(caller[b])
    BY <2>1, TwoRouters
  <2> QED BY <1>1, <1>2, <2>1, <2>2 DEF PairInv, LiveIsMapped
<1>3. PairTypeOK'
  BY DEF PairInv, PairTypeOK, Attempts
<1>4. \A b \in Attempts : b # a => phase'[b] = phase[b] /\ endpoints'[b] = endpoints[b]
                                   /\ caller'[b] = caller[b]
  BY DEF PairInv, PairTypeOK
<1>5. phase'[a] = "creating" /\ caller'[a] = r
  BY DEF PairInv, PairTypeOK
<1>6. \A b \in Attempts : Live(b)' => b = a
  BY <1>2, <1>4 DEF Live
<1>7. OneLive'
  BY <1>6, Zenon DEF OneLive
<1>8. entry'[r] = a /\ entry'[Other(r)] = (IF entry[Other(r)] = 0 THEN a ELSE entry[Other(r)])
  BY <1>0
<1>9. entry[Other(r)] # a
  BY <1>0, <1>1 DEF PairInv, StagesInOrder
<1>10. a \in shared' <=> entry[Other(r)] = 0
  BY <1>1
<1>11. LiveIsMapped'
  <2> SUFFICES ASSUME NEW b \in Attempts, Live(b)'
               PROVE  /\ entry'[caller'[b]] = b
                      /\ b \in shared' => entry'[Other(caller'[b])] = b
                      /\ b \notin shared' => entry'[Other(caller'[b])] \notin {0, b}
    BY Zenon DEF LiveIsMapped, Other
  <2>1. b = a
    BY <1>6
  <2> QED BY <2>1, <1>5, <1>8, <1>9, <1>10
<1>12. StagesInOrder'
  <2>1. \A b \in Attempts : b # a => (b \in shared' <=> b \in shared)
    OBVIOUS
  <2>2. \A b \in Attempts : b # a => \A q \in Routers : entry'[q] = b => entry[q] = b
    BY <1>0, <1>8
  <2>3. connect' = connect
    BY Zenon
  <2> QED BY <1>1, <1>4, <1>5, <2>1, <2>2, <2>3, SMTT(30) DEF PairInv, StagesInOrder
<1>13. CalleeForgetsRejected'
  <2>1. \A b \in Attempts : b # a => \A q \in Routers : entry'[q] = b => entry[q] = b
    BY <1>0, <1>8
  <2> QED BY <1>4, <1>5, <2>1, SMTT(30) DEF PairInv, CalleeForgetsRejected
<1> QED BY <1>3, <1>7, <1>11, <1>12, <1>13 DEF PairInv

\* An answer to createPipeTransport().
LEMMA CreatedInv ==
    ASSUME PairInv, NEW r \in Routers, NEW a \in Attempts, Created(r, a)
    PROVE  PairInv'
<1> USE DEF Created
<1>0. Other(r) \in Routers /\ Other(r) # r /\ \A q \in Routers : q = r \/ q = Other(r)
  BY TwoRouters
<1>1. PairTypeOK
  BY DEF PairInv
<1>2. /\ endpoints'[a][r] = "open" /\ endpoints'[a][Other(r)] = endpoints[a][Other(r)]
      /\ \A b \in Attempts : b # a => endpoints'[b] = endpoints[b]
  BY <1>0, <1>1 DEF PairTypeOK
<1>3. phase[a] \in {"none", "creating", "rejected"}
  BY <1>1, Zenon DEF PairTypeOK
<1>4. \A b \in Attempts : b # a => phase'[b] = phase[b] /\ connect'[b] = connect[b]
  BY <1>1 DEF PairTypeOK
<1>5. \/ phase[a] = "creating" /\ phase'[a] = "connecting" /\ endpoints[a][Other(r)] \in {"open", "closed"}
      \/ phase'[a] = phase[a] /\ connect'[a] = connect[a]
  BY <1>1 DEF PairTypeOK
<1>6. PairTypeOK'
  <2>1. /\ endpoints' \in [Attempts -> [Routers ->
              {"none", "asked", "doomed", "refused", "open", "closed"}]]
        /\ phase' \in [Attempts -> {"none", "creating", "connecting", "resolved", "rejected"}]
    BY <1>1, Zenon DEF PairTypeOK
  <2>2. connect' \in [Attempts -> [Routers -> {"none", "sent", "doomed", "done"}]]
    BY <1>1, SMTT(30) DEF PairTypeOK
  <2>3. ASSUME NEW b \in Attempts, phase'[b] \in {"connecting", "resolved"}
        PROVE  \A q \in Routers : endpoints'[b][q] \in {"open", "closed"}
    BY <1>0, <1>1, <1>2, <1>3, <1>4, <1>5, <2>3, Zenon DEF PairTypeOK
  <2> QED BY <1>1, <2>1, <2>2, <2>3, Zenon DEF PairTypeOK
<1>7. \A b \in Attempts : Live(b)' => Live(b)
  BY <1>2, <1>3, <1>4, <1>5, Zenon DEF Live
<1>8. OneLive' /\ LiveIsMapped'
  BY <1>7, NoStart, Zenon
<1>9. StagesInOrder'
  BY <1>2, <1>4, <1>5 DEF PairInv, StagesInOrder
<1>10. CalleeForgetsRejected'
  BY <1>4, <1>5 DEF PairInv, CalleeForgetsRejected
<1> QED BY <1>6, <1>8, <1>9, <1>10 DEF PairInv

\* A promise that rejects is the live one, and the Router it was shared with forgets it.
LEMMA RejectFacts ==
    ASSUME PairInv, NEW a \in Attempts, phase[a] \in {"creating", "connecting"}, Reject(a)
    PROVE  /\ entry' \in [Routers -> 0 .. MaxAttempts]
           /\ phase' \in [Attempts -> {"none", "creating", "connecting", "resolved", "rejected"}]
           /\ phase'[a] = "rejected" /\ \A b \in Attempts : b # a => phase'[b] = phase[b]
           /\ \A b \in Attempts : b # a => ~Live(b)
           /\ \A q \in Routers : entry'[q] = 0 \/ entry'[q] = entry[q]
           /\ \A q \in Routers : entry'[q] = a => q = caller[a]
<1> USE DEF Reject, Forget
<1>1. PairTypeOK /\ Live(a) /\ a # 0 /\ 0 \in 0 .. MaxAttempts
  BY PairAssumption DEF PairInv, Live, Attempts
<1>2. /\ entry' \in [Routers -> 0 .. MaxAttempts]
      /\ phase' \in [Attempts -> {"none", "creating", "connecting", "resolved", "rejected"}]
      /\ phase'[a] = "rejected" /\ \A b \in Attempts : b # a => phase'[b] = phase[b]
  BY <1>1 DEF PairTypeOK
<1>3. \A b \in Attempts : b # a => ~Live(b)
  BY <1>1 DEF PairInv, OneLive
<1>4. caller[a] \in Routers
  BY <1>1 DEF PairTypeOK
<1>5. ASSUME NEW q \in Routers, entry'[q] = a, q # caller[a] PROVE FALSE
  <2>1. q = Other(caller[a])
    BY <1>4, <1>5, TwoRouters
  <2>2. a \notin shared
    BY <1>1, <1>5
  <2> QED BY <1>1, <1>5, <2>1, <2>2, Zenon DEF PairInv, LiveIsMapped
<1> QED BY <1>2, <1>3, <1>5

\* createPipeTransport() fails in one of the workers: the promise rejects.
LEMMA CreateRefusedInv ==
    ASSUME PairInv, NEW r \in Routers, NEW a \in Attempts, CreateRefused(r, a)
    PROVE  PairInv'
<1> USE DEF CreateRefused
<1>1. PairTypeOK /\ phase[a] \notin {"connecting", "resolved"}
  <2>1. PairTypeOK /\ endpoints[a][r] \notin {"open", "closed"}
    BY DEF PairInv
  <2> QED BY <2>1 DEF PairTypeOK
<1>2. /\ endpoints' \in [Attempts -> [Routers ->
              {"none", "asked", "doomed", "refused", "open", "closed"}]]
      /\ \A b \in Attempts : b # a => endpoints'[b] = endpoints[b]
  BY <1>1 DEF PairTypeOK
<1>3. CASE phase[a] = "creating"
  <2>0. Reject(a)
    BY <1>3
  <2>1. /\ entry' \in [Routers -> 0 .. MaxAttempts]
        /\ phase' \in [Attempts -> {"none", "creating", "connecting", "resolved", "rejected"}]
        /\ phase'[a] = "rejected" /\ \A b \in Attempts : b # a => phase'[b] = phase[b]
        /\ \A b \in Attempts : b # a => ~Live(b)
        /\ \A q \in Routers : entry'[q] = 0 \/ entry'[q] = entry[q]
        /\ \A q \in Routers : entry'[q] = a => q = caller[a]
    BY <1>3, <2>0, RejectFacts
  <2>2. PairTypeOK'
    BY <1>1, <1>2, <2>1, Zenon DEF PairTypeOK
  <2>3. \A b \in Attempts : ~Live(b)'
    BY <1>2, <2>1 DEF Live
  <2>4. OneLive' /\ LiveIsMapped'
    BY <2>3, NoStart
  <2>5. StagesInOrder'
    <3>1. \A b \in Attempts : phase[b] = "none" => b \notin shared' /\ \A q \in Routers : entry'[q] # b
      BY <2>1, EntriesLost
    <3> QED BY <1>2, <1>3, <2>1, <3>1 DEF PairInv, StagesInOrder
  <2>6. CalleeForgetsRejected'
    BY <2>1, PairAssumption DEF PairInv, CalleeForgetsRejected, Attempts
  <2> QED BY <2>2, <2>4, <2>5, <2>6 DEF PairInv
<1>4. CASE phase[a] # "creating"
  <2>1. phase' = phase /\ entry' = entry
    BY <1>4
  <2>2. PairTypeOK'
    BY <1>1, <1>2, <2>1, Zenon DEF PairTypeOK
  <2>3. \A b \in Attempts : Live(b)' => Live(b)
    BY <1>1, <1>2, <1>4, <2>1 DEF Live
  <2>4. OneLive' /\ LiveIsMapped'
    BY <2>1, <2>3, NoStart
  <2>5. StagesInOrder'
    BY <1>1, <1>2, <2>1 DEF PairInv, StagesInOrder
  <2>6. CalleeForgetsRejected'
    BY <2>1 DEF PairInv, CalleeForgetsRejected
  <2> QED BY <2>2, <2>4, <2>5, <2>6 DEF PairInv
<1> QED BY <1>3, <1>4

\* The answers to connect().
LEMMA ConnectedInv ==
    ASSUME PairInv, NEW r \in Routers, NEW a \in Attempts, Connected(r, a)
    PROVE  PairInv'
<1> USE DEF Connected
<1>1. PairTypeOK
  BY DEF PairInv
<1>2. /\ connect' \in [Attempts -> [Routers -> {"none", "sent", "doomed", "done"}]]
      /\ \A b \in Attempts : b # a => connect'[b] = connect[b]
      /\ phase' \in [Attempts -> {"none", "creating", "connecting", "resolved", "rejected"}]
      /\ \A b \in Attempts : b # a => phase'[b] = phase[b]
      /\ phase'[a] = phase[a] \/ (phase[a] = "connecting" /\ phase'[a] = "resolved")
  BY <1>1 DEF PairTypeOK
<1>3. phase[a] \notin {"none", "creating"}
  BY DEF PairInv, StagesInOrder
<1>4. PairTypeOK'
  BY <1>1, <1>2, ZenonT(40) DEF PairTypeOK
<1>5. \A b \in Attempts : Live(b)' => Live(b)
  BY <1>2, Zenon DEF Live
<1>6. OneLive' /\ LiveIsMapped'
  BY <1>5, NoStart
<1>7. StagesInOrder'
  BY <1>2, <1>3 DEF PairInv, StagesInOrder
<1>8. CalleeForgetsRejected'
  BY <1>2, ZenonT(40) DEF PairInv, CalleeForgetsRejected
<1> QED BY <1>4, <1>6, <1>7, <1>8 DEF PairInv

\* connect() fails on one side: what was created is closed again.
LEMMA ConnectRefusedInv ==
    ASSUME PairInv, NEW r \in Routers, NEW a \in Attempts, ConnectRefused(r, a)
    PROVE  PairInv'
<1> USE DEF ConnectRefused
<1>1. PairTypeOK /\ phase[a] \notin {"none", "creating"}
  BY DEF PairInv, StagesInOrder
<1>2. /\ connect' \in [Attempts -> [Routers -> {"none", "sent", "doomed", "done"}]]
      /\ \A b \in Attempts : b # a => connect'[b] = connect[b]
  BY <1>1 DEF PairTypeOK
<1>3. CASE phase[a] = "connecting"
  <2>0. Reject(a)
    BY <1>3
  <2>1. /\ entry' \in [Routers -> 0 .. MaxAttempts]
        /\ phase' \in [Attempts -> {"none", "creating", "connecting", "resolved", "rejected"}]
        /\ phase'[a] = "rejected" /\ \A b \in Attempts : b # a => phase'[b] = phase[b]
        /\ \A b \in Attempts : b # a => ~Live(b)
        /\ \A q \in Routers : entry'[q] = 0 \/ entry'[q] = entry[q]
        /\ \A q \in Routers : entry'[q] = a => q = caller[a]
    BY <1>3, <2>0, RejectFacts
  <2>2. /\ endpoints' \in [Attempts -> [Routers ->
              {"none", "asked", "doomed", "refused", "open", "closed"}]]
        /\ \A b \in Attempts : b # a => endpoints'[b] = endpoints[b]
        /\ \A q \in Routers : endpoints'[a][q] = "closed"
    BY <1>1, <1>3, SMTT(30) DEF PairTypeOK, CloseTransports
  <2>3. PairTypeOK'
    BY <1>1, <1>2, <2>1, <2>2, ZenonT(40) DEF PairTypeOK
  <2>4. \A b \in Attempts : ~Live(b)'
    BY <2>1, <2>2 DEF Live
  <2>5. OneLive' /\ LiveIsMapped'
    BY <2>4, NoStart
  <2>6. StagesInOrder'
    <3>1. \A b \in Attempts : phase[b] = "none" => b \notin shared' /\ \A q \in Routers : entry'[q] # b
      BY <2>1, EntriesLost, Zenon
    <3> QED BY <1>2, <2>1, <2>2, <3>1, SMTT(30) DEF PairInv, StagesInOrder
  <2>7. CalleeForgetsRejected'
    BY <2>1, PairAssumption DEF PairInv, CalleeForgetsRejected, Attempts
  <2> QED BY <2>3, <2>5, <2>6, <2>7 DEF PairInv
<1>4. CASE phase[a] # "connecting"
  <2>1. phase' = phase /\ entry' = entry /\ endpoints' = endpoints
    BY <1>4
  <2>2. PairTypeOK'
    BY <1>1, <1>2, <2>1, Zenon DEF PairTypeOK
  <2>3. \A b \in Attempts : Live(b)' => Live(b)
    BY <2>1 DEF Live
  <2>4. OneLive' /\ LiveIsMapped'
    BY <2>1, <2>3, NoStart
  <2>5. StagesInOrder'
    BY <1>1, <1>2, <2>1, SMTT(30) DEF PairInv, StagesInOrder
  <2>6. CalleeForgetsRejected'
    BY <2>1 DEF PairInv, CalleeForgetsRejected
  <2> QED BY <2>2, <2>4, <2>5, <2>6 DEF PairInv
<1> QED BY <1>3, <1>4

-----------------------------------------------------------------------------
(* Closures.  One that the listeners hear is of the live attempt, and ends *)
(* it.                                                                     *)

\* The transports of one Router close; the 'close' listener of a finished pair
\* closes its other side and deletes both map entries.
LEMMA CloseSideInv ==
    ASSUME PairInv, NEW r \in Routers, NEW As \in SUBSET Attempts, CloseSide(r, As),
           UNCHANGED <<caller, phase, connect, shared>>,
           router' \in [Routers -> {"open", "closed", "dead"}]
    PROVE  PairInv'
<1> DEFINE Heard(a) == a \in As /\ endpoints[a][r] = "open" /\ phase[a] = "resolved"
<1>1. PairTypeOK /\ 0 \in 0 .. MaxAttempts
  BY PairAssumption DEF PairInv
<1>2. /\ endpoints' \in [Attempts -> [Routers ->
              {"none", "asked", "doomed", "refused", "open", "closed"}]]
      /\ \A a \in Attempts, q \in Routers :
            endpoints'[a][q] = "closed" \/ endpoints'[a][q] = endpoints[a][q]
      /\ \A a \in Attempts : Heard(a) => \A q \in Routers : endpoints'[a][q] = "closed"
  BY <1>1 DEF CloseSide, PairTypeOK
<1>3. /\ entry' \in [Routers -> 0 .. MaxAttempts]
      /\ \A q \in Routers : entry'[q] = 0 \/ entry'[q] = entry[q]
      /\ (\A a \in Attempts : ~Heard(a)) => entry' = entry
  BY <1>1 DEF CloseSide, PairTypeOK
<1>4. PairTypeOK'
  BY <1>1, <1>2, <1>3 DEF PairTypeOK
<1>5. \A a \in Attempts : Live(a)' => Live(a)
  BY <1>2, Zenon DEF Live
<1>6. entry' = entry \/ \A a \in Attempts : ~Live(a)'
  <2> SUFFICES ASSUME NEW a \in Attempts, Heard(a) PROVE \A b \in Attempts : ~Live(b)'
    BY <1>3, Zenon
  <2>1. Live(a) /\ ~Live(a)'
    BY <1>2, Zenon DEF Live
  <2> QED BY <1>5, <2>1, Zenon DEF PairInv, OneLive
<1>7. OneLive' /\ LiveIsMapped'
  BY <1>5, <1>6, NoStart
<1>8. StagesInOrder'
  <2>1. \A b \in Attempts : phase[b] = "none" => b \notin shared' /\ \A q \in Routers : entry'[q] # b
    BY <1>3, EntriesLost, Zenon
  <2> QED BY <1>2, <2>1, SMTT(30) DEF PairInv, StagesInOrder
<1>9. CalleeForgetsRejected'
  BY <1>3, PairAssumption, SMTT(30) DEF PairInv, CalleeForgetsRejected, Attempts
<1> QED BY <1>4, <1>7, <1>8, <1>9 DEF PairInv

\* Every continuation of pipeToRouter() and every closure keeps the invariant.
LEMMA PairNextInv == PairInv /\ [PairNext]_pairVars => PairInv'
<1> SUFFICES ASSUME PairInv, [PairNext]_pairVars PROVE PairInv'
  OBVIOUS
<1>1. ASSUME NEW r \in Routers, NEW a \in Attempts, PipeToRouter(r, a) PROVE PairInv'
  BY <1>1, PipeToRouterInv
<1>2. ASSUME NEW r \in Routers, NEW a \in Attempts, Answered(r, a) PROVE PairInv'
  BY <1>2, CreatedInv, CreateRefusedInv, ConnectedInv, ConnectRefusedInv DEF Answered
<1>3. ASSUME NEW r \in Routers, NEW a \in Attempts, TransportClose(r, a) PROVE PairInv'
  <2>1. CloseSide(r, {a}) /\ UNCHANGED <<caller, phase, connect, shared>>
    BY <1>3, Zenon DEF TransportClose
  <2>2. router' \in [Routers -> {"open", "closed", "dead"}]
    BY <1>3 DEF TransportClose, PairInv, PairTypeOK
  <2>3. {a} \in SUBSET Attempts
    OBVIOUS
  <2> QED BY <2>1, <2>2, <2>3, CloseSideInv
<1>4. ASSUME NEW r \in Routers, RouterClose(r) PROVE PairInv'
  <2>1. CloseSide(r, Attempts) /\ UNCHANGED <<caller, phase, connect, shared>>
    BY <1>4 DEF RouterClose
  <2>2. router' \in [Routers -> {"open", "closed", "dead"}]
    BY <1>4 DEF RouterClose, PairInv, PairTypeOK
  <2> QED BY <2>1, <2>2, CloseSideInv
<1>5. CASE UNCHANGED pairVars
  BY <1>5, SMTT(30) DEF pairVars, PairInv, PairTypeOK, OneLive, LiveIsMapped, Live, StagesInOrder,
              CalleeForgetsRejected, Other
<1> QED BY <1>1, <1>2, <1>3, <1>4, <1>5 DEF PairNext

-----------------------------------------------------------------------------
\* For any number of attempts and whatever fails or closes in between, two Routers have
\* one pair at most, both find it for their next calls, and a call that failed leaves no
\* transport and no promise with the Router that was handed it.  (Router.ts
\* pipeToRouter(), addPipeTransportPair(), the 'close' listeners.)
THEOREM PairCorrect == PairSpec => []PairIsShared
BY PairInitInv, PairNextInv, PairInvImplies, PTL DEF PairSpec

\* The step that ends a pair.
Falls(a) == \A r \in Routers : endpoints'[a][r] = "closed" /\ entry'[r] # a

\* A pair that was whole and is no more, is down on both sides.
LEMMA FallsTogether ==
    ASSUME PairInv, [PairNext]_pairVars, NEW a \in Attempts,
           phase[a] = "resolved", BothOpen(a), ~BothOpen(a)'
    PROVE  Falls(a)
<1>1. PairTypeOK /\ a # 0
  BY PairAssumption DEF PairInv, Attempts
<1>2. ASSUME NEW r \in Routers, NEW As \in SUBSET Attempts, CloseSide(r, As)
      PROVE  Falls(a)
  <2>1. a \in As
    <3> SUFFICES ASSUME a \notin As PROVE FALSE
      OBVIOUS
    <3>1. \A q \in Routers : endpoints'[a][q] = endpoints[a][q]
      BY <1>2, Zenon DEF CloseSide
    <3> QED BY <3>1 DEF BothOpen
  <2>2. endpoints[a][r] = "open"
    BY DEF BothOpen
  <2>3. \A q \in Routers : endpoints'[a][q] = "closed"
    BY <1>2, <2>1, <2>2, Zenon DEF CloseSide
  <2>4. \A q \in Routers : entry'[q] = 0 \/ entry'[q] = entry[q]
    BY <1>2, Zenon DEF CloseSide
  <2>5. \A q \in Routers : q = caller[a] \/ a \in shared => Unmap(a)[q] = 0
    BY Zenon DEF Unmap, BothOpen
  <2>6. \A q \in Routers : q = caller[a] \/ a \in shared => entry'[q] = 0
    BY <1>2, <2>1, <2>2, <2>5, Zenon DEF CloseSide
  <2>7. ASSUME NEW q \in Routers, entry'[q] = a PROVE FALSE
    <3>1. q # caller[a] /\ a \notin shared /\ entry[q] = a
      BY <1>1, <2>4, <2>6, <2>7, Zenon
    <3>2. caller[a] \in Routers
      BY <1>1 DEF PairTypeOK
    <3>3. q = Other(caller[a])
      BY <3>1, <3>2, TwoRouters
    <3>4. Live(a)
      BY <2>2, Zenon DEF Live
    <3> QED BY <3>1, <3>3, <3>4, Zenon DEF PairInv, LiveIsMapped
  <2> QED BY <2>3, <2>7, Zenon DEF Falls
<1>3. ASSUME endpoints'[a] = endpoints[a] PROVE FALSE
  BY <1>3 DEF BothOpen
<1>4. ASSUME NEW r \in Routers, NEW b \in Attempts, PipeToRouter(r, b) PROVE FALSE
  <2>1. b # a
    BY <1>4, Zenon DEF PipeToRouter, Fresh
  <2> QED BY <1>1, <1>3, <1>4, <2>1, Zenon DEF PipeToRouter, StartPair, PairTypeOK
<1>5. ASSUME NEW r \in Routers, NEW b \in Attempts, Answered(r, b) PROVE FALSE
  <2>1. CASE Created(r, b) \/ CreateRefused(r, b)
    <3>1. b # a
      BY <2>1, Zenon DEF Created, CreateRefused, BothOpen
    <3> QED BY <1>1, <1>3, <2>1, <3>1, Zenon DEF Created, CreateRefused, PairTypeOK
  <2>2. CASE Connected(r, b)
    BY <1>3, <2>2 DEF Connected
  <2>3. CASE ConnectRefused(r, b)
    BY <1>1, <1>3, <2>3, Zenon DEF ConnectRefused, CloseTransports, PairTypeOK
  <2> QED BY <1>5, <2>1, <2>2, <2>3 DEF Answered
<1>6. ASSUME NEW r \in Routers, NEW b \in Attempts, TransportClose(r, b)
      PROVE  Falls(a)
  <2>1. CloseSide(r, {b}) /\ {b} \in SUBSET Attempts
    BY <1>6, Zenon DEF TransportClose
  <2> QED BY <1>2, <2>1, Zenon
<1>7. ASSUME NEW r \in Routers, RouterClose(r)
      PROVE  Falls(a)
  BY <1>2, <1>7, Zenon DEF RouterClose
<1>8. CASE UNCHANGED pairVars
  BY <1>3, <1>8, Zenon DEF pairVars
<1> QED BY <1>4, <1>5, <1>6, <1>7, <1>8, Zenon DEF PairNext

\* A pair that came up whole goes down whole: its two transports close in one step, in
\* which both maps lose it.  (Router.ts, the 'close' listeners of pipeToRouter().)
THEOREM PairEndsWhole == PairSpec => PairFallsTogether
<1>1. ASSUME PairInv, [PairNext]_pairVars
      PROVE  [\A a \in Attempts : phase[a] = "resolved" /\ BothOpen(a) /\ ~BothOpen(a)' =>
                 /\ \A r \in Routers : endpoints'[a][r] = "closed"
                 /\ \A r \in Routers : entry'[r] # a]_pairVars
  BY <1>1, FallsTogether, Zenon DEF Falls
<1> QED BY <1>1, PairInitInv, PairNextInv, PTL DEF PairSpec, PairFallsTogether

-----------------------------------------------------------------------------
(* One call of pipeToRouter().  What the Workers did and JS has still to   *)
(* hear of is in the queues, and what JS ends up with is the last that is  *)
(* on its way, or what it has.  These say what a queue holds, and in which *)
(* order.                                                                  *)

Holds(q, S) == \E i \in 1..Len(q) : q[i] \in S

Once(q, S) == \A i, j \in 1..Len(q) : q[i] \in S /\ q[j] \in S => i = j

Precedes(q, S, T) == \A i, j \in 1..Len(q) : q[i] \in S /\ q[j] \in T => i < j

\* Before each of T there is one of S.
Led(q, S, T) ==
    \A j \in 1..Len(q) : q[j] \in T => \E i \in 1..Len(q) : i < j /\ q[i] \in S

\* The last of S is one of G.
Last(q, S, G) ==
    \E i \in 1..Len(q) : q[i] \in G /\ \A j \in 1..Len(q) : i < j => q[j] \notin S

EndsWith(q, x) ==
    /\ Len(q) > 0 /\ q[Len(q)] = x
    /\ \A i \in 1..Len(q) : i < Len(q) => q[i] # x

PauseAnswers == {"pause done", "resume done"}
Grants == {"consumed", "consumed paused"}
ConsumeAnswers == Grants \cup {"refused"}
News == {"producerpause", "producerresume"}
Views == Grants \cup News
Notices == News \cup {"producerclose"}
Changes == {"pause", "resume"}

\* Whether the Producer is paused once JS has read q, whether the pipe Consumer believes so,
\* and whether the pipe Producer is paused once Worker B has.
PausedAfter(q, base) ==
    IF Holds(q, PauseAnswers) THEN Last(q, PauseAnswers, {"pause done"}) ELSE base

PausedView(q, base) ==
    IF Holds(q, Views) THEN Last(q, Views, {"consumed paused", "producerpause"}) ELSE base

PausedNext(q, base) == IF Holds(q, Changes) THEN Last(q, Changes, {"pause"}) ELSE base

ToA == Changes \cup {"consume", "close", "closeConsumer"}
FromA == ConsumeAnswers \cup Notices \cup PauseAnswers
ToB == Changes \cup {"produce", "produce paused", "close"}
FromB == PauseAnswers \cup {"produced", "refused"}

QueuesOK ==
    /\ requestsA \in Seq(ToA) /\ repliesA \in Seq(FromA) /\ deferred \in Seq(Notices)
    /\ requestsB \in Seq(ToB) /\ repliesB \in Seq(FromB)

\* The call asks for one pipe Consumer, before the Producer is closed, and has one answer.
AskedOnce ==
    /\ Once(requestsA, {"consume"}) /\ Precedes(requestsA, {"consume"}, {"close"})
    /\ Holds(requestsA, {"consume"}) =>
          /\ stage = "consuming" /\ workerA.producer /\ ~workerA.consumer
          /\ ~Holds(repliesA, ConsumeAnswers)
    /\ Once(repliesA, ConsumeAnswers)
    /\ Holds(repliesA, ConsumeAnswers) => stage = "consuming"

\* The pipe Consumer tells nothing before the answer that it is there.
AnswerFirst ==
    /\ stage \in {"pairing", "consuming"} => pipeConsumer.state = "none"
    /\ stage = "pairing" => ~workerA.consumer
    /\ pipeConsumer.state = "none" =>
          /\ deferred = << >> /\ stage \in {"pairing", "consuming", "failed"}
          /\ Led(repliesA, Grants, Notices)
    /\ Holds(requestsA, {"closeConsumer"}) => pipeConsumer.state = "closed"

\* What JS and Worker A do not agree about yet is on its way.
ConsumerAgreed ==
    /\ original.closed <=> Holds(requestsA, {"close"}) \/ ~workerA.producer
    /\ workerA.consumer =>
          /\ workerA.producer
          /\ \/ pipeConsumer.state = "open"
             \/ pipeConsumer.state = "none" /\ Holds(repliesA, Grants)
             \/ Holds(requestsA, {"closeConsumer"})
          /\ ~Holds(repliesA, {"producerclose"}) /\ ~Holds(deferred, {"producerclose"})
    /\ pipeConsumer.state = "open" \/ Holds(repliesA, Grants) =>
          \/ workerA.consumer
          \/ Holds(repliesA, {"producerclose"}) \/ Holds(deferred, {"producerclose"})

PausesAgreed ==
    /\ PausedAfter(repliesA, original.paused) <=> workerA.paused
    /\ workerA.consumer /\ pipeConsumer.state # "closed" =>
          (PausedView(repliesA, PausedView(deferred, pipeConsumer.producerPaused))
              <=> workerA.paused)

\* How far the call got with the pipe Producer.
NotAsked ==
    pipeProducer.state = "none" /\ workerB = "none" /\ requestsB = << >> /\ repliesB = << >>

Asked ==
    /\ pipeProducer.state = "none"
    /\ \/ /\ workerB = "none" /\ repliesB = << >>
          /\ requestsB = <<IF pipeProducer.paused THEN "produce paused" ELSE "produce">>
       \/ /\ workerB = (IF pipeProducer.paused THEN "paused" ELSE "playing")
          /\ requestsB = << >> /\ repliesB = <<"produced">>
       \/ workerB = "none" /\ requestsB = << >> /\ repliesB = <<"refused">>

Ended ==
    /\ pipeProducer.state = "closed" /\ pipeConsumer.state = "closed"
    /\ \/ workerB = "closed" /\ requestsB = << >>
       \/ workerB \in {"paused", "playing"} /\ EndsWith(requestsB, "close")

Playing ==
    /\ pipeProducer.state = "open" /\ workerB \in {"paused", "playing"}
    /\ ~Holds(requestsB, {"close"})

Piped ==
    /\ requestsB \in Seq(Changes \cup {"close"}) /\ repliesB \in Seq(PauseAnswers)
    /\ Playing \/ (stage = "piped" /\ Ended)
    /\ workerB # "closed" => (PausedAfter(repliesB, pipeProducer.paused) <=> workerB = "paused")
    /\ inStep /\ pipeConsumer.state = "open" =>
          (PausedNext(requestsB, workerB = "paused") <=> pipeConsumer.producerPaused)
    /\ inStep /\ pipeConsumer.state # "open" => pipeProducer.state = "closed"

StageOK ==
    /\ stage \in {"pairing", "consuming"} => NotAsked
    /\ stage = "producing" => Asked
    /\ stage \in {"syncing", "piped"} => Piped
    /\ stage = "failed" => /\ pipeConsumer.state # "open" /\ repliesB = << >>
                           /\ NotAsked \/ (Ended /\ requestsB \in {<< >>, <<"close">>})

PipeInv ==
    /\ PipeTypeOK /\ QueuesOK /\ AskedOnce /\ AnswerFirst /\ ConsumerAgreed
    /\ PausesAgreed /\ StageOK

\* r is the queue q of messages of T with x put at the end.
IsAdded(r, q, x, T) ==
    /\ r \in Seq(T) /\ r # << >>
    /\ \A S : Holds(r, S) <=> Holds(q, S) \/ x \in S
    /\ \A S : Once(r, S) <=> Once(q, S) /\ (x \in S => ~Holds(q, S))
    /\ \A S, R : x \notin S => (Precedes(r, S, R) <=> Precedes(q, S, R))
    /\ \A S, R : Precedes(q, S, R) /\ ~Holds(q, R) /\ x \notin R => Precedes(r, S, R)
    /\ \A S, R : Led(r, S, R) <=> Led(q, S, R) /\ (x \in R => Holds(q, S))
    /\ \A S, G : G \subseteq S => (Last(r, S, G) <=> IF x \in S THEN x \in G ELSE Last(q, S, G))
    /\ ~Holds(q, {x}) => EndsWith(r, x)

\* r is the queue q of messages of T without its first one, x.
IsTaken(r, q, x, T) ==
    /\ r \in Seq(T) /\ x \in T
    /\ \A S : Holds(q, S) <=> x \in S \/ Holds(r, S)
    /\ \A S : Once(q, S) => Once(r, S) /\ (x \in S => ~Holds(r, S))
    /\ \A S, R : Precedes(q, S, R) => Precedes(r, S, R) /\ (x \in R => ~Holds(r, S))
    /\ \A S, R : Led(q, S, R) /\ x \notin S => Led(r, S, R) /\ x \notin R
    /\ \A S, G : G \subseteq S =>
          (Last(q, S, G) <=> IF Holds(r, S) THEN Last(r, S, G) ELSE x \in G)
    /\ \A y : EndsWith(q, y) => IF x = y THEN r = << >> ELSE EndsWith(r, y)

\* Append() does so.
LEMMA Added ==
    ASSUME NEW T, NEW q \in Seq(T), NEW x \in T
    PROVE  IsAdded(Append(q, x), q, x, T)
<1> DEFINE r == Append(q, x)
           n == Len(q)
<1>1. /\ n \in Nat /\ Len(r) = n + 1 /\ r[n + 1] = x
      /\ \A i \in 1..n : r[i] = q[i]
      /\ r \in Seq(T) /\ r # << >>
  OBVIOUS
<1>2. \A i : i \in 1..(n + 1) <=> i \in 1..n \/ i = n + 1
  BY <1>1
<1> HIDE DEF r, n
<1>3. \A S : Holds(r, S) <=> Holds(q, S) \/ x \in S
  BY <1>1, <1>2, Zenon DEF Holds, n
<1>4. \A S : Once(r, S) <=> Once(q, S) /\ (x \in S => ~Holds(q, S))
  BY <1>1, <1>2 DEF Holds, Once, n
<1>5. \A S, R : x \notin S => (Precedes(r, S, R) <=> Precedes(q, S, R))
  BY <1>1, <1>2, SMTT(60) DEF Precedes, n
<1>6. \A S, R : Precedes(q, S, R) /\ ~Holds(q, R) /\ x \notin R => Precedes(r, S, R)
  BY <1>1, <1>2 DEF Precedes, Holds, n
<1>7. \A S, R : Led(r, S, R) <=> Led(q, S, R) /\ (x \in R => Holds(q, S))
  BY <1>1, <1>2 DEF Led, Holds, n
<1>8. ASSUME NEW S, NEW G, G \subseteq S
      PROVE  Last(r, S, G) <=> IF x \in S THEN x \in G ELSE Last(q, S, G)
  BY <1>1, <1>2, <1>8 DEF Last, n
<1>9. ~Holds(q, {x}) => EndsWith(r, x)
  BY <1>1, <1>2 DEF Holds, EndsWith, n
<1> QED BY <1>1, <1>3, <1>4, <1>5, <1>6, <1>7, <1>8, <1>9, Zenon DEF r, IsAdded

\* Tail() does so.
LEMMA Taken ==
    ASSUME NEW T, NEW q \in Seq(T), q # << >>
    PROVE  IsTaken(Tail(q), q, Head(q), T)
<1> DEFINE r == Tail(q)
           n == Len(r)
<1>1. /\ n \in Nat /\ Len(q) = n + 1 /\ Head(q) = q[1]
      /\ \A i \in 1..n : r[i] = q[i + 1]
      /\ r \in Seq(T) /\ q[1] \in T
  OBVIOUS
<1>2. /\ 1 \in 1..(n + 1) /\ \A k \in 1..n : k + 1 \in 1..(n + 1) /\ k < k + 1 /\ 1 < k + 1
      /\ \A i \in 1..(n + 1) : i = 1 \/ (i - 1 \in 1..n /\ q[i] = r[i - 1] /\ i = (i - 1) + 1)
      /\ \A i, k \in 1..(n + 1) : i # 1 /\ k # 1 => (i < k <=> i - 1 < k - 1)
      /\ \A i \in 1..(n + 1) : ~(i < 1)
  BY <1>1
<1> HIDE DEF r, n
<1>3. \A S : Holds(q, S) <=> q[1] \in S \/ Holds(r, S)
  BY <1>1, <1>2, Zenon DEF Holds, n
<1>4. ASSUME NEW S, Once(q, S) PROVE Once(r, S) /\ (q[1] \in S => ~Holds(r, S))
  <2>1. ASSUME NEW i \in 1..n, NEW k \in 1..n, r[i] \in S, r[k] \in S PROVE i = k
    BY <1>1, <1>2, <1>4, <2>1, SMTT(60) DEF Once
  <2>2. ASSUME NEW k \in 1..n, r[k] \in S, q[1] \in S PROVE FALSE
    BY <1>1, <1>2, <1>4, <2>2 DEF Once
  <2> QED BY <2>1, <2>2 DEF Once, Holds, n
<1>5. ASSUME NEW S, NEW R, Precedes(q, S, R)
      PROVE  Precedes(r, S, R) /\ (q[1] \in R => ~Holds(r, S))
  <2>1. ASSUME NEW i \in 1..n, NEW k \in 1..n, r[i] \in S, r[k] \in R PROVE i < k
    <3>1. /\ i + 1 \in 1..(n + 1) /\ k + 1 \in 1..(n + 1)
          /\ q[i + 1] \in S /\ q[k + 1] \in R
      BY <1>1, <1>2, <2>1
    <3>2. i + 1 < k + 1 BY <1>1, <1>5, <3>1 DEF Precedes
    <3> QED BY <1>1, <3>2
  <2>2. ASSUME NEW k \in 1..n, r[k] \in S, q[1] \in R PROVE FALSE
    <3>1. k + 1 < 1 BY <1>1, <1>2, <1>5, <2>2 DEF Precedes
    <3> QED BY <1>1, <3>1
  <2> QED BY <2>1, <2>2 DEF Precedes, Holds, n
<1>6. ASSUME NEW S, NEW R, Led(q, S, R), q[1] \notin S
      PROVE  Led(r, S, R) /\ q[1] \notin R
  <2>1. ASSUME NEW k \in 1..n, r[k] \in R PROVE \E i \in 1..n : i < k /\ r[i] \in S
    <3>1. PICK i \in 1..(n + 1) : i < k + 1 /\ q[i] \in S
      BY <1>1, <1>2, <1>6, <2>1 DEF Led
    <3>2. i - 1 \in 1..n /\ i - 1 < k /\ r[i - 1] \in S
      BY <1>1, <1>2, <1>6, <3>1, SMTT(30)
    <3> QED BY <3>2
  <2>2. q[1] \notin R
    BY <1>1, <1>2, <1>6 DEF Led
  <2> QED BY <2>1, <2>2 DEF Led, n
<1>7. ASSUME NEW S, NEW G
      PROVE  Last(q, S, G) <=> Last(r, S, G) \/ (q[1] \in G /\ ~Holds(r, S))
  <2>1. ASSUME NEW i \in 1..(n + 1), q[i] \in G, \A k \in 1..(n + 1) : i < k => q[k] \notin S
        PROVE  Last(r, S, G) \/ (q[1] \in G /\ ~Holds(r, S))
    <3>1. CASE i = 1
      <4>1. \A k \in 1..n : r[k] \notin S BY <1>1, <1>2, <2>1, <3>1
      <4> QED BY <2>1, <3>1, <4>1 DEF Holds, n
    <3>2. CASE i # 1
      <4>1. i - 1 \in 1..n /\ r[i - 1] \in G BY <1>2, <2>1, <3>2
      <4>2. \A k \in 1..n : i - 1 < k => r[k] \notin S BY <1>1, <1>2, <2>1
      <4> QED BY <4>1, <4>2 DEF Last, n
    <3> QED BY <3>1, <3>2
  <2>2. ASSUME NEW i \in 1..n, r[i] \in G, \A k \in 1..n : i < k => r[k] \notin S
        PROVE  Last(q, S, G)
    <3>1. ASSUME NEW k \in 1..(n + 1), i + 1 < k PROVE q[k] \notin S
      <4>1. k - 1 \in 1..n /\ i < k - 1 /\ q[k] = r[k - 1] BY <1>1, <1>2, <3>1
      <4> QED BY <2>2, <4>1
    <3> QED BY <1>1, <1>2, <2>2, <3>1 DEF Last
  <2>3. ASSUME q[1] \in G, ~Holds(r, S) PROVE Last(q, S, G)
    BY <1>1, <1>2, <2>3 DEF Last, Holds, n
  <2> QED BY <1>1, <2>1, <2>2, <2>3 DEF Last, n
<1>8. ASSUME NEW x, EndsWith(q, x)
      PROVE  IF q[1] = x THEN r = << >> ELSE EndsWith(r, x)
  BY <1>1, <1>2, <1>8 DEF EndsWith, n
<1>9. ASSUME NEW S, NEW G, G \subseteq S
      PROVE  Last(q, S, G) <=> IF Holds(r, S) THEN Last(r, S, G) ELSE q[1] \in G
  BY <1>7, <1>9, ZenonT(30) DEF Last, Holds
<1> QED BY <1>1, <1>3, <1>4, <1>5, <1>6, <1>8, <1>9 DEF r, IsTaken

\* An empty queue.
LEMMA Emptied ==
    /\ \A S : ~Holds(<< >>, S) /\ Once(<< >>, S)
    /\ \A S, R : Precedes(<< >>, S, R) /\ Led(<< >>, S, R) /\ ~Last(<< >>, S, R)
    /\ \A x : ~EndsWith(<< >>, x)
BY DEF Holds, Once, Precedes, Led, Last, EndsWith

\* Messages of a set are messages of a larger one, and none is led by what is not there.
LEMMA Within ==
    /\ \A q, S, R : S \subseteq R /\ Holds(q, S) => Holds(q, R)
    /\ \A q, S, R : Led(q, S, R) /\ ~Holds(q, S) => ~Holds(q, R)
BY DEF Holds, Led

\* What the last message of a queue says, with one message put at the end.
LEMMA PausedAdded ==
    ASSUME NEW T, NEW q, NEW r, NEW x, IsAdded(r, q, x, T), NEW b
    PROVE  /\ PausedAfter(r, b) <=>
                 IF x \in PauseAnswers THEN x = "pause done" ELSE PausedAfter(q, b)
           /\ PausedView(r, b) <=>
                 IF x \in Views THEN x \in {"consumed paused", "producerpause"} ELSE PausedView(q, b)
           /\ PausedNext(r, b) <=> IF x \in Changes THEN x = "pause" ELSE PausedNext(q, b)
<1>1. \A S, G : G \subseteq S => (Last(r, S, G) <=> IF x \in S THEN x \in G ELSE Last(q, S, G))
  BY DEF IsAdded
<1>2. \A S : Holds(r, S) <=> Holds(q, S) \/ x \in S
  BY DEF IsAdded
<1>3. /\ {"pause done"} \subseteq PauseAnswers /\ {"pause"} \subseteq Changes
      /\ {"consumed paused", "producerpause"} \subseteq Views
  BY DEF PauseAnswers, Changes, Views, Grants, News
<1>4. PausedAfter(r, b) <=> IF x \in PauseAnswers THEN x = "pause done" ELSE PausedAfter(q, b)
  BY <1>1, <1>2, <1>3, Zenon DEF PausedAfter
<1>5. PausedView(r, b) <=>
          IF x \in Views THEN x \in {"consumed paused", "producerpause"} ELSE PausedView(q, b)
  BY <1>1, <1>2, <1>3, Zenon DEF PausedView
<1>6. PausedNext(r, b) <=> IF x \in Changes THEN x = "pause" ELSE PausedNext(q, b)
  BY <1>1, <1>2, <1>3, Zenon DEF PausedNext
<1> QED BY <1>4, <1>5, <1>6, Zenon

\* What the last message of a queue says, whose first one was taken.
LEMMA PausedTaken ==
    ASSUME NEW T, NEW q, NEW r, NEW x, IsTaken(r, q, x, T), NEW b
    PROVE  /\ x \notin PauseAnswers => (PausedAfter(q, b) <=> PausedAfter(r, b))
           /\ x \in PauseAnswers =>
                 (PausedAfter(q, b) <=> IF Holds(r, PauseAnswers) THEN Last(r, PauseAnswers, {"pause done"})
                                        ELSE x = "pause done")
           /\ x \notin Views => (PausedView(q, b) <=> PausedView(r, b))
           /\ x \in Views =>
                 (PausedView(q, b) <=>
                     IF Holds(r, Views) THEN Last(r, Views, {"consumed paused", "producerpause"})
                     ELSE x \in {"consumed paused", "producerpause"})
           /\ x \notin Changes => (PausedNext(q, b) <=> PausedNext(r, b))
           /\ x \in Changes =>
                 (PausedNext(q, b) <=> IF Holds(r, Changes) THEN Last(r, Changes, {"pause"}) ELSE x = "pause")
<1>1. \A S, G : G \subseteq S => (Last(q, S, G) <=> IF Holds(r, S) THEN Last(r, S, G) ELSE x \in G)
  BY DEF IsTaken
<1>2. \A S : Holds(q, S) <=> x \in S \/ Holds(r, S)
  BY DEF IsTaken
<1>3. /\ {"pause done"} \subseteq PauseAnswers /\ {"pause"} \subseteq Changes
      /\ {"consumed paused", "producerpause"} \subseteq Views
  BY DEF PauseAnswers, Changes, Views, Grants, News
<1>4. /\ x \notin PauseAnswers => (PausedAfter(q, b) <=> PausedAfter(r, b))
      /\ x \in PauseAnswers =>
            (PausedAfter(q, b) <=> IF Holds(r, PauseAnswers) THEN Last(r, PauseAnswers, {"pause done"})
                                   ELSE x = "pause done")
  BY <1>1, <1>2, <1>3, Zenon DEF PausedAfter
<1>5. /\ x \notin Views => (PausedView(q, b) <=> PausedView(r, b))
      /\ x \in Views =>
            (PausedView(q, b) <=>
                IF Holds(r, Views) THEN Last(r, Views, {"consumed paused", "producerpause"})
                ELSE x \in {"consumed paused", "producerpause"})
  BY <1>1, <1>2, <1>3, Zenon DEF PausedView
<1>6. /\ x \notin Changes => (PausedNext(q, b) <=> PausedNext(r, b))
      /\ x \in Changes =>
            (PausedNext(q, b) <=> IF Holds(r, Changes) THEN Last(r, Changes, {"pause"}) ELSE x = "pause")
  BY <1>1, <1>2, <1>3, Zenon DEF PausedNext
<1> QED BY <1>4, <1>5, <1>6, Zenon

\* What the answers in r say after x.
TakenPause(r, x) ==
    IF Holds(r, PauseAnswers) THEN Last(r, PauseAnswers, {"pause done"}) ELSE x = "pause done"

\* (an answer to a pause or resume request is taken)
LEMMA AnswerTaken ==
    ASSUME NEW T, NEW q, NEW r, NEW x, IsTaken(r, q, x, T), NEW b, x \in PauseAnswers
    PROVE  PausedAfter(q, b) <=> TakenPause(r, x)
BY PausedTaken, Zenon DEF TakenPause

\* The inductive invariant is strong enough for what the run checks.
LEMMA PipeInvImplies == PipeInv => FollowsInTheEnd
<1> SUFFICES ASSUME PipeInv PROVE FollowsInTheEnd
  OBVIOUS
<1> USE DEF PipeInv
<1>1. ASSUME PipeQuiet
      PROVE  /\ original.paused = workerA.paused
             /\ (pipeConsumer.state = "open") = workerA.consumer
             /\ original.closed => ~workerA.producer
  <2>1. /\ original.paused \in BOOLEAN /\ workerA.paused \in BOOLEAN /\ workerA.consumer \in BOOLEAN
    BY DEF PipeTypeOK
  <2>2. original.paused <=> workerA.paused
    BY <1>1, Emptied, Zenon DEF PausesAgreed, PausedAfter, PipeQuiet
  <2>3. pipeConsumer.state = "open" <=> workerA.consumer
    BY <1>1, Emptied DEF ConsumerAgreed, PipeQuiet
  <2>4. original.closed => ~workerA.producer
    BY <1>1, Emptied DEF ConsumerAgreed, PipeQuiet
  <2> QED BY <2>1, <2>2, <2>3, <2>4
<1>2. ASSUME PipeQuiet
      PROVE  /\ (pipeProducer.state = "open") = (workerB \in {"paused", "playing"})
             /\ pipeProducer.state = "open" => (pipeProducer.paused <=> workerB = "paused")
             /\ stage # "producing"
  <2>1. CASE stage \in {"pairing", "consuming"}
    BY <2>1 DEF StageOK, NotAsked
  <2>2. CASE stage = "producing"
    BY <1>2, <2>2 DEF StageOK, Asked, PipeQuiet
  <2>3. CASE stage \in {"syncing", "piped"}
    <3>1. Piped
      BY <2>3 DEF StageOK
    <3>2. Playing \/ (Ended /\ workerB = "closed")
      BY <1>2, <3>1, Emptied DEF Piped, Ended, PipeQuiet
    <3>3. workerB # "closed" => (pipeProducer.paused <=> workerB = "paused")
      BY <1>2, <3>1, Emptied, Zenon DEF Piped, PausedAfter, PipeQuiet
    <3> QED BY <2>3, <3>2, <3>3 DEF Playing, Ended
  <2>4. CASE stage = "failed"
    BY <1>2, <2>4, Emptied DEF StageOK, NotAsked, Ended, PipeQuiet
  <2> QED BY <2>1, <2>2, <2>3, <2>4 DEF PipeTypeOK
<1>3. MirrorsWorkers
  BY <1>1, <1>2 DEF MirrorsWorkers, PipeTypeOK
<1>4. FailureLeavesNothing
  BY <1>1, <1>2, Emptied, Zenon DEF FailureLeavesNothing, PipeQuiet, StageOK, NotAsked, Ended
<1>5. FollowsOnceInStep
  <2> SUFFICES ASSUME stage = "piped", inStep, PipeQuiet PROVE Follows
    BY DEF FollowsOnceInStep
  <2>1. Piped
    BY DEF StageOK
  <2>2. CASE pipeConsumer.state = "open"
    <3>1. workerA.consumer /\ workerA.producer /\ ~original.closed
      BY <1>1, <2>2, Zenon DEF ConsumerAgreed
    <3>2. pipeConsumer.producerPaused <=> workerA.paused
      BY <3>1, <2>2, Emptied, Zenon DEF PausesAgreed, PausedView, PipeQuiet
    <3>3. workerB \in {"paused", "playing"}
      BY <2>1, <2>2 DEF Piped, Playing, Ended
    <3>4. workerB = "paused" <=> pipeConsumer.producerPaused
      BY <2>1, <2>2, Emptied DEF Piped, PausedNext, PipeQuiet
    <3> QED BY <1>1, <3>1, <3>2, <3>3, <3>4 DEF Follows
  <2>3. CASE pipeConsumer.state # "open"
    <3>1. pipeProducer.state = "closed"
      BY <2>1, <2>3 DEF Piped
    <3>2. workerB = "closed"
      BY <2>1, <3>1, Emptied DEF Piped, Playing, Ended, PipeQuiet
    <3> QED BY <3>2 DEF Follows
  <2> QED BY <2>2, <2>3
<1> QED BY <1>3, <1>4, <1>5 DEF FollowsInTheEnd

\* A call that begins has asked nothing yet.
LEMMA PipeInitInv == PipeInit => PipeInv
<1> SUFFICES ASSUME PipeInit PROVE PipeInv
  OBVIOUS
<1> USE DEF PipeInit
<1>0. PICK p \in BOOLEAN :
        /\ original = [closed |-> FALSE, paused |-> p]
        /\ workerA = [producer |-> TRUE, paused |-> p, consumer |-> FALSE]
  BY Zenon
<1>1. PipeTypeOK
  <2>1. changes \in 0..MaxChanges
    BY ChangesAssumption
  <2>2. /\ original \in [closed : BOOLEAN, paused : BOOLEAN]
        /\ workerA \in [producer : BOOLEAN, paused : BOOLEAN, consumer : BOOLEAN]
    BY <1>0
  <2>3. /\ pipeConsumer \in [state : States, producerPaused : BOOLEAN]
        /\ pipeProducer \in [state : States, paused : BOOLEAN]
    BY DEF States
  <2> QED BY <2>1, <2>2, <2>3, Zenon DEF PipeTypeOK
<1>2. QueuesOK
  BY DEF QueuesOK
<1>3. AskedOnce /\ AnswerFirst /\ ConsumerAgreed
  BY Emptied DEF AskedOnce, AnswerFirst, ConsumerAgreed
<1>4. PausesAgreed
  BY <1>0, Emptied, Zenon DEF PausesAgreed, PausedAfter
<1>5. StageOK
  BY DEF StageOK, NotAsked
<1> QED BY <1>1, <1>2, <1>3, <1>4, <1>5 DEF PipeInv

\* Producer.pause(), resume() and close() send a request.
LEMMA ApplicationChangeInv ==
    ASSUME PipeInv, NEW what \in {"pause", "resume", "close"}, ApplicationChange(what)
    PROVE  PipeInv'
<1> USE DEF PipeInv
<1>1. /\ UNCHANGED <<stage, pipeConsumer, pipeProducer, repliesA, requestsB, repliesB,
                     deferred, workerA, workerB, inStep>>
      /\ requestsA' = Append(requestsA, what)
      /\ ~original.closed /\ changes' \in 0..MaxChanges
  BY ChangesAssumption DEF ApplicationChange, PipeTypeOK
<1>0. /\ original' \in [closed : BOOLEAN, paused : BOOLEAN]
      /\ original'.paused = original.paused /\ (original'.closed <=> what = "close")
  <2>1. PICK c \in BOOLEAN : c = (what = "close")
    BY Zenon
  <2>2. original' = [original EXCEPT !.closed = c]
    BY <2>1 DEF ApplicationChange
  <2> QED BY <2>1, <2>2, Zenon DEF PipeTypeOK
<1>2. requestsA \in Seq(ToA) /\ what \in ToA
  BY DEF QueuesOK, ToA, Changes
<1>3. IsAdded(requestsA', requestsA, what, ToA)
  BY <1>1, <1>2, Added
<1>4. PipeTypeOK'
  BY <1>0, <1>1 DEF PipeTypeOK
<1>5. QueuesOK'
  BY <1>1, <1>3 DEF QueuesOK, IsAdded
<1>6. AskedOnce'
  BY <1>1, <1>3, SMTT(30) DEF IsAdded, AskedOnce
<1>7. AnswerFirst'
  BY <1>1, <1>3, SMTT(30) DEF IsAdded, AnswerFirst
<1>8. ConsumerAgreed'
  BY <1>0, <1>1, <1>3, SMTT(30) DEF IsAdded, ConsumerAgreed
<1>9. PausesAgreed'
  BY <1>0, <1>1, Zenon DEF PausesAgreed, PausedAfter, PausedView
<1>10. StageOK'
  BY <1>1, Zenon DEF StageOK, NotAsked, Asked, Piped, Playing, Ended, PausedAfter, PausedNext
<1> QED BY <1>4, <1>5, <1>6, <1>7, <1>8, <1>9, <1>10

\* The application closes the pipe Consumer and the pipe Producer.
LEMMA ApplicationClosesPipeInv == ASSUME PipeInv, ApplicationClosesPipe PROVE PipeInv'
<1> USE DEF PipeInv
<1>1. /\ stage = "piped" /\ UNCHANGED <<stage, original, repliesA, repliesB, deferred, workerA, workerB, inStep>>
      /\ pipeConsumer.state = "open" /\ pipeProducer.state = "open"
      /\ requestsA' = Append(requestsA, "closeConsumer")
      /\ requestsB' = Append(requestsB, "close")
      /\ changes' \in 0..MaxChanges
  BY ChangesAssumption, SMTT(30) DEF ApplicationClosesPipe, CloseBoth, PipeTypeOK
<1>2. /\ pipeConsumer' \in [state : States, producerPaused : BOOLEAN] /\ pipeConsumer'.state = "closed"
      /\ pipeProducer' \in [state : States, paused : BOOLEAN] /\ pipeProducer'.state = "closed"
      /\ pipeProducer'.paused = pipeProducer.paused
  BY <1>1, Zenon DEF ApplicationClosesPipe, CloseBoth, Closed, PipeTypeOK, States
<1>3. IsAdded(requestsA', requestsA, "closeConsumer", ToA)
  BY <1>1, Added DEF QueuesOK, ToA
<1>4. Piped
  BY <1>1 DEF StageOK
<1>5. Playing /\ ~Holds(requestsB, {"close"}) /\ requestsB \in Seq(Changes \cup {"close"})
  BY <1>1, <1>4 DEF Piped, Playing, Ended
<1>6. /\ IsAdded(requestsB', requestsB, "close", Changes \cup {"close"})
      /\ IsAdded(requestsB', requestsB, "close", ToB)
  BY <1>1, <1>5, Added, Zenon DEF QueuesOK, ToB
<1>7. PipeTypeOK'
  BY <1>1, <1>2 DEF PipeTypeOK
<1>8. QueuesOK'
  <2>1. requestsA' \in Seq(ToA) /\ requestsB' \in Seq(ToB)
    BY <1>3, <1>6, Zenon DEF IsAdded
  <2> QED BY <1>1, <2>1 DEF QueuesOK
<1>9. AskedOnce' /\ AnswerFirst'
  <2>1. AskedOnce'
    BY <1>1, <1>3, SMTT(30) DEF IsAdded, AskedOnce
  <2>2. AnswerFirst'
    BY <1>1, <1>2, <1>3, SMTT(30) DEF IsAdded, AnswerFirst
  <2> QED BY <2>1, <2>2
<1>10. ConsumerAgreed'
  BY <1>1, <1>2, <1>3, Zenon DEF IsAdded, ConsumerAgreed
<1>11. PausesAgreed'
  BY <1>1, <1>2, Zenon DEF PausesAgreed, PausedAfter
<1>12. Ended'
  BY <1>1, <1>2, <1>5, <1>6, SMTT(30) DEF Ended, Playing, IsAdded
<1>13. Piped'
  BY <1>1, <1>2, <1>4, <1>6, <1>12, Zenon DEF Piped, IsAdded, PausedAfter
<1>14. StageOK'
  BY <1>1, <1>13 DEF StageOK
<1> QED BY <1>7, <1>8, <1>9, <1>10, <1>11, <1>14

\* The pair is there: the call fails or asks for the pipe Consumer.
LEMMA PairReadyInv == ASSUME PipeInv, PairReady PROVE PipeInv'
<1> USE DEF PipeInv
<1>1. /\ stage = "pairing"
      /\ UNCHANGED <<original, pipeConsumer, pipeProducer, repliesA, requestsB, repliesB,
                     deferred, workerA, workerB, changes, inStep>>
  BY DEF PairReady
<1>2. PausesAgreed'
  BY <1>1, Zenon DEF PausesAgreed, PausedAfter, PausedView
<1>3. NotAsked' /\ pipeConsumer.state = "none"
  BY <1>1 DEF StageOK, NotAsked, AnswerFirst
<1>4. CASE original.closed
  <2>1. stage' = "failed" /\ UNCHANGED requestsA
    BY <1>4 DEF PairReady
  <2>2. PipeTypeOK' /\ QueuesOK'
    BY <1>1, <2>1 DEF PipeTypeOK, QueuesOK
  <2>3. AskedOnce' /\ AnswerFirst'
    BY <1>1, <1>3, <2>1 DEF AskedOnce, AnswerFirst
  <2>4. ConsumerAgreed'
    BY <1>1, <2>1 DEF ConsumerAgreed
  <2>5. StageOK'
    BY <1>1, <1>3, <2>1 DEF StageOK, NotAsked
  <2> QED BY <1>2, <2>2, <2>3, <2>4, <2>5
<1>5. CASE ~original.closed
  <2>1. stage' = "consuming" /\ requestsA' = Append(requestsA, "consume")
    BY <1>5 DEF PairReady
  <2>2. IsAdded(requestsA', requestsA, "consume", ToA)
    BY <2>1, Added DEF QueuesOK, ToA
  <2>3. /\ ~Holds(requestsA, {"consume"}) /\ ~Holds(requestsA, {"close"}) /\ workerA.producer
        /\ ~Holds(repliesA, ConsumeAnswers) /\ ~workerA.consumer
    BY <1>1, <1>5 DEF AskedOnce, ConsumerAgreed, AnswerFirst
  <2>4. PipeTypeOK' /\ QueuesOK'
    BY <1>1, <2>1, <2>2, SMTT(30) DEF PipeTypeOK, QueuesOK, IsAdded
  <2>5. AskedOnce'
    BY <1>1, <2>1, <2>2, <2>3, SMTT(30) DEF AskedOnce, IsAdded
  <2>6. AnswerFirst'
    BY <1>1, <2>1, <2>2, Zenon DEF AnswerFirst, IsAdded
  <2>7. ConsumerAgreed'
    BY <1>1, <2>1, <2>2, SMTT(30) DEF ConsumerAgreed, IsAdded
  <2>8. StageOK'
    BY <1>3, <2>1 DEF StageOK
  <2> QED BY <1>2, <2>4, <2>5, <2>6, <2>7, <2>8
<1> QED BY <1>4, <1>5

\* What a request of Worker A leaves to be shown.
LEMMA WorkerAKeeps ==
    ASSUME PipeInv, requestsA # << >>, requestsA' = Tail(requestsA),
           UNCHANGED <<stage, original, pipeConsumer, pipeProducer, requestsB, repliesB,
                       deferred, workerB, changes, inStep>>,
           workerA' \in [producer : BOOLEAN, paused : BOOLEAN, consumer : BOOLEAN],
           repliesA' \in Seq(FromA)
    PROVE  /\ IsTaken(requestsA', requestsA, Head(requestsA), ToA)
           /\ PipeTypeOK' /\ QueuesOK' /\ StageOK'
<1> USE DEF PipeInv
<1>1. IsTaken(requestsA', requestsA, Head(requestsA), ToA)
  BY Taken DEF QueuesOK
<1>2. PipeTypeOK'
  BY DEF PipeTypeOK
<1>3. QueuesOK'
  BY <1>1 DEF QueuesOK, IsTaken
<1>4. StageOK'
  BY Zenon DEF StageOK, NotAsked, Asked, Piped, Playing, Ended, PausedAfter, PausedNext
<1> QED BY <1>1, <1>2, <1>3, <1>4

\* Worker A creates the pipe Consumer or refuses to.
LEMMA ConsumeInv ==
    ASSUME PipeInv, WorkerAStep, Head(requestsA) = "consume"
    PROVE  PipeInv'
<1> USE DEF PipeInv
<1>1. /\ UNCHANGED <<stage, original, pipeConsumer, pipeProducer, requestsB, repliesB,
                     deferred, workerB, changes, inStep>>
      /\ requestsA # << >> /\ requestsA' = Tail(requestsA)
  BY SMTT(30) DEF WorkerAStep
<1>2. PICK m \in ConsumeAnswers :
        /\ repliesA' = Append(repliesA, m)
        /\ m = "refused" => workerA' = workerA
        /\ m # "refused" => /\ workerA' = [workerA EXCEPT !.consumer = TRUE]
                            /\ m = "consumed paused" <=> workerA.paused
  <2>1. CASE /\ workerA' = HandleA("consume")[1]
             /\ repliesA' = repliesA \o HandleA("consume")[2]
    <3>1. PICK m : m = IF workerA.paused THEN "consumed paused" ELSE "consumed"
      BY Zenon
    <3>2. PICK w, s : w = [workerA EXCEPT !.consumer = TRUE] /\ s = <<m>>
      BY Zenon
    <3>3. HandleA("consume") = <<w, s>>
      BY <3>1, <3>2, Zenon DEF HandleA
    <3>4. HandleA("consume")[1] = w /\ HandleA("consume")[2] = s
      BY <3>3
    <3>5. m \in Grants /\ m # "refused" /\ (m = "consumed paused" <=> workerA.paused)
      BY <3>1, Zenon DEF Grants, PipeTypeOK
    <3>6. repliesA \o s = Append(repliesA, m)
      BY <3>2 DEF QueuesOK
    <3>7. repliesA' = Append(repliesA, m) /\ workerA' = [workerA EXCEPT !.consumer = TRUE]
      BY <2>1, <3>2, <3>4, <3>6, Zenon
    <3> QED BY <3>5, <3>7, Zenon DEF ConsumeAnswers
  <2>2. CASE workerA' = workerA /\ repliesA' = Append(repliesA, "refused")
    BY <2>2, Zenon DEF ConsumeAnswers
  <2> QED BY <2>1, <2>2, Zenon DEF WorkerAStep
<1>3. /\ workerA' \in [producer : BOOLEAN, paused : BOOLEAN, consumer : BOOLEAN]
      /\ workerA'.producer = workerA.producer /\ workerA'.paused = workerA.paused
      /\ IF m = "refused" THEN workerA'.consumer = workerA.consumer ELSE workerA'.consumer
  BY <1>2, Zenon DEF PipeTypeOK
<1>4. m \in FromA /\ repliesA \in Seq(FromA)
  BY DEF FromA, QueuesOK
<1>5. IsAdded(repliesA', repliesA, m, FromA)
  BY <1>2, <1>4, Added, Zenon
<1>6. /\ IsTaken(requestsA', requestsA, "consume", ToA)
      /\ PipeTypeOK' /\ QueuesOK' /\ StageOK'
  BY <1>1, <1>3, <1>5, WorkerAKeeps, SMTT(30) DEF IsAdded
<1>7. /\ stage = "consuming" /\ workerA.producer /\ ~workerA.consumer
      /\ ~Holds(repliesA, ConsumeAnswers) /\ ~Holds(repliesA, Grants) /\ pipeConsumer.state = "none" /\ deferred = << >>
      /\ ~Holds(requestsA', {"consume"})
      /\ Led(repliesA, Grants, Notices)
  BY <1>6, Within, Zenon DEF IsTaken, AskedOnce, AnswerFirst, ConsumeAnswers
<1>8. ~Holds(repliesA, Notices) /\ ~Holds(repliesA, {"producerclose"})
  BY <1>7, Within DEF Notices
<1>9. AskedOnce'
  BY <1>1, <1>5, <1>6, <1>7, Zenon DEF AskedOnce, IsAdded, IsTaken
<1>10. AnswerFirst'
  BY <1>1, <1>5, <1>6, <1>7, Zenon DEF AnswerFirst, IsAdded, IsTaken, ConsumeAnswers, Grants, Notices, News
<1>11. ConsumerAgreed'
  BY <1>1, <1>3, <1>5, <1>6, <1>7, <1>8, Emptied, Zenon
     DEF ConsumerAgreed, IsAdded, IsTaken, ConsumeAnswers, Grants
<1>12. PausedAfter(repliesA', original'.paused) <=> workerA'.paused
  BY <1>1, <1>3, <1>5, Zenon DEF PausesAgreed, PausedAfter, IsAdded, PauseAnswers, ConsumeAnswers, Grants
<1>13. m # "refused" => (PausedView(repliesA', PausedView(deferred', pipeConsumer'.producerPaused))
                            <=> workerA'.paused)
  <2>1. PICK b : b = PausedView(deferred', pipeConsumer'.producerPaused)
    OBVIOUS
  <2>2. PausedView(repliesA', b) <=>
            IF m \in Views THEN m \in {"consumed paused", "producerpause"} ELSE PausedView(repliesA, b)
    BY <1>5, PausedAdded, Zenon
  <2> QED BY <1>2, <1>3, <2>1, <2>2, Zenon DEF Views, ConsumeAnswers, Grants
<1>14. PausesAgreed'
  BY <1>3, <1>7, <1>12, <1>13, SMTT(30) DEF PausesAgreed
<1> QED BY <1>6, <1>9, <1>10, <1>11, <1>14

\* Worker A pauses or resumes the Producer and tells the pipe Consumer of a change.
LEMMA ChangeInv ==
    ASSUME PipeInv, WorkerAStep, Head(requestsA) \in Changes
    PROVE  PipeInv'
<1> USE DEF PipeInv
<1>1. /\ UNCHANGED <<stage, original, pipeConsumer, pipeProducer, requestsB, repliesB,
                     deferred, workerB, changes, inStep>>
      /\ requestsA # << >> /\ requestsA' = Tail(requestsA)
  BY SMTT(30) DEF WorkerAStep
<1>2. PICK x : x = Head(requestsA)
  OBVIOUS
<1>3. PICK p \in BOOLEAN : p = (x = "pause")
  BY Zenon
<1>4. PICK done : done = IF p THEN "pause done" ELSE "resume done"
  BY Zenon
<1>5. PICK note : note = IF p THEN "producerpause" ELSE "producerresume"
  OBVIOUS
<1>6. PICK told \in BOOLEAN : told = (workerA.consumer /\ workerA.paused # p)
  BY Zenon
<1>7. /\ workerA' = [workerA EXCEPT !.paused = p]
      /\ repliesA' = IF told THEN Append(Append(repliesA, note), done) ELSE Append(repliesA, done)
  <2>1. workerA' = HandleA(x)[1] /\ repliesA' = repliesA \o HandleA(x)[2]
    BY <1>2 DEF WorkerAStep, Changes
  <2>2. PICK ns : ns = IF told THEN <<note>> ELSE << >>
    BY Zenon
  <2>3. HandleA(x) = <<[workerA EXCEPT !.paused = p], ns \o <<done>>>>
    <3>1. CASE x = "pause"
      BY <1>3, <1>4, <1>5, <1>6, <2>2, <3>1, Zenon DEF HandleA, Notify, PipeTypeOK
    <3>2. CASE x = "resume"
      BY <1>3, <1>4, <1>5, <1>6, <2>2, <3>2, Zenon DEF HandleA, Notify, PipeTypeOK
    <3> QED BY <1>2, <3>1, <3>2 DEF Changes
  <2>4. repliesA \in Seq(FromA) /\ note \in FromA /\ done \in FromA
    BY <1>4, <1>5, Zenon DEF QueuesOK, FromA, Notices, News, PauseAnswers
  <2>5. repliesA \o (ns \o <<done>>) =
            IF told THEN Append(Append(repliesA, note), done) ELSE Append(repliesA, done)
    BY <2>2, <2>4
  <2> QED BY <2>1, <2>3, <2>5
<1>8. PICK mid : mid = IF told THEN Append(repliesA, note) ELSE repliesA
  BY Zenon
<1>9. repliesA \in Seq(FromA) /\ note \in FromA /\ done \in FromA
  BY <1>4, <1>5, Zenon DEF QueuesOK, FromA, Notices, News, PauseAnswers
<1>10. told => IsAdded(mid, repliesA, note, FromA)
  BY <1>8, <1>9, Added
<1>11. IsAdded(repliesA', mid, done, FromA)
  <2>1. mid \in Seq(FromA)
    BY <1>8, <1>9, <1>10, SMTT(30) DEF IsAdded
  <2> QED BY <1>7, <1>8, <1>9, <2>1, Added, Zenon
<1>12. /\ workerA' \in [producer : BOOLEAN, paused : BOOLEAN, consumer : BOOLEAN]
       /\ workerA'.producer = workerA.producer /\ workerA'.consumer = workerA.consumer
       /\ workerA'.paused = p
  BY <1>7 DEF PipeTypeOK
<1>13. /\ IsTaken(requestsA', requestsA, x, ToA)
       /\ PipeTypeOK' /\ QueuesOK' /\ StageOK'
  BY <1>1, <1>2, <1>11, <1>12, WorkerAKeeps, SMTT(30) DEF IsAdded
<1>14. /\ \A S \in {ConsumeAnswers, Grants, {"producerclose"}} : Holds(repliesA', S) <=> Holds(repliesA, S)
       /\ Once(repliesA', ConsumeAnswers) <=> Once(repliesA, ConsumeAnswers)
  BY <1>4, <1>5, <1>8, <1>10, <1>11, Zenon DEF IsAdded, ConsumeAnswers, Grants
<1>15. AskedOnce'
  BY <1>1, <1>2, <1>12, <1>13, <1>14, SMTT(30) DEF AskedOnce, IsTaken, Changes
<1>16. told /\ pipeConsumer.state = "none" => Holds(repliesA, Grants)
  BY <1>6, Zenon DEF ConsumerAgreed, AnswerFirst
<1>17. pipeConsumer.state = "none" => Led(repliesA', Grants, Notices)
  BY <1>4, <1>5, <1>8, <1>10, <1>11, <1>16, Zenon DEF AnswerFirst, IsAdded, Notices, News
<1>18. AnswerFirst'
  BY <1>1, <1>12, <1>13, <1>17, SMTT(30) DEF AnswerFirst, IsTaken
<1>19. ConsumerAgreed'
  BY <1>1, <1>2, <1>12, <1>13, <1>14, Zenon DEF ConsumerAgreed, IsTaken, Changes
<1>20. PausedAfter(repliesA', original'.paused) <=> workerA'.paused
  <2>1. PausedAfter(repliesA', original'.paused) <=>
            IF done \in PauseAnswers THEN done = "pause done" ELSE PausedAfter(mid, original'.paused)
    BY <1>11, PausedAdded, Zenon
  <2> QED BY <1>4, <1>12, <2>1, Zenon DEF PauseAnswers
<1>21. ASSUME workerA.consumer, pipeConsumer.state # "closed", NEW b
       PROVE  (PausedView(repliesA, b) <=> workerA.paused) => (PausedView(repliesA', b) <=> p)
  <2>1. PausedView(repliesA', b) <=> PausedView(mid, b)
    BY <1>4, <1>11, Zenon DEF PausedView, IsAdded, Views, Grants, News
  <2>2. CASE told
    <3>1. PausedView(mid, b) <=>
            IF note \in Views THEN note \in {"consumed paused", "producerpause"} ELSE PausedView(repliesA, b)
      BY <1>10, <2>2, PausedAdded, Zenon
    <3> QED BY <1>5, <2>1, <3>1 DEF Views, News
  <2>3. CASE ~told
    BY <1>6, <1>8, <1>21, <2>1, <2>3 DEF PipeTypeOK
  <2> QED BY <2>2, <2>3
<1>22. PausesAgreed'
  <2>1. PICK b : b = PausedView(deferred, pipeConsumer.producerPaused)
    OBVIOUS
  <2>2. ASSUME workerA'.consumer, pipeConsumer'.state # "closed"
        PROVE  PausedView(repliesA', b) <=> workerA'.paused
    <3>1. PausedView(repliesA, b) <=> workerA.paused
      BY <1>1, <1>12, <2>1, <2>2 DEF PausesAgreed
    <3> QED BY <1>1, <1>12, <1>21, <2>2, <3>1
  <2>3. PausedView(deferred', pipeConsumer'.producerPaused) = b
    BY <1>1, <2>1, Zenon DEF PausedView
  <2> QED BY <1>20, <2>2, <2>3, SMTT(30) DEF PausesAgreed
<1> QED BY <1>13, <1>15, <1>18, <1>19, <1>22

\* Worker A closes the Producer, and with it the pipe Consumer, which says so.
LEMMA ProducerCloseInv ==
    ASSUME PipeInv, WorkerAStep, Head(requestsA) = "close"
    PROVE  PipeInv'
<1> USE DEF PipeInv
<1>1. /\ UNCHANGED <<stage, original, pipeConsumer, pipeProducer, requestsB, repliesB,
                     deferred, workerB, changes, inStep>>
      /\ requestsA # << >> /\ requestsA' = Tail(requestsA)
  BY DEF WorkerAStep
<1>2. /\ workerA' = [workerA EXCEPT !.producer = FALSE, !.consumer = FALSE]
      /\ repliesA' = IF workerA.consumer THEN Append(repliesA, "producerclose") ELSE repliesA
  <2>1. workerA' = HandleA("close")[1] /\ repliesA' = repliesA \o HandleA("close")[2]
    BY Zenon DEF WorkerAStep
  <2>2. PICK w, s : /\ w = [workerA EXCEPT !.producer = FALSE, !.consumer = FALSE]
                    /\ s = IF workerA.consumer THEN <<"producerclose">> ELSE << >>
    BY Zenon
  <2>3. HandleA("close") = <<w, s>>
    BY <2>2 DEF HandleA, Notify
  <2>4. HandleA("close")[1] = w /\ HandleA("close")[2] = s
    BY <2>3
  <2>5. repliesA \o s = IF workerA.consumer THEN Append(repliesA, "producerclose") ELSE repliesA
    <3>1. repliesA \in Seq(FromA) /\ "producerclose" \in FromA
      BY DEF QueuesOK, FromA, Notices
    <3>2. repliesA \o << >> = repliesA /\ repliesA \o <<"producerclose">> = Append(repliesA, "producerclose")
      BY <3>1
    <3> QED BY <2>2, <3>2, Zenon
  <2> QED BY <2>1, <2>2, <2>4, <2>5, Zenon
<1>3. /\ workerA' \in [producer : BOOLEAN, paused : BOOLEAN, consumer : BOOLEAN]
      /\ ~workerA'.producer /\ ~workerA'.consumer /\ workerA'.paused = workerA.paused
  BY <1>2, Zenon DEF PipeTypeOK
<1>4. repliesA \in Seq(FromA) /\ "producerclose" \in FromA
  BY DEF QueuesOK, FromA, Notices
<1>5. workerA.consumer => IsAdded(repliesA', repliesA, "producerclose", FromA)
  BY <1>2, <1>4, Added
<1>6. ~workerA.consumer => repliesA' = repliesA
  BY <1>2
<1>7. repliesA' \in Seq(FromA)
  BY <1>4, <1>5, <1>6, SMTT(30) DEF IsAdded
<1>8. /\ IsTaken(requestsA', requestsA, "close", ToA)
      /\ PipeTypeOK' /\ QueuesOK' /\ StageOK'
  BY <1>1, <1>3, <1>7, WorkerAKeeps
<1>9. Holds(requestsA, {"close"}) /\ ~Holds(requestsA', {"consume"})
  BY <1>8, SMTT(30) DEF IsTaken, AskedOnce
<1>10. /\ Holds(repliesA', ConsumeAnswers) <=> Holds(repliesA, ConsumeAnswers)
       /\ Holds(repliesA', Grants) <=> Holds(repliesA, Grants)
       /\ Once(repliesA', ConsumeAnswers) <=> Once(repliesA, ConsumeAnswers)
       /\ Holds(repliesA', {"producerclose"}) <=> Holds(repliesA, {"producerclose"}) \/ workerA.consumer
  BY <1>5, <1>6, Zenon DEF IsAdded, ConsumeAnswers, Grants
<1>11. AskedOnce'
  BY <1>1, <1>8, <1>9, <1>10, Zenon DEF AskedOnce, IsTaken
<1>12. workerA.consumer /\ pipeConsumer.state = "none" => Holds(repliesA, Grants)
  BY SMTT(30) DEF ConsumerAgreed, AnswerFirst
<1>13. pipeConsumer.state = "none" => Led(repliesA', Grants, Notices)
  BY <1>5, <1>6, <1>12, Zenon DEF AnswerFirst, IsAdded
<1>14. AnswerFirst'
  BY <1>1, <1>3, <1>8, <1>13, Zenon DEF AnswerFirst, IsTaken
<1>15. ConsumerAgreed'
  BY <1>1, <1>3, <1>9, <1>10, SMTT(30) DEF ConsumerAgreed
<1>16. PausedAfter(repliesA', original'.paused) <=> PausedAfter(repliesA, original.paused)
  <2>1. CASE workerA.consumer
    <3>1. PausedAfter(repliesA', original'.paused) <=>
              IF "producerclose" \in PauseAnswers THEN "producerclose" = "pause done"
              ELSE PausedAfter(repliesA, original'.paused)
      BY <1>5, <2>1, PausedAdded, Zenon
    <3> QED BY <1>1, <3>1 DEF PauseAnswers
  <2>2. CASE ~workerA.consumer
    BY <1>1, <1>6, <2>2, Zenon DEF PausedAfter
  <2> QED BY <2>1, <2>2, SMTT(30)
<1>17. PausesAgreed'
  BY <1>3, <1>16, Zenon DEF PausesAgreed
<1> QED BY <1>8, <1>11, <1>14, <1>15, <1>17

\* Worker A closes the pipe Consumer.
LEMMA CloseConsumerInv ==
    ASSUME PipeInv, WorkerAStep, Head(requestsA) = "closeConsumer"
    PROVE  PipeInv'
<1> USE DEF PipeInv
<1>1. /\ UNCHANGED <<stage, original, pipeConsumer, pipeProducer, requestsB, repliesB,
                     deferred, workerB, changes, inStep>>
      /\ requestsA # << >> /\ requestsA' = Tail(requestsA)
  BY SMTT(30) DEF WorkerAStep
<1>2. workerA' = [workerA EXCEPT !.consumer = FALSE] /\ repliesA' = repliesA
  <2>1. workerA' = HandleA("closeConsumer")[1] /\ repliesA' = repliesA \o HandleA("closeConsumer")[2]
    BY Zenon DEF WorkerAStep
  <2>2. PICK w, s : w = [workerA EXCEPT !.consumer = FALSE] /\ s = << >>
    BY Zenon
  <2>3. HandleA("closeConsumer") = <<w, s>>
    BY <2>2, Zenon DEF HandleA
  <2>4. HandleA("closeConsumer")[1] = w /\ HandleA("closeConsumer")[2] = s
    BY <2>3
  <2> QED BY <2>1, <2>2, <2>4 DEF QueuesOK
<1>3. /\ workerA' \in [producer : BOOLEAN, paused : BOOLEAN, consumer : BOOLEAN]
      /\ workerA'.producer = workerA.producer /\ ~workerA'.consumer /\ workerA'.paused = workerA.paused
  BY <1>2, Zenon DEF PipeTypeOK
<1>4. /\ IsTaken(requestsA', requestsA, "closeConsumer", ToA)
      /\ PipeTypeOK' /\ QueuesOK' /\ StageOK'
  BY <1>1, <1>2, <1>3, WorkerAKeeps DEF QueuesOK
<1>5. /\ Holds(requestsA, {"closeConsumer"}) /\ pipeConsumer.state = "closed"
      /\ stage \notin {"pairing", "consuming"} /\ ~Holds(repliesA, ConsumeAnswers)
  BY <1>4, Zenon DEF IsTaken, AnswerFirst, AskedOnce
<1>6. ~Holds(repliesA, Grants)
  BY <1>5, Within DEF ConsumeAnswers
<1>7. AskedOnce'
  BY <1>1, <1>2, <1>4, <1>5 DEF AskedOnce, IsTaken
<1>8. AnswerFirst'
  BY <1>1, <1>2, <1>3, <1>4, <1>5 DEF AnswerFirst, IsTaken
<1>9. ConsumerAgreed'
  BY <1>1, <1>2, <1>3, <1>4, <1>5, <1>6 DEF ConsumerAgreed, IsTaken
<1>10. PausesAgreed'
  BY <1>1, <1>2, <1>3, Zenon DEF PausesAgreed, PausedAfter
<1> QED BY <1>4, <1>7, <1>8, <1>9, <1>10

\* Whatever Worker A is asked.
LEMMA WorkerAInv == ASSUME PipeInv, WorkerAStep PROVE PipeInv'
<1>1. Head(requestsA) \in ToA
  BY SMTT(30) DEF PipeInv, QueuesOK, WorkerAStep
<1> QED BY <1>1, ConsumeInv, ChangeInv, ProducerCloseInv, CloseConsumerInv DEF ToA, Changes

\* consume() resolved: the pipe Consumer is there and the pipe Producer is asked for.
LEMMA GrantInv == ASSUME PipeInv, ReceiveA, Head(repliesA) \in Grants PROVE PipeInv'
<1> USE DEF PipeInv
<1>1. PICK x : x = Head(repliesA)
  OBVIOUS
<1>2. PICK p \in BOOLEAN : p = (x = "consumed paused")
  BY Zenon
<1>3. /\ x \in Grants /\ repliesA # << >> /\ repliesA' = Tail(repliesA)
      /\ stage' = "producing" /\ pipeConsumer' = [state |-> "open", producerPaused |-> p]
      /\ pipeProducer' = [pipeProducer EXCEPT !.paused = p]
      /\ requestsB' = Append(requestsB, IF p THEN "produce paused" ELSE "produce")
      /\ UNCHANGED <<original, deferred, requestsA, repliesB, workerA, workerB, changes, inStep>>
  BY <1>1, <1>2, Zenon DEF ReceiveA, Consumed, Grants
<1>4. IsTaken(repliesA', repliesA, x, FromA)
  BY <1>1, <1>3, Taken, Zenon DEF QueuesOK
<1>5. Holds(repliesA, ConsumeAnswers) /\ Holds(repliesA, Grants) /\ ~Holds(repliesA', ConsumeAnswers)
  BY <1>3, <1>4, Zenon DEF IsTaken, AskedOnce, ConsumeAnswers
<1>6. /\ stage = "consuming" /\ pipeConsumer.state = "none" /\ deferred = << >>
      /\ ~Holds(requestsA, {"consume"}) /\ ~Holds(requestsA, {"closeConsumer"})
      /\ NotAsked
  BY <1>5, SMTT(30) DEF AskedOnce, AnswerFirst, StageOK
<1>7. ~Holds(repliesA', Grants)
  BY <1>5, Within DEF ConsumeAnswers
<1>8. /\ pipeConsumer'.state = "open" /\ pipeConsumer'.producerPaused = p
      /\ pipeConsumer' \in [state : States, producerPaused : BOOLEAN]
      /\ pipeProducer'.state = "none" /\ pipeProducer'.paused = p
      /\ pipeProducer' \in [state : States, paused : BOOLEAN]
  BY <1>3, <1>6, Zenon DEF PipeTypeOK, NotAsked, States
<1>9. /\ requestsB' = <<IF p THEN "produce paused" ELSE "produce">>
      /\ requestsB' \in Seq(ToB)
  <2>1. PICK what : what = IF p THEN "produce paused" ELSE "produce"
    BY Zenon
  <2>2. what \in ToB
    BY <2>1, Zenon DEF ToB
  <2>3. requestsB' = Append(<< >>, what)
    BY <1>3, <1>6, <2>1, Zenon DEF NotAsked
  <2>4. requestsB' = <<what>> /\ requestsB' \in Seq(ToB)
    BY <2>2, <2>3
  <2> QED BY <2>1, <2>4, Zenon
<1>10. PipeTypeOK' /\ QueuesOK'
  BY <1>3, <1>4, <1>6, <1>8, <1>9, Zenon DEF PipeTypeOK, QueuesOK, IsTaken, NotAsked
<1>11. AskedOnce'
  BY <1>3, <1>4, <1>5, <1>6, Zenon DEF AskedOnce, IsTaken
<1>12. AnswerFirst'
  BY <1>3, <1>6, <1>8, Zenon DEF AnswerFirst
<1>13. Holds(repliesA', {"producerclose"}) <=> Holds(repliesA, {"producerclose"})
  BY <1>3, <1>4, Zenon DEF IsTaken, Grants
<1>14. ConsumerAgreed'
  BY <1>3, <1>5, <1>8, <1>13, Zenon DEF ConsumerAgreed
<1>15. PausesAgreed'
  <2>1. PausedAfter(repliesA, original.paused) <=> PausedAfter(repliesA', original.paused)
    <3>1. x \notin PauseAnswers
      BY <1>3, Zenon DEF Grants, PauseAnswers
    <3> QED BY <1>4, <3>1, PausedTaken, Zenon
  <2>2. PICK b : b = PausedView(deferred, pipeConsumer.producerPaused)
    OBVIOUS
  <2>3. PICK c : c = PausedView(deferred', pipeConsumer'.producerPaused)
    OBVIOUS
  <2>4. c <=> x \in {"consumed paused", "producerpause"}
    BY <1>2, <1>3, <1>6, <1>8, <2>3, Emptied, Zenon DEF PausedView, Grants
  <2>5. PausedView(repliesA, b) <=> PausedView(repliesA', c)
    <3>1. x \in Views
      BY <1>3, Zenon DEF Views
    <3>2. PausedView(repliesA, b) <=>
            IF Holds(repliesA', Views) THEN Last(repliesA', Views, {"consumed paused", "producerpause"})
            ELSE x \in {"consumed paused", "producerpause"}
      BY <1>4, <3>1, PausedTaken, Zenon
    <3> QED BY <2>4, <3>2, Zenon DEF PausedView
  <2> QED BY <1>3, <1>6, <2>1, <2>2, <2>3, <2>5, Zenon DEF PausesAgreed
<1>16. StageOK'
  BY <1>3, <1>6, <1>8, <1>9, Zenon DEF StageOK, NotAsked, Asked
<1> QED BY <1>10, <1>11, <1>12, <1>14, <1>15, <1>16

\* consume() rejected: the call fails and there is no pipe Consumer.
LEMMA RefusedInv == ASSUME PipeInv, ReceiveA, Head(repliesA) = "refused" PROVE PipeInv'
<1> USE DEF PipeInv
<1>1. /\ repliesA # << >> /\ repliesA' = Tail(repliesA) /\ stage' = "failed"
      /\ UNCHANGED <<original, pipeConsumer, pipeProducer, requestsB, deferred,
                     requestsA, repliesB, workerA, workerB, changes, inStep>>
  BY Zenon DEF ReceiveA
<1>2. IsTaken(repliesA', repliesA, "refused", FromA)
  BY <1>1, Taken DEF QueuesOK
<1>3. /\ Holds(repliesA, ConsumeAnswers) /\ ~Holds(repliesA', ConsumeAnswers)
  BY <1>2, SMTT(30) DEF IsTaken, AskedOnce, ConsumeAnswers
<1>4. ~Holds(repliesA', Grants)
  BY <1>3, Within DEF ConsumeAnswers
<1>5. ~Holds(repliesA, Grants)
  BY <1>2, <1>4, Zenon DEF IsTaken, Grants
<1>6. /\ stage = "consuming" /\ pipeConsumer.state = "none"
      /\ ~Holds(requestsA, {"consume"}) /\ ~Holds(requestsA, {"closeConsumer"})
      /\ NotAsked /\ ~workerA.consumer
  BY <1>3, <1>5, SMTT(30) DEF AskedOnce, AnswerFirst, StageOK, ConsumerAgreed
<1>7. PipeTypeOK' /\ QueuesOK'
  BY <1>1, <1>2, SMTT(30) DEF PipeTypeOK, QueuesOK, IsTaken
<1>8. AskedOnce'
  BY <1>1, <1>2, <1>3, <1>6, Zenon DEF AskedOnce, IsTaken
<1>9. AnswerFirst'
  <2>1. Led(repliesA', Grants, Notices)
    BY <1>2, <1>6, Zenon DEF AnswerFirst, IsTaken, Grants
  <2> QED BY <1>1, <1>6, <2>1, SMTT(30) DEF AnswerFirst
<1>10. ConsumerAgreed'
  BY <1>1, <1>4, <1>6, SMTT(30) DEF ConsumerAgreed
<1>11. PausesAgreed'
  <2>1. "refused" \notin PauseAnswers
    BY DEF PauseAnswers
  <2>2. PausedAfter(repliesA, original.paused) <=> PausedAfter(repliesA', original.paused)
    BY <1>2, <2>1, PausedTaken, Zenon
  <2> QED BY <1>1, <1>6, <2>2, SMTT(30) DEF PausesAgreed
<1>12. StageOK'
  BY <1>1, <1>6, SMTT(30) DEF StageOK, NotAsked
<1> QED BY <1>7, <1>8, <1>9, <1>10, <1>11, <1>12

\* pause() or resume() of the original Producer resolved.
LEMMA AnswerInv == ASSUME PipeInv, ReceiveA, Head(repliesA) \in PauseAnswers PROVE PipeInv'
<1> USE DEF PipeInv
<1>1. PICK x : x = Head(repliesA)
  OBVIOUS
<1>2. PICK p \in BOOLEAN : p = (x = "pause done")
  BY Zenon
<1>3. /\ x \in PauseAnswers /\ repliesA # << >> /\ repliesA' = Tail(repliesA)
      /\ original' = [original EXCEPT !.paused = p]
      /\ UNCHANGED <<stage, pipeConsumer, pipeProducer, requestsB, deferred,
                     requestsA, repliesB, workerA, workerB, changes, inStep>>
  BY <1>1, <1>2, Zenon DEF ReceiveA, PauseAnswers
<1>4. IsTaken(repliesA', repliesA, x, FromA)
  BY <1>1, <1>3, Taken DEF QueuesOK
<1>5. /\ original' \in [closed : BOOLEAN, paused : BOOLEAN]
      /\ original'.closed = original.closed /\ original'.paused = p
  BY <1>3, SMTT(30) DEF PipeTypeOK
<1>6. PipeTypeOK' /\ QueuesOK'
  BY <1>3, <1>4, <1>5 DEF PipeTypeOK, QueuesOK, IsTaken
<1>7. /\ Holds(repliesA', ConsumeAnswers) <=> Holds(repliesA, ConsumeAnswers)
      /\ Holds(repliesA', Grants) <=> Holds(repliesA, Grants)
      /\ Holds(repliesA', {"producerclose"}) <=> Holds(repliesA, {"producerclose"})
  BY <1>3, <1>4, Zenon DEF IsTaken, PauseAnswers, ConsumeAnswers, Grants
<1>8. AskedOnce'
  BY <1>3, <1>4, <1>7 DEF AskedOnce, IsTaken
<1>9. AnswerFirst'
  <2>1. Led(repliesA, Grants, Notices) => Led(repliesA', Grants, Notices)
    BY <1>3, <1>4, Zenon DEF IsTaken, Grants, PauseAnswers
  <2> QED BY <1>3, <2>1 DEF AnswerFirst
<1>10. ConsumerAgreed'
  BY <1>3, <1>5, <1>7 DEF ConsumerAgreed
<1>11. PausesAgreed'
  <2>1. PausedAfter(repliesA, original.paused) <=> PausedAfter(repliesA', original'.paused)
    <3>1. original'.paused <=> x = "pause done"
      BY <1>2, <1>5, Zenon
    <3>2. PausedAfter(repliesA, original.paused) <=> TakenPause(repliesA', x)
      <4>1. x \in PauseAnswers
        BY <1>3
      <4> QED BY <1>4, <4>1, AnswerTaken
    <3> QED BY <3>1, <3>2, Zenon DEF PausedAfter, TakenPause
  <2>2. PICK b : b = PausedView(deferred, pipeConsumer.producerPaused)
    OBVIOUS
  <2>3. PausedView(deferred', pipeConsumer'.producerPaused) = b
    BY <1>3, <2>2, Zenon DEF PausedView
  <2>4. PausedView(repliesA, b) <=> PausedView(repliesA', b)
    <3>1. x \notin Views
      BY <1>3, Zenon DEF Views, Grants, News, PauseAnswers
    <3> QED BY <1>4, <3>1, PausedTaken, Zenon
  <2> QED BY <1>3, <2>1, <2>2, <2>3, <2>4 DEF PausesAgreed
<1>12. StageOK'
  BY <1>3, Zenon DEF StageOK, NotAsked, Asked, Piped, Playing, Ended, PausedAfter, PausedNext
<1> QED BY <1>6, <1>8, <1>9, <1>10, <1>11, <1>12

\* A notification of the pipe Consumer is put off.
LEMMA NoticeInv == ASSUME PipeInv, ReceiveA, Head(repliesA) \in Notices PROVE PipeInv'
<1> USE DEF PipeInv
<1>1. PICK x : x = Head(repliesA)
  OBVIOUS
<1>2. /\ x \in Notices /\ repliesA # << >> /\ repliesA' = Tail(repliesA)
      /\ deferred' = Append(deferred, x)
      /\ UNCHANGED <<stage, original, pipeConsumer, pipeProducer, requestsB,
                     requestsA, repliesB, workerA, workerB, changes, inStep>>
  BY <1>1, Zenon DEF ReceiveA, Notices, News
<1>3. IsTaken(repliesA', repliesA, x, FromA)
  BY <1>1, <1>2, Taken DEF QueuesOK
<1>4. IsAdded(deferred', deferred, x, Notices)
  BY <1>2, Added, Zenon DEF QueuesOK
<1>5. PipeTypeOK' /\ QueuesOK'
  BY <1>2, <1>3, <1>4 DEF PipeTypeOK, QueuesOK, IsTaken, IsAdded
<1>6. /\ Holds(repliesA', ConsumeAnswers) <=> Holds(repliesA, ConsumeAnswers)
      /\ Holds(repliesA', Grants) <=> Holds(repliesA, Grants)
  BY <1>2, <1>3, Zenon DEF IsTaken, Notices, News, ConsumeAnswers, Grants
<1>7. pipeConsumer.state # "none"
  BY <1>2, <1>3, Zenon DEF AnswerFirst, IsTaken, Grants, Notices, News
<1>8. AskedOnce'
  BY <1>2, <1>3, <1>6, Zenon DEF AskedOnce, IsTaken
<1>9. AnswerFirst'
  BY <1>2, <1>7, SMTT(30) DEF AnswerFirst
<1>10. /\ Holds(repliesA, {"producerclose"}) <=> Holds(repliesA', {"producerclose"}) \/ x = "producerclose"
       /\ Holds(deferred', {"producerclose"}) <=> Holds(deferred, {"producerclose"}) \/ x = "producerclose"
  BY <1>3, <1>4, Zenon DEF IsTaken, IsAdded
<1>11. ConsumerAgreed'
  BY <1>2, <1>6, <1>10, Zenon DEF ConsumerAgreed
<1>12. PausesAgreed'
  <2>1. PausedAfter(repliesA, original.paused) <=> PausedAfter(repliesA', original.paused)
    <3>1. x \notin PauseAnswers
      BY <1>2, Zenon DEF PauseAnswers, Notices, News
    <3> QED BY <1>3, <3>1, PausedTaken, Zenon
  <2>2. PICK b : b = PausedView(deferred, pipeConsumer.producerPaused)
    OBVIOUS
  <2>3. PICK c : c = PausedView(deferred', pipeConsumer.producerPaused)
    OBVIOUS
  <2>4. ASSUME workerA.consumer PROVE PausedView(repliesA, b) <=> PausedView(repliesA', c)
    <3>1. x \in News /\ x \in Views
      BY <1>2, <1>10, <2>4, SMTT(30) DEF ConsumerAgreed, Notices, Views
    <3>2. c <=> x \in {"consumed paused", "producerpause"}
      BY <1>4, <2>3, <3>1, PausedAdded, Zenon
    <3>3. PausedView(repliesA, b) <=>
            IF Holds(repliesA', Views) THEN Last(repliesA', Views, {"consumed paused", "producerpause"})
            ELSE x \in {"consumed paused", "producerpause"}
      BY <1>3, <3>1, PausedTaken, Zenon
    <3> QED BY <3>2, <3>3, Zenon DEF PausedView
  <2>5. PausedView(deferred', pipeConsumer'.producerPaused) = c
    BY <1>2, <2>3
  <2> QED BY <1>2, <2>1, <2>2, <2>4, <2>5, SMTT(30) DEF PausesAgreed
<1>13. StageOK'
  BY <1>2, Zenon DEF StageOK, NotAsked, Asked, Piped, Playing, Ended, PausedAfter, PausedNext
<1> QED BY <1>5, <1>8, <1>9, <1>11, <1>12, <1>13

\* Whatever Worker A answers or tells.
LEMMA ReceiveAInv == ASSUME PipeInv, ReceiveA PROVE PipeInv'
<1>1. Head(repliesA) \in FromA
  BY Taken, Zenon DEF PipeInv, QueuesOK, ReceiveA, IsTaken
<1> QED BY <1>1, GrantInv, RefusedInv, AnswerInv, NoticeInv DEF FromA, ConsumeAnswers

\* The call fails once it has a pipe Consumer, and closes it.
LEMMA FailureClosesConsumer ==
    ASSUME PipeInv, stage = "producing", stage' = "failed", pipeConsumer' = Closed(pipeConsumer),
           requestsA' = IF pipeConsumer.state = "open" THEN Append(requestsA, "closeConsumer") ELSE requestsA,
           UNCHANGED <<original, repliesA, deferred, workerA>>
    PROVE  /\ pipeConsumer' \in [state : States, producerPaused : BOOLEAN] /\ pipeConsumer'.state = "closed"
           /\ requestsA' \in Seq(ToA)
           /\ AskedOnce' /\ AnswerFirst' /\ ConsumerAgreed' /\ PausesAgreed'
<1> USE DEF PipeInv
<1>1. pipeConsumer.state \in {"open", "closed"}
  BY SMTT(30) DEF AnswerFirst, PipeTypeOK, States
<1>2. pipeConsumer' \in [state : States, producerPaused : BOOLEAN] /\ pipeConsumer'.state = "closed"
  BY <1>1 DEF Closed, PipeTypeOK, States
<1>3. /\ ~Holds(requestsA, {"consume"}) /\ ~Holds(repliesA, ConsumeAnswers)
  BY DEF AskedOnce
<1>4. ~Holds(repliesA, Grants)
  BY <1>3, Within DEF ConsumeAnswers
<1>5. requestsA \in Seq(ToA) /\ "closeConsumer" \in ToA
  BY DEF QueuesOK, ToA
<1>6. pipeConsumer.state = "open" => IsAdded(requestsA', requestsA, "closeConsumer", ToA)
  BY <1>5, Added
<1>7. pipeConsumer.state # "open" => requestsA' = requestsA
  OBVIOUS
<1>8. requestsA' \in Seq(ToA)
  BY <1>5, <1>6, <1>7, SMTT(30) DEF IsAdded
<1>9. /\ Holds(requestsA', {"consume"}) <=> Holds(requestsA, {"consume"})
      /\ Holds(requestsA', {"close"}) <=> Holds(requestsA, {"close"})
      /\ Holds(requestsA, {"closeConsumer"}) \/ pipeConsumer.state = "open" => Holds(requestsA', {"closeConsumer"})
      /\ Once(requestsA, {"consume"}) => Once(requestsA', {"consume"})
      /\ Precedes(requestsA, {"consume"}, {"close"}) => Precedes(requestsA', {"consume"}, {"close"})
  BY <1>6, <1>7, Zenon DEF IsAdded
<1>10. AskedOnce'
  BY <1>3, <1>9, SMTT(30) DEF AskedOnce
<1>11. AnswerFirst'
  BY <1>2, SMTT(30) DEF AnswerFirst
<1>12. ConsumerAgreed'
  BY <1>1, <1>2, <1>4, <1>9, Zenon DEF ConsumerAgreed
<1>13. PausesAgreed'
  BY <1>2, Zenon DEF PausesAgreed, PausedAfter
<1> QED BY <1>2, <1>8, <1>10, <1>11, <1>12, <1>13

\* produce() resolved: the call fails, brings the pipe Producer in line or sets its listeners.
LEMMA ProducedInv == ASSUME PipeInv, ReceiveB, Head(repliesB) = "produced" PROVE PipeInv'
<1> USE DEF PipeInv
<1>1. PICK q : q = [pipeProducer EXCEPT !.state = "open"]
  BY Zenon
<1>2. /\ repliesB # << >> /\ repliesB' = Tail(repliesB) /\ Produced(q)
      /\ UNCHANGED <<original, repliesA, deferred, workerA, workerB, changes>>
  BY <1>1, Zenon DEF ReceiveB
<1>3. stage = "producing"
  <2>1. stage \notin {"syncing", "piped"}
    <3>1. IsTaken(repliesB', repliesB, "produced", PauseAnswers) \/ repliesB \notin Seq(PauseAnswers)
      BY <1>2, Taken
    <3> QED BY <3>1, Zenon DEF IsTaken, PauseAnswers, StageOK, Piped
  <2> QED BY <1>2, <2>1 DEF StageOK, NotAsked, PipeTypeOK
<1>4. /\ pipeProducer.state = "none" /\ requestsB = << >> /\ repliesB' = << >>
      /\ workerB = IF pipeProducer.paused THEN "paused" ELSE "playing"
  <2>1. Asked
    BY <1>3 DEF StageOK
  <2>2. Head(<<"refused">>) = "refused" /\ Tail(<<"produced">>) = << >>
    OBVIOUS
  <2>3. repliesB = <<"produced">>
    BY <1>2, <2>1, <2>2, Zenon DEF Asked
  <2> QED BY <1>2, <2>1, <2>2, <2>3 DEF Asked
<1>5. /\ q \in [state : States, paused : BOOLEAN] /\ q.state = "open"
      /\ q.paused = pipeProducer.paused
      /\ workerB \in {"paused", "playing"} /\ (workerB = "paused" <=> pipeProducer.paused)
  BY <1>1, <1>4 DEF PipeTypeOK, States
<1>6. CASE original.closed
  <2>1. /\ stage' = "failed" /\ UNCHANGED inStep
        /\ pipeConsumer' = Closed(pipeConsumer) /\ pipeProducer' = Closed(q)
        /\ requestsA' = IF pipeConsumer.state = "open" THEN Append(requestsA, "closeConsumer") ELSE requestsA
        /\ requestsB' = Append(requestsB, "close")
    BY <1>2, <1>5, <1>6, SMTT(30) DEF Produced, CloseBoth
  <2>2. requestsB' = <<"close">> /\ requestsB' \in Seq(ToB)
    <3>1. "close" \in ToB
      BY DEF ToB
    <3> QED BY <1>4, <2>1, <3>1
  <2>3. pipeProducer' \in [state : States, paused : BOOLEAN] /\ pipeProducer'.state = "closed"
    BY <1>5, <2>1 DEF Closed, States
  <2>4. /\ pipeConsumer' \in [state : States, producerPaused : BOOLEAN] /\ pipeConsumer'.state = "closed"
        /\ requestsA' \in Seq(ToA)
        /\ AskedOnce' /\ AnswerFirst' /\ ConsumerAgreed' /\ PausesAgreed'
    BY <1>2, <1>3, <2>1, FailureClosesConsumer, SMTT(30)
  <2>5. PipeTypeOK'
    BY <1>2, <2>1, <2>3, <2>4, SMTT(30) DEF PipeTypeOK
  <2>6. QueuesOK'
    BY <1>2, <1>4, <2>2, <2>4, SMTT(30) DEF QueuesOK
  <2>7. EndsWith(requestsB', "close")
    BY <2>2, SMTT(30) DEF EndsWith
  <2>8. StageOK'
    BY <1>2, <1>4, <1>5, <2>1, <2>2, <2>3, <2>4, <2>7, Zenon DEF StageOK, Ended
  <2> QED BY <2>4, <2>5, <2>6, <2>8
<1>7. CASE ~original.closed
  <2>1. PICK what : what = IF original.paused THEN "pause" ELSE "resume"
    BY SMTT(30)
  <2>2. /\ stage' = IF q.paused # original.paused THEN "syncing" ELSE "piped"
        /\ pipeProducer' = q
        /\ requestsB' = IF q.paused = original.paused THEN requestsB ELSE Append(requestsB, what)
        /\ inStep' = (/\ pipeConsumer.state = "open"
                      /\ pipeConsumer.producerPaused = original.paused)
        /\ UNCHANGED <<pipeConsumer, requestsA>>
    BY <1>2, <1>7, <2>1, Zenon DEF Produced
  <2>3. /\ what \in Changes /\ what \in ToB /\ what \in Changes \cup {"close"}
        /\ (what = "pause" <=> original.paused)
    BY <2>1, SMTT(30) DEF Changes, ToB, PipeTypeOK
  <2>4. q.paused # original.paused => /\ IsAdded(requestsB', << >>, what, ToB)
                                      /\ IsAdded(requestsB', << >>, what, Changes \cup {"close"})
    <3>1. << >> \in Seq(ToB) /\ << >> \in Seq(Changes \cup {"close"})
      OBVIOUS
    <3>2. q.paused # original.paused => requestsB' = Append(<< >>, what)
      BY <1>4, <2>2
    <3> QED BY <2>3, <3>1, <3>2, Added, Zenon
  <2>5. q.paused = original.paused => requestsB' = << >>
    BY <1>4, <2>2, SMTT(30)
  <2>6. requestsB' \in Seq(ToB) /\ requestsB' \in Seq(Changes \cup {"close"})
    <3>1. << >> \in Seq(ToB) /\ << >> \in Seq(Changes \cup {"close"})
      OBVIOUS
    <3> QED BY <2>4, <2>5, <3>1, Zenon DEF IsAdded
  <2>7. ~Holds(requestsB', {"close"})
    BY <2>3, <2>4, <2>5, Emptied, Zenon DEF IsAdded, Changes
  <2>8. PausedNext(requestsB', workerB = "paused") <=> original.paused
    <3>1. CASE q.paused # original.paused
      <4>1. PICK b : b = (workerB = "paused")
        OBVIOUS
      <4>2. PausedNext(requestsB', b) <=> IF what \in Changes THEN what = "pause" ELSE PausedNext(<< >>, b)
        BY <2>4, <3>1, PausedAdded, Zenon
      <4> QED BY <2>3, <4>1, <4>2, SMTT(30)
    <3>2. CASE q.paused = original.paused
      BY <1>5, <2>5, <3>2, Emptied, SMTT(30) DEF PausedNext
    <3> QED BY <3>1, <3>2, SMTT(30)
  <2>9. PipeTypeOK'
    BY <1>2, <1>5, <2>2, Zenon DEF PipeTypeOK
  <2>10. QueuesOK'
    BY <1>2, <1>4, <2>2, <2>6, SMTT(60) DEF QueuesOK
  <2>11. AskedOnce' /\ AnswerFirst' /\ ConsumerAgreed'
    BY <1>2, <1>3, <2>2, Zenon DEF AskedOnce, AnswerFirst, ConsumerAgreed
  <2>12. PausesAgreed'
    BY <1>2, <2>2, Zenon DEF PausesAgreed, PausedAfter, PausedView
  <2>13. PausedAfter(repliesB', pipeProducer'.paused) <=> workerB' = "paused"
    BY <1>2, <1>4, <1>5, <2>2, Emptied, Zenon DEF PausedAfter
  <2>14. Playing'
    BY <1>2, <1>5, <2>2, <2>7, SMTT(30) DEF Playing
  <2>15. inStep' => pipeConsumer'.state = "open" /\ (original.paused <=> pipeConsumer'.producerPaused)
    BY <2>2, Zenon
  <2>16. PausedNext(requestsB', workerB' = "paused") <=> original.paused
    BY <1>2, <2>8
  <2>17. Piped'
    BY <1>4, <2>6, <2>13, <2>14, <2>15, <2>16, SMTT(30) DEF Piped
  <2>18. StageOK'
    BY <2>2, <2>17, Zenon DEF StageOK
  <2> QED BY <2>9, <2>10, <2>11, <2>12, <2>18, SMTT(30)
<1> QED BY <1>6, <1>7

\* produce() rejected: the call fails.
LEMMA NotProducedInv == ASSUME PipeInv, ReceiveB, Head(repliesB) = "refused" PROVE PipeInv'
<1> USE DEF PipeInv
<1>1. /\ repliesB # << >> /\ repliesB' = Tail(repliesB)
      /\ stage = "producing" /\ stage' = "failed" /\ UNCHANGED inStep
      /\ CloseBoth(pipeConsumer, pipeProducer)
      /\ UNCHANGED <<original, repliesA, deferred, workerA, workerB, changes>>
  BY Zenon DEF ReceiveB
<1>2. /\ pipeProducer.state = "none" /\ requestsB = << >> /\ repliesB' = << >> /\ workerB = "none"
  <2>1. Asked
    BY <1>1, SMTT(30) DEF StageOK
  <2>2. Head(<<"produced">>) = "produced" /\ Tail(<<"refused">>) = << >>
    OBVIOUS
  <2>3. repliesB = <<"refused">> /\ workerB = "none" /\ requestsB = << >>
    BY <1>1, <2>1, <2>2, Zenon DEF Asked
  <2> QED BY <1>1, <2>1, <2>2, <2>3 DEF Asked
<1>3. /\ pipeConsumer' = Closed(pipeConsumer) /\ pipeProducer' = Closed(pipeProducer)
      /\ requestsA' = IF pipeConsumer.state = "open" THEN Append(requestsA, "closeConsumer") ELSE requestsA
      /\ requestsB' = << >>
  BY <1>1, <1>2, SMTT(30) DEF CloseBoth
<1>4. pipeProducer' \in [state : States, paused : BOOLEAN] /\ pipeProducer'.state = "none"
  BY <1>2, <1>3 DEF Closed, States, PipeTypeOK
<1>5. /\ pipeConsumer' \in [state : States, producerPaused : BOOLEAN] /\ pipeConsumer'.state = "closed"
      /\ requestsA' \in Seq(ToA)
      /\ AskedOnce' /\ AnswerFirst' /\ ConsumerAgreed' /\ PausesAgreed'
  BY <1>1, <1>3, FailureClosesConsumer, SMTT(30)
<1>6. PipeTypeOK'
  BY <1>1, <1>2, <1>4, <1>5, Zenon DEF PipeTypeOK
<1>7. QueuesOK'
  BY <1>1, <1>2, <1>3, <1>5, SMTT(30) DEF QueuesOK
<1>8. StageOK'
  BY <1>1, <1>2, <1>3, <1>4, <1>5, Zenon DEF StageOK, NotAsked
<1> QED BY <1>5, <1>6, <1>7, <1>8, SMTT(30)

\* pause() or resume() of the pipe Producer resolved.
LEMMA PipeAnswerInv == ASSUME PipeInv, ReceiveB, Head(repliesB) \in PauseAnswers PROVE PipeInv'
<1> USE DEF PipeInv
<1>1. PICK x : x = Head(repliesB)
  OBVIOUS
<1>2. PICK p \in BOOLEAN : p = (x = "pause done")
  BY Zenon
<1>3. /\ x \in PauseAnswers /\ repliesB # << >> /\ repliesB' = Tail(repliesB)
      /\ stage' = IF stage = "syncing" THEN "piped" ELSE stage
      /\ pipeProducer' = [pipeProducer EXCEPT !.paused = p]
      /\ UNCHANGED <<pipeConsumer, requestsA, requestsB, inStep, original, repliesA, deferred,
                     workerA, workerB, changes>>
  BY <1>1, <1>2, Zenon DEF ReceiveB, PauseAnswers
<1>4. stage \in {"syncing", "piped"} /\ stage' = "piped" /\ Piped
  <2>1. stage # "producing"
    <3>1. Head(<<"produced">>) = "produced" /\ Head(<<"refused">>) = "refused"
      OBVIOUS
    <3> QED BY <1>1, <1>3, <3>1, Zenon DEF StageOK, Asked, PauseAnswers
  <2> QED BY <1>3, <2>1 DEF StageOK, NotAsked, PipeTypeOK
<1>5. /\ IsTaken(repliesB', repliesB, x, PauseAnswers)
      /\ IsTaken(repliesB', repliesB, x, FromB)
  BY <1>1, <1>3, <1>4, Taken DEF QueuesOK, Piped
<1>6. /\ pipeProducer' \in [state : States, paused : BOOLEAN]
      /\ pipeProducer'.state = pipeProducer.state /\ pipeProducer'.paused = p
  BY <1>3, SMTT(30) DEF PipeTypeOK
<1>7. PipeTypeOK' /\ QueuesOK'
  BY <1>3, <1>4, <1>5, <1>6 DEF PipeTypeOK, QueuesOK, IsTaken
<1>8. AskedOnce' /\ AnswerFirst' /\ ConsumerAgreed'
  BY <1>3, <1>4 DEF AskedOnce, AnswerFirst, ConsumerAgreed
<1>9. PausesAgreed'
  BY <1>3, Zenon DEF PausesAgreed, PausedAfter, PausedView
<1>10. PausedAfter(repliesB, pipeProducer.paused) <=> PausedAfter(repliesB', pipeProducer'.paused)
  <2>1. PausedAfter(repliesB, pipeProducer.paused) <=> TakenPause(repliesB', x)
    <3>1. x \in PauseAnswers /\ IsTaken(repliesB', repliesB, x, FromB)
      BY <1>3, <1>5
    <3> QED BY <3>1, AnswerTaken
  <2> QED BY <1>2, <1>6, <2>1, Zenon DEF PausedAfter, TakenPause
<1>11. Playing' \/ Ended'
  BY <1>3, <1>4, <1>6 DEF Piped, Playing, Ended
<1>12. inStep' /\ pipeConsumer'.state = "open" =>
          (PausedNext(requestsB', workerB' = "paused") <=> pipeConsumer'.producerPaused)
  BY <1>3, <1>4 DEF Piped, PausedNext
<1>13. Piped'
  <2>1. repliesB' \in Seq(PauseAnswers)
    BY <1>5, Zenon DEF IsTaken
  <2> QED BY <1>3, <1>4, <1>6, <1>10, <1>11, <1>12, <2>1 DEF Piped
<1>14. StageOK'
  BY <1>4, <1>13 DEF StageOK
<1> QED BY <1>7, <1>8, <1>9, <1>14, SMTT(30)

\* Whatever Worker B answers.
LEMMA ReceiveBInv == ASSUME PipeInv, ReceiveB PROVE PipeInv'
<1>1. Head(repliesB) \in FromB
  BY Taken, Zenon DEF PipeInv, QueuesOK, ReceiveB, IsTaken
<1> QED BY <1>1, ProducedInv, NotProducedInv, PipeAnswerInv DEF FromB

\* A notification reaches a pipe Consumer that was closed meanwhile.
LEMMA LateNoticeInv == ASSUME PipeInv, RunImmediate, pipeConsumer.state # "open" PROVE PipeInv'
<1> USE DEF PipeInv
<1>1. /\ deferred # << >> /\ deferred' = Tail(deferred) /\ inStep' = (inStep /\ stage # "syncing")
      /\ UNCHANGED <<pipeConsumer, pipeProducer, requestsB, stage, original, requestsA, repliesA,
                     repliesB, workerA, workerB, changes>>
  BY SMTT(30) DEF RunImmediate
<1>2. IsTaken(deferred', deferred, Head(deferred), Notices)
  BY <1>1, Taken DEF QueuesOK
<1>3. pipeConsumer.state = "closed" /\ stage \notin {"pairing", "consuming"}
  BY <1>1, Zenon DEF AnswerFirst, PipeTypeOK, States
<1>4. ~Holds(repliesA, Grants)
  BY <1>3, Within DEF AskedOnce, ConsumeAnswers
<1>5. Holds(deferred', {"producerclose"}) => Holds(deferred, {"producerclose"})
  BY <1>2, SMTT(30) DEF IsTaken
<1>6. PipeTypeOK' /\ QueuesOK'
  BY <1>1, <1>2, SMTT(30) DEF PipeTypeOK, QueuesOK, IsTaken
<1>7. AskedOnce' /\ AnswerFirst'
  BY <1>1, <1>3, Zenon DEF AskedOnce, AnswerFirst
<1>8. ConsumerAgreed'
  BY <1>1, <1>3, <1>4, <1>5, Zenon DEF ConsumerAgreed
<1>9. PausesAgreed'
  BY <1>1, <1>3, Zenon DEF PausesAgreed, PausedAfter
<1>10. Asked => Asked'
  BY <1>1, Zenon DEF Asked
<1>11. Piped => Piped'
  BY <1>1, <1>3, Zenon DEF Piped, Playing, Ended, PausedAfter
<1>12. StageOK'
  BY <1>1, <1>3, <1>10, <1>11, Zenon DEF StageOK, NotAsked, Ended
<1> QED BY <1>6, <1>7, <1>8, <1>9, <1>12

\* The pipe Consumer learns that its producer paused or resumed, and forwards a change.
LEMMA NewsInv ==
    ASSUME PipeInv, RunImmediate, pipeConsumer.state = "open", Head(deferred) \in News
    PROVE  PipeInv'
<1> USE DEF PipeInv
<1>1. PICK x : x = Head(deferred)
  OBVIOUS
<1>2. PICK p \in BOOLEAN : p = (x = "producerpause")
  BY Zenon
<1>3. PICK what : what = IF p THEN "pause" ELSE "resume"
  OBVIOUS
<1>4. PICK heard \in BOOLEAN : heard = (p # pipeConsumer.producerPaused /\ stage = "piped")
  BY Zenon
<1>5. /\ x \in News
      /\ deferred # << >> /\ deferred' = Tail(deferred) /\ inStep' = (inStep /\ stage # "syncing")
      /\ pipeConsumer' = [pipeConsumer EXCEPT !.producerPaused = p]
      /\ requestsB' = IF heard THEN Append(requestsB, what) ELSE requestsB
      /\ UNCHANGED <<pipeProducer, stage, original, requestsA, repliesA, repliesB, workerA, workerB, changes>>
  <2>1. CASE x = "producerpause"
    BY <1>1, <1>2, <1>3, <1>4, <2>1, Zenon DEF RunImmediate, OnPause, PassOn, News
  <2>2. CASE x = "producerresume"
    BY <1>1, <1>2, <1>3, <1>4, <2>2, Zenon DEF RunImmediate, OnPause, PassOn, News
  <2> QED BY <1>1, <2>1, <2>2 DEF News
<1>6. IsTaken(deferred', deferred, x, Notices)
  BY <1>1, <1>5, Taken DEF QueuesOK
<1>7. /\ pipeConsumer' \in [state : States, producerPaused : BOOLEAN]
      /\ pipeConsumer'.state = "open" /\ pipeConsumer'.producerPaused = p
  BY <1>5 DEF PipeTypeOK
<1>8. /\ what \in Changes /\ what \in ToB /\ what \in Changes \cup {"close"}
      /\ (what = "pause" <=> p) /\ what # "close"
  BY <1>3 DEF Changes, ToB
<1>9. heard => IsAdded(requestsB', requestsB, what, ToB)
  BY <1>5, <1>8, Added DEF QueuesOK
<1>10. stage \in {"producing", "syncing", "piped"}
  BY SMTT(30) DEF AnswerFirst, PipeTypeOK, StageOK
<1>11. requestsB' \in Seq(ToB)
  BY <1>5, <1>9 DEF QueuesOK, IsAdded
<1>12. PipeTypeOK' /\ QueuesOK'
  BY <1>5, <1>6, <1>7, <1>11 DEF PipeTypeOK, QueuesOK, IsTaken
<1>13. AskedOnce' /\ AnswerFirst'
  BY <1>5, <1>7, <1>10 DEF AskedOnce, AnswerFirst
<1>14. Holds(deferred', {"producerclose"}) <=> Holds(deferred, {"producerclose"})
  BY <1>5, <1>6 DEF IsTaken, News
<1>15. ConsumerAgreed'
  BY <1>5, <1>7, <1>14 DEF ConsumerAgreed
<1>16. PausesAgreed'
  <2>1. PICK b : b = PausedView(deferred, pipeConsumer.producerPaused)
    BY SMTT(30)
  <2>2. PICK c : c = PausedView(deferred', pipeConsumer'.producerPaused)
    OBVIOUS
  <2>3. b <=> c
    <3>1. x \in Views /\ (x \in {"consumed paused", "producerpause"} <=> p)
      BY <1>2, <1>5, Zenon DEF Views, News
    <3>2. PausedView(deferred, pipeConsumer.producerPaused) <=>
            IF Holds(deferred', Views) THEN Last(deferred', Views, {"consumed paused", "producerpause"})
            ELSE x \in {"consumed paused", "producerpause"}
      BY <1>6, <3>1, PausedTaken, Zenon
    <3> QED BY <1>7, <2>1, <2>2, <3>1, <3>2, Zenon DEF PausedView
  <2>4. PausedView(repliesA, b) <=> PausedView(repliesA, c)
    BY <2>3 DEF PausedView
  <2>5. PausedAfter(repliesA', original'.paused) <=> PausedAfter(repliesA, original.paused)
    BY <1>5
  <2>6. PausedView(repliesA', c) <=> PausedView(repliesA, c)
    BY <1>5
  <2> QED BY <1>5, <1>7, <2>1, <2>2, <2>4, <2>5, <2>6 DEF PausesAgreed
<1>17. CASE stage = "producing"
  <2>1. Asked'
    BY <1>4, <1>5, <1>17, Zenon DEF StageOK, Asked
  <2> QED BY <1>5, <1>12, <1>13, <1>15, <1>16, <1>17, <2>1 DEF StageOK
<1>18. CASE stage \in {"syncing", "piped"}
  <2>1. Piped
    BY <1>18, SMTT(30) DEF StageOK
  <2>2. Playing
    BY <2>1 DEF Piped, Ended
  <2>3. requestsB' \in Seq(Changes \cup {"close"})
    <3>1. requestsB \in Seq(Changes \cup {"close"})
      BY <2>1 DEF Piped
    <3>2. Append(requestsB, what) \in Seq(Changes \cup {"close"})
      BY <1>8, <3>1
    <3> QED BY <1>5, <3>1, <3>2
  <2>4. ~Holds(requestsB', {"close"})
    BY <1>5, <1>8, <1>9, <2>2 DEF Playing, IsAdded
  <2>5. Playing'
    BY <1>5, <2>2, <2>4 DEF Playing
  <2>6. inStep' => (PausedNext(requestsB', workerB' = "paused") <=> p)
    <3>1. SUFFICES ASSUME inStep' PROVE PausedNext(requestsB', workerB' = "paused") <=> p
      OBVIOUS
    <3>2. PICK b : b = (workerB = "paused")
      OBVIOUS
    <3>3. stage = "piped" /\ inStep
      BY <1>5, <1>18, <3>1, Zenon
    <3>4. PausedNext(requestsB, b) <=> pipeConsumer.producerPaused
      BY <2>1, <3>2, <3>3, SMTT(30) DEF Piped
    <3>5. PausedNext(requestsB', b) <=> p
      <4>1. CASE heard
        <5>1. PausedNext(requestsB', b) <=> IF what \in Changes THEN what = "pause" ELSE PausedNext(requestsB, b)
          BY <1>9, <4>1, PausedAdded, Zenon
        <5> QED BY <1>8, <5>1
      <4>2. CASE ~heard
        <5>1. p = pipeConsumer.producerPaused
          BY <1>4, <3>3, <4>2, Zenon
        <5>2. requestsB' = requestsB
          BY <1>5, <4>2
        <5> QED BY <3>4, <5>1, <5>2
      <4> QED BY <4>1, <4>2
    <3> QED BY <1>5, <3>2, <3>5
  <2>7. workerB' # "closed" => (PausedAfter(repliesB', pipeProducer'.paused) <=> workerB' = "paused")
    BY <1>5, <2>1 DEF Piped
  <2>8. Piped'
    BY <1>5, <1>7, <2>1, <2>3, <2>5, <2>6, <2>7 DEF Piped
  <2>9. StageOK'
    BY <1>5, <1>18, <2>8, SMTT(30) DEF StageOK
  <2> QED BY <1>12, <1>13, <1>15, <1>16, <2>9
<1> QED BY <1>10, <1>17, <1>18, SMTT(30)

\* The pipe Consumer learns that its producer closed; once the listeners are set the pipe
\* Producer is closed with it.
LEMMA CloseNoticeInv ==
    ASSUME PipeInv, RunImmediate, pipeConsumer.state = "open", Head(deferred) = "producerclose"
    PROVE  PipeInv'
<1> USE DEF PipeInv
<1>1. /\ deferred # << >> /\ deferred' = Tail(deferred) /\ inStep' = (inStep /\ stage # "syncing")
      /\ pipeConsumer' = Closed(pipeConsumer)
      /\ pipeProducer' = IF stage = "piped" THEN Closed(pipeProducer) ELSE pipeProducer
      /\ requestsB' = IF pipeProducer.state = "open" /\ stage = "piped" THEN Append(requestsB, "close")
                      ELSE requestsB
      /\ UNCHANGED <<stage, original, requestsA, repliesA, repliesB, workerA, workerB, changes>>
  BY Zenon DEF RunImmediate, OnProducerClose, PassOn
<1>2. IsTaken(deferred', deferred, "producerclose", Notices)
  BY <1>1, Taken DEF QueuesOK
<1>3. /\ pipeConsumer' \in [state : States, producerPaused : BOOLEAN] /\ pipeConsumer'.state = "closed"
  BY <1>1 DEF PipeTypeOK, Closed, States
<1>4. stage \in {"producing", "syncing", "piped"}
  BY DEF AnswerFirst, PipeTypeOK, StageOK
<1>5. ~Holds(repliesA, Grants)
  BY <1>4, Within DEF AskedOnce, ConsumeAnswers
<1>6. ~workerA.consumer
  BY <1>2, SMTT(30) DEF ConsumerAgreed, IsTaken
<1>7. /\ pipeProducer' \in [state : States, paused : BOOLEAN]
      /\ pipeProducer'.paused = pipeProducer.paused
      /\ pipeProducer'.state =
            IF stage = "piped" /\ pipeProducer.state = "open" THEN "closed" ELSE pipeProducer.state
  BY <1>1, Zenon DEF PipeTypeOK, Closed, States
<1>8. requestsB \in Seq(ToB) /\ "close" \in ToB
  BY Zenon DEF QueuesOK, ToB
<1>9. pipeProducer.state = "open" /\ stage = "piped" => IsAdded(requestsB', requestsB, "close", ToB)
  BY <1>1, <1>8, Added, SMTT(30)
<1>10. requestsB' \in Seq(ToB)
  BY <1>1, <1>8, <1>9, Zenon DEF IsAdded
<1>11. PipeTypeOK' /\ QueuesOK'
  BY <1>1, <1>2, <1>3, <1>7, <1>10, ZenonT(30) DEF PipeTypeOK, QueuesOK, IsTaken
<1>12. AskedOnce' /\ AnswerFirst'
  BY <1>1, <1>3, <1>4, Zenon DEF AskedOnce, AnswerFirst
<1>13. ConsumerAgreed'
  BY <1>1, <1>3, <1>5, <1>6, Zenon DEF ConsumerAgreed
<1>14. PausesAgreed'
  BY <1>1, <1>6, Zenon DEF PausesAgreed, PausedAfter
<1>15. CASE stage = "producing"
  <2>1. Asked'
    BY <1>1, <1>7, <1>15, Zenon DEF StageOK, Asked
  <2> QED BY <1>1, <1>11, <1>12, <1>13, <1>14, <1>15, <2>1, Zenon DEF StageOK
<1>16. CASE stage = "syncing"
  <2>1. Piped'
    BY <1>1, <1>7, <1>16, Zenon DEF StageOK, Piped, Playing, PausedAfter
  <2> QED BY <1>1, <1>11, <1>12, <1>13, <1>14, <1>16, <2>1, SMTT(30) DEF StageOK
<1>17. CASE stage = "piped"
  <2>1. Piped /\ Playing
    BY <1>17, Zenon DEF StageOK, Piped, Ended
  <2>2. Ended'
    <3>1. EndsWith(requestsB', "close")
      BY <1>9, <1>17, <2>1, Zenon DEF Playing, IsAdded
    <3> QED BY <1>1, <1>3, <1>7, <1>17, <2>1, <3>1, Zenon DEF Playing, Ended
  <2>3. requestsB' \in Seq(Changes \cup {"close"})
    <3>1. requestsB \in Seq(Changes \cup {"close"}) /\ "close" \in Changes \cup {"close"}
      BY <2>1, SMTT(30) DEF Piped
    <3>2. Append(requestsB, "close") \in Seq(Changes \cup {"close"})
      BY <3>1
    <3> QED BY <1>1, <3>1, <3>2, SMTT(30)
  <2>4. workerB' # "closed" => (PausedAfter(repliesB', pipeProducer'.paused) <=> workerB' = "paused")
    BY <1>1, <1>7, <2>1, SMTT(30) DEF Piped
  <2>5. Piped'
    BY <1>1, <1>3, <1>17, <2>1, <2>2, <2>3, <2>4, Zenon DEF Piped, Ended
  <2> QED BY <1>1, <1>11, <1>12, <1>13, <1>14, <1>17, <2>5, Zenon DEF StageOK
<1> QED BY <1>4, <1>15, <1>16, <1>17, SMTT(30)

\* Whatever the notification that was put off.
LEMMA RunImmediateInv == ASSUME PipeInv, RunImmediate PROVE PipeInv'
<1>1. Head(deferred) \in Notices
  BY Taken, Zenon DEF PipeInv, QueuesOK, RunImmediate, IsTaken
<1> QED BY <1>1, LateNoticeInv, NewsInv, CloseNoticeInv, SMTT(30) DEF Notices

\* Worker B: nothing but the pipe Producer and the messages about it change.
LEMMA WorkerBKeeps ==
    ASSUME PipeInv, WorkerBStep
    PROVE  /\ UNCHANGED <<stage, original, pipeConsumer, pipeProducer, requestsA, repliesA,
                          deferred, workerA, changes, inStep>>
           /\ AskedOnce' /\ AnswerFirst' /\ ConsumerAgreed' /\ PausesAgreed'
           /\ requestsB # << >> /\ requestsB' = Tail(requestsB)
           /\ IsTaken(requestsB', requestsB, Head(requestsB), ToB)
           /\ stage \notin {"pairing", "consuming"}
<1> USE DEF PipeInv
<1>1. /\ UNCHANGED <<stage, original, pipeConsumer, pipeProducer, requestsA, repliesA,
                     deferred, workerA, changes, inStep>>
      /\ requestsB # << >> /\ requestsB' = Tail(requestsB)
  BY Zenon DEF WorkerBStep
<1>2. AskedOnce' /\ AnswerFirst' /\ ConsumerAgreed'
  BY <1>1, Zenon DEF AskedOnce, AnswerFirst, ConsumerAgreed
<1>3. PausesAgreed'
  BY <1>1, Zenon DEF PausesAgreed, PausedAfter, PausedView
<1>4. IsTaken(requestsB', requestsB, Head(requestsB), ToB)
  BY <1>1, Taken DEF QueuesOK
<1>5. stage \notin {"pairing", "consuming"}
  BY <1>1 DEF StageOK, NotAsked
<1> QED BY <1>1, <1>2, <1>3, <1>4, <1>5, SMTT(30)

\* Worker B creates the pipe Producer or refuses to.
LEMMA WorkerBProducingInv == ASSUME PipeInv, WorkerBStep, stage = "producing" PROVE PipeInv'
<1> USE DEF PipeInv
<1>1. /\ UNCHANGED <<stage, original, pipeConsumer, pipeProducer, requestsA, repliesA,
                     deferred, workerA, changes, inStep>>
      /\ AskedOnce' /\ AnswerFirst' /\ ConsumerAgreed' /\ PausesAgreed'
      /\ requestsB # << >> /\ requestsB' = Tail(requestsB)
  BY WorkerBKeeps, SMTT(30)
<1>2. PICK x : x = IF pipeProducer.paused THEN "produce paused" ELSE "produce"
  BY Zenon
<1>3. /\ workerB = "none" /\ repliesB = << >> /\ requestsB = <<x>> /\ pipeProducer.state = "none"
  BY <1>1, <1>2, Zenon DEF StageOK, Asked
<1>4. Head(requestsB) = x /\ requestsB' = << >>
  BY <1>1, <1>3
<1>5. \/ /\ workerB' = IF pipeProducer.paused THEN "paused" ELSE "playing"
         /\ repliesB' = <<"produced">>
      \/ workerB' = "none" /\ repliesB' = <<"refused">>
  <2>1. \/ /\ workerB' = IF x = "produce" THEN "playing" ELSE "paused"
           /\ repliesB' = Append(repliesB, "produced")
        \/ workerB' = workerB /\ repliesB' = Append(repliesB, "refused")
    BY <1>2, <1>4, Zenon DEF WorkerBStep
  <2>2. Append(<< >>, "produced") = <<"produced">> /\ Append(<< >>, "refused") = <<"refused">>
    OBVIOUS
  <2> QED BY <1>2, <1>3, <2>1, <2>2, Zenon
<1>6. Asked'
  BY <1>1, <1>3, <1>4, <1>5, Zenon DEF Asked
<1>7. PipeTypeOK'
  BY <1>1, <1>3, <1>5, SMTT(30) DEF PipeTypeOK
<1>8. QueuesOK'
  <2>1. <<"produced">> \in Seq(FromB) /\ <<"refused">> \in Seq(FromB)
    BY DEF FromB
  <2>2. << >> \in Seq(ToB)
    OBVIOUS
  <2> QED BY <1>1, <1>4, <1>5, <2>1, <2>2, Zenon DEF QueuesOK
<1>9. StageOK'
  BY <1>1, <1>6 DEF StageOK
<1> QED BY <1>1, <1>7, <1>8, <1>9

\* Worker B pauses, resumes or closes the pipe Producer.
LEMMA WorkerBPipedInv ==
    ASSUME PipeInv, WorkerBStep, stage \in {"syncing", "piped"}
    PROVE  PipeInv'
<1> USE DEF PipeInv
<1>1. PICK x : x = Head(requestsB)
  OBVIOUS
<1>2. /\ UNCHANGED <<stage, original, pipeConsumer, pipeProducer, requestsA, repliesA,
                     deferred, workerA, changes, inStep>>
      /\ AskedOnce' /\ AnswerFirst' /\ ConsumerAgreed' /\ PausesAgreed'
      /\ requestsB # << >> /\ requestsB' = Tail(requestsB)
      /\ IsTaken(requestsB', requestsB, x, ToB)
  BY <1>1, WorkerBKeeps
<1>3. Piped
  BY DEF StageOK
<1>4. IsTaken(requestsB', requestsB, x, Changes \cup {"close"})
  BY <1>1, <1>2, <1>3, Taken DEF Piped
<1>5. /\ requestsB' \in Seq(ToB) /\ requestsB' \in Seq(Changes \cup {"close"})
      /\ x \in Changes \cup {"close"}
  BY <1>2, <1>4, Zenon DEF IsTaken
<1>6. /\ repliesB \in Seq(FromB) /\ repliesB \in Seq(PauseAnswers)
      /\ workerB \in {"paused", "playing"}
      /\ Playing \/ EndsWith(requestsB, "close")
  BY <1>2, <1>3 DEF QueuesOK, Piped, Playing, Ended
<1>7. CASE x \in Changes
  <2>1. PICK done : done = IF x = "pause" THEN "pause done" ELSE "resume done"
    BY Zenon
  <2>2. /\ workerB' = IF x = "pause" THEN "paused" ELSE "playing"
        /\ repliesB' = Append(repliesB, done)
    BY <1>1, <1>7, <2>1, Zenon DEF WorkerBStep, Changes
  <2>3. done \in PauseAnswers /\ done \in FromB /\ (done = "pause done" <=> x = "pause")
    BY <2>1, Zenon DEF PauseAnswers, FromB
  <2>4. IsAdded(repliesB', repliesB, done, PauseAnswers) /\ IsAdded(repliesB', repliesB, done, FromB)
    BY <1>6, <2>2, <2>3, Added, Zenon
  <2>5. repliesB' \in Seq(PauseAnswers) /\ repliesB' \in Seq(FromB)
    BY <2>4, Zenon DEF IsAdded
  <2>6. workerB' \in {"paused", "playing"} /\ (workerB' = "paused" <=> x = "pause")
    BY <2>2
  <2>7. PausedAfter(repliesB', pipeProducer'.paused) <=> workerB' = "paused"
    <3>1. PausedAfter(repliesB', pipeProducer'.paused) <=>
              IF done \in PauseAnswers THEN done = "pause done" ELSE PausedAfter(repliesB, pipeProducer'.paused)
      BY <2>4, PausedAdded, Zenon
    <3> QED BY <2>3, <2>6, <3>1, Zenon
  <2>8. PausedNext(requestsB, workerB = "paused") <=> PausedNext(requestsB', workerB' = "paused")
    <3>1. PICK b : b = (workerB = "paused")
      OBVIOUS
    <3>2. PausedNext(requestsB, b) <=>
              IF Holds(requestsB', Changes) THEN Last(requestsB', Changes, {"pause"}) ELSE x = "pause"
      BY <1>4, <1>7, PausedTaken, Zenon
    <3> QED BY <2>6, <3>1, <3>2, Zenon DEF PausedNext
  <2>9. Playing' \/ (stage' = "piped" /\ Ended')
    <3>1. CASE Playing
      BY <1>2, <2>6, <3>1, Zenon DEF Playing, IsTaken
    <3>2. CASE stage = "piped" /\ Ended
      <4>1. EndsWith(requestsB, "close")
        BY <1>2, <3>2 DEF Ended
      <4>2. x # "close"
        BY <1>7 DEF Changes
      <4>3. EndsWith(requestsB', "close")
        BY <1>4, <4>1, <4>2 DEF IsTaken
      <4> QED BY <1>2, <2>6, <3>2, <4>3, SMTT(30) DEF Ended
    <3> QED BY <1>3, <3>1, <3>2 DEF Piped
  <2>10. Piped'
    BY <1>2, <1>3, <1>5, <2>5, <2>7, <2>8, <2>9, Zenon DEF Piped
  <2>11. PipeTypeOK' /\ QueuesOK'
    BY <1>2, <1>5, <2>5, <2>6, ZenonT(30) DEF PipeTypeOK, QueuesOK
  <2>12. StageOK'
    BY <1>2, <2>10 DEF StageOK
  <2> QED BY <1>2, <2>11, <2>12
<1>8. CASE x = "close"
  <2>1. workerB' = "closed" /\ repliesB' = repliesB
    BY <1>1, <1>8, Zenon DEF WorkerBStep
  <2>2. ~Playing
    BY <1>4, <1>8 DEF Playing, IsTaken
  <2>3. stage = "piped" /\ Ended /\ EndsWith(requestsB, "close")
    BY <1>3, <1>6, <2>2 DEF Piped
  <2>4. requestsB' = << >>
    BY <1>4, <1>8, <2>3 DEF IsTaken
  <2>5. Ended'
    BY <1>2, <2>1, <2>3, <2>4 DEF Ended
  <2>6. Piped'
    BY <1>2, <1>5, <1>6, <2>1, <2>3, <2>5, Zenon DEF Piped, Ended
  <2>7. PipeTypeOK' /\ QueuesOK'
    BY <1>2, <1>5, <2>1, <2>3, Zenon DEF PipeTypeOK, QueuesOK, Ended
  <2>8. StageOK'
    BY <1>2, <2>6 DEF StageOK
  <2> QED BY <1>2, <2>7, <2>8
<1> QED BY <1>5, <1>7, <1>8

\* Worker B closes the pipe Producer of a call that failed.
LEMMA WorkerBFailedInv == ASSUME PipeInv, WorkerBStep, stage = "failed" PROVE PipeInv'
<1> USE DEF PipeInv
<1>1. /\ UNCHANGED <<stage, original, pipeConsumer, pipeProducer, requestsA, repliesA,
                     deferred, workerA, changes, inStep>>
      /\ AskedOnce' /\ AnswerFirst' /\ ConsumerAgreed' /\ PausesAgreed'
      /\ requestsB # << >> /\ requestsB' = Tail(requestsB)
  BY WorkerBKeeps
<1>2. Ended /\ requestsB = <<"close">> /\ repliesB = << >>
  BY <1>1 DEF StageOK, NotAsked
<1>3. Head(requestsB) = "close" /\ requestsB' = << >>
  BY <1>1, <1>2
<1>4. workerB' = "closed" /\ repliesB' = repliesB
  BY <1>3, Zenon DEF WorkerBStep
<1>5. Ended'
  BY <1>1, <1>2, <1>3, <1>4 DEF Ended
<1>6. PipeTypeOK'
  BY <1>1, <1>2, <1>4, Zenon DEF PipeTypeOK, Ended
<1>7. QueuesOK'
  BY <1>1, <1>3, <1>4 DEF QueuesOK
<1>8. StageOK'
  BY <1>1, <1>2, <1>3, <1>4, <1>5 DEF StageOK
<1> QED BY <1>1, <1>5, <1>6, <1>7, <1>8

\* Whatever Worker B is asked.
LEMMA WorkerBInv == ASSUME PipeInv, WorkerBStep PROVE PipeInv'
<1>1. stage \in {"producing", "syncing", "piped", "failed"}
  BY WorkerBKeeps DEF PipeInv, PipeTypeOK
<1> QED BY <1>1, WorkerBProducingInv, WorkerBPipedInv, WorkerBFailedInv

\* A step of another part of the system.
LEMMA PipeStutterInv == ASSUME PipeInv, UNCHANGED pipeVars PROVE PipeInv'
<1> USE DEF PipeInv, pipeVars
<1>1. PipeTypeOK' /\ QueuesOK' /\ AskedOnce' /\ AnswerFirst' /\ ConsumerAgreed'
  <2>0. PipeTypeOK'
    BY SMTT(30) DEF PipeTypeOK
  <2>1. QueuesOK'
    BY Zenon DEF QueuesOK
  <2>2. AskedOnce'
    BY Zenon DEF AskedOnce
  <2>3. AnswerFirst' /\ ConsumerAgreed'
    BY Zenon DEF AnswerFirst, ConsumerAgreed
  <2> QED BY <2>0, <2>1, <2>2, <2>3
<1>2. PausesAgreed'
  BY Zenon DEF PausesAgreed, PausedAfter, PausedView
<1>3. StageOK'
  BY Zenon DEF StageOK, NotAsked, Asked, Piped, Playing, Ended, PausedAfter, PausedNext
<1> QED BY <1>1, <1>2, <1>3

\* Every step of a call and of what it talks to.
LEMMA PipeNextInv == PipeInv /\ [PipeNext]_pipeVars => PipeInv'
<1> SUFFICES ASSUME PipeInv, [PipeNext]_pipeVars PROVE PipeInv'
  OBVIOUS
<1>1. ASSUME NEW what \in {"pause", "resume", "close"}, ApplicationChange(what) PROVE PipeInv'
  BY <1>1, ApplicationChangeInv
<1>2. CASE ApplicationClosesPipe
  BY <1>2, ApplicationClosesPipeInv
<1>3. CASE WorkerAStep
  BY <1>3, WorkerAInv
<1>4. CASE WorkerBStep
  BY <1>4, WorkerBInv
<1>5. CASE PairReady
  BY <1>5, PairReadyInv
<1>6. CASE ReceiveA
  BY <1>6, ReceiveAInv
<1>7. CASE ReceiveB
  BY <1>7, ReceiveBInv
<1>8. CASE RunImmediate
  BY <1>8, RunImmediateInv
<1>9. CASE UNCHANGED pipeVars
  BY <1>9, PipeStutterInv
<1> QED BY <1>1, <1>2, <1>3, <1>4, <1>5, <1>6, <1>7, <1>8, <1>9 DEF PipeNext

\* For every number of pause(), resume() and close() calls and whatever the order in which
\* Workers answer and the event loop turns: once nothing is under way, JS and the two Workers
\* agree about the original Producer, the pipe Consumer and the pipe Producer, the pipe
\* Producer is as the original is if the call set its listeners in step with it, and a call
\* that failed has left nothing behind.  (Router.ts pipeToRouter().)
THEOREM PipedFollows == PipeSpec => []FollowsInTheEnd
<1>1. PipeInit => PipeInv
  BY PipeInitInv
<1>2. PipeInv /\ [PipeNext]_pipeVars => PipeInv'
  BY PipeNextInv
<1>3. PipeInv => FollowsInTheEnd
  BY PipeInvImplies
<1> QED BY <1>1, <1>2, <1>3, PTL DEF PipeSpec
=============================================================================
