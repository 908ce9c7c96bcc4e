----------------------------- MODULE IceServer -----------------------------
(***************************************************************************)
(* The ICE Lite agent of a WebRtcTransport (worker/src/RTC/IceServer.cpp). *)
(* One instance per WebRtcTransport; every action is one call into the     *)
(* agent, which runs to completion on the worker's single event loop.      *)
(*                                                                         *)
(* A tuple (a remote 5-tuple) and a credential (a usernameFragment with    *)
(* its password) are opaque values.  The listener's bookkeeping            *)
(* (listenerTuples, listenerUfrags) is what WebRtcServer stores in its two *)
(* lookup maps when it is told of tuples and username fragments.           *)
(***************************************************************************)
EXTENDS Integers, Sequences, FiniteSets

CONSTANTS Tuples,       \* remote tuples a peer may send from
          Credentials,  \* local (usernameFragment, password) pairs
          Nominations,  \* NOMINATION values the peer may send; {} when it sends none
          MaxTuples,    \* cap on stored tuples (8 in the code)
          None          \* null pointer, empty string, absent attribute

ASSUME IceAssumption ==
    /\ MaxTuples \in Nat /\ MaxTuples >= 2
    /\ Nominations \subseteq Nat
    /\ None \notin Tuples \cup Credentials \cup Nat

VARIABLES
    iceState,          \* IceState
    tuples,            \* std::list<TransportTuple>, newest first
    selectedTuple,
    remoteNomination,
    ufrag,             \* usernameFragment and password
    oldUfrag,          \* oldUsernameFragment and oldPassword, None when empty
    listenerTuples,    \* tuples announced and not yet withdrawn
    listenerUfrags,    \* username fragments announced and not yet withdrawn
    response,          \* last STUN response: its code, key and the request's credential
    lifecycle          \* "alive", "destroyed", or "aborted" by an MS_ASSERT

agentVars == <<iceState, tuples, selectedTuple, remoteNomination, ufrag, oldUfrag,
               listenerTuples, listenerUfrags, lifecycle>>
vars == <<iceState, tuples, selectedTuple, remoteNomination, ufrag, oldUfrag,
          listenerTuples, listenerUfrags, response, lifecycle>>

Connectivity == {"connected", "completed"}
IceStates == {"new", "disconnected"} \cup Connectivity
Responses == [code : {"none", "200", "400", "401", "487"},
              key : Credentials \cup {None}, cred : Credentials \cup {None}]

Elems(s) == {s[i] : i \in DOMAIN s}

Stored == Elems(tuples)

(***************************************************************************)
(* Constructor: the username fragment is announced to the listener.        *)
(***************************************************************************)
Init ==
    /\ iceState = "new"
    /\ tuples = <<>>
    /\ selectedTuple = None
    /\ remoteNomination = 0
    /\ ufrag \in Credentials
    /\ oldUfrag = None
    /\ listenerTuples = {}
    /\ listenerUfrags = {ufrag}
    /\ response = [code |-> "none", key |-> None, cred |-> None]
    /\ lifecycle = "alive"

Reply(code, key, cred) == response' = [code |-> code, key |-> key, cred |-> cred]

(***************************************************************************)
(* HasTuple: without a selected tuple the list is taken to be empty.       *)
(***************************************************************************)
HasTuple(t) == selectedTuple # None /\ t \in Stored

RemoveIndex(s, k) == [i \in 1 .. (Len(s) - 1) |-> IF i < k THEN s[i] ELSE s[i + 1]]

IndexOf(s, t) == CHOOSE i \in DOMAIN s : s[i] = t

(***************************************************************************)
(* AddTuple: push to the front and, over the cap, drop the oldest tuple    *)
(* that is neither the new one nor the selected one.                       *)
(***************************************************************************)
\* Mutant: the scan forgets to skip the selected tuple.
Evictable_AnyTuple(s) == 2 .. Len(s)

Evictable(s) == {i \in 2 .. Len(s) : s[i] # selectedTuple}

Oldest(S) == CHOOSE i \in S : \A j \in S : j <= i

AddTuple(t) ==
    LET pushed == <<t>> \o tuples
        victim == Oldest(Evictable(pushed))
    IN  IF Len(pushed) <= MaxTuples
        THEN /\ tuples' = pushed
             /\ listenerTuples' = listenerTuples \cup {t}
        ELSE /\ tuples' = RemoveIndex(pushed, victim)
             /\ listenerTuples' = (listenerTuples \cup {t}) \ {pushed[victim]}

(***************************************************************************)
(* HandleTuple.  A nomination wins unless it carries a NOMINATION value    *)
(* that is not higher than the last one taken; a plain request only        *)
(* selects its tuple when there was no connectivity.  The MS_ASSERTs at    *)
(* the top of each state abort the worker.                                 *)
(***************************************************************************)
Wins(useCandidate, nomination) ==
    \/ nomination = None /\ useCandidate
    \/ nomination # None /\ nomination > remoteNomination

AssertHolds ==
    IF iceState \in Connectivity THEN tuples # <<>> /\ selectedTuple # None
                                 ELSE tuples = <<>> /\ selectedTuple = None

SelectTuple(t, useCandidate, nomination) ==
    LET nominated == useCandidate \/ nomination # None
        wins == Wins(useCandidate, nomination)
    IN  /\ IF HasTuple(t) THEN UNCHANGED <<tuples, listenerTuples>> ELSE AddTuple(t)
        /\ selectedTuple' = IF wins \/ (iceState \notin Connectivity /\ ~nominated)
                            THEN t ELSE selectedTuple
        /\ iceState' = CASE wins -> "completed"
                         [] ~wins /\ ~nominated /\ iceState \notin Connectivity -> "connected"
                         [] OTHER -> iceState
        /\ remoteNomination' = IF wins /\ nomination # None THEN nomination ELSE remoteNomination
        /\ UNCHANGED lifecycle

HandleTuple(t, useCandidate, nomination) ==
    IF AssertHolds
    THEN SelectTuple(t, useCandidate, nomination)
    ELSE /\ lifecycle' = "aborted"
         /\ UNCHANGED <<iceState, tuples, selectedTuple, remoteNomination, listenerTuples>>

(***************************************************************************)
(* ProcessStunPacket.  A packet that is not a binding request, or misses a *)
(* mandatory attribute, is answered 400 or ignored.                        *)
(***************************************************************************)
RejectMalformed ==
    /\ lifecycle = "alive"
    /\ Reply("400", None, None)
    /\ UNCHANGED agentVars

RejectUnauthorized(cred) ==
    /\ lifecycle = "alive"
    /\ cred \notin {ufrag, oldUfrag}
    /\ Reply("401", None, cred)
    /\ UNCHANGED agentVars

(***************************************************************************)
(* A request authenticated with the current credentials retires the old    *)
(* ones, before the role check.                                            *)
(***************************************************************************)
Authenticate(cred) ==
    /\ cred \in {ufrag, oldUfrag}
    /\ UNCHANGED ufrag
    /\ oldUfrag' = IF cred = ufrag THEN None ELSE oldUfrag
    /\ listenerUfrags' = IF cred = ufrag /\ oldUfrag # None
                         THEN listenerUfrags \ {oldUfrag} ELSE listenerUfrags

RejectRoleConflict(cred) ==
    /\ lifecycle = "alive"
    /\ Authenticate(cred)
    /\ Reply("487", None, cred)
    /\ UNCHANGED <<iceState, tuples, selectedTuple, remoteNomination, listenerTuples, lifecycle>>

\* Mutant: the response always uses the current password.
ResponseKey_Current == ufrag

ResponseKey == IF oldUfrag' = None THEN ufrag ELSE oldUfrag'

ProcessStunPacket(t, cred, useCandidate, nomination) ==
    /\ lifecycle = "alive"
    /\ Authenticate(cred)
    /\ Reply("200", ResponseKey, cred)
    /\ HandleTuple(t, useCandidate, nomination)

(***************************************************************************)
(* RemoveTuple, called when the tuple's TCP connection closed.             *)
(***************************************************************************)
\* Mutant: losing the last tuple does not disconnect.
RemoveTuple_KeepState(t) ==
    /\ lifecycle = "alive"
    /\ t \in Stored
    /\ tuples' = RemoveIndex(tuples, IndexOf(tuples, t))
    /\ listenerTuples' = listenerTuples \ {t}
    /\ selectedTuple' = CASE t # selectedTuple -> selectedTuple
                          [] t = selectedTuple /\ tuples' # <<>> -> tuples'[1]
                          [] OTHER -> None
    /\ UNCHANGED <<iceState, remoteNomination, ufrag, oldUfrag, listenerUfrags, response,
                   lifecycle>>

RemoveTuple(t) ==
    /\ lifecycle = "alive"
    /\ t \in Stored
    /\ tuples' = RemoveIndex(tuples, IndexOf(tuples, t))
    /\ listenerTuples' = listenerTuples \ {t}
    /\ selectedTuple' = CASE t # selectedTuple -> selectedTuple
                          [] t = selectedTuple /\ tuples' # <<>> -> tuples'[1]
                          [] OTHER -> None
    /\ iceState' = IF t = selectedTuple /\ tuples' = <<>> THEN "disconnected" ELSE iceState
    /\ UNCHANGED <<remoteNomination, ufrag, oldUfrag, listenerUfrags, response, lifecycle>>

(***************************************************************************)
(* ForceSelectedTuple, called for DTLS and SRTP data from a valid tuple.   *)
(***************************************************************************)
ForceSelectedTuple(t) ==
    /\ lifecycle = "alive"
    /\ HasTuple(t)
    /\ selectedTuple' = t
    /\ UNCHANGED <<iceState, tuples, remoteNomination, ufrag, oldUfrag,
                   listenerTuples, listenerUfrags, response, lifecycle>>

(***************************************************************************)
(* RestartIce: new random credentials; the previous ones stay valid until  *)
(* a request uses the new ones.                                            *)
(***************************************************************************)
RestartIce(cred) ==
    /\ lifecycle = "alive"
    /\ cred \notin listenerUfrags
    /\ ufrag' = cred
    /\ oldUfrag' = ufrag
    /\ remoteNomination' = 0
    /\ listenerUfrags' = (listenerUfrags \ {oldUfrag}) \cup {cred}
    /\ UNCHANGED <<iceState, tuples, selectedTuple, listenerTuples, response, lifecycle>>

(***************************************************************************)
(* Destructor: withdraws every username fragment and tuple.                *)
(***************************************************************************)
Destroy ==
    /\ lifecycle = "alive"
    /\ lifecycle' = "destroyed"
    /\ listenerUfrags' = listenerUfrags \ {ufrag, oldUfrag}
    /\ listenerTuples' = listenerTuples \ Stored
    /\ tuples' = <<>>
    /\ selectedTuple' = None
    /\ UNCHANGED <<iceState, remoteNomination, ufrag, oldUfrag, response>>

Next ==
    \/ RejectMalformed
    \/ \E cred \in Credentials : RejectUnauthorized(cred)
    \/ \E cred \in Credentials : RejectRoleConflict(cred)
    \/ \E t \in Tuples, cred \in Credentials, useCandidate \in BOOLEAN,
          nomination \in Nominations \cup {None} :
          ProcessStunPacket(t, cred, useCandidate, nomination)
    \/ \E t \in Tuples : RemoveTuple(t)
    \/ \E t \in Tuples : ForceSelectedTuple(t)
    \/ \E cred \in Credentials : RestartIce(cred)
    \/ Destroy

Spec == Init /\ [][Next]_vars
-----------------------------------------------------------------------------
\* The fields keep the ranges IceServer.hpp declares for them.
TypeOK ==
    /\ iceState \in IceStates
    /\ tuples \in Seq(Tuples)
    /\ selectedTuple \in Tuples \cup {None}
    /\ remoteNomination \in Nat
    /\ ufrag \in Credentials
    /\ oldUfrag \in Credentials \cup {None}
    /\ listenerTuples \subseteq Tuples
    /\ listenerUfrags \subseteq Credentials
    /\ response \in Responses
    /\ lifecycle \in {"alive", "destroyed", "aborted"}

\* The selected tuple is always one of the stored ones, so the pointer never
\* outlives the list node; it is set exactly when the agent reports
\* connectivity (HandleTuple, RemoveTuple, AddTuple's eviction).
SelectedIsStored ==
    lifecycle # "destroyed" =>
        /\ selectedTuple # None => selectedTuple \in Stored
        /\ selectedTuple # None <=> iceState \in Connectivity

\* AddTuple never leaves more than MaxTuples tuples, and no tuple twice:
\* every tuple that can still be found by RemoveTuple is removed whole.
TuplesBounded ==
    /\ Len(tuples) <= MaxTuples
    /\ \A i, j \in DOMAIN tuples : tuples[i] = tuples[j] => i = j

\* What the listener was told equals what the agent holds, through evictions,
\* restarts, credential retirement and destruction: WebRtcServer's lookup maps
\* never route to a tuple or fragment the agent no longer has.
ListenerMirrors ==
    /\ listenerTuples = Stored
    /\ listenerUfrags = IF lifecycle = "destroyed" THEN {} ELSE {ufrag, oldUfrag} \ {None}

\* A success response is authenticated with the password of the credentials
\* its request used, across any number of ICE restarts (oldPassword rule).
ResponseUsesRequestKey == response.code = "200" => response.key = response.cred

\* The MS_ASSERTs of HandleTuple hold: a state without connectivity has no
\* stored tuple ("There should be no tuples.").
NoAssertFails == lifecycle # "aborted"

\* Only an ICE restart lowers remoteNomination: a late, lower NOMINATION never
\* steals the selection (HandleTuple's comparison with remoteNomination).
NominationOnlyGrows == [][remoteNomination' < remoteNomination => ufrag' # ufrag]_vars

Agent == INSTANCE IceAgent WITH
    selected <- selectedTuple # None, alive <- lifecycle # "destroyed"

\* Through nominations, removals, forced selections, restarts and evictions the
\* server moves its state, and has a selected tuple, only as the agent that
\* WebRtcTransport relies on does.
ImplementsAgent == Agent!AgentSpec

\* What can be reached through the agent is what it has: the selected tuple is stored
\* exactly while there is connectivity, the list is bounded and WebRtcServer's lookup
\* maps mirror it, through evictions, restarts and destruction.  (IceServer.cpp.)
TuplesExact == SelectedIsStored /\ TuplesBounded /\ ListenerMirrors

\* The selection moves as that of an agent, and no late nomination takes it back.
\* (HandleTuple(), RemoveTuple(), RestartIce().)
SelectionIsAgents == ImplementsAgent /\ NominationOnlyGrows
=============================================================================
