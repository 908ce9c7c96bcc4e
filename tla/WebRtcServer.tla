---------------------------- MODULE WebRtcServer ----------------------------
(***************************************************************************)
(* A WebRtcServer and the WebRtcTransports that share its sockets.  Its    *)
(* two tables say which transport a packet is for: first the tuple it came *)
(* from is looked up, then the username fragment of a STUN request.  The   *)
(* IceServer of each transport keeps the tables up to date, while TCP      *)
(* connections come and go, ICE restarts and transports and the server     *)
(* are closed.                                                             *)
(*                                                                         *)
(* A tuple is a remote address and the socket it was seen on; tuples are   *)
(* compared by a hash of protocol and remote address only.  Module         *)
(* IceServer has the rules by which tuples are selected; here a peer that  *)
(* sends no NOMINATION attribute selects as it likes.                      *)
(***************************************************************************)
EXTENDS Integers, Sequences

CONSTANTS
    Served,         \* the WebRtcTransports
    Ufrags,         \* random username fragments, never used twice at a time
    RemoteTuples,   \* [peer, local] records
    TcpPeers,       \* the peers that use TCP
    MaxStored,      \* IceServer's MaxTuples
    Nobody

ASSUME ServerAssumption ==
    MaxStored \in Nat /\ MaxStored >= 2 /\ Nobody \notin Ufrags \cup RemoteTuples

VARIABLES
    server,             \* "open", "closed", or "crashed"
    webRtcTransports,   \* WebRtcServer::webRtcTransports
    ufragMap,           \* mapLocalIceUsernameFragmentWebRtcTransport
    tupleMap,           \* mapTupleWebRtcTransport, by peer
    status,             \* of a WebRtcTransport: "none", "alive", "failed", "closed"
    ice,                \* its IceServer: [ufrag, oldUfrag, tuples, selected]
    conns,              \* the TCP connections: "none", "open", or "closed" by us
    aborted,            \* an MS_ASSERT failed
    dangling            \* history: the kinds of deleted objects that were used

serverVars == <<server, webRtcTransports, ufragMap, tupleMap, status, ice, conns, aborted,
                dangling>>

NoIce == [ufrag |-> Nobody, oldUfrag |-> Nobody, tuples |-> << >>, selected |-> Nobody]

IsTcp(t) == t.peer \in TcpPeers

Without(f, S) == [x \in DOMAIN f \ S |-> f[x]]

Put(f, x, y) == [z \in DOMAIN f \cup {x} |-> IF z = x THEN y ELSE f[z]]

Alive == {w \in Served : status[w] = "alive"}

ServerInit ==
    /\ server = "open"
    /\ webRtcTransports = {} /\ ufragMap = << >> /\ tupleMap = << >>
    /\ status = [w \in Served |-> "none"]
    /\ ice = [w \in Served |-> NoIce]
    /\ conns = [t \in {x \in RemoteTuples : IsTcp(x)} |-> "none"]
    /\ aborted = FALSE /\ dangling = {}

-----------------------------------------------------------------------------
(* The tables.                                                             *)

\* OnWebRtcTransportLocalIceUsernameFragmentAdded() and Removed(), which assert
\* that the fragment is not, or is, in the table.
AddUfrag(w, f) ==
    /\ ufragMap' = Put(ufragMap, f, w)
    /\ aborted' = (f \in DOMAIN ufragMap)

RemoveUfrags(fs) ==
    /\ ufragMap' = Without(ufragMap, fs)
    /\ aborted' = ~(fs \subseteq DOMAIN ufragMap)

\* OnWebRtcTransportTransportTupleAdded(): the first transport keeps the tuple.
WithTuple(map, w, t) == IF t.peer \in DOMAIN map THEN map ELSE Put(map, t.peer, w)

\* OnIceServerTupleRemoved() for tuples ts: they leave the table and their TCP
\* connections are closed.
Peers(ts) == {t.peer : t \in ts}

ClosedBy(cs, ts) == [t \in DOMAIN cs |-> IF t \in ts /\ cs[t] = "open" THEN "closed" ELSE cs[t]]

-----------------------------------------------------------------------------
(* IceServer, as far as it moves the tables.                               *)

Listed(i) == {i.tuples[k] : k \in DOMAIN i.tuples}

\* The stored tuples that compare equal to t, at most one.
Same(i, t) == {s \in Listed(i) : s.peer = t.peer}

Erase(s, k) == [j \in 1 .. (Len(s) - 1) |-> IF j < k THEN s[j] ELSE s[j + 1]]

\* AddTuple(): over the cap, the oldest tuple that is neither new nor selected goes.
OldestOf(i) ==
    CHOOSE k \in DOMAIN i.tuples :
        /\ i.tuples[k] # i.selected
        /\ \A j \in DOMAIN i.tuples : i.tuples[j] # i.selected => j <= k

Evicted(i) == IF Len(i.tuples) >= MaxStored THEN {i.tuples[OldestOf(i)]} ELSE {}

Pushed(i, t) ==
    <<t>> \o (IF Len(i.tuples) >= MaxStored THEN Erase(i.tuples, OldestOf(i)) ELSE i.tuples)

\* A request authenticated with fragment f retires the old one if f is the new.
Retired(i, f) == IF f = i.ufrag THEN [i EXCEPT !.oldUfrag = Nobody] ELSE i

\* HandleTuple(): the first tuple is selected, a later one may be.
SelectTupleOf(w, i, t) ==
    LET known == i.selected # Nobody /\ Same(i, t) # {}
        gone == IF known THEN {} ELSE Evicted(i)
        stored == IF known THEN CHOOSE s \in Same(i, t) : TRUE ELSE t
    IN  /\ \E s \in IF i.selected = Nobody THEN {stored} ELSE {i.selected, stored} :
              ice' = [ice EXCEPT ![w] =
                        [i EXCEPT !.selected = s, !.tuples = IF known THEN @ ELSE Pushed(i, t)]]
        /\ tupleMap' = IF known THEN tupleMap
                       ELSE Without(WithTuple(tupleMap, w, t), Peers(gone))
        /\ conns' = ClosedBy(conns, gone)

\* RemoveTuple(): the stored tuple that compares equal goes, and the newest of the
\* others is selected if it was.
Removed(i, t) ==
    LET k == CHOOSE j \in DOMAIN i.tuples : i.tuples[j].peer = t.peer
        left == Erase(i.tuples, k)
    IN  IF Same(i, t) = {} THEN i
        ELSE [i EXCEPT !.tuples = left,
                       !.selected = IF @ \notin Same(i, t) THEN @
                                    ELSE IF left = << >> THEN Nobody ELSE left[1]]

-----------------------------------------------------------------------------
(* Packets and connections.                                                *)

Running == server = "open" /\ ~aborted

CanReceive(t) == IsTcp(t) => conns[t] = "open"

\* Mutant: the user name is looked up before the tuple.
Target_UfragFirst(t, f) ==
    IF f \in DOMAIN ufragMap THEN {ufragMap[f]}
    ELSE IF t.peer \in DOMAIN tupleMap THEN {tupleMap[t.peer]} ELSE {}

\* The transport a STUN request is for.
Target(t, f) ==
    IF t.peer \in DOMAIN tupleMap THEN {tupleMap[t.peer]}
    ELSE IF f \in DOMAIN ufragMap THEN {ufragMap[f]} ELSE {}

\* A request with the right credentials is handled, or refused for its ICE role.
\* Others are answered with an error or ignored.
OnStunDataReceived(t, f) ==
    /\ Running /\ CanReceive(t)
    /\ \E w \in Target(t, f) :
          /\ f \in {ice[w].ufrag, ice[w].oldUfrag}
          /\ \/ SelectTupleOf(w, Retired(ice[w], f), t)
             \/ /\ ice' = [ice EXCEPT ![w] = Retired(@, f)]
                /\ UNCHANGED <<tupleMap, conns>>
          /\ IF f = ice[w].ufrag /\ ice[w].oldUfrag # Nobody
             THEN RemoveUfrags({ice[w].oldUfrag})
             ELSE UNCHANGED <<ufragMap, aborted>>
    /\ UNCHANGED <<server, webRtcTransports, status, dangling>>

\* DTLS and SRTP data select the tuple they come from, if it is a valid one.
OnNonStunDataReceived(t) ==
    /\ Running /\ CanReceive(t)
    /\ t.peer \in DOMAIN tupleMap
    /\ LET w == tupleMap[t.peer] IN
       \E s \in Same(ice[w], t) :
          /\ ice[w].selected # Nobody
          /\ ice' = [ice EXCEPT ![w].selected = s]
    /\ UNCHANGED <<server, webRtcTransports, ufragMap, tupleMap, status, conns, aborted, dangling>>

AcceptTcpConnection(t) ==
    /\ Running
    /\ IsTcp(t) /\ conns[t] # "open"
    /\ conns' = [conns EXCEPT ![t] = "open"]
    /\ UNCHANGED <<server, webRtcTransports, ufragMap, tupleMap, status, ice, aborted, dangling>>

\* The peer closes a connection or an error ends it; it is deleted.
OnTcpConnectionClosed(t) ==
    /\ Running
    /\ IsTcp(t) /\ conns[t] = "open"
    /\ LET rest == [conns EXCEPT ![t] = "none"] IN
       IF t.peer \in DOMAIN tupleMap
       THEN LET w == tupleMap[t.peer] IN
            /\ ice' = [ice EXCEPT ![w] = Removed(@, t)]
            /\ tupleMap' = Without(tupleMap, Peers(Same(ice[w], t)))
            /\ conns' = ClosedBy(rest, Same(ice[w], t))
       ELSE conns' = rest /\ UNCHANGED <<ice, tupleMap>>
    /\ UNCHANGED <<server, webRtcTransports, ufragMap, status, aborted, dangling>>

-----------------------------------------------------------------------------
(* Transports and the server.                                              *)

FreshUfrag(f) == \A w \in Served : f \notin {ice[w].ufrag, ice[w].oldUfrag}

\* The constructor of the WebRtcTransport.  When RegisterHandler() throws, the
\* IceServer is deleted again, but the server keeps its pointer.
CreateTransport(w, f) ==
    /\ Running /\ status[w] = "none"
    /\ FreshUfrag(f)
    /\ webRtcTransports' = webRtcTransports \cup {w}
    /\ \/ /\ status' = [status EXCEPT ![w] = "alive"]
          /\ ice' = [ice EXCEPT ![w].ufrag = f]
          /\ AddUfrag(w, f)
       \/ /\ status' = [status EXCEPT ![w] = "failed"]
          /\ UNCHANGED <<ice, ufragMap, aborted>>
    /\ UNCHANGED <<server, tupleMap, conns, dangling>>

RestartIceOf(w, f) ==
    /\ Running /\ w \in Alive /\ FreshUfrag(f)
    /\ ice' = [ice EXCEPT ![w].ufrag = f, ![w].oldUfrag = ice[w].ufrag]
    /\ ufragMap' = Put(Without(ufragMap, {ice[w].oldUfrag}), f, w)
    /\ aborted' = ~({ice[w].oldUfrag} \ {Nobody} \subseteq DOMAIN ufragMap \ {f})
    /\ UNCHANGED <<server, webRtcTransports, tupleMap, status, conns, dangling>>

UfragsOf(ws) == (UNION {{ice[w].ufrag, ice[w].oldUfrag} : w \in ws}) \ {Nobody}

TuplesOf(ws) == UNION {Listed(ice[w]) : w \in ws}

\* The destructors of the transports ws, each with its IceServer.
DestroyTransports(ws) ==
    /\ status' = [w \in Served |-> IF w \in ws THEN "closed" ELSE status[w]]
    /\ ice' = [w \in Served |-> IF w \in ws THEN NoIce ELSE ice[w]]
    /\ RemoveUfrags(UfragsOf(ws))
    /\ tupleMap' = Without(tupleMap, Peers(TuplesOf(ws)))
    /\ webRtcTransports' = webRtcTransports \ ws

CloseTransport(w) ==
    /\ Running /\ w \in Alive
    /\ DestroyTransports({w})
    /\ conns' = ClosedBy(conns, TuplesOf({w}))
    /\ UNCHANGED <<server, dangling>>

\* ~WebRtcServer(): the sockets and their connections are deleted first, then each
\* transport is closed.  That one uses a deleted socket when DTLS runs and sends its
\* alert through the selected tuple, and a deleted connection when it asks whether a
\* TCP tuple is closed; a transport whose constructor threw is itself deleted.  The
\* worker may then crash.  (Each transport leaves the set that is iterated over,
\* which the iterator of a flat_hash_set survives.)
UsedAfterDelete(dtls) ==
    {k \in {"transport", "connection", "socket"} :
        CASE k = "transport"  -> webRtcTransports # Alive
          [] k = "connection" -> \E t \in TuplesOf(Alive) : IsTcp(t)
          [] k = "socket"     -> \E w \in dtls : ice[w].selected # Nobody}

CloseServer ==
    /\ Running
    /\ DestroyTransports(Alive)
    /\ conns' = [t \in DOMAIN conns |-> "none"]
    /\ \E dtls \in SUBSET Alive : dangling' = UsedAfterDelete(dtls)
    /\ server' \in IF dangling' # {} THEN {"closed", "crashed"} ELSE {"closed"}

ServerNext ==
    \/ \E t \in RemoteTuples, f \in Ufrags : OnStunDataReceived(t, f)
    \/ \E t \in RemoteTuples :
          OnNonStunDataReceived(t) \/ AcceptTcpConnection(t) \/ OnTcpConnectionClosed(t)
    \/ \E w \in Served, f \in Ufrags : CreateTransport(w, f) \/ RestartIceOf(w, f)
    \/ \E w \in Served : CloseTransport(w)
    \/ CloseServer

ServerSpec == ServerInit /\ [][ServerNext]_serverVars

-----------------------------------------------------------------------------
(* Properties.                                                             *)

\* A transport stores no two tuples that compare equal, no more than MaxStored, and
\* has one of them selected if it has any.
ServerTypeOK ==
    /\ \A w \in Served :
          LET i == ice[w] IN
          /\ {i.ufrag, i.oldUfrag} \subseteq Ufrags \cup {Nobody}
          /\ Len(i.tuples) <= MaxStored
          /\ \A j, k \in DOMAIN i.tuples : i.tuples[j].peer = i.tuples[k].peer => j = k
          /\ IF i.tuples = << >> THEN i.selected = Nobody ELSE i.selected \in Listed(i)
    /\ server \in {"open", "closed", "crashed"}

\* The tables say what the transports have: no packet is given to a transport that
\* was closed, and none that is for a live one gets lost, through evictions,
\* restarts, retired fragments, lost connections and closures.
TablesExact ==
    /\ tupleMap = [p \in Peers(TuplesOf(Alive)) |->
                     CHOOSE w \in Alive : p \in Peers(Listed(ice[w]))]
    /\ ufragMap = [f \in UfragsOf(Alive) |->
                     CHOOSE w \in Alive : f \in {ice[w].ufrag, ice[w].oldUfrag}]
    /\ \A v, w \in Alive : v # w =>
          Peers(Listed(ice[v])) \cap Peers(Listed(ice[w])) = {}

\* The server knows every live transport, which it has to close with it, and no
\* other, save one whose constructor threw.
TransportsKnown ==
    server = "open" =>
        webRtcTransports = Alive \cup {w \in Served : status[w] = "failed"}

\* A transport stores a TCP tuple only while its connection is open, so that it
\* never sends through one that is gone, whoever closed it.
StoredAreOpen ==
    server = "open" => \A t \in TuplesOf(Alive) : IsTcp(t) => conns[t] = "open"

\* The assertions about the table of username fragments hold.
ServerAssertsHold == ~aborted

\* The server's tables agree with its transports and their connections, and its
\* assertions hold.  (WebRtcServer.cpp.)
RoutingExact ==
    ServerTypeOK /\ TablesExact /\ TransportsKnown /\ StoredAreOpen /\ ServerAssertsHold

\* ~WebRtcTransport() deletes the DTLS transport first "since it will generate a DTLS
\* alert to be sent": the socket it is sent through is still there, also when the
\* transport is closed along with its WebRtcServer.
AlertHasSocket == "socket" \notin dangling
=============================================================================
