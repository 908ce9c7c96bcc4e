--------------------------- MODULE WebRtcTransport ---------------------------
(***************************************************************************)
(* A WebRtcTransport: its ICE agent, its DTLS transport and the Consumers  *)
(* that are told when the whole is connected.                              *)
(*                                                                         *)
(* ICE, the peer's DTLS messages, the DTLS timer and the application's     *)
(* connect() come in any order.  Before connect() the local DTLS role is   *)
(* "auto": it becomes "server" when ICE connects, so a handshake may run,  *)
(* and even end, before the fingerprint to check it with and the role to   *)
(* run it in are known.                                                    *)
(*                                                                         *)
(* OpenSSL is external: what a received record or an expired timeout makes *)
(* of the handshake is a choice.  A certificate is "good" if it has the    *)
(* fingerprint given to connect() and negotiated an SRTP suite.  libsrtp   *)
(* is taken to accept the keys, and OpenSSL not to fail while it writes    *)
(* from within the connected callback.                                     *)
(***************************************************************************)
EXTENDS FiniteSets

CONSTANTS
    Consumers,
    RemoteRoles     \* roles the peer may announce: among "auto", "client", "server"

ASSUME RolesAssumption == RemoteRoles \subseteq {"auto", "client", "server"}

VARIABLES
    iceState, selected, alive,  \* the ICE agent
    dtlsRole,       \* WebRtcTransport::dtlsRole
    remoteRole,     \* the role given to connect(), "none" before it
    dtls,           \* DtlsTransport: [localRole, state, handshakeDone, timer, cert]
    consumers,      \* mapConsumers
    told,           \* Consumers whose transportConnected is set
    rtcpTimer       \* Transport::rtcpTimer is running

iceVars == <<iceState, selected, alive>>
parentVars == <<consumers, told, rtcpTimer>>
vars == <<iceVars, dtlsRole, remoteRole, dtls, parentVars>>

Ice == INSTANCE IceAgent

connectCalled == remoteRole # "none"

Up(state) == state \in Ice!Connectivity

IsConnected == Up(iceState) /\ dtls.state = "connected"

Init ==
    /\ Ice!AgentInit
    /\ dtlsRole = "auto"
    /\ remoteRole = "none"
    /\ dtls = [localRole |-> "none", state |-> "new", handshakeDone |-> FALSE,
               timer |-> FALSE, cert |-> "none"]
    /\ consumers = {} /\ told = {} /\ rtcpTimer = FALSE

-----------------------------------------------------------------------------
(* The parent Transport *)

Connected == told' = consumers /\ rtcpTimer' = TRUE

Disconnected == told' = {} /\ rtcpTimer' = FALSE

Untold == UNCHANGED <<told, rtcpTimer>>

\* A new Consumer is told at once if the transport is connected.
Consume(c) ==
    /\ alive /\ c \notin consumers
    /\ consumers' = consumers \cup {c}
    /\ told' = IF IsConnected THEN told \cup {c} ELSE told
    /\ UNCHANGED <<iceVars, dtlsRole, remoteRole, dtls, rtcpTimer>>

CloseConsumer(c) ==
    /\ alive /\ c \in consumers
    /\ consumers' = consumers \ {c}
    /\ told' = told \ {c}
    /\ UNCHANGED <<iceVars, dtlsRole, remoteRole, dtls, rtcpTimer>>

-----------------------------------------------------------------------------
(* DtlsTransport *)

IsRunning(d) == d.state \in {"connecting", "connected"}

Reset(d) ==
    IF IsRunning(d)
    THEN [localRole |-> "none", state |-> "new", handshakeDone |-> FALSE,
          timer |-> FALSE, cert |-> "none"]
    ELSE d

Fail(d) == [Reset(d) EXCEPT !.state = "failed"]

\* Run(): a running DTLS transport is reset first.  Only a client has sent
\* something to retransmit.
Run(d, role) ==
    IF d.localRole = role THEN d
    ELSE [(IF d.localRole = "none" THEN d ELSE Reset(d)) EXCEPT
             !.localRole = role, !.state = "connecting", !.timer = (role = "client")]

\* ProcessHandshake(): the peer's certificate against the fingerprint.
ProcessHandshake(d) ==
    IF d.cert = "good" THEN [d EXCEPT !.state = "connected"] ELSE Fail(d)

\* Mutant: a handshake that is done is not processed.
SetRemoteFingerprint_Store(d) == d

\* Mutant: a handshake that is done is taken for verified.
SetRemoteFingerprint_Trust(d) ==
    IF d.handshakeDone THEN [d EXCEPT !.state = "connected"] ELSE d

\* SetRemoteFingerprint(): if the handshake is done already it is processed now.
SetRemoteFingerprint(d) ==
    IF d.handshakeDone /\ d.state # "connected" THEN ProcessHandshake(d) ELSE d

\* WebRtcTransport::MayRunDtlsTransport() with the ICE state given.
MayRun(d, role, ice) ==
    IF d.localRole = role \/ ~Up(ice) THEN d
    ELSE Run(d, IF role = "auto" THEN "server" ELSE role)

RoleOnceUp(role, ice) == IF role = "auto" /\ Up(ice) THEN "server" ELSE role

-----------------------------------------------------------------------------
(* ICE events *)

\* Mutant: the parent is not told again that the transport is connected.
IceUp_NotTold ==
    /\ Ice!Connect \/ Ice!Complete
    /\ dtls' = MayRun(dtls, dtlsRole, iceState')
    /\ dtlsRole' = RoleOnceUp(dtlsRole, iceState')
    /\ UNCHANGED <<remoteRole, consumers, told, rtcpTimer>>

\* OnIceServerConnected() and OnIceServerCompleted(): run DTLS if ready, and tell
\* the parent if DTLS is connected.
IceUp ==
    /\ Ice!Connect \/ Ice!Complete
    /\ dtls' = MayRun(dtls, dtlsRole, iceState')
    /\ dtlsRole' = RoleOnceUp(dtlsRole, iceState')
    /\ IF dtls'.state = "connected" THEN Connected ELSE Untold
    /\ UNCHANGED <<remoteRole, consumers>>

\* OnIceServerDisconnected().
IceDown ==
    /\ Ice!Disconnect
    /\ IF dtls.state = "connected" THEN Disconnected ELSE Untold
    /\ UNCHANGED <<dtlsRole, remoteRole, dtls, consumers>>

-----------------------------------------------------------------------------
(* The application *)

LocalRole(r) == IF r = "client" THEN "server" ELSE "client"

\* connect(): take the role, then the fingerprint, which may end a handshake
\* here and now, and run DTLS if that did not fail.
TransportConnect(r) ==
    LET set == SetRemoteFingerprint(dtls) IN
    /\ alive /\ ~connectCalled
    /\ remoteRole' = r
    /\ dtlsRole' = LocalRole(r)
    /\ dtls' = IF set.state = "failed" /\ dtls.state # "failed" THEN set
               ELSE MayRun(set, LocalRole(r), iceState)
    /\ IF set.state = "connected" THEN Connected ELSE Untold
    /\ UNCHANGED <<iceVars, consumers>>

-----------------------------------------------------------------------------
(* Records from the peer: only from a known tuple, so with connectivity, and *)
(* only while DTLS is running.                                               *)

Receiving == alive /\ Up(iceState) /\ IsRunning(dtls)

\* The handshake goes on; a flight of ours may be waiting for its answer.
HandshakeGoesOn ==
    /\ Receiving /\ ~dtls.handshakeDone
    /\ dtls' = [dtls EXCEPT !.timer = TRUE]
    /\ UNCHANGED <<iceVars, dtlsRole, remoteRole, parentVars>>

\* The handshake is done: the timer stops, and if connect() was called the
\* certificate is checked.
HandshakeDone(cert) ==
    LET done == [dtls EXCEPT !.handshakeDone = TRUE, !.timer = FALSE, !.cert = cert]
    IN  /\ Receiving /\ ~dtls.handshakeDone
        /\ dtls' = IF connectCalled THEN ProcessHandshake(done) ELSE done
        /\ IF dtls'.state = "connected" THEN Connected ELSE Untold
        /\ UNCHANGED <<iceVars, dtlsRole, remoteRole, consumers>>

\* A close alert or a fatal error, in what was received or, once connected, from
\* SSL_write() in SendApplicationData().
ShutDown ==
    /\ Receiving
    /\ dtls' = [Reset(dtls) EXCEPT !.state = IF dtls.state = "connected"
                                             THEN "closed" ELSE "failed"]
    /\ IF dtls.state = "connected" THEN Disconnected ELSE Untold
    /\ UNCHANGED <<iceVars, dtlsRole, remoteRole, consumers>>

\* OnTimer(): OpenSSL retransmits and the timer is set again, or it has nothing
\* to do, or the next timeout is too long, or it gives up.
OnTimer ==
    /\ alive /\ dtls.timer
    /\ \/ \E again \in BOOLEAN : dtls' = [dtls EXCEPT !.timer = again]
       \/ dtls' = Fail(dtls)
    /\ UNCHANGED <<iceVars, dtlsRole, remoteRole, parentVars>>

\* The destructors of WebRtcTransport and Transport.
Destroy ==
    /\ Ice!Destroyed
    /\ dtls' = Reset(dtls)
    /\ consumers' = {} /\ Disconnected
    /\ UNCHANGED <<dtlsRole, remoteRole>>

Next ==
    \/ \E c \in Consumers : Consume(c) \/ CloseConsumer(c)
    \/ IceUp \/ IceDown
    \/ \E r \in RemoteRoles : TransportConnect(r)
    \/ HandshakeGoesOn
    \/ \E cert \in {"good", "bad"} : HandshakeDone(cert)
    \/ ShutDown
    \/ OnTimer
    \/ Destroy

\* A peer that keeps answering ends its handshake.
Fairness == WF_vars(\E cert \in {"good", "bad"} : HandshakeDone(cert))

Spec == Init /\ [][Next]_vars /\ Fairness
-----------------------------------------------------------------------------
\* A stopped DTLS transport has no timer, role or handshake left of its last run.
TypeOK ==
    /\ iceState \in {"new", "connected", "completed", "disconnected"}
    /\ selected \in BOOLEAN /\ alive \in BOOLEAN /\ rtcpTimer \in BOOLEAN
    /\ dtlsRole \in {"auto", "client", "server"}
    /\ remoteRole \in RemoteRoles \cup {"none"}
    /\ dtls \in [localRole : {"none", "client", "server"},
                 state : {"new", "connecting", "connected", "closed", "failed"},
                 handshakeDone : BOOLEAN, timer : BOOLEAN, cert : {"none", "good", "bad"}]
    /\ consumers \subseteq Consumers /\ told \subseteq consumers
    /\ IsRunning(dtls) \/ (~dtls.timer /\ ~dtls.handshakeDone /\ dtls.localRole = "none")

\* DTLS is connected only over a certificate that the fingerprint given to
\* connect() matches, even if the handshake ended before connect().
ConnectedIsVerified ==
    dtls.state = "connected" => connectCalled /\ dtls.handshakeDone /\ dtls.cert = "good"

\* Whenever ICE and DTLS are both connected every Consumer knows it and RTCP is
\* running, in whatever order the two connected, lost connection or came back.
NoConsumerLeftBehind == IsConnected => told = consumers /\ rtcpTimer

\* No Consumer believes in a connection once DTLS was closed after connecting,
\* whatever ICE does then.
NobodyToldWhenClosed == dtls.state = "closed" => told = {} /\ ~rtcpTimer

\* After connect() DTLS runs in the role agreed on, as soon as there is
\* connectivity, though it may have been running in another role before.
RunsInAgreedRole ==
    connectCalled /\ Up(iceState) /\ IsRunning(dtls) => dtls.localRole = dtlsRole

\* With connectivity that lasts, a transport that was told to connect does not
\* stay "connecting": a handshake that ended before connect() is not forgotten.
HandshakeResolves ==
    <>[](connectCalled /\ Up(iceState) /\ alive) =>
        <>(dtls.state \in {"connected", "failed", "closed"})

\* DTLS runs in the role that connect() settled and is connected only over a certificate
\* that its fingerprint matches, and after it was closed nobody believes in it.
\* (WebRtcTransport.cpp MayRunDtlsTransport(), DtlsTransport.cpp ProcessHandshake().)
ConnectsAsAgreed == ConnectedIsVerified /\ RunsInAgreedRole /\ NobodyToldWhenClosed
=============================================================================
