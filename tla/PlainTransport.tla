--------------------------- MODULE PlainTransport ---------------------------
(***************************************************************************)
(* The transports over plain UDP, PlainTransport and PipeTransport: how    *)
(* they learn their peer's address and keys, which packets they take, and  *)
(* how a packet and its send callback pass through the UDP socket back to  *)
(* the congestion controller.  The state is the record `net'.              *)
(*                                                                         *)
(* A tuple is a local socket and a remote address, or <<>>.  Keys count    *)
(* how often the local SRTP key was made anew.                             *)
(***************************************************************************)
EXTENDS Integers, Sequences, FiniteSets

CONSTANTS
    Modes,          \* [pipe, mux, comedia, srtp |-> BOOLEAN] of the transport
    Addresses,      \* remote addresses
    Suites,         \* SRTP crypto suites
    NetEvents       \* (bound)

\* A pipe transport multiplexes RTCP and is told its peer.
ASSUME ModesAssumption ==
    /\ Modes \subseteq [pipe : BOOLEAN, mux : BOOLEAN, comedia : BOOLEAN, srtp : BOOLEAN]
    /\ \A mode \in Modes : mode.pipe => mode.mux /\ ~mode.comedia

VARIABLE net

Nothing == <<>>

\* What a connect request may carry.
Srtps == {Nothing} \cup [suite : Suites \cup {"unknown"}, key : {"good", "bad"}]
Remotes == {Nothing} \cup [addr : Addresses, rtcp : BOOLEAN]

NetInit ==
    \E mode \in Modes, suite \in Suites :
        net = [mode |-> mode, suite |-> suite, key |-> 0, connectCalled |-> FALSE,
               tuple |-> Nothing, rtcpTuple |-> Nothing, send |-> Nothing, recv |-> Nothing,
               parent |-> FALSE,
               node |-> [tuple |-> Nothing, rtcpTuple |-> Nothing, key |-> 0, suite |-> suite],
               passed |-> Nothing, out |-> Nothing, broken |-> FALSE, closed |-> FALSE,
               wide |-> 0, queue |-> <<>>, answered |-> {}, reported |-> {}, twice |-> FALSE,
               events |-> 0]

Begin == [net EXCEPT !.events = @ + 1, !.passed = Nothing, !.out = Nothing]

PlainIsConnected(b) == b.tuple # Nothing
IsSrtpReady(b) == b.mode.srtp /\ b.send # Nothing /\ b.recv # Nothing

-----------------------------------------------------------------------------
(* connect() *)

Failed(b) == [b EXCEPT !.tuple = Nothing, !.rtcpTuple = Nothing, !.send = Nothing, !.recv = Nothing]

\* The suite is the remote side's; a new suite takes a new key, kept even if the rest of
\* the request fails.
TakeSuite(b, suite) ==
    IF suite = b.suite THEN b ELSE [b EXCEPT !.suite = suite, !.key = @ + 1]

CreateSessions(b) ==
    [b EXCEPT !.send = [suite |-> b.suite, key |-> b.key], !.recv = [suite |-> b.suite]]

ConnectSrtp(b, srtp) ==
    IF srtp = Nothing THEN [ok |-> ~b.mode.srtp, b |-> b]
    ELSE IF ~b.mode.srtp \/ srtp.suite \notin Suites THEN [ok |-> FALSE, b |-> b]
    ELSE LET c == TakeSuite(b, srtp.suite)
         IN  IF srtp.key = "bad" THEN [ok |-> FALSE, b |-> c]
             ELSE [ok |-> TRUE, b |-> CreateSessions(c)]

\* Unless the address is to be learnt; the RTCP port is required exactly without RTCP-mux.
ConnectRemote(b, remote) ==
    IF b.mode.comedia THEN [ok |-> TRUE, b |-> b]
    ELSE IF remote = Nothing THEN [ok |-> FALSE, b |-> b]
    ELSE IF remote.rtcp = b.mode.mux THEN [ok |-> FALSE, b |-> b]
    ELSE [ok |-> TRUE,
          b |-> [b EXCEPT !.tuple = [socket |-> "rtp", addr |-> remote.addr],
                          !.rtcpTuple = IF b.mode.mux THEN @
                                        ELSE [socket |-> "rtcp", addr |-> remote.addr]]]

\* Mutant: the answer leaves out the key, which is new if the suite is.
TellNode_NoKey(b) ==
    [b EXCEPT !.node.tuple = IF PlainIsConnected(b) THEN b.tuple ELSE @,
              !.node.rtcpTuple = IF b.rtcpTuple # Nothing THEN b.rtcpTuple ELSE @,
              !.node.suite = b.suite]

TellNode(b) ==
    [b EXCEPT !.node.tuple = IF PlainIsConnected(b) THEN b.tuple ELSE @,
              !.node.rtcpTuple = IF b.rtcpTuple # Nothing THEN b.rtcpTuple ELSE @,
              !.node.key = b.key, !.node.suite = b.suite]

PlainConnect ==
    /\ ~net.mode.pipe /\ ~net.connectCalled
    /\ \E srtp \in Srtps, remote \in Remotes :
        LET s == ConnectSrtp(Begin, srtp)
            r == ConnectRemote(s.b, remote)
        IN  net' = IF ~s.ok THEN Failed(s.b)
                   ELSE IF ~r.ok THEN Failed(r.b)
                   ELSE [TellNode(r.b) EXCEPT !.connectCalled = TRUE, !.parent = TRUE]

\* A pipe transport has one suite and one socket.
PipeConnect ==
    /\ net.mode.pipe /\ ~PlainIsConnected(net)
    /\ \E srtp \in Srtps, remote \in Remotes :
        LET valid == IF srtp = Nothing THEN ~net.mode.srtp
                     ELSE net.mode.srtp /\ srtp.suite = net.suite /\ srtp.key = "good"
            b == IF net.mode.srtp THEN CreateSessions(Begin) ELSE Begin
        IN  net' = IF ~valid \/ remote = Nothing THEN Failed(Begin)
                   ELSE [TellNode([b EXCEPT !.tuple = [socket |-> "rtp", addr |-> remote.addr]])
                            EXCEPT !.parent = TRUE]

-----------------------------------------------------------------------------
(* A packet comes *)

\* The first packet tells the address (comedia).
LearnTuple(b, from) == [b EXCEPT !.tuple = from, !.node.tuple = from, !.parent = TRUE]

Pass(b, kind, from) == [b EXCEPT !.passed = [kind |-> kind, from |-> from]]

OnRtpDataReceived(b, from, intact) ==
    LET c == IF PlainIsConnected(b) THEN b ELSE LearnTuple(b, from)
    IN  IF \/ b.mode.srtp /\ ~IsSrtpReady(b)
           \/ ~intact
           \/ ~PlainIsConnected(b) /\ ~b.mode.comedia
           \/ c.tuple # from
        THEN b ELSE Pass(c, "rtp", from)

\* The address is taken from a packet that can be decrypted, before it is parsed.
OnRtcpDataReceived(b, from, decrypts, parses) ==
    LET known == IF b.mode.mux THEN b.tuple ELSE b.rtcpTuple
        c == IF known # Nothing THEN b
             ELSE IF b.mode.mux THEN LearnTuple(b, from)
             ELSE [b EXCEPT !.rtcpTuple = from, !.node.rtcpTuple = from]
    IN  IF \/ b.mode.srtp /\ ~(IsSrtpReady(b) /\ decrypts)
           \/ known = Nothing /\ ~b.mode.comedia
        THEN b
        ELSE IF known \notin {Nothing, from} \/ ~parses THEN c
        ELSE Pass(c, "rtcp", from)

OnSctpDataReceived(b, from) ==
    LET c == IF PlainIsConnected(b) \/ ~b.mode.comedia THEN b ELSE LearnTuple(b, from)
    IN  IF c.tuple # from THEN c ELSE Pass(c, "sctp", from)

OnPacketReceived(b, from) ==
    \/ \E intact \in BOOLEAN : net' = OnRtpDataReceived(b, from, intact)
    \/ \E decrypts, parses \in BOOLEAN : net' = OnRtcpDataReceived(b, from, decrypts, parses)
    \/ net' = OnSctpDataReceived(b, from)

PipeOnRtpDataReceived(b, from, intact) ==
    IF PlainIsConnected(b) /\ intact /\ b.tuple = from THEN Pass(b, "rtp", from) ELSE b

PipeOnRtcpDataReceived(b, from, intact) ==
    IF PlainIsConnected(b) /\ intact /\ b.tuple = from THEN Pass(b, "rtcp", from) ELSE b

PipeOnSctpDataReceived(b, from) ==
    IF PlainIsConnected(b) /\ b.tuple = from THEN Pass(b, "sctp", from) ELSE b

PipeOnPacketReceived(b, from) ==
    \/ \E intact \in BOOLEAN : \/ net' = PipeOnRtpDataReceived(b, from, intact)
                              \/ net' = PipeOnRtcpDataReceived(b, from, intact)
    \/ net' = PipeOnSctpDataReceived(b, from)

Receive ==
    \E socket \in (IF net.mode.mux THEN {"rtp"} ELSE {"rtp", "rtcp"}), addr \in Addresses :
        LET from == [socket |-> socket, addr |-> addr]
        IN  \/ ~net.mode.pipe /\ OnPacketReceived(Begin, from)
            \/ net.mode.pipe /\ PipeOnPacketReceived(Begin, from)

-----------------------------------------------------------------------------
(* A packet goes *)

Send(b, kind, tuple) == [b EXCEPT !.out = [kind |-> kind, to |-> tuple]]

\* The send callback runs: a packet that was sent is reported to the congestion client.
Answer(b, n, sent, info) ==
    [b EXCEPT !.answered = @ \cup {n}, !.twice = @ \/ n \in b.answered,
              !.reported = IF sent THEN @ \cup {[packet |-> n, info |-> info]} ELSE @]

\* uv_udp_try_send(): sent, truncated or refused; else the datagram waits in the queue.
UdpSend(b, n, outcome) ==
    CASE outcome = "sent" -> Answer(b, n, TRUE, n)
      [] outcome = "failed" -> Answer(b, n, FALSE, n)
      [] outcome = "queued" -> [b EXCEPT !.queue = Append(@, n)]

SendRtpPacket(b, outcome) ==
    IF ~PlainIsConnected(b) THEN Answer(b, b.wide, FALSE, b.wide)
    ELSE IF b.mode.srtp /\ b.send = Nothing THEN [b EXCEPT !.broken = TRUE]
    ELSE UdpSend(Send(b, "rtp", b.tuple), b.wide, outcome)

\* The transport numbers a packet of a consumer, one sent again and one of the probation
\* alike, with a callback that refers to its send info, a local of the call.
Numbered == [Begin EXCEPT !.wide = @ + 1]
Outcomes == {"sent", "failed", "queued"}

OnConsumerSendRtpPacket == \E outcome \in Outcomes : net' = SendRtpPacket(Numbered, outcome)
OnConsumerRetransmitRtpPacket == \E outcome \in Outcomes : net' = SendRtpPacket(Numbered, outcome)
OnProbationRtpPacket == \E outcome \in Outcomes : net' = SendRtpPacket(Numbered, outcome)

\* The datagram leaves the queue: by now the callback refers to whatever took the place
\* of the send info.
OnUvSend ==
    /\ net.queue # <<>>
    /\ \E sent \in BOOLEAN, info \in 1..net.wide :
        net' = Answer([Begin EXCEPT !.queue = Tail(@)], Head(net.queue), sent, info)

SendRtcpPacket ==
    /\ PlainIsConnected(net)
    /\ LET to == IF net.mode.mux THEN net.tuple ELSE net.rtcpTuple
       IN  net' = IF net.mode.srtp /\ net.send = Nothing THEN [Begin EXCEPT !.broken = TRUE]
                  ELSE IF to = Nothing THEN Begin ELSE Send(Begin, "rtcp", to)

SendSctpData ==
    /\ PlainIsConnected(net)
    /\ net' = Send(Begin, "sctp", net.tuple)

\* The sockets are closed: the callbacks of what waits are dropped.
Close ==
    net' = [Failed(Begin) EXCEPT !.closed = TRUE, !.queue = <<>>]

NetNext ==
    /\ net.events < NetEvents /\ ~net.closed /\ ~net.broken
    /\ \/ PlainConnect
       \/ PipeConnect
       \/ Receive
       \/ OnConsumerSendRtpPacket
       \/ OnConsumerRetransmitRtpPacket
       \/ OnProbationRtpPacket
       \/ OnUvSend
       \/ SendRtcpPacket
       \/ SendSctpData
       \/ Close

NetSpec == NetInit /\ [][NetNext]_net

-----------------------------------------------------------------------------
(* Properties *)

\* An SCTP packet may tell the address before connect() makes the SRTP sessions.
Early(b) == b.mode.srtp /\ b.mode.comedia /\ ~b.connectCalled

\* A packet is passed on only if it comes from where the transport sends to, and Node
\* knows that address by then: connect() and the comedia mode of OnPacketReceived().
PeerIsKnown ==
    LET Known(kind, tuple) ==
            IF kind = "rtcp" /\ ~net.mode.mux THEN tuple = net.node.rtcpTuple
            ELSE tuple = net.node.tuple /\ net.parent
    IN  /\ net.passed # Nothing =>
                /\ Known(net.passed.kind, net.passed.from)
                /\ net.passed.from \in {net.tuple, net.rtcpTuple}
        /\ net.out # Nothing => Known(net.out.kind, net.out.to)

\* Once the transport has a peer its SRTP sessions exist, and they use the key and the
\* suite that Node was told of, whatever connect requests failed before.
SessionsReady ==
    /\ net.mode.srtp /\ PlainIsConnected(net) /\ ~Early(net) =>
            /\ IsSrtpReady(net)
            /\ net.send = [suite |-> net.node.suite, key |-> net.node.key]
    /\ net.broken => Early(net)

\* A send callback runs once; each packet's has run or waits for the socket.
AnsweredOnce ==
    /\ ~net.twice
    /\ ~net.closed /\ ~net.broken =>
            net.answered \cup {net.queue[i] : i \in DOMAIN net.queue} = 1..net.wide

\* The transport listens and sends only to its peer, and with SRTP never in the clear;
\* what connect() answered is what is used.  The callback of a packet is called once,
\* whatever becomes of the datagram.  (PlainTransport.cpp HandleRequest(),
\* OnRtpDataReceived(), OnRtcpDataReceived(); PipeTransport.cpp likewise;
\* UdpSocketHandler.cpp Send(), OnUvSend().)
PeerAndKeysAgreed == PeerIsKnown /\ SessionsReady /\ AnsweredOnce

\* What the congestion client is told was sent is what was sent ("To avoid invalid memory
\* access we need to use weak_ptr", of OnConsumerSendRtpPacket()).
ReportsWhatWasSent ==
    \A r \in net.reported : r.info = r.packet
=============================================================================
