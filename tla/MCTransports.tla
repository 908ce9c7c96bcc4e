---------------------------- MODULE MCTransports ----------------------------
(***************************************************************************)
(* The transports: ICE and DTLS under a WebRtcTransport, the tuples, keys  *)
(* and datagrams of the Plain and PipeTransport, the RTCP every Transport  *)
(* sends, its SCTP association and the transport-cc feedback it returns.   *)
(* They share no state: a behaviour is one of a single part, and the other *)
(* variables stay as they are.                                             *)
(***************************************************************************)
EXTENDS WebRtcTransport, PlainTransport, SctpData

CONSTANT Parts  \* those that are run

VARIABLES part, rtcp, tcc

others == <<net, rtcp, sctp, tcc>>
mcVars == <<part, vars, others>>

Off == "off"

\* A PipeTransport with and without SRTP, a PlainTransport in all of its modes.
MCModes ==
    [pipe : {TRUE}, mux : {TRUE}, comedia : {FALSE}, srtp : BOOLEAN]
    \cup [pipe : {FALSE}, mux : BOOLEAN, comedia : BOOLEAN, srtp : BOOLEAN]

\* A Consumer, a pipe Consumer of two streams, two Producers; a packet holds three reports.
Rtcp == INSTANCE TransportRtcp WITH
    Senders <- <<{"c1"}, {"c2", "c3"}>>, Receivers <- <<{"p1"}, {"p2"}>>, Pipes <- {2},
    MaxRtcpInterval <- 10, SrSize <- 3, RrSize <- 3, XrSize <- 1, MaxSize <- 9,
    MsPerSec <- 10, Ticks <- 16, NtpMod <- 64, Elapses <- {1, 9, 12}, StartMs <- 31,
    RtcpEvents <- 6

\* The second DataConsumer needs a stream more than there are; the third message is too big.
MCConsumerStream == [c |-> 0, d |-> 2]
MCProducerStream == [p |-> 0, q |-> 1]
MCPeerMessages ==
    {[stream |-> 0, ssn |-> 0, chunks |-> 2], [stream |-> 1, ssn |-> 1, chunks |-> 1],
     [stream |-> 1, ssn |-> 0, chunks |-> 3]}

\* Numbers, counts, deltas and reference times that all wrap.
Tcc == INSTANCE TransportCcFeedback WITH
    WideMod <- 32, Width <- 3, RunMod <- 8, MaxPacketStatusCount <- 23, ByteMod <- 4,
    BaseTimeTick <- 4, RefMod <- 8, HeaderSize <- 4, MaxRtcpPacketLen <- 16,
    UnlimitedRembNumPackets <- 2, LimitationRembInterval <- 1, LossHistogramLength <- 2,
    Jumps <- {0, 1, 6, 9}, Gaps <- {1, 6}, BitrateLimits <- {0, 1, 2},
    StartNumber <- 22, StartTime <- 21, TccEvents <- 6

MCInit ==
    /\ part \in Parts
    /\ Init /\ Rtcp!Init /\ SctpInit
    /\ NetInit /\ (part # "plain" => net.mode.pipe /\ ~net.mode.srtp /\ net.suite = "cm")
    /\ IF part = "feedback" THEN Tcc!Init ELSE tcc = Off

MCNext ==
    /\ UNCHANGED part
    /\ \/ part = "webrtc" /\ Next /\ UNCHANGED others
       \/ part = "plain" /\ NetNext /\ UNCHANGED <<vars, rtcp, sctp, tcc>>
       \/ part = "rtcp" /\ Rtcp!Next /\ UNCHANGED <<vars, net, sctp, tcc>>
       \/ part = "sctp" /\ SctpNext /\ UNCHANGED <<vars, net, rtcp, tcc>>
       \/ part = "feedback" /\ Tcc!Next /\ UNCHANGED <<vars, net, rtcp, sctp>>

MCSpec == MCInit /\ [][MCNext]_mcVars

\* The fairness of the parts: the peer's handshake ends, a live SCTP peer acknowledges and
\* answers.
MCFairSpec ==
    /\ MCSpec
    /\ WF_mcVars(/\ part = "webrtc" /\ UNCHANGED <<part, others>>
                 /\ \E cert \in {"good", "bad"} : HandshakeDone(cert))
    /\ WF_mcVars(/\ part = "sctp" /\ OnUsrSctpSentData
                 /\ UNCHANGED <<part, vars, net, rtcp, tcc>>)
    /\ WF_mcVars(/\ part = "sctp" /\ StreamChange
                 /\ UNCHANGED <<part, vars, net, rtcp, tcc>>)

-----------------------------------------------------------------------------
(* Properties *)

\* Everyone's reports leave in time and in packets that are not too big, all loss is told
\* and round trips are measured right.  (Transport.cpp SendRtcp(), CompoundPacket.cpp,
\* RtpStreamRecv.cpp, RtpStreamSend.cpp.)
ReportsSound == part = "rtcp" => Rtcp!EveryoneReports /\ Rtcp!LossIsTold /\ Rtcp!RttIsSound

\* DataConsumers get their streams, and hear that the buffered amount has come down.
\* (SctpAssociation.cpp AddOutgoingStreams(), OnUsrSctpSentData(); DataConsumer.cpp.)
DataFlows == part = "sctp" => StreamsSuffice /\ LowIsTold

\* The feedback the peer reads says which packets came, and when.
\* (FeedbackRtpTransport.cpp, TransportCongestionControlServer.cpp.)
FeedbackIsExact == part = "feedback" => Tcc!FeedbackIsExact
=============================================================================
