----------------------------- MODULE MCNetwork -----------------------------
(***************************************************************************)
(* What the worker has sockets and pipes for: the ICE agent of a transport,*)
(* the worker's ports, the packets of a TCP connection, the tables of a    *)
(* WebRtcServer, and the messages between Node and the worker.  They share *)
(* no state here, and a behaviour is one of a single part.                 *)
(***************************************************************************)
EXTENDS IceServer, PortManager, TcpConnection, WebRtcServer

CONSTANT Parts      \* those that are run: among "ice", "ports", "tcp", "server" and "channel"

VARIABLES part, ch

mcVars == <<part, vars, portVars, tcpVars, serverVars, ch>>

\* A WebRtcTransport, a PlainTransport with an RTCP socket and a WebRtcServer.
On(t, ip, port) == [t |-> t, ip |-> ip, port |-> port]

MCWishes ==
    [o \in {"webrtc", "plain", "server"} |->
        CASE o = "webrtc" -> <<On("udp", "any", NoPort), On("tcp", "any", NoPort)>>
          [] o = "plain"  -> <<On("udp", "lo", 2), On("udp", "lo", NoPort)>>
          [] o = "server" -> <<On("tcp", "lo", 2)>>]

\* Three peers, one of which is connected to two TCP servers.
MCRemoteTuples ==
    {[peer |-> "u", local |-> 1], [peer |-> "x", local |-> 1], [peer |-> "x", local |-> 2],
     [peer |-> "y", local |-> 1]}

\* Messages of 1 or 4 units, of which 4 is the most that fits, read in any pieces.
MCRequests ==
    [len : {1}, kind : {"good", "unknown", "big", "close"}] \cup [len : {4}, kind : {"good", "throws"}]

Chan == INSTANCE Channels WITH
    HeaderLen <- 2, PayloadMaxLen <- 4, Requests <- MCRequests, DownLens <- {1}, MaxChunk <- 2,
    Rooms <- {1}, MaxSent <- 2, MaxNotified <- 1

\* The agent of a transport that is not run has one initial state.
MCInit ==
    /\ part \in Parts
    /\ Init /\ (part # "ice" => ufrag = CHOOSE c \in Credentials : TRUE)
    /\ PortInit /\ TcpInit /\ ServerInit
    /\ IF part = "channel" THEN Chan!Init ELSE ch = "none"

MCNext ==
    /\ UNCHANGED part
    /\ \/ part = "ice" /\ Next /\ UNCHANGED <<portVars, tcpVars, serverVars, ch>>
       \/ part = "ports" /\ PortNext /\ UNCHANGED <<vars, tcpVars, serverVars, ch>>
       \/ part = "tcp" /\ TcpNext /\ UNCHANGED <<vars, portVars, serverVars, ch>>
       \/ part = "server" /\ ServerNext /\ UNCHANGED <<vars, portVars, tcpVars, ch>>
       \/ part = "channel" /\ Chan!Next /\ UNCHANGED <<vars, portVars, tcpVars, serverVars>>

MCSpec == MCInit /\ [][MCNext]_mcVars

\* Whatever pieces the bytes are read in, each side handles what the other sent, in order
\* and each with its own payload, and requests and replies match.  (UnixStreamSocket.cpp,
\* ChannelSocket.cpp, PayloadChannelSocket.cpp, Channel.ts, PayloadChannel.ts.)
MessagesMatch ==
    part = "channel" => Chan!HandledInOrder /\ Chan!HeardInOrder /\ Chan!RepliesExact
=============================================================================
