------------------------------- MODULE SctpData -------------------------------
(***************************************************************************)
(* The SCTP side of a transport: its SctpAssociation, the SctpListener     *)
(* that finds the DataProducer of a received message, the DataConsumers    *)
(* that send through the association, and the registry that usrsctp's      *)
(* callbacks go through.                                                   *)
(*                                                                         *)
(* usrsctp is external: the actions of the second half are its callbacks.  *)
(* It delivers the chunks of a message one after the other, and calls back *)
(* when enough of its send buffer is free.  Sizes are counted in chunks.   *)
(***************************************************************************)
EXTENDS Integers, Sequences, FiniteSets

CONSTANTS
    DataConsumers, ConsumerStream,   \* and the stream each sends on
    DataProducers, ProducerStream,   \* and the stream each receives on
    Os,                  \* the outgoing streams asked for at first
    AdditionalOs,        \* 32
    MaxSctpStreams,
    MaxSctpMessageSize,
    SctpSendBufferSize,
    SendBufferThreshold,
    Thresholds,          \* what an application may set as bufferedAmountLowThreshold
    PeerMessages,        \* records [stream, ssn, chunks] the peer sends
    IsDataChannel,
    SctpEvents           \* (bound)

ASSUME SctpAssumption ==
    /\ ConsumerStream \in [DataConsumers -> Nat] /\ ProducerStream \in [DataProducers -> Nat]
    /\ {Os, AdditionalOs, MaxSctpStreams, MaxSctpMessageSize} \subseteq Nat
    /\ PeerMessages \subseteq [stream : Nat, ssn : Nat, chunks : Nat \ {0}]

VARIABLE sctp

NewConsumer ==
    [open |-> FALSE, transport |-> FALSE, sctp |-> FALSE, amount |-> 0, threshold |-> 0,
     force |-> FALSE, waiting |-> FALSE]

\* held, asked and arriving are usrsctp's: what its send buffer holds, the streams
\* asked for and not granted yet, the message whose chunks are coming in.  putOff and
\* the ones after it are ghosts: an increase was put off; the amount counts what
\* usrsctp never took, or lost, and has not called back about; a message was too big
\* or cut short.
SctpInit ==
    sctp = [registered |-> FALSE, checker |-> FALSE, connected |-> FALSE,
            state |-> "new", told |-> "new", os |-> Os, desiredOs |-> 0,
            amount |-> 0, buffer |-> <<>>, lastSsn |-> 0,
            table |-> [s \in {} |-> 0], of |-> [c \in DataConsumers |-> NewConsumer],
            held |-> 0, asked |-> 0, denied |-> FALSE, arriving |-> <<>>, resets |-> {},
            putOff |-> FALSE, stale |-> FALSE, tainted |-> FALSE, delivered |-> <<>>,
            events |-> 0]

IsActive(b, c) == b.of[c].open /\ b.of[c].transport /\ b.of[c].sctp

\* The transport tells Node and its DataConsumers of every change of state.
Enter(b, state) ==
    IF b.state = state THEN b
    ELSE [b EXCEPT !.state = state, !.told = state,
                   !.of = IF state = "connecting" THEN @
                          ELSE [c \in DataConsumers |->
                                   [@[c] EXCEPT !.sctp = b.of[c].open /\ state = "connected"]]]

\* More outgoing streams, unless that is under way; not connected, it is put off.
AddOutgoingStreams(b, force) ==
    LET extra == IF MaxSctpStreams - b.os >= AdditionalOs THEN AdditionalOs
                 ELSE MaxSctpStreams - b.os
    IN  IF extra = 0 \/ (~force /\ b.os + extra = b.desiredOs) THEN b
        ELSE [b EXCEPT !.desiredOs = b.os + extra,
                       !.asked = IF b.state = "connected" THEN extra ELSE @,
                       !.putOff = b.state # "connected"]

HandleDataConsumer(b, c) ==
    IF ConsumerStream[c] > b.os - 1 THEN AddOutgoingStreams(b, FALSE) ELSE b

\* Asks the peer to reset a stream, but no outgoing one that was never allocated.
ResetSctpStream(b, stream, direction) ==
    IF direction = "outgoing" /\ stream > b.os - 1 THEN b
    ELSE [b EXCEPT !.resets = @ \cup {<<stream, direction>>}]

\* Mutant: the amount must fall below the threshold, and force is not looked at.
SetAmount_NoForce(d, amount) ==
    LET low == d.amount > d.threshold /\ amount < d.threshold IN
    [d EXCEPT !.amount = amount,
              !.waiting = IF low THEN FALSE ELSE @ \/ amount > d.threshold]

\* DataConsumer::SctpAssociationBufferedAmount(): waiting is a ghost, whether the
\* application is to hear that the amount has come down.
SetAmount(d, amount) ==
    LET low == (d.force \/ d.amount > d.threshold) /\ amount <= d.threshold IN
    [d EXCEPT !.amount = amount, !.force = @ /\ ~low,
              !.waiting = IF low THEN FALSE ELSE @ \/ amount > d.threshold]

OnSctpAssociationBufferedAmount(b, amount) ==
    [b EXCEPT !.amount = amount,
              !.of = [c \in DataConsumers |->
                         IF b.of[c].open THEN SetAmount(b.of[c], amount) ELSE b.of[c]]]

\* The amount grows before the message is handed to usrsctp, which may refuse it.
SendSctpMessage(b, c, size) ==
    LET counted == OnSctpAssociationBufferedAmount(b, b.amount + size)
        refused == ConsumerStream[c] > b.os - 1
        full    == b.held + size > SctpSendBufferSize
    IN  IF refused \/ full THEN [counted EXCEPT !.stale = @ \/ b.held = 0]
        ELSE [counted EXCEPT !.held = @ + size]

\* Mutant: what was kept of a message is joined to the next one, whatever its number.
ReceiveChunk_KeepBuffer(b, chunk) ==
    LET whole == Append(b.buffer, chunk)
        c     == [b EXCEPT !.lastSsn = chunk.ssn]
    IN  IF ~chunk.eor THEN [c EXCEPT !.buffer = whole]
        ELSE [c EXCEPT !.delivered = IF chunk.stream \in DOMAIN b.table
                                     THEN [to |-> b.table[chunk.stream], chunks |-> whole]
                                     ELSE @]

\* OnUsrSctpReceiveSctpData(): one chunk [id, stream, ssn, index, eor].
ReceiveChunk(b, chunk) ==
    LET kept  == IF b.buffer # <<>> /\ chunk.ssn # b.lastSsn THEN <<>> ELSE b.buffer
        whole == Append(kept, chunk)
        c     == [b EXCEPT !.buffer = kept, !.lastSsn = chunk.ssn]
    IN  IF Len(whole) > MaxSctpMessageSize THEN [c EXCEPT !.lastSsn = 0]
        ELSE IF ~chunk.eor THEN [c EXCEPT !.buffer = whole]
        ELSE [c EXCEPT !.buffer = <<>>,
                       !.delivered = IF chunk.stream \in DOMAIN b.table
                                     THEN [to |-> b.table[chunk.stream], chunks |-> whole]
                                     ELSE @]

Happens == sctp.events < SctpEvents

Idle(b) == [b EXCEPT !.events = @ + 1]

-----------------------------------------------------------------------------

\* The association registers itself once its socket is set up, and the first one
\* starts the timer that drives usrsctp.
Create ==
    /\ ~sctp.registered
    /\ sctp.state = "new"
    /\ sctp' = [sctp EXCEPT !.registered = TRUE, !.checker = TRUE]

TransportConnected ==
    /\ Happens
    /\ sctp.registered
    /\ ~sctp.connected
    /\ LET b == [Idle(sctp) EXCEPT
                    !.connected = TRUE,
                    !.of = [c \in DataConsumers |-> [@[c] EXCEPT !.transport = sctp.of[c].open]]]
       IN  \/ sctp' = IF sctp.state = "new" THEN Enter(b, "connecting") ELSE b
           \/ sctp.state = "new" /\ sctp' = Enter(b, "failed")

TransportDisconnected ==
    /\ Happens
    /\ sctp.connected
    /\ sctp' = [Idle(sctp) EXCEPT
                   !.connected = FALSE,
                   !.of = [c \in DataConsumers |-> [@[c] EXCEPT !.transport = FALSE]]]

\* The stream must be free; the router may still refuse, which is undone.
ProduceData ==
    /\ Happens
    /\ sctp.registered
    /\ \E p \in DataProducers :
        /\ ProducerStream[p] \notin DOMAIN sctp.table
        /\ sctp' = [Idle(sctp) EXCEPT
                       !.table = [s \in DOMAIN @ \cup {ProducerStream[p]} |->
                                     IF s = ProducerStream[p] THEN p ELSE @[s]]]

CloseDataProducer ==
    /\ Happens
    /\ \E s \in DOMAIN sctp.table :
        LET b == [Idle(sctp) EXCEPT !.table = [i \in DOMAIN @ \ {s} |-> @[i]]] IN
        sctp' = ResetSctpStream(b, s, IF IsDataChannel THEN "outgoing" ELSE "incoming")

ConsumeData ==
    /\ Happens
    /\ sctp.registered
    /\ \E c \in DataConsumers :
        /\ ~sctp.of[c].open
        /\ sctp' = HandleDataConsumer(
                       [Idle(sctp) EXCEPT
                           !.of[c] = [NewConsumer EXCEPT !.open = TRUE, !.transport = sctp.connected,
                                                         !.sctp = sctp.state = "connected"]], c)

\* A request to close it, or its DataProducer was closed.
CloseDataConsumer ==
    /\ Happens
    /\ \E c \in DataConsumers :
        /\ sctp.of[c].open
        /\ sctp' = ResetSctpStream([Idle(sctp) EXCEPT !.of[c] = NewConsumer],
                                   ConsumerStream[c], "outgoing")

\* A message for a DataConsumer, from its DataProducer or from the application.
SendMessage ==
    /\ Happens
    /\ \E c \in DataConsumers, size \in 1..MaxSctpMessageSize :
        /\ IsActive(sctp, c)
        /\ sctp' = SendSctpMessage(Idle(sctp), c, size)

\* With no more than the threshold buffered nothing is sent to the application;
\* otherwise the next fall to the threshold is told of in any case.
SetBufferedAmountLowThreshold ==
    /\ Happens
    /\ \E c \in DataConsumers, t \in Thresholds :
        /\ sctp.of[c].open
        /\ LET low == sctp.of[c].amount <= t IN
           sctp' = [Idle(sctp) EXCEPT !.of[c].threshold = t,
                                      !.of[c].force = @ \/ ~low,
                                      !.of[c].waiting = ~low]

\* The transport is closed, its association first.
CloseAssociation ==
    /\ Happens
    /\ sctp.registered
    /\ sctp' = [Idle(sctp) EXCEPT !.registered = FALSE, !.checker = FALSE, !.arriving = <<>>,
                                  !.state = "closed", !.told = "closed", !.connected = FALSE,
                                  !.of = [c \in DataConsumers |-> NewConsumer],
                                  !.table = [s \in {} |-> 0]]

-----------------------------------------------------------------------------

\* SCTP_COMM_UP, and SCTP_RESTART of an association the peer starts again, which
\* may cut a message short.  Streams asked for earlier are asked for before the
\* state is "connected", so that a first COMM_UP puts them off again.
CommUp ==
    /\ Happens
    /\ sctp.registered
    /\ sctp.state \in {"connecting", "connected", "closed"}
    /\ LET up == [Idle(sctp) EXCEPT !.os = Os, !.asked = 0, !.denied = FALSE, !.arriving = <<>>,
                                    !.held = 0, !.stale = @ \/ sctp.amount > 0,
                                    !.tainted = @ \/ sctp.arriving # <<>>]
       IN  sctp' = Enter(IF up.desiredOs > Os THEN AddOutgoingStreams(up, TRUE) ELSE up,
                         "connected")

\* SCTP_COMM_LOST, SCTP_SHUTDOWN_COMP and SCTP_SHUTDOWN_EVENT.
CommLost ==
    /\ Happens
    /\ sctp.registered
    /\ sctp.state \in {"connected", "closed"}
    /\ sctp' = [Enter(Idle(sctp), "closed") EXCEPT !.arriving = <<>>, !.asked = 0, !.held = 0,
                                                   !.stale = @ \/ sctp.amount > 0,
                                                   !.tainted = @ \/ sctp.arriving # <<>>]

CantStart ==
    /\ Happens
    /\ sctp.registered
    /\ sctp.state = "connecting"
    /\ sctp' = Enter(Idle(sctp), "failed")

\* SCTP_STREAM_CHANGE_EVENT: the streams asked for are there, or denied.
StreamChange ==
    /\ sctp.asked > 0
    /\ sctp' = [sctp EXCEPT !.os = @ + sctp.asked, !.asked = 0]

StreamChangeDenied ==
    /\ Happens
    /\ sctp.asked > 0
    /\ sctp' = [Idle(sctp) EXCEPT !.asked = 0, !.denied = TRUE]

\* The peer resets a stream of a data channel: ours goes too.
StreamReset ==
    /\ Happens
    /\ IsDataChannel
    /\ sctp.state = "connected"
    /\ \E s \in DOMAIN sctp.table : sctp' = ResetSctpStream(Idle(sctp), s, "outgoing")

Chunk(m, i) == [stream |-> m.stream, ssn |-> m.ssn, index |-> i, eor |-> i = m.chunks]

ReceiveData ==
    /\ sctp.state = "connected"
    /\ LET Arrives(b, m, i) ==
               [ReceiveChunk(b, Chunk(m, i)) EXCEPT
                   !.arriving = IF i = m.chunks THEN <<>> ELSE <<m, i>>,
                   !.tainted = @ \/ m.chunks > MaxSctpMessageSize]
       IN  \/ /\ sctp.arriving # <<>>
              /\ sctp' = Arrives(sctp, sctp.arriving[1], sctp.arriving[2] + 1)
           \/ /\ sctp.arriving = <<>>
              /\ Happens
              /\ \E m \in PeerMessages : sctp' = Arrives(Idle(sctp), m, 1)

\* The peer acknowledges; usrsctp calls back if enough of its buffer is free.
OnUsrSctpSentData ==
    /\ sctp.held > 0
    /\ \E n \in 1..sctp.held :
        LET b == [sctp EXCEPT !.held = @ - n] IN
        sctp' = IF SctpSendBufferSize - b.held < SendBufferThreshold THEN b
                ELSE IF b.held = b.amount THEN [b EXCEPT !.stale = FALSE]
                ELSE OnSctpAssociationBufferedAmount([b EXCEPT !.stale = FALSE], b.held)

SctpNext ==
    \/ Create \/ TransportConnected \/ TransportDisconnected \/ CloseAssociation
    \/ ProduceData \/ CloseDataProducer \/ ConsumeData \/ CloseDataConsumer
    \/ SendMessage \/ SetBufferedAmountLowThreshold
    \/ CommUp \/ CommLost \/ CantStart \/ StreamChange \/ StreamChangeDenied \/ StreamReset
    \/ ReceiveData \/ OnUsrSctpSentData

\* A live peer acknowledges what it is sent and answers requests for streams.
SctpFairness == WF_sctp(OnUsrSctpSentData) /\ WF_sctp(StreamChange)

SctpSpec == SctpInit /\ [][SctpNext]_sctp /\ SctpFairness

-----------------------------------------------------------------------------

\* Whatever order the transport, the association and the consumers come up in, Node
\* and every DataConsumer know the state of the association and of the transport,
\* and the timer that drives usrsctp runs while there is an association.
ViewsAgree ==
    /\ sctp.told = sctp.state
    /\ sctp.checker = sctp.registered
    /\ \A c \in DataConsumers :
        sctp.of[c].open =>
            /\ sctp.of[c].sctp = (sctp.state = "connected")
            /\ sctp.of[c].transport = sctp.connected

\* A message handed to a DataProducer is all the chunks of one message, in order, as
\* long as no message was too big or cut short.
WholeMessages ==
    sctp.delivered # <<>> /\ ~sctp.tainted =>
        LET chunks == sctp.delivered.chunks IN
        /\ \A i \in DOMAIN chunks :
            /\ chunks[i].index = i
            /\ chunks[i].stream = chunks[1].stream
            /\ chunks[i].ssn = chunks[1].ssn
            /\ chunks[i].eor = (i = Len(chunks))
        /\ ProducerStream[sctp.delivered.to] = chunks[1].stream

\* Everyone knows the state of the association, and a message handed on is one message.
\* (SctpAssociation.cpp, DataConsumer.cpp, Transport.cpp OnSctpAssociation...().)
MessagesExact == ViewsAgree /\ WholeMessages

LacksStream(c) ==
    sctp.state = "connected" /\ sctp.of[c].open /\ ~sctp.denied /\ ConsumerStream[c] >= sctp.os

\* A DataConsumer on a stream the association does not have gets it, unless the peer
\* denies it or the increase was put off: each other request for streams is made.
StreamsSuffice == <>[](\A c \in DataConsumers : LacksStream(c) => sctp.putOff)

\* An application above its threshold hears that the buffered amount has come down,
\* once everything is acknowledged, unless the association was lost with messages
\* under way or a send failed with none: then usrsctp has nothing to call back about.
LowIsTold ==
    <>[](\A c \in DataConsumers :
            sctp.of[c].open /\ ~sctp.stale /\ sctp.state = "connected" => ~sctp.of[c].waiting)
=============================================================================
