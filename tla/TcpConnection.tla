--------------------------- MODULE TcpConnection ---------------------------
(***************************************************************************)
(* How a TcpConnection takes packets out of a TCP stream (the framing of   *)
(* RFC 4571: two bytes of length, then the packet).  Chunks of any size    *)
(* are read into a buffer of fixed size, which holds packets that were     *)
(* parsed, whole packets and the beginning of the next one.  The listener  *)
(* may close the connection while it is given a packet.                    *)
(***************************************************************************)
EXTENDS Integers, Sequences

CONSTANTS
    BufferSize,     \* 65536
    MaxFrame,       \* the largest length, 65535
    MaxWire         \* bound: bytes sent and not yet read

ASSUME TcpAssumption == {BufferSize, MaxFrame, MaxWire} \subseteq Nat /\ BufferSize > 2

VARIABLES
    frameStart,     \* where in the buffer the next frame begins
    unparsed,       \* the bytes of the buffer from there
    parsing,        \* UserOnTcpConnectionRead() is in its loop
    tcpState,       \* "open", "closed" by the listener, or "error"
    wire,           \* bytes on their way
    sending,        \* what the peer sends: [frame, sent]
    due,            \* history: the frames the peer began to send, until they are parsed
    wrong           \* history: what was parsed last is not what was sent

tcpVars == <<frameStart, unparsed, parsing, tcpState, wire, sending, due, wrong>>

BufferDataLen == frameStart + Len(unparsed)

\* The bytes of a frame: its length in two bytes, and the packet.
Packet(frame) == [n \in 1..frame.len |-> <<"data", frame.id, n>>]

Bytes(frame) == <<<<"high", frame.len>>, <<"low", frame.len>>>> \o Packet(frame)

Frame(id, len) == [id |-> id, len |-> len]

TcpInit ==
    /\ frameStart = 0 /\ unparsed = << >>
    /\ parsing = FALSE /\ tcpState = "open"
    /\ wire = << >>
    /\ sending = [frame |-> Frame(0, 0), sent |-> 2]
    /\ due = << >> /\ wrong = FALSE

-----------------------------------------------------------------------------
\* The peer sends a byte, of a new frame when it has finished one.
PeerSends ==
    /\ Len(wire) < MaxWire /\ tcpState = "open"
    /\ IF sending.sent < Len(Bytes(sending.frame))
       THEN /\ wire' = Append(wire, Bytes(sending.frame)[sending.sent + 1])
            /\ sending' = [sending EXCEPT !.sent = @ + 1]
            /\ UNCHANGED due
       ELSE \E len \in 0..MaxFrame :
            LET frame == Frame(1 - sending.frame.id, len) IN
            /\ wire' = Append(wire, Bytes(frame)[1])
            /\ sending' = [frame |-> frame, sent |-> 1]
            /\ due' = Append(due, frame)
    /\ UNCHANGED <<frameStart, unparsed, parsing, tcpState, wrong>>

\* OnUvReadAlloc() gives the room that is left, OnUvRead() some bytes.
Room == BufferSize - BufferDataLen

OnUvRead ==
    /\ tcpState = "open" /\ ~parsing
    /\ \E n \in 1..MaxWire :
          /\ n <= Room /\ n <= Len(wire)
          /\ unparsed' = unparsed \o SubSeq(wire, 1, n)
          /\ wire' = SubSeq(wire, n + 1, Len(wire))
    /\ parsing' = TRUE
    /\ UNCHANGED <<frameStart, tcpState, sending, due, wrong>>

PacketLen == unparsed[1][2]

Whole == Len(unparsed) >= 2 /\ Len(unparsed) >= 2 + PacketLen

\* The listener gets a packet that is not empty, and may close the connection.
Give(packet) ==
    /\ tcpState' \in IF packet = << >> THEN {tcpState} ELSE {"open", "closed"}
    /\ wrong' = (due = << >> \/ packet # Packet(Head(due)))
    /\ due' = IF due = << >> THEN due ELSE Tail(due)

\* Mutant: a buffer that is used up is not emptied.
ParseFrame_KeepFull ==
    LET end == 2 + PacketLen IN
    /\ Give(SubSeq(unparsed, 3, end))
    /\ unparsed' = SubSeq(unparsed, end + 1, Len(unparsed))
    /\ frameStart' = frameStart + end
    /\ parsing' = (unparsed' # << >>)

\* A whole frame: on to the next one, in an empty buffer if the frame ended it.
ParseFrame ==
    LET end == 2 + PacketLen IN
    /\ Give(SubSeq(unparsed, 3, end))
    /\ unparsed' = SubSeq(unparsed, end + 1, Len(unparsed))
    /\ frameStart' = IF frameStart + end = BufferSize THEN 0 ELSE frameStart + end
    /\ parsing' = (unparsed' # << >>)

\* An unfinished frame: wait for more, moving it to the front of a full buffer, or
\* ErrorReceiving() if it is there already.
ParseRest ==
    /\ parsing' = FALSE
    /\ frameStart' = IF BufferDataLen = BufferSize THEN 0 ELSE frameStart
    /\ tcpState' = IF BufferDataLen = BufferSize /\ frameStart = 0 THEN "error" ELSE tcpState
    /\ UNCHANGED <<unparsed, due, wrong>>

\* One turn of the loop.
UserOnTcpConnectionRead ==
    /\ parsing
    /\ IF tcpState # "open"
       THEN parsing' = FALSE /\ UNCHANGED <<frameStart, unparsed, tcpState, due, wrong>>
       ELSE IF Whole THEN ParseFrame ELSE ParseRest
    /\ UNCHANGED <<wire, sending>>

TcpNext == PeerSends \/ OnUvRead \/ UserOnTcpConnectionRead

TcpSpec == TcpInit /\ [][TcpNext]_tcpVars

-----------------------------------------------------------------------------
(* Properties.                                                             *)

\* The buffer's indices stay in it.
TcpTypeOK ==
    /\ frameStart \in 0..BufferSize /\ BufferDataLen \in 0..BufferSize
    /\ tcpState \in {"open", "closed", "error"}
    /\ parsing \in BOOLEAN

\* The listener gets the packets of the stream, each whole and in order, and none
\* twice, however the stream is cut into chunks and the buffer fills up.
PacketsExact == ~wrong

\* Between two reads there is room in the buffer, without which nothing would ever
\* be read again ("no available space in the buffer").
RoomToRead == tcpState = "open" /\ ~parsing => Room > 0

\* No packet that came is held back until more bytes come.
NothingHeldBack == tcpState = "open" /\ ~parsing => ~Whole

\* Only a frame that the buffer cannot hold ends the connection.
OnlyTooBigFails == tcpState = "error" => PacketLen + 2 > BufferSize

\* The packets of a stream come out whole and in order, and it is never stuck: there is
\* room to read, no packet is held back, and only a frame that cannot fit ends the
\* connection.  (TcpConnection.cpp UserOnTcpConnectionRead().)
StreamGoesOn == TcpTypeOK /\ PacketsExact /\ RoomToRead /\ NothingHeldBack /\ OnlyTooBigFails
=============================================================================
