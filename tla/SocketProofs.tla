---------------------------- MODULE SocketProofs ----------------------------
(***************************************************************************)
(* Proofs about the sockets of a worker: that PortManager's marks agree    *)
(* with the sockets it gave out, for any owners, addresses and ranges of   *)
(* ports, and that a TcpConnection takes exactly the packets out of its    *)
(* stream, for a buffer of any size and frames of any length.              *)
(***************************************************************************)
EXTENDS TcpConnection, PortManager, TLAPS, SequenceTheorems, FiniteSetTheorems,
        WellFoundedInduction

-----------------------------------------------------------------------------
(* TcpConnection.  What is in the buffer and on its way is the bytes of    *)
(* the frames that are due, one after the other, of which the last may not *)
(* be finished.  The i-th frame begins behind the first offset[i] bytes.   *)

Frames == [id : {0, 1}, len : 0..MaxFrame]

ByteSet == {<<k, n>> : k \in {"high", "low"}, n \in Nat}
             \cup {<<"data", id, n>> : id \in {0, 1}, n \in Nat}

StreamLen == Len(unparsed) + Len(wire)

StreamByte(x) == IF x <= Len(unparsed) THEN unparsed[x] ELSE wire[x - Len(unparsed)]

Offsets(offset) ==
    /\ offset \in [1..(Len(due) + 1) -> Nat] /\ offset[1] = 0
    /\ \A i \in 1..Len(due) : offset[i + 1] = offset[i] + 2 + due[i].len
    /\ \A i \in 1..Len(due), k \in 1..(Len(due) + 1) :
          i < k => offset[i] + 2 + due[i].len <= offset[k]
    /\ \A i \in 1..Len(due) : \A j \in 1..(2 + due[i].len) :
          offset[i] + j <= StreamLen => StreamByte(offset[i] + j) = Bytes(due[i])[j]
    /\ offset[Len(due) + 1] = StreamLen + 2 + sending.frame.len - sending.sent

TcpInv ==
    /\ unparsed \in Seq(ByteSet) /\ wire \in Seq(ByteSet) /\ due \in Seq(Frames)
    /\ sending \in [frame : Frames, sent : Nat]
    /\ sending.sent \in 1..(2 + sending.frame.len)
    /\ due # << >> => due[Len(due)] = sending.frame
    /\ \E offset : Offsets(offset)
    /\ StreamGoesOn

\* A frame is two bytes of length and its packet.
LEMMA BytesFacts ==
    ASSUME NEW frame \in Frames
    PROVE  /\ Bytes(frame) \in Seq(ByteSet) /\ Len(Bytes(frame)) = 2 + frame.len
           /\ frame.len \in Nat
           /\ Bytes(frame)[1] = <<"high", frame.len>>
           /\ Packet(frame) \in Seq(ByteSet) /\ Len(Packet(frame)) = frame.len
           /\ \A n \in 1..frame.len : Packet(frame)[n] = Bytes(frame)[n + 2]
<1> DEFINE head == <<<<"high", frame.len>>, <<"low", frame.len>>>>
<1>1. frame.len \in Nat /\ frame.id \in {0, 1}
  BY TcpAssumption DEF Frames
<1>2. head \in Seq(ByteSet) /\ Len(head) = 2 /\ head[1] = <<"high", frame.len>>
  BY <1>1 DEF ByteSet
<1>3. Packet(frame) \in [1..frame.len -> ByteSet]
  BY <1>1 DEF Packet, ByteSet
<1>4. Packet(frame) \in Seq(ByteSet) /\ Len(Packet(frame)) = frame.len
  BY <1>1, <1>3
<1> HIDE DEF head
<1>5. /\ head \o Packet(frame) \in Seq(ByteSet)
      /\ Len(head \o Packet(frame)) = 2 + frame.len
      /\ \A i \in 1..(2 + frame.len) :
            (head \o Packet(frame))[i] = IF i <= 2 THEN head[i] ELSE Packet(frame)[i - 2]
  <2>1. /\ head \o Packet(frame) \in Seq(ByteSet)
        /\ Len(head \o Packet(frame)) = Len(head) + Len(Packet(frame))
        /\ \A i \in 1..(Len(head) + Len(Packet(frame))) :
              (head \o Packet(frame))[i] =
                  IF i <= Len(head) THEN head[i] ELSE Packet(frame)[i - Len(head)]
    BY <1>2, <1>4, ConcatProperties, Zenon
  <2>2. Len(head) = 2 /\ Len(Packet(frame)) = frame.len
    BY <1>2, <1>4
  <2> QED BY <2>1, <2>2, Zenon
<1>6. Bytes(frame) = head \o Packet(frame)
  BY DEF Bytes, head
<1> QED BY <1>1, <1>2, <1>4, <1>5, <1>6, SMTT(30)

\* A new connection has read nothing.
LEMMA TcpInitInv == TcpInit => TcpInv
<1> SUFFICES ASSUME TcpInit PROVE TcpInv
  OBVIOUS
<1> USE TcpAssumption DEF TcpInit
<1>1. sending.frame \in Frames /\ sending.frame.len = 0 /\ sending.sent = 2
      /\ sending \in [frame : Frames, sent : Nat]
  BY DEF Frame, Frames
<1>2. Offsets([i \in {1} |-> 0])
  BY <1>1 DEF Offsets, StreamLen
<1>3. Len(unparsed) = 0 /\ BufferDataLen = 0 /\ Room > 0
  BY DEF Room, BufferDataLen
<1>4. TcpTypeOK
  <2>1. 0 \in 0..BufferSize
    OBVIOUS
  <2> QED BY <1>3, <2>1, Zenon DEF TcpTypeOK
<1>5. RoomToRead /\ NothingHeldBack
  BY <1>3 DEF RoomToRead, NothingHeldBack, Whole
<1>6. PacketsExact /\ OnlyTooBigFails
  BY DEF PacketsExact, OnlyTooBigFails
<1> QED BY <1>1, <1>2, <1>4, <1>5, <1>6 DEF TcpInv, StreamGoesOn

\* A byte more on the wire.
LEMMA AppendByte ==
    ASSUME unparsed \in Seq(ByteSet), wire \in Seq(ByteSet), NEW b \in ByteSet,
           wire' = Append(wire, b), unparsed' = unparsed
    PROVE  /\ wire' \in Seq(ByteSet) /\ StreamLen \in Nat /\ StreamLen' = StreamLen + 1
           /\ \A x \in 1..StreamLen : StreamByte(x)' = StreamByte(x)
           /\ \A x \in Nat : x = StreamLen + 1 => StreamByte(x)' = b
<1>1. /\ wire' \in Seq(ByteSet) /\ Len(wire') = Len(wire) + 1 /\ wire'[Len(wire) + 1] = b
      /\ \A i \in 1..Len(wire) : wire'[i] = wire[i]
  BY AppendProperties, ZenonT(40)
<1>2. Len(unparsed) \in Nat /\ Len(wire) \in Nat
  OBVIOUS
<1>3. StreamLen = Len(unparsed) + Len(wire) /\ StreamLen' = StreamLen + 1
  BY <1>1, <1>2 DEF StreamLen
<1>4. ASSUME NEW x \in 1..StreamLen PROVE StreamByte(x)' = StreamByte(x)
  BY <1>1, <1>2, <1>3 DEF StreamByte
<1>5. ASSUME NEW x \in Nat, x = StreamLen + 1 PROVE StreamByte(x)' = b
  BY <1>1, <1>2, <1>3, <1>5 DEF StreamByte
<1> QED BY <1>1, <1>2, <1>3, <1>4, <1>5

\* The peer puts the next byte of its frame on the wire, or begins a new frame.
LEMMA PeerSendsInv == ASSUME TcpInv, PeerSends PROVE TcpInv'
<1>1. PICK offset : Offsets(offset)
  BY DEF TcpInv
<1>2. /\ unparsed \in Seq(ByteSet) /\ wire \in Seq(ByteSet) /\ due \in Seq(Frames)
      /\ sending.frame \in Frames /\ sending.sent \in 1..(2 + sending.frame.len)
      /\ due # << >> => due[Len(due)] = sending.frame
      /\ sending.frame.len \in Nat
  BY BytesFacts DEF TcpInv
<1>3. UNCHANGED <<frameStart, unparsed, parsing, tcpState, wrong>>
  BY DEF PeerSends
<1>4. StreamGoesOn'
  BY <1>3 DEF TcpInv, StreamGoesOn, TcpTypeOK, PacketsExact, RoomToRead, NothingHeldBack,
              OnlyTooBigFails, Room, BufferDataLen, Whole, PacketLen
<1>5. Len(due) \in Nat /\ \A i \in 1..Len(due) : due[i] \in Frames /\ due[i].len \in Nat
  <2>1. due \in Seq(Frames)
    BY <1>2
  <2> QED BY <2>1, BytesFacts
<1>8. /\ offset \in [1..(Len(due) + 1) -> Nat] /\ offset[1] = 0
      /\ \A i \in 1..(Len(due) + 1) : offset[i] \in Nat
  BY <1>1, <1>5, Zenon DEF Offsets
<1>9. \A i \in 1..Len(due) : offset[i + 1] = offset[i] + 2 + due[i].len
  BY <1>1 DEF Offsets
<1>10. \A i \in 1..Len(due), k \in 1..(Len(due) + 1) :
          i < k => offset[i] + 2 + due[i].len <= offset[k]
  BY <1>1 DEF Offsets
<1>11. \A i \in 1..Len(due) : \A j \in 1..(2 + due[i].len) :
          offset[i] + j <= StreamLen => StreamByte(offset[i] + j) = Bytes(due[i])[j]
  BY <1>1 DEF Offsets
<1>12. offset[Len(due) + 1] = StreamLen + 2 + sending.frame.len - sending.sent
  BY <1>1 DEF Offsets
<1>6. CASE sending.sent < Len(Bytes(sending.frame))
  <2>0. PICK b : b = Bytes(sending.frame)[sending.sent + 1]
    BY Zenon
  <2>1. b \in ByteSet /\ sending.sent + 1 <= 2 + sending.frame.len
    <3>1. Bytes(sending.frame) \in Seq(ByteSet) /\ Len(Bytes(sending.frame)) = 2 + sending.frame.len
      BY <1>2, BytesFacts
    <3>3. PICK z \in Nat, l \in Nat :
             z = sending.sent /\ l = sending.frame.len /\ z \in 1..(2 + l) /\ z < 2 + l
      BY <1>2, <1>6, <3>1
    <3>2. sending.sent \in Nat /\ sending.sent + 1 \in 1..Len(Bytes(sending.frame))
          /\ sending.sent + 1 <= 2 + sending.frame.len
      BY <3>1, <3>3, SMTT(30)
    <3> QED BY <2>0, <3>1, <3>2
  <2>2. /\ wire' = Append(wire, b) /\ due' = due
        /\ sending' = [sending EXCEPT !.sent = @ + 1]
    BY <1>6, <2>0 DEF PeerSends
  <2>3. sending' \in [frame : Frames, sent : Nat] /\ sending'.frame = sending.frame
        /\ sending'.sent = sending.sent + 1
    BY <1>2, <2>2, SMTT(30) DEF TcpInv
  <2>4. /\ wire' \in Seq(ByteSet) /\ StreamLen \in Nat /\ StreamLen' = StreamLen + 1
        /\ \A x \in 1..StreamLen : StreamByte(x)' = StreamByte(x)
        /\ \A x \in Nat : x = StreamLen + 1 => StreamByte(x)' = b
    BY <1>2, <1>3, <2>1, <2>2, AppendByte, Zenon
  <2>9. StreamLen \in Nat
    BY <2>4, Zenon
  <2>11. StreamLen' = StreamLen + 1
    BY <2>4
  <2>10. sending.frame.len \in Nat /\ sending.sent \in Nat
         /\ sending.sent + 1 <= 2 + sending.frame.len
    BY <1>2, <2>1
  <2>5. Len(due) > 0
    BY <1>5, <1>8, <1>12, <2>9, <2>10
  <2>6. offset[Len(due)] + sending.sent = StreamLen /\ due[Len(due)] = sending.frame
    <3>1. Len(due) \in 1..Len(due) /\ due # << >> /\ due[Len(due)] = sending.frame
      BY <1>2, <1>5, <2>5
    <3>2. offset[Len(due) + 1] = offset[Len(due)] + 2 + sending.frame.len
      BY <1>9, <3>1
    <3>3. offset[Len(due)] \in Nat
      BY <1>5, <1>8, <2>5
    <3>4. PICK x \in Nat, y \in Nat, l \in Nat, z \in Nat :
             x = offset[Len(due)] /\ y = StreamLen /\ l = sending.frame.len /\ z = sending.sent
      BY <2>9, <2>10, <3>3, Zenon
    <3>5. x + 2 + l = y + 2 + l - z
      BY <1>12, <3>2, <3>4
    <3>6. x + z = y
      BY <3>5
    <3> QED BY <3>1, <3>4, <3>6, Zenon
  <2>7. ASSUME NEW i \in 1..Len(due), NEW j \in 1..(2 + due[i].len), offset[i] + j <= StreamLen + 1
        PROVE  StreamByte(offset[i] + j)' = Bytes(due[i])[j]
    <3>4. due[i].len \in Nat /\ offset[i] \in Nat
      BY <1>5, <1>8
    <3>1. j \in Nat /\ offset[i] \in Nat /\ offset[i] + j >= 1
      BY <3>4
    <3>2. CASE offset[i] + j <= StreamLen
      BY <1>5, <1>11, <2>4, <3>1, <3>2
    <3>3. CASE offset[i] + j = StreamLen + 1
      <4>1. i = Len(due)
        <5> SUFFICES ASSUME i # Len(due) PROVE FALSE
          BY Zenon
        <5>1. i < Len(due) /\ Len(due) \in 1..(Len(due) + 1)
          BY <1>5
        <5>2. offset[i] + 2 + due[i].len <= offset[Len(due)]
          BY <1>10, <5>1
        <5>3. offset[Len(due)] \in Nat /\ due[i].len \in Nat
          BY <1>5, <1>8, <5>1
        <5>4. offset[i] + j <= offset[Len(due)]
          BY <3>1, <5>2, <5>3, SMTT(30)
        <5>5. offset[Len(due)] <= StreamLen
          BY <2>6, <2>10, <5>3
        <5> QED BY <2>9, <3>1, <3>3, <5>3, <5>4, <5>5
      <4>2. j = sending.sent + 1
        BY <2>6, <2>10, <3>1, <3>3, <4>1, SMTT(30)
      <4> QED BY <2>0, <2>4, <2>6, <3>3, <4>1, <4>2
    <3>5. \A x, y \in Nat : x <= y + 1 => x <= y \/ x = y + 1
      OBVIOUS
    <3>6. offset[i] + j \in Nat
      BY <3>1
    <3> QED BY <2>7, <2>9, <3>2, <3>3, <3>5, <3>6
  <2>8. Offsets(offset)'
    <3>1. offset[Len(due') + 1] = StreamLen' + 2 + sending'.frame.len - sending'.sent
      <4>1. \A y, l, z \in Nat : y + 2 + l - z = (y + 1) + 2 + l - (z + 1)
        OBVIOUS
      <4>2. StreamLen + 2 + sending.frame.len - sending.sent
              = (StreamLen + 1) + 2 + sending.frame.len - (sending.sent + 1)
        BY <2>9, <2>10, <4>1
      <4> QED BY <1>12, <2>2, <2>3, <2>11, <4>2, Zenon
    <3> QED BY <1>8, <1>9, <1>10, <2>2, <2>7, <2>11, <3>1 DEF Offsets
  <2>12. sending'.sent \in 1..(2 + sending'.frame.len)
    BY <2>3, <2>10
  <2>13. wire' \in Seq(ByteSet) /\ unparsed' \in Seq(ByteSet) /\ due' \in Seq(Frames)
         /\ (due' # << >> => due'[Len(due')] = sending'.frame)
    BY <1>2, <1>3, <2>2, <2>3, <2>4
  <2> QED BY <1>4, <2>3, <2>8, <2>12, <2>13 DEF TcpInv
<1>7. CASE ~(sending.sent < Len(Bytes(sending.frame)))
  <2>1. PICK size : size \in 0..MaxFrame /\
           LET fr == Frame(1 - sending.frame.id, size) IN
           /\ wire' = Append(wire, Bytes(fr)[1])
           /\ sending' = [frame |-> fr, sent |-> 1]
           /\ due' = Append(due, fr)
    BY <1>7, Zenon DEF PeerSends
  <2>0. PICK fr, b : fr = Frame(1 - sending.frame.id, size) /\ b = Bytes(fr)[1]
    OBVIOUS
  <2>2. fr \in Frames
    BY <1>2, <2>0, <2>1, SMTT(30) DEF Frame, Frames
  <2>3. b \in ByteSet /\ fr.len \in Nat
    BY <2>0, <2>2, BytesFacts
  <2>4. wire' = Append(wire, b) /\ sending' = [frame |-> fr, sent |-> 1]
        /\ due' = Append(due, fr)
    BY <2>0, <2>1
  <2>5. /\ wire' \in Seq(ByteSet) /\ StreamLen \in Nat /\ StreamLen' = StreamLen + 1
        /\ \A x \in 1..StreamLen : StreamByte(x)' = StreamByte(x)
        /\ \A x \in Nat : x = StreamLen + 1 => StreamByte(x)' = b
    BY <1>2, <1>3, <2>3, <2>4, AppendByte, Zenon
  <2>6. /\ due' \in Seq(Frames) /\ Len(due') = Len(due) + 1 /\ due'[Len(due')] = fr
        /\ \A i \in 1..Len(due) : due'[i] = due[i]
    BY <1>2, <2>2, <2>4, AppendProperties
  <2>7. sending.sent = 2 + sending.frame.len
    <3>1. Len(Bytes(sending.frame)) = 2 + sending.frame.len
      BY <1>2, BytesFacts, Zenon
    <3>2. sending.sent \in Nat /\ sending.sent <= 2 + sending.frame.len
      BY <1>2, SMTT(30)
    <3> QED BY <1>2, <1>7, <3>1, <3>2
  <2>23. StreamLen \in Nat
    BY <2>5
  <2>25. StreamLen' = StreamLen + 1
    BY <2>5
  <2>24. sending.frame.len \in Nat
    BY <1>2
  <2>8. offset[Len(due) + 1] = StreamLen
    BY <1>12, <2>7, <2>23, <2>24, SMTT(30)
  <2>21. PICK n, total : n = Len(due) + 1 /\ total = StreamLen + 2 + fr.len
    OBVIOUS
  <2>22. PICK new : new = [i \in 1..(n + 1) |-> IF i <= n THEN offset[i] ELSE total]
    BY Zenon
  <2>9. n \in Nat /\ n >= 1 /\ total \in Nat /\ Len(due') = n /\ offset[n] = StreamLen
    BY <1>5, <2>3, <2>6, <2>8, <2>21, <2>23
  <2>10. /\ new \in [1..(Len(due') + 1) -> Nat] /\ new[1] = 0
         /\ new[n + 1] = total /\ \A i \in 1..n : new[i] = offset[i] /\ new[i] \in Nat
    BY <1>8, <2>9, <2>21, <2>22, SMTT(30)
  <2>11. \A i \in 1..n : i # n => i \in 1..Len(due) /\ due'[i] = due[i]
    BY <1>5, <2>6, <2>9, <2>21, SMTT(30)
  <2>12. due'[n] = fr /\ total = StreamLen + 2 + fr.len
    BY <2>6, <2>9, <2>21, Zenon
  <2>13. ASSUME NEW i \in 1..Len(due') PROVE new[i + 1] = new[i] + 2 + due'[i].len
    <3>1. CASE i = n
      BY <2>9, <2>10, <2>12, <3>1, Zenon
    <3>2. CASE i # n
      <4>1. i \in 1..Len(due) /\ due'[i] = due[i] /\ i \in 1..n /\ i + 1 \in 1..n
        BY <2>9, <2>11, <3>2
      <4> QED BY <1>9, <2>10, <4>1, Zenon
    <3> QED BY <3>1, <3>2, Zenon
  <2>14. ASSUME NEW i \in 1..Len(due'), i # n
         PROVE  /\ i \in 1..Len(due) /\ due'[i] = due[i] /\ new[i] = offset[i]
                /\ offset[i] \in Nat /\ due[i].len \in Nat
                /\ offset[i] + 2 + due[i].len <= StreamLen
    <3>1. i \in 1..Len(due) /\ due'[i] = due[i] /\ i \in 1..n /\ i < n
      BY <2>9, <2>11, <2>14, SMTT(30)
    <3>2. n \in 1..(Len(due) + 1)
      BY <2>9, <2>21
    <3>3. offset[i] + 2 + due[i].len <= offset[n]
      BY <1>10, <3>1, <3>2
    <3> QED BY <1>5, <2>9, <2>10, <3>1, <3>3, Zenon
  <2>15. ASSUME NEW i \in 1..Len(due'), NEW k \in 1..(Len(due') + 1), i < k
         PROVE  new[i] + 2 + due'[i].len <= new[k]
    <3>1. CASE i = n
      BY <2>9, <2>10, <2>12, <2>15, <3>1
    <3>2. CASE i # n /\ k = n + 1
      <4>1. \A x, y, l \in Nat : x <= y => x <= y + 2 + l
        BY SMTT(30)
      <4>2. /\ offset[i] + 2 + due[i].len \in Nat /\ offset[i] + 2 + due[i].len <= StreamLen
            /\ new[i] = offset[i] /\ due'[i] = due[i]
        BY <2>14, <3>2, SMTT(30)
      <4> QED BY <2>3, <2>10, <2>12, <2>23, <3>2, <4>1, <4>2, SMTT(30)
    <3>3. CASE i # n /\ k # n + 1
      <4>1. k \in 1..n /\ k \in 1..(Len(due) + 1)
        BY <2>9, <2>21, <3>3, SMTT(30)
      <4>2. offset[i] + 2 + due[i].len <= offset[k]
        BY <1>10, <2>14, <2>15, <3>3, <4>1, Zenon
      <4> QED BY <2>10, <2>14, <3>3, <4>1, <4>2, Zenon
    <3> QED BY <3>1, <3>2, <3>3, SMTT(30)
  <2>16. ASSUME NEW i \in 1..Len(due'), NEW j \in 1..(2 + due'[i].len), new[i] + j <= StreamLen'
         PROVE  StreamByte(new[i] + j)' = Bytes(due'[i])[j]
    <3>1. CASE i = n
      <4>1. new[i] = StreamLen /\ due'[i] = fr
        BY <2>9, <2>10, <2>12, <3>1, Zenon
      <4>2. j = 1 /\ new[i] + j = StreamLen + 1
        <5>1. j \in Nat /\ j >= 1
          BY <2>3, <4>1, SMTT(30)
        <5>2. \A y, x \in Nat : x >= 1 /\ y + x <= y + 1 => x = 1
          OBVIOUS
        <5> QED BY <2>16, <2>23, <2>25, <4>1, <5>1, <5>2, Zenon
      <4> QED BY <2>0, <2>5, <4>1, <4>2
    <3>2. CASE i # n
      <4>1. /\ i \in 1..Len(due) /\ due'[i] = due[i] /\ new[i] = offset[i]
            /\ offset[i] \in Nat /\ due[i].len \in Nat
            /\ offset[i] + 2 + due[i].len <= StreamLen
        BY <2>14, <3>2, Zenon
      <4>2. j \in 1..(2 + due[i].len) /\ offset[i] + j \in 1..StreamLen /\ offset[i] + j <= StreamLen
        <5>1. j \in 1..(2 + due[i].len) /\ j \in Nat
          BY <4>1, SMTT(30)
        <5>2. offset[i] + j <= StreamLen
          BY <2>23, <4>1, <5>1, SMTT(30)
        <5> QED BY <2>23, <4>1, <5>1, <5>2, SMTT(30)
      <4> QED BY <1>11, <2>5, <4>1, <4>2, Zenon
    <3> QED BY <3>1, <3>2, Zenon
  <2>17. sending'.frame = fr /\ sending'.sent = 1 /\ sending' \in [frame : Frames, sent : Nat]
    BY <2>2, <2>4, Zenon
  <2>18. new[Len(due') + 1] = StreamLen' + 2 + sending'.frame.len - sending'.sent
    <3>2. \A y, l \in Nat : (y + 1) + 2 + l - 1 = y + 2 + l
      OBVIOUS
    <3>3. new[Len(due') + 1] = StreamLen + 2 + fr.len
      BY <2>9, <2>10, <2>12
    <3>4. (StreamLen + 1) + 2 + fr.len - 1 = StreamLen + 2 + fr.len
      BY <2>3, <2>23, <3>2, Zenon
    <3> QED BY <2>17, <2>25, <3>3, <3>4
  <2>19. Offsets(new)'
    BY <2>10, <2>13, <2>15, <2>16, <2>18, Zenon DEF Offsets
  <2>20. sending'.sent \in 1..(2 + sending'.frame.len)
    BY <2>3, <2>17, SMTT(30)
  <2> QED BY <1>2, <1>3, <1>4, <2>5, <2>6, <2>17, <2>19, <2>20, Zenon DEF TcpInv
<1> QED BY <1>6, <1>7

\* The bytes that were read are still those of the stream.
LEMMA ReadBytes ==
    ASSUME unparsed \in Seq(ByteSet), wire \in Seq(ByteSet), NEW n \in 1..Len(wire),
           unparsed' = unparsed \o SubSeq(wire, 1, n), wire' = SubSeq(wire, n + 1, Len(wire))
    PROVE  /\ unparsed' \in Seq(ByteSet) /\ wire' \in Seq(ByteSet)
           /\ Len(unparsed') = Len(unparsed) + n
           /\ StreamLen' = StreamLen
           /\ \A x \in 1..StreamLen : StreamByte(x)' = StreamByte(x)
<1>1. Len(unparsed) \in Nat /\ Len(wire) \in Nat /\ \A i \in 1..Len(wire) : wire[i] \in ByteSet
  OBVIOUS
<1>2. PICK first, rest : first = SubSeq(wire, 1, n) /\ rest = SubSeq(wire, n + 1, Len(wire))
  BY Zenon
<1>3. /\ first \in Seq(ByteSet) /\ Len(first) = n
      /\ \A i \in 1..n : first[i] = wire[i]
  BY <1>1, <1>2, SubSeqProperties
<1>4. /\ rest \in Seq(ByteSet) /\ Len(rest) = Len(wire) - n
      /\ \A i \in 1..(Len(wire) - n) : rest[i] = wire[n + i]
  BY <1>1, <1>2, SubSeqProperties
<1>5. /\ unparsed' \in Seq(ByteSet) /\ Len(unparsed') = Len(unparsed) + n
      /\ \A i \in 1..(Len(unparsed) + n) :
            unparsed'[i] = IF i <= Len(unparsed) THEN unparsed[i] ELSE first[i - Len(unparsed)]
  BY <1>2, <1>3, ConcatProperties, SMTT(30)
<1>6. wire' = rest
  BY <1>2
<1>7. StreamLen' = StreamLen
  <2>1. Len(unparsed') = Len(unparsed) + n /\ Len(wire') = Len(wire) - n
    BY <1>4, <1>5, <1>6, Zenon
  <2>2. \A u, w \in Nat : (u + n) + (w - n) = u + w
    BY <1>1
  <2> QED BY <1>1, <2>1, <2>2, Zenon DEF StreamLen
<1>8. ASSUME NEW x \in 1..StreamLen PROVE StreamByte(x)' = StreamByte(x)
  <2>1. x \in 1..(Len(unparsed) + Len(wire))
    BY Zenon DEF StreamLen
  <2>2. CASE x <= Len(unparsed)
    BY <1>1, <1>5, <2>1, <2>2 DEF StreamByte
  <2>3. CASE x > Len(unparsed) /\ x <= Len(unparsed) + n
    <3>1. unparsed'[x] = first[x - Len(unparsed)]
      BY <1>1, <1>5, <2>1, <2>3, SMTT(30)
    <3>2. first[x - Len(unparsed)] = wire[x - Len(unparsed)]
      BY <1>1, <1>3, <2>1, <2>3, SMTT(30)
    <3> QED BY <1>1, <1>5, <2>1, <2>3, <3>1, <3>2 DEF StreamByte
  <2>4. CASE x > Len(unparsed) + n
    <3>1. rest[x - (Len(unparsed) + n)] = wire[n + (x - (Len(unparsed) + n))]
      <4>1. x - (Len(unparsed) + n) \in 1..(Len(wire) - n)
        BY <1>1, <2>1, <2>4
      <4> QED BY <1>4, <4>1, Zenon
    <3>2. n + (x - (Len(unparsed) + n)) = x - Len(unparsed)
      BY <1>1, <2>1
    <3> QED BY <1>1, <1>5, <1>6, <2>1, <2>4, <3>1, <3>2, SMTT(30) DEF StreamByte
  <2> QED BY <1>1, <2>1, <2>2, <2>3, <2>4
<1> QED BY <1>4, <1>5, <1>6, <1>7, <1>8, Zenon

\* The frames that are due begin with the one at the front of the buffer.
LEMMA FrontFrame ==
    ASSUME TcpInv, Len(unparsed) >= 1
    PROVE  /\ due # << >> /\ due[1] \in Frames
           /\ PacketLen = due[1].len /\ PacketLen \in Nat
           /\ \A j \in 1..(2 + PacketLen) : j <= Len(unparsed) => unparsed[j] = Bytes(due[1])[j]
<1>1. PICK offset : Offsets(offset)
  BY DEF TcpInv
<1>2. /\ unparsed \in Seq(ByteSet) /\ wire \in Seq(ByteSet) /\ due \in Seq(Frames)
      /\ sending.frame.len \in Nat /\ sending.sent \in 1..(2 + sending.frame.len)
  BY BytesFacts DEF TcpInv
<1>3. Len(unparsed) \in Nat /\ Len(wire) \in Nat /\ Len(due) \in Nat
  BY <1>2
<1>4. StreamLen >= Len(unparsed) /\ StreamLen \in Nat
  BY <1>3 DEF StreamLen
<1>5. due # << >>
  <2> SUFFICES ASSUME Len(due) = 0 PROVE FALSE
    BY <1>2
  <2>1. 0 = StreamLen + 2 + sending.frame.len - sending.sent
    BY <1>1 DEF Offsets
  <2> QED BY <1>2, <1>4, <2>1, SMTT(30)
<1>6. 1 \in 1..Len(due) /\ due[1] \in Frames /\ due[1].len \in Nat
  BY <1>2, <1>5, BytesFacts, SMTT(30)
<1>7. ASSUME NEW j \in 1..(2 + due[1].len), j <= Len(unparsed) PROVE unparsed[j] = Bytes(due[1])[j]
  <2>1. offset[1] + j = j /\ j <= StreamLen
    BY <1>1, <1>4, <1>6, <1>7, <1>3 DEF Offsets
  <2>2. StreamByte(offset[1] + j) = Bytes(due[1])[j]
    BY <1>1, <1>6, <2>1, Zenon DEF Offsets
  <2> QED BY <1>7, <2>1, <2>2 DEF StreamByte
<1>8. unparsed[1] = <<"high", due[1].len>>
  <2>1. Bytes(due[1])[1] = <<"high", due[1].len>>
    BY <1>6, BytesFacts
  <2>2. 1 \in 1..(2 + due[1].len) /\ 1 <= Len(unparsed)
    BY <1>3, <1>6
  <2> QED BY <1>7, <2>1, <2>2, Zenon
<1> QED BY <1>5, <1>6, <1>7, <1>8 DEF PacketLen

\* TcpConnectionHandler::OnUvRead() appends a chunk to the buffer.
LEMMA OnUvReadInv == ASSUME TcpInv, OnUvRead PROVE TcpInv'
<1>1. PICK offset : Offsets(offset)
  BY DEF TcpInv
<1>2. PICK n \in 1..MaxWire :
         /\ n <= Room /\ n <= Len(wire)
         /\ unparsed' = unparsed \o SubSeq(wire, 1, n)
         /\ wire' = SubSeq(wire, n + 1, Len(wire))
  BY Zenon DEF OnUvRead
<1>3. unparsed \in Seq(ByteSet) /\ wire \in Seq(ByteSet) /\ Len(wire) \in Nat /\ Len(unparsed) \in Nat
  BY DEF TcpInv
<1>4. n \in 1..Len(wire) /\ n <= Room
  BY <1>2, <1>3, TcpAssumption
<1>5. /\ unparsed' \in Seq(ByteSet) /\ wire' \in Seq(ByteSet)
      /\ Len(unparsed') = Len(unparsed) + n
      /\ StreamLen' = StreamLen
      /\ \A x \in 1..StreamLen : StreamByte(x)' = StreamByte(x)
  BY <1>2, <1>3, <1>4, ReadBytes, Zenon
<1>6. tcpState = "open" /\ ~parsing /\ parsing' = TRUE
      /\ UNCHANGED <<frameStart, tcpState, sending, due, wrong>>
  BY DEF OnUvRead
<1>7. \A i \in 1..Len(due) : \A j \in 1..(2 + due[i].len) : offset[i] + j \in Nat \ {0}
  <2>1. \A i \in 1..Len(due) : due[i].len \in Nat /\ offset[i] \in Nat
    <3>1. due \in Seq(Frames) /\ Len(due) \in Nat
      BY DEF TcpInv
    <3>2. offset \in [1..(Len(due) + 1) -> Nat]
      BY <1>1 DEF Offsets
    <3>3. \A i \in 1..Len(due) : i \in 1..(Len(due) + 1) /\ due[i] \in Frames
      BY <3>1
    <3> QED BY <3>2, <3>3, BytesFacts, Zenon
  <2> QED BY <2>1
<1>8. StreamLen \in Nat
  BY <1>3 DEF StreamLen
<1>9. Offsets(offset)'
  <2>1. \A i \in 1..Len(due) : \A j \in 1..(2 + due[i].len) :
           offset[i] + j <= StreamLen => StreamByte(offset[i] + j)' = Bytes(due[i])[j]
    <3> SUFFICES ASSUME NEW i \in 1..Len(due), NEW j \in 1..(2 + due[i].len),
                        offset[i] + j <= StreamLen
                 PROVE  StreamByte(offset[i] + j)' = Bytes(due[i])[j]
      BY Zenon
    <3>1. offset[i] + j \in 1..StreamLen
      BY <1>7, <1>8
    <3>2. StreamByte(offset[i] + j) = Bytes(due[i])[j]
      BY <1>1, Zenon DEF Offsets
    <3> QED BY <1>5, <3>1, <3>2, Zenon
  <2> QED BY <1>1, <1>5, <1>6, <2>1, Zenon DEF Offsets
<1>10. StreamGoesOn'
  <2>1. frameStart \in 0..BufferSize /\ BufferDataLen \in 0..BufferSize
    BY DEF TcpInv, StreamGoesOn, TcpTypeOK
  <2>2. BufferDataLen' = BufferDataLen + n
    BY <1>3, <1>5, <1>6, <2>1, TcpAssumption DEF BufferDataLen
  <2>3. BufferDataLen' \in 0..BufferSize
    BY <1>4, <2>1, <2>2, TcpAssumption DEF Room
  <2> QED BY <1>6, <2>1, <2>3 DEF TcpInv, StreamGoesOn, TcpTypeOK, PacketsExact, RoomToRead,
                                  NothingHeldBack, OnlyTooBigFails
<1> QED BY <1>5, <1>6, <1>9, <1>10, Zenon DEF TcpInv

\* A whole frame at the front is the first that is due, and is given to the listener.
LEMMA ParseFrameInv ==
    ASSUME TcpInv, parsing, tcpState = "open", Whole, ParseFrame, UNCHANGED <<wire, sending>>
    PROVE  TcpInv'
<1>1. PICK offset : Offsets(offset)
  BY Zenon DEF TcpInv
<1>2. PICK size, end : size = PacketLen /\ end = 2 + size
  OBVIOUS
<1>3. /\ unparsed \in Seq(ByteSet) /\ wire \in Seq(ByteSet) /\ due \in Seq(Frames)
      /\ Len(unparsed) \in Nat /\ Len(wire) \in Nat /\ Len(due) \in Nat
      /\ sending.frame.len \in Nat /\ sending.sent \in 1..(2 + sending.frame.len)
  BY BytesFacts DEF TcpInv
<1>4. /\ due # << >> /\ due[1] \in Frames /\ due[1].len = size /\ size \in Nat /\ end = 2 + size
      /\ end <= Len(unparsed)
      /\ \A j \in 1..end : unparsed[j] = Bytes(due[1])[j]
  BY <1>2, <1>3, FrontFrame DEF Whole
<1>5. PICK packet, rest : packet = SubSeq(unparsed, 3, end)
                          /\ rest = SubSeq(unparsed, end + 1, Len(unparsed))
  BY Zenon
<1>6. /\ Give(packet) /\ unparsed' = rest
      /\ frameStart' = IF frameStart + end = BufferSize THEN 0 ELSE frameStart + end
      /\ parsing' = (unparsed' # << >>)
      /\ wire' = wire /\ sending' = sending
  BY <1>2, <1>5 DEF ParseFrame
<1>7. \A i \in 1..Len(unparsed) : unparsed[i] \in ByteSet
  BY <1>3
<1>8. packet \in Seq(ByteSet) /\ Len(packet) = size
      /\ \A i \in 1..size : packet[i] = unparsed[i + 2]
  <2>1. end \in Int /\ \A i \in 3..end : unparsed[i] \in ByteSet
    BY <1>3, <1>4, <1>7, SMTT(30)
  <2>2. /\ packet \in Seq(ByteSet) /\ Len(packet) = IF 3 <= end THEN end - 3 + 1 ELSE 0
        /\ \A i \in 1..(end - 3 + 1) : packet[i] = unparsed[3 + i - 1]
    BY <1>5, <2>1, SubSeqProperties
  <2>3. end - 3 + 1 = size /\ \A i \in 1..size : 3 + i - 1 = i + 2
    BY <1>4
  <2> QED BY <1>4, <2>2, <2>3
<1>9. /\ rest \in Seq(ByteSet) /\ Len(rest) = Len(unparsed) - end
      /\ \A i \in 1..(Len(unparsed) - end) : rest[i] = unparsed[end + i]
  <2>1. end + 1 \in Int /\ \A i \in (end + 1)..Len(unparsed) : unparsed[i] \in ByteSet
    BY <1>3, <1>4, <1>7
  <2>2. /\ rest \in Seq(ByteSet)
        /\ Len(rest) = IF end + 1 <= Len(unparsed) THEN Len(unparsed) - (end + 1) + 1 ELSE 0
        /\ \A i \in 1..(Len(unparsed) - (end + 1) + 1) : rest[i] = unparsed[end + 1 + i - 1]
    <3>1. PICK m \in Int, u \in Int : m = end + 1 /\ u = Len(unparsed)
      BY <1>3, <2>1
    <3>2. rest = SubSeq(unparsed, m, u) /\ \A i \in m..u : unparsed[i] \in ByteSet
      BY <1>5, <2>1, <3>1
    <3>3. /\ rest \in Seq(ByteSet)
          /\ Len(rest) = IF m <= u THEN u - m + 1 ELSE 0
          /\ \A i \in 1..(u - m + 1) : rest[i] = unparsed[m + i - 1]
      BY <3>2, SubSeqProperties, SMTT(30)
    <3> QED BY <3>1, <3>3, Zenon
  <2>3. /\ Len(unparsed) - (end + 1) + 1 = Len(unparsed) - end
        /\ \A i \in 1..(Len(unparsed) - end) : end + 1 + i - 1 = end + i
    BY <1>3, <1>4
  <2>4. Len(rest) = Len(unparsed) - end
    <3>1. \A u \in Nat : end <= u =>
             (IF end + 1 <= u THEN u - (end + 1) + 1 ELSE 0) = u - end
      BY <1>4
    <3>2. Len(unparsed) \in Nat /\ end <= Len(unparsed)
      BY <1>3, <1>4
    <3>3. Len(rest) = IF end + 1 <= Len(unparsed) THEN Len(unparsed) - (end + 1) + 1 ELSE 0
      BY <2>2
    <3> QED BY <3>1, <3>2, <3>3
  <2>5. ASSUME NEW i \in 1..(Len(unparsed) - end) PROVE rest[i] = unparsed[end + i]
    BY <2>2, <2>3
  <2> QED BY <2>2, <2>4, <2>5
<1>10. packet = Packet(due[1])
  <2>1. Packet(due[1]) \in Seq(ByteSet) /\ Len(Packet(due[1])) = size
        /\ \A i \in 1..size : Packet(due[1])[i] = Bytes(due[1])[i + 2]
    BY <1>4, BytesFacts, Zenon
  <2>2. ASSUME NEW i \in 1..size PROVE packet[i] = Packet(due[1])[i]
    <3>1. i + 2 \in 1..end
      BY <1>4
    <3> QED BY <1>4, <1>8, <2>1, <3>1, Zenon
  <2> QED BY <1>8, <2>1, <2>2, SeqEqual
<1>11. wrong' = FALSE /\ due' = Tail(due) /\ tcpState' \in {"open", "closed"}
  <2>1. Head(due) = due[1]
    BY <1>3, <1>4
  <2> QED BY <1>4, <1>6, <1>10, <2>1, Zenon DEF Give
<1>12. /\ due' \in Seq(Frames) /\ Len(due') = Len(due) - 1 /\ Len(due) >= 1
       /\ \A i \in 1..Len(due') : due'[i] = due[i + 1]
  BY <1>3, <1>4, <1>11, HeadTailProperties
<1>13. due' # << >> => due'[Len(due')] = sending'.frame
  <2> SUFFICES ASSUME due' # << >> PROVE due'[Len(due')] = sending'.frame
    BY Zenon
  <2>1. Len(due') \in 1..Len(due') /\ Len(due') + 1 = Len(due)
    BY <1>3, <1>12
  <2> QED BY <1>4, <1>6, <1>12, <2>1, Zenon DEF TcpInv
<1>14. StreamGoesOn'
  <2>1. frameStart \in 0..BufferSize /\ frameStart + Len(unparsed) <= BufferSize /\ BufferSize \in Nat
    BY <1>3, TcpAssumption, SMTT(30) DEF TcpInv, StreamGoesOn, TcpTypeOK, BufferDataLen
  <2>2. Len(unparsed') = Len(unparsed) - end /\ Len(unparsed') \in Nat
    BY <1>3, <1>4, <1>6, <1>9
  <2>3. frameStart' \in 0..BufferSize /\ BufferDataLen' \in 0..BufferSize
    <3>1. PICK u \in Nat, f \in Nat : u = Len(unparsed) /\ f = frameStart
      BY <1>3, <2>1
    <3>2. end \in Nat /\ end <= u /\ f + u <= BufferSize
      BY <1>4, <2>1, <3>1
    <3>3. frameStart' = IF f + end = BufferSize THEN 0 ELSE f + end
      BY <1>6, <3>1
    <3>4. BufferDataLen' = frameStart' + (u - end)
      BY <2>2, <3>1 DEF BufferDataLen
    <3> QED BY <2>1, <3>2, <3>3, <3>4
  <2>4. RoomToRead'
    <3> SUFFICES ASSUME ~parsing' PROVE Room' > 0
      BY DEF RoomToRead
    <3>1. Len(unparsed') = 0
      BY <1>6, Zenon
    <3>2. frameStart' < BufferSize /\ frameStart' \in Nat
      BY <1>3, <1>4, <1>6, <2>1, <2>2, <3>1, TcpAssumption, SMTT(60)
    <3>3. \A f \in Nat : f < BufferSize => BufferSize - (f + 0) > 0
      BY <2>1, SMTT(30)
    <3> QED BY <3>1, <3>2, <3>3 DEF Room, BufferDataLen
  <2>5. NothingHeldBack'
    <3> SUFFICES ASSUME ~parsing' PROVE ~Whole'
      BY DEF NothingHeldBack
    <3>1. Len(unparsed') = 0
      BY <1>6, Zenon
    <3> QED BY <3>1 DEF Whole
  <2>6. parsing' \in BOOLEAN
    BY <1>6
  <2> QED BY <1>11, <2>3, <2>4, <2>5, <2>6 DEF StreamGoesOn, TcpTypeOK, PacketsExact, OnlyTooBigFails
<1>15. \E new : Offsets(new)'
  <2>1. PICK new : new = [i \in 1..Len(due) |-> offset[i + 1] - end]
    BY Zenon
  <2>2. /\ \A i \in 1..(Len(due) + 1) : offset[i] \in Nat
        /\ \A i \in 1..Len(due) : offset[i + 1] = offset[i] + 2 + due[i].len
        /\ \A i \in 1..Len(due), k \in 1..(Len(due) + 1) :
              i < k => offset[i] + 2 + due[i].len <= offset[k]
    BY <1>1, <1>3, Zenon DEF Offsets
  <2>3. \A i \in 1..Len(due) : offset[i + 1] >= end
    <3> TAKE i \in 1..Len(due)
    <3>1. 1 \in 1..Len(due) /\ i + 1 \in 1..(Len(due) + 1) /\ 1 < i + 1
      BY <1>3, <1>12
    <3>2. offset[1] + 2 + due[1].len <= offset[i + 1] /\ offset[1] = 0
      BY <1>1, <2>2, <3>1, Zenon DEF Offsets
    <3> QED BY <1>4, <3>2
  <2>4. /\ new \in [1..Len(due) -> Nat]
        /\ \A i \in 1..Len(due) : new[i] = offset[i + 1] - end /\ new[i] \in Nat
                                  /\ offset[i + 1] \in Nat
    <3>1. \A i \in 1..Len(due) : i + 1 \in 1..(Len(due) + 1)
      BY <1>3
    <3>2. \A i \in 1..Len(due) : offset[i + 1] \in Nat /\ offset[i + 1] - end \in Nat
      BY <1>4, <2>2, <2>3, <3>1
    <3> QED BY <2>1, <3>2, Zenon
  <2>5. new[1] = 0
    <3>1. offset[2] = end
      <4>1. 1 \in 1..Len(due) /\ offset[1] = 0
        BY <1>1, <1>3, <1>12 DEF Offsets
      <4>2. offset[1 + 1] = offset[1] + 2 + due[1].len
        BY <2>2, <4>1
      <4> QED BY <1>4, <4>1, <4>2
    <3>2. 1 \in 1..Len(due) /\ 1 + 1 = 2
      BY <1>3, <1>12
    <3>3. new[1] = offset[2] - end
      BY <2>4, <3>2
    <3> QED BY <1>4, <3>1, <3>3, SMTT(30)
  <2>6. \A i \in 1..Len(due') : /\ i \in 1..Len(due) /\ i + 1 \in 1..Len(due)
                               /\ due'[i] = due[i + 1] /\ due[i + 1].len \in Nat
    <3> TAKE i \in 1..Len(due')
    <3>1. i \in 1..Len(due) /\ i + 1 \in 1..Len(due)
      BY <1>3, <1>12
    <3>2. due[i + 1] \in Frames
      BY <1>3, <3>1
    <3> QED BY <1>12, <3>1, <3>2, BytesFacts, Zenon
  <2>7. ASSUME NEW i \in 1..Len(due') PROVE new[i + 1] = new[i] + 2 + due'[i].len
    <3>1. new[i + 1] = offset[i + 1 + 1] - end /\ new[i] = offset[i + 1] - end
      BY <2>4, <2>6, Zenon
    <3>2. offset[i + 1 + 1] = offset[i + 1] + 2 + due[i + 1].len
      BY <2>2, <2>6, Zenon
    <3>3. offset[i + 1] \in Nat /\ due'[i] = due[i + 1] /\ due[i + 1].len \in Nat
      BY <2>4, <2>6, Zenon
    <3>4. \A x, l \in Nat : (x + 2 + l) - end = (x - end) + 2 + l
      BY <1>4
    <3> QED BY <3>1, <3>2, <3>3, <3>4, Zenon
  <2>8. ASSUME NEW i \in 1..Len(due'), NEW k \in 1..(Len(due') + 1), i < k
        PROVE  new[i] + 2 + due'[i].len <= new[k]
    <3>1. k \in 1..Len(due) /\ k + 1 \in 1..(Len(due) + 1) /\ i + 1 < k + 1
      BY <1>3, <1>12, <2>8
    <3>2. offset[i + 1] + 2 + due[i + 1].len <= offset[k + 1]
      BY <2>2, <2>6, <3>1, Zenon
    <3>3. /\ new[i] = offset[i + 1] - end /\ new[k] = offset[k + 1] - end
          /\ offset[i + 1] \in Nat /\ offset[k + 1] \in Nat
          /\ due'[i] = due[i + 1] /\ due[i + 1].len \in Nat
      BY <2>4, <2>6, <3>1, Zenon
    <3>4. \A x, l, y \in Nat : x + 2 + l <= y => (x - end) + 2 + l <= y - end
      BY <1>4
    <3> QED BY <3>2, <3>3, <3>4, Zenon
  <2>9. StreamLen' = StreamLen - end /\ StreamLen \in Nat /\ StreamLen >= Len(unparsed)
    <3>1. \A u, w \in Nat : (u - end) + w = (u + w) - end /\ u + w >= u /\ u + w \in Nat
      BY <1>4, SMTT(30)
    <3>2. Len(unparsed') = Len(unparsed) - end /\ wire' = wire
      BY <1>6, <1>9
    <3>3. StreamLen = Len(unparsed) + Len(wire) /\ StreamLen' = (Len(unparsed) - end) + Len(wire)
      BY <3>2 DEF StreamLen
    <3>4. Len(unparsed) \in Nat /\ Len(wire) \in Nat
      BY <1>3
    <3> QED BY <3>1, <3>3, <3>4, Zenon
  <2>10. ASSUME NEW x \in Nat, x >= 1, x + end <= StreamLen
         PROVE  StreamByte(x)' = StreamByte(x + end)
    <3>1. x + end <= Len(unparsed) + Len(wire)
      BY <2>10 DEF StreamLen
    <3>2. CASE x + end <= Len(unparsed)
      <4>1. x \in 1..(Len(unparsed) - end) /\ x <= Len(unparsed') /\ end + x = x + end
        BY <1>3, <1>4, <1>6, <1>9, <2>10, <3>2, SMTT(30)
      <4>2. StreamByte(x)' = rest[x]
        BY <1>6, <4>1, Zenon DEF StreamByte
      <4>3. StreamByte(x + end) = unparsed[x + end]
        BY <3>2 DEF StreamByte
      <4> QED BY <1>9, <4>1, <4>2, <4>3
    <3>3. CASE ~(x + end <= Len(unparsed))
      <4>1. ~(x <= Len(unparsed')) /\ x - Len(unparsed') = x + end - Len(unparsed)
        BY <1>3, <1>4, <1>6, <1>9, <3>3, SMTT(30)
      <4>2. StreamByte(x)' = wire[x - Len(unparsed')]
        BY <1>6, <4>1, Zenon DEF StreamByte
      <4>3. StreamByte(x + end) = wire[x + end - Len(unparsed)]
        BY <1>3, <1>4, <3>3, SMTT(30) DEF StreamByte
      <4> QED BY <4>1, <4>2, <4>3
    <3> QED BY <3>2, <3>3
  <2>11. ASSUME NEW i \in 1..Len(due'), NEW j \in 1..(2 + due'[i].len), new[i] + j <= StreamLen'
         PROVE  StreamByte(new[i] + j)' = Bytes(due'[i])[j]
    <3>1. /\ new[i] = offset[i + 1] - end /\ offset[i + 1] \in Nat /\ new[i] \in Nat
          /\ due'[i] = due[i + 1] /\ due[i + 1].len \in Nat /\ i + 1 \in 1..Len(due)
      BY <2>4, <2>6, Zenon
    <3>2. j \in 1..(2 + due[i + 1].len) /\ j \in Nat /\ j >= 1
      BY <3>1
    <3>3. PICK x \in Nat : x = new[i] + j
      BY <3>1, <3>2
    <3>4. x >= 1 /\ x + end <= StreamLen /\ x + end = offset[i + 1] + j
      <4>1. PICK y \in Nat, r \in Nat : y = offset[i + 1] /\ r = StreamLen
        BY <2>9, <3>1, Zenon
      <4>2. x = (y - end) + j /\ x <= r - end
        BY <2>9, <2>11, <3>1, <3>3, <4>1, Zenon
      <4>4. x + end = y + j /\ y + j <= r
        BY <1>4, <3>2, <4>2
      <4>3. x + end = offset[i + 1] + j /\ offset[i + 1] + j <= StreamLen
        BY <4>1, <4>4
      <4> QED BY <3>1, <3>2, <3>3, <4>3, SMTT(30)
    <3>5. StreamByte(x)' = StreamByte(x + end)
      BY <2>10, <3>4
    <3>6. StreamByte(offset[i + 1] + j) = Bytes(due[i + 1])[j]
      BY <1>1, <3>1, <3>2, <3>4, Zenon DEF Offsets
    <3> QED BY <3>1, <3>3, <3>4, <3>5, <3>6, Zenon
  <2>12. new[Len(due') + 1] = StreamLen' + 2 + sending'.frame.len - sending'.sent
    <3>1. Len(due') + 1 = Len(due) /\ Len(due) \in 1..Len(due)
      BY <1>3, <1>12, SMTT(30)
    <3>2. new[Len(due)] = offset[Len(due) + 1] - end
      BY <2>4, <3>1
    <3>3. offset[Len(due) + 1] = StreamLen + 2 + sending.frame.len - sending.sent
      BY <1>1, Zenon DEF Offsets
    <3>4. \A q, l \in Nat, z \in Int : (q + 2 + l - z) - end = (q - end) + 2 + l - z
      BY <1>4
    <3>5. sending.frame.len \in Nat /\ sending.sent \in Int
      BY <1>3
    <3> QED BY <1>6, <2>9, <3>1, <3>2, <3>3, <3>4, <3>5, ZenonT(40)
  <2>13. Len(due') + 1 = Len(due)
    BY <1>3, <1>12
  <2>14. Offsets(new)'
    BY <2>4, <2>5, <2>7, <2>8, <2>11, <2>12, <2>13, Zenon DEF Offsets
  <2> QED BY <2>14
<1> QED BY <1>3, <1>6, <1>9, <1>12, <1>13, <1>14, <1>15, Zenon DEF TcpInv

\* The rest of the buffer is the beginning of a frame.
LEMMA ParseRestInv ==
    ASSUME TcpInv, parsing, tcpState = "open", ~Whole, ParseRest, UNCHANGED <<wire, sending>>
    PROVE  TcpInv'
<1>1. /\ parsing' = FALSE
      /\ frameStart' = IF BufferDataLen = BufferSize THEN 0 ELSE frameStart
      /\ tcpState' = IF BufferDataLen = BufferSize /\ frameStart = 0 THEN "error" ELSE "open"
      /\ UNCHANGED <<unparsed, due, wrong, wire, sending>>
  BY DEF ParseRest
<1>2. /\ frameStart \in 0..BufferSize /\ frameStart + Len(unparsed) <= BufferSize
      /\ BufferSize \in Nat /\ BufferSize > 2 /\ Len(unparsed) \in Nat
      /\ BufferDataLen = frameStart + Len(unparsed) /\ BufferDataLen' = frameStart' + Len(unparsed)
  BY <1>1, TcpAssumption DEF TcpInv, StreamGoesOn, TcpTypeOK, BufferDataLen
<1>3. frameStart' \in 0..BufferSize /\ BufferDataLen' \in 0..BufferSize
  BY <1>1, <1>2
<1>4. RoomToRead'
  BY <1>1, <1>2 DEF RoomToRead, Room
<1>5. OnlyTooBigFails'
  <2> SUFFICES ASSUME tcpState' = "error" PROVE PacketLen + 2 > BufferSize
    BY <1>1, Zenon DEF OnlyTooBigFails, PacketLen
  <2>1. Len(unparsed) = BufferSize
    BY <1>1, <1>2
  <2>2. PacketLen \in Nat
    BY <1>2, <2>1, FrontFrame
  <2> QED BY <1>2, <2>1, <2>2 DEF Whole
<1>6. StreamGoesOn'
  <2>1. NothingHeldBack'
    BY <1>1, Zenon DEF NothingHeldBack, Whole, PacketLen
  <2>2. PacketsExact'
    BY <1>1 DEF TcpInv, StreamGoesOn, PacketsExact
  <2> QED BY <1>1, <1>3, <1>4, <1>5, <2>1, <2>2, Zenon DEF StreamGoesOn, TcpTypeOK
<1>7. \E offset : Offsets(offset)'
  <2>1. PICK offset : Offsets(offset)
    BY DEF TcpInv
  <2>2. Offsets(offset)'
    BY <1>1, <2>1 DEF Offsets, StreamLen, StreamByte
  <2> QED BY <2>2
<1> QED BY <1>1, <1>6, <1>7, Zenon DEF TcpInv

\* Every chunk, every turn of the parsing loop and a closure keep the invariant.
LEMMA TcpNextInv == TcpInv /\ [TcpNext]_tcpVars => TcpInv'
<1> SUFFICES ASSUME TcpInv, [TcpNext]_tcpVars PROVE TcpInv'
  OBVIOUS
<1>1. ASSUME UNCHANGED <<frameStart, unparsed, tcpState, wire, sending, due, wrong>>,
             parsing' = parsing \/ (parsing' = FALSE /\ tcpState # "open")
      PROVE  TcpInv'
  <2>1. \E offset : Offsets(offset)'
    BY <1>1, ZenonT(40) DEF TcpInv, Offsets, StreamLen, StreamByte
  <2>2. StreamGoesOn'
    BY <1>1, Zenon DEF TcpInv, StreamGoesOn, TcpTypeOK, PacketsExact, RoomToRead, NothingHeldBack,
                OnlyTooBigFails, Room, BufferDataLen, Whole, PacketLen
  <2> QED BY <1>1, <2>1, <2>2 DEF TcpInv
<1>2. CASE PeerSends
  BY <1>2, PeerSendsInv
<1>3. CASE OnUvRead
  BY <1>3, OnUvReadInv
<1>4. CASE UserOnTcpConnectionRead
  BY <1>1, <1>4, ParseFrameInv, ParseRestInv, Zenon DEF UserOnTcpConnectionRead
<1>5. CASE UNCHANGED tcpVars
  BY <1>1, <1>5 DEF tcpVars
<1> QED BY <1>2, <1>3, <1>4, <1>5 DEF TcpNext

\* TcpConnection::UserOnTcpConnectionRead(): for a buffer of any size, frames of any
\* length and however the stream is cut into chunks, the listener gets exactly the
\* packets of the stream, in order, and the connection never stops reading unless a
\* frame is too big for the buffer.
THEOREM TcpCorrect == TcpSpec => []StreamGoesOn
<1>1. TcpInv => StreamGoesOn
  BY DEF TcpInv
<1> QED BY <1>1, TcpInitInv, TcpNextInv, PTL DEF TcpSpec

-----------------------------------------------------------------------------
(* PortManager.                                                            *)

-----------------------------------------------------------------------------
(* Numbers and sets.                                                       *)

\* The least-number principle, from which TLAPS knows induction.
LEMMA LeastNumber ==
    ASSUME NEW S \in SUBSET Nat, S # {}
    PROVE  \E x \in S : \A y \in S : x <= y
<1> DEFINE R == OpToRel(<, Nat)
<1>1. IsWellFoundedOn(R, Nat)
  BY NatLessThanWellFounded, Zenon
<1>2. PICK x \in S : \A y \in S : <<y, x>> \notin R
  <2> HIDE DEF R
  <2> QED BY <1>1, WFMin, Zenon
<1>3. \A y \in S : ~(y < x)
  BY <1>2, Zenon DEF OpToRel
<1> QED BY <1>3

\* The first attempt that meets a free port exists when any does.
LEMMA MinFacts ==
    ASSUME NEW S \in SUBSET Nat, S # {}
    PROVE  Min(S) \in S /\ \A y \in S : Min(S) <= y
BY LeastNumber, Zenon DEF Min

\* An index within the vector of ports, and one a whole turn further.
LEMMA ModSmall ==
    ASSUME NEW n \in Nat \ {0}, NEW x \in 0..(n - 1)
    PROVE  x % n = x /\ (x + n) % n = x
OBVIOUS

-----------------------------------------------------------------------------
(* PortManager::Bind(): the ports that are tried.                          *)

RtcPorts == MinPort..MaxPort

\* The number of ports wraps to 0 if the range is all there are.
LEMMA NumPortsFacts ==
    /\ MinPort \in Nat /\ MaxPort \in Nat /\ PortWord \in Nat \ {0}
    /\ NumPorts \in Nat
    /\ NumPorts # 0 => NumPorts = MaxPort - MinPort + 1
    /\ MaxPort - MinPort + 1 < PortWord => NumPorts # 0
<1>1. MinPort \in Nat /\ MaxPort \in Nat /\ PortWord \in Nat /\ MinPort <= MaxPort /\ MaxPort < PortWord
  BY PortAssumption
<1>2. PortWord % PortWord = 0
  BY <1>1
<1>3. CASE MaxPort - MinPort + 1 = PortWord
  BY <1>1, <1>2, <1>3 DEF NumPorts
<1>4. CASE MaxPort - MinPort + 1 < PortWord
  BY <1>1, <1>4, ModSmall DEF NumPorts
<1> QED BY <1>1, <1>3, <1>4

\* Every attempt of Bind() is at a port of the range.
LEMMA PortTriedFacts ==
    ASSUME NEW start \in Starts, NEW k \in 1..NumPorts
    PROVE  PortTried(start, k) \in RtcPorts
<1>1. NumPorts \in Nat \ {0} /\ start \in Nat /\ k \in Nat
  BY NumPortsFacts DEF Starts
<1>2. (start + k) % NumPorts \in 0..(NumPorts - 1)
  BY <1>1
<1> QED BY <1>1, <1>2, NumPortsFacts DEF PortTried, RtcPorts

\* Every port of the range is tried, wherever the loop starts.
LEMMA EveryPortIsTried ==
    ASSUME NEW start \in Starts, NEW port \in RtcPorts, NumPorts # 0
    PROVE  \E k \in 1..NumPorts : PortTried(start, k) = port
<1> DEFINE i == port - MinPort
           k == IF i > start THEN i - start ELSE i - start + NumPorts
<1>1. /\ NumPorts \in Nat \ {0} /\ MinPort \in Nat /\ i \in 0..(NumPorts - 1)
      /\ start \in 0..(NumPorts - 1) /\ port = MinPort + i
  BY NumPortsFacts DEF RtcPorts, Starts
<1>2. k \in 1..NumPorts /\ (start + k = i \/ start + k = i + NumPorts)
  BY <1>1
<1>3. (start + k) % NumPorts = i
  BY <1>1, <1>2, ModSmall, Zenon
<1> QED BY <1>1, <1>2, <1>3, Zenon DEF PortTried

\* What Bind() returns is in the range, neither marked nor in use.
LEMMA BindPortFacts ==
    ASSUME NEW t, NEW ip, NEW start \in Starts, BindPort(t, ip, start) # NoPort
    PROVE  /\ BindPort(t, ip, start) \in RtcPorts
           /\ <<t, ip, BindPort(t, ip, start)>> \notin marked
           /\ ~InUse(t, ip, BindPort(t, ip, start))
<1> DEFINE A == Attempts(t, ip, start)
           k == Min(A)
<1>1. A \in SUBSET Nat /\ A \subseteq 1..NumPorts /\ A # {}
      /\ BindPort(t, ip, start) = PortTried(start, k)
  BY NumPortsFacts DEF BindPort, Attempts
<1>2. k \in A
  BY <1>1, MinFacts
<1>3. /\ <<t, ip, PortTried(start, k)>> \notin marked
      /\ ~InUse(t, ip, PortTried(start, k))
  BY <1>2 DEF Attempts
<1> QED BY <1>1, <1>2, <1>3, PortTriedFacts, Zenon

\* PortManager::Bind() throws "no more available ports" only if there are none, unless
\* the range is all 2^16 ports, whose number is 0 in a uint16_t.
THEOREM BindFinds == ASSUME MaxPort - MinPort + 1 < PortWord PROVE BindFindsPort
<1> SUFFICES ASSUME NEW t \in Protocols, NEW ip \in Ips, NEW start \in Starts,
                    BindPort(t, ip, start) = NoPort, NEW port \in RtcPorts
             PROVE  <<t, ip, port>> \in marked \/ InUse(t, ip, port)
  BY DEF BindFindsPort, RtcPorts
<1>1. NumPorts # 0
  BY NumPortsFacts
<1>2. PICK k \in 1..NumPorts : PortTried(start, k) = port
  BY <1>1, EveryPortIsTried
<1>3. Attempts(t, ip, start) = {}
  <2> SUFFICES ASSUME Attempts(t, ip, start) # {} PROVE FALSE
    OBVIOUS
  <2> DEFINE A == Attempts(t, ip, start)
  <2>0. A \subseteq 1..NumPorts /\ A \in SUBSET Nat
    BY NumPortsFacts DEF Attempts
  <2>1. Min(A) \in 1..NumPorts
    BY <2>0, MinFacts
  <2>2. PortTried(start, Min(A)) \in Nat
    BY <2>1, PortTriedFacts, NumPortsFacts DEF RtcPorts
  <2> QED BY <2>2 DEF BindPort, NoPort
<1> QED BY <1>2, <1>3 DEF Attempts

-----------------------------------------------------------------------------
(* The inductive invariant: besides the properties, no two sockets of the  *)
(* worker have one address, so that a mark is the mark of one socket.      *)

WishSet == [t : Protocols, ip : Ips, port : {NoPort} \cup 0..(PortWord - 1)]

SocketSet == [t : Protocols, ip : Ips, port : Int, fixed : BOOLEAN, owner : Owners]

BuildingOK ==
    \/ building = Idle
    \/ /\ building \in [owner : Owners \ alive, todo : Seq(WishSet)]
       /\ Len(building.todo) <= Len(Wishes[building.owner])

OnePerAddress == \A r, s \in sockets : Mark(r) = Mark(s) => r = s

PortInv ==
    /\ sockets \subseteq SocketSet /\ IsFiniteSet(sockets)
    /\ BuildingOK
    /\ OnePerAddress
    /\ PortTypeOK
    /\ MarksExact
    /\ AllOrNothing

\* What PortAssumption says of the sockets an owner wants.
LEMMA WishFacts ==
    /\ "none" \notin Owners
    /\ Wishes \in [Owners -> Seq(WishSet)]
BY PortAssumption, Zenon DEF WishSet

\* Nothing is marked when the worker starts.
LEMMA PortInitInv == PortInit => PortInv
<1> SUFFICES ASSUME PortInit PROVE PortInv
  OBVIOUS
<1>1. IsFiniteSet(sockets) /\ Cardinality({}) = 0
  BY FS_EmptySet DEF PortInit
<1>2. \A o \in Owners : SocketsOf(o) = {}
  BY DEF PortInit, SocketsOf
<1>3. AllOrNothing
  BY <1>1, <1>2, WishFacts, Zenon DEF AllOrNothing, PortInit, Idle
<1> QED BY <1>1, <1>3, Zenon DEF PortInit, PortInv, BuildingOK, OnePerAddress, PortTypeOK, MarksExact, Idle

\* A socket that is opened has an address of its own.
LEMMA OpenedPreserves ==
    ASSUME PortInv, building.todo # << >>, NEW port \in Int,
           ~InUse(Wish.t, Wish.ip, port),
           Wish.port = NoPort => port \in RtcPorts /\ <<Wish.t, Wish.ip, port>> \notin marked,
           Opened(Socket(Wish, port)), UNCHANGED <<alive, others, leaked>>
    PROVE  PortInv'
<1> DEFINE s == Socket(Wish, port)
<1>1. /\ building \in [owner : Owners \ alive, todo : Seq(WishSet)]
      /\ Len(building.todo) <= Len(Wishes[building.owner])
      /\ building.owner \in Owners
  BY SMTT(30) DEF PortInv, BuildingOK, Idle
<1>2. /\ Wish \in WishSet /\ Tail(building.todo) \in Seq(WishSet)
      /\ Len(Tail(building.todo)) = Len(building.todo) - 1
      /\ Len(building.todo) \in Nat /\ Len(building.todo) > 0
  BY <1>1 DEF Wish
<1>3. /\ s \in SocketSet /\ s.owner = building.owner
      /\ s.t = Wish.t /\ s.ip = Wish.ip /\ s.port = port /\ s.fixed = (Wish.port # NoPort)
      /\ Mark(s) = <<Wish.t, Wish.ip, port>>
  BY <1>1, <1>2, Zenon DEF Socket, SocketSet, WishSet, Mark
<1>4. \A r \in sockets : Mark(r) # Mark(s)
  BY <1>3, Zenon DEF InUse, Conflict, Mark
<1>5. /\ sockets' = sockets \cup {s}
      /\ marked' = IF s.fixed THEN marked ELSE marked \cup {Mark(s)}
      /\ building' = [building EXCEPT !.todo = Tail(@)]
      /\ alive' = alive /\ leaked' = leaked
  BY DEF Opened
<1>6. s \notin sockets
  BY <1>4
<1>7. sockets' \subseteq SocketSet /\ IsFiniteSet(sockets')
  BY <1>3, <1>5, FS_AddElement, Zenon DEF PortInv
<1>8. /\ building' \in [owner : Owners \ alive', todo : Seq(WishSet)]
      /\ building'.owner = building.owner
      /\ Len(building'.todo) = Len(building.todo) - 1
  BY <1>1, <1>2, <1>5, Zenon
<1>9. BuildingOK'
  BY <1>1, <1>2, <1>8, SMTT(30) DEF BuildingOK
<1>10. OnePerAddress'
  BY <1>4, <1>5 DEF OnePerAddress, PortInv
<1>11. PortTypeOK'
  <2>1. s.fixed \/ Mark(s) \in Protocols \X Ips \X (MinPort..MaxPort)
    <3> SUFFICES ASSUME Wish.port = NoPort PROVE Mark(s) \in Protocols \X Ips \X (MinPort..MaxPort)
      BY <1>3, Zenon
    <3>1. Wish.t \in Protocols /\ Wish.ip \in Ips /\ port \in MinPort..MaxPort
      BY <1>2 DEF WishSet, RtcPorts
    <3> QED BY <1>3, <3>1, SMTT(30)
  <2>2. marked' \subseteq Protocols \X Ips \X (MinPort..MaxPort) /\ leaked' \subseteq marked'
    BY <1>5, <2>1 DEF PortTypeOK, PortInv
  <2>3. ASSUME NEW r \in sockets'
        PROVE  r.owner \in Owners /\ (r.fixed \/ Mark(r) \in Protocols \X Ips \X (MinPort..MaxPort))
    BY <1>1, <1>3, <1>5, <2>1 DEF PortTypeOK, PortInv
  <2> QED BY <1>1, <1>5, <1>8, <2>2, <2>3, Zenon DEF PortTypeOK, PortInv, Mark
<1>12. MarksExact'
  BY <1>3, <1>4, <1>5, Zenon DEF MarksExact, PortInv
<1>13. AllOrNothing'
  <2> SUFFICES ASSUME NEW o \in Owners
               PROVE  Cardinality(SocketsOf(o)') =
                          IF o \in alive' THEN Len(Wishes[o])
                          ELSE IF building'.owner = o THEN Len(Wishes[o]) - Len(building'.todo)
                          ELSE 0
    BY Zenon DEF AllOrNothing
  <2>1. CASE o # building.owner
    <3>1. SocketsOf(o)' = SocketsOf(o)
      BY <1>3, <1>5, <2>1, Zenon DEF SocketsOf
    <3> QED BY <1>5, <1>8, <2>1, <3>1 DEF AllOrNothing, PortInv
  <2>2. CASE o = building.owner
    <3>1. SocketsOf(o)' = SocketsOf(o) \cup {s} /\ s \notin SocketsOf(o)
      BY <1>3, <1>5, <1>6, <2>2, Zenon DEF SocketsOf
    <3>2. IsFiniteSet(SocketsOf(o))
      BY FS_Subset, Zenon DEF SocketsOf, PortInv
    <3>3. Cardinality(SocketsOf(o)') = Cardinality(SocketsOf(o)) + 1
      BY <3>1, <3>2, FS_AddElement, Zenon
    <3>4. Cardinality(SocketsOf(o)) = Len(Wishes[o]) - Len(building.todo)
      BY <1>1, <2>2, Zenon DEF AllOrNothing, PortInv
    <3>5. Len(Wishes[o]) \in Nat
      BY WishFacts
    <3> QED BY <1>1, <1>2, <1>5, <1>8, <2>2, <3>3, <3>4, <3>5
  <2> QED BY <2>1, <2>2, Zenon
<1> QED BY <1>7, <1>9, <1>10, <1>11, <1>12, <1>13, Zenon DEF PortInv

\* Deleting all the sockets of an owner that does not live on, as a catch clause and
\* as Close() do, and marking the port of one that failed to start.
LEMMA DeletePreserves ==
    ASSUME PortInv, NEW o \in Owners, NEW mark,
           sockets' = sockets \ SocketsOf(o),
           \/ marked' = marked \ Unbound(SocketsOf(o)) /\ leaked' = leaked
           \/ /\ marked' = (marked \ Unbound(SocketsOf(o))) \cup {mark}
              /\ leaked' = leaked \cup {mark}
              /\ mark \in (Protocols \X Ips \X (MinPort..MaxPort)) \ marked,
           alive' = alive \ {o}, building' = Idle,
           building = Idle \/ building.owner = o
    PROVE  PortInv'
<1> DEFINE chosen == {Mark(s) : s \in {x \in sockets : ~x.fixed}}
<1>1. sockets' \subseteq SocketSet /\ IsFiniteSet(sockets')
  BY FS_Subset, Zenon DEF PortInv
<1>2. BuildingOK'
  BY Zenon DEF BuildingOK
<1>3. OnePerAddress'
  BY DEF OnePerAddress, PortInv
<1>4. Unbound(SocketsOf(o)) \subseteq chosen
  BY DEF Unbound, SocketsOf
<1>5. chosen' = chosen \ Unbound(SocketsOf(o))
  BY DEF Unbound, SocketsOf, PortInv, OnePerAddress
<1>6. marked = chosen \cup leaked /\ chosen \cap leaked = {}
  BY DEF MarksExact, PortInv
<1>7. MarksExact'
  BY <1>4, <1>5, <1>6, Zenon DEF MarksExact
<1>8. PortTypeOK'
  <2>1. marked' \subseteq Protocols \X Ips \X (MinPort..MaxPort)
    BY Zenon DEF PortTypeOK, PortInv
  <2>2. leaked' \subseteq marked'
    BY <1>7, Zenon DEF MarksExact
  <2> QED BY <2>1, <2>2, Zenon DEF PortTypeOK, PortInv, Idle, Mark
<1>9. AllOrNothing'
  <2> SUFFICES ASSUME NEW p \in Owners
               PROVE  Cardinality(SocketsOf(p)') =
                          IF p \in alive' THEN Len(Wishes[p])
                          ELSE IF building'.owner = p THEN Len(Wishes[p]) - Len(building'.todo)
                          ELSE 0
    BY Zenon DEF AllOrNothing
  <2>1. building'.owner \notin Owners
    BY WishFacts DEF Idle
  <2>2. CASE p = o
    <3>1. SocketsOf(p)' = {}
      BY <2>2, Zenon DEF SocketsOf
    <3> QED BY <2>1, <2>2, <3>1, FS_EmptySet, Zenon
  <2>3. CASE p # o
    <3>1. SocketsOf(p)' = SocketsOf(p)
      BY <2>3, Zenon DEF SocketsOf
    <3>2. building.owner # p
      BY <2>3, WishFacts, SMTT(30) DEF Idle
    <3> QED BY <2>1, <2>3, <3>1, <3>2, Zenon DEF AllOrNothing, PortInv
  <2> QED BY <2>2, <2>3, Zenon
<1> QED BY <1>1, <1>2, <1>3, <1>7, <1>8, <1>9, Zenon DEF PortInv

\* The owner under construction is one that does not exist yet.
LEMMA BuildingFacts ==
    ASSUME PortInv, building # Idle
    PROVE  /\ building.owner \in Owners /\ building.owner \notin alive
           /\ building.todo \in Seq(WishSet)
           /\ Len(building.todo) <= Len(Wishes[building.owner])
           /\ building.todo # << >> => Wish \in WishSet
BY DEF PortInv, BuildingOK, Wish

\* A constructor that throws.
LEMMA ThrowPreserves ==
    ASSUME PortInv, building # Idle, Throw, UNCHANGED <<alive, others, leaked>>
    PROVE  PortInv'
<1>1. building.owner \in Owners /\ building.owner \notin alive
  BY BuildingFacts
<1>2. /\ sockets' = sockets \ SocketsOf(building.owner) /\ building' = Idle
      /\ marked' = marked \ Unbound(SocketsOf(building.owner)) /\ leaked' = leaked
      /\ alive' = alive \ {building.owner}
  BY <1>1 DEF Throw, DeleteSockets
<1> QED BY <1>1, <1>2, DeletePreserves

\* Every bind, failure and closure keeps the invariant.
LEMMA PortNextInv == PortInv /\ [PortNext]_portVars => PortInv'
<1> SUFFICES ASSUME PortInv, [PortNext]_portVars PROVE PortInv'
  BY Zenon
<1>0. building.todo # << >> => building # Idle
  BY DEF Idle
<1>1. ASSUME NEW o \in Owners, CreateOwner(o) PROVE PortInv'
  <2>1. /\ building = Idle /\ o \notin alive /\ building' = [owner |-> o, todo |-> Wishes[o]]
        /\ UNCHANGED <<marked, sockets, alive, others, leaked>>
    BY <1>1 DEF CreateOwner
  <2>2. Wishes[o] \in Seq(WishSet) /\ Len(Wishes[o]) \in Nat
    BY WishFacts
  <2>3. BuildingOK'
    BY <2>1, <2>2, SMTT(30) DEF BuildingOK
  <2>4. AllOrNothing'
    <3> SUFFICES ASSUME NEW p \in Owners
                 PROVE  Cardinality(SocketsOf(p)') =
                            IF p \in alive' THEN Len(Wishes[p])
                            ELSE IF building'.owner = p THEN Len(Wishes[p]) - Len(building'.todo)
                            ELSE 0
      BY Zenon DEF AllOrNothing
    <3>1. SocketsOf(p)' = SocketsOf(p) /\ building.owner # p
      BY <2>1, WishFacts DEF SocketsOf, Idle
    <3>2. Cardinality(SocketsOf(p)) = IF p \in alive THEN Len(Wishes[p]) ELSE 0
      BY <3>1, Zenon DEF AllOrNothing, PortInv
    <3>3. CASE p = o
      BY <2>1, <2>2, <3>1, <3>2, <3>3
    <3>4. CASE p # o
      BY <2>1, <3>1, <3>2, <3>4, Zenon
    <3> QED BY <3>3, <3>4, Zenon
  <2>5. PortTypeOK' /\ MarksExact' /\ OnePerAddress'
    BY <2>1, Zenon DEF PortInv, PortTypeOK, MarksExact, OnePerAddress, Mark
  <2> QED BY <2>1, <2>3, <2>4, <2>5 DEF PortInv
<1>2. ASSUME NEW o \in Owners, CloseOwner(o) PROVE PortInv'
  BY <1>2, DeletePreserves, Zenon DEF CloseOwner, DeleteSockets
<1>3. CASE BindRandom
  <2>1. PICK start \in Starts :
           /\ BindPort(Wish.t, Wish.ip, start) # NoPort
           /\ Opened(Socket(Wish, BindPort(Wish.t, Wish.ip, start)))
    BY <1>3, Zenon DEF BindRandom
  <2> DEFINE port == BindPort(Wish.t, Wish.ip, start)
  <2>2. /\ port \in RtcPorts /\ <<Wish.t, Wish.ip, port>> \notin marked
        /\ ~InUse(Wish.t, Wish.ip, port)
    BY <2>1, BindPortFacts
  <2>3. port \in Int
    BY <2>2, NumPortsFacts DEF RtcPorts
  <2>4. building.todo # << >> /\ UNCHANGED <<alive, others, leaked>>
    BY <1>3 DEF BindRandom
  <2> HIDE DEF port
  <2> QED BY <2>1, <2>2, <2>3, <2>4, OpenedPreserves, Zenon DEF port
<1>4. CASE BindFixed
  <2>1. building.todo # << >> /\ Wish.port # NoPort /\ ~InUse(Wish.t, Wish.ip, Wish.port)
        /\ Opened(Socket(Wish, Wish.port)) /\ UNCHANGED <<alive, others, leaked>>
    BY <1>4, Zenon DEF BindFixed
  <2>2. Wish.port \in Int
    BY <1>0, <2>1, BuildingFacts, NumPortsFacts DEF WishSet
  <2> QED BY <2>1, <2>2, OpenedPreserves, Zenon
<1>5. CASE BindRefused
  BY <1>0, <1>5, ThrowPreserves, Zenon DEF BindRefused
<1>6. CASE BindFails
  BY <1>0, <1>6, ThrowPreserves, Zenon DEF BindFails
<1>7. CASE StartFails
  <2>1. PICK start \in Starts :
           LET port == BindPort(Wish.t, Wish.ip, start)
               mark == Mark(Socket(Wish, port))
           IN  /\ port # NoPort
               /\ sockets' = sockets \ SocketsOf(building.owner)
               /\ marked' = (marked \ Unbound(SocketsOf(building.owner))) \cup {mark}
               /\ leaked' = leaked \cup {mark}
    BY <1>7, Zenon DEF StartFails
  <2> DEFINE port == BindPort(Wish.t, Wish.ip, start)
             mark == Mark(Socket(Wish, port))
  <2>2. building # Idle /\ building.todo # << >> /\ building' = Idle /\ alive' = alive
    BY <1>0, <1>7, Zenon DEF StartFails
  <2>3. building.owner \in Owners /\ building.owner \notin alive /\ Wish \in WishSet
    BY <2>2, BuildingFacts, Zenon
  <2>4. port \in RtcPorts /\ <<Wish.t, Wish.ip, port>> \notin marked
    BY <2>1, BindPortFacts, Zenon
  <2>5. mark = <<Wish.t, Wish.ip, port>>
    BY DEF Mark, Socket
  <2>6. mark \in (Protocols \X Ips \X (MinPort..MaxPort)) \ marked
    BY <2>3, <2>4, <2>5 DEF WishSet, RtcPorts
  <2>7. alive' = alive \ {building.owner}
    BY <2>2, <2>3, Zenon
  <2> HIDE DEF mark
  <2> QED BY <2>1, <2>2, <2>3, <2>6, <2>7, DeletePreserves, Zenon DEF mark
<1>8. CASE Register
  <2>1. /\ building # Idle /\ building.todo = << >> /\ alive' = alive \cup {building.owner}
        /\ building' = Idle /\ UNCHANGED <<marked, sockets, others, leaked>>
    BY <1>8, Zenon DEF Register
  <2>2. building.owner \in Owners /\ building.owner \notin alive
    BY <2>1, BuildingFacts
  <2>3. AllOrNothing'
    <3> SUFFICES ASSUME NEW p \in Owners
                 PROVE  Cardinality(SocketsOf(p)') =
                            IF p \in alive' THEN Len(Wishes[p])
                            ELSE IF building'.owner = p THEN Len(Wishes[p]) - Len(building'.todo)
                            ELSE 0
      BY Zenon DEF AllOrNothing
    <3>1. SocketsOf(p)' = SocketsOf(p) /\ building'.owner # p /\ Len(building.todo) = 0
      BY <2>1, WishFacts DEF SocketsOf, Idle
    <3>2. Len(Wishes[p]) \in Nat
      BY WishFacts
    <3> QED BY <2>1, <2>2, <3>1, <3>2 DEF AllOrNothing, PortInv
  <2>4. PortTypeOK' /\ MarksExact' /\ OnePerAddress' /\ BuildingOK'
    BY <2>1, <2>2, Zenon DEF PortInv, PortTypeOK, MarksExact, OnePerAddress, BuildingOK, Mark, Idle
  <2> QED BY <2>1, <2>3, <2>4, Zenon DEF PortInv
<1>9. CASE RegisterFails
  BY <1>9, ThrowPreserves DEF RegisterFails
<1>10. CASE UNCHANGED <<marked, sockets, alive, building, leaked>>
  BY <1>10, Zenon DEF PortInv, PortTypeOK, MarksExact, OnePerAddress, BuildingOK, AllOrNothing,
               SocketsOf, Mark
<1> QED
  BY <1>1, <1>2, <1>3, <1>4, <1>5, <1>6, <1>7, <1>8, <1>9, <1>10
     DEF PortNext, portVars, OtherBinds, OtherReleases

\* PortManager and the constructors and destructors of transports and WebRtcServers,
\* for every set of owners, addresses and listening wishes and every port range: marks
\* and sockets agree and an owner has all its sockets or none.
THEOREM PortBookkeeping == PortSpec => [](PortTypeOK /\ MarksExact /\ AllOrNothing)
<1>1. PortInv => PortTypeOK /\ MarksExact /\ AllOrNothing
  BY Zenon DEF PortInv
<1> QED BY <1>1, PortInitInv, PortNextInv, PTL DEF PortSpec

\* With it, and for every range but that of all 2^16 ports, Bind() also finds a port
\* whenever one is free.
THEOREM PortsCorrect == ASSUME MaxPort - MinPort + 1 < PortWord PROVE PortSpec => []PortsExact
<1>1. PortInv => PortsExact
  BY BindFinds, Zenon DEF PortInv, PortsExact
<1> QED BY <1>1, PortInitInv, PortNextInv, PTL DEF PortSpec

=============================================================================
