--------------------------- MODULE ConnectionProofs ---------------------------
(***************************************************************************)
(* Proofs about what a Transport's connections carry.  The ICE agent keeps *)
(* its invariants for every set of tuples, credentials and NOMINATION      *)
(* values and every MaxTuples >= 2.  The SCTP association delivers the     *)
(* messages of the peer whole, to the DataProducer of their stream.        *)
(***************************************************************************)
EXTENDS IceServer, SctpData, TLAPS

-----------------------------------------------------------------------------
(* The SCTP association.  A message is delivered whole only if the buffer    *)
(* holds, at any time, a first part of the one message that is arriving;     *)
(* the invariant says so, and of every stream which DataProducer has it.     *)

Chunks == [stream : Nat, ssn : Nat, index : Nat, eor : BOOLEAN]

ConsumerRecords ==
    [open : BOOLEAN, transport : BOOLEAN, sctp : BOOLEAN, amount : Int, threshold : Thresholds \cup {0},
     force : BOOLEAN, waiting : BOOLEAN]

States == {"new", "connecting", "connected", "failed", "closed"}
Tables == UNION {[S -> DataProducers] : S \in SUBSET Nat}
Buffers == Seq(Chunks)
Consumptions == [DataConsumers -> ConsumerRecords]
Arrivals == {<< >>} \cup (PeerMessages \X Nat)
Resets == SUBSET (Nat \X {"outgoing", "incoming"})
Deliveries == {<< >>} \cup [to : DataProducers, chunks : Buffers]

SctpRecords ==
    [registered : BOOLEAN, checker : BOOLEAN, connected : BOOLEAN, state : States, told : States,
     os : Int, desiredOs : Int, amount : Int, buffer : Buffers, lastSsn : Nat, table : Tables, of : Consumptions,
     held : Int, asked : Int, denied : BOOLEAN, arriving : Arrivals, resets : Resets,
     putOff : BOOLEAN, stale : BOOLEAN, tainted : BOOLEAN, delivered : Deliveries, events : Int]

\* buffer holds the first i chunks of the message m.
IsFront(buffer, m, i) == Len(buffer) = i /\ \A j \in 1..i : buffer[j] = Chunk(m, j)

\* What has come of the message under way is in the buffer, and nothing else is.
BufferOK(b) ==
    (b.registered \/ b.state = "new") /\ ~b.tainted =>
        /\ b.arriving = << >> => b.buffer = << >>
        /\ b.arriving # << >> =>
              /\ b.arriving[2] \in 1..(b.arriving[1].chunks - 1)
              /\ b.arriving[1].chunks <= MaxSctpMessageSize
              /\ IsFront(b.buffer, b.arriving[1], b.arriving[2])
              /\ b.lastSsn = b.arriving[1].ssn

TableOK(b) == \A s \in DOMAIN b.table : ProducerStream[b.table[s]] = s

\* (the properties, of a record)
Views(b) ==
    /\ b.told = b.state
    /\ b.checker = b.registered
    /\ \A c \in DataConsumers :
        b.of[c].open => b.of[c].sctp = (b.state = "connected") /\ b.of[c].transport = b.connected

Whole(b) ==
    b.delivered # << >> /\ ~b.tainted =>
        LET chunks == b.delivered.chunks IN
        /\ \A i \in DOMAIN chunks :
            /\ chunks[i].index = i
            /\ chunks[i].stream = chunks[1].stream
            /\ chunks[i].ssn = chunks[1].ssn
            /\ chunks[i].eor = (i = Len(chunks))
        /\ ProducerStream[b.delivered.to] = chunks[1].stream

\* Only a registered association is connected.
SctpOK(b) ==
    /\ b \in SctpRecords
    /\ Views(b) /\ TableOK(b) /\ BufferOK(b) /\ Whole(b)
    /\ b.state = "connected" => b.registered

SctpInv == SctpOK(sctp)

\* What the properties look at.
Like(d, b) ==
    /\ d.registered = b.registered /\ d.checker = b.checker /\ d.connected = b.connected
    /\ d.state = b.state /\ d.told = b.told /\ d.table = b.table
    /\ d.buffer = b.buffer /\ d.lastSsn = b.lastSsn /\ d.arriving = b.arriving
    /\ d.tainted = b.tainted /\ d.delivered = b.delivered
    /\ \A c \in DataConsumers : /\ d.of[c].open = b.of[c].open /\ d.of[c].sctp = b.of[c].sctp
                                /\ d.of[c].transport = b.of[c].transport

\* The rest changes nothing.
LEMMA LikeOK ==
    ASSUME NEW b, NEW d \in SctpRecords, SctpOK(b), Like(d, b)
    PROVE  SctpOK(d)
<1>1. Views(d)
  BY DEF SctpOK, Like, Views
<1>2. TableOK(d)
  BY DEF SctpOK, Like, TableOK
<1>3. BufferOK(d)
  BY DEF SctpOK, Like, BufferOK
<1>4. Whole(d)
  BY DEF SctpOK, Like, Whole
<1> QED BY <1>1, <1>2, <1>3, <1>4 DEF SctpOK, Like

\* Every step but a few counts.
LEMMA IdleFacts ==
    ASSUME NEW b \in SctpRecords
    PROVE  Idle(b) \in SctpRecords /\ Like(Idle(b), b)
<1>1. PICK e : e = b.events + 1 OBVIOUS
<1>2. e \in Int BY <1>1 DEF SctpRecords
<1>3. Idle(b) = [b EXCEPT !.events = e] BY <1>1 DEF Idle
<1>4. Idle(b) \in SctpRecords BY <1>2, <1>3 DEF SctpRecords
<1> QED BY <1>3, <1>4 DEF SctpRecords, Like

\* The amounts say nothing about the association.
LEMMA SetAmountFacts ==
    ASSUME NEW d \in ConsumerRecords, NEW amount \in Int
    PROVE  /\ SetAmount(d, amount) \in ConsumerRecords
           /\ SetAmount(d, amount).open = d.open /\ SetAmount(d, amount).sctp = d.sctp
           /\ SetAmount(d, amount).transport = d.transport
<1>1. PICK low \in BOOLEAN : low = ((d.force \/ d.amount > d.threshold) /\ amount <= d.threshold)
  BY Zenon
<1>2. PICK f \in BOOLEAN : f = (d.force /\ ~low)
  BY Zenon
<1>3. PICK w \in BOOLEAN : w = IF low THEN FALSE ELSE d.waiting \/ amount > d.threshold
  BY Zenon DEF ConsumerRecords
<1>4. SetAmount(d, amount) = [d EXCEPT !.amount = amount, !.force = f, !.waiting = w]
  BY <1>1, <1>2, <1>3, Zenon DEF SetAmount
<1> QED BY <1>4, Zenon DEF ConsumerRecords

\* No message of the association changes when a buffered amount does.
LEMMA AmountFacts ==
    ASSUME NEW b \in SctpRecords, NEW amount \in Int
    PROVE  /\ OnSctpAssociationBufferedAmount(b, amount) \in SctpRecords
           /\ Like(OnSctpAssociationBufferedAmount(b, amount), b)
<1>1. PICK of : of = [c \in DataConsumers |->
                        IF b.of[c].open THEN SetAmount(b.of[c], amount) ELSE b.of[c]]
  BY Zenon
<1>2. b.of \in Consumptions
  BY DEF SctpRecords
<1>3. \A c \in DataConsumers : /\ of[c] \in ConsumerRecords
                               /\ of[c].open = b.of[c].open /\ of[c].sctp = b.of[c].sctp
                               /\ of[c].transport = b.of[c].transport
  BY <1>1, <1>2, SetAmountFacts DEF Consumptions
<1>4. of \in Consumptions
  BY <1>1, <1>3 DEF Consumptions
<1>5. OnSctpAssociationBufferedAmount(b, amount) = [b EXCEPT !.amount = amount, !.of = of]
  BY <1>1, Zenon DEF OnSctpAssociationBufferedAmount
<1>6. OnSctpAssociationBufferedAmount(b, amount) \in SctpRecords
  BY <1>4, <1>5, ZenonT(40) DEF SctpRecords
<1> QED BY <1>3, <1>5, <1>6 DEF SctpRecords, Like

\* Nor do the streams.
LEMMA StreamsFacts ==
    ASSUME NEW b \in SctpRecords, NEW force \in BOOLEAN
    PROVE  AddOutgoingStreams(b, force) \in SctpRecords /\ Like(AddOutgoingStreams(b, force), b)
<1>1. PICK extra \in Int : extra = IF MaxSctpStreams - b.os >= AdditionalOs THEN AdditionalOs
                                   ELSE MaxSctpStreams - b.os
  BY SctpAssumption DEF SctpRecords
<1>2. PICK asked \in Int : asked = IF b.state = "connected" THEN extra ELSE b.asked
  BY DEF SctpRecords
<1>3. PICK put \in BOOLEAN : put = (b.state # "connected")
  BY Zenon
<1>4. PICK os \in Int : os = b.os + extra
  BY DEF SctpRecords
<1>5. \/ AddOutgoingStreams(b, force) = b
      \/ AddOutgoingStreams(b, force) = [b EXCEPT !.desiredOs = os, !.asked = asked, !.putOff = put]
  BY <1>1, <1>2, <1>3, <1>4, Zenon DEF AddOutgoingStreams
<1>6. PICK d \in SctpRecords : d = [b EXCEPT !.desiredOs = os, !.asked = asked, !.putOff = put]
  BY Zenon DEF SctpRecords
<1>7. Like(d, b) /\ Like(b, b)
  BY <1>6 DEF SctpRecords, Like
<1> QED BY <1>5, <1>6, <1>7

\* Nor does the reset of a stream.
LEMMA ResetFacts ==
    ASSUME NEW b \in SctpRecords, NEW s \in Nat, NEW direction \in {"outgoing", "incoming"}
    PROVE  ResetSctpStream(b, s, direction) \in SctpRecords /\ Like(ResetSctpStream(b, s, direction), b)
<1>1. PICK resets \in Resets : resets = b.resets \cup {<<s, direction>>}
  <2>1. b.resets \in Resets
    BY DEF SctpRecords
  <2>2. PICK x : x = <<s, direction>>
    BY Zenon
  <2>3. x \in Nat \X {"outgoing", "incoming"}
    BY <2>2
  <2>4. b.resets \cup {x} \in Resets
    BY <2>1, <2>3, Zenon DEF Resets
  <2> QED BY <2>2, <2>4
<1>2. \/ ResetSctpStream(b, s, direction) = b
      \/ ResetSctpStream(b, s, direction) = [b EXCEPT !.resets = resets]
  BY <1>1, Zenon DEF ResetSctpStream
<1>3. ResetSctpStream(b, s, direction) \in SctpRecords
  BY <1>2 DEF SctpRecords
<1> QED BY <1>2, <1>3 DEF SctpRecords, Like

\* Such steps follow each other.
LEMMA LikeTrans ==
    ASSUME NEW a, NEW b, NEW d, Like(a, b), Like(b, d)
    PROVE  Like(a, d)
BY DEF Like

\* A message is handed to usrsctp, or refused.
LEMMA SendFacts ==
    ASSUME NEW b \in SctpRecords, NEW c \in DataConsumers, NEW size \in Nat
    PROVE  SendSctpMessage(b, c, size) \in SctpRecords /\ Like(SendSctpMessage(b, c, size), b)
<1>1. PICK a \in SctpRecords : a = OnSctpAssociationBufferedAmount(b, b.amount + size) /\ Like(a, b)
  <2>1. b.amount + size \in Int
    BY DEF SctpRecords
  <2> QED BY <2>1, AmountFacts
<1>2. PICK stale \in BOOLEAN : stale = (a.stale \/ b.held = 0)
  BY Zenon
<1>3. PICK held \in Int : held = a.held + size
  BY DEF SctpRecords
<1>4. \/ SendSctpMessage(b, c, size) = [a EXCEPT !.stale = stale]
      \/ SendSctpMessage(b, c, size) = [a EXCEPT !.held = held]
  BY <1>1, <1>2, <1>3, Zenon DEF SendSctpMessage
<1>5. SendSctpMessage(b, c, size) \in SctpRecords /\ Like(SendSctpMessage(b, c, size), a)
  <2>1. SendSctpMessage(b, c, size) \in SctpRecords
    BY <1>4 DEF SctpRecords
  <2> QED BY <1>4, <2>1 DEF SctpRecords, Like
<1> QED BY <1>1, <1>5, LikeTrans

\* What entering a state does.
LEMMA EnterFacts ==
    ASSUME NEW b \in SctpRecords, NEW state \in States, SctpOK(b),
           state # "new", state = "connected" => b.registered, state = "connecting" => b.state = "new"
    PROVE  SctpOK(Enter(b, state)) /\ Enter(b, state) \in SctpRecords
<1>1. CASE b.state = state
  BY <1>1 DEF Enter
<1>2. CASE b.state # state
  <2>1. PICK of : of = IF state = "connecting" THEN b.of
                       ELSE [c \in DataConsumers |->
                                [b.of[c] EXCEPT !.sctp = b.of[c].open /\ state = "connected"]]
    BY Zenon
  <2>2. b.of \in Consumptions
    BY DEF SctpRecords
  <2>3. \A c \in DataConsumers :
          /\ of[c] \in ConsumerRecords /\ of[c].open = b.of[c].open /\ of[c].transport = b.of[c].transport
          /\ b.of[c].open => of[c].sctp = (state = "connected")
    <3>1. CASE state = "connecting"
      BY <2>1, <2>2, <3>1 DEF SctpOK, Views, Consumptions, ConsumerRecords
    <3>2. CASE state # "connecting"
      <4> SUFFICES ASSUME NEW c \in DataConsumers
                   PROVE  /\ of[c] \in ConsumerRecords /\ of[c].open = b.of[c].open
                          /\ of[c].transport = b.of[c].transport
                          /\ b.of[c].open => of[c].sctp = (state = "connected")
        OBVIOUS
      <4>1. PICK v \in BOOLEAN : v = (b.of[c].open /\ state = "connected")
        BY Zenon
      <4>2. of[c] = [b.of[c] EXCEPT !.sctp = v] /\ b.of[c] \in ConsumerRecords
        BY <2>1, <2>2, <3>2, <4>1 DEF Consumptions
      <4> QED BY <4>1, <4>2, Zenon DEF ConsumerRecords
    <3> QED BY <3>1, <3>2
  <2>4. of \in Consumptions
    BY <2>1, <2>2, <2>3 DEF Consumptions
  <2>5. PICK d : d = [b EXCEPT !.state = state, !.told = state, !.of = of]
    OBVIOUS
  <2>6. Enter(b, state) = d
    BY <1>2, <2>1, <2>5, Zenon DEF Enter
  <2>7. d \in SctpRecords
    BY <2>4, <2>5, Zenon DEF SctpRecords
  <2>8. /\ d.registered = b.registered /\ d.checker = b.checker /\ d.connected = b.connected
        /\ d.state = state /\ d.told = state /\ d.table = b.table /\ d.of = of
        /\ d.buffer = b.buffer /\ d.lastSsn = b.lastSsn /\ d.arriving = b.arriving
        /\ d.tainted = b.tainted /\ d.delivered = b.delivered
    BY <2>5 DEF SctpRecords
  <2>9. Views(d)
    BY <2>3, <2>8 DEF SctpOK, Views
  <2>10. TableOK(d) /\ Whole(d)
    BY <2>8 DEF SctpOK, TableOK, Whole
  <2>11. BufferOK(d)
    BY <2>8 DEF SctpOK, BufferOK
  <2> QED BY <2>6, <2>7, <2>8, <2>9, <2>10, <2>11 DEF SctpOK
<1> QED BY <1>1, <1>2

\* The association is created.
LEMMA CreateSctp ==
    ASSUME SctpInv, Create
    PROVE  SctpOK(sctp')
<1>1. PICK b : b = sctp /\ SctpOK(b) /\ b \in SctpRecords
  BY DEF SctpInv, SctpOK
<1>2. PICK d : d = [b EXCEPT !.registered = TRUE, !.checker = TRUE]
  OBVIOUS
<1>3. sctp' = d /\ b.state = "new"
  BY <1>1, <1>2 DEF Create
<1>4. d \in SctpRecords
  BY <1>1, <1>2, Zenon DEF SctpRecords
<1>5. /\ d.registered = TRUE /\ d.checker = TRUE /\ d.connected = b.connected
      /\ d.state = b.state /\ d.told = b.told /\ d.table = b.table /\ d.of = b.of
      /\ d.buffer = b.buffer /\ d.lastSsn = b.lastSsn /\ d.arriving = b.arriving
      /\ d.tainted = b.tainted /\ d.delivered = b.delivered
  BY <1>1, <1>2 DEF SctpRecords
<1>6. Views(d) /\ TableOK(d) /\ Whole(d)
  <2>1. Views(b) /\ TableOK(b) /\ Whole(b)
    BY <1>1 DEF SctpOK
  <2>2. Views(d)
    BY <1>5, <2>1, Zenon DEF Views
  <2>3. TableOK(d) /\ Whole(d)
    BY <1>5, <2>1 DEF TableOK, Whole
  <2> QED BY <2>2, <2>3
<1>7. BufferOK(d)
  BY <1>1, <1>3, <1>5 DEF SctpOK, BufferOK
<1> QED BY <1>3, <1>4, <1>5, <1>6, <1>7 DEF SctpOK

\* The transport connects or disconnects, and tells the DataConsumers.
LEMMA ConnectedOK ==
    ASSUME NEW b \in SctpRecords, SctpOK(b), NEW v \in BOOLEAN, NEW of \in Consumptions,
           \A c \in DataConsumers :
              /\ of[c].open = b.of[c].open /\ of[c].sctp = b.of[c].sctp
              /\ of[c].open => of[c].transport = v
    PROVE  /\ SctpOK([b EXCEPT !.connected = v, !.of = of])
           /\ [b EXCEPT !.connected = v, !.of = of] \in SctpRecords
           /\ [b EXCEPT !.connected = v, !.of = of].state = b.state
<1>1. PICK d : d = [b EXCEPT !.connected = v, !.of = of]
  OBVIOUS
<1>2. d \in SctpRecords
  BY <1>1, Zenon DEF SctpRecords
<1>3. /\ d.registered = b.registered /\ d.checker = b.checker /\ d.connected = v
      /\ d.state = b.state /\ d.told = b.told /\ d.table = b.table /\ d.of = of
      /\ d.buffer = b.buffer /\ d.lastSsn = b.lastSsn /\ d.arriving = b.arriving
      /\ d.tainted = b.tainted /\ d.delivered = b.delivered
  BY <1>1 DEF SctpRecords
<1>4. Views(d) /\ TableOK(d) /\ Whole(d)
  BY <1>3 DEF SctpOK, Views, TableOK, Whole
<1>5. BufferOK(d)
  BY <1>3 DEF SctpOK, BufferOK
<1> QED BY <1>1, <1>2, <1>3, <1>4, <1>5 DEF SctpOK

\* The transport connects, and usrsctp may fail to start.
LEMMA ConnectSctp ==
    ASSUME SctpInv, TransportConnected
    PROVE  SctpOK(sctp')
<1>1. PICK a \in SctpRecords : a = Idle(sctp) /\ Like(a, sctp) /\ SctpOK(a)
  BY IdleFacts, LikeOK DEF SctpInv, SctpOK
<1>2. a.of \in Consumptions
  BY DEF SctpRecords
<1>3. PICK of : of = [c \in DataConsumers |-> [a.of[c] EXCEPT !.transport = sctp.of[c].open]]
  BY Zenon
<1>4. \A c \in DataConsumers :
        /\ of[c] \in ConsumerRecords /\ of[c].open = a.of[c].open /\ of[c].sctp = a.of[c].sctp
        /\ of[c].open => of[c].transport = TRUE
  <2> SUFFICES ASSUME NEW c \in DataConsumers
               PROVE  /\ of[c] \in ConsumerRecords /\ of[c].open = a.of[c].open
                      /\ of[c].sctp = a.of[c].sctp /\ (of[c].open => of[c].transport = TRUE)
    BY Zenon
  <2>1. PICK v \in BOOLEAN : v = sctp.of[c].open /\ v = a.of[c].open
    BY <1>1, <1>2 DEF Like, Consumptions, ConsumerRecords
  <2>2. of[c] = [a.of[c] EXCEPT !.transport = v] /\ a.of[c] \in ConsumerRecords
    BY <1>2, <1>3, <2>1, Zenon DEF Consumptions
  <2> QED BY <2>1, <2>2 DEF ConsumerRecords
<1>5. of \in Consumptions
  BY <1>3, <1>4 DEF Consumptions
<1>6. PICK d \in SctpRecords : d = [a EXCEPT !.connected = TRUE, !.of = of] /\ SctpOK(d) /\ d.state = a.state
  <2>1. PICK d : d = [a EXCEPT !.connected = TRUE, !.of = of]
    OBVIOUS
  <2>2. /\ SctpOK([a EXCEPT !.connected = TRUE, !.of = of])
        /\ [a EXCEPT !.connected = TRUE, !.of = of] \in SctpRecords
        /\ [a EXCEPT !.connected = TRUE, !.of = of].state = a.state
    BY <1>1, <1>4, <1>5, ConnectedOK, ZenonT(40)
  <2>3. SctpOK(d) /\ d \in SctpRecords /\ d.state = a.state
    BY <2>1, <2>2, Zenon
  <2> QED BY <2>1, <2>3, Zenon
<1>7. \/ sctp' = d
      \/ sctp.state = "new" /\ sctp' = Enter(d, "connecting")
      \/ sctp.state = "new" /\ sctp' = Enter(d, "failed")
  BY <1>1, <1>3, <1>6, Zenon DEF TransportConnected
<1>8. d.state = sctp.state
  BY <1>1, <1>6 DEF Like
<1> QED BY <1>6, <1>7, <1>8, EnterFacts, Zenon DEF States

\* The transport disconnects.
LEMMA DisconnectSctp ==
    ASSUME SctpInv, TransportDisconnected
    PROVE  SctpOK(sctp')
<1>1. PICK a \in SctpRecords : a = Idle(sctp) /\ SctpOK(a)
  BY IdleFacts, LikeOK DEF SctpInv, SctpOK
<1>2. a.of \in Consumptions
  BY DEF SctpRecords
<1>3. PICK of : of = [c \in DataConsumers |-> [a.of[c] EXCEPT !.transport = FALSE]]
  BY Zenon
<1>4. \A c \in DataConsumers :
        /\ of[c] \in ConsumerRecords /\ of[c].open = a.of[c].open /\ of[c].sctp = a.of[c].sctp
        /\ of[c].open => of[c].transport = FALSE
  BY <1>2, <1>3, Zenon DEF Consumptions, ConsumerRecords
<1>5. of \in Consumptions
  BY <1>3, <1>4 DEF Consumptions
<1>6. sctp' = [a EXCEPT !.connected = FALSE, !.of = of]
  BY <1>1, <1>3, Zenon DEF TransportDisconnected
<1> QED BY <1>1, <1>4, <1>5, <1>6, ConnectedOK, Zenon

\* The transport is closed: nothing is left of the association.
LEMMA CloseSctp ==
    ASSUME SctpInv, CloseAssociation
    PROVE  SctpOK(sctp')
<1>1. PICK a \in SctpRecords : a = Idle(sctp) /\ SctpOK(a)
  BY IdleFacts, LikeOK DEF SctpInv, SctpOK
<1>2. PICK of : of = [c \in DataConsumers |-> NewConsumer]
  BY Zenon
<1>3. of \in Consumptions /\ \A c \in DataConsumers : of[c].open = FALSE
  BY <1>2 DEF Consumptions, ConsumerRecords, NewConsumer
<1>4. PICK table : table = [s \in {} |-> 0]
  OBVIOUS
<1>5. DOMAIN table = {} /\ table \in Tables
  <2>1. table \in [{} -> DataProducers]
    BY <1>4
  <2> QED BY <1>4, <2>1, Zenon DEF Tables
<1>6. PICK none : none = << >> /\ none \in Arrivals
  BY DEF Arrivals
<1>7. PICK d : d = [a EXCEPT !.registered = FALSE, !.checker = FALSE, !.arriving = none,
                             !.state = "closed", !.told = "closed", !.connected = FALSE,
                             !.of = of, !.table = table]
  OBVIOUS
<1>8. sctp' = d
  BY <1>1, <1>2, <1>4, <1>6, <1>7, Zenon DEF CloseAssociation
<1>9. d \in SctpRecords
  BY <1>3, <1>5, <1>6, <1>7, ZenonT(40) DEF SctpRecords, States
<1>10. /\ d.registered = FALSE /\ d.checker = FALSE /\ d.state = "closed" /\ d.told = "closed"
       /\ d.of = of /\ d.table = table /\ d.tainted = a.tainted /\ d.delivered = a.delivered
  BY <1>7 DEF SctpRecords
<1>11. Views(d) /\ TableOK(d) /\ BufferOK(d)
  BY <1>3, <1>5, <1>10, Zenon DEF Views, TableOK, BufferOK
<1>12. Whole(d)
  BY <1>1, <1>10 DEF SctpOK, Whole
<1> QED BY <1>8, <1>9, <1>10, <1>11, <1>12 DEF SctpOK

\* A stream goes to a DataProducer.
LEMMA ProduceSctp ==
    ASSUME SctpInv, ProduceData
    PROVE  SctpOK(sctp')
<1>1. PICK a \in SctpRecords : a = Idle(sctp) /\ SctpOK(a) /\ Like(a, sctp)
  BY IdleFacts, LikeOK DEF SctpInv, SctpOK
<1>2. PICK p \in DataProducers :
        sctp' = [a EXCEPT !.table = [s \in DOMAIN @ \cup {ProducerStream[p]} |->
                                        IF s = ProducerStream[p] THEN p ELSE @[s]]]
  BY <1>1, Zenon DEF ProduceData
<1>3. PICK table : table = [s \in DOMAIN a.table \cup {ProducerStream[p]} |->
                              IF s = ProducerStream[p] THEN p ELSE a.table[s]]
  BY Zenon
<1>4. a.table \in Tables /\ ProducerStream[p] \in Nat
  BY SctpAssumption DEF SctpRecords
<1>5. table \in Tables
  <2>1. PICK S \in SUBSET Nat : a.table \in [S -> DataProducers]
    BY <1>4 DEF Tables
  <2>2. PICK T \in SUBSET Nat : T = S \cup {ProducerStream[p]}
    BY <1>4, Zenon
  <2>3. table \in [T -> DataProducers]
    BY <1>3, <2>1, <2>2
  <2> QED BY <2>3 DEF Tables
<1>6. PICK d : d = [a EXCEPT !.table = table]
  BY Zenon
<1>7. sctp' = d
  BY <1>2, <1>3, <1>6, Zenon
<1>8. d \in SctpRecords
  BY <1>5, <1>6 DEF SctpRecords
<1>9. /\ d.registered = a.registered /\ d.checker = a.checker /\ d.connected = a.connected
      /\ d.state = a.state /\ d.told = a.told /\ d.table = table /\ d.of = a.of
      /\ d.buffer = a.buffer /\ d.lastSsn = a.lastSsn /\ d.arriving = a.arriving
      /\ d.tainted = a.tainted /\ d.delivered = a.delivered
  BY <1>6 DEF SctpRecords
<1>10. Views(d) /\ Whole(d)
  BY <1>1, <1>9, SMTT(60) DEF SctpOK, Views, Whole
<1>11. BufferOK(d)
  BY <1>1, <1>9 DEF SctpOK, BufferOK
<1>12. TableOK(d)
  BY <1>1, <1>3, <1>9 DEF SctpOK, TableOK
<1> QED BY <1>1, <1>7, <1>8, <1>9, <1>10, <1>11, <1>12 DEF SctpOK

\* A DataProducer is closed, and its stream is reset.
LEMMA CloseProducerSctp ==
    ASSUME SctpInv, CloseDataProducer
    PROVE  SctpOK(sctp')
<1>1. PICK a \in SctpRecords : a = Idle(sctp) /\ SctpOK(a) /\ Like(a, sctp)
  BY IdleFacts, LikeOK DEF SctpInv, SctpOK
<1>2. PICK direction \in {"outgoing", "incoming"} :
        direction = IF IsDataChannel THEN "outgoing" ELSE "incoming"
  OBVIOUS
<1>3. PICK s \in DOMAIN sctp.table :
        sctp' = ResetSctpStream([a EXCEPT !.table = [i \in DOMAIN @ \ {s} |-> @[i]]], s, direction)
  BY <1>1, <1>2, Zenon DEF CloseDataProducer
<1>4. PICK table : table = [i \in DOMAIN a.table \ {s} |-> a.table[i]]
  BY Zenon
<1>5. a.table \in Tables /\ a.table = sctp.table
  BY <1>1 DEF SctpRecords, Like
<1>6. table \in Tables /\ s \in Nat
  <2>1. PICK S \in SUBSET Nat : a.table \in [S -> DataProducers]
    BY <1>5 DEF Tables
  <2>2. PICK T \in SUBSET Nat : T = S \ {s}
    BY Zenon
  <2>3. table \in [T -> DataProducers]
    BY <1>4, <2>1, <2>2
  <2>4. s \in Nat
    BY <1>5, <2>1, Zenon
  <2> QED BY <2>3, <2>4 DEF Tables
<1>7. PICK d : d = [a EXCEPT !.table = table]
  BY Zenon
<1>8. sctp' = ResetSctpStream(d, s, direction)
  BY <1>3, <1>4, <1>7, Zenon
<1>9. d \in SctpRecords
  BY <1>6, <1>7 DEF SctpRecords
<1>10. /\ d.registered = a.registered /\ d.checker = a.checker /\ d.connected = a.connected
       /\ d.state = a.state /\ d.told = a.told /\ d.table = table /\ d.of = a.of
       /\ d.buffer = a.buffer /\ d.lastSsn = a.lastSsn /\ d.arriving = a.arriving
       /\ d.tainted = a.tainted /\ d.delivered = a.delivered
  BY <1>7 DEF SctpRecords
<1>11. Views(d) /\ Whole(d)
  BY <1>1, <1>10, SMTT(60) DEF SctpOK, Views, Whole
<1>12. BufferOK(d)
  BY <1>1, <1>10, Zenon DEF SctpOK, BufferOK
<1>13. TableOK(d)
  BY <1>1, <1>4, <1>10 DEF SctpOK, TableOK
<1>14. SctpOK(d)
  BY <1>1, <1>9, <1>10, <1>11, <1>12, <1>13 DEF SctpOK
<1> QED BY <1>6, <1>8, <1>9, <1>14, ResetFacts, LikeOK

\* A DataConsumer comes or goes; a new one knows how things stand.
LEMMA ConsumerOK ==
    ASSUME NEW b \in SctpRecords, SctpOK(b), NEW c \in DataConsumers, NEW r \in ConsumerRecords,
           r.open => r.sctp = (b.state = "connected") /\ r.transport = b.connected
    PROVE  SctpOK([b EXCEPT !.of[c] = r]) /\ [b EXCEPT !.of[c] = r] \in SctpRecords
<1>1. PICK of : of = [b.of EXCEPT ![c] = r]
  BY Zenon
<1>2. b.of \in Consumptions
  BY DEF SctpRecords
<1>3. of \in Consumptions
  BY <1>1, <1>2 DEF Consumptions
<1>4. PICK d : d = [b EXCEPT !.of = of]
  BY Zenon
<1>5. [b EXCEPT !.of[c] = r] = d
  BY <1>1, <1>4
<1>6. d \in SctpRecords
  BY <1>3, <1>4 DEF SctpRecords
<1>7. /\ d.registered = b.registered /\ d.checker = b.checker /\ d.connected = b.connected
      /\ d.state = b.state /\ d.told = b.told /\ d.table = b.table /\ d.of = of
      /\ d.buffer = b.buffer /\ d.lastSsn = b.lastSsn /\ d.arriving = b.arriving
      /\ d.tainted = b.tainted /\ d.delivered = b.delivered
  BY <1>4 DEF SctpRecords
<1>8. Views(d)
  BY <1>1, <1>2, <1>7 DEF SctpOK, Views, Consumptions
<1>9. TableOK(d) /\ Whole(d)
  BY <1>7 DEF SctpOK, TableOK, Whole
<1>10. BufferOK(d)
  BY <1>7 DEF SctpOK, BufferOK
<1> QED BY <1>5, <1>6, <1>7, <1>8, <1>9, <1>10 DEF SctpOK

\* A DataConsumer is created.
LEMMA ConsumeSctp ==
    ASSUME SctpInv, ConsumeData
    PROVE  SctpOK(sctp')
<1>1. PICK a \in SctpRecords : a = Idle(sctp) /\ SctpOK(a) /\ Like(a, sctp)
  BY IdleFacts, LikeOK DEF SctpInv, SctpOK
<1>2. PICK up \in BOOLEAN : up = (sctp.state = "connected")
  BY Zenon
<1>3. PICK t \in BOOLEAN : t = sctp.connected
  BY DEF SctpInv, SctpOK, SctpRecords
<1>4. PICK r : r = [NewConsumer EXCEPT !.open = TRUE, !.transport = t, !.sctp = up]
  OBVIOUS
<1>5. r \in ConsumerRecords /\ r.sctp = up /\ r.transport = t
  <2>1. NewConsumer \in ConsumerRecords
    BY DEF NewConsumer, ConsumerRecords
  <2> QED BY <1>4, <2>1, Zenon DEF ConsumerRecords
<1>6. PICK c \in DataConsumers : sctp' = HandleDataConsumer([a EXCEPT !.of[c] = r], c)
  BY <1>1, <1>2, <1>3, <1>4, Zenon DEF ConsumeData
<1>7. PICK d : d = [a EXCEPT !.of[c] = r]
  BY Zenon
<1>8. SctpOK([a EXCEPT !.of[c] = r]) /\ [a EXCEPT !.of[c] = r] \in SctpRecords
  BY <1>1, <1>2, <1>3, <1>5, ConsumerOK DEF Like
<1>9. SctpOK(d) /\ d \in SctpRecords
  BY <1>7, <1>8, Zenon
<1>10. sctp' = d \/ sctp' = AddOutgoingStreams(d, FALSE)
  BY <1>6, <1>7, Zenon DEF HandleDataConsumer
<1> QED BY <1>9, <1>10, StreamsFacts, LikeOK, Zenon

\* A DataConsumer is closed.
LEMMA CloseConsumerSctp ==
    ASSUME SctpInv, CloseDataConsumer
    PROVE  SctpOK(sctp')
<1>1. PICK a \in SctpRecords : a = Idle(sctp) /\ SctpOK(a)
  BY IdleFacts, LikeOK DEF SctpInv, SctpOK
<1>2. NewConsumer \in ConsumerRecords /\ NewConsumer.open = FALSE
  BY DEF NewConsumer, ConsumerRecords
<1>3. PICK c \in DataConsumers :
        sctp' = ResetSctpStream([a EXCEPT !.of[c] = NewConsumer], ConsumerStream[c], "outgoing")
  BY <1>1, Zenon DEF CloseDataConsumer
<1>4. PICK d : d = [a EXCEPT !.of[c] = NewConsumer]
  BY Zenon
<1>5. SctpOK([a EXCEPT !.of[c] = NewConsumer]) /\ [a EXCEPT !.of[c] = NewConsumer] \in SctpRecords
  BY <1>1, <1>2, ConsumerOK
<1>6. SctpOK(d) /\ d \in SctpRecords
  BY <1>4, <1>5, Zenon
<1>7. PICK s \in Nat : s = ConsumerStream[c]
  BY SctpAssumption
<1>8. sctp' = ResetSctpStream(d, s, "outgoing")
  BY <1>3, <1>4, <1>7, Zenon
<1> QED BY <1>6, <1>8, ResetFacts, LikeOK

\* A message is sent.
LEMMA SendSctp ==
    ASSUME SctpInv, SendMessage
    PROVE  SctpOK(sctp')
<1>1. PICK a \in SctpRecords : a = Idle(sctp) /\ SctpOK(a)
  BY IdleFacts, LikeOK DEF SctpInv, SctpOK
<1>2. PICK c \in DataConsumers, size \in 1..MaxSctpMessageSize : sctp' = SendSctpMessage(a, c, size)
  BY <1>1, Zenon DEF SendMessage
<1>3. size \in Nat
  BY SctpAssumption
<1> QED BY <1>1, <1>2, <1>3, SendFacts, LikeOK

\* The application sets a threshold.
LEMMA ThresholdSctp ==
    ASSUME SctpInv, SetBufferedAmountLowThreshold
    PROVE  SctpOK(sctp')
<1>1. PICK a \in SctpRecords : a = Idle(sctp) /\ SctpOK(a)
  BY IdleFacts, LikeOK DEF SctpInv, SctpOK
<1>2. PICK c \in DataConsumers, t \in Thresholds, w \in BOOLEAN :
        sctp' = [a EXCEPT !.of[c].threshold = t, !.of[c].force = @ \/ w, !.of[c].waiting = w]
  <2>1. PICK c \in DataConsumers, t \in Thresholds :
          LET low == sctp.of[c].amount <= t IN
          sctp' = [Idle(sctp) EXCEPT !.of[c].threshold = t,
                                     !.of[c].force = @ \/ ~low,
                                     !.of[c].waiting = ~low]
    BY Zenon DEF SetBufferedAmountLowThreshold
  <2>2. PICK w \in BOOLEAN : w = ~(sctp.of[c].amount <= t)
    BY Zenon
  <2> QED BY <1>1, <2>1, <2>2, Zenon
<1>3. PICK o \in Consumptions : o = a.of
  BY DEF SctpRecords
<1>4. PICK r \in ConsumerRecords : r = o[c]
  BY DEF Consumptions
<1>6. PICK f \in BOOLEAN : f = (r.force \/ w)
  BY DEF ConsumerRecords
<1>7. PICK q : q = [r EXCEPT !.threshold = t, !.force = f, !.waiting = w]
  OBVIOUS
<1>8. /\ q \in ConsumerRecords /\ q.open = r.open /\ q.sctp = r.sctp /\ q.transport = r.transport
  BY <1>7, Zenon DEF ConsumerRecords
<1>9. sctp' = [a EXCEPT !.of[c] = q]
  <2>1. PICK g : g = r.force
    OBVIOUS
  <2>2. sctp' = [a EXCEPT !.of[c].threshold = t, !.of[c].force = g \/ w, !.of[c].waiting = w]
    BY <1>2, <1>3, <1>4, <2>1
  <2> QED BY <1>3, <1>4, <1>6, <1>7, <2>1, <2>2, Zenon
<1>10. r.open => r.sctp = (a.state = "connected") /\ r.transport = a.connected
  BY <1>1, <1>3, <1>4 DEF SctpOK, Views
<1> QED BY <1>1, <1>8, <1>9, <1>10, ConsumerOK

\* usrsctp starts over, or is gone: a message under way is cut short.
CutShort(d, b) ==
    /\ d.registered = b.registered /\ d.checker = b.checker /\ d.connected = b.connected
    /\ d.state = b.state /\ d.told = b.told /\ d.table = b.table /\ d.of = b.of
    /\ d.buffer = b.buffer /\ d.lastSsn = b.lastSsn /\ d.arriving = << >>
    /\ d.tainted = (b.tainted \/ b.arriving # << >>) /\ d.delivered = b.delivered

\* Then the association is as before, but for the ghost that says so.
LEMMA CutOK ==
    ASSUME NEW b, NEW d \in SctpRecords, SctpOK(b), CutShort(d, b)
    PROVE  SctpOK(d)
<1>1. Views(d)
  BY DEF SctpOK, CutShort, Views
<1>2. TableOK(d)
  BY DEF SctpOK, CutShort, TableOK
<1>3. BufferOK(d)
  BY Zenon DEF SctpOK, CutShort, BufferOK
<1>4. Whole(d)
  <2>1. Whole(b) /\ d.delivered = b.delivered /\ (~d.tainted => ~b.tainted)
    BY Zenon DEF SctpOK, CutShort
  <2> QED BY <2>1 DEF Whole
<1> QED BY <1>1, <1>2, <1>3, <1>4 DEF SctpOK, CutShort

\* The association is up.
LEMMA CommUpSctp ==
    ASSUME SctpInv, CommUp
    PROVE  SctpOK(sctp')
<1>1. PICK a \in SctpRecords : a = Idle(sctp) /\ SctpOK(a) /\ Like(a, sctp)
  BY IdleFacts, LikeOK DEF SctpInv, SctpOK
<1>2. PICK stale \in BOOLEAN : stale = (a.stale \/ sctp.amount > 0)
  BY Zenon
<1>3. PICK tainted \in BOOLEAN : tainted = (a.tainted \/ sctp.arriving # << >>)
  BY Zenon
<1>4. PICK none : none = << >> /\ none \in Arrivals
  BY DEF Arrivals
<1>0. PICK zero \in Int : zero = 0
  OBVIOUS
<1>5. PICK up : up = [a EXCEPT !.os = Os, !.asked = zero, !.denied = FALSE, !.arriving = none,
                               !.held = zero, !.stale = stale, !.tainted = tainted]
  OBVIOUS
<1>6. sctp' = Enter(IF up.desiredOs > Os THEN AddOutgoingStreams(up, TRUE) ELSE up, "connected")
  BY <1>0, <1>1, <1>2, <1>3, <1>4, <1>5, Zenon DEF CommUp
<1>7. up \in SctpRecords
  <2>1. Os \in Int
    BY SctpAssumption
  <2>2. none \in Arrivals
    BY <1>4
  <2> QED BY <1>5, <2>1, <2>2, ZenonT(40) DEF SctpRecords
<1>8. CutShort(up, a)
  BY <1>1, <1>3, <1>4, <1>5 DEF CutShort, SctpRecords, Like
<1>9. SctpOK(up)
  BY <1>1, <1>7, <1>8, CutOK
<1>10. sctp.registered /\ a.registered = sctp.registered /\ up.registered = a.registered
  BY <1>1, <1>8 DEF CommUp, Like, CutShort
<1>11. PICK d \in SctpRecords :
         /\ d = IF up.desiredOs > Os THEN AddOutgoingStreams(up, TRUE) ELSE up
         /\ SctpOK(d) /\ d.registered = up.registered
  <2>1. CASE up.desiredOs > Os
    <3>1. /\ AddOutgoingStreams(up, TRUE) \in SctpRecords
          /\ Like(AddOutgoingStreams(up, TRUE), up)
      BY <1>7, StreamsFacts, Zenon
    <3>2. SctpOK(AddOutgoingStreams(up, TRUE))
      BY <1>9, <3>1, LikeOK, Zenon
    <3> QED BY <2>1, <3>1, <3>2, Zenon DEF Like
  <2>2. CASE ~(up.desiredOs > Os)
    BY <1>7, <1>9, <2>2, Zenon
  <2> QED BY <2>1, <2>2, Zenon
<1>12. "connected" \in States /\ d.registered
  BY <1>10, <1>11, Zenon DEF States
<1> QED BY <1>6, <1>11, <1>12, EnterFacts, Zenon

\* The association is lost.
LEMMA CommLostSctp ==
    ASSUME SctpInv, CommLost
    PROVE  SctpOK(sctp')
<1>1. PICK a \in SctpRecords : a = Idle(sctp) /\ SctpOK(a) /\ Like(a, sctp)
  BY IdleFacts, LikeOK DEF SctpInv, SctpOK
<1>2. PICK b \in SctpRecords : b = Enter(a, "closed") /\ SctpOK(b)
  BY <1>1, EnterFacts DEF States
<1>3. b.arriving = a.arriving
  BY <1>2 DEF Enter, SctpRecords
<1>4. PICK stale \in BOOLEAN : stale = (b.stale \/ sctp.amount > 0)
  BY Zenon
<1>5. PICK tainted \in BOOLEAN : tainted = (b.tainted \/ sctp.arriving # << >>)
  BY Zenon
<1>6. PICK none : none = << >> /\ none \in Arrivals
  BY DEF Arrivals
<1>0. PICK zero \in Int : zero = 0
  OBVIOUS
<1>7. PICK d : d = [b EXCEPT !.arriving = none, !.asked = zero, !.held = zero, !.stale = stale, !.tainted = tainted]
  OBVIOUS
<1>8. sctp' = d
  BY <1>0, <1>1, <1>2, <1>4, <1>5, <1>6, <1>7, Zenon DEF CommLost
<1>9. d \in SctpRecords
  <2>1. none \in Arrivals
    BY <1>6
  <2> QED BY <1>7, <2>1, ZenonT(40) DEF SctpRecords
<1>10. CutShort(d, b)
  BY <1>1, <1>3, <1>5, <1>6, <1>7 DEF CutShort, SctpRecords, Like
<1> QED BY <1>2, <1>8, <1>9, <1>10, CutOK

\* The association cannot start.
LEMMA CantStartSctp ==
    ASSUME SctpInv, CantStart
    PROVE  SctpOK(sctp')
<1>1. PICK a \in SctpRecords : a = Idle(sctp) /\ SctpOK(a)
  BY IdleFacts, LikeOK DEF SctpInv, SctpOK
<1>2. sctp' = Enter(a, "failed")
  BY <1>1, Zenon DEF CantStart
<1> QED BY <1>1, <1>2, EnterFacts DEF States

\* The peer answers a request for streams, or resets one.
LEMMA StreamsSctp ==
    ASSUME SctpInv, StreamChange \/ StreamChangeDenied \/ StreamReset
    PROVE  SctpOK(sctp')
<1>1. PICK a \in SctpRecords : a = Idle(sctp) /\ SctpOK(a) /\ Like(a, sctp)
  BY IdleFacts, LikeOK DEF SctpInv, SctpOK
<1>2. PICK b \in SctpRecords : b = sctp /\ SctpOK(b)
  BY DEF SctpInv, SctpOK
<1>0. PICK zero \in Int : zero = 0
  OBVIOUS
<1>3. CASE StreamChange
  <2>1. PICK os \in Int : os = b.os + b.asked
    BY DEF SctpRecords
  <2>2. PICK d : d = [b EXCEPT !.os = os, !.asked = zero]
    OBVIOUS
  <2>3. sctp' = d
    BY <1>0, <1>2, <1>3, <2>1, <2>2, Zenon DEF StreamChange
  <2>4. d \in SctpRecords
    BY <2>2, Zenon DEF SctpRecords
  <2>5. Like(d, b)
    BY <2>2 DEF Like, SctpRecords
  <2> QED BY <1>2, <2>3, <2>4, <2>5, LikeOK
<1>4. CASE StreamChangeDenied
  <2>1. PICK d : d = [a EXCEPT !.asked = zero, !.denied = TRUE]
    OBVIOUS
  <2>2. sctp' = d
    BY <1>0, <1>1, <1>4, <2>1, Zenon DEF StreamChangeDenied
  <2>3. d \in SctpRecords
    BY <2>1, Zenon DEF SctpRecords
  <2>4. Like(d, a)
    BY <2>1 DEF Like, SctpRecords
  <2> QED BY <1>1, <2>2, <2>3, <2>4, LikeOK
<1>5. CASE StreamReset
  <2>1. PICK s \in DOMAIN sctp.table : sctp' = ResetSctpStream(a, s, "outgoing")
    BY <1>1, <1>5, Zenon DEF StreamReset
  <2>2. sctp.table \in Tables
    BY <1>2 DEF SctpRecords
  <2>3. s \in Nat
    BY <2>1, <2>2, Zenon DEF Tables
  <2> QED BY <1>1, <2>1, <2>3, ResetFacts, LikeOK
<1> QED BY <1>3, <1>4, <1>5

\* usrsctp has sent something.
LEMMA SentSctp ==
    ASSUME SctpInv, OnUsrSctpSentData
    PROVE  SctpOK(sctp')
<1>1. PICK b \in SctpRecords : b = sctp /\ SctpOK(b)
  BY DEF SctpInv, SctpOK
<1>2. PICK n \in 1..b.held :
        \E a : /\ a = [b EXCEPT !.held = @ - n]
               /\ \/ sctp' = a
                  \/ sctp' = [a EXCEPT !.stale = FALSE]
                  \/ sctp' = OnSctpAssociationBufferedAmount([a EXCEPT !.stale = FALSE], a.held)
  BY <1>1, Zenon DEF OnUsrSctpSentData
<1>a. PICK a : /\ a = [b EXCEPT !.held = @ - n]
               /\ \/ sctp' = a
                  \/ sctp' = [a EXCEPT !.stale = FALSE]
                  \/ sctp' = OnSctpAssociationBufferedAmount([a EXCEPT !.stale = FALSE], a.held)
  BY <1>2, Zenon
<1>3. PICK held \in Int : held = b.held - n
  BY DEF SctpRecords
<1>4. a = [b EXCEPT !.held = held]
  BY <1>a, <1>3, Zenon
<1>5. a \in SctpRecords
  BY <1>4 DEF SctpRecords
<1>6. Like(a, b) /\ a.held \in Int
  BY <1>4 DEF Like, SctpRecords
<1>7. PICK d : d = [a EXCEPT !.stale = FALSE]
  BY Zenon
<1>8. d \in SctpRecords
  BY <1>5, <1>7, Zenon DEF SctpRecords
<1>9. Like(d, a)
  BY <1>5, <1>7 DEF Like, SctpRecords
<1>10. SctpOK(a) /\ SctpOK(d)
  BY <1>1, <1>5, <1>6, <1>8, <1>9, LikeOK
<1>11. sctp' = a \/ sctp' = d \/ sctp' = OnSctpAssociationBufferedAmount(d, a.held)
  BY <1>a, <1>7, Zenon
<1>12. /\ OnSctpAssociationBufferedAmount(d, a.held) \in SctpRecords
       /\ Like(OnSctpAssociationBufferedAmount(d, a.held), d)
  BY <1>6, <1>8, AmountFacts
<1>13. SctpOK(OnSctpAssociationBufferedAmount(d, a.held))
  BY <1>10, <1>12, LikeOK
<1> QED BY <1>10, <1>11, <1>13

\* What came of the message m before its chunk i is in the buffer.
Awaits(b, m, i) ==
    ~b.tainted /\ m.chunks <= MaxSctpMessageSize =>
        /\ i <= m.chunks
        /\ b.buffer # << >> => b.lastSsn = m.ssn
        /\ IsFront(b.buffer, m, i - 1)

\* The chunk i of m comes in (the step of ReceiveData).
Arrived(b, m, i) ==
    [ReceiveChunk(b, Chunk(m, i)) EXCEPT
        !.arriving = IF i = m.chunks THEN << >> ELSE <<m, i>>,
        !.tainted = @ \/ m.chunks > MaxSctpMessageSize]

\* A chunk appended to the front of its message.
LEMMA FrontGrows ==
    ASSUME NEW kept \in Buffers, NEW m \in PeerMessages, NEW i \in Nat \ {0}, IsFront(kept, m, i - 1),
           NEW chunk \in Chunks, chunk = Chunk(m, i)
    PROVE  IsFront(Append(kept, chunk), m, i)
<1>1. Len(Append(kept, chunk)) = i
  BY DEF IsFront, Buffers
<1>2. ASSUME NEW j \in 1..i
      PROVE  Append(kept, chunk)[j] = Chunk(m, j)
  BY <1>2 DEF IsFront, Buffers
<1> QED BY <1>1, <1>2 DEF IsFront

\* A chunk is well typed, and says whether it is the last one.
LEMMA ChunkFacts ==
    ASSUME NEW m \in PeerMessages, NEW i \in Nat
    PROVE  /\ Chunk(m, i) \in Chunks /\ m.chunks \in Nat \ {0}
           /\ Chunk(m, i).stream = m.stream /\ Chunk(m, i).ssn = m.ssn /\ Chunk(m, i).index = i
           /\ Chunk(m, i).eor = (i = m.chunks)
<1>1. m \in [stream : Nat, ssn : Nat, chunks : Nat \ {0}]
  BY SctpAssumption
<1>2. PICK last \in BOOLEAN : last = (i = m.chunks)
  BY Zenon
<1> QED BY <1>1, <1>2 DEF Chunk, Chunks

\* Buffers start empty and grow by a chunk at a time.
LEMMA BufferTypes ==
    << >> \in Buffers /\ \A k \in Buffers, x \in Chunks : Append(k, x) \in Buffers
<1>1. << >> \in Buffers
  BY DEF Buffers
<1>2. ASSUME NEW k \in Buffers, NEW x \in Chunks
      PROVE  Append(k, x) \in Buffers
  BY DEF Buffers
<1> QED BY <1>1, <1>2

\* What the buffer is when the chunk has come in, and what was handed on.
IsReceived(b, chunk, kept, whole, buffer, ssn, delivered) ==
    /\ kept = IF b.buffer # << >> /\ chunk.ssn # b.lastSsn THEN << >> ELSE b.buffer
    /\ whole = Append(kept, chunk)
    /\ ReceiveChunk(b, chunk) = [b EXCEPT !.buffer = buffer, !.lastSsn = ssn, !.delivered = delivered]
    /\ \/ Len(whole) > MaxSctpMessageSize /\ delivered = b.delivered
       \/ ~chunk.eor /\ buffer = whole /\ ssn = chunk.ssn /\ delivered = b.delivered
       \/ chunk.eor /\ buffer = << >> /\ delivered = b.delivered
       \/ /\ chunk.eor /\ buffer = << >>
          /\ chunk.stream \in DOMAIN b.table
          /\ delivered = [to |-> b.table[chunk.stream], chunks |-> whole]

\* OnUsrSctpReceiveSctpData() drops, keeps or hands on.
LEMMA ChunkReceived ==
    ASSUME NEW b \in SctpRecords, NEW chunk \in Chunks
    PROVE  \E kept \in Buffers, whole \in Buffers, buffer \in Buffers, ssn \in Nat, delivered \in Deliveries :
              IsReceived(b, chunk, kept, whole, buffer, ssn, delivered)
<1>1. PICK kept \in Buffers : kept = IF b.buffer # << >> /\ chunk.ssn # b.lastSsn THEN << >> ELSE b.buffer
  <2>1. b.buffer \in Buffers
    BY DEF SctpRecords
  <2> QED BY <2>1, BufferTypes, Zenon
<1>2. PICK whole \in Buffers : whole = Append(kept, chunk)
  BY BufferTypes, Zenon
<1>3. b.lastSsn \in Nat /\ b.delivered \in Deliveries /\ b.table \in Tables
  BY DEF SctpRecords
<1>4. PICK ssn \in Nat : ssn = chunk.ssn
  BY DEF Chunks
<1>5. PICK c : c = [b EXCEPT !.buffer = kept, !.lastSsn = ssn]
  OBVIOUS
<1>6. ReceiveChunk(b, chunk) =
        IF Len(whole) > MaxSctpMessageSize THEN [c EXCEPT !.lastSsn = 0]
        ELSE IF ~chunk.eor THEN [c EXCEPT !.buffer = whole]
        ELSE [c EXCEPT !.buffer = << >>,
                       !.delivered = IF chunk.stream \in DOMAIN b.table
                                     THEN [to |-> b.table[chunk.stream], chunks |-> whole]
                                     ELSE @]
  BY <1>1, <1>2, <1>4, <1>5, Zenon DEF ReceiveChunk
<1>7. CASE Len(whole) > MaxSctpMessageSize
  <2>1. PICK zero \in Nat : zero = 0
    OBVIOUS
  <2>2. ReceiveChunk(b, chunk) = [b EXCEPT !.buffer = kept, !.lastSsn = zero, !.delivered = b.delivered]
    BY <1>5, <1>6, <1>7, <2>1, Zenon DEF SctpRecords
  <2>3. IsReceived(b, chunk, kept, whole, kept, zero, b.delivered)
    BY <1>1, <1>2, <1>7, <2>2, Zenon DEF IsReceived
  <2> QED BY <1>3, <2>3
<1>8. CASE ~(Len(whole) > MaxSctpMessageSize) /\ ~chunk.eor
  <2>1. ReceiveChunk(b, chunk) = [b EXCEPT !.buffer = whole, !.lastSsn = ssn, !.delivered = b.delivered]
    BY <1>5, <1>6, <1>8, Zenon DEF SctpRecords
  <2>2. IsReceived(b, chunk, kept, whole, whole, ssn, b.delivered)
    BY <1>1, <1>2, <1>4, <1>8, <2>1, Zenon DEF IsReceived
  <2> QED BY <1>3, <2>2
<1>9. CASE ~(Len(whole) > MaxSctpMessageSize) /\ chunk.eor
  <2>1. PICK none \in Buffers : none = << >>
    BY BufferTypes, Zenon
  <2>2. CASE chunk.stream \in DOMAIN b.table
    <3>1. b.table[chunk.stream] \in DataProducers
      BY <1>3, <2>2, Zenon DEF Tables
    <3>2. PICK delivered : delivered = [to |-> b.table[chunk.stream], chunks |-> whole]
      BY Zenon
    <3>3. delivered \in Deliveries
      BY <3>1, <3>2 DEF Deliveries
    <3>4. ReceiveChunk(b, chunk) = [c EXCEPT !.buffer = none, !.delivered = delivered]
      BY <1>6, <1>9, <2>1, <2>2, <3>2, Zenon
    <3>5. ReceiveChunk(b, chunk) = [b EXCEPT !.buffer = none, !.lastSsn = ssn, !.delivered = delivered]
      BY <1>5, <3>4, Zenon DEF SctpRecords
    <3>6. IsReceived(b, chunk, kept, whole, none, ssn, delivered)
      BY <1>1, <1>2, <1>9, <2>1, <2>2, <3>2, <3>5, Zenon DEF IsReceived
    <3> QED BY <3>3, <3>6
  <2>3. CASE chunk.stream \notin DOMAIN b.table
    <3>1. ReceiveChunk(b, chunk) = [c EXCEPT !.buffer = none, !.delivered = @]
      BY <1>6, <1>9, <2>1, <2>3, Zenon
    <3>2. ReceiveChunk(b, chunk) = [b EXCEPT !.buffer = none, !.lastSsn = ssn, !.delivered = b.delivered]
      BY <1>5, <3>1, Zenon DEF SctpRecords
    <3>3. IsReceived(b, chunk, kept, whole, none, ssn, b.delivered)
      BY <1>1, <1>2, <1>9, <2>1, <3>2, Zenon DEF IsReceived
    <3> QED BY <1>3, <3>3
  <2> QED BY <2>2, <2>3, Zenon
<1> QED BY <1>7, <1>8, <1>9

\* The next chunk of a message leaves the association in order.
LEMMA ArrivedOK ==
    ASSUME NEW b \in SctpRecords, SctpOK(b), b.registered,
           NEW m \in PeerMessages, NEW i \in Nat \ {0}, Awaits(b, m, i)
    PROVE  SctpOK(Arrived(b, m, i))
<1>1. PICK chunk \in Chunks :
        /\ chunk = Chunk(m, i) /\ chunk.stream = m.stream /\ chunk.ssn = m.ssn /\ chunk.eor = (i = m.chunks)
  BY ChunkFacts
<1>2. PICK kept \in Buffers, whole \in Buffers, buffer \in Buffers, ssn \in Nat, delivered \in Deliveries :
        IsReceived(b, chunk, kept, whole, buffer, ssn, delivered)
  BY ChunkReceived
<1>3. PICK tainted \in BOOLEAN : tainted = (b.tainted \/ m.chunks > MaxSctpMessageSize)
  BY Zenon
<1>4. PICK arriving : arriving = IF i = m.chunks THEN << >> ELSE <<m, i>>
  BY Zenon
<1>5. arriving \in Arrivals
  BY <1>4 DEF Arrivals
<1>6. PICK d : d = [b EXCEPT !.buffer = buffer, !.lastSsn = ssn, !.delivered = delivered,
                             !.arriving = arriving, !.tainted = tainted]
  OBVIOUS
<1>7. Arrived(b, m, i) = d
  <2>1. PICK e : e = [b EXCEPT !.buffer = buffer, !.lastSsn = ssn, !.delivered = delivered]
    OBVIOUS
  <2>2. ReceiveChunk(b, chunk) = e
    BY <1>2, <2>1, Zenon DEF IsReceived
  <2>3. e.tainted = b.tainted
    BY <2>1 DEF SctpRecords
  <2>4. d = [e EXCEPT !.arriving = arriving, !.tainted = tainted]
    BY <1>6, <2>1, Zenon
  <2> QED BY <1>1, <1>3, <1>4, <2>2, <2>3, <2>4, Zenon DEF Arrived
<1>8. d \in SctpRecords
  BY <1>5, <1>6, Zenon DEF SctpRecords
<1>9. /\ d.registered = b.registered /\ d.checker = b.checker /\ d.connected = b.connected
      /\ d.state = b.state /\ d.told = b.told /\ d.table = b.table /\ d.of = b.of
      /\ d.buffer = buffer /\ d.lastSsn = ssn /\ d.arriving = arriving
      /\ d.tainted = tainted /\ d.delivered = delivered
  BY <1>6, Zenon DEF SctpRecords
<1>10. Views(d) /\ TableOK(d)
  BY <1>9, Zenon DEF SctpOK, Views, TableOK
<1>11. m.chunks \in Nat \ {0} /\ MaxSctpMessageSize \in Nat
  BY ChunkFacts, SctpAssumption
<1>12. CASE tainted
  BY <1>7, <1>8, <1>9, <1>10, <1>12, Zenon DEF SctpOK, Whole, BufferOK
<1>13. CASE ~tainted
  <2>1. ~b.tainted /\ m.chunks <= MaxSctpMessageSize
    <3>1. ~b.tainted /\ ~(m.chunks > MaxSctpMessageSize)
      BY <1>3, <1>13, Zenon
    <3> QED BY <1>11, <3>1
  <2>2. kept = b.buffer /\ i <= m.chunks /\ IsFront(b.buffer, m, i - 1)
    BY <1>1, <1>2, <2>1 DEF Awaits, IsReceived
  <2>3. whole = Append(kept, chunk)
    BY <1>2 DEF IsReceived
  <2>4. IsFront(whole, m, i)
    BY <1>1, <2>2, <2>3, FrontGrows, Zenon
  <2>5. ~(Len(whole) > MaxSctpMessageSize)
    BY <1>11, <2>1, <2>2, <2>4 DEF IsFront
  <2>6. BufferOK(d)
    <3>1. CASE i = m.chunks
      BY <1>1, <1>2, <1>4, <1>9, <2>5, <3>1, Zenon DEF BufferOK, IsReceived
    <3>2. CASE i # m.chunks
      <4>1. buffer = whole /\ ssn = m.ssn
        BY <1>1, <1>2, <2>5, <3>2, Zenon DEF IsReceived
      <4>2. arriving[1] = m /\ arriving[2] = i
        BY <1>4, <3>2
      <4>3. i \in 1..(m.chunks - 1)
        BY <1>11, <2>2, <3>2
      <4>4. arriving # << >>
        BY <1>4, <3>2
      <4> QED BY <1>9, <2>1, <2>4, <4>1, <4>2, <4>3, <4>4, Zenon DEF BufferOK
    <3> QED BY <3>1, <3>2
  <2>7. Whole(d)
    <3>1. CASE delivered = b.delivered
      BY <1>9, <2>1, <3>1, SMTT(60) DEF SctpOK, Whole
    <3>2. CASE delivered # b.delivered
      <4>1. /\ i = m.chunks /\ m.stream \in DOMAIN b.table
            /\ delivered = [to |-> b.table[m.stream], chunks |-> whole]
        BY <1>1, <1>2, <2>5, <3>2, Zenon DEF IsReceived
      <4>2. d.delivered.chunks = whole /\ d.delivered.to = b.table[m.stream]
        BY <1>9, <4>1, SMTT(60)
      <4>3. ProducerStream[b.table[m.stream]] = m.stream
        BY <4>1, Zenon DEF SctpOK, TableOK
      <4>4. DOMAIN whole = 1..m.chunks /\ Len(whole) = m.chunks
        BY <2>4, <4>1 DEF IsFront, Buffers
      <4>5. \A j \in 1..m.chunks :
              /\ whole[j].index = j /\ whole[j].stream = m.stream /\ whole[j].ssn = m.ssn
              /\ whole[j].eor = (j = m.chunks)
        <5> SUFFICES ASSUME NEW j \in 1..m.chunks
                     PROVE  /\ whole[j].index = j /\ whole[j].stream = m.stream /\ whole[j].ssn = m.ssn
                            /\ whole[j].eor = (j = m.chunks)
          BY Zenon
        <5>1. whole[j] = Chunk(m, j) /\ j \in Nat
          BY <1>11, <2>4, <4>1, SMTT(60) DEF IsFront
        <5> QED BY <5>1, ChunkFacts, SMTT(60)
      <4>6. 1 \in 1..m.chunks
        BY <1>11
      <4> QED BY <4>2, <4>3, <4>4, <4>5, <4>6, SMTT(60) DEF Whole
    <3> QED BY <3>1, <3>2
  <2> QED BY <1>7, <1>8, <1>9, <1>10, <2>6, <2>7, Zenon DEF SctpOK
<1> QED BY <1>12, <1>13

\* A chunk comes in, of the message under way or of the next one.
LEMMA ReceiveSctp ==
    ASSUME SctpInv, ReceiveData
    PROVE  SctpOK(sctp')
<1>1. PICK b \in SctpRecords : b = sctp /\ SctpOK(b)
  BY DEF SctpInv, SctpOK
<1>2. PICK a \in SctpRecords : a = Idle(sctp) /\ SctpOK(a) /\ Like(a, b)
  BY <1>1, IdleFacts, LikeOK
<1>3. b.registered /\ a.registered = b.registered
  BY <1>1, <1>2, Zenon DEF ReceiveData, SctpOK, Like
<1>4. \/ b.arriving # << >> /\ sctp' = Arrived(b, b.arriving[1], b.arriving[2] + 1)
      \/ b.arriving = << >> /\ \E m \in PeerMessages : sctp' = Arrived(a, m, 1)
  BY <1>1, <1>2, Zenon DEF ReceiveData, Arrived
<1>5. CASE b.arriving # << >> /\ sctp' = Arrived(b, b.arriving[1], b.arriving[2] + 1)
  <2>1. PICK m \in PeerMessages, k \in Nat : b.arriving[1] = m /\ b.arriving[2] = k
    <3>1. b.arriving \in PeerMessages \X Nat
      BY <1>5 DEF SctpRecords, Arrivals
    <3> QED BY <3>1
  <2>2. PICK i \in Nat \ {0} : i = k + 1
    OBVIOUS
  <2>3. Awaits(b, m, i)
    <3>1. SUFFICES ASSUME ~b.tainted, m.chunks <= MaxSctpMessageSize
                   PROVE  i <= m.chunks /\ (b.buffer # << >> => b.lastSsn = m.ssn) /\ IsFront(b.buffer, m, i - 1)
      BY DEF Awaits
    <3>2. k \in 1..(m.chunks - 1) /\ IsFront(b.buffer, m, k) /\ b.lastSsn = m.ssn
      BY <1>1, <1>3, <1>5, <2>1, <3>1, Zenon DEF SctpOK, BufferOK
    <3>3. m.chunks \in Nat
      BY ChunkFacts, Zenon
    <3>4. i <= m.chunks /\ i - 1 = k
      BY <2>2, <3>2, <3>3
    <3> QED BY <3>2, <3>4
  <2> QED BY <1>1, <1>3, <1>5, <2>1, <2>2, <2>3, ArrivedOK, Zenon
<1>6. CASE b.arriving = << >> /\ \E m \in PeerMessages : sctp' = Arrived(a, m, 1)
  <2>1. PICK m \in PeerMessages : sctp' = Arrived(a, m, 1)
    BY <1>6
  <2>2. ~a.tainted => a.buffer = << >>
    BY <1>1, <1>2, <1>3, <1>6, Zenon DEF SctpOK, BufferOK, Like
  <2>3. m.chunks \in Nat \ {0}
    BY ChunkFacts, Zenon
  <2>4. Awaits(a, m, 1)
    BY <2>2, <2>3 DEF Awaits, IsFront
  <2>5. 1 \in Nat \ {0}
    OBVIOUS
  <2> QED BY <1>2, <1>3, <2>1, <2>4, <2>5, ArrivedOK, Zenon
<1> QED BY <1>4, <1>5, <1>6, Zenon

\* A transport starts without an association.
LEMMA SctpStart ==
    ASSUME SctpInit
    PROVE  SctpInv
<1>1. PICK of : of = [c \in DataConsumers |-> NewConsumer]
  BY Zenon
<1>2. of \in Consumptions /\ \A c \in DataConsumers : of[c].open = FALSE
  BY <1>1 DEF Consumptions, ConsumerRecords, NewConsumer
<1>3. PICK table : table = [s \in {} |-> 0]
  OBVIOUS
<1>4. DOMAIN table = {} /\ table \in Tables
  <2>1. table \in [{} -> DataProducers]
    BY <1>3
  <2> QED BY <1>3, <2>1, Zenon DEF Tables
<1>5. PICK none : none = << >> /\ none \in Arrivals /\ none \in Buffers /\ none \in Deliveries
  BY BufferTypes DEF Arrivals, Deliveries
<1>6. PICK no : no = {} /\ no \in Resets
  <2>1. {} \in Resets
    BY Zenon DEF Resets
  <2> QED BY <2>1
<1>7. PICK zero : zero = 0 /\ zero \in Nat /\ zero \in Int
  OBVIOUS
<1>8. sctp = [registered |-> FALSE, checker |-> FALSE, connected |-> FALSE,
              state |-> "new", told |-> "new", os |-> Os, desiredOs |-> zero,
              amount |-> zero, buffer |-> none, lastSsn |-> zero, table |-> table, of |-> of,
              held |-> zero, asked |-> zero, denied |-> FALSE, arriving |-> none, resets |-> no,
              putOff |-> FALSE, stale |-> FALSE, tainted |-> FALSE, delivered |-> none, events |-> zero]
  BY <1>1, <1>3, <1>5, <1>6, <1>7, Zenon DEF SctpInit
<1>9. sctp \in SctpRecords
  <2>1. /\ none \in Arrivals /\ none \in Buffers /\ none \in Deliveries /\ no \in Resets
        /\ zero \in Nat /\ zero \in Int /\ Os \in Int /\ "new" \in States
    BY <1>5, <1>6, <1>7, SctpAssumption DEF States
  <2> QED BY <1>2, <1>4, <1>8, <2>1, Zenon DEF SctpRecords
<1>10. /\ sctp.registered = FALSE /\ sctp.checker = FALSE /\ sctp.state = "new" /\ sctp.told = "new"
       /\ sctp.of = of /\ sctp.table = table /\ sctp.arriving = none /\ sctp.buffer = none
       /\ sctp.delivered = none
  BY <1>8, Zenon
<1>11. Views(sctp) /\ TableOK(sctp)
  BY <1>2, <1>4, <1>10, Zenon DEF Views, TableOK
<1>12. BufferOK(sctp) /\ Whole(sctp)
  BY <1>5, <1>10, Zenon DEF BufferOK, Whole
<1> QED BY <1>9, <1>10, <1>11, <1>12 DEF SctpInv, SctpOK

\* Every step keeps the invariant.
LEMMA SctpStep ==
    ASSUME SctpInv, [SctpNext]_sctp
    PROVE  SctpInv'
<1>1. CASE UNCHANGED sctp
  BY <1>1 DEF SctpInv
<1>2. CASE SctpNext
  <2>1. SctpOK(sctp')
    BY <1>2, CreateSctp, ConnectSctp, DisconnectSctp, CloseSctp, ProduceSctp, CloseProducerSctp,
       ConsumeSctp, CloseConsumerSctp, SendSctp, ThresholdSctp, CommUpSctp, CommLostSctp,
       CantStartSctp, StreamsSctp, ReceiveSctp, SentSctp, Zenon DEF SctpNext
  <2> QED BY <2>1 DEF SctpInv
<1> QED BY <1>1, <1>2

\* Whatever the order in which the transport, usrsctp, the DataProducers and the
\* DataConsumers act, everyone knows the state of the association, and a message
\* handed to a DataProducer is the whole of one message on its stream
\* (SctpAssociation.cpp, SctpListener.cpp, DataConsumer.cpp, Transport.cpp).
THEOREM SctpCorrect == SctpSpec => []MessagesExact
<1>1. SctpInit => SctpInv
  BY SctpStart
<1>2. SctpInv /\ [SctpNext]_sctp => SctpInv'
  BY SctpStep
<1>3. SctpInv => MessagesExact
  <2>1. SUFFICES ASSUME SctpInv PROVE MessagesExact
    OBVIOUS
  <2>2. Views(sctp) /\ Whole(sctp)
    BY <2>1 DEF SctpInv, SctpOK
  <2>3. ViewsAgree
    BY <2>2, Zenon DEF Views, ViewsAgree
  <2>4. WholeMessages
    BY <2>2, Zenon DEF Whole, WholeMessages
  <2> QED BY <2>3, <2>4 DEF MessagesExact
<1> QED BY <1>1, <1>2, <1>3, PTL DEF SctpSpec


-----------------------------------------------------------------------------
(* The ICE agent. *)

\* No tuple is stored twice.
Distinct(s) == \A i, j \in DOMAIN s : s[i] = s[j] => i = j

\* Deleting position k of a duplicate-free list removes exactly that element.
LEMMA RemoveIndexFacts ==
    ASSUME NEW T, NEW s \in Seq(T), NEW k \in 1 .. Len(s), Distinct(s)
    PROVE  /\ RemoveIndex(s, k) \in Seq(T)
           /\ Len(RemoveIndex(s, k)) = Len(s) - 1
           /\ Elems(RemoveIndex(s, k)) = Elems(s) \ {s[k]}
           /\ Distinct(RemoveIndex(s, k))
<1> DEFINE r == RemoveIndex(s, k)
<1>1. Len(s) \in Nat /\ Len(s) >= 1 /\ DOMAIN s = 1 .. Len(s)
  OBVIOUS
<1>2. /\ DOMAIN r = 1 .. (Len(s) - 1)
      /\ \A i \in 1 .. (Len(s) - 1) : r[i] = IF i < k THEN s[i] ELSE s[i + 1]
  BY DEF RemoveIndex
<1>3. r \in Seq(T) /\ Len(r) = Len(s) - 1
  BY <1>1, <1>2 DEF RemoveIndex
<1>4. ASSUME NEW i \in DOMAIN r
      PROVE  r[i] \in Elems(s) /\ r[i] # s[k]
  <2> DEFINE j == IF i < k THEN i ELSE i + 1
  <2>1. j \in DOMAIN s /\ j # k /\ r[i] = s[j]
    BY <1>1, <1>2
  <2> HIDE DEF j
  <2> QED BY <2>1, <1>1, Zenon DEF Elems, Distinct
<1>5. ASSUME NEW i \in 1 .. Len(s), s[i] # s[k]
      PROVE  s[i] \in Elems(r)
  <2>1. CASE i < k
    BY <2>1, <1>1, <1>2, i \in DOMAIN r, r[i] = s[i], Zenon DEF Elems
  <2>2. CASE i > k
    <3>1. (i - 1) \in DOMAIN r /\ r[i - 1] = s[i]
      BY <2>2, <1>1, <1>2, SMTT(60)
    <3> QED BY <3>1, Zenon DEF Elems
  <2> QED BY <2>1, <2>2, <1>5, <1>1
<1>6. Elems(s) \ {s[k]} \subseteq Elems(r)
  BY <1>1, <1>5, Zenon DEF Elems
<1>7. ASSUME NEW i \in DOMAIN r, NEW j \in DOMAIN r, r[i] = r[j]
      PROVE  i = j
  <2> DEFINE at(m) == IF m < k THEN m ELSE m + 1
  <2>1. at(i) \in DOMAIN s /\ at(j) \in DOMAIN s
    BY <1>1, <1>2, SMTT(60)
  <2>2. r[i] = s[at(i)] /\ r[j] = s[at(j)]
    BY <1>1, <1>2, Zenon
  <2>3. at(i) = at(j)
    BY <2>1, <2>2, <1>7, Zenon DEF Distinct
  <2> QED BY <2>3, <1>1, <1>2, SMTT(60)
<1>8. Elems(r) = Elems(s) \ {s[k]}
  BY <1>4, <1>6, Zenon DEF Elems
<1> QED BY <1>3, <1>7, <1>8, Zenon DEF Distinct

\* Pushing a new element to the front of a duplicate-free list.
LEMMA PushFacts ==
    ASSUME NEW T, NEW s \in Seq(T), NEW t \in T, Distinct(s), t \notin Elems(s)
    PROVE  /\ <<t>> \o s \in Seq(T)
           /\ Len(<<t>> \o s) = Len(s) + 1
           /\ (<<t>> \o s)[1] = t
           /\ Elems(<<t>> \o s) = Elems(s) \cup {t}
           /\ Distinct(<<t>> \o s)
<1> DEFINE p == <<t>> \o s
<1>1. Len(s) \in Nat /\ DOMAIN s = 1 .. Len(s)
  OBVIOUS
<1>2. /\ p \in Seq(T) /\ Len(p) = Len(s) + 1
      /\ DOMAIN p = 1 .. (Len(s) + 1)
      /\ p[1] = t
      /\ \A i \in 2 .. (Len(s) + 1) : p[i] = s[i - 1]
  OBVIOUS
<1>3. Elems(p) \subseteq Elems(s) \cup {t}
  BY <1>1, <1>2 DEF Elems
<1>4. ASSUME NEW i \in DOMAIN s PROVE s[i] \in Elems(p)
  <2>1. (i + 1) \in DOMAIN p /\ p[i + 1] = s[i]
    BY <1>1, <1>2
  <2> QED BY <2>1 DEF Elems
<1>5. t \in Elems(p)
  BY <1>1, <1>2, 1 \in DOMAIN p DEF Elems
<1>6. Distinct(p)
  BY <1>1, <1>2, SMTT(60) DEF Distinct, Elems
<1> QED BY <1>2, <1>3, <1>4, <1>5, <1>6, SMTT(60) DEF Elems

\* Over the cap there is always a tuple to drop: the oldest one or, when that
\* one is selected, the one before it.
LEMMA VictimFacts ==
    ASSUME NEW T, NEW s \in Seq(T), Len(s) >= 3, Distinct(s)
    PROVE  /\ Oldest(Evictable(s)) \in 2 .. Len(s)
           /\ s[Oldest(Evictable(s))] # selectedTuple
<1> DEFINE n == Len(s)
           w == IF s[n] # selectedTuple THEN n ELSE n - 1
<1>1. n \in Nat /\ DOMAIN s = 1 .. n
  OBVIOUS
<1>2. w \in 2 .. n /\ s[w] # selectedTuple
  BY <1>1 DEF Distinct
<1>3. w \in Evictable(s) /\ \A j \in Evictable(s) : j <= w
  BY <1>1, <1>2 DEF Evictable
<1>4. Oldest(Evictable(s)) \in Evictable(s)
  BY <1>3 DEF Oldest
<1> QED BY <1>4 DEF Evictable

-----------------------------------------------------------------------------
(***************************************************************************)
(* The inductive invariant.  SelectedIsStored alone is not inductive: the  *)
(* eviction argument needs the list free of duplicates, and the absence of *)
(* failed assertions needs the fact that, without NOMINATION attributes,   *)
(* a live agent without connectivity holds no tuple.                       *)
(***************************************************************************)
PlainAgentEmpty ==
    Nominations = {} => /\ lifecycle # "aborted"
                        /\ lifecycle = "alive" => AssertHolds

\* An ICE restart always changes the credentials.
FragmentsDiffer == ufrag # oldUfrag

IInv ==
    /\ TypeOK
    /\ FragmentsDiffer
    /\ SelectedIsStored
    /\ TuplesBounded
    /\ ListenerMirrors
    /\ ResponseUsesRequestKey
    /\ PlainAgentEmpty

USE IceAssumption

\* The agent is created with no tuple and one announced username fragment.
LEMMA InitEstablishes == Init => IInv
<1> SUFFICES ASSUME Init PROVE IInv
  OBVIOUS
<1>1. TypeOK /\ FragmentsDiffer
  BY DEF Init, TypeOK, FragmentsDiffer, IceStates, Responses
<1>2. Stored = {} /\ Len(tuples) = 0
  BY DEF Init, Stored, Elems
<1>3. SelectedIsStored /\ TuplesBounded /\ ListenerMirrors
  BY <1>2 DEF Init, SelectedIsStored, TuplesBounded, ListenerMirrors, Connectivity
<1>4. ResponseUsesRequestKey /\ PlainAgentEmpty
  BY DEF Init, ResponseUsesRequestKey, PlainAgentEmpty, AssertHolds, Connectivity
<1> QED BY <1>1, <1>3, <1>4 DEF IInv

\* What AddTuple does to the list when the tuple is not in it yet: the tuple
\* is stored, at most one other tuple is dropped, and never the selected one.
LEMMA AddTupleFacts ==
    ASSUME IInv, NEW t \in Tuples, t \notin Stored, AddTuple(t)
    PROVE  /\ tuples' \in Seq(Tuples)
           /\ Distinct(tuples')
           /\ Len(tuples') <= MaxTuples
           /\ tuples' # <<>>
           /\ t \in Stored'
           /\ selectedTuple \in Stored => selectedTuple \in Stored'
           /\ listenerTuples' = Stored'
           /\ listenerTuples' \subseteq Tuples
<1> DEFINE p == <<t>> \o tuples
           v == Oldest(Evictable(p))
<1>1. tuples \in Seq(Tuples) /\ Distinct(tuples) /\ Len(tuples) <= MaxTuples
      /\ listenerTuples = Stored
  BY Zenon DEF IInv, TypeOK, TuplesBounded, ListenerMirrors, Distinct
<1>2. /\ p \in Seq(Tuples)
      /\ Len(p) = Len(tuples) + 1
      /\ p[1] = t
      /\ Elems(p) = Stored \cup {t}
      /\ Distinct(p)
  BY <1>1, PushFacts, Zenon DEF Stored
<1>3. CASE Len(p) <= MaxTuples
  <2>1. tuples' = p /\ listenerTuples' = listenerTuples \cup {t}
    BY <1>3 DEF AddTuple
  <2>2. Stored' = Elems(p)
    BY <2>1 DEF Stored
  <2> QED BY <1>1, <1>2, <1>3, <2>1, <2>2, SMTT(60) DEF IInv, TypeOK
<1>4. CASE ~(Len(p) <= MaxTuples)
  <2>1. tuples' = RemoveIndex(p, v) /\ listenerTuples' = (listenerTuples \cup {t}) \ {p[v]}
    BY <1>4, Zenon DEF AddTuple
  <2>2. Len(p) \in Nat /\ Len(p) >= 3 /\ Len(p) = MaxTuples + 1
    BY <1>1, <1>2, <1>4, SMTT(60)
  <2>3. v \in 2 .. Len(p) /\ p[v] # selectedTuple
    BY <1>2, <2>2, VictimFacts, Zenon
  <2>4. p[v] # t
    BY <1>2, <2>2, <2>3, SMTT(60) DEF Distinct
  <2>5. /\ tuples' \in Seq(Tuples)
        /\ Len(tuples') = Len(p) - 1
        /\ Elems(tuples') = Elems(p) \ {p[v]}
        /\ Distinct(tuples')
    <3>1. v \in 1 .. Len(p)
      BY <2>2, <2>3
    <3> HIDE DEF p, v
    <3>2. /\ RemoveIndex(p, v) \in Seq(Tuples)
          /\ Len(RemoveIndex(p, v)) = Len(p) - 1
          /\ Elems(RemoveIndex(p, v)) = Elems(p) \ {p[v]}
          /\ Distinct(RemoveIndex(p, v))
      BY <1>2, <3>1, RemoveIndexFacts, Zenon
    <3> QED BY <2>1, <3>2
  <2>6. Stored' = Elems(p) \ {p[v]}
    BY <2>5 DEF Stored
  <2> QED BY <1>1, <1>2, <2>1, <2>2, <2>3, <2>4, <2>5, <2>6, SMTT(60) DEF IInv, TypeOK
<1> QED BY <1>3, <1>4, Zenon

\* Authentication keeps the announced username fragments equal to the ones
\* still accepted, and picks the response key of the request's credentials.
LEMMA AuthenticateFacts ==
    ASSUME IInv, lifecycle = "alive", NEW cred \in Credentials, Authenticate(cred)
    PROVE  /\ ufrag' \in Credentials
           /\ oldUfrag' \in Credentials \cup {None}
           /\ listenerUfrags' \subseteq Credentials
           /\ ufrag' # oldUfrag'
           /\ listenerUfrags' = {ufrag', oldUfrag'} \ {None}
           /\ ResponseKey = cred
<1>1. /\ ufrag \in Credentials /\ oldUfrag \in Credentials \cup {None}
      /\ listenerUfrags = {ufrag, oldUfrag} \ {None}
      /\ None \notin Credentials
  BY Zenon DEF IInv, TypeOK, ListenerMirrors
<1>2. ufrag' = ufrag
  BY DEF Authenticate
<1>3. CASE cred = ufrag
  <2>1. oldUfrag' = None /\ listenerUfrags' = {ufrag}
    <3>1. oldUfrag' = None
      BY <1>3 DEF Authenticate
    <3>2. CASE oldUfrag = None
      BY <3>2, <1>1, <1>3 DEF Authenticate
    <3>3. CASE oldUfrag # None
      <4>1. ufrag # oldUfrag
        BY <3>3 DEF IInv, FragmentsDiffer
      <4> QED BY <3>3, <4>1, <1>1, <1>3, <3>1 DEF Authenticate
    <3> QED BY <3>1, <3>2, <3>3
  <2> QED BY <1>1, <1>2, <1>3, <2>1 DEF ResponseKey
<1>4. CASE cred # ufrag
  <2>1. oldUfrag' = oldUfrag /\ oldUfrag = cred /\ listenerUfrags' = listenerUfrags
    BY <1>4 DEF Authenticate
  <2>2. ufrag # oldUfrag
    BY DEF IInv, FragmentsDiffer
  <2> QED BY <1>1, <1>2, <2>1, <2>2 DEF ResponseKey
<1> QED BY <1>3, <1>4

\* Handling the tuple of an authenticated request keeps every part of the
\* invariant that concerns tuples and connectivity.
LEMMA HandleTuplePreserves ==
    ASSUME IInv, lifecycle = "alive", NEW t \in Tuples, NEW useCandidate \in BOOLEAN,
           NEW nomination \in Nominations \cup {None},
           HandleTuple(t, useCandidate, nomination)
    PROVE  /\ iceState' \in IceStates
           /\ tuples' \in Seq(Tuples)
           /\ selectedTuple' \in Tuples \cup {None}
           /\ remoteNomination' \in Nat
           /\ listenerTuples' \subseteq Tuples
           /\ lifecycle' \in {"alive", "aborted"}
           /\ SelectedIsStored'
           /\ TuplesBounded'
           /\ listenerTuples' = Stored'
           /\ PlainAgentEmpty'
<1>1. CASE ~AssertHolds
  <2>1. lifecycle' = "aborted" /\ UNCHANGED <<iceState, tuples, selectedTuple, remoteNomination, listenerTuples>>
    BY <1>1 DEF HandleTuple
  <2>2. Stored' = Stored /\ Nominations # {}
    BY <1>1, <2>1 DEF Stored, IInv, PlainAgentEmpty
  <2> QED BY <2>1, <2>2, Zenon DEF IInv, TypeOK, SelectedIsStored, TuplesBounded, ListenerMirrors, PlainAgentEmpty
<1>2. CASE AssertHolds
  <2>1. SelectTuple(t, useCandidate, nomination)
    BY <1>2 DEF HandleTuple
  <2>2. lifecycle' = "alive"
    BY <2>1 DEF SelectTuple
  <2>3. /\ tuples' \in Seq(Tuples)
        /\ Distinct(tuples')
        /\ Len(tuples') <= MaxTuples
        /\ tuples' # <<>>
        /\ t \in Stored'
        /\ selectedTuple \in Stored => selectedTuple \in Stored'
        /\ listenerTuples' = Stored'
        /\ listenerTuples' \subseteq Tuples
    <3>1. CASE HasTuple(t)
      <4>1. UNCHANGED <<tuples, listenerTuples>>
        BY <2>1, <3>1 DEF SelectTuple
      <4>2. Stored' = Stored /\ t \in Stored /\ tuples # <<>>
        BY <3>1, <4>1 DEF Stored, HasTuple, Elems
      <4> QED BY <4>1, <4>2, Zenon DEF IInv, TypeOK, TuplesBounded, ListenerMirrors, Distinct
    <3>2. CASE ~HasTuple(t)
      <4>1. AddTuple(t)
        BY <2>1, <3>2 DEF SelectTuple
      <4>2. t \notin Stored
        BY <3>2, <1>2 DEF HasTuple, AssertHolds, Stored, Elems
      <4> QED BY <4>1, <4>2, AddTupleFacts
    <3> QED BY <3>1, <3>2
  <2>4. TuplesBounded'
    BY <2>3 DEF TuplesBounded, Distinct
  <2> DEFINE nominated == useCandidate \/ nomination # None
             wins == Wins(useCandidate, nomination)
             fresh == iceState \notin Connectivity
  <2>5. /\ selectedTuple' = IF wins \/ (fresh /\ ~nominated) THEN t ELSE selectedTuple
        /\ iceState' = CASE wins -> "completed"
                         [] ~wins /\ ~nominated /\ fresh -> "connected"
                         [] OTHER -> iceState
        /\ remoteNomination' = IF wins /\ nomination # None THEN nomination ELSE remoteNomination
    BY <2>1 DEF SelectTuple
  <2>6. wins => nominated
    BY DEF Wins
  <2>7. Nominations = {} => nomination = None /\ (nominated => wins)
    BY DEF Wins
  <2>8. /\ iceState \in IceStates /\ selectedTuple \in Tuples \cup {None}
        /\ remoteNomination \in Nat
        /\ selectedTuple # None => selectedTuple \in Stored
        /\ selectedTuple # None <=> ~fresh
    BY <2>2, Zenon DEF IInv, TypeOK, SelectedIsStored
  <2> HIDE DEF nominated, wins
  <2>9. iceState' \in IceStates /\ selectedTuple' \in Tuples \cup {None}
    BY <2>5, <2>6, <2>8 DEF IceStates, Connectivity
  <2>10. remoteNomination' \in Nat
    BY <2>5, <2>6, <2>8
  <2>11. SelectedIsStored'
    BY <2>3, <2>5, <2>6, <2>8 DEF SelectedIsStored, Connectivity
  <2>12. Nominations = {} => iceState' \in Connectivity /\ selectedTuple' # None
    BY <2>5, <2>6, <2>7, <2>8 DEF Connectivity
  <2>13. PlainAgentEmpty'
    BY <2>2, <2>3, <2>12, Zenon DEF PlainAgentEmpty, AssertHolds
  <2> QED BY <2>2, <2>3, <2>4, <2>9, <2>10, <2>11, <2>13
<1> QED BY <1>1, <1>2, Zenon

\* Removing a tuple selects another stored one or reports 'disconnected'.
LEMMA RemoveTuplePreserves ==
    ASSUME IInv, NEW t \in Tuples, RemoveTuple(t)
    PROVE  IInv'
<1> DEFINE k == IndexOf(tuples, t)
<1>1. tuples \in Seq(Tuples) /\ Distinct(tuples) /\ Len(tuples) <= MaxTuples
  BY Zenon DEF IInv, TypeOK, TuplesBounded, Distinct
<1>2. k \in 1 .. Len(tuples) /\ tuples[k] = t
  BY <1>1 DEF RemoveTuple, Stored, Elems, IndexOf
<1> HIDE DEF k
<1>3. /\ tuples' \in Seq(Tuples)
      /\ Len(tuples') = Len(tuples) - 1
      /\ Elems(tuples') = Elems(tuples) \ {t}
      /\ Distinct(tuples')
  <2>1. tuples' = RemoveIndex(tuples, k)
    BY DEF RemoveTuple, k
  <2> QED BY <1>1, <1>2, <2>1, RemoveIndexFacts, Zenon
<1>4. Stored' = Stored \ {t}
  BY <1>3 DEF Stored
<1>5. tuples' # <<>> => tuples'[1] \in Stored' /\ tuples'[1] \in Tuples
  BY <1>3 DEF Stored, Elems
<1>6. tuples' = <<>> => Stored' = {}
  BY DEF Stored, Elems
<1>7. TypeOK' /\ FragmentsDiffer'
  BY <1>3, <1>5 DEF RemoveTuple, IInv, TypeOK, FragmentsDiffer, IceStates
<1>8. SelectedIsStored'
  BY <1>4, <1>5, <1>6 DEF RemoveTuple, IInv, TypeOK, SelectedIsStored, Connectivity
<1>9. TuplesBounded'
  BY <1>1, <1>3 DEF TuplesBounded, Distinct
<1>10. ListenerMirrors'
  BY <1>4 DEF RemoveTuple, IInv, ListenerMirrors
<1>11. ResponseUsesRequestKey'
  BY DEF RemoveTuple, IInv, ResponseUsesRequestKey
<1>12. PlainAgentEmpty'
  <2> SUFFICES ASSUME Nominations = {} PROVE lifecycle' = "alive" /\ AssertHolds'
    BY DEF PlainAgentEmpty
  <2>1. lifecycle = "alive" /\ lifecycle' = "alive" /\ t \in Stored
    BY DEF RemoveTuple
  <2>2. tuples # <<>>
    BY <2>1 DEF Stored, Elems
  <2>3. iceState \in Connectivity /\ selectedTuple # None
    BY <2>1, <2>2 DEF IInv, PlainAgentEmpty, AssertHolds
  <2>4. CASE t = selectedTuple
    <3>1. CASE tuples' = <<>>
      BY <2>1, <2>3, <2>4, <3>1 DEF RemoveTuple, AssertHolds, Connectivity
    <3>2. CASE tuples' # <<>>
      <4>1. iceState' = iceState /\ selectedTuple' = tuples'[1]
        BY <2>4, <3>2 DEF RemoveTuple
      <4>2. selectedTuple' # None
        BY <4>1, <3>2, <1>5
      <4> QED BY <2>1, <2>3, <3>2, <4>1, <4>2 DEF AssertHolds
    <3> QED BY <3>1, <3>2
  <2>5. CASE t # selectedTuple
    <3>1. selectedTuple' = selectedTuple /\ iceState' = iceState
      BY <2>5 DEF RemoveTuple
    <3>2. selectedTuple \in Stored'
      BY <2>1, <2>3, <2>5, <1>4 DEF IInv, SelectedIsStored
    <3> QED BY <2>1, <2>3, <3>1, <3>2, <1>6 DEF AssertHolds
  <2> QED BY <2>1, <2>4, <2>5
<1> QED BY <1>7, <1>8, <1>9, <1>10, <1>11, <1>12 DEF IInv

\* Every step of the agent keeps the inductive invariant.
LEMMA StepPreserves == IInv /\ [Next]_vars => IInv'
<1> SUFFICES ASSUME IInv, [Next]_vars PROVE IInv'
  OBVIOUS
<1>1. CASE UNCHANGED vars
  BY <1>1, Zenon DEF vars, IInv, TypeOK, FragmentsDiffer, SelectedIsStored, TuplesBounded, ListenerMirrors,
              ResponseUsesRequestKey, PlainAgentEmpty, AssertHolds, Stored
<1>2. CASE RejectMalformed
  BY <1>2, Zenon DEF RejectMalformed, Reply, agentVars, IInv, TypeOK, FragmentsDiffer, Responses, SelectedIsStored,
              TuplesBounded, ListenerMirrors, ResponseUsesRequestKey, PlainAgentEmpty, AssertHolds, Stored
<1>3. ASSUME NEW cred \in Credentials, RejectUnauthorized(cred) PROVE IInv'
  BY <1>3, Zenon DEF RejectUnauthorized, Reply, agentVars, IInv, TypeOK, FragmentsDiffer, Responses, SelectedIsStored,
              TuplesBounded, ListenerMirrors, ResponseUsesRequestKey, PlainAgentEmpty, AssertHolds, Stored
<1>4. ASSUME NEW cred \in Credentials, RejectRoleConflict(cred) PROVE IInv'
  <2>1. /\ lifecycle = "alive" /\ Authenticate(cred) /\ Reply("487", None, cred)
        /\ UNCHANGED <<iceState, tuples, selectedTuple, remoteNomination, listenerTuples, lifecycle>>
    BY <1>4, Zenon DEF RejectRoleConflict
  <2>2. TypeOK' /\ FragmentsDiffer'
    BY <2>1, AuthenticateFacts, Zenon DEF Reply, IInv, TypeOK, FragmentsDiffer, Responses
  <2>3. SelectedIsStored' /\ TuplesBounded' /\ PlainAgentEmpty'
    BY <2>1, Zenon DEF IInv, SelectedIsStored, TuplesBounded, PlainAgentEmpty, AssertHolds, Stored
  <2>4. ListenerMirrors'
    BY <2>1, AuthenticateFacts, Zenon DEF IInv, ListenerMirrors, Stored
  <2>5. ResponseUsesRequestKey'
    BY <2>1, Zenon DEF Reply, ResponseUsesRequestKey
  <2> QED BY <2>2, <2>3, <2>4, <2>5 DEF IInv
<1>5. ASSUME NEW t \in Tuples, NEW cred \in Credentials, NEW useCandidate \in BOOLEAN,
             NEW nomination \in Nominations \cup {None},
             ProcessStunPacket(t, cred, useCandidate, nomination)
      PROVE  IInv'
  <2>1. /\ lifecycle = "alive" /\ Authenticate(cred) /\ Reply("200", ResponseKey, cred)
        /\ HandleTuple(t, useCandidate, nomination)
    BY <1>5, Zenon DEF ProcessStunPacket
  <2>2. /\ ufrag' \in Credentials /\ oldUfrag' \in Credentials \cup {None}
        /\ listenerUfrags' \subseteq Credentials /\ ufrag' # oldUfrag'
        /\ listenerUfrags' = {ufrag', oldUfrag'} \ {None}
        /\ ResponseKey = cred
    BY <2>1, AuthenticateFacts, Zenon
  <2>3. /\ iceState' \in IceStates /\ tuples' \in Seq(Tuples)
        /\ selectedTuple' \in Tuples \cup {None} /\ remoteNomination' \in Nat
        /\ listenerTuples' \subseteq Tuples /\ lifecycle' \in {"alive", "aborted"}
        /\ SelectedIsStored' /\ TuplesBounded'
        /\ listenerTuples' = Stored' /\ PlainAgentEmpty'
    BY <2>1, HandleTuplePreserves, Zenon
  <2>4. response' \in Responses /\ ResponseUsesRequestKey'
    BY <2>1, <2>2, Zenon DEF Reply, Responses, ResponseUsesRequestKey
  <2>5. TypeOK' /\ FragmentsDiffer'
    BY <2>2, <2>3, <2>4, Zenon DEF TypeOK, FragmentsDiffer
  <2>6. ListenerMirrors'
    BY <2>2, <2>3, Zenon DEF ListenerMirrors
  <2> QED BY <2>3, <2>4, <2>5, <2>6 DEF IInv
<1>6. ASSUME NEW t \in Tuples, RemoveTuple(t) PROVE IInv'
  BY <1>6, RemoveTuplePreserves
<1>7. ASSUME NEW t \in Tuples, ForceSelectedTuple(t) PROVE IInv'
  BY <1>7, Zenon DEF ForceSelectedTuple, HasTuple, IInv, TypeOK, FragmentsDiffer, SelectedIsStored, TuplesBounded,
              ListenerMirrors, ResponseUsesRequestKey, PlainAgentEmpty, AssertHolds, Stored
<1>8. ASSUME NEW cred \in Credentials, RestartIce(cred) PROVE IInv'
  <2>1. TypeOK' /\ FragmentsDiffer'
    BY <1>8, Zenon DEF RestartIce, IInv, TypeOK, FragmentsDiffer, ListenerMirrors
  <2>2. SelectedIsStored' /\ TuplesBounded' /\ PlainAgentEmpty' /\ ResponseUsesRequestKey'
    BY <1>8, Zenon DEF RestartIce, IInv, SelectedIsStored, TuplesBounded, PlainAgentEmpty, AssertHolds, Stored,
                ResponseUsesRequestKey
  <2>3. listenerUfrags' = {ufrag', oldUfrag'} \ {None}
    BY <1>8, Zenon DEF RestartIce, IInv, TypeOK, FragmentsDiffer, ListenerMirrors
  <2>4. ListenerMirrors'
    BY <1>8, <2>3, Zenon DEF RestartIce, IInv, ListenerMirrors, Stored
  <2> QED BY <2>1, <2>2, <2>4 DEF IInv
<1>9. CASE Destroy
  <2>1. /\ lifecycle = "alive" /\ lifecycle' = "destroyed" /\ tuples' = <<>>
        /\ selectedTuple' = None /\ listenerTuples' = listenerTuples \ Stored
        /\ listenerUfrags' = listenerUfrags \ {ufrag, oldUfrag}
        /\ UNCHANGED <<iceState, remoteNomination, ufrag, oldUfrag, response>>
    BY <1>9 DEF Destroy
  <2>2. Stored' = {} /\ Len(tuples') = 0 /\ tuples' \in Seq(Tuples)
    BY <2>1 DEF Stored, Elems
  <2>3. TypeOK' /\ FragmentsDiffer'
    BY <2>1, <2>2, Zenon DEF IInv, TypeOK, FragmentsDiffer
  <2>4. SelectedIsStored' /\ TuplesBounded' /\ PlainAgentEmpty' /\ ResponseUsesRequestKey'
    BY <2>1, <2>2, SMTT(60) DEF IInv, SelectedIsStored, TuplesBounded, PlainAgentEmpty, ResponseUsesRequestKey
  <2>5. ListenerMirrors'
    BY <2>1, <2>2, Zenon DEF IInv, ListenerMirrors
  <2> QED BY <2>3, <2>4, <2>5 DEF IInv
<1> QED BY <1>1, <1>2, <1>3, <1>4, <1>5, <1>6, <1>7, <1>8, <1>9, Zenon DEF Next

\* The inductive invariant holds in every reachable state.
THEOREM Inductive == Spec => []IInv
<1>1. Init => IInv
  BY InitEstablishes
<1>2. IInv /\ [Next]_vars => IInv'
  BY StepPreserves
<1> QED BY <1>1, <1>2, PTL DEF Spec

\* Every field of the agent keeps its type.
THEOREM TypeCorrect == Spec => []TypeOK
<1>1. IInv => TypeOK
  BY DEF IInv
<1> QED BY <1>1, Inductive, PTL

\* The selected tuple is stored, and set exactly when there is connectivity,
\* whatever requests, removals, restarts and evictions happened before.
THEOREM SelectionSafe == Spec => []SelectedIsStored
<1>1. IInv => SelectedIsStored
  BY DEF IInv
<1> QED BY <1>1, Inductive, PTL

\* The list never exceeds MaxTuples and never holds a tuple twice.
THEOREM ListBounded == Spec => []TuplesBounded
<1>1. IInv => TuplesBounded
  BY DEF IInv
<1> QED BY <1>1, Inductive, PTL

\* WebRtcServer's lookup maps mirror the agent's tuples and fragments.
THEOREM ListenerExact == Spec => []ListenerMirrors
<1>1. IInv => ListenerMirrors
  BY DEF IInv
<1> QED BY <1>1, Inductive, PTL

\* The selection, the list and the lookup maps agree.
THEOREM TuplesRight == Spec => []TuplesExact
<1>1. SelectedIsStored /\ TuplesBounded /\ ListenerMirrors => TuplesExact
  BY DEF TuplesExact
<1> QED BY <1>1, SelectionSafe, ListBounded, ListenerExact, PTL

\* Success responses are authenticated with the request's credentials.
THEOREM ResponseKeyRight == Spec => []ResponseUsesRequestKey
<1>1. IInv => ResponseUsesRequestKey
  BY DEF IInv
<1> QED BY <1>1, Inductive, PTL

\* With peers that send no NOMINATION attribute no assertion of HandleTuple
\* ever fails, so the agent can always reconnect.
THEOREM PlainPeersNeverAbort == ASSUME Nominations = {} PROVE Spec => []NoAssertFails
<1>1. IInv => NoAssertFails
  BY DEF IInv, PlainAgentEmpty, NoAssertFails
<1> QED BY <1>1, Inductive, PTL

\* How one call moves the state of an agent that is not being destroyed.
Moves ==
    \/ iceState' = iceState
    \/ iceState \in {"new", "disconnected"} /\ iceState' = "connected"
    \/ iceState # "completed" /\ iceState' = "completed"
    \/ iceState \in Connectivity /\ iceState' = "disconnected"

LEMMA StepMoves ==
    ASSUME IInv, Next, ~Destroy
    PROVE  Moves /\ lifecycle # "destroyed" /\ lifecycle' # "destroyed"
<1>1. iceState \in IceStates
  BY Zenon DEF IInv, TypeOK
<1>2. ASSUME NEW t \in Tuples, NEW cred \in Credentials, NEW useCandidate \in BOOLEAN,
             NEW nomination \in Nominations \cup {None},
             ProcessStunPacket(t, cred, useCandidate, nomination)
      PROVE  Moves /\ lifecycle # "destroyed" /\ lifecycle' # "destroyed"
  BY <1>1, <1>2 DEF ProcessStunPacket, HandleTuple, SelectTuple, Moves, Connectivity, IceStates
<1>3. ASSUME NEW t \in Tuples, RemoveTuple(t)
      PROVE  Moves /\ lifecycle # "destroyed" /\ lifecycle' # "destroyed"
  <2>1. t \in Tuples /\ t # None
    BY IceAssumption
  <2>2. t = selectedTuple => iceState \in Connectivity
    BY <2>1, <1>3 DEF RemoveTuple, IInv, SelectedIsStored
  <2> QED BY <1>3, <2>2 DEF RemoveTuple, Moves
<1>4. ASSUME RejectMalformed
      PROVE  Moves /\ lifecycle # "destroyed" /\ lifecycle' # "destroyed"
  BY <1>4, Zenon DEF RejectMalformed, agentVars, Moves
<1>5. ASSUME NEW cred \in Credentials, RejectUnauthorized(cred)
      PROVE  Moves /\ lifecycle # "destroyed" /\ lifecycle' # "destroyed"
  BY <1>5, Zenon DEF RejectUnauthorized, agentVars, Moves
<1>6. ASSUME NEW cred \in Credentials, RejectRoleConflict(cred)
      PROVE  Moves /\ lifecycle # "destroyed" /\ lifecycle' # "destroyed"
  BY <1>6, Zenon DEF RejectRoleConflict, Moves
<1>7. ASSUME NEW t \in Tuples, ForceSelectedTuple(t)
      PROVE  Moves /\ lifecycle # "destroyed" /\ lifecycle' # "destroyed"
  BY <1>7 DEF ForceSelectedTuple, Moves
<1>8. ASSUME NEW cred \in Credentials, RestartIce(cred)
      PROVE  Moves /\ lifecycle # "destroyed" /\ lifecycle' # "destroyed"
  BY <1>8, Zenon DEF RestartIce, Moves
<1> QED BY <1>2, <1>3, <1>4, <1>5, <1>6, <1>7, <1>8, Zenon DEF Next

LEMMA AgentStep ==
    ASSUME IInv, IInv', [Next]_vars
    PROVE  [Agent!AgentNext]_(Agent!agentVars)
<1>1. CASE UNCHANGED vars
  BY <1>1, Zenon DEF vars, Agent!agentVars
<1>2. CASE Destroy
  BY <1>2 DEF Destroy, Agent!AgentNext, Agent!Destroyed
<1>3. CASE Next /\ ~Destroy
  <2>1. Moves /\ lifecycle # "destroyed" /\ lifecycle' # "destroyed"
    BY <1>3, StepMoves
  <2>2. /\ (selectedTuple # None) = (iceState \in Connectivity)
        /\ (selectedTuple' # None) = (iceState' \in Connectivity)
    BY <2>1 DEF IInv, SelectedIsStored, Connectivity
  <2>3. CASE iceState' = iceState
    BY <2>1, <2>2, <2>3 DEF Agent!agentVars
  <2>4. CASE iceState \in {"new", "disconnected"} /\ iceState' = "connected"
    BY <2>1, <2>2, <2>4, Zenon DEF Agent!AgentNext, Agent!Connect, Agent!Become,
                            Agent!Connectivity, Connectivity
  <2>5. CASE iceState # "completed" /\ iceState' = "completed"
    BY <2>1, <2>2, <2>5, Zenon DEF Agent!AgentNext, Agent!Complete, Agent!Become,
                            Agent!Connectivity, Connectivity
  <2>6. CASE iceState \in Connectivity /\ iceState' = "disconnected"
    BY <2>1, <2>2, <2>6, Zenon DEF Agent!AgentNext, Agent!Disconnect, Agent!Become,
                            Agent!Connectivity, Connectivity
  <2> QED BY <2>1, <2>3, <2>4, <2>5, <2>6, Zenon DEF Moves
<1> QED BY <1>1, <1>2, <1>3

\* The ICE server implements the agent that WebRtcTransport relies on: its state
\* moves as the agent's, and it has a selected tuple exactly with connectivity.
THEOREM ServerImplementsAgent == Spec => ImplementsAgent
<1>1. Init => Agent!AgentInit
  BY Zenon DEF Init, Agent!AgentInit
<1>2. IInv /\ IInv' /\ [Next]_vars => [Agent!AgentNext]_(Agent!agentVars)
  BY AgentStep
<1> QED BY <1>1, <1>2, Inductive, PTL DEF Spec, ImplementsAgent, Agent!AgentSpec

\* A call lowers remoteNomination only by a restart, whose credentials are new.
LEMMA NominationStep ==
    ASSUME IInv, [Next]_vars, remoteNomination' < remoteNomination
    PROVE  ufrag' # ufrag
<1> USE IceAssumption DEF IInv, TypeOK
<1>1. CASE Destroy \/ UNCHANGED vars \/ RejectMalformed
  BY <1>1, SMTT(60) DEF Destroy, RejectMalformed, agentVars, vars
<1>2. CASE \E cred \in Credentials : RejectUnauthorized(cred) \/ RejectRoleConflict(cred)
  BY <1>2, SMTT(60) DEF RejectUnauthorized, RejectRoleConflict, agentVars
<1>3. ASSUME NEW t \in Tuples, NEW cred \in Credentials, NEW u \in BOOLEAN,
             NEW n \in Nominations \cup {None}, ProcessStunPacket(t, cred, u, n)
      PROVE  FALSE
  BY <1>3 DEF ProcessStunPacket, HandleTuple, SelectTuple, Wins
<1>4. CASE \E t \in Tuples : RemoveTuple(t) \/ ForceSelectedTuple(t)
  BY <1>4 DEF RemoveTuple, ForceSelectedTuple
<1>5. ASSUME NEW cred \in Credentials, RestartIce(cred)
      PROVE  ufrag' # ufrag
  BY <1>5, Zenon DEF RestartIce, ListenerMirrors
<1> QED BY <1>1, <1>2, <1>3, <1>4, <1>5, SMTT(60) DEF Next

\* Nothing but a restart makes an older nomination win, and the selection moves as that
\* of an IceAgent.
THEOREM SelectionFollows == Spec => SelectionIsAgents
<1>1. IInv /\ [Next]_vars => [remoteNomination' < remoteNomination => ufrag' # ufrag]_vars
  BY NominationStep
<1>2. Spec => NominationOnlyGrows
  BY <1>1, Inductive, PTL DEF Spec, NominationOnlyGrows
<1> QED BY <1>2, ServerImplementsAgent, PTL DEF SelectionIsAgents
=============================================================================
