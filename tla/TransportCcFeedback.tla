------------------------ MODULE TransportCcFeedback -------------------------
(***************************************************************************)
(* The receiving side of congestion control: the server that tells the     *)
(* remote side when each RTP packet arrived, with transport-cc feedback    *)
(* packets, and that limits it with REMB packets.  The state is the record *)
(* `tcc'; its field `packet' is the feedback packet that is being filled.  *)
(*                                                                         *)
(* A feedback packet is a list of chunks (runs of one status, or vectors   *)
(* of Width of them) and a delta per packet received.  Sizes, widths and   *)
(* moduli are scaled down; deltas count milliseconds.                      *)
(***************************************************************************)
EXTENDS Integers, Sequences, SequencesExt, FiniteSets, FiniteSetsExt

CONSTANTS
    WideMod,                \* 2^16, of wide sequence numbers
    Width,                  \* 7 statuses in a vector chunk
    RunMod,                 \* 2^13, of the count of a run length chunk
    MaxPacketStatusCount,   \* 2^16 - 1
    ByteMod,                \* 256: a small delta is below it
    BaseTimeTick,           \* 64 ms
    RefMod,                 \* what a reference time is taken modulo: 2^23 ticks
    HeaderSize,             \* of a feedback packet without chunks
    MaxRtcpPacketLen,
    UnlimitedRembNumPackets, LimitationRembInterval,
    LossHistogramLength,    \* 24
    Jumps,                  \* from the newest number to the one that arrives
    Gaps,                   \* the time from one step to the next
    BitrateLimits,          \* what setMaxIncomingBitrate() may be given
    StartNumber, StartTime,
    TccEvents               \* (bound)

VARIABLE tcc

SN == INSTANCE SeqNumbers WITH MaxValue <- WideMod - 1

MaxMissingPackets == RunMod - 1
MaxPacketDelta == (ByteMod * ByteMod) \div 2 - 1

Padded(size) == 4 * ((size + 3) \div 4)

-----------------------------------------------------------------------------
(* The feedback packet *)

NewPacket(count) ==
    [base |-> 0, ref |-> 0, latest |-> 0, latestTime |-> 0, chunks |-> <<>>, deltas |-> <<>>,
     statusCount |-> 0, size |-> 0, same |-> TRUE, current |-> "none", statuses |-> <<>>,
     number |-> count, wide |-> FALSE]

Run(status, count) == [type |-> "run", status |-> status, count |-> count]
Vector(statuses) == [type |-> "vector", statuses |-> statuses]
ChunkCount(chunk) == IF chunk.type = "run" THEN chunk.count ELSE Len(chunk.statuses)

\* The ghost `wide' says that a count does not fit its field.
Create(k, chunk) ==
    LET count == k.statusCount + ChunkCount(chunk)
    IN  [k EXCEPT !.chunks = Append(@, chunk), !.size = @ + 2, !.statuses = <<>>,
                  !.statusCount = count % (MaxPacketStatusCount + 1),
                  !.wide = @ \/ count > MaxPacketStatusCount \/ ChunkCount(chunk) >= RunMod]

\* Mutant: the missing packets are all a run, though a vector is begun.
FillMissing_OnlyRun(k, missing) ==
    IF missing = 0 THEN k ELSE [Create(k, Run("lost", missing)) EXCEPT !.current = "none"]

\* A run of Width statuses or more ends where the status changes.
EndRun(k, changes) ==
    IF changes /\ Len(k.statuses) >= Width /\ k.same
    THEN Create(k, Run(k.current, Len(k.statuses))) ELSE k

\* A vector ends when it is full, unless it may still become a run.
EndVector(k, run) ==
    IF Len(k.statuses) = Width /\ ~run
    THEN [Create(k, Vector(k.statuses)) EXCEPT !.current = "none"] ELSE k

Fit(k, missing) == Min({missing, Width - Len(k.statuses)})
AddLost(k, n) == [k EXCEPT !.current = "lost", !.statuses = @ \o [i \in 1..n |-> "lost"]]
AddLostRun(k, n) ==
    IF n = 0 THEN k ELSE [Create(k, Run("lost", n)) EXCEPT !.current = "none"]

\* Packets that did not arrive: they fill up a vector, the rest is a run.
FillLost(k, missing) ==
    AddLostRun(EndVector(AddLost(k, Fit(k, missing)), FALSE), missing - Fit(k, missing))
FillMissing(k, missing) == IF missing = 0 THEN k ELSE FillLost(EndRun(k, TRUE), missing)

AddStatus(k, status, delta) ==
    [k EXCEPT !.statuses = Append(@, status), !.deltas = Append(@, delta),
              !.size = @ + (IF status = "small" THEN 1 ELSE 2),
              !.same = k.current = "none" \/ (k.same /\ k.current = status),
              !.current = status]

EndFilled(k) == EndVector(k, k.same)
FillReceived(k, status, delta) ==
    EndFilled(AddStatus(EndRun(k, status # k.current), status, delta))

FillChunk(k, previous, seq, delta) ==
    FillReceived(FillMissing(k, (seq - previous - 1) % WideMod),
                 IF delta \in 0..(ByteMod - 1) THEN "small" ELSE "large", delta)

IsFull(k) == k.statusCount >= MaxPacketStatusCount - Width

\* The first packet is the base of what follows, and is not told of itself.  A number
\* that is not newer is ignored; the missing packets are counted without wrapping.
AddPacket(k, seq, time) ==
    LET delta == time - k.latestTime
        len == Padded(HeaderSize + k.size + 2 + 2)
    IN  IF k.latestTime = 0
        THEN [result |-> "success",
              k |-> [k EXCEPT !.base = (seq + 1) % WideMod, !.latest = seq,
                              !.ref = (time \div BaseTimeTick) % RefMod,
                              !.latestTime = (time \div BaseTimeTick) * BaseTimeTick]]
        ELSE IF ~SN!IsSeqHigherThan(seq, k.latest) THEN [result |-> "success", k |-> k]
        ELSE IF seq - (k.latest + 1) > MaxMissingPackets \/ delta > MaxPacketDelta
        THEN [result |-> "fatal", k |-> k]
        ELSE IF len > MaxRtcpPacketLen THEN [result |-> "exceeded", k |-> k]
        ELSE [result |-> "success",
              k |-> [FillChunk(k, k.latest, seq, delta) EXCEPT !.latest = seq,
                                                              !.latestTime = time]]

\* AddPendingChunks().
Finish(k) ==
    IF k.statuses = <<>> THEN k
    ELSE Create(k, IF k.same THEN Run(k.current, Len(k.statuses)) ELSE Vector(k.statuses))

-----------------------------------------------------------------------------
(* What goes over the wire and is read from it *)

\* A run keeps the low bits of its count, a vector is filled up with 0 ("lost").
SerializeRun(chunk) == [chunk EXCEPT !.count = @ % RunMod]
SerializeVector(chunk) ==
    Vector([i \in 1..Width |-> IF i <= Len(chunk.statuses) THEN chunk.statuses[i] ELSE "lost"])
SerializeChunk(chunk) == IF chunk.type = "run" THEN SerializeRun(chunk) ELSE SerializeVector(chunk)

SerializeDelta(delta) ==
    IF delta \in 0..(ByteMod - 1) THEN <<delta>>
    ELSE <<(delta \div ByteMod) % ByteMod, delta % ByteMod>>

Serialize(k) ==
    [base |-> k.base, count |-> k.statusCount, ref |-> k.ref, number |-> k.number,
     chunks |-> [i \in DOMAIN k.chunks |-> SerializeChunk(k.chunks[i])],
     bytes |-> FlattenSeq([i \in DOMAIN k.deltas |-> SerializeDelta(k.deltas[i])])]

\* Of a vector as many statuses are read as are still to come.
ParseRun(chunk) == [i \in 1..chunk.count |-> chunk.status]
ParseVector(chunk, count) == SubSeq(chunk.statuses, 1, Min({Width, count}))
ParseChunk(chunk, count) ==
    IF chunk.type = "run" THEN ParseRun(chunk) ELSE ParseVector(chunk, count)

ParseStatuses(w) ==
    LET read[i \in 0..Len(w.chunks)] ==
            IF i = 0 THEN <<>>
            ELSE LET before == read[i - 1]
                 IN  IF Len(before) >= w.count THEN before
                     ELSE before \o ParseChunk(w.chunks[i], w.count - Len(before))
    IN  read[Len(w.chunks)]

DeltaSize(status) == [lost |-> 0, small |-> 1, large |-> 2][status]
DeltaAt(w, at, size) ==
    IF size = 0 \/ at + size > Len(w.bytes) THEN 0
    ELSE IF size = 1 THEN w.bytes[at + 1] ELSE w.bytes[at + 1] * ByteMod + w.bytes[at + 2]

\* The number and time of the packets that arrived.
GetPacketResults(w) ==
    LET statuses == ParseStatuses(w)
        read[i \in 0..Len(statuses)] ==
            IF i = 0 THEN [at |-> 0, time |-> w.ref * BaseTimeTick, found |-> <<>>]
            ELSE LET r == read[i - 1]
                     size == DeltaSize(statuses[i])
                     time == r.time + DeltaAt(w, r.at, size)
                 IN  [at |-> r.at + size, time |-> time,
                      found |-> IF size = 0 THEN r.found
                                ELSE Append(r.found, [seq |-> (w.base + i - 1) % WideMod,
                                                      time |-> time])]
        last == read[Len(statuses)]
    IN  [isCorrect |-> Len(statuses) = w.count /\ last.at = Len(w.bytes), found |-> last.found]

-----------------------------------------------------------------------------
(* The server *)

\* Ghosts: `from' and `arrived' are the base of the packet and what came since, `told' what
\* the feedbacks just sent should tell, `wide' that one had a count that does not fit.
Init ==
    \E remb \in BOOLEAN :
        tcc = [remb |-> remb, connected |-> FALSE, packet |-> NewPacket(0), number |-> 0,
               history |-> <<>>, loss |-> 0, max |-> 0, unlimited |-> 0, rembAt |-> 0,
               rembs |-> <<>>, sent |-> <<>>, now |-> StartTime, newest |-> StartNumber,
               arrived |-> <<>>, from |-> <<>>, told |-> <<>>, wide |-> FALSE, events |-> 0]

UpdatePacketLoss(b, percent) ==
    LET kept == IF Len(b.history) = LossHistogramLength THEN Tail(b.history) ELSE b.history
        history == Append(kept, percent)
        n == Len(history)
        sum[i \in 0..n] == IF i = 0 THEN 0 ELSE sum[i - 1] + i * history[i]
    IN  [b EXCEPT !.history = history, !.loss = (2 * sum[n]) \div (n * (n + 1))]

\* Nothing to tell, nothing sent.  The newest packet is the base of the next feedback.
Feedback(b, k, number) ==
    LET results == FoldSeq(LAMBDA chunk, n : n + ChunkCount(chunk), 0, k.chunks)
        loss == (100 * (results - Len(k.deltas))) \div k.statusCount
    IN  IF k.deltas = <<>> THEN b
        ELSE [(IF k.statusCount = 0 THEN b ELSE UpdatePacketLoss(b, loss))
              EXCEPT !.sent = Append(@, Serialize(k)), !.number = number,
                     !.packet = AddPacket(NewPacket(number), k.latest, k.latestTime).k,
                     !.told = Append(@, [from |-> b.from[1], arrived |-> b.arrived]),
                     !.wide = k.wide, !.arrived = <<>>, !.from = <<Last(b.arrived)>>]

SendTransportCcFeedback(b) == Feedback(b, Finish(b.packet), (b.number + 1) % ByteMod)

\* A limit is repeated, its end is told UnlimitedRembNumPackets times.
MaySendLimitationRembFeedback(b) ==
    LET n == IF b.max # 0 THEN 0 ELSE b.unlimited
        due == b.now - b.rembAt > LimitationRembInterval \/ n = UnlimitedRembNumPackets
    IN  IF ((~b.remb /\ b.max # 0) \/ n > 0) /\ due
        THEN [b EXCEPT !.rembs = Append(@, b.max), !.rembAt = b.now,
                       !.unlimited = IF n > 0 THEN n - 1 ELSE 0]
        ELSE [b EXCEPT !.unlimited = n]

\* The ghosts follow the packet: its base, then each newer number.
Noted(b, seq) ==
    LET arrival == [seq |-> seq, time |-> b.now]
    IN  IF b.from = <<>> THEN [b EXCEPT !.from = <<arrival>>]
        ELSE IF SN!IsSeqHigherThan(seq, b.newest) THEN [b EXCEPT !.arrived = Append(@, arrival)]
        ELSE b

With(b, k, seq) == Noted([b EXCEPT !.packet = k], seq)

\* A packet that does not fit goes to the next feedback; one that is out of reach begins
\* a new one, of the same number.
AddToNext(b, seq) ==
    LET r == AddPacket(b.packet, seq, b.now)
    IN  IF r.result = "success" THEN With(b, r.k, seq) ELSE b

Received(b, r, seq) ==
    CASE r.result = "success" /\ IsFull(r.k) -> SendTransportCcFeedback(With(b, r.k, seq))
      [] r.result = "success" /\ ~IsFull(r.k) -> With(b, r.k, seq)
      [] r.result = "exceeded" -> AddToNext(SendTransportCcFeedback(b), seq)
      [] r.result = "fatal" ->
            [b EXCEPT !.packet = NewPacket(b.number), !.arrived = <<>>, !.from = <<>>]

ReceiveTransportCc(b, seq) == Received(b, AddPacket(b.packet, seq, b.now), seq)

-----------------------------------------------------------------------------
(* What happens to it *)

Newer(b, seq) == IF SN!IsSeqHigherThan(seq, b.newest) THEN seq ELSE b.newest

\* What was sent by the last step only is kept.
Begin(gap) ==
    [tcc EXCEPT !.events = @ + 1, !.now = @ + gap, !.sent = <<>>, !.told = <<>>, !.rembs = <<>>]

IncomingPacket ==
    /\ tcc.connected
    /\ \E jump \in Jumps, gap \in Gaps :
        LET b == Begin(gap)
            seq == (b.newest + jump) % WideMod
            c == MaySendLimitationRembFeedback(ReceiveTransportCc(b, seq))
        IN  tcc' = IF b.remb THEN b ELSE [c EXCEPT !.newest = Newer(b, seq)]

TransportConnected ==
    /\ ~tcc.connected
    /\ tcc' = [Begin(0) EXCEPT !.connected = TRUE, !.events = @ - 1]

TransportDisconnected ==
    /\ tcc.connected
    /\ tcc' = [Begin(0) EXCEPT !.connected = FALSE, !.packet = NewPacket(0),
                               !.arrived = <<>>, !.from = <<>>]

OnTimer ==
    /\ tcc.connected /\ ~tcc.remb
    /\ tcc' = SendTransportCcFeedback(Begin(0))

SetMaxIncomingBitrate ==
    \E max \in BitrateLimits :
        LET b == [Begin(0) EXCEPT !.max = max]
        IN  tcc' = IF tcc.max # 0 /\ max = 0
                   THEN MaySendLimitationRembFeedback(
                            [b EXCEPT !.unlimited = UnlimitedRembNumPackets])
                   ELSE b

OnRembServerAvailableBitrate ==
    /\ tcc.remb
    /\ \E bitrate \in BitrateLimits \ {0} :
        tcc' = [Begin(0) EXCEPT !.rembs = <<IF tcc.max # 0 THEN Min({bitrate, tcc.max}) ELSE bitrate>>]

Next ==
    /\ tcc.events < TccEvents
    /\ \/ IncomingPacket
       \/ TransportConnected
       \/ TransportDisconnected
       \/ OnTimer
       \/ SetMaxIncomingBitrate
       \/ OnRembServerAvailableBitrate

Spec == Init /\ [][Next]_tcc

-----------------------------------------------------------------------------
(* Properties *)

\* The remote side, reading the feedback, learns the number and the time of each packet
\* that arrived since the previous feedback, of no other, and is told of every number in
\* between (unless a count did not fit its field): AddPacket(), FillChunk(), Serialize().
FeedbackIsExact ==
    ~tcc.wide =>
        \A i \in DOMAIN tcc.sent :
            LET w == tcc.sent[i]
                t == tcc.told[i]
                r == GetPacketResults(w)
                period == RefMod * BaseTimeTick
            IN  /\ r.isCorrect
                /\ [j \in DOMAIN r.found |-> r.found[j].seq]
                        = [j \in DOMAIN t.arrived |-> t.arrived[j].seq]
                /\ \A j \in DOMAIN r.found :
                        (r.found[j].time - t.arrived[j].time) % period = 0
                /\ w.base = (t.from.seq + 1) % WideMod
                /\ w.count = SN!Distance(t.from.seq, Last(t.arrived).seq)
=============================================================================
