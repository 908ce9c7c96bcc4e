---------------------------- MODULE RtpStreamSend ----------------------------
(***************************************************************************)
(* The streams the worker sends to the consumers of one producer.  They    *)
(* number and encode a packet each in its own way, but keep for            *)
(* retransmission one copy of it, which the first of them makes and all of *)
(* them share.  A NACK rewrites that copy in place, wraps it for RTX,      *)
(* sends it and unwraps it.                                                *)
(*                                                                         *)
(* The buffer is RtpRetransmissionBuffer, as a map: what it drops as too   *)
(* old is the subject of that module.                                      *)
(***************************************************************************)
EXTENDS RtpStream, FiniteSets

CONSTANTS
    Streams,      \* 1..n, in the order in which the router serves their consumers
    Rtx,          \* the streams that retransmit over RTX
    Encoding,     \* the streams whose consumer rewrites the payload
    MaxPackets,
    Bitmasks,     \* the sets of offsets a NACK item asks for beyond its first packet
    Rtts,
    DefaultRtt,
    Elapses,      \* how time goes on
    Losses,       \* what a receiver report adds to the packets lost in total
    SendEvents

VARIABLE snd

\* dropped: how many packets the consumer has left out of the stream.
NewStream ==
    [counters |-> NewCounters, buffer |-> <<>>, dropped |-> 0, sent |-> 0, rtxSeq |-> 0, rtt |-> 0,
     repaired |-> 0, retransmitted |-> 0, totalLost |-> 0,
     prior |-> [sent |-> 0, lost |-> 0, repaired |-> 0, retransmitted |-> 0],
     scores |-> <<>>, score |-> 10, told |-> 10, served |-> <<>>]

SendInit ==
    snd = [packets |-> <<>>, of |-> [s \in Streams |-> NewStream], now |-> 1,
           fault |-> FALSE, events |-> 0]

At(f, k, v) == [i \in DOMAIN f \cup {k} |-> IF i = k THEN v ELSE f[i]]

\* What a consumer makes of packet n: its own number, and the payload, which says how
\* many packets came before when the consumer encodes it.
Rewritten(n, s, stream) ==
    [ssrc |-> s, seq |-> (n - stream.dropped) % RtpSeqMod, rtx |-> FALSE,
     payload |-> IF s \in Encoding THEN n - stream.dropped ELSE n]

\* RtpStreamSend::ReceivePacket(): the first stream to keep the packet copies it as it
\* is now; the others keep that copy and their own number for it.
ReceivePacket(b, n, s) ==
    LET stream == b.of[s]
        packet == Rewritten(n, s, stream)
        shared == IF n \in DOMAIN b.packets THEN b.packets ELSE At(b.packets, n, packet)
        kept   == [packet |-> n, ssrc |-> s, seq |-> packet.seq, resentAtMs |-> 0, sentTimes |-> 0]
    IN  [b EXCEPT !.packets = shared,
                  !.of[s].counters = ReceiveStreamPacket(@, packet.seq),
                  !.of[s].buffer = At(@, packet.seq, kept),
                  !.of[s].sent = @ + 1]

Drop(b, s) == [b EXCEPT !.of[s].dropped = @ + 1]

\* RtxEncode() moves the number into the payload; RtxDecode() takes it back.
RtxEncode(p, seq) == [p EXCEPT !.rtx = TRUE, !.payload = <<p.seq, @>>, !.seq = seq]

RtxDecode(p, ssrc) ==
    [p EXCEPT !.rtx = FALSE, !.seq = p.payload[1], !.payload = p.payload[2], !.ssrc = ssrc]

\* One requested number: the copy gets the stream's ssrc and number back, and is
\* resent unless it was in the last round trip.
Lookup(b, s, seq) ==
    LET stream == b.of[s]
        item   == stream.buffer[seq]
        copy   == [b.packets[item.packet] EXCEPT !.ssrc = item.ssrc, !.seq = item.seq]
        rtt    == IF stream.rtt # 0 THEN stream.rtt ELSE DefaultRtt
        recent == item.resentAtMs # 0 /\ b.now - item.resentAtMs <= rtt
        rtxSeq == (stream.rtxSeq + 1) % RtpSeqMod
    IN  IF seq \notin DOMAIN stream.buffer THEN b
        ELSE IF recent THEN [b EXCEPT !.packets[item.packet] = copy]
        ELSE [b EXCEPT
                 !.packets[item.packet] = IF s \in Rtx THEN RtxEncode(copy, rtxSeq) ELSE copy,
                 !.of[s].rtxSeq = IF s \in Rtx THEN rtxSeq ELSE @,
                 !.of[s].buffer[seq].resentAtMs = b.now,
                 !.of[s].buffer[seq].sentTimes = @ + 1,
                 !.of[s].served = Append(@, seq)]

\* The container holds the items of one NACK item, in order; none is resent before
\* all have been looked up.
FillRetransmissionContainer(b, s, seq, bitmask) ==
    LET Asked(i) == i = 0 \/ i \in bitmask
        fill[i \in -1..16] ==
            IF i = -1 THEN [b EXCEPT !.of[s].served = <<>>]
            ELSE IF Asked(i) THEN Lookup(fill[i - 1], s, (seq + i) % RtpSeqMod) ELSE fill[i - 1]
    IN  fill[16]

\* served becomes what was sent again, as the receiver undoes RTX.
Retransmit(b, s) ==
    LET container == b.of[s].served
        Item(i)   == b.of[s].buffer[container[i]]
        Copy(i)   == b.packets[Item(i).packet]
        Plain(i)  == IF s \in Rtx THEN RtxDecode(Copy(i), Item(i).ssrc) ELSE Copy(i)
        first     == {i \in DOMAIN container : Item(i).sentTimes = 1}
    IN  [b EXCEPT
            !.packets = [n \in DOMAIN b.packets |->
                            IF \E i \in DOMAIN container : Item(i).packet = n
                            THEN Plain(CHOOSE i \in DOMAIN container : Item(i).packet = n)
                            ELSE b.packets[n]],
            !.of[s].retransmitted = @ + Len(container),
            !.of[s].repaired = @ + Cardinality(first),
            !.of[s].served = [i \in DOMAIN container |->
                                 [seq |-> container[i], sent |-> Plain(i), wrapped |-> Copy(i).rtx]],
            !.fault = @ \/ Len(container) > 17]

\* UpdateScore(), at every receiver report.
ScoreReport(b, s, totalLost) ==
    LET stream        == b.of[s]
        sent          == stream.sent - stream.prior.sent
        lost          == IF totalLost < stream.prior.lost THEN 0 ELSE totalLost - stream.prior.lost
        repaired      == stream.repaired - stream.prior.repaired
        retransmitted == stream.retransmitted - stream.prior.retransmitted
        gone          == IF lost > sent THEN sent ELSE lost
        mended        == IF repaired > gone THEN gone ELSE repaired
        scored        == [stream EXCEPT !.totalLost = totalLost,
                              !.prior = [sent |-> stream.sent, lost |-> totalLost,
                                         repaired |-> stream.repaired,
                                         retransmitted |-> stream.retransmitted]]
    IN  [b EXCEPT
            !.of[s] = UpdateScore(scored, IF sent = 0 THEN 10
                                          ELSE ScoreOf(sent, gone, mended, retransmitted)),
            !.fault = @ \/ (sent # 0 /\ retransmitted < mended)]

Happens == snd.events < SendEvents

Idle(b) == [b EXCEPT !.events = @ + 1]

\* The router hands a packet to the consumers one after the other: some forward it,
\* some leave it out.
Forward ==
    /\ Happens
    /\ Cardinality(DOMAIN snd.packets) < MaxPackets
    /\ \E takers \in (SUBSET Streams) \ {{}} :
        LET n == snd.of[1].sent + snd.of[1].dropped
            served[s \in {0} \cup Streams] ==
                IF s = 0 THEN snd
                ELSE IF s \in takers THEN ReceivePacket(served[s - 1], n, s)
                ELSE Drop(served[s - 1], s)
        IN  snd' = Idle(served[Cardinality(Streams)])

ReceiveNack ==
    /\ Happens
    /\ \E s \in Streams, bitmask \in Bitmasks :
        \E seq \in DOMAIN snd.of[s].buffer :
            snd' = Idle(Retransmit(FillRetransmissionContainer(snd, s, seq, bitmask), s))

\* A report follows a sender report, so after a packet was sent.
ReceiveRtcpReceiverReport ==
    /\ Happens
    /\ \E s \in Streams, lost \in Losses, rtt \in Rtts :
        /\ snd.of[s].sent > 0
        /\ snd' = [Idle(ScoreReport(snd, s, snd.of[s].totalLost + lost)) EXCEPT !.of[s].rtt = rtt]

\* Pause() empties the buffer.
Pause ==
    /\ Happens
    /\ \E s \in Streams :
        /\ snd.of[s].buffer # <<>>
        /\ snd' = [Idle(snd) EXCEPT !.of[s].buffer = <<>>]

Elapse ==
    /\ Happens
    /\ \E t \in Elapses : snd' = [Idle(snd) EXCEPT !.now = @ + t]

SendNext == Forward \/ ReceiveNack \/ ReceiveRtcpReceiverReport \/ Pause \/ Elapse

SendSpec == SendInit /\ [][SendNext]_snd

-----------------------------------------------------------------------------

\* Whatever the other consumers did to the shared copy, a packet sent again carries
\* the stream's own SSRC and number, wrapped for RTX exactly if the stream has RTX,
\* and the copy is left unwrapped.
ResendsOwn ==
    /\ \A s \in Streams : \A i \in DOMAIN snd.of[s].served :
        LET r == snd.of[s].served[i] IN
        /\ r.sent.ssrc = s
        /\ r.sent.seq = r.seq
        /\ r.wrapped = (s \in Rtx)
    /\ \A n \in DOMAIN snd.packets : ~snd.packets[n].rtx

\* The assertions hold, the score stays within 0..10 and the listener knows it, and a
\* packet counts as repaired at most once, however often it is asked for.
SendsSoundly ==
    /\ ~snd.fault
    /\ \A s \in Streams :
        /\ snd.of[s].score \in 0..10
        /\ snd.of[s].told = snd.of[s].score
        /\ snd.of[s].repaired <= snd.of[s].sent
        /\ snd.of[s].repaired <= snd.of[s].retransmitted
=============================================================================
