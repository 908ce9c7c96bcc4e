---------------------------- MODULE RtpStreamRecv ----------------------------
(***************************************************************************)
(* A stream the worker receives: which packets it accepts, the RTX stream  *)
(* that repairs it, the receiver reports it sends, the score it gives the  *)
(* stream at every sender report, and the timer that declares it inactive. *)
(*                                                                         *)
(* A packet is its position in the stream, of which the sequence number    *)
(* carries the low bits.  Jitter, timestamps and bitrates are left out.    *)
(***************************************************************************)
EXTENDS RtpStream, FiniteSets

CONSTANTS
    RecvKinds,      \* records [nack, rtx, fec]: what the encoding has negotiated
    FirstPositions, \* where the sender starts
    Steps,          \* how far from the newest position the next packet may be
    RtxSteps,       \* by how much the RTX sequence number grows
    RemoteLoss,     \* the fractions lost that consumers report, for in-band FEC
    UndefinedScore, \* what converting NaN to uint8_t gives: 0 on x86-64 and ARM
    RecvEvents

VARIABLE recv

Reports == [expectedPrior |-> 0, receivedPrior |-> 0, lost |-> 0, reported |-> 0, fraction |-> 0]

Watched == [started |-> FALSE, last |-> 0, list |-> {}, recovered |-> {}]

RecvInit ==
    \E k \in RecvKinds, first \in FirstPositions :
        recv = [kind |-> k, first |-> first, top |-> first - 1, position |-> first - 1,
                media |-> NewCounters, count |-> 0, report |-> Reports,
                rtxStream |-> NewCounters, rtxCount |-> 0, rtxReport |-> Reports, rtxSeq |-> 0,
                nack |-> Watched, repaired |-> 0, retransmitted |-> 0,
                prior |-> [expected |-> 0, received |-> 0, repaired |-> 0, retransmitted |-> 0],
                scores |-> <<>>, score |-> 10, told |-> 10,
                inactive |-> FALSE, timer |-> TRUE, paused |-> FALSE,
                fault |-> FALSE, dirty |-> FALSE, restarted |-> FALSE, remote |-> 0,
                sample |-> 10, events |-> 0]

SeqOf(position) == position % RtpSeqMod

SN == INSTANCE SeqNumbers WITH MaxValue <- RtpSeqMod - 1

Skipped(last, seq) == {s \in Seqs : s # last /\ SN!Distance(last, s) < SN!Distance(last, seq)}

\* NackGenerator::ReceivePacket(): a packet that was waited for leaves the list; a
\* newer one puts the skipped ones on it, unless RTX has already brought them.
Notice(n, seq, isRecovered) ==
    IF ~n.started THEN [n EXCEPT !.started = TRUE, !.last = seq]
    ELSE IF seq = n.last \/ SN!IsSeqLowerThan(seq, n.last) THEN [n EXCEPT !.list = @ \ {seq}]
    ELSE IF isRecovered THEN [n EXCEPT !.recovered = @ \cup {seq}]
    ELSE [n EXCEPT !.last = seq,
                   !.list = @ \cup (Skipped(n.last, seq) \ n.recovered)]

\* Whether seq was NACKed: it is on the list and was asked for at least once.
WasNacked(n, seq, asked) == n.started /\ seq # n.last /\ seq \in n.list /\ asked

\* Mutant: the packet that wakes an inactive stream up does not start the timer again.
Awake_NoTimer(b) == [(IF b.inactive THEN ResetScore(b, 10) ELSE b) EXCEPT !.inactive = FALSE]

Awake(b) ==
    [(IF b.inactive THEN ResetScore(b, 10) ELSE b) EXCEPT !.inactive = FALSE, !.timer = TRUE]

\* The ghosts: top is the highest position since the counters started, dirty says that
\* the interval to be scored had a repair or a packet out of line.
Track(b, position) ==
    LET seq == SeqOf(position) IN
    IF b.media.started /\ Resyncs(b.media, seq)
    THEN [b EXCEPT !.first = position, !.top = position, !.restarted = TRUE]
    ELSE IF Accepts(Started(b.media, seq), seq)
    THEN [b EXCEPT !.top = IF position > @ THEN position ELSE @,
                   !.dirty = @ \/ position # b.top + 1]
    ELSE b

ReceivePacket(b, position, asked) ==
    LET seq      == SeqOf(position)
        tracked  == Track(b, position)
        accepted == Accepts(Started(b.media, seq), seq)
        repairs  == b.kind.nack /\ ~b.kind.rtx /\ WasNacked(b.nack, seq, asked)
        counted  == [tracked EXCEPT !.media = ReceiveStreamPacket(@, seq)]
    IN  IF ~accepted THEN counted
        ELSE Awake([counted EXCEPT
                        !.count = U32(@ + 1),
                        !.nack = IF b.kind.nack THEN Notice(@, seq, FALSE) ELSE @,
                        !.retransmitted = IF repairs THEN @ + 1 ELSE @,
                        !.repaired = IF repairs THEN @ + 1 ELSE @])

\* An RTX packet is let through only if it was NACKed.
ReceiveRtxPacket(b, position, rtxSeq, asked) ==
    LET seq    == SeqOf(position)
        rtxed  == [b EXCEPT !.rtxStream = ReceiveStreamPacket(@, rtxSeq), !.rtxSeq = rtxSeq,
                            !.rtxCount = IF Accepts(Started(b.rtxStream, rtxSeq), rtxSeq)
                                         THEN U32(@ + 1) ELSE @]
        seen   == [Track(rtxed, position) EXCEPT !.media = UpdateSeq(@, seq), !.dirty = TRUE]
        marked == [seen EXCEPT !.retransmitted = @ + 1, !.nack = Notice(@, seq, TRUE)]
    IN  IF ~Accepts(Started(b.rtxStream, rtxSeq), rtxSeq) THEN rtxed
        ELSE IF ~Accepts(b.media, seq) THEN seen
        ELSE IF WasNacked(b.nack, seq, asked) THEN Awake([marked EXCEPT !.repaired = @ + 1])
        ELSE marked

\* The uint8_t that std::round((lost << 8) / expected) is stored in.
Fraction(lost, expected) == Rounded(256 * lost, expected) % 256

\* A receiver report from the counters c, the packets counted and the worst
\* fraction lost of the consumers.
GetRtcpReceiverReport(r, c, count, worst) ==
    LET expected == GetExpectedPackets(c)
        lost     == IF expected > count THEN expected - count ELSE 0
        interval == U32(expected - r.expectedPrior)
        missing  == Signed(interval - (count - r.receivedPrior))
        fraction == IF interval = 0 \/ missing <= 0 THEN 0 ELSE Fraction(missing, interval)
    IN  [expectedPrior |-> expected, receivedPrior |-> count, lost |-> lost, fraction |-> fraction,
         reported |-> IF worst <= fraction THEN U32(r.reported + lost - r.lost)
                      ELSE U32(r.reported + (worst * interval) \div 256)]

\* RtpStreamRecv::UpdateScore(), at every sender report.
ScoreInterval(b) ==
    LET expected      == U32(GetExpectedPackets(b.media) - b.prior.expected)
        received      == U32(b.count - b.prior.received)
        lost          == IF expected < received THEN 0 ELSE expected - received
        repaired      == b.repaired - b.prior.repaired
        retransmitted == b.retransmitted - b.prior.retransmitted
        capped        == IF lost > received THEN received ELSE lost
        mended        == IF repaired > capped /\ b.kind.rtx THEN capped ELSE repaired
        gone          == IF repaired > capped /\ ~b.kind.rtx THEN repaired ELSE capped
        scored        == [b EXCEPT !.prior = [expected |-> GetExpectedPackets(b.media),
                                              received |-> b.count, repaired |-> b.repaired,
                                              retransmitted |-> b.retransmitted],
                                   !.dirty = FALSE]
        sample        == IF expected = 0 THEN 10
                         ELSE IF received = 0 THEN UndefinedScore
                         ELSE ScoreOf(received, gone, mended, retransmitted)
    IN  IF b.inactive THEN scored
        ELSE [UpdateScore(scored, sample) EXCEPT
                  !.sample = IF b.dirty THEN 10 ELSE sample,
                  !.fault = @ \/ (expected # 0 /\ retransmitted < mended)]

Happens == recv.events < RecvEvents

Idle(b) == [b EXCEPT !.events = @ + 1]

ReceiveRtp ==
    /\ Happens
    /\ \E d \in Steps, asked \in BOOLEAN :
        LET position == IF recv.media.started THEN recv.position + d ELSE recv.first IN
        /\ position > recv.first - MaxMisorder
        /\ position - recv.top < RtpSeqMod - MaxMisorder \* farther, it would look old
        /\ recv.media.started \/ d = 1
        /\ asked => SeqOf(position) \in recv.nack.list
        /\ recv' = [Idle(ReceivePacket(recv, position, asked))
                    EXCEPT !.position = IF d > 0 THEN position ELSE @]

ReceiveRtx ==
    /\ Happens
    /\ recv.kind.rtx
    /\ recv.media.started
    /\ \E position \in {recv.position - 1, recv.position, recv.position + 1},
          d \in RtxSteps, asked \in BOOLEAN :
        /\ position >= recv.first
        /\ asked => SeqOf(position) \in recv.nack.list
        /\ recv' = Idle(ReceiveRtxPacket(recv, position, (recv.rtxSeq + d) % RtpSeqMod, asked))

SendReport ==
    /\ Happens
    /\ recv.media.started
    /\ \E worst \in IF recv.kind.fec THEN RemoteLoss ELSE {0} :
        recv' = [Idle(recv) EXCEPT
            !.report = GetRtcpReceiverReport(@, recv.media, recv.count, worst),
            !.rtxReport = IF recv.kind.rtx
                          THEN GetRtcpReceiverReport(@, recv.rtxStream, recv.rtxCount, 0) ELSE @,
            !.remote = IF worst > 0 THEN worst ELSE @]

ReceiveRtcpSenderReport ==
    /\ Happens
    /\ recv.media.started
    /\ recv' = Idle(ScoreInterval(recv))

Pause ==
    /\ Happens
    /\ ~recv.paused
    /\ recv' = [Idle(recv) EXCEPT !.paused = TRUE, !.timer = FALSE,
                                  !.nack = IF recv.kind.nack THEN Watched ELSE @]

Resume ==
    /\ Happens
    /\ recv.paused
    /\ recv' = [Idle(recv) EXCEPT !.paused = FALSE, !.timer = @ \/ ~recv.inactive]

\* The one-shot inactivity timer.
OnTimer ==
    /\ recv.timer
    /\ recv' = [ResetScore(recv, 0) EXCEPT !.inactive = TRUE, !.timer = FALSE]

RecvNext ==
    \/ ReceiveRtp \/ ReceiveRtx \/ SendReport \/ ReceiveRtcpSenderReport
    \/ Pause \/ Resume \/ OnTimer

RecvFairness == WF_recv(OnTimer)

RecvSpec == RecvInit /\ [][RecvNext]_recv /\ RecvFairness

-----------------------------------------------------------------------------

\* Until the stream restarts, the extended sequence number is the position in the
\* stream: reordering, repeats, RTX and wraps leave GetExpectedPackets() the number
\* of positions from the first to the newest; and what the reports have added up
\* is the packets lost so far, in a stream without consumers that lost more.
LossIsExact ==
    /\ recv.media.started /\ ~recv.restarted =>
        GetExpectedPackets(recv.media) = U32(recv.top - recv.first + 1)
    /\ recv.remote = 0 => recv.report.reported = recv.report.lost
    /\ recv.rtxReport.reported = recv.rtxReport.lost

\* A score is at most 10, the listener knows it, the assertion on repaired packets
\* holds, and an interval in which every packet came once and in order scores 10.
ScoreIsSound ==
    /\ recv.score \in 0..10
    /\ recv.told = recv.score
    /\ ~recv.fault
    /\ recv.restarted \/ recv.sample = 10

\* A stream that stops is noticed: once no more packets come, the score becomes 0
\* and sender reports do not raise it again, unless the producer is paused.
SilenceIsNoticed == <>[](recv.paused \/ recv.score = 0)
=============================================================================
