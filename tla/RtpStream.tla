------------------------------ MODULE RtpStream ------------------------------
(***************************************************************************)
(* What RtpStream gives to the streams the worker receives and the ones it *)
(* sends: the extended sequence number of the packets it accepts, and the  *)
(* score.  RtxStream has the same counters.                                *)
(***************************************************************************)
EXTENDS Integers, Sequences

CONSTANTS
    RtpSeqMod,            \* 2^16
    MaxDropout,           \* a jump ahead that is still accepted, exclusive
    MaxMisorder,          \* how late a packet may be
    CounterMod,           \* 2^32, the width of the counters
    ScoreHistogramLength

Seqs == 0..(RtpSeqMod - 1)

U32(n) == n % CounterMod

\* The value of a uint32_t read as an int32_t.
Signed(n) == IF U32(n) < CounterMod \div 2 THEN U32(n) ELSE U32(n) - CounterMod

NewCounters == [started |-> FALSE, base |-> 0, max |-> 0, cycles |-> 0, bad |-> 0]

InitSeq(c, seq) == [c EXCEPT !.base = seq, !.max = seq, !.bad = RtpSeqMod + 1]

Udelta(c, seq) == (seq - c.max) % RtpSeqMod

\* Two packets in a row, after a jump, start the counters again.
Resyncs(c, seq) ==
    /\ Udelta(c, seq) >= MaxDropout
    /\ Udelta(c, seq) <= RtpSeqMod - MaxMisorder
    /\ seq = c.bad

Accepts(c, seq) ==
    \/ Udelta(c, seq) < MaxDropout
    \/ Udelta(c, seq) > RtpSeqMod - MaxMisorder
    \/ Resyncs(c, seq)

\* Mutant: a late packet moves the highest sequence number back.
UpdateSeq_Late(c, seq) ==
    IF Udelta(c, seq) < MaxDropout \/ Udelta(c, seq) > RtpSeqMod - MaxMisorder
    THEN [c EXCEPT !.cycles = IF seq < c.max THEN U32(@ + RtpSeqMod) ELSE @, !.max = seq]
    ELSE IF seq = c.bad THEN InitSeq(c, seq)
    ELSE [c EXCEPT !.bad = (seq + 1) % RtpSeqMod]

UpdateSeq(c, seq) ==
    IF Udelta(c, seq) < MaxDropout
    THEN [c EXCEPT !.cycles = IF seq < c.max THEN U32(@ + RtpSeqMod) ELSE @, !.max = seq]
    ELSE IF Udelta(c, seq) > RtpSeqMod - MaxMisorder THEN c
    ELSE IF seq = c.bad THEN InitSeq(c, seq)
    ELSE [c EXCEPT !.bad = (seq + 1) % RtpSeqMod]

\* The counters a first packet finds: as if the one before it had come.
Started(c, seq) ==
    IF c.started THEN c
    ELSE [InitSeq(c, seq) EXCEPT !.started = TRUE, !.max = (seq - 1) % RtpSeqMod]

ReceiveStreamPacket(c, seq) == UpdateSeq(Started(c, seq), seq)

GetExpectedPackets(c) == U32(c.cycles + c.max - c.base + 1)

Power4(n) == n * n * n * n

\* std::round of the quotient of two naturals.
Rounded(n, d) == (2 * n + d) \div (2 * d)

\* The score of an interval from what was sent (or received), lost, repaired and
\* retransmitted in it: a repaired packet gives back the less the more of them
\* there are and the more often they were retransmitted.
ScoreOf(total, lost, repaired, retransmitted) ==
    LET gain == Power4(total) * repaired * (IF retransmitted > 0 THEN repaired ELSE 1)
        over == Power4(total + repaired) * (IF retransmitted > 0 THEN retransmitted ELSE 1)
        left == (lost * over - gain) \div over
    IN  Rounded(10 * Power4(total - left), Power4(total))

\* The score of the last intervals, the newest of which weighs most.
Weighted(scores) ==
    LET sum[i \in 0..Len(scores)] == IF i = 0 THEN 0 ELSE sum[i - 1] + i * scores[i]
    IN  Rounded(sum[Len(scores)], (Len(scores) * (Len(scores) + 1)) \div 2)

\* RtpStream::UpdateScore() and ResetScore() of a stream b with the fields scores,
\* score and told, the score its listener was last told of.
UpdateScore(b, score) ==
    LET kept   == IF Len(b.scores) = ScoreHistogramLength THEN Tail(b.scores) ELSE b.scores
        scores == Append(kept, score)
    IN  [b EXCEPT !.scores = scores, !.score = Weighted(scores),
                  !.told = IF Weighted(scores) # b.score THEN Weighted(scores) ELSE @]

ResetScore(b, score) ==
    [b EXCEPT !.scores = <<>>, !.score = score, !.told = IF b.score # score THEN score ELSE @]
=============================================================================
