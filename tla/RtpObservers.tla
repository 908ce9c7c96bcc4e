---------------------------- MODULE RtpObservers ----------------------------
(***************************************************************************)
(* The two RtpObservers: the ActiveSpeakerObserver, which tells Node who   *)
(* the dominant speaker is, and the AudioLevelObserver, which tells the    *)
(* volumes of the loudest producers or that there is silence.  The state   *)
(* is the record `obs' of one observer, of either kind.                    *)
(*                                                                         *)
(* A speaker's activity is scored from its last levels; the score, a real  *)
(* number in the code, enters as its logarithm in the table LogScore.      *)
(***************************************************************************)
EXTENDS Integers, Sequences, FiniteSets, FiniteSetsExt, SequencesExt

CONSTANTS
    Producers,
    Levels,             \* the levels a packet may carry (0: silent)
    Gaps,               \* how long after the step before a step may come, in packets
    LevelsBuffLen, MediumsBuffLen,
    MaxLevel, SubunitLength, MinLevelWindowLen,
    MediumThreshold, LongThreshold, LevelIdleTimeout, SpeakerIdleTimeout,
    LogScore,           \* of an immediate, a medium and a long activity
    Margins,            \* C1, C2, C3
    MaxEntries, Threshold, MinCount, SumMod, Volumes,
    Bursts,             \* how many packets of a volume come in a row
    ObsEvents           \* (bound)

VARIABLE obs

Nobody == "nobody"
Longs == 1

\* `recent' (ghost) holds a speaker's last levels, the newest first.
NewSpeaker(now, paused) ==
    [paused |-> paused, at |-> now, min |-> 0, nextMin |-> 0, window |-> 0, next |-> 0,
     levels |-> [i \in 0..(LevelsBuffLen - 1) |-> 0],
     immediates |-> [i \in 1..LevelsBuffLen |-> 0],
     mediums |-> [i \in 1..MediumsBuffLen |-> 0], longs |-> [i \in 1..Longs |-> 0],
     score |-> [i \in 1..3 |-> LogScore[i][0]],
     recent |-> [i \in 1..LevelsBuffLen |-> 0]]

Silent == [sum |-> 0, count |-> 0, true |-> 0]

\* The observer has some producers already when it is first looked at; Node was told
\* nothing.
Init ==
    \E kind \in {"speaker", "level"}, added \in SUBSET Producers :
        obs = [kind |-> kind, added |-> added, off |-> {}, paused |-> FALSE, now |-> 1,
               speakers |-> [p \in IF kind = "speaker" THEN added ELSE {} |-> NewSpeaker(1, FALSE)],
               dominant |-> Nobody, idleAt |-> 0, scored |-> {},
               dBovs |-> [p \in IF kind = "level" THEN added ELSE {} |-> Silent],
               silence |-> TRUE, told |-> <<>>, last |-> [event |-> "none", data |-> <<>>],
               due |-> {}, events |-> 0]

\* (ghosts) `last' is what Node was told last, `due' whose volume it should be told.
Begin(gap) ==
    [obs EXCEPT !.events = @ + 1, !.now = @ + gap, !.told = <<>>, !.scored = {}, !.due = {}]

Emit(b, event, data) ==
    [b EXCEPT !.told = <<data>>, !.last = [event |-> event, data |-> data]]

-----------------------------------------------------------------------------
(* A speaker *)

\* The floor below which a level is silence follows the lowest levels.
UpdateMinLevel(s, level) ==
    LET low == Min({s.nextMin, level})
        root == CHOOSE r \in 0..MaxLevel : r * r <= s.min * low /\ (r + 1) * (r + 1) > s.min * low
    IN  IF level = 0 THEN s
        ELSE IF s.min = 0 \/ s.min > level
        THEN [s EXCEPT !.min = level, !.nextMin = 0, !.window = 0]
        ELSE IF s.nextMin = 0 THEN [s EXCEPT !.nextMin = level, !.window = 1]
        ELSE IF s.window + 1 < MinLevelWindowLen
        THEN [s EXCEPT !.nextMin = low, !.window = @ + 1]
        ELSE [s EXCEPT !.min = root, !.nextMin = 0, !.window = 0]

\* A level stands for all the packets since the last one.
LevelChanged(s, level, now) ==
    LET n == Min({Max({now - s.at, 1}), LevelsBuffLen})
        written == {(s.next + i) % LevelsBuffLen : i \in 0..(n - 1)}
    IN  UpdateMinLevel(
            [s EXCEPT !.at = now, !.next = (@ + n) % LevelsBuffLen,
                      !.levels = [i \in DOMAIN @ |-> IF i \in written THEN level ELSE @[i]],
                      !.recent = SubSeq([i \in 1..n |-> level] \o @, 1, LevelsBuffLen)],
            level)

\* An int8_t: a floor above MaxLevel is none.
Floor(s) == IF s.min + SubunitLength > MaxLevel THEN 0 ELSE s.min + SubunitLength

ComputeImmediates(s) ==
    [i \in 1..LevelsBuffLen |->
        LET level == s.levels[IF s.next >= i THEN s.next - i ELSE s.next + LevelsBuffLen - i]
        IN  (IF level < Floor(s) THEN 0 ELSE level) \div SubunitLength]

\* How many of each group of `littles' are above the threshold.
ComputeBigs(littles, len, threshold) ==
    LET per == Len(littles) \div len
    IN  [b \in 1..len |->
            Cardinality({l \in ((b - 1) * per + 1)..(b * per) : littles[l] > threshold})]

\* Each is computed again only if what it is computed from has changed.
EvalActivityScores(s) ==
    LET a == [s EXCEPT !.immediates = ComputeImmediates(s),
                       !.score[1] = LogScore[1][ComputeImmediates(s)[1]]]
        mediums == ComputeBigs(a.immediates, MediumsBuffLen, MediumThreshold)
        b == [a EXCEPT !.mediums = mediums, !.score[2] = LogScore[2][mediums[1]]]
        longs == ComputeBigs(mediums, Longs, LongThreshold)
    IN  IF a.immediates = s.immediates THEN s
        ELSE IF mediums = s.mediums THEN a
        ELSE IF longs = s.longs THEN b
        ELSE [b EXCEPT !.longs = longs, !.score[3] = LogScore[3][longs[1]]]

-----------------------------------------------------------------------------
(* The ActiveSpeakerObserver *)

TimeoutIdleLevels(b) ==
    [b EXCEPT !.speakers = [p \in DOMAIN @ |->
        LET idle == b.now - @[p].at
        IN  IF idle > SpeakerIdleTimeout /\ p # b.dominant THEN [@[p] EXCEPT !.paused = TRUE]
            ELSE IF idle > LevelIdleTimeout THEN LevelChanged(@[p], 0, b.now)
            ELSE @[p]]]

Beats(b, p, d) ==
    \A i \in 1..3 : b.speakers[p].score[i] - b.speakers[d].score[i] > Margins[i]

\* The dominant speakers there may be next: one alone is dominant; without one any is
\* compared with, and is it unless somebody beats it.
CalculateActiveSpeaker(b) ==
    LET all == DOMAIN b.speakers
        From(d) ==
            LET others == {p \in all \ {b.dominant} : ~b.speakers[p].paused}
                c == [b EXCEPT !.scored = others \cup {d},
                               !.speakers = [p \in all |-> IF p \in others \cup {d}
                                                           THEN EvalActivityScores(@[p]) ELSE @[p]]]
                better == {p \in others : Beats(c, p, d)}
                best == {p \in better :
                            \A q \in better : c.speakers[q].score[2] <= c.speakers[p].score[2]}
            IN  {[c EXCEPT !.dominant = p] : p \in IF better = {} THEN {d} ELSE best}
    IN  IF Cardinality(all) = 1 THEN {[b EXCEPT !.dominant = p] : p \in all}
        ELSE UNION {From(d) : d \in IF b.dominant = Nobody THEN all ELSE {b.dominant}}

SpeakerUpdate(b) ==
    LET aged == b.now - b.idleAt >= LevelIdleTimeout
        c == IF aged /\ b.idleAt # 0 THEN TimeoutIdleLevels(b) ELSE b
        d == IF aged THEN [c EXCEPT !.idleAt = b.now] ELSE c
    IN  IF DOMAIN b.speakers = {} THEN {d}
        ELSE {IF e.dominant = d.dominant THEN e ELSE Emit(e, "dominantspeaker", e.dominant)
                : e \in CalculateActiveSpeaker(d)}

SpeakerAdd(b, p) ==
    [b EXCEPT !.speakers = [q \in DOMAIN @ \cup {p} |->
                               IF q = p THEN NewSpeaker(b.now, p \in b.off) ELSE @[q]]]

\* Mutant: the dominant speaker leaves, and nobody takes its place.
SpeakerRemove_KeepDominant(b, p) == {[b EXCEPT !.speakers = [q \in DOMAIN @ \ {p} |-> @[q]]]}

SpeakerRemove(b, p) ==
    LET c == [b EXCEPT !.speakers = [q \in DOMAIN @ \ {p} |-> @[q]]]
    IN  IF p = b.dominant THEN SpeakerUpdate([c EXCEPT !.dominant = Nobody]) ELSE {c}

SpeakerPause(b, p, paused) ==
    [b EXCEPT !.speakers = [q \in DOMAIN @ |-> IF q = p THEN [@[q] EXCEPT !.paused = paused]
                                               ELSE @[q]]]

SpeakerReceive(b, p, level) ==
    [b EXCEPT !.speakers = [q \in DOMAIN @ |-> IF q = p THEN LevelChanged(@[q], level, b.now)
                                               ELSE @[q]]]

-----------------------------------------------------------------------------
(* The AudioLevelObserver *)

LevelAdd(b, p) ==
    [b EXCEPT !.dBovs = [q \in DOMAIN @ \cup {p} |-> IF q \in DOMAIN @ THEN @[q] ELSE Silent]]

LevelRemove(b, p) == [b EXCEPT !.dBovs = [q \in DOMAIN @ \ {p} |-> @[q]]]

\* The sum is a uint16_t; `true' (ghost) is not.
LevelReceive(b, p, volume, n) ==
    [b EXCEPT !.dBovs[p].sum = (@ + n * volume) % SumMod, !.dBovs[p].count = @ + n,
              !.dBovs[p].true = @ + n * volume]

ResetMapProducerDBovs(b) == [b EXCEPT !.dBovs = [p \in DOMAIN @ |-> Silent]]

\* (ghost) Whom Node should be told of.
Due(b) ==
    {p \in DOMAIN b.dBovs : /\ b.dBovs[p].count >= MinCount
                            /\ b.dBovs[p].true \div b.dBovs[p].count <= -Threshold}

LevelUpdate(b) ==
    LET volume == [p \in DOMAIN b.dBovs |-> -(b.dBovs[p].sum \div Max({b.dBovs[p].count, 1}))]
        loud == {p \in DOMAIN b.dBovs : b.dBovs[p].count >= MinCount /\ volume[p] >= Threshold}
        order == SetToSortSeq(loud, LAMBDA p, q : volume[p] > volume[q])
        entries == [i \in 1..Min({MaxEntries, Len(order)}) |->
                        [producer |-> order[i], volume |-> volume[order[i]]]]
        c == [ResetMapProducerDBovs(b) EXCEPT
                !.due = {[producer |-> p, volume |-> -(b.dBovs[p].true \div b.dBovs[p].count)]
                            : p \in Due(b)}]
    IN  IF loud # {} THEN Emit([c EXCEPT !.silence = FALSE], "volumes", entries)
        ELSE IF ~b.silence THEN Emit([c EXCEPT !.silence = TRUE], "silence", <<>>) ELSE c

LevelPaused(b) ==
    LET c == ResetMapProducerDBovs(b)
    IN  IF b.silence THEN c ELSE Emit([c EXCEPT !.silence = TRUE], "silence", <<>>)

-----------------------------------------------------------------------------
(* What happens to an observer *)

IsSpeaker == obs.kind = "speaker"

\* A producer that the ActiveSpeakerObserver has already is refused.
AddProducer ==
    \E p \in Producers :
        /\ p \notin obs.added
        /\ LET b == [Begin(0) EXCEPT !.added = @ \cup {p}]
           IN  obs' = IF IsSpeaker THEN SpeakerAdd(b, p) ELSE LevelAdd(b, p)

\* By request, or since the producer is closed.
RemoveProducer ==
    \E p \in obs.added :
        LET b == [Begin(0) EXCEPT !.added = @ \ {p}]
        IN  obs' \in IF IsSpeaker THEN SpeakerRemove(b, p) ELSE {LevelRemove(b, p)}

ProducerPaused ==
    \E p \in Producers \ obs.off :
        LET b == [Begin(0) EXCEPT !.off = @ \cup {p}]
        IN  obs' = IF p \notin obs.added THEN b
                   ELSE IF IsSpeaker THEN SpeakerPause(b, p, TRUE) ELSE LevelRemove(b, p)

ProducerResumed ==
    \E p \in obs.off :
        LET b == [Begin(0) EXCEPT !.off = @ \ {p}]
        IN  obs' = IF p \notin obs.added THEN b
                   ELSE IF IsSpeaker THEN SpeakerPause(b, p, FALSE) ELSE LevelAdd(b, p)

\* A paused producer's packets do not reach the router.
ReceiveRtpPacket ==
    \E p \in obs.added \ obs.off, gap \in Gaps :
        LET b == Begin(gap)
        IN  \/ IsSpeaker /\ \E level \in Levels :
                  obs' = IF obs.paused THEN b ELSE SpeakerReceive(b, p, level)
            \/ ~IsSpeaker /\ \E volume \in Volumes, n \in Bursts :
                  obs' = IF obs.paused THEN b ELSE LevelReceive(b, p, volume, n)

\* The timer is stopped while the observer is paused.
OnTimer ==
    /\ ~obs.paused
    /\ \E gap \in Gaps :
        obs' \in IF IsSpeaker THEN SpeakerUpdate(Begin(gap)) ELSE {LevelUpdate(Begin(gap))}

Pause ==
    /\ ~obs.paused
    /\ LET b == [Begin(0) EXCEPT !.paused = TRUE]
       IN  obs' = IF IsSpeaker THEN b ELSE LevelPaused(b)

Resume == obs.paused /\ obs' = [Begin(0) EXCEPT !.paused = FALSE]

Next ==
    /\ obs.events < ObsEvents
    /\ \/ AddProducer
       \/ RemoveProducer
       \/ ProducerPaused
       \/ ProducerResumed
       \/ ReceiveRtpPacket
       \/ OnTimer
       \/ Pause
       \/ Resume

Spec == Init /\ [][Next]_obs

-----------------------------------------------------------------------------
(* Properties *)

\* Whoever is compared with others is compared by the scores of its last levels, though
\* EvalActivityScores() computes each from a circular buffer, and only when it must.
ScoresAreCurrent ==
    \A p \in obs.scored \cap DOMAIN obs.speakers :
        LET s == obs.speakers[p]
            Heard(i) == IF s.recent[i] < Floor(s) THEN 0 ELSE s.recent[i] \div SubunitLength
            per == LevelsBuffLen \div MediumsBuffLen
            Medium(m) == Cardinality({i \in 1..per : Heard((m - 1) * per + i) > MediumThreshold})
            long == Cardinality({m \in 1..MediumsBuffLen : Medium(m) > LongThreshold})
        IN  s.score = <<LogScore[1][Heard(1)], LogScore[2][Medium(1)], LogScore[3][long]>>

\* The dominant speaker is one that the observer still has (CalculateActiveSpeaker() looks
\* it up), and the one that Node was told of last.
DominantIsTold ==
    IsSpeaker /\ obs.dominant # Nobody =>
        obs.dominant \in DOMAIN obs.speakers /\ obs.last.data = obs.dominant

\* Node is told the volumes of the loudest, at most MaxEntries, and no others, or else of
\* the silence once; and every producer that is not paused is listened to.
VolumesAreTrue ==
    ~IsSpeaker =>
        /\ obs.added \ obs.off \subseteq DOMAIN obs.dBovs
        /\ DOMAIN obs.dBovs \subseteq obs.added
        /\ obs.silence <=> obs.last.event # "volumes"
        /\ obs.due # {} =>
              LET e == obs.told[1]
              IN  /\ Len(e) = Min({MaxEntries, Cardinality(obs.due)})
                  /\ ToSet(e) \subseteq obs.due
                  /\ \A i, j \in DOMAIN e : i < j => e[i].producer # e[j].producer
                  /\ \A d \in obs.due \ ToSet(e), i \in DOMAIN e : d.volume <= e[i].volume
=============================================================================
