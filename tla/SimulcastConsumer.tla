------------------------- MODULE SimulcastConsumer --------------------------
(***************************************************************************)
(* A SimulcastConsumer, with what it inherits from Consumer: one stream to *)
(* the remote side, fed by the Producer's stream of the current spatial    *)
(* layer.  Its state is the record `sim'; every handler is an operator on  *)
(* such a record, and an action applies one to it.                         *)
(*                                                                         *)
(* Sequence numbers are those of SeqManager and not here: of a packet only *)
(* its distance to the newest of its layer counts.  RTP timestamps count   *)
(* frames, modulo TsMod.  What a handler reads of the Producer's streams   *)
(* (bitrates, time they are active) is an argument e, any at each call.    *)
(***************************************************************************)
EXTENDS Integers, FiniteSets, FiniteSetsExt

CONSTANTS
    NumSpatial,         \* spatial layers, one Producer stream each
    NumTemporal,        \* temporal layers of each
    Environments,       \* what a handler may read: records with the bitrate of each layer
                        \* (rate), the bitrate given (budget), the streams not active for
                        \* StreamMinActiveMs (young), whether ours is active for
                        \* BweDowngradeMinActiveMs (steady)
    TsMod,              \* RTP timestamps are modulo this
    TsBase,             \* where the timestamps of each stream start
    MaxEvents,          \* pauses, dead streams and the like (bound)
    Packets,            \* that may come, where the bitrate is managed and where it is not:
                        \* records with the layer, how late it is in packets (late), key
                        \* frame or not, temporal layer (t) and sync flag (y), when it was
                        \* captured in frames (at), whether an earlier packet of its
                        \* picture was dropped (gone)
    MaxSequenceNumberGap,
    MsOffset,           \* the offset of a frame
    MaxExtraOffset      \* the most a switch may add

Spatial == 0..(NumSpatial - 1)
Temporal == 0..(NumTemporal - 1)
Layers == [s : {-1} \cup Spatial, t : {-1} \cup Temporal]
NoLayers == [s |-> -1, t |-> -1]

VARIABLE sim

TsAhead(a, b) == a # b /\ (a - b) % TsMod <= TsMod \div 2

-----------------------------------------------------------------------------
(* What the handlers read *)

\* A Producer stream: whether it exists, whether its score is above 0, whether it has
\* had a Sender Report.
NoStream == [there |-> FALSE, alive |-> FALSE, sr |-> FALSE]
NewRtpStream == [there |-> TRUE, alive |-> TRUE, sr |-> FALSE]

BaseIsActive(c) == c.connected /\ ~c.paused /\ ~c.producerPaused

IsActive(c) == BaseIsActive(c) /\ \E s \in Spatial : c.stream[s].there /\ c.stream[s].alive

\* Its stream exists, a Sender Report relates its timestamps to those of the reference.
CanSwitchToSpatialLayer(c, s) ==
    \/ c.tsReference \in {-1, s}
    \/ c.stream[c.tsReference].sr /\ c.stream[s].sr

-----------------------------------------------------------------------------
(* Target layers *)

RequestKeyFrame(c, s) ==
    IF s # -1 /\ c.stream[s].there THEN [c EXCEPT !.asked = @ \cup {s}] ELSE c

RequestKeyFrames(c) == RequestKeyFrame(RequestKeyFrame(c, c.target.s), c.current)

UpdateTargetLayers(c, new) ==
    IF new.s = -1
    THEN [c EXCEPT !.target = NoLayers, !.current = -1,
                   !.targetTemporal = -1, !.currentTemporal = -1]
    ELSE LET n == [c EXCEPT !.tsReference = IF @ = -1 THEN new.s ELSE @,
                            !.target = new,
                            !.targetTemporal = IF new.s = c.current THEN new.t ELSE @]
         IN  IF new.s # c.current THEN RequestKeyFrame(n, new.s) ELSE n

\* The temporal layer to ask for at a spatial one.
WithTemporal(c, s) ==
    [s |-> s,
     t |-> CASE s = -1 -> -1
             [] s = c.preferred.s -> c.preferred.t
             [] s > -1 /\ s < c.preferred.s -> NumTemporal - 1
             [] OTHER -> 0]

\* The highest layer up to the preferred one that is alive, or the lowest above it.
RecalculateTargetLayers(c, e) ==
    LET Ok(s) == c.stream[s].there /\ c.stream[s].alive /\ CanSwitchToSpatialLayer(c, s)
        chosen[s \in {-1} \cup Spatial] ==
            IF s = -1 THEN -1
            ELSE LET was == chosen[s - 1]
                 IN  IF \/ was >= c.preferred.s
                        \/ c.downgraded /\ was > -1 /\ s > c.current
                        \/ c.managed /\ was # -1 /\ s \in e.young
                        \/ ~Ok(s)
                     THEN was ELSE s
    IN  WithTemporal(c, chosen[NumSpatial - 1])

-----------------------------------------------------------------------------
(* The bitrate game: provisional layers rise one at a time *)

\* The bitrate a layer adds to the provisional ones; the first of a higher stream
\* replaces what the lower stream uses.
RequiredBitrate(c, e, s, t) ==
    LET p == c.provisional
        replaced == IF p.s > -1 /\ s > p.s /\ t = 0
                    THEN FoldSet(LAMBDA x, acc : acc + e.rate[p.s][x], 0, 0..p.t)
                    ELSE 0
    IN  IF e.rate[s][t] = 0 THEN 0
        ELSE IF e.rate[s][t] > replaced THEN e.rate[s][t] - replaced ELSE 1

\* The stream is not skipped, and no layer before it ends the loops of IncreaseLayer().
Considered(c, e, s) ==
    /\ s >= c.provisional.s
    /\ c.stream[s].there
    /\ ~(s # c.provisional.s /\ c.provisional.s # -1 /\ s \in e.young /\ c.provisional.s \notin e.young)
    /\ CanSwitchToSpatialLayer(c, s)
Reached(c, e, s) ==
    /\ ~(c.downgraded /\ c.provisional.s > -1 /\ s > c.current)
    /\ \A x \in 0..(s - 1) : ~(Considered(c, e, x) /\ x >= c.preferred.s)

\* The layer the loops end at, or none.
FirstOf(p, s) == [s |-> s, t |-> IF s = p.s THEN p.t + 1 ELSE 0]
LowestOf(layers) ==
    IF layers = {} THEN NoLayers ELSE CHOOSE l \in layers : \A m \in layers : l.s <= m.s

NextLayer(c, e) ==
    LowestOf({l \in {FirstOf(c.provisional, s) : s \in Spatial} :
                /\ Considered(c, e, l.s) /\ Reached(c, e, l.s) /\ l.t \in Temporal
                /\ RequiredBitrate(c, e, l.s, l.t) > 0})

\* With the bitrate and what may be counted on top of it (virtual): the new state and
\* the bitrate used.
RaiseTo(c, new, bitrate, virtual, e) ==
    LET required == RequiredBitrate(c, e, new.s, new.t)
    IN  IF new = NoLayers THEN [c |-> c, used |-> 0]
        ELSE IF required > virtual THEN [c |-> c, used |-> 0]
        ELSE [c |-> [c EXCEPT !.provisional = new],
              used |-> IF required <= bitrate THEN required ELSE bitrate]

IncreaseLayer(c, bitrate, virtual, e) ==
    IF c.provisional = c.preferred THEN [c |-> c, used |-> 0]
    ELSE RaiseTo(c, NextLayer(c, e), bitrate, virtual, e)

ApplyLayers(c, e) ==
    LET n == [c EXCEPT !.provisional = NoLayers]
        m == UpdateTargetLayers(n, c.provisional)
    IN  IF c.provisional = c.target THEN n
        ELSE IF e.steady /\ m.target.s < m.current /\ m.current <= m.preferred.s
        THEN [m EXCEPT !.downgraded = TRUE] ELSE m

\* Transport::DistributeAvailableOutgoingBitrate(), as far as this Consumer sees it.
Give(g, e) ==
    LET r == IncreaseLayer(g.c, g.left, g.left, e) IN [c |-> r.c, left |-> g.left - r.used]

Distribute(c, e) ==
    LET given[n \in 0..(NumSpatial * NumTemporal)] ==
            IF n = 0 THEN [c |-> c, left |-> e.budget] ELSE Give(given[n - 1], e)
    IN  IF IsActive(c) THEN ApplyLayers(given[NumSpatial * NumTemporal].c, e) ELSE c

ChangeLayers(c, new, force, e) ==
    IF new = c.target THEN c
    ELSE IF ~c.managed THEN UpdateTargetLayers(c, new)
    ELSE IF new.s # c.target.s \/ force THEN Distribute(c, e) ELSE c

MayChangeLayers(c, force, e) == ChangeLayers(c, RecalculateTargetLayers(c, e), force, e)

-----------------------------------------------------------------------------
(* Packets *)

PacketTs(p) == (p.at + TsBase[p.layer]) % TsMod

\* VP8's Process(): whether the packet goes on, and the temporal layer it leaves.
ProcessPayload(c, p) ==
    [ok |-> IF p.late > 0 THEN ~p.gone
            ELSE p.t <= c.targetTemporal /\ (p.t <= c.currentTemporal \/ p.y),
     temporal |-> Min({c.targetTemporal, Max({c.currentTemporal, p.t})})]

NoPacket == [layer |-> -1, key |-> FALSE, old |-> FALSE]

Forward(c, p) ==
    LET ts == (PacketTs(p) - c.tsOffset) % TsMod
    IN  [c EXCEPT !.maxTs = IF c.started /\ ~TsAhead(ts, @) THEN @ ELSE ts, !.started = TRUE,
                  !.sent = [layer |-> p.layer, key |-> p.key, old |-> p.late > c.since]]

\* A key frame for the Consumer to start from: the offset to the reference's timestamps,
\* and on a switch an extra one where it would not go past those sent.
Sync(c, p, switch) ==
    LET theoretical == IF p.layer = c.tsReference THEN 0
                       ELSE (TsBase[c.target.s] - TsBase[c.tsReference]) % TsMod
        ts == (PacketTs(p) - theoretical) % TsMod
        extra == (c.maxTs - ts + MsOffset) % TsMod
        behind == switch /\ ts <= c.maxTs
        high == behind /\ extra > MaxExtraOffset
        offset == IF ~behind THEN theoretical
                  ELSE (theoretical - (IF high THEN 1 ELSE extra)) % TsMod
        known == p.layer = c.tsReference \/ (c.stream[c.tsReference].sr /\ c.stream[c.target.s].sr)
    IN  IF high /\ ~c.keyFrameForTs
        THEN [RequestKeyFrame(c, c.target.s) EXCEPT !.keyFrameForTs = TRUE, !.sync = FALSE,
                  !.toSync = -1, !.fault = @ \/ ~known]
        ELSE [c EXCEPT !.tsOffset = offset, !.sync = FALSE, !.toSync = -1,
                       !.keyFrameForTs = FALSE, !.fault = @ \/ ~known]

\* Mutant: packets of before the switch are not told apart.
SwitchTo_NoCheck(c, p) ==
    [c EXCEPT !.current = c.target.s, !.since = p.late,
              !.targetTemporal = c.target.t, !.currentTemporal = p.t]

SwitchTo(c, p) ==
    [c EXCEPT !.current = c.target.s, !.since = p.late, !.checking = TRUE,
              !.targetTemporal = c.target.t, !.currentTemporal = p.t]

Switched(c, p) ==
    Forward([c EXCEPT !.currentTemporal = ProcessPayload(c, p).temporal], p)

Filtered(c, p) ==
    IF ~ProcessPayload(c, p).ok THEN c
    ELSE Forward([c EXCEPT !.currentTemporal = ProcessPayload(c, p).temporal,
                           !.fault = @ \/ c.targetTemporal = -1], p)

\* The packet after MaySync(): put off, switched at, too old, or processed.
Synced(c, p, switch, wasAsked) ==
    IF c.keyFrameForTs /\ ~wasAsked THEN c
    ELSE IF switch THEN Switched(SwitchTo(c, p), p)
    ELSE IF c.checking /\ p.late > c.since THEN c
    ELSE Filtered([c EXCEPT !.checking = @ /\ c.since - p.late <= MaxSequenceNumberGap], p)

MaySync(c, p, switch) ==
    Synced(IF c.sync /\ c.toSync \in {-1, p.layer} THEN Sync(c, p, switch) ELSE c,
           p, switch, c.keyFrameForTs)

SendRtpPacket(c, p) ==
    LET switch == c.current # c.target.s /\ p.layer = c.target.s
    IN  IF \/ ~IsActive(c)
           \/ c.target.t = -1
           \/ ~switch /\ p.layer # c.current
           \/ ~p.key /\ (switch \/ c.sync)
        THEN c
        ELSE MaySync(IF switch THEN [c EXCEPT !.sync = TRUE, !.toSync = p.layer] ELSE c, p, switch)

-----------------------------------------------------------------------------
(* Events of the transport and of the application *)

UserOnPaused(c) == UpdateTargetLayers([c EXCEPT !.downgraded = FALSE], NoLayers)

UserOnResumed(c, e) ==
    LET n == [c EXCEPT !.sync = TRUE, !.toSync = -1, !.keyFrameForTs = FALSE, !.checking = FALSE]
    IN  IF IsActive(n) THEN MayChangeLayers(n, FALSE, e) ELSE n

Leave(c, n) == IF IsActive(c) THEN UserOnPaused(n) ELSE n
Enter(n, e) == IF IsActive(n) THEN UserOnResumed(n, e) ELSE n

TransportConnected(c, e) ==
    LET n == [c EXCEPT !.connected = TRUE, !.sync = TRUE, !.toSync = -1, !.keyFrameForTs = FALSE]
    IN  IF IsActive(n) THEN MayChangeLayers(n, FALSE, e) ELSE n

SetPreferredLayers(c, new, e) ==
    LET n == [c EXCEPT !.preferred = new]
    IN  IF IsActive(n) /\ new # c.preferred THEN MayChangeLayers(n, TRUE, e) ELSE n

ProducerNewRtpStream(c, s, e) ==
    LET n == [c EXCEPT !.stream[s] = NewRtpStream]
    IN  IF IsActive(n) THEN MayChangeLayers(n, FALSE, e) ELSE n

\* Of the scores only 0 and above are told apart: each change is a death or a rebirth.
ProducerRtpStreamScore(c, s, e) ==
    LET n == [c EXCEPT !.stream[s].alive = ~@]
    IN  IF BaseIsActive(n) THEN MayChangeLayers(n, FALSE, e) ELSE n

ProducerRtcpSenderReport(c, s, e) ==
    LET n == [c EXCEPT !.stream[s].sr = TRUE]
    IN  IF n.current # -1 /\ n.stream[n.current].sr /\ IsActive(n)
        THEN MayChangeLayers(n, FALSE, e) ELSE n

-----------------------------------------------------------------------------
(* The Consumer's life *)

Created ==
    [connected |-> FALSE, paused |-> FALSE, producerPaused |-> FALSE, managed |-> FALSE,
     stream |-> [s \in Spatial |-> NoStream],
     preferred |-> [s |-> NumSpatial - 1, t |-> NumTemporal - 1],
     provisional |-> NoLayers, target |-> NoLayers, current |-> -1,
     targetTemporal |-> -1, currentTemporal |-> -1,
     tsReference |-> -1, tsOffset |-> 0, maxTs |-> 0, started |-> FALSE,
     sync |-> FALSE, toSync |-> -1, keyFrameForTs |-> FALSE,
     since |-> 0, checking |-> FALSE, downgraded |-> FALSE,
     events |-> 0, asked |-> {}, sent |-> NoPacket, fault |-> FALSE]

Init ==
    \E m, paused \in BOOLEAN, s \in Spatial :
        sim = [Created EXCEPT !.managed = m, !.paused = paused, !.stream[s] = NewRtpStream]

\* What this Consumer may read at a call; only the transport's Distribute() cares.
Seen == IF sim.managed THEN Environments ELSE {CHOOSE e \in Environments : e.young = {}}

\* No packet is sent but by SendRtpPacket().
Idle == [sim EXCEPT !.sent = NoPacket]

\* One of the events that may come again and again (bound).
Again == [Idle EXCEPT !.events = @ + 1]

Connect == ~sim.connected /\ \E e \in Seen : sim' = TransportConnected(Idle, e)

Disconnect ==
    sim.connected /\ sim' = UserOnPaused([Again EXCEPT !.connected = FALSE])

Pause == ~sim.paused /\ sim' = Leave(Again, [Again EXCEPT !.paused = TRUE])

Resume == sim.paused /\ \E e \in Seen : sim' = Enter([Again EXCEPT !.paused = FALSE], e)

ProducerPaused ==
    ~sim.producerPaused /\ sim' = Leave(Again, [Again EXCEPT !.producerPaused = TRUE])

ProducerResumed ==
    sim.producerPaused /\ \E e \in Seen : sim' = Enter([Again EXCEPT !.producerPaused = FALSE], e)

AskKeyFrames == IsActive(sim) /\ sim' = RequestKeyFrames(Again)

Prefer ==
    \E new \in [s : Spatial, t : Temporal], e \in Seen : sim' = SetPreferredLayers(Again, new, e)

NewStream ==
    \E s \in Spatial, e \in Seen :
        ~sim.stream[s].there /\ sim' = ProducerNewRtpStream(Idle, s, e)

Score ==
    \E s \in Spatial, e \in Seen :
        sim.stream[s].there /\ sim' = ProducerRtpStreamScore(Again, s, e)

SenderReport ==
    \E s \in Spatial, e \in Seen :
        sim.stream[s].there /\ ~sim.stream[s].sr /\ sim' = ProducerRtcpSenderReport(Idle, s, e)

\* The transport distributes its bitrate for a reason that is not this Consumer's.
Redistribute == sim.managed /\ \E e \in Seen : sim' = Distribute(Again, e)

\* BweDowngradeConservativeMs go by after a downgrade.
DowngradeIsOld == sim.downgraded /\ sim' = [Idle EXCEPT !.downgraded = FALSE]

\* Packets of the Producer's streams that are alive.  One that is not late is the next
\* of its layer.
Arrived(p) ==
    [Idle EXCEPT !.since = IF p.layer = sim.current /\ p.late = 0
                          THEN Min({@ + 1, MaxSequenceNumberGap + 1}) ELSE @,
                !.asked = IF p.key /\ p.late = 0 THEN @ \ {p.layer} ELSE @]

Packet(p) ==
    /\ sim.stream[p.layer].alive
    /\ sim' = SendRtpPacket(Arrived(p), p)

Next ==
    \/ Connect \/ NewStream \/ SenderReport \/ DowngradeIsOld
    \/ \E p \in Packets[sim.managed] : Packet(p)
    \/ /\ sim.events < MaxEvents
       /\ \/ Disconnect \/ Pause \/ Resume \/ ProducerPaused \/ ProducerResumed
          \/ AskKeyFrames \/ Prefer \/ Score \/ Redistribute

-----------------------------------------------------------------------------
(* Properties *)

\* What is sent is of the current layer and not older than the key frame it switched at;
\* its timestamps are those of the reference layer, at most MaxExtraOffset ahead; the
\* code's assertions (a Sender Report to compute an offset from, a temporal layer to
\* filter with) hold; the transport's game leaves no provisional layers.
\* (SendRtpPacket(), ApplyLayers(), MS_ASSERTs at SimulcastConsumer.cpp:754-759.)
SwitchesCleanly ==
    /\ ~sim.fault
    /\ sim.provisional = NoLayers
    /\ sim.sent # NoPacket =>
        /\ sim.sent.layer = sim.current
        /\ ~sim.sent.old
        /\ (TsBase[sim.current] - TsBase[sim.tsReference] - sim.tsOffset) % TsMod
                \in 0..MaxExtraOffset

\* An active Consumer that waits for a key frame of a living stream has one coming: it
\* is asked for and not here yet.  (One whose bitrate the transport manages keeps its
\* layers while all streams are dead, so a pause and a resume then may not ask.)
\* (UpdateTargetLayers(), UserOnResumed(), SendRtpPacket().)
KeyFrameIsComing ==
    (/\ IsActive(sim) /\ ~sim.managed
     /\ sim.target.s # -1 /\ sim.stream[sim.target.s].alive
     /\ sim.current # sim.target.s \/ sim.sync)
    => sim.target.s \in sim.asked

\* The key frame of a switch gets a timestamp past every one sent before, unless this is
\* the second try and the Consumer gives up.  (SendRtpPacket(), :784-850.)
TimestampGoesOn ==
    (/\ sim'.current \notin {-1, sim.current}
     /\ sim.started
     /\ ~sim.keyFrameForTs)
    => TsAhead(sim'.maxTs, sim.maxTs)

=============================================================================
