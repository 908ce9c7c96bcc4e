---------------------------- MODULE SvcConsumer -----------------------------
(***************************************************************************)
(* An SvcConsumer: one Producer stream carries all spatial and temporal    *)
(* layers, and the payload handler of the codec (VP9 or H264-SVC) drops    *)
(* the packets above the current ones.  Current and target layers are      *)
(* those of the encoding context.  The state is the record `svc', handled  *)
(* as in SimulcastConsumer.                                                *)
(***************************************************************************)
EXTENDS Integers, FiniteSets, FiniteSetsExt

CONSTANTS
    NumSpatial,
    NumTemporal,
    Environments,       \* as in SimulcastConsumer
    SvcKinds,           \* records: codec, ksvc, managed
    Packets,            \* that may come: records with the layers (s, t), key frame or not,
                        \* predicted from an earlier picture (p), first (b) and last (e) of
                        \* its frame, one where a higher temporal layer may start (u), of a
                        \* picture older than the newest (old)
    SvcEvents           \* pauses, deaths and the like (bound)

VARIABLE svc

Spatial == 0..(NumSpatial - 1)
Temporal == 0..(NumTemporal - 1)
NoLayers == [s |-> -1, t |-> -1]

BaseIsActive(c) == c.connected /\ ~c.paused /\ ~c.producerPaused

IsActive(c) == BaseIsActive(c) /\ c.there /\ c.alive

-----------------------------------------------------------------------------
(* Target layers *)

RequestKeyFrame(c) == [c EXCEPT !.asked = TRUE]

UpdateTargetLayers(c, new) ==
    IF new.s = -1
    THEN [c EXCEPT !.target = NoLayers, !.current = NoLayers]
    ELSE LET n == [c EXCEPT !.target = new]
         IN  IF \/ c.ksvc /\ new.s # c.current.s
                \/ new.s > c.current.s
             THEN RequestKeyFrame(n) ELSE n

HasBitrate(e, s) == \E t \in Temporal : e.rate[s][t] > 0

\* The temporal layer to ask for at a spatial one.
WithTemporal(c, s) ==
    [s |-> s,
     t |-> CASE s = -1 -> -1
             [] s = c.preferred.s -> c.preferred.t
             [] s > -1 /\ s < c.preferred.s -> NumTemporal - 1
             [] OTHER -> 0]

\* The highest layer up to the preferred one that has a bitrate, or the lowest above it.
RecalculateTargetLayers(c, e) ==
    LET chosen[s \in {-1} \cup Spatial] ==
            IF s = -1 THEN -1
            ELSE LET was == chosen[s - 1]
                 IN  IF \/ was >= c.preferred.s
                        \/ c.downgraded /\ was > -1 /\ s > c.current.s
                        \/ ~HasBitrate(e, s)
                     THEN was ELSE s
    IN  WithTemporal(c, IF c.there /\ c.alive THEN chosen[NumSpatial - 1] ELSE -1)

\* What the layers up to (s, t) use.
Used(e, l) ==
    FoldSet(LAMBDA x, sum : sum + e.rate[x[1]][x[2]], 0,
            {x \in Spatial \X Temporal : x[1] < l.s \/ (x[1] = l.s /\ x[2] <= l.t)})

RequiredBitrate(c, e, s, t) ==
    LET p == c.provisional
        replaced == IF c.ksvc /\ t = 0 /\ p.s > -1 /\ s > p.s THEN Used(e, p) ELSE 0
    IN  IF e.rate[s][t] = 0 THEN 0
        ELSE IF e.rate[s][t] > replaced THEN e.rate[s][t] - replaced ELSE 1

\* No layer before it ends the loops of IncreaseLayer().
Reached(c, s) ==
    /\ s >= c.provisional.s
    /\ ~(c.downgraded /\ c.provisional.s > -1 /\ s > c.current.s)
    /\ \A x \in 0..(s - 1) : x >= c.provisional.s => x < c.preferred.s

\* The layer the loops end at, or none.
FirstOf(p, s) == [s |-> s, t |-> IF s = p.s THEN p.t + 1 ELSE 0]
LowestOf(layers) ==
    IF layers = {} THEN NoLayers ELSE CHOOSE l \in layers : \A m \in layers : l.s <= m.s

NextLayer(c, e) ==
    LowestOf({l \in {FirstOf(c.provisional, s) : s \in Spatial} :
                /\ Reached(c, l.s) /\ l.t \in Temporal
                /\ RequiredBitrate(c, e, l.s, l.t) > 0})

\* With the bitrate and what may be counted on top of it (virtual): the new state and
\* the bitrate used.
RaiseTo(c, new, bitrate, virtual, e) ==
    LET required == RequiredBitrate(c, e, new.s, new.t)
    IN  IF new = NoLayers THEN [c |-> c, used |-> 0]
        ELSE IF required > virtual THEN [c |-> c, used |-> 0]
        ELSE [c |-> [c EXCEPT !.provisional = new],
              used |-> IF required <= bitrate THEN required ELSE bitrate]

IncreaseLayer(c, bitrate, virtual, e) ==
    IF ~c.alive \/ c.provisional = c.preferred THEN [c |-> c, used |-> 0]
    ELSE RaiseTo(c, NextLayer(c, e), bitrate, virtual, e)

ApplyLayers(c, e) ==
    LET n == [c EXCEPT !.provisional = NoLayers]
        m == UpdateTargetLayers(n, c.provisional)
    IN  IF c.provisional = c.target THEN n
        ELSE IF e.steady /\ m.target.s < m.current.s /\ m.current.s <= m.preferred.s
        THEN [m EXCEPT !.downgraded = TRUE] ELSE m

\* Transport::DistributeAvailableOutgoingBitrate(), as far as this Consumer sees it.
Give(g, e) ==
    LET r == IncreaseLayer(g.c, g.left, g.left, e) IN [c |-> r.c, left |-> g.left - r.used]

Distribute(c, e) ==
    LET given[n \in 0..(NumSpatial * NumTemporal)] ==
            IF n = 0 THEN [c |-> c, left |-> e.budget] ELSE Give(given[n - 1], e)
    IN  IF IsActive(c) THEN ApplyLayers(given[NumSpatial * NumTemporal].c, e) ELSE c

ChangeLayers(c, new, force, e) ==
    IF new = c.target THEN c
    ELSE IF ~c.managed THEN UpdateTargetLayers(c, new)
    ELSE IF new.s # c.target.s \/ force THEN Distribute(c, e) ELSE c

MayChangeLayers(c, force, e) == ChangeLayers(c, RecalculateTargetLayers(c, e), force, e)

-----------------------------------------------------------------------------
(* The payload handlers *)

\* Mutant: a spatial layer goes up at any packet of it.
ChangesSpatial_UpAnywhere(c, p) ==
    IF c.target.s < c.current.s /\ ~c.ksvc THEN p.s = c.target.s /\ p.e
    ELSE c.target.s # c.current.s /\ (p.key \/ p.s = c.target.s)

\* Spatial layers go up at a key frame, and down at the end of a frame of the target
\* (at a key frame with K-SVC).
ChangesSpatial(c, p) ==
    IF c.target.s < c.current.s /\ ~c.ksvc THEN p.s = c.target.s /\ p.e
    ELSE c.target.s # c.current.s /\ p.key

AfterSpatial(c, p) == IF ChangesSpatial(c, p) THEN [s |-> c.target.s, t |-> 0] ELSE c.current

\* Temporal layers go up where the stream says so, down at the end of a frame.
AfterTemporal(c, p, tmp, rises) ==
    IF c.target.t > c.current.t /\ p.t > c.current.t /\ rises THEN p.t
    ELSE IF c.target.t < c.current.t /\ p.t = c.target.t /\ p.e THEN c.target.t
    ELSE tmp.t

\* VP9: the layers after the packet, and whether it goes on.
ProcessVP9(c, p) ==
    LET tmp == AfterSpatial(c, p)
        t == IF p.old THEN tmp.t
             ELSE AfterTemporal(c, p, tmp, (c.current.t = -1 \/ p.u) /\ p.b)
    IN  [ok |-> \/ p.old
                \/ /\ p.s <= tmp.s /\ p.t <= t
                   /\ ~(c.ksvc /\ p.p /\ p.s # tmp.s),
         current |-> [s |-> tmp.s, t |-> t]]

\* H264-SVC, where no picture is known to be old.
ProcessH264SVC(c, p) ==
    LET tmp == AfterSpatial(c, p)
        t == AfterTemporal(c, p, tmp, p.b)
    IN  [ok |-> p.s <= tmp.s /\ p.t <= t, current |-> [s |-> tmp.s, t |-> t]]

ProcessPayload(c, p) == IF c.codec = "vp9" THEN ProcessVP9(c, p) ELSE ProcessH264SVC(c, p)

NoPacket == [s |-> -1, t |-> -1, key |-> FALSE, p |-> FALSE, old |-> FALSE]

SendRtpPacket(c, p) ==
    LET done == ProcessPayload(c, p)
        n == [c EXCEPT !.sync = FALSE]
    IN  IF ~IsActive(c) \/ -1 \in {c.target.s, c.target.t} \/ (c.sync /\ ~p.key) THEN c
        ELSE IF ~done.ok THEN n
        ELSE [n EXCEPT !.current = done.current,
                       !.sent = [s |-> p.s, t |-> p.t, key |-> p.key, p |-> p.p, old |-> p.old]]

-----------------------------------------------------------------------------
(* Events of the transport, of the Producer and of the application *)

UserOnPaused(c) == UpdateTargetLayers([c EXCEPT !.downgraded = FALSE], NoLayers)

UserOnResumed(c, e) ==
    LET n == [c EXCEPT !.sync = TRUE] IN IF IsActive(n) THEN MayChangeLayers(n, FALSE, e) ELSE n

Leave(c, n) == IF IsActive(c) THEN UserOnPaused(n) ELSE n
Enter(n, e) == IF IsActive(n) THEN UserOnResumed(n, e) ELSE n

SetPreferredLayers(c, new, e) ==
    LET n == [c EXCEPT !.preferred = new]
    IN  IF IsActive(n) /\ new # c.preferred THEN MayChangeLayers(n, TRUE, e) ELSE n

ProducerNewRtpStream(c, e) ==
    LET n == [c EXCEPT !.there = TRUE, !.alive = TRUE]
    IN  IF IsActive(n) THEN MayChangeLayers(n, FALSE, e) ELSE n

\* Of the scores only 0 and above are told apart: each change is a death or a rebirth.
ProducerRtpStreamScore(c, e) ==
    LET n == [c EXCEPT !.alive = ~@]
    IN  IF BaseIsActive(n) THEN MayChangeLayers(n, FALSE, e) ELSE n

-----------------------------------------------------------------------------
(* The Consumer's life *)

Created ==
    [codec |-> "vp9", ksvc |-> FALSE, managed |-> FALSE,
     connected |-> FALSE, paused |-> FALSE, producerPaused |-> FALSE,
     there |-> FALSE, alive |-> FALSE,
     preferred |-> [s |-> NumSpatial - 1, t |-> NumTemporal - 1],
     provisional |-> NoLayers, target |-> NoLayers, current |-> NoLayers,
     sync |-> FALSE, downgraded |-> FALSE, asked |-> FALSE, sent |-> NoPacket, events |-> 0]

Init ==
    \E k \in SvcKinds, paused \in BOOLEAN :
        svc = [Created EXCEPT !.codec = k.codec, !.ksvc = k.ksvc, !.managed = k.managed,
                              !.paused = paused]

Idle == [svc EXCEPT !.sent = NoPacket]
Again == [Idle EXCEPT !.events = @ + 1]

Connect == ~svc.connected /\ \E e \in Environments :
               svc' = UserOnResumed([Idle EXCEPT !.connected = TRUE], e)

Disconnect == svc.connected /\ svc' = UserOnPaused([Again EXCEPT !.connected = FALSE])

Pause == ~svc.paused /\ svc' = Leave(Again, [Again EXCEPT !.paused = TRUE])

Resume ==
    svc.paused /\ \E e \in Environments : svc' = Enter([Again EXCEPT !.paused = FALSE], e)

ProducerPaused ==
    ~svc.producerPaused /\ svc' = Leave(Again, [Again EXCEPT !.producerPaused = TRUE])

ProducerResumed ==
    /\ svc.producerPaused
    /\ \E e \in Environments : svc' = Enter([Again EXCEPT !.producerPaused = FALSE], e)

AskKeyFrame == IsActive(svc) /\ svc' = RequestKeyFrame(Again)

Prefer ==
    \E new \in [s : Spatial, t : Temporal], e \in Environments :
        svc' = SetPreferredLayers(Again, new, e)

NewStream == ~svc.there /\ \E e \in Environments : svc' = ProducerNewRtpStream(Idle, e)

Score == svc.there /\ \E e \in Environments : svc' = ProducerRtpStreamScore(Again, e)

Redistribute == svc.managed /\ \E e \in Environments : svc' = Distribute(Again, e)

DowngradeIsOld == svc.downgraded /\ svc' = [Idle EXCEPT !.downgraded = FALSE]

\* Fields that no one reads have one value.  What was asked for is answered by a key frame
\* that is new.
Packet(p) ==
    /\ svc.alive
    /\ p.old \/ p.u \/ p.p => svc.codec = "vp9"
    /\ p.p => svc.ksvc
    /\ svc' = SendRtpPacket([Idle EXCEPT !.asked = @ /\ ~(p.key /\ ~p.old)], p)

Next ==
    \/ Connect \/ NewStream \/ DowngradeIsOld
    \/ \E p \in Packets : Packet(p)
    \/ /\ svc.events < SvcEvents
       /\ \/ Disconnect \/ Pause \/ Resume \/ ProducerPaused \/ ProducerResumed
          \/ AskKeyFrame \/ Prefer \/ Score \/ Redistribute

-----------------------------------------------------------------------------
(* Properties *)

\* A new picture's packets that go out are of the current layers or below, with K-SVC of
\* the current spatial layer unless they belong to a key frame; no packet goes out
\* towards a target of -1; the transport's game leaves no provisional layers.
\* (VP9.cpp and H264_SVC.cpp Process(), SvcConsumer::ApplyLayers().)
SendsWhatItDecodes ==
    /\ svc.provisional = NoLayers
    /\ (svc.sent # NoPacket /\ ~svc.sent.old) =>
        /\ svc.sent.s <= svc.current.s /\ svc.sent.t <= svc.current.t
        /\ svc.ksvc /\ svc.codec = "vp9" /\ svc.sent.p => svc.sent.s = svc.current.s

\* An active Consumer that waits for a key frame of a living stream, to start or to
\* change its spatial layer, has one coming.  (Not where the transport manages the
\* bitrate: see SimulcastConsumer.)  (UpdateTargetLayers(), SendRtpPacket().)
KeyFrameIsComing ==
    (/\ IsActive(svc) /\ ~svc.managed /\ svc.target.s # -1
     /\ svc.sync \/ svc.target.s > svc.current.s \/ (svc.ksvc /\ svc.target.s # svc.current.s))
    => svc.asked

\* The current spatial layer rises only with a key frame that goes out, and falls only with
\* one with K-SVC or with a packet of the new layer otherwise.
\* (VP9.cpp and H264_SVC.cpp Process().)
LayerRisesAtKeyFrame ==
    LET was == svc.current  is == svc'.current
    IN  is.s # was.s /\ is.s # -1 =>
            svc'.sent.key \/ (~svc.ksvc /\ is.s < was.s /\ svc'.sent.s = is.s)

=============================================================================
