--------------------------- MODULE BitrateControl ---------------------------
(***************************************************************************)
(* How a Transport shares its outgoing bitrate: the congestion control     *)
(* client that asks libwebrtc's controller for an estimate, the layer game *)
(* of DistributeAvailableOutgoingBitrate(), and the trend that smooths     *)
(* what the Consumers desire.  The state is the record `bwe'.              *)
(*                                                                         *)
(* A Consumer is a ladder of layers, each with the bitrate it adds (how    *)
(* one climbs it is in SimulcastConsumer and SvcConsumer), or a video      *)
(* SimpleConsumer, which takes what it can once per game.                  *)
(***************************************************************************)
EXTENDS Integers, Sequences, FiniteSets, FiniteSetsExt, SequencesExt

CONSTANTS
    ByPriority,         \* the Consumers, highest priority first
    Priority,           \* the priority of each
    Ladder,             \* the bitrates of each one's layers
    IsSimple,           \* the ones that are SimpleConsumers
    Remb,               \* bweType is REMB: the game considers loss
    Loss,               \* the loss of each one's stream, in percent
    InitialBitrate,
    MinOutgoingBitrate, \* TransportCongestionControlMinOutgoingBitrate
    TargetRates,        \* what libwebrtc may estimate
    Limits,             \* what setMaxOutgoingBitrate() and setMin...() may be given
    DecreasePercent,    \* DecreaseFactor per tick of the clock
    MaxAge,             \* the ticks the trend counts: DecreasePercent * MaxAge >= 100
    BweEvents           \* requests, changes of Consumers and the like (bound)

VARIABLE bwe

Members == Range(ByPriority)

-----------------------------------------------------------------------------
(* The layer game *)

\* What a Consumer may count on: with REMB, a little more when it loses nothing, less
\* when it loses much.
VirtualBitrate(c, bitrate) ==
    IF ~Remb THEN bitrate
    ELSE IF Loss[c] < 2 THEN (108 * bitrate) \div 100
    ELSE IF Loss[c] > 10 THEN ((200 - Loss[c]) * bitrate) \div 200
    ELSE bitrate

\* IncreaseLayer() of a Consumer at layer n: the layer it moves to and what it uses.
IncreaseLayer(c, n, bitrate) ==
    LET next == Ladder[c][n + 1]
        take(used) == [layer |-> n + 1, used |-> used]
    IN  IF n = Len(Ladder[c]) THEN [layer |-> n, used |-> 0]
        ELSE IF c \in IsSimple THEN take(Min({next, bitrate}))
        ELSE IF next > VirtualBitrate(c, bitrate) THEN [layer |-> n, used |-> 0]
        ELSE take(Min({next, bitrate}))

\* One Consumer's turn: up to `times' layers, until one uses nothing.
Turn(c, g, times) ==
    LET step[i \in 0..times] ==
            IF i = 0 THEN [g EXCEPT !.go = TRUE]
            ELSE LET h == step[i - 1]
                     r == IncreaseLayer(c, h.layer[c], h.left)
                 IN  IF ~h.go THEN h
                     ELSE [h EXCEPT !.layer[c] = r.layer, !.left = @ - r.used, !.go = r.used > 0,
                                    !.fault = @ \/ r.used > h.left]
    IN  step[times]

\* Every active Consumer in turn: one layer in the first round, then by priority.
Round(g, base, active) ==
    LET after[i \in 0..Len(ByPriority)] ==
            IF i = 0 THEN g
            ELSE LET c == ByPriority[i]
                 IN  IF c \in active THEN Turn(c, after[i - 1], IF base THEN 1 ELSE Priority[c])
                     ELSE after[i - 1]
    IN  after[Len(ByPriority)]

\* The rounds until the bitrate is used up or a round uses nothing, for every estimate and
\* every set of active Consumers.
Distribution ==
    [available \in {0} \cup TargetRates \cup Limits, active \in SUBSET Members |->
        LET rounds == 1 + FoldLeft(LAMBDA n, c : n + Len(Ladder[c]), 0, ByPriority)
            round[n \in 0..rounds] ==
                IF n = 0 THEN [layer |-> [c \in Members |-> 0], left |-> available, go |-> TRUE,
                               fault |-> FALSE, over |-> FALSE]
                ELSE LET g == round[n - 1]
                         h == Round(g, n = 1, active)
                     IN  IF g.left = 0 \/ g.over THEN g ELSE [h EXCEPT !.over = h.left = g.left]
        IN  round[rounds]]

\* Nobody wants bitrate: nothing is done.  Otherwise the next event is put off, and
\* everyone applies the layers it has reached.
DistributeAvailableOutgoingBitrate(b) ==
    LET d == Distribution[b.available, b.active]
    IN  IF b.active = {} THEN b
        ELSE [b EXCEPT !.alloc = [c \in Members |-> IF c \in b.active THEN d.layer[c] ELSE @[c]],
                       !.last = "recent", !.fault = @ \/ d.fault,
                       !.game = [available |-> b.available, active |-> b.active,
                                 layer |-> d.layer, left |-> d.left]]

-----------------------------------------------------------------------------
(* The trend of the desired bitrate *)

ForceUpdate(value) == [value |-> value, highest |-> value, age |-> 0]

\* It rises at once, and falls by a share of its highest value as time goes by.
Update(t, value) ==
    LET subtraction == (t.highest * DecreasePercent * t.age) \div 100
        lower == IF t.highest > subtraction THEN t.highest - subtraction ELSE value
    IN  IF t.value = 0 \/ value >= t.value THEN ForceUpdate(value)
        ELSE [t EXCEPT !.value = Max({value, lower})]

-----------------------------------------------------------------------------
(* The congestion control client *)

\* The limits libwebrtc is given follow the trend, unless they are near the old ones.
ApplyBitrateUpdates(b) ==
    LET wanted == Max({InitialBitrate, (135 * b.trend.value) \div 100})
        near == 10 * b.maxBitrate > 9 * wanted /\ 10 * b.maxBitrate < 11 * wanted
        new == IF b.trend.value = 0 THEN InitialBitrate
               ELSE IF near THEN b.maxBitrate ELSE wanted
        max == IF b.maxOutgoing > 0 THEN Min({b.maxOutgoing, new}) ELSE new
    IN  [b EXCEPT !.maxBitrate = max,
                  !.maxPadding = IF max # b.maxBitrate THEN (85 * max) \div 100 ELSE @,
                  !.minBitrate = Max({b.minOutgoing, MinOutgoingBitrate})]

SetDesiredBitrate(b, desired, force) ==
    ApplyBitrateUpdates(
        [b EXCEPT !.trend = IF force THEN ForceUpdate(desired) ELSE Update(@, desired),
                  !.desired = desired])

DesiredBitrate(c) == FoldLeft(LAMBDA x, y : x + y, 0, Ladder[c])

ComputeOutgoingDesiredBitrate(b, force) ==
    SetDesiredBitrate(b, FoldSet(LAMBDA c, sum : sum + DesiredBitrate(c), 0, b.active), force)

\* The Transport's listener.
OnBitrates(b) == ComputeOutgoingDesiredBitrate(DistributeAvailableOutgoingBitrate(b), FALSE)

\* Mutant: only an estimate that moves much is told of, however long the last one was
\* ago.
MayEmitAvailableBitrateEvent_OnlyMuch(b, previous) ==
    IF b.last = "never" THEN [b EXCEPT !.last = "recent"]
    ELSE IF ~b.called \/ 4 * b.available < 3 * previous \/ 2 * b.available > 3 * previous
    THEN OnBitrates([b EXCEPT !.called = TRUE, !.last = "recent"])
    ELSE b

\* The first event is ignored; later ones are told when a second has gone by, or when the
\* estimate moves much.
MayEmitAvailableBitrateEvent(b, previous) ==
    IF b.last = "never" THEN [b EXCEPT !.last = "recent"]
    ELSE IF \/ ~b.called
            \/ b.last = "old"
            \/ 4 * b.available < 3 * previous
            \/ 2 * b.available > 3 * previous
    THEN OnBitrates([b EXCEPT !.called = TRUE, !.last = "recent"])
    ELSE b

\* An estimate equal to the initial one is taken for libwebrtc's periodic noise.
OnTargetTransferRate(b, rate) ==
    IF b.called /\ rate = InitialBitrate THEN b
    ELSE MayEmitAvailableBitrateEvent([b EXCEPT !.available = rate], b.available)

TransportConnected(b) == [b EXCEPT !.controller = TRUE, !.network = TRUE]

TransportDisconnected(b) ==
    [b EXCEPT !.desired = 0, !.trend = ForceUpdate(0), !.network = FALSE,
              !.fault = @ \/ ~b.controller]

\* Mutant: the estimate stays above the new limit until libwebrtc makes a new one.
SetMaxOutgoingBitrate_KeepAvailable(b, max) == ApplyBitrateUpdates([b EXCEPT !.maxOutgoing = max])

SetMaxOutgoingBitrate(b, max) ==
    LET n == ApplyBitrateUpdates([b EXCEPT !.maxOutgoing = max])
    IN  IF max > 0 THEN [n EXCEPT !.available = Min({max, @})] ELSE n

SetMinOutgoingBitrate(b, min) == ApplyBitrateUpdates([b EXCEPT !.minOutgoing = min])

-----------------------------------------------------------------------------
(* The Transport *)

Init ==
    bwe = [active |-> {}, alloc |-> [c \in Members |-> 0],
           controller |-> FALSE, network |-> FALSE,
           available |-> 0, called |-> FALSE, last |-> "never",
           desired |-> 0, trend |-> [value |-> 0, highest |-> 0, age |-> 0],
           maxBitrate |-> 0, minBitrate |-> 0, maxPadding |-> 0,
           maxOutgoing |-> 0, minOutgoing |-> 0,
           game |-> [available |-> 0, active |-> {}, layer |-> [c \in Members |-> 0], left |-> 0],
           fault |-> FALSE, events |-> 0]

Again == [bwe EXCEPT !.events = @ + 1]

Connect == ~bwe.network /\ bwe' = TransportConnected(Again)

\* The Consumers are told first, and none stays active.
Disconnect ==
    /\ bwe.network
    /\ bwe' = TransportDisconnected([Again EXCEPT !.active = {}, !.alloc = [c \in Members |-> 0]])

\* OnConsumerNeedBitrateChange().
NeedBitrateChange(b) == OnBitrates(b)

\* A Consumer becomes active: resumed, or its stream comes to life.  A SimpleConsumer asks
\* nobody.
Activate(c) ==
    /\ bwe.network /\ c \notin bwe.active
    /\ LET b == [Again EXCEPT !.active = @ \cup {c}]
       IN  bwe' = IF c \in IsSimple THEN b ELSE NeedBitrateChange(b)

\* OnConsumerNeedZeroBitrate(): one is paused.
NeedZeroBitrate(c) ==
    /\ c \in bwe.active
    /\ bwe' = ComputeOutgoingDesiredBitrate(
                  DistributeAvailableOutgoingBitrate(
                      [Again EXCEPT !.active = @ \ {c}, !.alloc[c] = 0]), TRUE)

\* Its stream dies: one that had layers has the bitrate shared anew, and keeps them.
StreamDies(c) ==
    /\ c \in bwe.active
    /\ LET b == [Again EXCEPT !.active = @ \ {c}]
       IN  bwe' = IF c \in IsSimple \/ bwe.alloc[c] = 0 THEN b ELSE NeedBitrateChange(b)

\* TRANSPORT_CLOSE_CONSUMER: nothing is shared anew.
CloseConsumer(c) ==
    /\ c \in bwe.active
    /\ bwe' = ComputeOutgoingDesiredBitrate(
                  [Again EXCEPT !.active = @ \ {c}, !.alloc[c] = 0], TRUE)

SetMax(limit) ==
    /\ limit > 0 => limit >= MinOutgoingBitrate /\ limit >= bwe.minOutgoing
    /\ bwe' = ComputeOutgoingDesiredBitrate(SetMaxOutgoingBitrate(Again, limit), FALSE)

SetMin(limit) ==
    /\ limit > 0 => limit >= MinOutgoingBitrate
    /\ limit > 0 /\ bwe.maxOutgoing > 0 => limit <= bwe.maxOutgoing
    /\ bwe' = ComputeOutgoingDesiredBitrate(SetMinOutgoingBitrate(Again, limit), FALSE)

\* libwebrtc keeps its estimate within the limits it was given.
TargetRate(rate) ==
    /\ bwe.network
    /\ bwe.maxOutgoing > 0 => rate <= bwe.maxOutgoing
    /\ bwe' = OnTargetTransferRate(Again, rate)

\* The process timer runs from the first connection on.
OnTimer == bwe.controller /\ bwe' = MayEmitAvailableBitrateEvent(bwe, bwe.available)

\* AvailableBitrateEventInterval goes by.  Beyond MaxAge the trend has nothing left to lose.
Tick ==
    bwe' = [bwe EXCEPT !.trend.age = Min({@ + 1, MaxAge}),
                       !.last = IF @ = "recent" THEN "old" ELSE @]

Next ==
    \/ OnTimer \/ Tick
    \/ /\ bwe.events < BweEvents
       /\ \/ Connect \/ Disconnect
          \/ \E c \in Members : Activate(c) \/ NeedZeroBitrate(c) \/ StreamDies(c)
                                \/ CloseConsumer(c)
          \/ \E l \in Limits : SetMax(l) \/ SetMin(l)
          \/ \E r \in TargetRates : TargetRate(r)

\* The timer runs and has something to do: ENABLED <<OnTimer>>_bwe.
TimerActs == bwe.controller /\ MayEmitAvailableBitrateEvent(bwe, bwe.available) # bwe

-----------------------------------------------------------------------------
(* Properties *)

\* What one Consumer more could take is not left lying: after a game (the ghost `game'
\* keeps the last one) no active one can climb with the rest.  No Consumer uses more than
\* it is given (MS_ASSERT at Transport.cpp:2496), and the controller exists when the
\* Transport disconnects.
GameIsExhaustive ==
    /\ ~bwe.fault
    /\ bwe.game.left = 0
       \/ \A c \in bwe.game.active : IncreaseLayer(c, bwe.game.layer[c], bwe.game.left).used = 0

\* The estimate and the limits handed to libwebrtc respect setMaxOutgoingBitrate().
WithinMax ==
    bwe.maxOutgoing > 0 => /\ bwe.available <= bwe.maxOutgoing
                           /\ bwe.maxBitrate <= bwe.maxOutgoing \/ bwe.maxBitrate = 0

\* Once changes stop, every active Consumer has the layers the game gives for the
\* current estimate, whatever happened before (a Consumer closed, a limit lowered).
SharesSettle ==
    <>[](bwe.active # {} => /\ bwe.game.available = bwe.available
                            /\ bwe.game.active = bwe.active
                            /\ \A c \in bwe.active : bwe.alloc[c] = bwe.game.layer[c])

\* When nobody is active the desired bitrate falls to 0, so that probation stops
\* ("This may be the latest active Consumer with BWE. If so we have to stop probation",
\* Transport.cpp:2881): at once when paused or closed, and with the trend otherwise.
ProbationStops ==
    <>[](bwe.active = {} => bwe.trend.value = 0)

=============================================================================
