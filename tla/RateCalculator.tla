--------------------------- MODULE RateCalculator ---------------------------
(***************************************************************************)
(* RateCalculator: the bytes of the last windowSizeMs, in a ring of        *)
(* windowItems items of itemSizeMs each; and TransmissionCounter, one      *)
(* counter per spatial and temporal layer.                                 *)
(*                                                                         *)
(* updates is a ghost: every size counted, with its time.                  *)
(***************************************************************************)
EXTENDS Integers, Sequences, FiniteSetsExt

CONSTANTS
    windowSizeMs,
    windowItems,
    Layers,        \* the numbers of spatial and of temporal layers
    RateSizes,
    Gaps,          \* how far time goes between two calls
    StartMs,       \* the time of the first call
    RateEvents

VARIABLE rate

itemSizeMs == IF windowSizeMs \div windowItems > 1 THEN windowSizeMs \div windowItems ELSE 1

Empty == [i \in 0..(windowItems - 1) |-> [count |-> 0, time |-> 0]]

NewCalculator ==
    [buffer |-> Empty, newest |-> -1, newestTime |-> 0, oldest |-> -1, oldestTime |-> 0,
     total |-> 0, lastRate |-> 0, lastTime |-> 0, fault |-> FALSE]

Indices == (0..(Layers[1] - 1)) \X (0..(Layers[2] - 1))

RateInit ==
    rate = [of |-> [l \in Indices |-> NewCalculator], now |-> StartMs,
            updates |-> <<>>, read |-> 0, events |-> 0]

Next1(i) == IF i + 1 >= windowItems THEN 0 ELSE i + 1

Reset(c) == [NewCalculator EXCEPT !.fault = c.fault]

\* The loop of RemoveOldData(), which ends at the newest item at the latest.
DropItems(c, limit) ==
    LET Dropped(d) ==
            [d EXCEPT !.total = @ - d.buffer[d.oldest].count,
                      !.buffer[d.oldest] = [count |-> 0, time |-> 0],
                      !.oldest = Next1(@),
                      !.oldestTime = d.buffer[Next1(d.oldest)].time]
        after[n \in 0..windowItems] ==
            IF n = 0 THEN c
            ELSE LET d == after[n - 1] IN IF limit >= d.oldestTime THEN Dropped(d) ELSE d
    IN  after[windowItems]

RemoveOldData(c, now) ==
    LET limit == now - windowSizeMs IN
    IF c.newest < 0 \/ c.oldest < 0 \/ limit < c.oldestTime THEN c
    ELSE IF limit >= c.newestTime THEN Reset(c)
    ELSE DropItems(c, limit)

Update(c, size, now) ==
    LET d     == RemoveOldData(c, now)
        opens == d.newest < 0 \/ now - d.newestTime >= itemSizeMs
        index == IF opens THEN Next1(d.newest) ELSE d.newest
    IN  IF now < c.oldestTime THEN c
        ELSE [d EXCEPT
                 !.newest = index,
                 !.newestTime = IF opens THEN now ELSE @,
                 !.fault = @ \/ (opens /\ index = d.oldest),
                 !.buffer[index] = IF opens THEN [count |-> size, time |-> now]
                                   ELSE [@ EXCEPT !.count = @ + size],
                 !.oldest = IF @ < 0 THEN index ELSE @,
                 !.oldestTime = IF d.oldest < 0 THEN now ELSE @,
                 !.total = @ + size, !.lastRate = 0, !.lastTime = 0]

\* The rate is the total of the window, up to the scale.
GetRate(c, now) ==
    IF now = c.lastTime THEN c
    ELSE LET d == RemoveOldData(c, now) IN [d EXCEPT !.lastTime = now, !.lastRate = d.total]

\* TransmissionCounter: layers beyond the known ones count as the highest.
UpdateLayer(b, spatial, temporal, size) ==
    LET s == IF spatial > Layers[1] - 1 THEN Layers[1] - 1 ELSE spatial
        t == IF temporal > Layers[2] - 1 THEN Layers[2] - 1 ELSE temporal
    IN  [b EXCEPT !.of[<<s, t>>] = Update(@, size, b.now),
                  !.updates = Append(@, [layer |-> <<s, t>>, size |-> size, time |-> b.now])]

Read(b) == [b EXCEPT !.of = [l \in Indices |-> GetRate(b.of[l], b.now)]]

Rates(b, layers) == MapThenSumSet(LAMBDA l : b.of[l].lastRate, layers)

\* What decoding up to a layer takes: nothing if the layer itself is not received.
GetBitrate(b, s, t) ==
    IF b.of[<<s, t>>].lastRate = 0 THEN 0
    ELSE Rates(b, {l \in Indices : l[1] < s \/ (l[1] = s /\ l[2] <= t)})

Happens == rate.events < RateEvents

Elapsed(b, gap) == [b EXCEPT !.now = @ + gap, !.events = @ + 1]

Count ==
    /\ Happens
    /\ \E gap \in Gaps, s \in 0..Layers[1], t \in 0..Layers[2], size \in RateSizes :
        /\ s = Layers[1] => t = Layers[2]
        /\ t = Layers[2] => s = Layers[1]
        /\ rate' = [UpdateLayer(Elapsed(rate, gap), s, t, size) EXCEPT !.read = 0]

Ask ==
    /\ Happens
    /\ \E gap \in Gaps :
        LET b == Read(Elapsed(rate, gap)) IN rate' = [b EXCEPT !.read = b.now]

RateNext == Count \/ Ask

RateSpec == RateInit /\ [][RateNext]_rate

-----------------------------------------------------------------------------

Counted(layer, from) ==
    MapThenSumSet(LAMBDA i : rate.updates[i].size,
                  {i \in DOMAIN rate.updates :
                      rate.updates[i].layer = layer /\ rate.updates[i].time > from})

\* The ring never overruns itself, and a rate just read is that of a sliding window:
\* it counts every byte of the last windowSizeMs but those of an item that began
\* before, and none that is older than the window.  A layer that is received takes no
\* less than the layers below it, as the consumers that climb them rely on.
RateIsExact ==
    /\ \A l \in Indices : ~rate.of[l].fault
    /\ rate.read = rate.now =>
        /\ \A l \in Indices :
            /\ rate.of[l].lastRate <= Counted(l, rate.now - windowSizeMs)
            /\ rate.of[l].lastRate >= Counted(l, rate.now - windowSizeMs + itemSizeMs - 1)
        /\ \A k, l \in Indices :
            (k[1] < l[1] \/ (k[1] = l[1] /\ k[2] <= l[2])) /\ GetBitrate(rate, l[1], l[2]) # 0
                => GetBitrate(rate, k[1], k[2]) <= GetBitrate(rate, l[1], l[2])
=============================================================================
