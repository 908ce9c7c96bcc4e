---------------------------- MODULE TransportRtcp ---------------------------
(***************************************************************************)
(* The periodic RTCP of a transport: the reports of its consumers and      *)
(* producers are gathered in compound packets of a limited size, and the   *)
(* answers to them measure the round trip times.  The state is the record  *)
(* `rtcp'.                                                                 *)
(*                                                                         *)
(* Times are in milliseconds; reports carry them in NTP ticks, of which    *)
(* Ticks make MsPerSec milliseconds, modulo NtpMod.                        *)
(***************************************************************************)
EXTENDS Integers, Sequences, SequencesExt, FiniteSets

CONSTANTS
    Senders,        \* the consumers, as a sequence of sets of streams
    Receivers,      \* the producers, likewise
    Pipes,          \* the positions in Senders of pipe consumers
    MaxRtcpInterval,
    SrSize, RrSize, XrSize, MaxSize,    \* of reports (with their chunks), of a packet
    MsPerSec, Ticks, NtpMod,
    Elapses,        \* how much time may pass at once
    StartMs, RtcpEvents

VARIABLE rtcp

Ntp(ms) == ((ms * Ticks) \div MsPerSec) % NtpMod
Delay(ms) == (ms \div MsPerSec) * Ticks + ((ms % MsPerSec) * Ticks) \div MsPerSec

SendStreams == UNION {Senders[i] : i \in DOMAIN Senders}
RecvStreams == UNION {Receivers[i] : i \in DOMAIN Receivers}

Never == [sent |-> 0, at |-> 0]

\* The ghosts of a sending stream: the reports the remote side received of it (`seen'),
\* and the true time of its last round trip.
Init ==
    rtcp = [now |-> StartMs,
            sendLast |-> [i \in DOMAIN Senders |-> 0],
            recvLast |-> [i \in DOMAIN Receivers |-> 0],
            out |-> [s \in SendStreams |->
                        [packets |-> 0, rr |-> FALSE, seen |-> Never, rtt |-> 0, true |-> 0]],
            in |-> [s \in RecvStreams |->
                        [expected |-> 0, received |-> 0, expectedPrior |-> 0, receivedPrior |-> 0,
                         lost |-> 0, reported |-> 0, told |-> 0, again |-> FALSE]],
            rtt |-> 0, true |-> 0, seen |-> Never,
            air |-> {}, sent |-> <<>>, due |-> {}, events |-> 0]

Begin == [rtcp EXCEPT !.events = @ + 1, !.sent = <<>>, !.due = {}]

-----------------------------------------------------------------------------
(* Compound packets *)

NewPacket == [sr |-> <<>>, rr |-> <<>>, dlrr |-> 0, rrt |-> FALSE]

Size(k) ==
    Len(k.sr) * SrSize + Len(k.rr) * RrSize + (k.dlrr + IF k.rrt THEN 1 ELSE 0) * XrSize

HasReport(k) == k.sr # <<>> \/ k.rr # <<>>

\* What does not fit is taken out again.
Add(k, items) ==
    LET all == [sr |-> k.sr \o items.sr, rr |-> k.rr \o items.rr, dlrr |-> k.dlrr + items.dlrr,
                rrt |-> k.rrt \/ items.rrt]
    IN  IF Size(all) <= MaxSize THEN [ok |-> TRUE, k |-> all] ELSE [ok |-> FALSE, k |-> k]

-----------------------------------------------------------------------------
(* What the streams report *)

Passed(b, last) == 23 * (b.now - last) >= 20 * MaxRtcpInterval

\* What the streams of a consumer that sent something report.
SenderItems(b, i) ==
    LET active == {s \in Senders[i] : b.out[s].packets > 0}
    IN  [NewPacket EXCEPT !.sr = SetToSeq(active),
                          !.dlrr = Cardinality({s \in active : b.out[s].rr})]

AddSender(b, k, i) ==
    LET added == Add(k, SenderItems(b, i))
    IN  [ok |-> added.ok, k |-> added.k,
         b |-> IF added.ok THEN [b EXCEPT !.sendLast[i] = b.now] ELSE b]

\* GetRtcp() of a consumer with one stream, and of a pipe consumer.
SenderRtcp(b, k, i) ==
    IF ~Passed(b, b.sendLast[i]) \/ SenderItems(b, i).sr = <<>>
    THEN [ok |-> TRUE, b |-> b, k |-> k] ELSE AddSender(b, k, i)

PipeRtcp(b, k, i) ==
    IF b.now # b.sendLast[i] /\ ~Passed(b, b.sendLast[i])
    THEN [ok |-> TRUE, b |-> b, k |-> k] ELSE AddSender(b, k, i)

\* RtpStreamRecv::GetRtcpReceiverReport(): the lost packets of all time and those of the
\* interval since the last report, which this one ends.
ReceiverReport(r) ==
    LET lost == IF r.expected > r.received THEN r.expected - r.received ELSE 0
        interval == (r.expected - r.expectedPrior) - (r.received - r.receivedPrior)
    IN  [total |-> r.reported + (lost - r.lost),
         interval |-> IF interval > 0 THEN interval ELSE 0,
         r |-> [r EXCEPT !.expectedPrior = r.expected, !.receivedPrior = r.received,
                         !.lost = lost, !.reported = @ + (lost - r.lost)]]

\* Producer::GetRtcp(): the report of each stream, and a reference time once in a packet.
ReceiverRtcp(b, k, i) ==
    LET report == [s \in Receivers[i] |-> ReceiverReport(b.in[s])]
        items == [NewPacket EXCEPT
                    !.rr = [n \in 1..Cardinality(Receivers[i]) |->
                                LET s == SetToSeq(Receivers[i])[n]
                                IN  [stream |-> s, total |-> report[s].total,
                                     interval |-> report[s].interval]],
                    !.rrt = ~k.rrt]
        added == Add(k, items)
        c == [b EXCEPT !.in = [s \in RecvStreams |->
                                  IF s \in Receivers[i] THEN report[s].r ELSE @[s]]]
    IN  IF ~Passed(b, b.recvLast[i]) THEN [ok |-> TRUE, b |-> b, k |-> k]
        ELSE [ok |-> added.ok, k |-> added.k,
              b |-> IF added.ok THEN [c EXCEPT !.recvLast[i] = b.now] ELSE c]

GetRtcp(b, k, i) ==
    IF i > Len(Senders) THEN ReceiverRtcp(b, k, i - Len(Senders))
    ELSE IF i \in Pipes THEN PipeRtcp(b, k, i) ELSE SenderRtcp(b, k, i)

-----------------------------------------------------------------------------
(* SendRtcp() *)

\* (ghost)
Twice(b, i) ==
    [b EXCEPT !.in = [s \in RecvStreams |->
        [@[s] EXCEPT !.again = @ \/ (i > Len(Senders) /\ s \in Receivers[i - Len(Senders)])]]]

\* Mutant: a report that does not fit is left for the next time.
Gather_NotAgain(acc, i) ==
    LET first == GetRtcp(acc.b, acc.k, i)
    IN  IF first.ok THEN [acc EXCEPT !.b = first.b, !.k = first.k]
        ELSE [sent |-> Append(acc.sent, acc.k), b |-> first.b, k |-> NewPacket]

\* When a report does not fit the packet is sent, and the report is asked for again.
Gather(acc, i) ==
    LET first == GetRtcp(acc.b, acc.k, i)
        again == GetRtcp(first.b, NewPacket, i)
    IN  IF first.ok THEN [acc EXCEPT !.b = first.b, !.k = first.k]
        ELSE [sent |-> Append(acc.sent, acc.k), b |-> Twice(again.b, i), k |-> again.k]

SendRtcp(b) ==
    LET n == Len(Senders) + Len(Receivers)
        after[i \in 0..n] ==
            IF i = 0 THEN [sent |-> <<>>, b |-> b, k |-> NewPacket] ELSE Gather(after[i - 1], i)
        last == after[n]
    IN  [last.b EXCEPT !.sent = IF HasReport(last.k) THEN Append(last.sent, last.k) ELSE last.sent]

\* What the remote side is told of, when it gets the packets (or does not); the intervals
\* it is told of add up.
Departs(b) ==
    LET reports == FlattenSeq([i \in DOMAIN b.sent |-> b.sent[i].rr])
        ofStream(s) == SelectSeq(reports, LAMBDA r : r.stream = s)
        streams == UNION {ToSet(b.sent[i].sr) : i \in DOMAIN b.sent}
        rrt == \E i \in DOMAIN b.sent : b.sent[i].rrt
    IN  [b EXCEPT !.air = {[stream |-> s, sent |-> b.now] : s \in streams}
                              \cup (IF rrt THEN {[stream |-> "rrt", sent |-> b.now]} ELSE {}),
                  !.in = [s \in RecvStreams |->
                            [@[s] EXCEPT !.told =
                                IF ofStream(s) = <<>> THEN @ ELSE @ + Last(ofStream(s)).interval]],
                  !.due = {i \in DOMAIN Senders :
                               /\ Passed(rtcp, rtcp.sendLast[i])
                               /\ \E s \in Senders[i] : rtcp.out[s].packets > 0}
                          \cup {Len(Senders) + i : i \in {j \in DOMAIN Receivers :
                                                              Passed(rtcp, rtcp.recvLast[j])}}]

OnTimer == rtcp' = Departs(SendRtcp(Begin))

-----------------------------------------------------------------------------
(* What happens between two reports *)

Elapse == \E ms \in Elapses : rtcp' = [Begin EXCEPT !.now = @ + ms]

PacketSent == \E s \in SendStreams : rtcp' = [Begin EXCEPT !.out[s].packets = 1]

PacketReceived ==
    \E s \in RecvStreams, lost \in {0, 1} :
        rtcp' = [Begin EXCEPT !.in[s].expected = @ + 1 + lost, !.in[s].received = @ + 1]

\* A report reaches the remote side, after a while or never.
RemoteReceives ==
    \E m \in rtcp.air :
        LET seen == [sent |-> m.sent, at |-> rtcp.now]
            b == [Begin EXCEPT !.air = @ \ {m}]
        IN  rtcp' = IF m.stream = "rrt" THEN [b EXCEPT !.seen = seen]
                    ELSE [b EXCEPT !.out[m.stream].seen = seen]

\* The round trip, from the time the remote side received and the time it held it.
Rtt(now, last, delay) ==
    IF last # 0 /\ delay # 0 /\ Ntp(now) > (delay + last) % NtpMod
    THEN (Ntp(now) - delay - last) % NtpMod ELSE 0

\* A receiver report is handled by the consumer of its stream.
ReceiveRtcpReceiverReport ==
    \E s \in SendStreams :
        LET seen == rtcp.out[s].seen
            held == rtcp.now - seen.at
        IN  /\ seen # Never
            /\ rtcp' = [Begin EXCEPT !.out[s].rtt = Rtt(rtcp.now, Ntp(seen.sent), Delay(held)),
                                     !.out[s].true = rtcp.now - seen.sent - held]

\* So does the answer to a reference time, for the streams of the producers.
ReceiveRtcpXrDelaySinceLastRr ==
    LET held == rtcp.now - rtcp.seen.at
    IN  /\ rtcp.seen # Never
        /\ rtcp' = [Begin EXCEPT !.rtt = Rtt(rtcp.now, Ntp(rtcp.seen.sent), Delay(held)),
                                 !.true = rtcp.now - rtcp.seen.sent - held]

\* The remote side's own reference time is for every consumer.
ReceiveRtcpXrReceiverReferenceTime ==
    rtcp' = [Begin EXCEPT !.out = [s \in SendStreams |-> [@[s] EXCEPT !.rr = TRUE]]]

Next ==
    /\ rtcp.events < RtcpEvents
    /\ \/ OnTimer
       \/ Elapse
       \/ PacketSent
       \/ PacketReceived
       \/ RemoteReceives
       \/ ReceiveRtcpReceiverReport
       \/ ReceiveRtcpXrDelaySinceLastRr
       \/ ReceiveRtcpXrReceiverReferenceTime

Spec == Init /\ [][Next]_rtcp

-----------------------------------------------------------------------------
(* Properties *)

\* When the timer fires each consumer that sent something and each producer whose turn it
\* is reports in exactly one packet, each packet holds a report and keeps to the size.
EveryoneReports ==
    /\ \A i \in DOMAIN rtcp.sent : HasReport(rtcp.sent[i]) /\ Size(rtcp.sent[i]) <= MaxSize
    /\ \A i \in rtcp.due :
        LET streams == IF i <= Len(Senders) THEN {s \in Senders[i] : rtcp.out[s].packets > 0}
                       ELSE Receivers[i - Len(Senders)]
            In(k) == IF i <= Len(Senders) THEN k.sr
                     ELSE [n \in DOMAIN k.rr |-> k.rr[n].stream]
            all == FlattenSeq([j \in DOMAIN rtcp.sent |-> In(rtcp.sent[j])])
        IN  \A s \in streams : Cardinality({n \in DOMAIN all : all[n] = s}) = 1

\* A report tells how many packets were lost in all; and the losses of the intervals it
\* told of so far add up to them, unless a report was asked for twice because a packet
\* was full: the second one's interval is empty.
LossIsTold ==
    \A i \in DOMAIN rtcp.sent : \A n \in DOMAIN rtcp.sent[i].rr :
        LET r == rtcp.sent[i].rr[n]
            in == rtcp.in[r.stream]
        IN  /\ r.total = in.expected - in.received
            /\ ~in.again => in.told = in.expected - in.received

\* A round trip time is the true one to the tick, or unknown (0), also when the clock of
\* the reports wraps.
RttIsSound ==
    LET Sound(rtt, true) == rtt = 0 \/ rtt \in (Delay(true) - 1)..(Delay(true) + 2)
    IN  Sound(rtcp.rtt, rtcp.true) /\ \A s \in SendStreams : Sound(rtcp.out[s].rtt, rtcp.out[s].true)
=============================================================================
