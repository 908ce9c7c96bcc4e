------------------------------ MODULE Producer ------------------------------
(***************************************************************************)
(* How a Transport's RTP reaches a Producer and its streams: the tables of *)
(* the RtpListener, the lookup that creates a Producer's streams from the  *)
(* packets that come, what the Consumers are told and the key frames that  *)
(* are asked for.  The state is the record `prod'; its `out' is what the   *)
(* last step told the Consumers and sent to the endpoint.                  *)
(*                                                                         *)
(* An encoding announces an ssrc, and then maybe one for RTX, or a rid;    *)
(* one encoding alone may announce neither.  0 and "" stand for what is    *)
(* absent.                                                                 *)
(***************************************************************************)
EXTENDS Integers, Sequences, FiniteSets

CONSTANTS
    Producers,
    IsVideo,        \* those of them that are video
    Encodings,      \* of each: a sequence of [ssrc, rtx, rid]
    Mid,            \* of each: a mid or ""
    RtpSsrcs, Mids, Rids,
    PayloadTypes,   \* "media", "rtx", and "other": one that is not in the rtpMapping
    Headers,        \* the sets of header extensions a packet may carry
    ProdEvents      \* (bound)

ASSUME ProducerAssumption ==
    /\ 0 \notin RtpSsrcs /\ "" \notin Mids \cup Rids /\ "none" \notin Producers
    /\ Mid \in [Producers -> Mids \cup {""}]
    /\ Encodings \in [Producers -> Seq([ssrc : RtpSsrcs \cup {0}, rtx : RtpSsrcs \cup {0},
                                        rid : Rids \cup {""}])]
    /\ \A p \in Producers : \A i \in 1..Len(Encodings[p]) :
           Encodings[p][i].rid # "" => Encodings[p][i].ssrc = 0
    /\ \A p \in Producers : \A i \in 1..Len(Encodings[p]) :
           Encodings[p][i].ssrc = 0 => Encodings[p][i].rtx = 0

VARIABLE prod

NoProducer == "none"
Indices(p) == 1..Len(Encodings[p])
Quiet == [news |-> {}, asked |-> {}, pli |-> {}, forwarded |-> {}, first |-> {}]

Packets ==
    [ssrc : RtpSsrcs, pt : PayloadTypes, mid : Mids \cup {""}, rid : Rids \cup {""},
     key : BOOLEAN,
     valid : BOOLEAN,       \* the stream's ReceivePacket() or ReceiveRtxPacket() takes it
     exts : Headers]

-----------------------------------------------------------------------------
(* The RtpListener *)

Announced(p) == {Encodings[p][i].ssrc : i \in Indices(p)} \cup {Encodings[p][i].rtx : i \in Indices(p)}
RidsOf(p) == {Encodings[p][i].rid : i \in Indices(p)} \ {""}

AddProducerThrows(b, p) ==
    \/ \E s \in Announced(p) \ {0} : b.ssrcTable[s] # NoProducer
    \/ Mid[p] # "" /\ b.midTable[Mid[p]] # NoProducer
    \/ Mid[p] = "" /\ \E r \in RidsOf(p) : b.ridTable[r] # NoProducer

\* A rid another Producer has is left to it.
AddProducer(b, p) ==
    [b EXCEPT !.ssrcTable = [s \in RtpSsrcs |-> IF s \in Announced(p) THEN p ELSE @[s]],
              !.midTable = [m \in Mids |-> IF m = Mid[p] THEN p ELSE @[m]],
              !.ridTable = [r \in Rids |-> IF r \in RidsOf(p) /\ @[r] = NoProducer THEN p ELSE @[r]]]

\* Mutant: the ssrcs that were learnt from a rid or a mid stay with the Producer that
\* is gone.
RemoveProducer_KeepSsrcs(b, p) ==
    [b EXCEPT !.midTable = [m \in Mids |-> IF @[m] = p THEN NoProducer ELSE @[m]],
              !.ridTable = [r \in Rids |-> IF @[r] = p THEN NoProducer ELSE @[r]]]

RemoveProducer(b, p) ==
    [b EXCEPT !.ssrcTable = [s \in RtpSsrcs |-> IF @[s] = p THEN NoProducer ELSE @[s]],
              !.midTable = [m \in Mids |-> IF @[m] = p THEN NoProducer ELSE @[m]],
              !.ridTable = [r \in Rids |-> IF @[r] = p THEN NoProducer ELSE @[r]]]

\* By ssrc, else by mid, else by rid; what is found is kept under the ssrc.
GetProducer(b, pk) ==
    IF b.ssrcTable[pk.ssrc] # NoProducer THEN b.ssrcTable[pk.ssrc]
    ELSE IF pk.mid # "" /\ b.midTable[pk.mid] # NoProducer THEN b.midTable[pk.mid]
    ELSE IF pk.rid # "" THEN b.ridTable[pk.rid]
    ELSE NoProducer

-----------------------------------------------------------------------------
(* The streams of a Producer *)

NewStreams(p) ==
    [bySsrc |-> [s \in RtpSsrcs |-> 0], byRtx |-> [s \in RtpSsrcs |-> 0],
     ssrc |-> [i \in Indices(p) |-> 0], rtx |-> [i \in Indices(p) |-> 0],
     mapped |-> [i \in Indices(p) |-> 0], sr |-> {}, waiting |-> {}, paused |-> FALSE]

\* The encoding an unknown ssrc belongs to: announced, else by rid, else the only one.
EncodingOf(p, pk) ==
    LET announced == {i \in Indices(p) : \/ pk.pt = "media" /\ Encodings[p][i].ssrc = pk.ssrc
                                         \/ pk.pt = "rtx" /\ Encodings[p][i].rtx = pk.ssrc}
        ridden == {i \in Indices(p) : Encodings[p][i].rid = pk.rid}
        alone == {i \in Indices(p) : Len(Encodings[p]) = 1 /\ Encodings[p][i].ssrc = 0
                                     /\ Encodings[p][i].rid = ""}
        found == IF announced # {} THEN announced ELSE IF pk.rid # "" THEN ridden ELSE alone
    IN  IF found = {} THEN 0 ELSE CHOOSE i \in found : \A j \in found : i <= j

CreateRtpStream(b, p, i, ssrc) ==
    [b EXCEPT !.of[p] = [@ EXCEPT !.bySsrc[ssrc] = i, !.ssrc[i] = ssrc, !.mapped[i] = ssrc],
              !.fault = @ \/ b.of[p].bySsrc[ssrc] # 0 \/ b.of[p].ssrc[i] # 0]

\* The stream of a packet, created or given its RTX ssrc when it can be; `enc' is 0 if none.
GetRtpStream(b, p, pk) ==
    LET s == b.of[p]
        i == EncodingOf(p, pk)
        isAnnounced == i # 0 /\ Encodings[p][i].ssrc = pk.ssrc
    IN  IF s.bySsrc[pk.ssrc] # 0 THEN [enc |-> s.bySsrc[pk.ssrc], b |-> b]
        ELSE IF s.byRtx[pk.ssrc] # 0 THEN [enc |-> s.byRtx[pk.ssrc], b |-> b]
        ELSE IF i = 0 THEN [enc |-> 0, b |-> b]
        ELSE IF pk.pt = "media" /\ (isAnnounced \/ s.ssrc[i] = 0)
        THEN [enc |-> i, b |-> CreateRtpStream(b, p, i, pk.ssrc)]
        ELSE IF pk.pt = "rtx" /\ p \in IsVideo /\ s.ssrc[i] # 0 /\ s.rtx[i] = 0
        THEN [enc |-> i, b |-> [b EXCEPT !.of[p] = [@ EXCEPT !.byRtx[pk.ssrc] = i, !.rtx[i] = pk.ssrc]]]
        ELSE [enc |-> 0, b |-> b]

\* The KeyFrameRequestManager is told of some ssrcs: a PLI goes out for each that is of a
\* stream, unless one is already waited for.
OnKeyFrameNeeded(b, p, ssrcs, force) ==
    LET wanted == {s \in ssrcs : b.of[p].bySsrc[s] # 0 /\ (force \/ s \notin b.of[p].waiting)}
    IN  [b EXCEPT !.of[p] = [@ EXCEPT !.waiting = b.of[p].waiting \cup wanted],
                  !.out = [@ EXCEPT !.pli = b.out.pli \cup {<<p, b.of[p].bySsrc[s]>> : s \in wanted}]]

\* Consumers ask for key frames of the encodings `asks'.  `current' is the packet in whose
\* processing they do, if any: a key frame that is about to reach them.
RequestKeyFrame(b, p, asks, current) ==
    LET asked == [b EXCEPT !.out = [@ EXCEPT !.asked = b.out.asked \cup {<<p, i>> : i \in asks}]]
        coming == {pk.ssrc : pk \in {c \in current : c.key}}
    IN  IF p \notin IsVideo \/ b.of[p].paused THEN asked
        ELSE OnKeyFrameNeeded(asked, p, {b.of[p].mapped[i] : i \in asks} \ ({0} \cup coming), FALSE)

\* The Consumers learn of a stream, and may ask for key frames of any encoding.
NotifyNewRtpStream(b, p, i, asks, current) ==
    RequestKeyFrame([b EXCEPT !.out = [@ EXCEPT !.news = b.out.news \cup {<<p, i>>}],
                              !.announced = @ \cup {<<p, i>>}],
                    p, asks, current)

\* The header extensions a packet leaves with.
MangleRtpPacket(p, exts) ==
    {"mid"} \cup (exts \cap {"absCaptureTime"})
    \cup IF p \in IsVideo
         THEN {"absSendTime", "transportWideCc01"}
              \cup (exts \cap {"frameMarking07", "frameMarking", "videoOrientation", "toffset"})
         ELSE exts \cap {"ssrcAudioLevel"}

Forward(b, p, i, pk) ==
    IF b.of[p].paused \/ pk.pt = "other" THEN b
    ELSE [b EXCEPT !.out = [@ EXCEPT !.forwarded =
             b.out.forwarded \cup {<<p, i, pk.key, MangleRtpPacket(p, pk.exts)>>}]]

\* A packet with the ssrc of a stream is media, whatever its payload type.  One that is not
\* valid goes no further, but a new stream is announced all the same.
ReceiveRtpPacket(b, p, pk, asks) ==
    LET g == GetRtpStream(b, p, pk)
        i == g.enc
        new == b.of[p].ssrc # g.b.of[p].ssrc
        media == i # 0 /\ g.b.of[p].ssrc[i] = pk.ssrc
        key == pk.key /\ p \in IsVideo
        awaited == g.b.of[p].waiting
        received == IF key THEN [g.b EXCEPT !.of[p] = [@ EXCEPT !.waiting = awaited \ {g.b.of[p].ssrc[i]}]]
                    ELSE g.b
        forced == IF p \in IsVideo /\ ~b.of[p].paused /\ ~key
                  THEN OnKeyFrameNeeded(received, p, {pk.ssrc}, TRUE) ELSE received
    IN  IF i = 0 THEN b
        ELSE IF ~pk.valid /\ new THEN NotifyNewRtpStream(g.b, p, i, asks, {})
        ELSE IF ~pk.valid \/ (~media /\ pk.pt # "rtx") THEN g.b
        ELSE IF new THEN Forward(NotifyNewRtpStream(forced, p, i, asks, {pk}), p, i, pk)
        ELSE Forward(received, p, i, pk)

-----------------------------------------------------------------------------
(* The Transport *)

ProducerInit ==
    prod = [open |-> {}, ssrcTable |-> [s \in RtpSsrcs |-> NoProducer], midTable |-> [m \in Mids |-> NoProducer],
            ridTable |-> [r \in Rids |-> NoProducer], of |-> [p \in Producers |-> NewStreams(p)],
            announced |-> {}, out |-> Quiet, fault |-> FALSE, events |-> 0]

Idle == [prod EXCEPT !.out = Quiet, !.events = @ + 1]

\* TRANSPORT_PRODUCE: a listener that throws leaves no Producer.
Produce(p) ==
    /\ p \notin prod.open
    /\ prod' = IF AddProducerThrows(prod, p) THEN Idle
               ELSE [AddProducer(Idle, p) EXCEPT !.open = @ \cup {p}]

Close(p) ==
    /\ p \in prod.open
    /\ prod' = [RemoveProducer(Idle, p) EXCEPT
                   !.open = @ \ {p}, !.of[p] = NewStreams(p),
                   !.announced = {a \in @ : a[1] # p}]

Receive(pk) ==
    LET p == GetProducer(prod, pk)
    IN  IF p = NoProducer THEN prod' = Idle
        ELSE \E asks \in SUBSET Indices(p) :
                prod' = ReceiveRtpPacket([Idle EXCEPT !.ssrcTable[pk.ssrc] = p], p, pk, asks)

Pause(p) ==
    p \in prod.open /\ ~prod.of[p].paused /\ prod' = [Idle EXCEPT !.of[p] = [@ EXCEPT !.paused = TRUE]]

\* The Consumers are told, then every stream is asked for a key frame.
Resume(p) ==
    /\ p \in prod.open /\ prod.of[p].paused
    /\ LET resumed == [Idle EXCEPT !.of[p] = [@ EXCEPT !.paused = FALSE]]
       IN  prod' = IF p \in IsVideo THEN OnKeyFrameNeeded(resumed, p, RtpSsrcs, TRUE) ELSE resumed

Ask(p, i) == p \in prod.open /\ i \in Indices(p) /\ prod' = RequestKeyFrame(Idle, p, {i}, {})

ReceiveRtcpSenderReport(ssrc) ==
    LET p == prod.ssrcTable[ssrc]
    IN  /\ p # NoProducer
        /\ prod.of[p].bySsrc[ssrc] # 0
        /\ LET i == prod.of[p].bySsrc[ssrc]
           IN  prod' = [Idle EXCEPT !.of[p] = [@ EXCEPT !.sr = prod.of[p].sr \cup {i}],
                                    !.out = [@ EXCEPT !.first = IF i \in prod.of[p].sr THEN {}
                                                                ELSE {<<p, i>>}]]

\* The KeyFrameRequestManager waits no more.
GiveUp(p, ssrc) ==
    /\ ssrc \in prod.of[p].waiting
    /\ prod' = [Idle EXCEPT !.of[p] = [@ EXCEPT !.waiting = prod.of[p].waiting \ {ssrc}]]

ProducerNext ==
    /\ prod.events < ProdEvents
    /\ \/ \E p \in Producers : Produce(p) \/ Close(p) \/ Pause(p) \/ Resume(p)
                               \/ \E i \in Indices(p) : Ask(p, i)
       \/ \E pk \in Packets : Receive(pk)
       \/ \E s \in RtpSsrcs : ReceiveRtcpSenderReport(s) \/ \E p \in Producers : GiveUp(p, s)

ProducerSpec == ProducerInit /\ [][ProducerNext]_prod

-----------------------------------------------------------------------------
(* Properties *)

\* Whatever packets come, and whatever Producers open and close: the tables of the listener
\* name open Producers only, they lead every media and RTX ssrc of a stream to its Producer,
\* the maps of a Producer agree with each other, and no assertion of CreateRtpStream() fails.
TablesAgree ==
    /\ ~prod.fault
    /\ \A t \in {prod.ssrcTable, prod.midTable, prod.ridTable} :
           \A k \in DOMAIN t : t[k] \in prod.open \cup {NoProducer}
    /\ \A p \in prod.open :
           LET st == prod.of[p]
           IN  /\ \A s \in RtpSsrcs :
                      /\ st.bySsrc[s] # 0 \/ st.byRtx[s] # 0 => prod.ssrcTable[s] = p
                      /\ st.bySsrc[s] = 0 \/ st.byRtx[s] = 0
                      /\ st.bySsrc[s] # 0 => st.ssrc[st.bySsrc[s]] = s
                      /\ st.byRtx[s] # 0 => st.rtx[st.byRtx[s]] = s
               /\ \A i \in Indices(p) : /\ st.mapped[i] = st.ssrc[i]
                                        /\ st.ssrc[i] # 0 => st.bySsrc[st.ssrc[i]] = i
                                        /\ st.rtx[i] # 0 => st.ssrc[i] # 0

\* The Consumers get no packet of a stream they have not been told of, and none while the
\* Producer is paused.
ForwardedIsAnnounced ==
    \A f \in prod.out.forwarded : <<f[1], f[2]>> \in prod.announced /\ ~prod.of[f[1]].paused

\* A Consumer that asks for a key frame of a stream that exists gets one in this very step,
\* or one is waited for.
AskedIsServed ==
    \A a \in prod.out.asked :
        LET st == prod.of[a[1]]
        IN  \/ a[1] \notin IsVideo \/ st.paused \/ st.ssrc[a[2]] = 0
            \/ st.ssrc[a[2]] \in st.waiting
            \/ \E f \in prod.out.forwarded : f[1] = a[1] /\ f[2] = a[2] /\ f[3]

\* Tables, streams and assertions of a Producer agree, what is forwarded was announced and
\* a key frame that is asked for is on its way.  (RtpListener.cpp, Producer.cpp.)
StreamsExact == TablesAgree /\ ForwardedIsAnnounced /\ AskedIsServed

=============================================================================
