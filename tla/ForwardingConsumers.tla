------------------------ MODULE ForwardingConsumers -------------------------
(***************************************************************************)
(* The Consumers that choose no layer: a SimpleConsumer (one stream) and a *)
(* PipeConsumer (all streams of the Producer, each on its own).  Both      *)
(* forward what the Producer gets, from a key frame on where the codec has *)
(* key frames, and renumber it with a SeqManager per stream.               *)
(*                                                                         *)
(* The state is the record `fwd'.  Packets have their sequence number, so  *)
(* that they can come twice; the dropped ones are those SeqManager holds.  *)
(***************************************************************************)
EXTENDS Integers, FiniteSets

CONSTANTS
    PipeStreams,        \* the streams of a PipeConsumer; a SimpleConsumer has one of them
    SimpleStream,
    SeqBound,           \* packets per stream (bound)
    FwdEvents           \* pauses, deaths and the like (bound)

VARIABLE fwd

Seqs == 1..SeqBound

\* The streams of the Consumer.
Streams(c) == IF c.type = "pipe" THEN PipeStreams ELSE {SimpleStream}

BaseIsActive(c) == c.connected /\ ~c.paused /\ ~c.producerPaused

\* A SimpleConsumer also wants a stream with a score above 0, or one that may be silent.
IsActive(c) ==
    /\ BaseIsActive(c)
    /\ c.type = "simple" => SimpleStream \in c.alive \/ (c.dtx /\ c.newest[SimpleStream] > 0)

-----------------------------------------------------------------------------
(* Handlers *)

RequestKeyFrame(c) == IF c.video THEN [c EXCEPT !.asked = @ \cup Streams(c)] ELSE c

\* Mutant: no key frame is asked for.
Start_NoRequest(c) == [c EXCEPT !.sync = Streams(c)]

\* UserOnTransportConnected() and UserOnResumed() do the same.
Start(c) ==
    LET n == [c EXCEPT !.sync = Streams(c)] IN IF IsActive(n) THEN RequestKeyFrame(n) ELSE n

\* The application or the Producer resumes: UserOnResumed() if that makes it active.
\* `asleep' remembers that it did not, for want of a living stream.
Resumed(c) ==
    IF IsActive(c) THEN [Start(c) EXCEPT !.asleep = FALSE]
    ELSE [c EXCEPT !.asleep = @ \/ BaseIsActive(c)]

\* What UserOnPaused() and UserOnTransportDisconnected() do is clear the packets kept
\* for retransmission.
Kept(c, was) == IF was THEN [c EXCEPT !.kept = FALSE] ELSE c

\* Opus packets of silence are dropped when the Consumer was told to.
ProcessPayload(c, p) == ~(c.ignoreDtx /\ p.n \in c.silent)

\* From the next key frame on, if it waits for one.  SeqManager's Input() leaves the
\* output alone for a number it was told to drop.
Forward(c, p) ==
    LET n == IF p.s \in c.sync
             THEN [c EXCEPT !.sync = @ \ {p.s}, !.dropped[p.s] = {}] ELSE c
    IN  IF p.s \in c.sync /\ c.video /\ ~p.key THEN c
        ELSE [n EXCEPT !.undefined = @ \/ p.n \in n.dropped[p.s],
                       !.kept = TRUE, !.missed = @ \ {p.s},
                       !.sent = [s |-> p.s, key |-> p.key, gap |-> p.s \in c.missed]]

SimpleSendRtpPacket(c, p) ==
    IF ~IsActive(c) THEN [c EXCEPT !.missed = @ \cup {p.s}]
    ELSE IF ~ProcessPayload(c, p) THEN [c EXCEPT !.dropped[p.s] = @ \cup {p.n}]
    ELSE Forward(c, p)

PipeSendRtpPacket(c, p) ==
    IF ~IsActive(c) THEN [c EXCEPT !.missed = @ \cup {p.s}] ELSE Forward(c, p)

SendRtpPacket(c, p) ==
    IF c.type = "simple" THEN SimpleSendRtpPacket(c, p) ELSE PipeSendRtpPacket(c, p)

-----------------------------------------------------------------------------
(* The Consumer's life *)

NoPacket == [s |-> 0, key |-> FALSE, gap |-> FALSE]

Init ==
    \E t \in {"simple", "pipe"}, v, i, d, p \in BOOLEAN, silent \in SUBSET Seqs :
        /\ i \/ d \/ silent # {} => t = "simple" /\ ~v
        /\ fwd = [type |-> t, video |-> v, dtx |-> d, ignoreDtx |-> i, silent |-> silent,
                  connected |-> FALSE, paused |-> p, producerPaused |-> FALSE,
                  alive |-> {}, newest |-> [s \in PipeStreams |-> 0],
                  sync |-> {}, asked |-> {}, asleep |-> FALSE,
                  dropped |-> [s \in PipeStreams |-> {}], kept |-> FALSE, missed |-> {},
                  undefined |-> FALSE, sent |-> NoPacket, events |-> 0]

Idle == [fwd EXCEPT !.sent = NoPacket]
Again == [Idle EXCEPT !.events = @ + 1]

Connect ==
    /\ ~fwd.connected
    /\ LET c == [Idle EXCEPT !.connected = TRUE]
       IN  fwd' = [Start(c) EXCEPT !.asleep = BaseIsActive(c) /\ ~IsActive(c)]

Disconnect == fwd.connected /\ fwd' = Kept([Again EXCEPT !.connected = FALSE], TRUE)

Pause == ~fwd.paused /\ fwd' = Kept([Again EXCEPT !.paused = TRUE], IsActive(fwd))

Resume == fwd.paused /\ fwd' = Resumed([Again EXCEPT !.paused = FALSE])

ProducerPaused ==
    ~fwd.producerPaused /\ fwd' = Kept([Again EXCEPT !.producerPaused = TRUE], IsActive(fwd))

ProducerResumed == fwd.producerPaused /\ fwd' = Resumed([Again EXCEPT !.producerPaused = FALSE])

AskKeyFrame == IsActive(fwd) /\ fwd' = RequestKeyFrame(Again)

\* The score of a stream of the Producer falls to 0.
Dies(s) == s \in fwd.alive /\ fwd' = [Again EXCEPT !.alive = @ \ {s}]

\* A packet: the next one, or an earlier one once more.  A stream that was dead lives
\* with it.  For a new stream the Producer itself asks for a key frame (but for one).
Packet(p) ==
    /\ p.s \in Streams(fwd)
    /\ p.n <= fwd.newest[p.s] + 1
    /\ p.key => fwd.video
    /\ LET new == p.n > fwd.newest[p.s]
           asked == IF fwd.newest[p.s] = 0 /\ fwd.video THEN fwd.asked \cup {p.s} ELSE fwd.asked
       IN  fwd' = SendRtpPacket([Idle EXCEPT !.alive = @ \cup {p.s},
                                             !.newest[p.s] = IF new THEN p.n ELSE @,
                                             !.asked = IF p.key THEN asked \ {p.s} ELSE asked], p)

Next ==
    \/ Connect
    \/ \E s \in PipeStreams, n \in Seqs, k \in BOOLEAN : Packet([s |-> s, n |-> n, key |-> k])
    \/ /\ fwd.events < FwdEvents
       /\ \/ Disconnect \/ Pause \/ Resume \/ ProducerPaused \/ ProducerResumed \/ AskKeyFrame
          \/ \E s \in PipeStreams : Dies(s)

Spec == Init /\ [][Next]_fwd

-----------------------------------------------------------------------------
(* Properties *)

\* Where packets of a video stream were missed because the Consumer was not active, the
\* next one it sends is a key frame; a SimpleConsumer that was resumed while its stream
\* was dead is left out, since UserOnResumed() is not called then.
\* (UserOnResumed(), SendRtpPacket() of SimpleConsumer.cpp and PipeConsumer.cpp.)
KeyFrameAfterGap ==
    fwd.sent.gap /\ fwd.video /\ ~fwd.asleep => fwd.sent.key

\* An active Consumer that waits for a key frame of a living stream has one coming, with
\* the same exception.
KeyFrameIsComing ==
    IsActive(fwd) /\ fwd.video /\ ~fwd.asleep => fwd.sync \cap fwd.alive \subseteq fwd.asked

\* No packet is sent with a number that SeqManager did not give: one that was dropped is
\* dropped again when it comes twice.  (SimpleConsumer.cpp:296-336.)
NumberIsDefined == ~fwd.undefined

=============================================================================
