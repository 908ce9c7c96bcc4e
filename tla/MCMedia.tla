------------------------------ MODULE MCMedia ------------------------------
(***************************************************************************)
(* The way of the media through a Router: a received stream and its rates, *)
(* the Producer, the observers of its volume, the four kinds of Consumers, *)
(* a sent stream, and how a Transport shares its bitrate among Consumers.  *)
(* They share no state: a behaviour is one of a single part, and the other *)
(* variables stay as they are.                                             *)
(***************************************************************************)
EXTENDS BitrateControl, Producer

CONSTANT Parts  \* those that are run

VARIABLES part, recv, rate, obs, sim, svc, fwd, snd

mcVars == <<part, bwe, recv, rate, prod, obs, sim, svc, fwd, snd>>

\* Two Consumers with layers and a SimpleConsumer between them, which loses packets as
\* the last one does.
MCByPriority == <<"a", "s", "b">>
MCPriority == [a |-> 2, s |-> 1, b |-> 1]
MCLadder == [a |-> <<2, 3, 5>>, s |-> <<3>>, b |-> <<4, 4>>]
MCLoss == [a |-> 0, s |-> 20, b |-> 20]

\* Streams with NACK and RTX, with NACK only, and with in-band FEC; numbers of 5 bits.
Recv == INSTANCE RtpStreamRecv WITH
    RtpSeqMod <- 32, MaxDropout <- 5, MaxMisorder <- 3, CounterMod <- 256,
    ScoreHistogramLength <- 3,
    RecvKinds <- {[nack |-> TRUE, rtx |-> TRUE, fec |-> FALSE],
                  [nack |-> TRUE, rtx |-> FALSE, fec |-> FALSE],
                  [nack |-> FALSE, rtx |-> FALSE, fec |-> TRUE]},
    FirstPositions <- {30}, Steps <- {-1, 0, 1, 2, 7}, RtxSteps <- {1},
    RemoteLoss <- {0, 128}, UndefinedScore <- 0, RecvEvents <- 6

Rate == INSTANCE RateCalculator WITH
    windowSizeMs <- 6, windowItems <- 3, Layers <- <<1, 2>>, RateSizes <- {1},
    Gaps <- {0, 1, 3, 7}, StartMs <- 10, RateEvents <- 5

\* A video Producer of two encodings, one announced by ssrc and one by rid; an audio one
\* whose ssrc is not announced.
MCEncodings ==
    [a |-> <<[ssrc |-> 1, rtx |-> 2, rid |-> ""], [ssrc |-> 0, rtx |-> 0, rid |-> "r"]>>,
     b |-> <<[ssrc |-> 0, rtx |-> 0, rid |-> ""]>>]
MCMid == [a |-> "", b |-> "n"]

\* Scores of 0 to 12 active levels, or of 0 to 2 active blocks, in tenths.
Obs == INSTANCE RtpObservers WITH
    Producers <- {"p", "q"}, Levels <- {0, 8, 12}, Gaps <- {1, 3},
    LevelsBuffLen <- 4, MediumsBuffLen <- 2, MaxLevel <- 12, SubunitLength <- 1,
    MinLevelWindowLen <- 2, MediumThreshold <- 6, LongThreshold <- 0,
    LevelIdleTimeout <- 2, SpeakerIdleTimeout <- 6,
    LogScore <- <<[v \in 0..12 |-> <<-230, -230, -230, -230, -1, 8, 12, 14, 15, 16, 16, 14, 12>>[v + 1]],
                  [v \in 0..2 |-> <<-230, 30, 38>>[v + 1]],
                  [v \in 0..2 |-> <<-230, 38, 45>>[v + 1]]>>,
    Margins <- <<30, 20, 0>>, MaxEntries <- 1, Threshold <- -8, MinCount <- 2,
    SumMod <- 256, Volumes <- {8, 9}, Bursts <- {1, 2}, ObsEvents <- 4

\* What the bitrates of two layers of two may be, and what the Transport may give.
Env(top, budget, young, steady) ==
    [rate |-> <<<<1, 1>>, <<2, top>>>>, budget |-> budget, young |-> young, steady |-> steady]

ByLayer(e) ==
    [e EXCEPT !.rate = [s \in {0, 1} |-> [t \in {0, 1} |-> e.rate[s + 1][t + 1]]]]

SimEnvironments ==
    {ByLayer(e) : e \in {Env(1, 9, {}, TRUE), Env(1, 1, {}, FALSE), Env(1, 9, {1}, TRUE)}}

SvcEnvironments ==
    {ByLayer(e) : e \in {Env(1, 9, {}, TRUE), Env(1, 1, {}, TRUE), Env(0, 9, {}, FALSE)}}

\* Key frames are of the lowest temporal layer; fields that no one reads have one value.
\* Where the bitrate is managed all frames are of one time (bound).
SimPackets ==
    [managed \in BOOLEAN |->
        {p \in [layer : {0, 1}, late : {0, 1}, key : BOOLEAN, t : {0, 1}, y : BOOLEAN,
                at : IF managed THEN {1} ELSE {1, 4}, gone : BOOLEAN] :
            /\ p.key => p.t = 0
            /\ p.t = 0 \/ p.late > 0 => p.y
            /\ p.gone => p.late > 0 /\ ~p.key /\ p.t = 0 /\ p.at = 1}]

\* A key frame starts in the lowest layers and is not predicted.
SvcPackets ==
    {p \in [s : {0, 1}, t : {0, 1}, key : BOOLEAN, p : BOOLEAN, b : BOOLEAN, e : BOOLEAN,
            u : BOOLEAN, old : BOOLEAN] :
        /\ p.key => p.s = 0 /\ p.t = 0 /\ ~p.p /\ p.b
        /\ p.u => p.b /\ p.t > 0 /\ ~p.old
        /\ p.p => ~p.old}

Sim == INSTANCE SimulcastConsumer WITH
    NumSpatial <- 2, NumTemporal <- 2, Environments <- SimEnvironments, MaxEvents <- 2,
    TsMod <- 64, TsBase <- [s \in {0, 1} |-> s], Packets <- SimPackets,
    MaxSequenceNumberGap <- 0, MsOffset <- 1, MaxExtraOffset <- 2

Svc == INSTANCE SvcConsumer WITH
    NumSpatial <- 2, NumTemporal <- 2, Environments <- SvcEnvironments, Packets <- SvcPackets, SvcEvents <- 3,
    SvcKinds <- [codec : {"vp9", "h264svc"}, ksvc : BOOLEAN, managed : BOOLEAN]

Fwd == INSTANCE ForwardingConsumers WITH
    PipeStreams <- {1, 2}, SimpleStream <- 1, SeqBound <- 3, FwdEvents <- 4

\* Two streams of one Producer's packets, of which the second retransmits over RTX.
Snd == INSTANCE RtpStreamSend WITH
    RtpSeqMod <- 32, MaxDropout <- 5, MaxMisorder <- 3, CounterMod <- 256,
    ScoreHistogramLength <- 2, Streams <- {1, 2}, Rtx <- {2}, Encoding <- {}, MaxPackets <- 3,
    Bitmasks <- {{}, {1}, {2, 16}}, Rtts <- {0, 1}, DefaultRtt <- 2, Elapses <- {2, 3},
    Losses <- {0, 2}, SendEvents <- 5

\* A received stream that is not there.
Off == [paused |-> TRUE, score |-> 0, timer |-> FALSE]

MCInit ==
    /\ part \in Parts
    /\ Init
    /\ IF part = "recv" THEN Recv!RecvInit ELSE recv = Off
    /\ IF part = "rate" THEN Rate!RateInit ELSE rate = Off
    /\ ProducerInit
    /\ IF part = "observers" THEN Obs!Init ELSE obs = Off
    /\ IF part = "simulcast" THEN Sim!Init ELSE sim = Off
    /\ IF part = "svc" THEN Svc!Init ELSE svc = Off
    /\ IF part = "forwarding" THEN Fwd!Init ELSE fwd = Off
    /\ IF part = "send" THEN Snd!SendInit ELSE snd = Off

MCNext ==
    /\ UNCHANGED part
    /\ \/ part = "bitrate" /\ Next /\ UNCHANGED <<recv, rate, prod, obs, sim, svc, fwd, snd>>
       \/ part = "recv" /\ Recv!RecvNext /\ UNCHANGED <<bwe, rate, prod, obs, sim, svc, fwd, snd>>
       \/ part = "rate" /\ Rate!RateNext /\ UNCHANGED <<bwe, recv, prod, obs, sim, svc, fwd, snd>>
       \/ part = "producer" /\ ProducerNext /\ UNCHANGED <<bwe, recv, rate, obs, sim, svc, fwd, snd>>
       \/ part = "observers" /\ Obs!Next /\ UNCHANGED <<bwe, recv, rate, prod, sim, svc, fwd, snd>>
       \/ part = "simulcast" /\ Sim!Next /\ UNCHANGED <<bwe, recv, rate, prod, obs, svc, fwd, snd>>
       \/ part = "svc" /\ Svc!Next /\ UNCHANGED <<bwe, recv, rate, prod, obs, sim, fwd, snd>>
       \/ part = "forwarding" /\ Fwd!Next /\ UNCHANGED <<bwe, recv, rate, prod, obs, sim, svc, snd>>
       \/ part = "send" /\ Snd!SendNext /\ UNCHANGED <<bwe, recv, rate, prod, obs, sim, svc, fwd>>

\* Fairness of BitrateControl and RtpStreamRecv: time goes by and timers that run fire
\* (WF_bwe(OnTimer) is written without ENABLED).
MCSpec ==
    /\ MCInit /\ [][MCNext]_mcVars
    /\ WF_mcVars(/\ part = "bitrate" /\ Tick
                 /\ UNCHANGED <<part, recv, rate, prod, obs, sim, svc, fwd, snd>>)
    /\ []<>~(part = "bitrate" /\ TimerActs) \/ []<><<OnTimer>>_bwe
    /\ WF_mcVars(/\ part = "recv" /\ Recv!OnTimer
                 /\ UNCHANGED <<part, bwe, rate, prod, obs, sim, svc, fwd, snd>>)

-----------------------------------------------------------------------------
(* Properties *)

\* A received stream tells the packets lost and its score, a sent one retransmits its own
\* packets and scores soundly, and the rate of a stream is that of a sliding window.
\* (RtpStream.cpp UpdateSeq(), RtpStreamRecv.cpp, RtpStreamSend.cpp UpdateScore(),
\* FillRetransmissionContainer(); RateCalculator.cpp.)
StreamsCountRight ==
    /\ part = "recv" => Recv!LossIsExact /\ Recv!ScoreIsSound
    /\ part = "send" => Snd!ResendsOwn /\ Snd!SendsSoundly
    /\ part = "rate" => Rate!RateIsExact

\* A stream that stops is noticed.  (RtpStreamRecv.cpp OnTimer(), Pause(), Resume().)
SilenceIsNoticed == part = "recv" => Recv!SilenceIsNoticed

\* The application is told who speaks, and how loud.  (ActiveSpeakerObserver.cpp,
\* AudioLevelObserver.cpp.)
SpeakersAreTold ==
    part = "observers" => Obs!ScoresAreCurrent /\ Obs!DominantIsTold /\ Obs!VolumesAreTrue

\* What a Consumer sends its receiver can decode.  (SendRtpPacket() of the four Consumers;
\* VP9.cpp, H264_SVC.cpp Process().)
SendsDecodable ==
    /\ part = "simulcast" => Sim!SwitchesCleanly
    /\ part = "svc" => Svc!SendsWhatItDecodes
    /\ part = "forwarding" => Fwd!KeyFrameAfterGap /\ Fwd!NumberIsDefined

\* A Consumer that waits for a key frame has one coming.  (RequestKeyFrame() and
\* UserOnResumed() of the four Consumers.)
KeyFrameIsComing ==
    /\ part = "simulcast" => Sim!KeyFrameIsComing
    /\ part = "svc" => Svc!KeyFrameIsComing
    /\ part = "forwarding" => Fwd!KeyFrameIsComing

\* A switch of streams starts with a timestamp past those sent, and one of layers with a
\* packet the receiver can decode.  (SimulcastConsumer.cpp SendRtpPacket(), VP9.cpp and
\* H264_SVC.cpp Process().)
SwitchesAtKeyFrames ==
    [][ /\ part = "simulcast" => Sim!TimestampGoesOn
        /\ part = "svc" => Svc!LayerRisesAtKeyFrame ]_mcVars

\* The layer game leaves nothing lying, and limits are kept.  (Transport.cpp
\* DistributeAvailableOutgoingBitrate(), TransportCongestionControlClient.cpp.)
BitrateIsUsed == part = "bitrate" => GameIsExhaustive /\ WithinMax

\* Once changes stop everyone has the share the game gives, and no padding is sent for
\* nobody.  (Transport.cpp OnConsumerNeedZeroBitrate(), TrendCalculator.cpp.)
BitrateSettles == part = "bitrate" => SharesSettle /\ ProbationStops
=============================================================================
