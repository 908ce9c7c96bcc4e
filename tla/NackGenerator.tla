--------------------------- MODULE NackGenerator ---------------------------
(***************************************************************************)
(* The repair of a received stream: RtpStream::UpdateSeq() decides which   *)
(* packets are taken, NackGenerator keeps the list of lost packets, asks   *)
(* for them and gives up.  Media packets may be lost, late or repeated;    *)
(* RTX packets may come late, twice, or ahead of the media; the sender may *)
(* restart at another number.                                              *)
(*                                                                         *)
(* Time goes in ticks of TimerInterval.  The entries of the NACK list and  *)
(* the key frames are close enough together to be ordered, so those two    *)
(* B-trees are sets; the recovered packets are not, so theirs is the       *)
(* sorted node that is searched by bisection.                              *)
(***************************************************************************)
EXTENDS SeqNumbers, SequencesExt

CONSTANTS
    MaxDropout, MaxMisorder,
    MaxPacketAge, MaxNackPackets, MaxNackRetries,
    NackDelay,      \* sendNackDelayMs, in ticks
    Rtt,            \* the round trip time, in ticks
    KeyNumbers,     \* the packets that are key frames
    Starts,         \* numbers the sender starts at
    RestartPoints,  \* numbers it may restart at
    Ahead,          \* how far RTX packets may be ahead of the media
    MaxTravel,      \* bound on how many numbers the sender uses
    Pauses          \* whether the Producer may be paused

ASSUME NackAssumption ==
    /\ {MaxValue, MaxDropout, MaxMisorder, MaxPacketAge, MaxNackPackets, MaxNackRetries,
        NackDelay, Rtt, Ahead, MaxTravel} \subseteq Nat
    /\ Starts \cup RestartPoints \cup KeyNumbers \subseteq Numbers
    /\ Pauses \in BOOLEAN

VARIABLES
    stream,     \* RtpStream: [started, maxSeq, badSeq]
    gen,        \* NackGenerator: [started, lastSeq, nack, keyFrames, recovered]
    timer,      \* "off", "armed" or "due"
    newest,     \* the newest media packet of the sender that came
    travel,     \* how many numbers it has used; restarts and pauses count as some
    got,        \* recent numbers that came
    owed,       \* lost packets to be asked for, with the times they were
    adrift      \* the sender restarted and the generator was not reset since

nackVars == <<stream, gen, timer, newest, travel, got, owed, adrift>>

NoSeq == -1

-----------------------------------------------------------------------------
(* RtpStream *)

\* The stream after UpdateSeq(), and whether the packet is taken.
UpdateSeq(s, seq) ==
    LET udelta == Distance(s.maxSeq, seq) IN
    IF udelta < MaxDropout
    THEN [ok |-> TRUE, s |-> [s EXCEPT !.maxSeq = seq]]
    ELSE IF udelta > MaxValue + 1 - MaxMisorder
    THEN [ok |-> TRUE, s |-> s]
    ELSE IF seq = s.badSeq
    THEN [ok |-> TRUE, s |-> [s EXCEPT !.maxSeq = seq, !.badSeq = NoSeq]]
    ELSE [ok |-> FALSE, s |-> [s EXCEPT !.badSeq = Mod(seq + 1)]]

\* ReceiveStreamPacket()
ReceiveStreamPacket(s, seq) ==
    UpdateSeq(IF s.started THEN s
              ELSE [started |-> TRUE, maxSeq |-> Mod(seq - 1), badSeq |-> NoSeq], seq)

-----------------------------------------------------------------------------
(* NackGenerator *)

Since(S, k) == {n \in S : ~IsSeqLowerThan(n, k)}

OnlyIn(S, f) == [n \in S |-> f[n]]

\* lower_bound() in the sorted node s.
LowerBound(s, x) ==
    LET Bisect[lo, hi \in 0..Len(s)] ==
            LET mid == (lo + hi) \div 2 IN
            IF lo = hi THEN lo + 1
            ELSE IF IsSeqLowerThan(s[mid + 1], x) THEN Bisect[mid + 1, hi] ELSE Bisect[lo, mid]
    IN  Bisect[0, Len(s)]

Found(s, x) ==
    LET n == LowerBound(s, x) IN n <= Len(s) /\ ~IsSeqLowerThan(x, s[n])

\* The recovered packets once seq was, less the old ones.
Recover(s, seq) ==
    LET t == IF Found(s, seq) THEN s ELSE InsertAt(s, LowerBound(s, seq), seq)
    IN  SubSeq(t, LowerBound(t, Mod(seq - MaxPacketAge)), Len(t))

\* The key frames once seq was seen, less the old ones.
KeyFrames(g, seq) ==
    Since(g.keyFrames \cup ({seq} \cap KeyNumbers), Mod(seq - MaxPacketAge))

Between(a, b) == {n \in Numbers : 0 < Distance(a, n) /\ Distance(a, n) < Distance(a, b)}

\* AddPacketsToNackList(), its first part: old entries go, and when the list gets
\* too large those before the oldest key frame that makes enough room, or all.
MakeRoom(g, seq) ==
    LET old == Since(DOMAIN g.nack, Mod(seq - MaxPacketAge))
        Fits(S) == Cardinality(S) + Distance(g.lastSeq, seq) - 1 <= MaxNackPackets
        keys == {k \in g.keyFrames : Fits(Since(old, k))}
        key == CHOOSE k \in keys : \A j \in keys : ~IsSeqLowerThan(j, k)
    IN  IF Fits(old) THEN [full |-> FALSE, g |-> [g EXCEPT !.nack = OnlyIn(old, @)]]
        ELSE IF keys # {}
        THEN [full |-> FALSE, g |-> [g EXCEPT !.nack = OnlyIn(Since(old, key), @),
                                              !.keyFrames = Since(@, key)]]
        ELSE [full |-> TRUE, g |-> [g EXCEPT !.nack = << >>, !.keyFrames = {}]]

NewEntry == [age |-> 0, sent |-> NoSeq, retries |-> 0]

\* Mutant: packets that RTX has brought are asked for as well.
AddPacketsToNackList_Recovered(g, seq) ==
    LET r == MakeRoom(g, seq)
    IN  [full |-> r.full,
         g |-> IF r.full THEN r.g
               ELSE [r.g EXCEPT !.nack = @ @@ [n \in Between(g.lastSeq, seq) |-> NewEntry]]]

AddPacketsToNackList(g, seq) ==
    LET r == MakeRoom(g, seq)
        new == {n \in Between(g.lastSeq, seq) : ~Found(g.recovered, n)}
    IN  [full |-> r.full,
         g |-> IF r.full THEN r.g ELSE [r.g EXCEPT !.nack = @ @@ [n \in new |-> NewEntry]]]

\* GetNackBatch(): the numbers asked for, and the generator after it.
Due(g, filter) ==
    {n \in DOMAIN g.nack :
        /\ g.nack[n].age >= NackDelay
        /\ \/ /\ filter = "seq" /\ g.nack[n].sent = NoSeq
              /\ n = g.lastSeq \/ IsSeqHigherThan(g.lastSeq, n)
           \/ /\ filter = "time"
              /\ g.nack[n].sent = NoSeq \/ g.nack[n].sent >= Rtt}

GetNackBatch(g, filter) ==
    LET due == Due(g, filter)
        done == {n \in due : g.nack[n].retries + 1 >= MaxNackRetries}
    IN  [batch |-> due,
         g |-> [g EXCEPT !.nack =
                  [n \in DOMAIN @ \ done |->
                     IF n \in due THEN [@[n] EXCEPT !.retries = @ + 1, !.sent = 0] ELSE @[n]]]]

\* Mutant: the timer is not started.
MayRunTimer_Off(g, t) == t

MayRunTimer(g, t) == IF g.nack = << >> THEN t ELSE "armed"

\* ReceivePacket(): the generator and the timer after it, the numbers asked for and
\* whether a key frame is.
ReceivePacket(g, seq, isRecovered) ==
    LET Quietly(h) == [g |-> h, timer |-> timer, batch |-> {}, full |-> FALSE]
        keyed == [g EXCEPT !.keyFrames = KeyFrames(g, seq)]
        added == AddPacketsToNackList(keyed, seq)
        asked == GetNackBatch([added.g EXCEPT !.lastSeq = seq], "seq")
    IN  IF ~g.started
        THEN Quietly([g EXCEPT !.started = TRUE, !.lastSeq = seq,
                               !.keyFrames = @ \cup ({seq} \cap KeyNumbers)])
        ELSE IF seq = g.lastSeq THEN Quietly(g)
        ELSE IF IsSeqLowerThan(seq, g.lastSeq)
        THEN Quietly([g EXCEPT !.nack = OnlyIn(DOMAIN @ \ {seq}, @)])
        ELSE IF isRecovered
        THEN Quietly([keyed EXCEPT !.recovered = Recover(@, seq)])
        ELSE [g |-> asked.g, batch |-> asked.batch, full |-> added.full,
              timer |-> IF timer = "off" THEN MayRunTimer(asked.g, "off") ELSE timer]

-----------------------------------------------------------------------------
NackInit ==
    /\ stream = [started |-> FALSE, maxSeq |-> 0, badSeq |-> NoSeq]
    /\ gen = [started |-> FALSE, lastSeq |-> 0, nack |-> << >>, keyFrames |-> {},
              recovered |-> << >>]
    /\ timer = "off"
    /\ newest = NoSeq /\ travel = 0
    /\ got = {} /\ owed = << >>
    /\ adrift = FALSE

Recent(n) == newest' # NoSeq /\ Distance(n, newest') <= MaxPacketAge

\* A packet was taken, ghosts: lost are the numbers it shows to be missing.
Account(seq, lost, r) ==
    /\ got' = {n \in got \cup {seq} : Recent(n) \/ Distance(newest', n) <= Ahead}
    /\ owed' = LET all == owed @@ [n \in lost \ got |-> 0]
               IN  [n \in {m \in DOMAIN all \ {seq} : Recent(m)} |->
                      IF r.full THEN MaxNackRetries
                      ELSE all[n] + (IF n \in r.batch THEN 1 ELSE 0)]

IsAhead(seq) == newest = NoSeq \/ IsSeqHigherThan(seq, newest)

\* The media stream brings a packet, new, late or again.
Media(seq) ==
    LET u == ReceiveStreamPacket(stream, seq)
        r == ReceivePacket(gen, seq, FALSE)
        step == IF IsAhead(seq) /\ newest # NoSeq THEN Distance(newest, seq) ELSE 0
    IN  /\ travel + step <= MaxTravel
        /\ stream' = u.s
        /\ IF u.ok
           THEN /\ gen' = r.g /\ timer' = r.timer
                /\ newest' = IF IsAhead(seq) THEN seq ELSE newest
                /\ travel' = travel + step
                /\ Account(seq, IF step = 0 THEN {} ELSE Between(newest, seq), r)
           ELSE UNCHANGED <<gen, timer, newest, travel, got, owed>>
        /\ UNCHANGED adrift

\* An RTX packet, decoded to the packet it repairs.
ReceiveRtxPacket(seq) ==
    LET u == UpdateSeq(stream, seq)
        r == ReceivePacket(gen, seq, TRUE)
    IN  /\ stream.started
        /\ stream' = u.s
        /\ IF u.ok
           THEN /\ gen' = r.g /\ timer' = r.timer
                /\ UNCHANGED <<newest, travel>>
                /\ Account(seq, {}, r)
           ELSE UNCHANGED <<gen, timer, newest, travel, got, owed>>
        /\ UNCHANGED adrift

\* The sender starts again elsewhere.
Restart ==
    /\ RestartPoints # {} /\ newest # NoSeq
    /\ newest' = NoSeq
    /\ got' = {} /\ owed' = << >>
    /\ travel + MaxDropout <= MaxTravel /\ travel' = travel + MaxDropout
    /\ adrift' = TRUE
    /\ UNCHANGED <<stream, gen, timer>>

\* RtpStreamRecv::Pause()
Pause ==
    /\ Pauses /\ gen.started
    /\ gen' = [started |-> FALSE, lastSeq |-> 0, nack |-> << >>, keyFrames |-> {},
               recovered |-> << >>]
    /\ newest' = NoSeq
    /\ got' = {} /\ owed' = << >>
    /\ travel < MaxTravel /\ travel' = travel + 1
    /\ adrift' = FALSE
    /\ UNCHANGED <<stream, timer>>

Capped(n, max) == IF n < max THEN n + 1 ELSE max

NackTick ==
    /\ timer = "armed"
    /\ timer' = "due"
    /\ gen' = [gen EXCEPT !.nack = [n \in DOMAIN @ |->
                [@[n] EXCEPT !.age = Capped(@, NackDelay),
                             !.sent = IF @ = NoSeq THEN @ ELSE Capped(@, Rtt)]]]
    /\ UNCHANGED <<stream, newest, travel, got, owed, adrift>>

OnTimer ==
    LET r == GetNackBatch(gen, "time")
    IN  /\ timer = "due"
        /\ gen' = r.g /\ timer' = MayRunTimer(r.g, "off")
        /\ owed' = [n \in DOMAIN owed |-> owed[n] + (IF n \in r.batch THEN 1 ELSE 0)]
        /\ UNCHANGED <<stream, newest, travel, got, adrift>>

\* The numbers a packet may have.
MediaNumbers ==
    IF newest = NoSeq THEN IF stream.started THEN RestartPoints \cup {stream.maxSeq} ELSE Starts
    ELSE got \cup DOMAIN owed \cup {n \in Numbers : IsSeqHigherThan(n, newest)}

RtxNumbers ==
    IF newest = NoSeq THEN {}
    ELSE got \cup DOMAIN owed \cup {Mod(newest + n) : n \in 1..Ahead}

NackNext ==
    \/ \E seq \in MediaNumbers : Media(seq)
    \/ \E seq \in RtxNumbers : ReceiveRtxPacket(seq)
    \/ Restart \/ Pause \/ NackTick \/ OnTimer

NackSpec == NackInit /\ [][NackNext]_nackVars

\* The event loop runs the timer.
NackFairSpec == NackSpec /\ WF_nackVars(NackTick) /\ WF_nackVars(OnTimer)
-----------------------------------------------------------------------------
\* Numbers are in range; a packet in the NACK list was asked for less than
\* MaxNackRetries times.
NackTypeOK ==
    /\ stream \in [started : BOOLEAN, maxSeq : Numbers, badSeq : Numbers \cup {NoSeq}]
    /\ gen.started \in BOOLEAN /\ gen.lastSeq \in Numbers
    /\ DOMAIN gen.nack \subseteq Numbers
    /\ \A n \in DOMAIN gen.nack :
          gen.nack[n] \in [age : 0..NackDelay, sent : {NoSeq} \cup 0..Rtt,
                           retries : 0..(MaxNackRetries - 1)]
    /\ gen.keyFrames \subseteq Numbers /\ ToSet(gen.recovered) \subseteq Numbers
    /\ timer \in {"off", "armed", "due"}
    /\ newest \in Numbers \cup {NoSeq}
    /\ adrift \in BOOLEAN

\* The list never holds more than MaxNackPackets, none older than MaxPacketAge and
\* none that is not behind lastSeq, so that adding packets never meets one that is
\* in it ("packet already in the NACK list"), whatever number comes next.
ListWithinLimits ==
    /\ Cardinality(DOMAIN gen.nack) <= MaxNackPackets
    /\ \A n \in DOMAIN gen.nack : Distance(n, gen.lastSeq) \in 1..MaxPacketAge
    /\ gen.started =>
         \A seq \in Numbers :
            LET r == MakeRoom(gen, seq)
            IN  seq = gen.lastSeq \/ IsSeqLowerThan(seq, gen.lastSeq) \/ r.full
                    \/ DOMAIN r.g.nack \cap Between(gen.lastSeq, seq) = {}

\* While packets are to be asked for the timer runs, across batches, resets and
\* packets that empty the list.
TimerRuns == gen.nack # << >> => timer # "off"

\* Nobody is asked for a packet that came, by itself or ahead of time as RTX.  The
\* generator knows nothing of a sender that restarts until it is reset by a pause.
NoNeedlessNack == adrift \/ DOMAIN gen.nack \cap got = {}

\* A packet that is lost stays in the list until it was asked for MaxNackRetries
\* times, unless it is too old, or a later key frame came or had to be asked for;
\* until the sender restarts.
LostIsListed ==
    \/ adrift
    \/ \A n \in DOMAIN owed :
          \/ n \in DOMAIN gen.nack /\ gen.nack[n].retries = owed[n]
          \/ owed[n] = MaxNackRetries
          \/ \E k \in got \cap KeyNumbers : IsSeqLowerThan(n, k)

\* Every packet leaves the list: it comes, or is given up.
NackEnds == \A n \in Numbers : n \in DOMAIN gen.nack ~> n \notin DOMAIN gen.nack
=============================================================================
