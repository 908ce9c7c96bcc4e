---------------------------- MODULE ProducerProofs ----------------------------
(***************************************************************************)
(* The RtpListener and the Producers agree on every stream, for all        *)
(* encodings, ssrcs, mids and rids.                                        *)
(***************************************************************************)
EXTENDS Producer, WellFoundedInduction, TLAPS

-----------------------------------------------------------------------------
(* The Producers.  TablesAgree is not inductive: a packet of an unknown      *)
(* ssrc makes a stream only because the listener leads that ssrc to nobody   *)
(* else, and an encoding that announces an ssrc has a stream of that ssrc    *)
(* alone.  ProducersOK adds this and that a closed Producer has no streams;  *)
(* AllTold that the Consumers were told of every stream there is.            *)

Maps(p) == [RtpSsrcs -> Indices(p) \cup {0}]
Heads(p) == [Indices(p) -> RtpSsrcs \cup {0}]
StreamSets(p) ==
    [bySsrc : Maps(p), byRtx : Maps(p), ssrc : Heads(p), rtx : Heads(p), mapped : Heads(p),
     sr : SUBSET Indices(p), waiting : SUBSET RtpSsrcs, paused : BOOLEAN]
StreamTables ==
    {f \in [Producers -> UNION {StreamSets(p) : p \in Producers}] :
        \A p \in Producers : f[p] \in StreamSets(p)}
Listens(K) == [K -> Producers \cup {NoProducer}]
Pairs == SUBSET (Producers \X Nat)
Extensions ==
    {"mid", "absCaptureTime", "absSendTime", "transportWideCc01", "frameMarking07", "frameMarking",
     "videoOrientation", "toffset", "ssrcAudioLevel"}
Fours == SUBSET (Producers \X Nat \X BOOLEAN \X SUBSET Extensions)
Outs == [news : Pairs, asked : Pairs, pli : Pairs, forwarded : Fours, first : Pairs]
ProducerRecords ==
    [open : SUBSET Producers, ssrcTable : Listens(RtpSsrcs), midTable : Listens(Mids),
     ridTable : Listens(Rids), of : StreamTables, announced : Pairs, out : Outs,
     fault : BOOLEAN, events : Int]

\* The maps of the Producer p agree, and the listener's table leads to p.
MapsOK(p, table, bySsrc, byRtx, ssrc, rtx, mapped) ==
    /\ \A s \in RtpSsrcs :
           /\ bySsrc[s] # 0 \/ byRtx[s] # 0 => table[s] = p
           /\ bySsrc[s] = 0 \/ byRtx[s] = 0
           /\ bySsrc[s] # 0 => ssrc[bySsrc[s]] = s
           /\ byRtx[s] # 0 => rtx[byRtx[s]] = s
    /\ \A i \in Indices(p) :
           /\ mapped[i] = ssrc[i]
           /\ ssrc[i] # 0 => bySsrc[ssrc[i]] = i
           /\ rtx[i] # 0 => ssrc[i] # 0
           /\ ssrc[i] # 0 /\ Encodings[p][i].ssrc # 0 => ssrc[i] = Encodings[p][i].ssrc

StreamsOK(p, st, table) == MapsOK(p, table, st.bySsrc, st.byRtx, st.ssrc, st.rtx, st.mapped)

ListensOK(b) ==
    /\ \A k \in RtpSsrcs : b.ssrcTable[k] \in b.open \cup {NoProducer}
    /\ \A k \in Mids : b.midTable[k] \in b.open \cup {NoProducer}
    /\ \A k \in Rids : b.ridTable[k] \in b.open \cup {NoProducer}

\* A Producer that is not open has no streams.
ProducersOK(b) ==
    /\ b \in ProducerRecords /\ b.fault = FALSE /\ ListensOK(b)
    /\ \A p \in Producers : p \in b.open => StreamsOK(p, b.of[p], b.ssrcTable)
    /\ \A p \in Producers : p \notin b.open => b.of[p] = NewStreams(p)

\* The Consumers were told of every stream of p.
ToldOf(p, st, announced) == \A i \in Indices(p) : st.ssrc[i] # 0 => <<p, i>> \in announced

AllTold(b) == \A p \in b.open : ToldOf(p, b.of[p], b.announced)

ForwardedOK(b) ==
    \A f \in b.out.forwarded : <<f[1], f[2]>> \in b.announced /\ ~b.of[f[1]].paused

AskedOK(b) ==
    \A a \in b.out.asked :
        \/ a[1] \notin IsVideo \/ b.of[a[1]].paused \/ b.of[a[1]].ssrc[a[2]] = 0
        \/ b.of[a[1]].ssrc[a[2]] \in b.of[a[1]].waiting
        \/ \E f \in b.out.forwarded : f[1] = a[1] /\ f[2] = a[2] /\ f[3]

ProducerOK(b) == ProducersOK(b) /\ AllTold(b) /\ ForwardedOK(b) /\ AskedOK(b)

ProducerInv == ProducerOK(prod)

\* What StreamsOK looks at.
SameMaps(t, st) ==
    /\ t.bySsrc = st.bySsrc /\ t.byRtx = st.byRtx /\ t.ssrc = st.ssrc /\ t.rtx = st.rtx
    /\ t.mapped = st.mapped

\* Indices are positive.
LEMMA IndicesPositive == \A p : Indices(p) \subseteq Nat /\ 0 \notin Indices(p)
BY DEF Indices

\* The streams of one Producer are replaced.
LEMMA OfSet ==
    ASSUME NEW of \in StreamTables, NEW p \in Producers, NEW st \in StreamSets(p)
    PROVE  /\ [of EXCEPT ![p] = st] \in StreamTables
           /\ [of EXCEPT ![p] = st][p] = st
           /\ \A q \in Producers \ {p} : [of EXCEPT ![p] = st][q] = of[q]
<1>1. PICK new : new = [of EXCEPT ![p] = st]
  BY Zenon
<1>2. of \in [Producers -> UNION {StreamSets(q) : q \in Producers}]
  BY DEF StreamTables
<1>3. DOMAIN new = Producers /\ new[p] = st /\ \A q \in Producers \ {p} : new[q] = of[q]
  BY <1>1, <1>2
<1>4. \A q \in Producers : new[q] \in StreamSets(q)
  BY <1>3 DEF StreamTables
<1>5. new \in [Producers -> UNION {StreamSets(q) : q \in Producers}]
  BY <1>1, <1>2, <1>4
<1>6. new \in StreamTables
  BY <1>4, <1>5 DEF StreamTables
<1> QED BY <1>1, <1>3, <1>6

\* What a step on the streams of p, and on what is told, leaves alone.
Beside(d, b, p) ==
    /\ d.open = b.open /\ d.ssrcTable = b.ssrcTable /\ d.midTable = b.midTable
    /\ d.ridTable = b.ridTable /\ d.fault = b.fault
    /\ \A q \in Producers \ {p} : d.of[q] = b.of[q]

\* Such a step keeps the tables in order.
LEMMA BesideOK ==
    ASSUME NEW b \in ProducerRecords, ProducersOK(b), NEW p \in b.open, NEW d \in ProducerRecords,
           Beside(d, b, p), StreamsOK(p, d.of[p], b.ssrcTable)
    PROVE  ProducersOK(d)
<1>1. ListensOK(d)
  BY DEF ProducersOK, ListensOK, Beside
<1>2. ASSUME NEW q \in Producers
      PROVE  /\ q \in d.open => StreamsOK(q, d.of[q], d.ssrcTable)
             /\ q \notin d.open => d.of[q] = NewStreams(q)
  <2>1. CASE q = p
    BY <2>1 DEF Beside
  <2>2. CASE q # p
    BY <2>2 DEF Beside, ProducersOK
  <2> QED BY <2>1, <2>2
<1> QED BY <1>1, <1>2 DEF ProducersOK, Beside

\* As long as the maps stay as they are, the streams are in order.
LEMMA SameMapsOK ==
    ASSUME NEW p, NEW st, NEW t, NEW table, StreamsOK(p, st, table), SameMaps(t, st)
    PROVE  StreamsOK(p, t, table)
BY DEF StreamsOK, SameMaps

\* Setting the streams of p and what is told.
Put(b, p, st, out) == [b EXCEPT !.of[p] = st, !.out = out]

\* It changes nothing else.
LEMMA PutFacts ==
    ASSUME NEW b \in ProducerRecords, NEW p \in Producers, NEW st \in StreamSets(p), NEW out \in Outs
    PROVE  /\ Put(b, p, st, out) \in ProducerRecords /\ Beside(Put(b, p, st, out), b, p)
           /\ Put(b, p, st, out).of[p] = st /\ Put(b, p, st, out).out = out
           /\ Put(b, p, st, out).announced = b.announced
<1>1. b.of \in StreamTables
  BY DEF ProducerRecords
<1>2. PICK of \in StreamTables : of = [b.of EXCEPT ![p] = st]
  BY <1>1, OfSet, Zenon
<1>3. of[p] = st /\ \A q \in Producers \ {p} : of[q] = b.of[q]
  BY <1>1, <1>2, OfSet
<1>4. PICK d : d = [b EXCEPT !.of = of, !.out = out]
  OBVIOUS
<1>5. Put(b, p, st, out) = d
  BY <1>2, <1>4 DEF Put
<1>6. d \in ProducerRecords
  BY <1>4, Zenon DEF ProducerRecords
<1>7. /\ d.of = of /\ d.out = out /\ d.open = b.open /\ d.ssrcTable = b.ssrcTable
      /\ d.midTable = b.midTable /\ d.ridTable = b.ridTable /\ d.fault = b.fault
      /\ d.announced = b.announced
  BY <1>4 DEF ProducerRecords
<1> QED BY <1>3, <1>5, <1>6, <1>7 DEF Beside

\* What a step that creates no stream of p and forwards nothing leaves alone.
Kept(d, b, p) ==
    /\ d \in ProducerRecords /\ Beside(d, b, p) /\ SameMaps(d.of[p], b.of[p])
    /\ d.of[p].paused = b.of[p].paused /\ d.announced = b.announced
    /\ d.out.forwarded = b.out.forwarded

WaitFor(st, W) == [st EXCEPT !.waiting = W]

\* A list of waited for ssrcs is set in the streams of a Producer.
LEMMA WaitingSet ==
    ASSUME NEW p \in Producers, NEW st \in StreamSets(p), NEW W \in SUBSET RtpSsrcs, NEW t,
           t = WaitFor(st, W)
    PROVE  t \in StreamSets(p) /\ SameMaps(t, st) /\ t.paused = st.paused /\ t.waiting = W
BY DEF WaitFor, StreamSets, SameMaps

\* What is told is set field by field.
LEMMA OutSets ==
    ASSUME NEW o \in Outs, NEW X \in Pairs
    PROVE  /\ [o EXCEPT !.pli = X] \in Outs /\ [o EXCEPT !.pli = X].asked = o.asked
           /\ [o EXCEPT !.pli = X].forwarded = o.forwarded
           /\ [o EXCEPT !.asked = X] \in Outs /\ [o EXCEPT !.asked = X].asked = X
           /\ [o EXCEPT !.asked = X].forwarded = o.forwarded
           /\ [o EXCEPT !.news = X] \in Outs /\ [o EXCEPT !.news = X].asked = o.asked
           /\ [o EXCEPT !.news = X].forwarded = o.forwarded
           /\ [o EXCEPT !.first = X] \in Outs /\ [o EXCEPT !.first = X].asked = o.asked
           /\ [o EXCEPT !.first = X].forwarded = o.forwarded
BY DEF Outs

\* What can be said of a record's parts.
LEMMA PartTypes ==
    ASSUME NEW b \in ProducerRecords, NEW p \in Producers
    PROVE  /\ b.of \in StreamTables /\ b.of[p] \in StreamSets(p) /\ b.out \in Outs
           /\ b.announced \in Pairs /\ b.open \in SUBSET Producers
           /\ b.ssrcTable \in Listens(RtpSsrcs)
           /\ b.out.pli \in Pairs /\ b.out.asked \in Pairs /\ b.out.news \in Pairs
           /\ b.out.forwarded \in Fours
           /\ b.of[p].bySsrc \in Maps(p) /\ b.of[p].byRtx \in Maps(p)
           /\ b.of[p].ssrc \in Heads(p) /\ b.of[p].rtx \in Heads(p)
           /\ b.of[p].mapped \in Heads(p) /\ b.of[p].waiting \in SUBSET RtpSsrcs
           /\ b.of[p].sr \in SUBSET Indices(p) /\ b.of[p].paused \in BOOLEAN
<1>1. /\ b.of \in StreamTables /\ b.out \in Outs /\ b.announced \in Pairs
      /\ b.open \in SUBSET Producers /\ b.ssrcTable \in Listens(RtpSsrcs)
  BY DEF ProducerRecords
<1>2. b.of[p] \in StreamSets(p)
  BY <1>1 DEF StreamTables
<1>3. /\ b.out.pli \in Pairs /\ b.out.asked \in Pairs /\ b.out.news \in Pairs
      /\ b.out.forwarded \in Fours
  BY <1>1 DEF Outs
<1>4. /\ b.of[p].bySsrc \in Maps(p) /\ b.of[p].byRtx \in Maps(p)
      /\ b.of[p].ssrc \in Heads(p) /\ b.of[p].rtx \in Heads(p)
      /\ b.of[p].mapped \in Heads(p) /\ b.of[p].waiting \in SUBSET RtpSsrcs
      /\ b.of[p].sr \in SUBSET Indices(p) /\ b.of[p].paused \in BOOLEAN
  BY <1>2 DEF StreamSets
<1> QED BY <1>1, <1>2, <1>3, <1>4

\* Sets of pairs of a Producer and an encoding.
LEMMA PairSets ==
    ASSUME NEW X \in Pairs, NEW p \in Producers, NEW K \in SUBSET Indices(p)
    PROVE  X \cup {<<p, i>> : i \in K} \in Pairs
BY IndicesPositive DEF Pairs

\* What holds once the KeyFrameRequestManager was told of the ssrcs S.
Needed(d, b, p, S) ==
    /\ Kept(d, b, p) /\ d.out.asked = b.out.asked
    /\ \A s \in S : b.of[p].bySsrc[s] # 0 => s \in d.of[p].waiting

\* The ssrcs of streams it is told of are waited for.
LEMMA KeyFrameFacts ==
    ASSUME NEW b \in ProducerRecords, NEW p \in Producers, NEW S \in SUBSET RtpSsrcs,
           NEW force \in BOOLEAN, NEW d, d = OnKeyFrameNeeded(b, p, S, force)
    PROVE  Needed(d, b, p, S)
<1> DEFINE wanted == {s \in S : b.of[p].bySsrc[s] # 0 /\ (force \/ s \notin b.of[p].waiting)}
           W == b.of[p].waiting \cup wanted
           told == {<<p, b.of[p].bySsrc[s]>> : s \in wanted}
           st == [b.of[p] EXCEPT !.waiting = W]
           o == [b.out EXCEPT !.pli = b.out.pli \cup told]
<1>1. d = Put(b, p, st, o)
  BY Zenon DEF OnKeyFrameNeeded, Put
<1>2. wanted \in SUBSET RtpSsrcs /\ W \in SUBSET RtpSsrcs
  BY PartTypes
<1>3. \A s \in S : b.of[p].bySsrc[s] # 0 => s \in W
  OBVIOUS
<1>4. \A s \in wanted : b.of[p].bySsrc[s] \in Indices(p)
  BY <1>2, PartTypes DEF Maps
<1>5. b.out.pli \cup told \in Pairs
  BY <1>4, PartTypes, IndicesPositive DEF Pairs
<1>6. o \in Outs /\ o.asked = b.out.asked /\ o.forwarded = b.out.forwarded
  BY <1>5, PartTypes, OutSets, Zenon
<1>7. st \in StreamSets(p) /\ SameMaps(st, b.of[p]) /\ st.paused = b.of[p].paused /\ st.waiting = W
  <2> HIDE DEF W, wanted
  <2>1. W \in SUBSET RtpSsrcs /\ b.of[p] \in StreamSets(p)
    BY <1>2, PartTypes
  <2>2. st = WaitFor(b.of[p], W)
    BY DEF WaitFor
  <2> HIDE DEF st
  <2> QED BY <2>1, <2>2, WaitingSet
<1> HIDE DEF st, o, W
<1>9. /\ d \in ProducerRecords /\ Beside(d, b, p) /\ d.of[p] = st /\ d.out = o
      /\ d.announced = b.announced
  BY <1>1, <1>6, <1>7, PutFacts
<1>10. Kept(d, b, p)
  BY <1>6, <1>7, <1>9 DEF Kept
<1> QED BY <1>3, <1>6, <1>7, <1>9, <1>10 DEF Needed

\* A step that keeps the streams keeps the tables in order.
LEMMA KeptOK ==
    ASSUME NEW b \in ProducerRecords, ProducersOK(b), NEW p \in b.open, NEW d, Kept(d, b, p)
    PROVE  ProducersOK(d)
<1>1. p \in Producers
  BY DEF ProducerRecords
<1>2. StreamsOK(p, b.of[p], b.ssrcTable)
  BY <1>1 DEF ProducersOK
<1>3. StreamsOK(p, d.of[p], b.ssrcTable)
  BY <1>2, SameMapsOK DEF Kept
<1> QED BY <1>3, BesideOK DEF Kept

\* Kept steps follow each other.
LEMMA KeptTrans ==
    ASSUME NEW b, NEW c, NEW d, NEW p, Kept(c, b, p), Kept(d, c, p)
    PROVE  Kept(d, b, p)
<1>1. Beside(d, b, p)
  BY DEF Kept, Beside
<1>2. SameMaps(d.of[p], b.of[p])
  BY DEF Kept, SameMaps
<1> QED BY <1>1, <1>2 DEF Kept

\* A key frame of the stream with ssrc s is not needed, waited for or among `coming'.
Served(p, st, s, coming) ==
    p \notin IsVideo \/ st.paused \/ s = 0 \/ s \in st.waiting \/ s \in coming

Coming(current) == {pk.ssrc : pk \in {c \in current : c.key}}

\* The Consumers that ask for key frames are served.
LEMMA RequestFacts ==
    ASSUME NEW b \in ProducerRecords, ProducersOK(b), NEW p \in b.open,
           NEW asks \in SUBSET Indices(p), NEW current, NEW d,
           d = RequestKeyFrame(b, p, asks, current)
    PROVE  /\ Kept(d, b, p) /\ d.out.asked = b.out.asked \cup {<<p, i>> : i \in asks}
           /\ \A i \in asks : Served(p, d.of[p], d.of[p].ssrc[i], Coming(current))
<1> DEFINE X == b.out.asked \cup {<<p, i>> : i \in asks}
           o == [b.out EXCEPT !.asked = X]
           S == {b.of[p].mapped[i] : i \in asks} \ ({0} \cup Coming(current))
<1>1. p \in Producers
  BY DEF ProducerRecords
<1>2. X \in Pairs
  BY <1>1, PartTypes, PairSets, Zenon
<1>3. o \in Outs /\ o.asked = X /\ o.forwarded = b.out.forwarded
  <2> HIDE DEF X
  <2>1. b.out \in Outs
    BY <1>1, PartTypes
  <2> QED BY <1>2, <2>1, OutSets, Zenon
<1>4. PICK a : a = [b EXCEPT !.out = o]
  BY Zenon
<1>5. a \in ProducerRecords
  <2> HIDE DEF o
  <2> QED BY <1>3, <1>4 DEF ProducerRecords
<1>6. /\ a.out = o /\ a.open = b.open /\ a.ssrcTable = b.ssrcTable /\ a.midTable = b.midTable
      /\ a.ridTable = b.ridTable /\ a.fault = b.fault /\ a.of = b.of /\ a.announced = b.announced
  <2> HIDE DEF o
  <2> QED BY <1>4 DEF ProducerRecords
<1>7. Kept(a, b, p) /\ a.out.asked = X
  <2> HIDE DEF o, X
  <2> QED BY <1>3, <1>5, <1>6 DEF Kept, Beside, SameMaps
<1>9. d = IF p \notin IsVideo \/ b.of[p].paused THEN a ELSE OnKeyFrameNeeded(a, p, S, FALSE)
  BY <1>4, Zenon DEF RequestKeyFrame, Coming
<1>10. CASE p \notin IsVideo \/ b.of[p].paused
  <2>1. d = a
    BY <1>9, <1>10, Zenon
  <2>2. \A i \in asks : Served(p, d.of[p], d.of[p].ssrc[i], Coming(current))
    BY <1>6, <1>10, <2>1, Zenon DEF Served
  <2> QED BY <1>7, <2>1, <2>2
<1>11. CASE ~(p \notin IsVideo \/ b.of[p].paused)
  <2>1. d = OnKeyFrameNeeded(a, p, S, FALSE)
    BY <1>9, <1>11
  <2>2. \A i \in asks : b.of[p].mapped[i] \in RtpSsrcs \cup {0}
    BY <1>1, PartTypes DEF Heads
  <2>3. S \in SUBSET RtpSsrcs
    BY <2>2, Zenon
  <2>4. PICK no \in BOOLEAN : d = OnKeyFrameNeeded(a, p, S, no)
    BY <2>1, Zenon
  <2>5. /\ Kept(d, a, p) /\ d.out.asked = X
        /\ \A s \in S : a.of[p].bySsrc[s] # 0 => s \in d.of[p].waiting
    <3> HIDE DEF S, X
    <3>1. /\ Kept(d, a, p) /\ d.out.asked = a.out.asked
          /\ \A s \in S : a.of[p].bySsrc[s] # 0 => s \in d.of[p].waiting
      <4>1. Needed(d, a, p, S)
        BY <1>1, <1>5, <2>3, <2>4, KeyFrameFacts
      <4> QED BY <4>1 DEF Needed
    <3> QED BY <1>7, <3>1
  <2>6. Kept(d, b, p)
    BY <1>7, <2>5, KeptTrans, Zenon
  <2>7. ASSUME NEW i \in asks PROVE Served(p, d.of[p], d.of[p].ssrc[i], Coming(current))
    <3>1. d.of[p].ssrc[i] = b.of[p].ssrc[i]
      BY <2>6, Zenon DEF Kept, SameMaps
    <3>2. StreamsOK(p, b.of[p], b.ssrcTable)
      BY <1>1 DEF ProducersOK
    <3>3. i \in Indices(p)
      OBVIOUS
    <3>4. /\ b.of[p].mapped[i] = b.of[p].ssrc[i]
          /\ b.of[p].ssrc[i] # 0 => b.of[p].bySsrc[b.of[p].ssrc[i]] = i
      BY <3>2, <3>3, Zenon DEF StreamsOK, MapsOK
    <3>5. i # 0
      BY <3>3, IndicesPositive
    <3>6. b.of[p].ssrc[i] # 0 /\ b.of[p].ssrc[i] \notin Coming(current) => b.of[p].ssrc[i] \in S
      BY <3>4, Zenon
    <3>7. b.of[p].ssrc[i] # 0 /\ b.of[p].ssrc[i] \notin Coming(current)
            => b.of[p].ssrc[i] \in d.of[p].waiting
      <4> HIDE DEF S
      <4> QED BY <1>6, <2>5, <3>4, <3>5, <3>6, Zenon
    <3> QED BY <3>1, <3>7, Zenon DEF Served
  <2> QED BY <2>5, <2>6, <2>7
<1> QED BY <1>10, <1>11, Zenon

\* A set of numbers that is not empty has a least one.
LEMMA LeastIndex ==
    ASSUME NEW T \in SUBSET Nat, T # {}
    PROVE  \E i \in T : \A j \in T : i <= j
<1> DEFINE R == OpToRel(<, Nat)
<1>1. IsWellFoundedOn(R, Nat)
  BY NatLessThanWellFounded, Zenon
<1>2. PICK i \in T : \A j \in T : <<j, i>> \notin R
  <2> HIDE DEF R
  <2> QED BY <1>1, WFMin, Zenon
<1>3. \A j \in T : ~(j < i)
  BY <1>2, Zenon DEF OpToRel
<1> QED BY <1>3

\* The encoding i announces no ssrc, or that of the packet.
Fits(p, pk, i) ==
    \/ pk.pt = "media" /\ Encodings[p][i].ssrc = pk.ssrc
    \/ pk.pt = "rtx"
    \/ Encodings[p][i].ssrc = 0

\* The encoding of a packet is one of the Producer's, and fits.
LEMMA EncodingFacts ==
    ASSUME NEW p \in Producers, NEW pk \in Packets, EncodingOf(p, pk) # 0
    PROVE  EncodingOf(p, pk) \in Indices(p) /\ Fits(p, pk, EncodingOf(p, pk))
<1> DEFINE announced == {i \in Indices(p) : \/ pk.pt = "media" /\ Encodings[p][i].ssrc = pk.ssrc
                                            \/ pk.pt = "rtx" /\ Encodings[p][i].rtx = pk.ssrc}
           ridden == {i \in Indices(p) : Encodings[p][i].rid = pk.rid}
           alone == {i \in Indices(p) : Len(Encodings[p]) = 1 /\ Encodings[p][i].ssrc = 0
                                        /\ Encodings[p][i].rid = ""}
           found == IF announced # {} THEN announced ELSE IF pk.rid # "" THEN ridden ELSE alone
<1>1. EncodingOf(p, pk) = IF found = {} THEN 0 ELSE CHOOSE i \in found : \A j \in found : i <= j
  BY Zenon DEF EncodingOf
<1>2. \A i \in announced : Fits(p, pk, i)
  BY DEF Fits
<1>3. pk.rid # "" => \A i \in ridden : Fits(p, pk, i)
  BY ProducerAssumption, Zenon DEF Fits, Indices
<1>4. \A i \in alone : Fits(p, pk, i)
  BY Zenon DEF Fits
<1>5. found \in SUBSET Indices(p)
  BY Zenon
<1>6. \A i \in found : Fits(p, pk, i)
  <2> HIDE DEF announced, ridden, alone
  <2> QED BY <1>2, <1>3, <1>4, Zenon
<1> HIDE DEF found
<1>7. found \in SUBSET Nat
  BY <1>5, IndicesPositive
<1>8. found # {}
  BY <1>1
<1>9. \E i \in found : \A j \in found : i <= j
  BY <1>7, <1>8, LeastIndex
<1>10. EncodingOf(p, pk) \in found
  BY <1>1, <1>8, <1>9, Zenon
<1> QED BY <1>5, <1>6, <1>10

WithStream(st, i, s) == [st EXCEPT !.bySsrc[s] = i, !.ssrc[i] = s, !.mapped[i] = s]
WithRtx(st, i, s) == [st EXCEPT !.byRtx[s] = i, !.rtx[i] = s]

\* A stream is created for an ssrc that no stream has, in an encoding without a stream.
LEMMA CreateFacts ==
    ASSUME NEW p \in Producers, NEW st \in StreamSets(p), NEW table \in Listens(RtpSsrcs),
           StreamsOK(p, st, table), NEW i \in Indices(p), NEW s \in RtpSsrcs, st.ssrc[i] = 0, st.bySsrc[s] = 0,
           st.byRtx[s] = 0, table[s] = p, Encodings[p][i].ssrc \in {0, s}, NEW t,
           t = WithStream(st, i, s)
    PROVE  /\ t \in StreamSets(p) /\ StreamsOK(p, t, table)
           /\ t.ssrc = [st.ssrc EXCEPT ![i] = s] /\ t.waiting = st.waiting /\ t.paused = st.paused
<1>1. /\ st.bySsrc \in Maps(p) /\ st.byRtx \in Maps(p) /\ st.ssrc \in Heads(p) /\ st.rtx \in Heads(p)
      /\ st.mapped \in Heads(p)
  BY DEF StreamSets
<1>2. PICK f : f = [st.bySsrc EXCEPT ![s] = i]
  BY Zenon
<1>3. PICK h : h = [st.ssrc EXCEPT ![i] = s]
  BY Zenon
<1>4. PICK m : m = [st.mapped EXCEPT ![i] = s]
  BY Zenon
<1>5. t = [st EXCEPT !.bySsrc = f, !.ssrc = h, !.mapped = m]
  BY <1>2, <1>3, <1>4, Zenon DEF WithStream
<1>6. f \in Maps(p) /\ f[s] = i /\ \A k \in RtpSsrcs \ {s} : f[k] = st.bySsrc[k]
  BY <1>1, <1>2 DEF Maps
<1>7. h \in Heads(p) /\ h[i] = s /\ \A k \in Indices(p) \ {i} : h[k] = st.ssrc[k]
  BY <1>1, <1>3, Zenon DEF Heads
<1>8. m \in Heads(p) /\ m[i] = s /\ \A k \in Indices(p) \ {i} : m[k] = st.mapped[k]
  BY <1>1, <1>4 DEF Heads
<1>9. t \in StreamSets(p)
  BY <1>5, <1>6, <1>7, <1>8, Zenon DEF StreamSets
<1>10. /\ t.bySsrc = f /\ t.ssrc = h /\ t.mapped = m /\ t.byRtx = st.byRtx /\ t.rtx = st.rtx
       /\ t.waiting = st.waiting /\ t.paused = st.paused
  BY <1>5 DEF StreamSets
<1>11. s # 0 /\ i # 0
  BY ProducerAssumption, IndicesPositive, Zenon
<1>12. ASSUME NEW k \in RtpSsrcs
       PROVE  /\ f[k] # 0 \/ st.byRtx[k] # 0 => table[k] = p
              /\ f[k] = 0 \/ st.byRtx[k] = 0
              /\ f[k] # 0 => h[f[k]] = k
              /\ st.byRtx[k] # 0 => st.rtx[st.byRtx[k]] = k
  <2>1. /\ st.bySsrc[k] # 0 \/ st.byRtx[k] # 0 => table[k] = p
        /\ st.bySsrc[k] = 0 \/ st.byRtx[k] = 0
        /\ st.bySsrc[k] # 0 => st.ssrc[st.bySsrc[k]] = k
        /\ st.byRtx[k] # 0 => st.rtx[st.byRtx[k]] = k
    BY Zenon DEF StreamsOK, MapsOK
  <2>2. CASE k = s
    BY <1>6, <1>7, <2>1, <2>2
  <2>3. CASE k # s
    <3>1. f[k] = st.bySsrc[k] /\ k # 0
      BY <1>6, <2>3, ProducerAssumption, Zenon
    <3>2. st.bySsrc[k] # 0 => st.bySsrc[k] \in Indices(p) \ {i}
      BY <1>1, <2>1, <3>1, Zenon DEF Maps
    <3> QED BY <1>7, <2>1, <3>1, <3>2, Zenon
  <2> QED BY <2>2, <2>3, Zenon
<1>13. ASSUME NEW k \in Indices(p)
       PROVE  /\ m[k] = h[k]
              /\ h[k] # 0 => f[h[k]] = k
              /\ st.rtx[k] # 0 => h[k] # 0
              /\ h[k] # 0 /\ Encodings[p][k].ssrc # 0 => h[k] = Encodings[p][k].ssrc
  <2>1. /\ st.mapped[k] = st.ssrc[k]
        /\ st.ssrc[k] # 0 => st.bySsrc[st.ssrc[k]] = k
        /\ st.rtx[k] # 0 => st.ssrc[k] # 0
        /\ st.ssrc[k] # 0 /\ Encodings[p][k].ssrc # 0 => st.ssrc[k] = Encodings[p][k].ssrc
    BY Zenon DEF StreamsOK, MapsOK
  <2>2. CASE k = i
    BY <1>6, <1>7, <1>8, <1>11, <2>1, <2>2, Zenon
  <2>3. CASE k # i
    <3>1. h[k] = st.ssrc[k] /\ m[k] = st.mapped[k] /\ k # 0
      BY <1>7, <1>8, <2>3, IndicesPositive, Zenon
    <3>2. st.ssrc[k] # 0 => st.ssrc[k] \in RtpSsrcs \ {s}
      BY <1>1, <2>1, <3>1, Zenon DEF Heads
    <3> QED BY <1>6, <2>1, <3>1, <3>2, Zenon
  <2> QED BY <2>2, <2>3, Zenon
<1>14. StreamsOK(p, t, table)
  <2>1. MapsOK(p, table, f, st.byRtx, h, st.rtx, m)
    BY <1>12, <1>13, Zenon DEF MapsOK
  <2> QED BY <1>10, <2>1, Zenon DEF StreamsOK
<1> QED BY <1>3, <1>9, <1>10, <1>14

\* A stream is given the ssrc of its RTX.
LEMMA RtxFacts ==
    ASSUME NEW p \in Producers, NEW st \in StreamSets(p), NEW table \in Listens(RtpSsrcs),
           StreamsOK(p, st, table), NEW i \in Indices(p), NEW s \in RtpSsrcs, st.ssrc[i] # 0, st.rtx[i] = 0, st.bySsrc[s] = 0,
           st.byRtx[s] = 0, table[s] = p, NEW t, t = WithRtx(st, i, s)
    PROVE  /\ t \in StreamSets(p) /\ StreamsOK(p, t, table)
           /\ t.ssrc = st.ssrc /\ t.waiting = st.waiting /\ t.paused = st.paused
<1>1. st.byRtx \in Maps(p) /\ st.rtx \in Heads(p)
  BY DEF StreamSets
<1>2. PICK f : f = [st.byRtx EXCEPT ![s] = i]
  BY Zenon
<1>3. PICK h : h = [st.rtx EXCEPT ![i] = s]
  BY Zenon
<1>4. t = [st EXCEPT !.byRtx = f, !.rtx = h]
  BY <1>2, <1>3, Zenon DEF WithRtx
<1>5. f \in Maps(p) /\ f[s] = i /\ \A k \in RtpSsrcs \ {s} : f[k] = st.byRtx[k]
  BY <1>1, <1>2, Zenon DEF Maps
<1>6. h \in Heads(p) /\ h[i] = s /\ \A k \in Indices(p) \ {i} : h[k] = st.rtx[k]
  BY <1>1, <1>3 DEF Heads
<1>7. t \in StreamSets(p)
  BY <1>4, <1>5, <1>6, Zenon DEF StreamSets
<1>8. /\ t.bySsrc = st.bySsrc /\ t.ssrc = st.ssrc /\ t.mapped = st.mapped /\ t.byRtx = f /\ t.rtx = h
      /\ t.waiting = st.waiting /\ t.paused = st.paused
  BY <1>4 DEF StreamSets
<1>9. ASSUME NEW k \in RtpSsrcs
      PROVE  /\ st.bySsrc[k] # 0 \/ f[k] # 0 => table[k] = p
             /\ st.bySsrc[k] = 0 \/ f[k] = 0
             /\ st.bySsrc[k] # 0 => st.ssrc[st.bySsrc[k]] = k
             /\ f[k] # 0 => h[f[k]] = k
  <2>1. /\ st.bySsrc[k] # 0 \/ st.byRtx[k] # 0 => table[k] = p
        /\ st.bySsrc[k] = 0 \/ st.byRtx[k] = 0
        /\ st.bySsrc[k] # 0 => st.ssrc[st.bySsrc[k]] = k
        /\ st.byRtx[k] # 0 => st.rtx[st.byRtx[k]] = k
    BY Zenon DEF StreamsOK, MapsOK
  <2>2. CASE k = s
    BY <1>5, <1>6, <2>1, <2>2, Zenon
  <2>3. CASE k # s
    <3>1. f[k] = st.byRtx[k] /\ k # 0
      BY <1>5, <2>3, ProducerAssumption, Zenon
    <3>2. st.byRtx[k] # 0 => st.byRtx[k] \in Indices(p) \ {i}
      BY <1>1, <2>1, <3>1, Zenon DEF Maps
    <3> QED BY <1>6, <2>1, <3>1, <3>2, Zenon
  <2> QED BY <2>2, <2>3, Zenon
<1>10. \A k \in Indices(p) : h[k] # 0 => st.ssrc[k] # 0
  BY <1>6, Zenon DEF StreamsOK, MapsOK
<1>11. StreamsOK(p, t, table)
  <2>1. \A k \in Indices(p) :
            /\ st.mapped[k] = st.ssrc[k]
            /\ st.ssrc[k] # 0 => st.bySsrc[st.ssrc[k]] = k
            /\ st.ssrc[k] # 0 /\ Encodings[p][k].ssrc # 0 => st.ssrc[k] = Encodings[p][k].ssrc
    BY Zenon DEF StreamsOK, MapsOK
  <2>2. MapsOK(p, table, st.bySsrc, f, st.ssrc, h, st.mapped)
    BY <1>9, <1>10, <2>1, Zenon DEF MapsOK
  <2> QED BY <1>8, <2>2 DEF StreamsOK
<1> QED BY <1>7, <1>8, <1>11, Zenon

Place(b, p, st) == [b EXCEPT !.of[p] = st]

\* The streams of p are replaced and nothing is told.
LEMMA PlaceFacts ==
    ASSUME NEW b \in ProducerRecords, NEW p \in Producers, NEW st \in StreamSets(p), NEW d,
           d = Place(b, p, st)
    PROVE  /\ d \in ProducerRecords /\ Beside(d, b, p) /\ d.of[p] = st /\ d.out = b.out
           /\ d.announced = b.announced
<1>1. b.of \in StreamTables
  BY DEF ProducerRecords
<1>2. PICK of \in StreamTables : of = [b.of EXCEPT ![p] = st]
  BY <1>1, OfSet, Zenon
<1>3. of[p] = st /\ \A q \in Producers \ {p} : of[q] = b.of[q]
  BY <1>1, <1>2, OfSet, SMTT(60)
<1>4. d = [b EXCEPT !.of = of]
  BY <1>2 DEF Place
<1>5. d \in ProducerRecords
  BY <1>4 DEF ProducerRecords
<1>6. /\ d.of = of /\ d.out = b.out /\ d.open = b.open /\ d.ssrcTable = b.ssrcTable
      /\ d.midTable = b.midTable /\ d.ridTable = b.ridTable /\ d.fault = b.fault
      /\ d.announced = b.announced
  BY <1>4 DEF ProducerRecords
<1> QED BY <1>3, <1>5, <1>6, Zenon DEF Beside

\* What the lookup of a packet's stream changes, and what it finds.
Looked(d, b, p) ==
    /\ d \in ProducerRecords /\ ProducersOK(d) /\ Beside(d, b, p) /\ d.out = b.out
    /\ d.announced = b.announced /\ d.of[p].waiting = b.of[p].waiting
    /\ d.of[p].paused = b.of[p].paused

Found(d, b, p, pk, i) ==
    /\ i \in Indices(p) \cup {0}
    /\ i # 0 => d.of[p].ssrc[i] # 0
    /\ \/ d.of[p].ssrc = b.of[p].ssrc
       \/ i # 0 /\ pk.pt = "media" /\ d.of[p].ssrc = [b.of[p].ssrc EXCEPT ![i] = pk.ssrc]

\* A stream that is created is a stream of its own: no assertion fails.
LEMMA CreatedFacts ==
    ASSUME NEW b \in ProducerRecords, ProducersOK(b), NEW p \in b.open, NEW i \in Indices(p),
           NEW s \in RtpSsrcs, b.ssrcTable[s] = p, b.of[p].bySsrc[s] = 0, b.of[p].byRtx[s] = 0,
           Encodings[p][i].ssrc \in {0, s}, Encodings[p][i].ssrc = s \/ b.of[p].ssrc[i] = 0
    PROVE  /\ Looked(CreateRtpStream(b, p, i, s), b, p)
           /\ CreateRtpStream(b, p, i, s).of[p].ssrc = [b.of[p].ssrc EXCEPT ![i] = s]
<1>1. /\ p \in Producers /\ b.of[p] \in StreamSets(p) /\ StreamsOK(p, b.of[p], b.ssrcTable)
      /\ b.fault = FALSE /\ s # 0 /\ i # 0 /\ b.ssrcTable \in Listens(RtpSsrcs)
  <2>1. p \in Producers
    BY Zenon DEF ProducerRecords
  <2>2. StreamsOK(p, b.of[p], b.ssrcTable) /\ b.fault = FALSE
    BY <2>1, Zenon DEF ProducersOK
  <2>3. s # 0 /\ i # 0
    BY IndicesPositive, ProducerAssumption, ZenonT(40)
  <2> QED BY <2>1, <2>2, <2>3, PartTypes, Zenon
<1>2. b.of[p].ssrc[i] = 0
  <2>1. b.of[p].ssrc[i] # 0 /\ Encodings[p][i].ssrc # 0 => b.of[p].ssrc[i] = Encodings[p][i].ssrc
    BY <1>1, Zenon DEF StreamsOK, MapsOK
  <2>2. b.of[p].ssrc[i] # 0 => b.of[p].bySsrc[b.of[p].ssrc[i]] = i
    BY <1>1, Zenon DEF StreamsOK, MapsOK
  <2> QED BY <1>1, <2>1, <2>2, Zenon
<1>3. PICK t : t = WithStream(b.of[p], i, s)
  BY Zenon
<1>4. /\ t \in StreamSets(p) /\ StreamsOK(p, t, b.ssrcTable)
      /\ t.ssrc = [b.of[p].ssrc EXCEPT ![i] = s] /\ t.waiting = b.of[p].waiting
      /\ t.paused = b.of[p].paused
  BY <1>1, <1>2, <1>3, CreateFacts, SMTT(60)
<1>5. PICK fault : fault = (b.fault \/ b.of[p].bySsrc[s] # 0 \/ b.of[p].ssrc[i] # 0)
  BY Zenon
<1>6. fault = FALSE
  BY <1>1, <1>2, <1>5, Zenon
<1>7. PICK c : c = Place(b, p, t)
  BY Zenon
<1>8. /\ c \in ProducerRecords /\ Beside(c, b, p) /\ c.of[p] = t /\ c.out = b.out
      /\ c.announced = b.announced
  BY <1>1, <1>4, <1>7, PlaceFacts, SMTT(60)
<1>9. PICK d : d = [c EXCEPT !.fault = fault]
  BY Zenon
<1>10. CreateRtpStream(b, p, i, s) = d
  BY <1>3, <1>5, <1>7, <1>9, Zenon DEF CreateRtpStream, Place, WithStream
<1>11. d \in ProducerRecords
  BY <1>6, <1>8, <1>9, Zenon DEF ProducerRecords
<1>12. /\ d.of = c.of /\ d.out = c.out /\ d.open = c.open /\ d.ssrcTable = c.ssrcTable
       /\ d.midTable = c.midTable /\ d.ridTable = c.ridTable /\ d.fault = fault
       /\ d.announced = c.announced
  BY <1>8, <1>9 DEF ProducerRecords
<1>13. Beside(d, b, p)
  BY <1>1, <1>6, <1>8, <1>12, Zenon DEF Beside
<1>14. ProducersOK(d)
  BY <1>4, <1>8, <1>11, <1>12, <1>13, BesideOK, Zenon
<1> QED BY <1>4, <1>8, <1>10, <1>11, <1>12, <1>13, <1>14, Zenon DEF Looked

\* The stream of a packet is found, created or given its RTX.
LEMMA GetFacts ==
    ASSUME NEW b \in ProducerRecords, ProducersOK(b), NEW p \in b.open, NEW pk \in Packets,
           b.ssrcTable[pk.ssrc] = p
    PROVE  /\ Looked(GetRtpStream(b, p, pk).b, b, p)
           /\ Found(GetRtpStream(b, p, pk).b, b, p, pk, GetRtpStream(b, p, pk).enc)
<1>1. PICK s : s = pk.ssrc
  BY Zenon
<1>2. s \in RtpSsrcs
  BY <1>1, Zenon DEF Packets
<1>3. PICK st : st = b.of[p]
  BY Zenon
<1>4. PICK i : i = EncodingOf(p, pk)
  BY Zenon
<1>5. /\ p \in Producers /\ st \in StreamSets(p) /\ StreamsOK(p, st, b.ssrcTable)
      /\ b.ssrcTable \in Listens(RtpSsrcs)
  BY <1>3, PartTypes, Zenon DEF ProducerRecords, ProducersOK
<1>6. i # 0 => i \in Indices(p) /\ Fits(p, pk, i)
  BY <1>4, <1>5, EncodingFacts, Zenon
<1>7. PICK g : g = GetRtpStream(b, p, pk)
  BY Zenon
<1>8. PICK c : c = Place(b, p, WithRtx(b.of[p], i, s))
  BY Zenon
<1>9. g = IF st.bySsrc[s] # 0 THEN [enc |-> st.bySsrc[s], b |-> b]
          ELSE IF st.byRtx[s] # 0 THEN [enc |-> st.byRtx[s], b |-> b]
          ELSE IF i = 0 THEN [enc |-> 0, b |-> b]
          ELSE IF pk.pt = "media" /\ ((i # 0 /\ Encodings[p][i].ssrc = s) \/ st.ssrc[i] = 0)
          THEN [enc |-> i, b |-> CreateRtpStream(b, p, i, s)]
          ELSE IF pk.pt = "rtx" /\ p \in IsVideo /\ st.ssrc[i] # 0 /\ st.rtx[i] = 0
          THEN [enc |-> i, b |-> c]
          ELSE [enc |-> 0, b |-> b]
  BY <1>1, <1>3, <1>4, <1>7, <1>8, Zenon DEF GetRtpStream, Place, WithRtx
<1>10. Looked(b, b, p)
  BY <1>5, Zenon DEF Looked, Beside
<1>11. /\ st.bySsrc[s] \in Indices(p) \cup {0} /\ st.byRtx[s] \in Indices(p) \cup {0}
  BY <1>2, <1>5 DEF StreamSets, Maps
<1>12. CASE st.bySsrc[s] # 0
  <2>1. g.enc = st.bySsrc[s] /\ g.b = b
    BY <1>9, <1>12, Zenon
  <2>2. st.ssrc[st.bySsrc[s]] = s
    BY <1>2, <1>5, <1>12, Zenon DEF StreamsOK, MapsOK
  <2>3. s # 0
    BY <1>2, ProducerAssumption, Zenon
  <2>4. Found(b, b, p, pk, g.enc)
    BY <1>3, <1>11, <2>1, <2>2, <2>3, Zenon DEF Found
  <2> QED BY <1>7, <1>10, <2>1, <2>4, Zenon
<1>13. CASE st.bySsrc[s] = 0 /\ st.byRtx[s] # 0
  <2>1. g.enc = st.byRtx[s] /\ g.b = b
    BY <1>9, <1>13, Zenon
  <2>2. st.rtx[st.byRtx[s]] = s
    BY <1>2, <1>5, <1>13, Zenon DEF StreamsOK, MapsOK
  <2>3. s # 0 /\ st.byRtx[s] \in Indices(p)
    BY <1>2, <1>11, <1>13, ProducerAssumption, Zenon
  <2>4. st.ssrc[st.byRtx[s]] # 0
    BY <1>5, <2>2, <2>3, Zenon DEF StreamsOK, MapsOK
  <2>5. Found(b, b, p, pk, g.enc)
    BY <1>3, <2>1, <2>3, <2>4, Zenon DEF Found
  <2> QED BY <1>7, <1>10, <2>1, <2>5, Zenon
<1>14. ASSUME g.enc = 0, g.b = b
       PROVE  Looked(g.b, b, p) /\ Found(g.b, b, p, pk, g.enc)
  <2>1. Found(b, b, p, pk, 0)
    BY DEF Found
  <2> QED BY <1>10, <1>14, <2>1
<1>15. CASE st.bySsrc[s] = 0 /\ st.byRtx[s] = 0 /\ i # 0
            /\ pk.pt = "media" /\ (Encodings[p][i].ssrc = s \/ st.ssrc[i] = 0)
  <2>1. g.enc = i /\ g.b = CreateRtpStream(b, p, i, s)
    BY <1>9, <1>15, Zenon
  <2>2. Encodings[p][i].ssrc \in {0, s}
    BY <1>1, <1>6, <1>15 DEF Fits
  <2>3. Looked(g.b, b, p) /\ g.b.of[p].ssrc = [b.of[p].ssrc EXCEPT ![i] = s]
    BY <1>1, <1>2, <1>3, <1>6, <1>15, <2>1, <2>2, CreatedFacts, SMTT(60)
  <2>4. g.b.of[p].ssrc[i] = s
    BY <1>3, <1>5, <1>6, <1>15, <2>3, Zenon DEF StreamSets, Heads
  <2>5. s # 0
    BY <1>2, ProducerAssumption, Zenon
  <2>6. Found(g.b, b, p, pk, g.enc)
    BY <1>1, <1>6, <1>15, <2>1, <2>3, <2>4, <2>5, Zenon DEF Found
  <2> QED BY <1>7, <2>3, <2>6
<1>16. CASE st.bySsrc[s] = 0 /\ st.byRtx[s] = 0 /\ i # 0
            /\ pk.pt = "rtx" /\ p \in IsVideo /\ st.ssrc[i] # 0 /\ st.rtx[i] = 0
  <2>1. g.enc = i /\ g.b = c
    BY <1>9, <1>16, Zenon
  <2>2. PICK t : t = WithRtx(st, i, s)
    BY Zenon
  <2>3. /\ t \in StreamSets(p) /\ StreamsOK(p, t, b.ssrcTable)
        /\ t.ssrc = st.ssrc /\ t.waiting = st.waiting /\ t.paused = st.paused
    BY <1>1, <1>2, <1>5, <1>6, <1>16, <2>2, RtxFacts, SMTT(60)
  <2>4. c = Place(b, p, t)
    BY <1>3, <1>8, <2>2, Zenon
  <2>5. /\ c \in ProducerRecords /\ Beside(c, b, p) /\ c.of[p] = t /\ c.out = b.out
        /\ c.announced = b.announced
    BY <1>5, <2>3, <2>4, PlaceFacts, SMTT(60)
  <2>6. ProducersOK(c)
    BY <2>3, <2>5, BesideOK, Zenon
  <2>7. Looked(c, b, p)
    BY <1>3, <2>3, <2>5, <2>6, Zenon DEF Looked
  <2>8. Found(c, b, p, pk, i)
    BY <1>3, <1>6, <1>16, <2>3, <2>5, Zenon DEF Found
  <2> QED BY <1>7, <2>1, <2>7, <2>8, Zenon
<1>17. CASE ~(st.bySsrc[s] # 0) /\ ~(st.byRtx[s] # 0)
            /\ ~(i # 0 /\ pk.pt = "media" /\ (Encodings[p][i].ssrc = s \/ st.ssrc[i] = 0))
            /\ ~(i # 0 /\ pk.pt = "rtx" /\ p \in IsVideo /\ st.ssrc[i] # 0 /\ st.rtx[i] = 0)
  <2>1. g.enc = 0 /\ g.b = b
    BY <1>9, <1>17, Zenon
  <2> QED BY <1>7, <1>14, <2>1, Zenon
<1> QED BY <1>12, <1>13, <1>15, <1>16, <1>17, Zenon

Waits(b, p, W) == [b EXCEPT !.of[p] = [b.of[p] EXCEPT !.waiting = W]]

\* A list of waited for ssrcs is set, and nothing is told.
LEMMA WaitKept ==
    ASSUME NEW b \in ProducerRecords, NEW p \in Producers, NEW W \in SUBSET RtpSsrcs, NEW d,
           d = Waits(b, p, W)
    PROVE  Kept(d, b, p) /\ d.out = b.out
<1>1. PICK st : st = WaitFor(b.of[p], W)
  OBVIOUS
<1>2. b.of[p] \in StreamSets(p)
  BY PartTypes, Zenon
<1>3. st \in StreamSets(p) /\ SameMaps(st, b.of[p]) /\ st.paused = b.of[p].paused
  BY <1>1, <1>2, WaitingSet
<1>4. d = Place(b, p, st)
  BY <1>1 DEF Place, Waits, WaitFor
<1>5. /\ d \in ProducerRecords /\ Beside(d, b, p) /\ d.of[p] = st /\ d.out = b.out
      /\ d.announced = b.announced
  BY <1>3, <1>4, PlaceFacts
<1> QED BY <1>3, <1>5 DEF Kept

\* What is told and who was told of which streams change, and nothing else does.
OnlyTold(d, b) ==
    /\ d \in ProducerRecords /\ d.open = b.open /\ d.ssrcTable = b.ssrcTable
    /\ d.midTable = b.midTable /\ d.ridTable = b.ridTable /\ d.fault = b.fault /\ d.of = b.of

\* Such a step keeps the tables in order.
LEMMA OnlyToldOK ==
    ASSUME NEW b, ProducersOK(b), NEW d, OnlyTold(d, b)
    PROVE  ProducersOK(d)
<1>1. ListensOK(d)
  BY DEF OnlyTold, ProducersOK, ListensOK
<1> QED BY <1>1 DEF OnlyTold, ProducersOK

\* What holds once the Consumers learnt of a stream.
Notified(d, b, p, i, asks, coming) ==
    /\ d \in ProducerRecords /\ ProducersOK(d) /\ Beside(d, b, p)
    /\ SameMaps(d.of[p], b.of[p]) /\ d.of[p].paused = b.of[p].paused
    /\ d.announced = b.announced \cup {<<p, i>>} /\ d.out.forwarded = b.out.forwarded
    /\ d.out.asked = b.out.asked \cup {<<p, k>> : k \in asks}
    /\ \A k \in asks : Served(p, d.of[p], d.of[p].ssrc[k], coming)

\* The Consumers learn of a stream.
LEMMA NotifyFacts ==
    ASSUME NEW b \in ProducerRecords, ProducersOK(b), NEW p \in b.open, NEW i \in Indices(p),
           NEW asks \in SUBSET Indices(p), NEW current, NEW d,
           d = NotifyNewRtpStream(b, p, i, asks, current)
    PROVE  Notified(d, b, p, i, asks, Coming(current))
<1>1. p \in Producers
  BY Zenon DEF ProducerRecords
<1>2. PICK X \in Pairs : X = b.out.news \cup {<<p, i>>}
  <2>1. b.out.news \in Pairs
    BY <1>1, PartTypes, Zenon
  <2>2. <<p, i>> \in Producers \X Nat
    BY <1>1, IndicesPositive
  <2>3. b.out.news \cup {<<p, i>>} \in Pairs
    BY <2>1, <2>2, Zenon DEF Pairs
  <2> QED BY <2>3
<1>3. PICK A \in Pairs : A = b.announced \cup {<<p, i>>}
  <2>1. b.announced \in Pairs
    BY <1>1, PartTypes, Zenon
  <2>2. <<p, i>> \in Producers \X Nat
    BY <1>1, IndicesPositive, Zenon
  <2>3. b.announced \cup {<<p, i>>} \in Pairs
    BY <2>1, <2>2, Zenon DEF Pairs
  <2> QED BY <2>3, Zenon
<1>4. PICK o \in Outs : o = [b.out EXCEPT !.news = X]
  BY <1>1, PartTypes, OutSets, Zenon
<1>5. o.asked = b.out.asked /\ o.forwarded = b.out.forwarded
  <2>1. b.out \in Outs
    BY <1>1, PartTypes, Zenon
  <2> QED BY <1>4, <2>1, OutSets
<1>6. PICK n : n = [b EXCEPT !.out = o, !.announced = A]
  OBVIOUS
<1>7. d = RequestKeyFrame(n, p, asks, current)
  BY <1>2, <1>3, <1>4, <1>6, Zenon DEF NotifyNewRtpStream
<1>8. OnlyTold(n, b) /\ n.out = o /\ n.announced = A
  <2>1. n \in ProducerRecords
    BY <1>6, Zenon DEF ProducerRecords
  <2> QED BY <1>6, <2>1, Zenon DEF ProducerRecords, OnlyTold
<1>9. ProducersOK(n)
  BY <1>8, OnlyToldOK, Zenon
<1>10. n \in ProducerRecords /\ p \in n.open
  BY <1>8, Zenon DEF OnlyTold
<1>11. /\ Kept(d, n, p) /\ d.out.asked = n.out.asked \cup {<<p, k>> : k \in asks}
       /\ \A k \in asks : Served(p, d.of[p], d.of[p].ssrc[k], Coming(current))
  BY <1>7, <1>9, <1>10, RequestFacts, Zenon
<1>12. ProducersOK(d)
  BY <1>9, <1>10, <1>11, KeptOK, Zenon
<1>13. Beside(d, b, p)
  BY <1>8, <1>11, Zenon DEF Kept, Beside, OnlyTold
<1>14. /\ d \in ProducerRecords /\ SameMaps(d.of[p], b.of[p]) /\ d.of[p].paused = b.of[p].paused
       /\ d.announced = A /\ d.out.forwarded = o.forwarded
  BY <1>8, <1>11, Zenon DEF Kept, OnlyTold
<1> QED BY <1>3, <1>5, <1>8, <1>11, <1>12, <1>13, <1>14, Zenon DEF Notified

\* A packet goes to the Consumers, unless the Producer is paused.
LEMMA ForwardFacts ==
    ASSUME NEW b \in ProducerRecords, NEW p \in Producers, NEW i \in Indices(p), NEW pk \in Packets,
           NEW d, d = Forward(b, p, i, pk)
    PROVE  /\ OnlyTold(d, b) /\ d.announced = b.announced /\ d.out.asked = b.out.asked
           /\ b.of[p].paused \/ pk.pt = "other" => d.out.forwarded = b.out.forwarded
           /\ ~(b.of[p].paused \/ pk.pt = "other")
                => d.out.forwarded = b.out.forwarded \cup {<<p, i, pk.key, MangleRtpPacket(p, pk.exts)>>}
<1>1. CASE b.of[p].paused \/ pk.pt = "other"
  BY <1>1 DEF Forward, OnlyTold
<1>2. CASE ~(b.of[p].paused \/ pk.pt = "other")
  <2>1. PICK M \in SUBSET Extensions : M = MangleRtpPacket(p, pk.exts)
    <3>1. MangleRtpPacket(p, pk.exts) \in SUBSET Extensions
      BY DEF MangleRtpPacket, Extensions
    <3> QED BY <3>1
  <2>2. pk.key \in BOOLEAN
    BY Zenon DEF Packets
  <2>3. b.out \in Outs /\ b.out.forwarded \in Fours
    BY PartTypes, Zenon
  <2>4. PICK F \in Fours : F = b.out.forwarded \cup {<<p, i, pk.key, M>>}
    <3>1. <<p, i, pk.key, M>> \in Producers \X Nat \X BOOLEAN \X SUBSET Extensions
      BY <2>2, IndicesPositive
    <3>2. b.out.forwarded \cup {<<p, i, pk.key, M>>} \in Fours
      BY <2>3, <3>1, Zenon DEF Fours
    <3> QED BY <3>2, Zenon
  <2>5. PICK o : o = [b.out EXCEPT !.forwarded = F]
    BY Zenon
  <2>6. o \in Outs /\ o.forwarded = F /\ o.asked = b.out.asked
    BY <2>3, <2>5 DEF Outs
  <2>7. d = [b EXCEPT !.out = o]
    BY <1>2, <2>1, <2>4, <2>5, Zenon DEF Forward
  <2>8. d \in ProducerRecords
    BY <2>6, <2>7 DEF ProducerRecords
  <2>9. OnlyTold(d, b) /\ d.out = o /\ d.announced = b.announced
    BY <2>7, <2>8 DEF ProducerRecords, OnlyTold
  <2> QED BY <1>2, <2>1, <2>4, <2>6, <2>9, Zenon
<1> QED BY <1>1, <1>2, Zenon

\* What is told of a step is about p, its packet and its asks.
ForwardsOf(d, p, i) ==
    /\ \A f \in d.out.forwarded : f[1] = p /\ f[2] = i
    /\ d.out.forwarded # {} => <<p, i>> \in d.announced /\ ~d.of[p].paused

AsksOf(d, p, asks) ==
    /\ d.out.asked \subseteq {<<p, k>> : k \in asks}
    /\ \A k \in asks : \/ Served(p, d.of[p], d.of[p].ssrc[k], {})
                        \/ \E f \in d.out.forwarded : f[1] = p /\ f[2] = k /\ f[3]

\* A step that told the Consumers just that.
LEMMA ToldOK ==
    ASSUME NEW b \in ProducerRecords, AllTold(b), NEW d \in ProducerRecords, ProducersOK(d),
           NEW p \in Producers, Beside(d, b, p), b.announced \subseteq d.announced,
           ToldOf(p, d.of[p], d.announced), NEW i \in Indices(p), ForwardsOf(d, p, i),
           NEW asks \in SUBSET Indices(p), AsksOf(d, p, asks)
    PROVE  ProducerOK(d)
<1>1. AllTold(d)
  <2>1. SUFFICES ASSUME NEW q \in d.open PROVE ToldOf(q, d.of[q], d.announced)
    BY Zenon DEF AllTold
  <2>2. CASE q = p
    BY <2>2, Zenon
  <2>3. CASE q # p
    <3>1. q \in b.open /\ q \in Producers /\ d.of[q] = b.of[q]
      BY <2>3 DEF Beside, ProducerRecords
    <3> QED BY <3>1, Zenon DEF AllTold, ToldOf
  <2> QED BY <2>2, <2>3, Zenon
<1>2. ForwardedOK(d)
  BY Zenon DEF ForwardedOK, ForwardsOf
<1>3. AskedOK(d)
  <2>1. SUFFICES ASSUME NEW a \in d.out.asked
                 PROVE  \/ a[1] \notin IsVideo \/ d.of[a[1]].paused \/ d.of[a[1]].ssrc[a[2]] = 0
                        \/ d.of[a[1]].ssrc[a[2]] \in d.of[a[1]].waiting
                        \/ \E f \in d.out.forwarded : f[1] = a[1] /\ f[2] = a[2] /\ f[3]
    BY Zenon DEF AskedOK
  <2>2. PICK k \in asks : a = <<p, k>>
    BY Zenon DEF AsksOf
  <2>3. a[1] = p /\ a[2] = k
    BY <2>2, Zenon
  <2> QED BY <2>3, Zenon DEF Served, AsksOf
<1> QED BY <1>1, <1>2, <1>3, Zenon DEF ProducerOK

\* So it is when nothing is forwarded and nothing asked for.
LEMMA QuietOK ==
    ASSUME NEW d \in ProducerRecords, ProducersOK(d), AllTold(d), d.out.forwarded = {}, d.out.asked = {}
    PROVE  ProducerOK(d)
BY Zenon DEF ProducerOK, ForwardedOK, AskedOK

\* Quiet, and records with it.
LEMMA QuietFacts == Quiet \in Outs /\ Quiet.asked = {} /\ Quiet.forwarded = {}
BY Zenon DEF Quiet, Outs, Pairs, Fours

\* A packet that makes no stream, and that goes to the Consumers or to nobody.
LEMMA OldPacket ==
    ASSUME NEW b \in ProducerRecords, AllTold(b), NEW p \in b.open, NEW i \in Indices(p),
           b.of[p].ssrc[i] # 0, NEW pk \in Packets, NEW c \in ProducerRecords, ProducersOK(c),
           Beside(c, b, p), c.of[p].ssrc = b.of[p].ssrc, c.announced = b.announced,
           c.out.asked = {}, c.out.forwarded = {}, NEW d, d = c \/ d = Forward(c, p, i, pk)
    PROVE  ProducerOK(d)
<1>1. p \in Producers
  BY Zenon DEF ProducerRecords
<1>2. ToldOf(p, c.of[p], c.announced)
  BY Zenon DEF AllTold, ToldOf
<1>3. <<p, i>> \in c.announced
  BY <1>2, Zenon DEF ToldOf
<1>4. /\ OnlyTold(d, c) /\ d.announced = c.announced /\ d.out.asked = {}
      /\ \A f \in d.out.forwarded : f[1] = p /\ f[2] = i
      /\ d.out.forwarded # {} => ~c.of[p].paused
  <2>1. CASE d = c
    BY <2>1, Zenon DEF OnlyTold
  <2>2. CASE d = Forward(c, p, i, pk)
    <3>1. /\ OnlyTold(d, c) /\ d.announced = c.announced /\ d.out.asked = {}
          /\ c.of[p].paused \/ pk.pt = "other" => d.out.forwarded = {}
          /\ ~(c.of[p].paused \/ pk.pt = "other")
                => d.out.forwarded = {} \cup {<<p, i, pk.key, MangleRtpPacket(p, pk.exts)>>}
      BY <1>1, <2>2, ForwardFacts, SMTT(60)
    <3> QED BY <3>1, SMTT(60)
  <2> QED BY <2>1, <2>2, Zenon
<1>5. ProducersOK(d)
  BY <1>4, OnlyToldOK, Zenon
<1>6. d \in ProducerRecords /\ d.of = c.of /\ Beside(d, b, p)
  BY <1>4, Zenon DEF OnlyTold, Beside
<1>7. ToldOf(p, d.of[p], d.announced)
  BY <1>2, <1>4, <1>6, Zenon
<1>8. PICK none \in SUBSET Indices(p) : none = {}
  BY Zenon
<1>9. AsksOf(d, p, none)
  BY <1>4, <1>8, Zenon DEF AsksOf
<1>10. ForwardsOf(d, p, i)
  BY <1>3, <1>4, <1>6, Zenon DEF ForwardsOf
<1>11. b.announced \subseteq d.announced
  BY <1>4, Zenon
<1> QED BY <1>1, <1>5, <1>6, <1>7, <1>9, <1>10, <1>11, ToldOK, Zenon

\* A packet that makes a stream: the Consumers are told, and then may get it.
LEMMA NewPacket ==
    ASSUME NEW b \in ProducerRecords, AllTold(b), NEW p \in b.open, NEW i \in Indices(p),
           NEW pk \in Packets, NEW c \in ProducerRecords, ProducersOK(c), Beside(c, b, p),
           c.of[p].ssrc = [b.of[p].ssrc EXCEPT ![i] = pk.ssrc], c.announced = b.announced,
           c.out.asked = {}, c.out.forwarded = {}, NEW asks \in SUBSET Indices(p), pk.pt = "media",
           NEW d,
           \/ d = NotifyNewRtpStream(c, p, i, asks, {})
           \/ d = Forward(NotifyNewRtpStream(c, p, i, asks, {pk}), p, i, pk)
    PROVE  ProducerOK(d)
<1>1. p \in Producers /\ p \in c.open
  BY Zenon DEF ProducerRecords, Beside
<1>2. PICK current, n : /\ n = NotifyNewRtpStream(c, p, i, asks, current)
                        /\ \/ d = n /\ current = {}
                           \/ d = Forward(n, p, i, pk) /\ current = {pk}
  BY Zenon
<1>3. /\ n \in ProducerRecords /\ ProducersOK(n) /\ Beside(n, c, p)
      /\ SameMaps(n.of[p], c.of[p]) /\ n.of[p].paused = c.of[p].paused
      /\ n.announced = c.announced \cup {<<p, i>>} /\ n.out.forwarded = c.out.forwarded
      /\ n.out.asked = c.out.asked \cup {<<p, k>> : k \in asks}
      /\ \A k \in asks : Served(p, n.of[p], n.of[p].ssrc[k], Coming(current))
  <2>1. Notified(n, c, p, i, asks, Coming(current))
    BY <1>1, <1>2, NotifyFacts, Zenon
  <2> QED BY <2>1, Zenon DEF Notified
<1>4. n.of[p].ssrc = [b.of[p].ssrc EXCEPT ![i] = pk.ssrc]
  BY <1>3, Zenon DEF SameMaps
<1>5. b.of[p].ssrc \in [Indices(p) -> RtpSsrcs \cup {0}]
  BY <1>1, PartTypes, Zenon DEF Heads
<1>6. n.of[p].ssrc[i] = pk.ssrc /\ \A k \in Indices(p) \ {i} : n.of[p].ssrc[k] = b.of[p].ssrc[k]
  BY <1>4, <1>5, Zenon
<1>7. ToldOf(p, n.of[p], n.announced)
  BY <1>3, <1>6, Zenon DEF ToldOf, AllTold
<1>8. Beside(n, b, p)
  BY <1>3, Zenon DEF Beside
<1>9. n.out.forwarded = {} /\ n.out.asked = {<<p, k>> : k \in asks}
  BY <1>3, Zenon
<1>10. CASE d = n /\ current = {}
  <2>1. Coming(current) = {}
    BY <1>10, Zenon DEF Coming
  <2>2. \A k \in asks : Served(p, d.of[p], d.of[p].ssrc[k], {})
    BY <1>3, <1>10, <2>1, Zenon
  <2>3. d \in ProducerRecords /\ ProducersOK(d) /\ Beside(d, b, p) /\ ToldOf(p, d.of[p], d.announced)
    BY <1>3, <1>7, <1>8, <1>10, Zenon
  <2>4. b.announced \subseteq d.announced /\ d.out.forwarded = {} /\ d.out.asked = {<<p, k>> : k \in asks}
    BY <1>3, <1>9, <1>10, Zenon
  <2>5. ForwardsOf(d, p, i) /\ AsksOf(d, p, asks)
    BY <2>2, <2>4, Zenon DEF ForwardsOf, AsksOf
  <2> QED BY <1>1, <2>3, <2>4, <2>5, ToldOK, Zenon
<1>11. CASE d = Forward(n, p, i, pk) /\ current = {pk}
  <2>1. /\ OnlyTold(d, n) /\ d.announced = n.announced /\ d.out.asked = n.out.asked
        /\ n.of[p].paused \/ pk.pt = "other" => d.out.forwarded = {}
        /\ ~(n.of[p].paused \/ pk.pt = "other")
              => d.out.forwarded = {} \cup {<<p, i, pk.key, MangleRtpPacket(p, pk.exts)>>}
    BY <1>1, <1>3, <1>9, <1>11, ForwardFacts, SMTT(60)
  <2>2. d \in ProducerRecords /\ d.of = n.of /\ Beside(d, b, p)
    BY <1>8, <2>1, ZenonT(40) DEF OnlyTold, Beside
  <2>3. ProducersOK(d)
    BY <1>3, <2>1, OnlyToldOK, Zenon
  <2>4. ToldOf(p, d.of[p], d.announced)
    BY <1>7, <2>1, <2>2, Zenon
  <2>5. <<p, i>> \in d.announced /\ b.announced \subseteq d.announced
    BY <1>3, <2>1, Zenon
  <2>6. \A f \in d.out.forwarded : f[1] = p /\ f[2] = i
    BY <2>1, SMTT(60)
  <2>7. d.out.forwarded # {} => ~d.of[p].paused
    BY <2>1, <2>2, Zenon
  <2>8. ASSUME NEW k \in asks
        PROVE  \/ Served(p, d.of[p], d.of[p].ssrc[k], {})
               \/ \E f \in d.out.forwarded : f[1] = p /\ f[2] = k /\ f[3]
    <3>1. Served(p, d.of[p], d.of[p].ssrc[k], Coming(current))
      BY <1>3, <2>2, Zenon
    <3>2. CASE d.of[p].ssrc[k] \in Coming(current) /\ ~d.of[p].paused
      <4>1. pk.key /\ d.of[p].ssrc[k] = pk.ssrc
        BY <1>11, <3>2, Zenon DEF Coming
      <4>2. StreamsOK(p, n.of[p], n.ssrcTable)
        BY <1>1, <1>3, Zenon DEF ProducersOK, Beside
      <4>3. pk.ssrc # 0
        BY ProducerAssumption, Zenon DEF Packets
      <4>4. n.of[p].bySsrc[pk.ssrc] = i
        <5>1. \A j \in Indices(p) : n.of[p].ssrc[j] # 0 => n.of[p].bySsrc[n.of[p].ssrc[j]] = j
          BY <4>2, Zenon DEF StreamsOK, MapsOK
        <5> QED BY <1>6, <4>3, <5>1, Zenon
      <4>5. k \in Indices(p) /\ n.of[p].ssrc[k] = pk.ssrc
        BY <2>2, <4>1, Zenon
      <4>6. n.of[p].bySsrc[pk.ssrc] = k
        BY <4>2, <4>3, <4>5, SMTT(60) DEF StreamsOK, MapsOK
      <4>7. d.out.forwarded = {<<p, i, pk.key, MangleRtpPacket(p, pk.exts)>>}
        BY <2>1, <2>2, <3>2, Zenon
      <4>8. PICK f : f = <<p, i, pk.key, MangleRtpPacket(p, pk.exts)>>
        BY Zenon
      <4>9. f[1] = p /\ f[2] = i /\ f[3] = pk.key
        BY <4>8, Zenon
      <4>10. f[3]
        BY <4>1, <4>9, Zenon
      <4>11. f \in d.out.forwarded
        BY <4>7, <4>8, Zenon
      <4>12. f[2] = k
        BY <4>4, <4>6, <4>9, Zenon
      <4> QED BY <4>9, <4>10, <4>11, <4>12, Zenon
    <3>3. CASE ~(d.of[p].ssrc[k] \in Coming(current) /\ ~d.of[p].paused)
      BY <3>1, <3>3, Zenon DEF Served
    <3> QED BY <3>2, <3>3, Zenon
  <2>9. d.out.asked \subseteq {<<p, k>> : k \in asks}
    BY <1>9, <2>1, Zenon
  <2>10. ForwardsOf(d, p, i)
    BY <2>5, <2>6, <2>7, Zenon DEF ForwardsOf
  <2>11. AsksOf(d, p, asks)
    BY <2>8, <2>9, Zenon DEF AsksOf
  <2> QED BY <1>1, <2>2, <2>3, <2>4, <2>5, <2>10, <2>11, ToldOK, Zenon
<1> QED BY <1>2, <1>10, <1>11, Zenon

\* A packet of the Producer p.
LEMMA ReceiveOK ==
    ASSUME NEW b \in ProducerRecords, ProducersOK(b), AllTold(b), b.out = Quiet, NEW p \in b.open,
           NEW pk \in Packets, b.ssrcTable[pk.ssrc] = p, NEW asks \in SUBSET Indices(p)
    PROVE  ProducerOK(ReceiveRtpPacket(b, p, pk, asks))
<1>1. p \in Producers
  BY Zenon DEF ProducerRecords
<1>2. PICK c, i : c = GetRtpStream(b, p, pk).b /\ i = GetRtpStream(b, p, pk).enc
  BY Zenon
<1>3. Looked(c, b, p) /\ Found(c, b, p, pk, i)
  BY <1>2, GetFacts, Zenon
<1>4. PICK new, media \in BOOLEAN :
          /\ new = (b.of[p].ssrc # c.of[p].ssrc)
          /\ media = (i # 0 /\ c.of[p].ssrc[i] = pk.ssrc)
  BY Zenon
<1>5. PICK key \in BOOLEAN : key = (pk.key /\ p \in IsVideo)
  BY Zenon
<1>6. PICK received : received = IF key THEN Waits(c, p, c.of[p].waiting \ {c.of[p].ssrc[i]}) ELSE c
  BY Zenon
<1>7. PICK forced : forced = IF p \in IsVideo /\ ~b.of[p].paused /\ ~key
                             THEN OnKeyFrameNeeded(received, p, {pk.ssrc}, TRUE) ELSE received
  BY Zenon
<1>8. PICK d : d = ReceiveRtpPacket(b, p, pk, asks)
  BY Zenon
<1>9. d = IF i = 0 THEN b
          ELSE IF ~pk.valid /\ new THEN NotifyNewRtpStream(c, p, i, asks, {})
          ELSE IF ~pk.valid \/ (~media /\ pk.pt # "rtx") THEN c
          ELSE IF new THEN Forward(NotifyNewRtpStream(forced, p, i, asks, {pk}), p, i, pk)
          ELSE Forward(received, p, i, pk)
  BY <1>2, <1>4, <1>5, <1>6, <1>7, <1>8, Zenon DEF ReceiveRtpPacket, Waits
<1>10. /\ c \in ProducerRecords /\ ProducersOK(c) /\ Beside(c, b, p) /\ c.out = b.out
       /\ c.announced = b.announced /\ p \in c.open
  BY <1>3, Zenon DEF Looked, Beside
<1>11. b.out.asked = {} /\ b.out.forwarded = {}
  BY QuietFacts, Zenon
<1>12. Kept(c, c, p)
  BY <1>10, Zenon DEF Kept, Beside, SameMaps
<1>13. Kept(received, c, p) /\ received.out = c.out
  <2>1. CASE key
    <3>1. PICK W \in SUBSET RtpSsrcs : W = c.of[p].waiting \ {c.of[p].ssrc[i]}
      <4>1. c.of[p].waiting \in SUBSET RtpSsrcs
        BY <1>1, <1>10, PartTypes, Zenon
      <4> QED BY <4>1, Zenon
    <3>2. received = Waits(c, p, W)
      BY <1>6, <2>1, <3>1, Zenon
    <3> QED BY <1>1, <1>10, <3>2, WaitKept, ZenonT(40)
  <2>2. CASE ~key
    BY <1>6, <1>12, <2>2, Zenon
  <2> QED BY <2>1, <2>2, Zenon
<1>14. received \in ProducerRecords
  BY <1>13, Zenon DEF Kept
<1>15. Kept(forced, c, p) /\ forced.out.asked = c.out.asked
  <2>1. CASE p \in IsVideo /\ ~b.of[p].paused /\ ~key
    <3>1. PICK S \in SUBSET RtpSsrcs : S = {pk.ssrc}
      BY Zenon DEF Packets
    <3>2. PICK yes \in BOOLEAN : forced = OnKeyFrameNeeded(received, p, S, yes)
      BY <1>7, <2>1, <3>1, Zenon
    <3>3. Needed(forced, received, p, S)
      BY <1>1, <1>14, <3>1, <3>2, KeyFrameFacts, Zenon
    <3> QED BY <1>13, <3>3, KeptTrans, Zenon DEF Needed
  <2>2. CASE ~(p \in IsVideo /\ ~b.of[p].paused /\ ~key)
    <3>1. forced = received
      BY <1>7, <2>2, Zenon
    <3> QED BY <1>13, <3>1, Zenon
  <2> QED BY <2>1, <2>2, Zenon
\* Either of them stands for c.
<1>16. ASSUME NEW e, Kept(e, c, p), e.out.asked = c.out.asked
       PROVE  /\ e \in ProducerRecords /\ ProducersOK(e) /\ Beside(e, b, p)
              /\ e.of[p].ssrc = c.of[p].ssrc /\ e.announced = b.announced
              /\ e.out.asked = {} /\ e.out.forwarded = {}
  <2>1. ProducersOK(e)
    BY <1>10, <1>16, KeptOK, Zenon
  <2>2. Beside(e, b, p)
    BY <1>10, <1>16, Zenon DEF Kept, Beside
  <2> QED BY <1>10, <1>11, <1>16, <2>1, <2>2, Zenon DEF Kept, SameMaps
<1>17. CASE i = 0
  <2>1. d = b
    BY <1>9, <1>17, Zenon
  <2> QED BY <1>8, <1>11, <2>1, QuietOK, Zenon
<1>18. CASE i # 0 /\ c.of[p].ssrc = b.of[p].ssrc
  <2>1. i \in Indices(p) /\ b.of[p].ssrc[i] # 0
    BY <1>3, <1>18, Zenon DEF Found
  <2>2. ~new
    BY <1>4, <1>18, Zenon
  <2>3. d = c \/ d = Forward(received, p, i, pk)
    BY <1>9, <1>18, <2>2, Zenon
  <2>4. CASE d = c
    <3>1. ProducerOK(d)
      BY <1>10, <1>11, <1>18, <2>1, <2>4, OldPacket, Zenon
    <3> QED BY <1>8, <3>1, Zenon
  <2>5. CASE d = Forward(received, p, i, pk)
    <3>1. /\ received \in ProducerRecords /\ ProducersOK(received) /\ Beside(received, b, p)
          /\ received.of[p].ssrc = b.of[p].ssrc /\ received.announced = b.announced
          /\ received.out.asked = {} /\ received.out.forwarded = {}
      BY <1>13, <1>16, <1>18, Zenon
    <3>2. ProducerOK(d)
      BY <2>1, <2>5, <3>1, OldPacket, Zenon
    <3> QED BY <1>8, <3>2
  <2> QED BY <2>3, <2>4, <2>5, Zenon
<1>19. CASE i # 0 /\ c.of[p].ssrc # b.of[p].ssrc
  <2>1. /\ i \in Indices(p) /\ pk.pt = "media"
        /\ c.of[p].ssrc = [b.of[p].ssrc EXCEPT ![i] = pk.ssrc]
    BY <1>3, <1>19, Zenon DEF Found
  <2>2. new /\ media
    <3>1. b.of[p].ssrc \in [Indices(p) -> RtpSsrcs \cup {0}]
      BY <1>1, PartTypes, Zenon DEF Heads
    <3>2. c.of[p].ssrc[i] = pk.ssrc
      BY <2>1, <3>1, Zenon
    <3> QED BY <1>4, <1>19, <3>2, Zenon
  <2>3. \/ d = NotifyNewRtpStream(c, p, i, asks, {})
        \/ d = Forward(NotifyNewRtpStream(forced, p, i, asks, {pk}), p, i, pk)
    BY <1>9, <1>19, <2>2, Zenon
  <2>4. ASSUME NEW e, Kept(e, c, p), e.out.asked = c.out.asked,
               \/ d = NotifyNewRtpStream(e, p, i, asks, {})
               \/ d = Forward(NotifyNewRtpStream(e, p, i, asks, {pk}), p, i, pk)
        PROVE  ProducerOK(d)
    <3>1. /\ e \in ProducerRecords /\ ProducersOK(e) /\ Beside(e, b, p)
          /\ e.announced = b.announced /\ e.out.asked = {} /\ e.out.forwarded = {}
      BY <1>16, <2>4, Zenon
    <3>2. e.of[p].ssrc = [b.of[p].ssrc EXCEPT ![i] = pk.ssrc]
      BY <1>16, <2>1, <2>4, Zenon
    <3> QED BY <2>1, <2>4, <3>1, <3>2, NewPacket, SMTT(60)
  <2> QED BY <1>8, <1>12, <1>15, <2>3, <2>4, Zenon
<1> QED BY <1>17, <1>18, <1>19, Zenon

\* An event comes.
LEMMA IdleFacts ==
    ASSUME ProducerInv
    PROVE  /\ Idle \in ProducerRecords /\ ProducersOK(Idle) /\ AllTold(Idle) /\ Idle.out = Quiet
           /\ Idle.of = prod.of /\ Idle.open = prod.open /\ Idle.ssrcTable = prod.ssrcTable
           /\ Idle.midTable = prod.midTable /\ Idle.ridTable = prod.ridTable
           /\ Idle.announced = prod.announced
<1>1. ProducersOK(prod) /\ AllTold(prod) /\ prod \in ProducerRecords
  BY Zenon DEF ProducerInv, ProducerOK, ProducersOK
<1>2. PICK q \in Outs : q = Quiet
  BY QuietFacts, Zenon
<1>3. prod.events \in Int
  BY <1>1 DEF ProducerRecords
<1>4. PICK e \in Int : e = prod.events + 1
  BY <1>3
<1>5. PICK d : d = [prod EXCEPT !.out = q, !.events = e]
  OBVIOUS
<1>6. Idle = d
  BY <1>2, <1>4, <1>5, Zenon DEF Idle
<1>7. d \in ProducerRecords
  BY <1>1, <1>5, Zenon DEF ProducerRecords
<1>8. OnlyTold(d, prod) /\ d.announced = prod.announced /\ d.out = q
  BY <1>1, <1>5, <1>7 DEF ProducerRecords, OnlyTold
<1>9. ProducersOK(d)
  BY <1>1, <1>8, OnlyToldOK
<1>10. AllTold(d)
  BY <1>1, <1>8, Zenon DEF AllTold, OnlyTold
<1> QED BY <1>2, <1>6, <1>8, <1>9, <1>10, Zenon DEF OnlyTold

\* A table that still leads to q where it did.
LEMMA TableMoved ==
    ASSUME NEW q \in Producers, NEW st \in StreamSets(q), NEW table \in Listens(RtpSsrcs),
           StreamsOK(q, st, table), NEW other \in Listens(RtpSsrcs),
           \A s \in RtpSsrcs : table[s] = q => other[s] = q
    PROVE  StreamsOK(q, st, other)
<1>1. \A s \in RtpSsrcs : st.bySsrc[s] # 0 \/ st.byRtx[s] # 0 => other[s] = q
  BY Zenon DEF StreamsOK, MapsOK
<1> QED BY <1>1, Zenon DEF StreamsOK, MapsOK

\* A Producer without streams.
LEMMA NewFacts ==
    ASSUME NEW p \in Producers, NEW table \in Listens(RtpSsrcs)
    PROVE  /\ NewStreams(p) \in StreamSets(p) /\ StreamsOK(p, NewStreams(p), table)
           /\ \A A : ToldOf(p, NewStreams(p), A)
<1>1. PICK f : f = [s \in RtpSsrcs |-> 0]
  BY Zenon
<1>2. PICK h : h = [i \in Indices(p) |-> 0]
  BY Zenon
<1>3. f \in Maps(p) /\ \A s \in RtpSsrcs : f[s] = 0
  BY <1>1 DEF Maps
<1>4. h \in Heads(p) /\ \A i \in Indices(p) : h[i] = 0
  BY <1>2 DEF Heads
<1>5. NewStreams(p) = [bySsrc |-> f, byRtx |-> f, ssrc |-> h, rtx |-> h, mapped |-> h, sr |-> {},
                       waiting |-> {}, paused |-> FALSE]
  BY <1>1, <1>2, Zenon DEF NewStreams
<1>6. NewStreams(p) \in StreamSets(p)
  BY <1>3, <1>4, <1>5, SMTT(60) DEF StreamSets
<1>7. MapsOK(p, table, f, f, h, h, h)
  BY <1>3, <1>4, Zenon DEF MapsOK
<1>8. StreamsOK(p, NewStreams(p), table)
  BY <1>5, <1>7, SMTT(60) DEF StreamsOK
<1>9. \A A : ToldOf(p, NewStreams(p), A)
  BY <1>4, <1>5, SMTT(60) DEF ToldOf
<1> QED BY <1>6, <1>8, <1>9

\* A listener takes or refuses a Producer.
LEMMA ProduceOK ==
    ASSUME ProducerInv, NEW p \in Producers, Produce(p)
    PROVE  ProducerInv'
<1>1. CASE AddProducerThrows(prod, p)
  <2>1. prod' = Idle
    BY <1>1 DEF Produce
  <2>2. ProducerOK(Idle)
    BY IdleFacts, QuietFacts, QuietOK, Zenon
  <2>3. ProducerOK(prod')
    BY <2>1, <2>2
  <2> QED BY <2>3 DEF ProducerInv
<1>2. CASE ~AddProducerThrows(prod, p)
  <2>1. PICK b : b = Idle
    OBVIOUS
  <2>2. /\ b \in ProducerRecords /\ ProducersOK(b) /\ AllTold(b) /\ b.out = Quiet
        /\ b.open = prod.open /\ b.ssrcTable = prod.ssrcTable
    BY <2>1, IdleFacts
  <2>3. b.ssrcTable \in Listens(RtpSsrcs) /\ b.midTable \in Listens(Mids) /\ b.ridTable \in Listens(Rids)
        /\ b.open \in SUBSET Producers
    BY <2>2, Zenon DEF ProducerRecords
  <2>4. PICK T : T = [s \in RtpSsrcs |-> IF s \in Announced(p) THEN p ELSE b.ssrcTable[s]]
    BY Zenon
  <2>5. PICK M : M = [m \in Mids |-> IF m = Mid[p] THEN p ELSE b.midTable[m]]
    BY Zenon
  <2>6. PICK R : R = [r \in Rids |-> IF r \in RidsOf(p) /\ b.ridTable[r] = NoProducer THEN p ELSE b.ridTable[r]]
    BY Zenon
  <2>7. PICK O : O = b.open \cup {p}
    BY Zenon
  <2>8. PICK d : d = [b EXCEPT !.ssrcTable = T, !.midTable = M, !.ridTable = R, !.open = O]
    OBVIOUS
  <2>9. prod' = d
    BY <1>2, <2>1, <2>4, <2>5, <2>6, <2>7, <2>8, Zenon DEF Produce, AddProducer
  <2>10. T \in Listens(RtpSsrcs) /\ \A s \in RtpSsrcs : T[s] = p \/ T[s] = b.ssrcTable[s]
    BY <2>3, <2>4, Zenon DEF Listens
  <2>11. M \in Listens(Mids) /\ \A k \in Mids : M[k] = p \/ M[k] = b.midTable[k]
    BY <2>3, <2>5, Zenon DEF Listens
  <2>12. R \in Listens(Rids) /\ \A k \in Rids : R[k] = p \/ R[k] = b.ridTable[k]
    BY <2>3, <2>6, Zenon DEF Listens
  <2>13. O \in SUBSET Producers
    BY <2>3, <2>7, Zenon
  <2>14. d \in ProducerRecords
    BY <2>2, <2>8, <2>10, <2>11, <2>12, <2>13, Zenon DEF ProducerRecords
  <2>15. /\ d.ssrcTable = T /\ d.midTable = M /\ d.ridTable = R /\ d.open = O /\ d.of = b.of
         /\ d.announced = b.announced /\ d.fault = b.fault /\ d.out = b.out
    BY <2>2, <2>8, Zenon DEF ProducerRecords
  <2>16. ListensOK(d)
    BY <2>2, <2>7, <2>10, <2>11, <2>12, <2>15, Zenon DEF ListensOK, ProducersOK
  <2>17. p \notin b.open /\ b.of[p] = NewStreams(p)
    BY <2>2, Zenon DEF Produce, ProducersOK
  <2>18. ASSUME NEW q \in Producers, q \in d.open
         PROVE  StreamsOK(q, d.of[q], d.ssrcTable) /\ ToldOf(q, d.of[q], d.announced)
    <3>1. CASE q = p
      BY <2>10, <2>15, <2>17, <3>1, NewFacts, Zenon
    <3>2. CASE q # p
      <4>1. q \in b.open /\ StreamsOK(q, b.of[q], b.ssrcTable) /\ ToldOf(q, b.of[q], b.announced)
        BY <2>2, <2>7, <2>15, <2>18, <3>2, Zenon DEF ProducersOK, AllTold
      <4>2. ASSUME NEW s \in RtpSsrcs, b.ssrcTable[s] = q
            PROVE  T[s] = q
        <5>1. q # NoProducer /\ s # 0
          BY ProducerAssumption, Zenon DEF NoProducer
        <5>2. s \notin Announced(p)
          <6>1. \A k \in Announced(p) \ {0} : prod.ssrcTable[k] = NoProducer
            BY <1>2, Zenon DEF AddProducerThrows
          <6> QED BY <2>2, <4>2, <5>1, <6>1, Zenon
        <5> QED BY <2>4, <4>2, <5>2, Zenon
      <4>3. b.of[q] \in StreamSets(q)
        BY <2>2, PartTypes, Zenon
      <4>4. StreamsOK(q, b.of[q], T)
        BY <2>3, <2>10, <4>1, <4>2, <4>3, TableMoved, Zenon
      <4> QED BY <2>15, <4>1, <4>4, Zenon
    <3> QED BY <3>1, <3>2, Zenon
  <2>19. \A q \in Producers : q \notin d.open => d.of[q] = NewStreams(q)
    BY <2>2, <2>7, <2>15, Zenon DEF ProducersOK
  <2>20. ProducersOK(d)
    BY <2>2, <2>14, <2>15, <2>16, <2>18, <2>19, Zenon DEF ProducersOK
  <2>21. AllTold(d)
    BY <2>13, <2>15, <2>18, Zenon DEF AllTold
  <2>22. ProducerOK(d)
    BY <2>2, <2>14, <2>15, <2>20, <2>21, QuietFacts, QuietOK, Zenon
  <2>23. ProducerOK(prod')
    BY <2>9, <2>22, Zenon
  <2> QED BY <2>23 DEF ProducerInv
<1> QED BY <1>1, <1>2

\* A Producer is closed.
LEMMA CloseOK ==
    ASSUME ProducerInv, NEW p \in Producers, Close(p)
    PROVE  ProducerInv'
<1>1. PICK b : b = Idle
  OBVIOUS
<1>2. /\ b \in ProducerRecords /\ ProducersOK(b) /\ AllTold(b) /\ b.out = Quiet
      /\ b.open = prod.open
  BY <1>1, IdleFacts
<1>3. /\ b.ssrcTable \in Listens(RtpSsrcs) /\ b.midTable \in Listens(Mids)
      /\ b.ridTable \in Listens(Rids) /\ b.open \in SUBSET Producers /\ b.of \in StreamTables
      /\ b.announced \in Pairs
  BY <1>2, Zenon DEF ProducerRecords
<1>4. PICK T : T = [s \in RtpSsrcs |-> IF b.ssrcTable[s] = p THEN NoProducer ELSE b.ssrcTable[s]]
  BY Zenon
<1>5. PICK M : M = [m \in Mids |-> IF b.midTable[m] = p THEN NoProducer ELSE b.midTable[m]]
  BY Zenon
<1>6. PICK R : R = [r \in Rids |-> IF b.ridTable[r] = p THEN NoProducer ELSE b.ridTable[r]]
  BY Zenon
<1>7. PICK O : O = b.open \ {p}
  BY Zenon
<1>8. PICK A : A = {a \in b.announced : a[1] # p}
  BY Zenon
<1>9. PICK none : none = NewStreams(p)
  OBVIOUS
<1>10. none \in StreamSets(p)
  BY <1>3, <1>9, NewFacts, Zenon
<1>11. PICK of \in StreamTables : of = [b.of EXCEPT ![p] = none]
  BY <1>3, <1>10, OfSet, Zenon
<1>12. of[p] = none /\ \A q \in Producers \ {p} : of[q] = b.of[q]
  BY <1>3, <1>10, <1>11, OfSet, SMTT(60)
<1>13. PICK d : d = [b EXCEPT !.ssrcTable = T, !.midTable = M, !.ridTable = R, !.open = O, !.of = of,
                              !.announced = A]
  OBVIOUS
<1>14. prod' = d
  <2>1. PICK c : c = [b EXCEPT !.ssrcTable = T, !.midTable = M, !.ridTable = R]
    OBVIOUS
  <2>2. RemoveProducer(Idle, p) = c
    BY <1>1, <1>4, <1>5, <1>6, <2>1, Zenon DEF RemoveProducer
  <2>3. c.open = b.open /\ c.of = b.of /\ c.announced = b.announced
    BY <1>2, <2>1, Zenon DEF ProducerRecords
  <2>4. prod' = [c EXCEPT !.open = c.open \ {p}, !.of = [c.of EXCEPT ![p] = NewStreams(p)],
                          !.announced = {a \in c.announced : a[1] # p}]
    BY <2>2, Zenon DEF Close
  <2>5. prod' = [c EXCEPT !.open = O, !.of = of, !.announced = A]
    BY <1>7, <1>8, <1>9, <1>11, <2>3, <2>4, Zenon
  <2> QED BY <1>13, <2>1, <2>5, Zenon
<1>15. T \in Listens(RtpSsrcs) /\ \A s \in RtpSsrcs : T[s] # p /\ (T[s] = NoProducer \/ T[s] = b.ssrcTable[s])
  BY <1>3, <1>4, ProducerAssumption, Zenon DEF Listens, NoProducer
<1>16. M \in Listens(Mids) /\ \A k \in Mids : M[k] # p /\ (M[k] = NoProducer \/ M[k] = b.midTable[k])
  BY <1>3, <1>5, ProducerAssumption, Zenon DEF Listens, NoProducer
<1>17. R \in Listens(Rids) /\ \A k \in Rids : R[k] # p /\ (R[k] = NoProducer \/ R[k] = b.ridTable[k])
  BY <1>3, <1>6, ProducerAssumption, Zenon DEF Listens, NoProducer
<1>18. O \in SUBSET Producers /\ A \in Pairs
  BY <1>3, <1>7, <1>8, Zenon DEF Pairs
<1>19. d \in ProducerRecords
  BY <1>2, <1>13, <1>15, <1>16, <1>17, <1>18, Zenon DEF ProducerRecords
<1>20. /\ d.ssrcTable = T /\ d.midTable = M /\ d.ridTable = R /\ d.open = O /\ d.of = of
       /\ d.announced = A /\ d.fault = b.fault /\ d.out = b.out
  BY <1>2, <1>13, Zenon DEF ProducerRecords
<1>21. ListensOK(d)
  BY <1>2, <1>7, <1>15, <1>16, <1>17, <1>20, Zenon DEF ListensOK, ProducersOK
<1>22. ASSUME NEW q \in Producers, q \in d.open
       PROVE  StreamsOK(q, d.of[q], d.ssrcTable) /\ ToldOf(q, d.of[q], d.announced)
  <2>1. q # p /\ q \in b.open
    BY <1>7, <1>20, <1>22, Zenon
  <2>2. StreamsOK(q, b.of[q], b.ssrcTable) /\ ToldOf(q, b.of[q], b.announced)
    BY <1>2, <2>1, Zenon DEF ProducersOK, AllTold
  <2>3. \A s \in RtpSsrcs : b.ssrcTable[s] = q => T[s] = q
    BY <1>4, <2>1, Zenon
  <2>4. b.of[q] \in StreamSets(q)
    BY <1>2, PartTypes, Zenon
  <2>5. StreamsOK(q, b.of[q], T)
    BY <1>3, <1>15, <2>2, <2>3, <2>4, TableMoved, Zenon
  <2>6. ToldOf(q, b.of[q], A)
    BY <1>8, <2>1, <2>2, Zenon DEF ToldOf
  <2>7. d.of[q] = b.of[q]
    BY <1>12, <1>20, <2>1, Zenon
  <2> QED BY <1>20, <2>5, <2>6, <2>7, Zenon
<1>23. \A q \in Producers : q \notin d.open => d.of[q] = NewStreams(q)
  BY <1>2, <1>7, <1>9, <1>12, <1>20, Zenon DEF ProducersOK
<1>24. ProducersOK(d)
  BY <1>2, <1>19, <1>20, <1>21, <1>22, <1>23, Zenon DEF ProducersOK
<1>25. AllTold(d)
  BY <1>18, <1>20, <1>22, Zenon DEF AllTold
<1>26. ProducerOK(d)
  BY <1>2, <1>19, <1>20, <1>24, <1>25, QuietFacts, QuietOK, Zenon
<1>27. ProducerOK(prod')
  BY <1>14, <1>26, Zenon
<1> QED BY <1>27 DEF ProducerInv

\* A packet comes: its ssrc leads to the Producer from now on.
LEMMA PacketOK ==
    ASSUME ProducerInv, NEW pk \in Packets, Receive(pk)
    PROVE  ProducerInv'
<1>1. PICK b : b = Idle
  OBVIOUS
<1>2. /\ b \in ProducerRecords /\ ProducersOK(b) /\ AllTold(b) /\ b.out = Quiet
      /\ b.open = prod.open /\ b.ssrcTable = prod.ssrcTable /\ b.midTable = prod.midTable
      /\ b.ridTable = prod.ridTable
  BY <1>1, IdleFacts, Zenon
<1>3. PICK p : p = GetProducer(prod, pk)
  OBVIOUS
<1>4. PICK s : s = pk.ssrc
  OBVIOUS
<1>5. s \in RtpSsrcs /\ pk.mid \in Mids \cup {""} /\ pk.rid \in Rids \cup {""}
  BY <1>4, Zenon DEF Packets
<1>6. p \in b.open \cup {NoProducer} /\ (b.ssrcTable[s] = p \/ b.ssrcTable[s] = NoProducer)
  <2>1. ListensOK(b)
    BY <1>2, Zenon DEF ProducersOK
  <2>2. p = IF b.ssrcTable[s] # NoProducer THEN b.ssrcTable[s]
            ELSE IF pk.mid # "" /\ b.midTable[pk.mid] # NoProducer THEN b.midTable[pk.mid]
            ELSE IF pk.rid # "" THEN b.ridTable[pk.rid]
            ELSE NoProducer
    BY <1>2, <1>3, <1>4, Zenon DEF GetProducer
  <2> QED BY <1>5, <2>1, <2>2, Zenon DEF ListensOK
<1>7. CASE p = NoProducer
  <2>1. prod' = b
    BY <1>1, <1>3, <1>7 DEF Receive
  <2>2. ProducerOK(b)
    BY <1>2, QuietFacts, QuietOK, Zenon
  <2>3. ProducerOK(prod')
    BY <2>1, <2>2
  <2> QED BY <2>3, Zenon DEF ProducerInv
<1>8. CASE p # NoProducer
  <2>1. PICK d : d = [b EXCEPT !.ssrcTable[s] = p]
    BY Zenon
  <2>2. PICK asks \in SUBSET Indices(p) : prod' = ReceiveRtpPacket(d, p, pk, asks)
    BY <1>1, <1>3, <1>4, <1>8, <2>1, Zenon DEF Receive
  <2>3. p \in b.open /\ p \in Producers
    BY <1>2, <1>6, <1>8, Zenon DEF ProducerRecords
  <2>4. b.ssrcTable \in Listens(RtpSsrcs)
    BY <1>2, Zenon DEF ProducerRecords
  <2>5. PICK T : T = [b.ssrcTable EXCEPT ![s] = p]
    BY Zenon
  <2>6. T \in Listens(RtpSsrcs) /\ T[s] = p /\ \A k \in RtpSsrcs \ {s} : T[k] = b.ssrcTable[k]
    BY <1>5, <2>3, <2>4, <2>5, Zenon DEF Listens
  <2>7. d = [b EXCEPT !.ssrcTable = T]
    BY <2>1, <2>5, Zenon
  <2>8. d \in ProducerRecords
    BY <1>2, <2>6, <2>7 DEF ProducerRecords
  <2>9. /\ d.ssrcTable = T /\ d.midTable = b.midTable /\ d.ridTable = b.ridTable /\ d.open = b.open
        /\ d.of = b.of /\ d.announced = b.announced /\ d.fault = b.fault /\ d.out = b.out
    BY <1>2, <2>7 DEF ProducerRecords
  <2>10. ListensOK(d)
    BY <1>2, <2>3, <2>6, <2>9, Zenon DEF ListensOK, ProducersOK
  <2>11. ASSUME NEW q \in Producers, q \in d.open
         PROVE  StreamsOK(q, d.of[q], d.ssrcTable)
    <3>1. StreamsOK(q, b.of[q], b.ssrcTable)
      BY <1>2, <2>9, <2>11, Zenon DEF ProducersOK
    <3>2. q # NoProducer
      BY ProducerAssumption, Zenon DEF NoProducer
    <3>3. \A k \in RtpSsrcs : b.ssrcTable[k] = q => T[k] = q
      BY <1>6, <2>6, <3>2, Zenon
    <3>4. b.of[q] \in StreamSets(q)
      BY <1>2, PartTypes, Zenon
    <3>5. StreamsOK(q, b.of[q], T)
      BY <2>4, <2>6, <3>1, <3>3, <3>4, TableMoved, Zenon
    <3> QED BY <2>9, <3>5, Zenon
  <2>12. ProducersOK(d)
    BY <1>2, <2>8, <2>9, <2>10, <2>11, Zenon DEF ProducersOK
  <2>13. AllTold(d)
    BY <1>2, <2>9, Zenon DEF AllTold
  <2>14. ProducerOK(ReceiveRtpPacket(d, p, pk, asks))
    BY <1>2, <1>4, <2>2, <2>3, <2>6, <2>8, <2>9, <2>12, <2>13, ReceiveOK, Zenon
  <2>15. ProducerOK(prod')
    BY <2>2, <2>14, Zenon
  <2> QED BY <2>15 DEF ProducerInv
<1> QED BY <1>7, <1>8

\* A step on the streams of p that tells the Consumers nothing, and asks for no key frame.
LEMMA KeptStep ==
    ASSUME ProducerInv, NEW p \in prod.open, NEW d \in ProducerRecords, Beside(d, Idle, p),
           SameMaps(d.of[p], Idle.of[p]), d.announced = Idle.announced, d.out.asked = {},
           d.out.forwarded = {}
    PROVE  ProducerOK(d)
<1>1. PICK b : b = Idle
  BY Zenon
<1>2. b \in ProducerRecords /\ ProducersOK(b) /\ AllTold(b) /\ p \in b.open
  BY <1>1, IdleFacts, Zenon
<1>3. p \in Producers
  BY <1>2, Zenon DEF ProducerRecords
<1>4. StreamsOK(p, b.of[p], b.ssrcTable)
  BY <1>2, <1>3, Zenon DEF ProducersOK
<1>5. StreamsOK(p, d.of[p], b.ssrcTable)
  BY <1>1, <1>4, SameMapsOK, Zenon
<1>6. ProducersOK(d)
  BY <1>1, <1>2, <1>5, BesideOK, Zenon
<1>7. AllTold(d)
  <2>1. SUFFICES ASSUME NEW q \in d.open PROVE ToldOf(q, d.of[q], d.announced)
    BY Zenon DEF AllTold
  <2>2. q \in b.open /\ q \in Producers
    BY <1>1, Zenon DEF Beside, ProducerRecords
  <2>3. ToldOf(q, b.of[q], b.announced)
    BY <1>2, <2>2, Zenon DEF AllTold
  <2>4. d.of[q].ssrc = b.of[q].ssrc
    BY <1>1, <2>2, Zenon DEF Beside, SameMaps
  <2> QED BY <1>1, <2>3, <2>4, Zenon DEF ToldOf
<1> QED BY <1>6, <1>7, QuietOK, Zenon

\* The flag of a Producer is set.
LEMMA PausedSet ==
    ASSUME ProducerInv, NEW p \in prod.open, NEW flag \in BOOLEAN
    PROVE  LET d == [Idle EXCEPT !.of[p] = [Idle.of[p] EXCEPT !.paused = flag]]
           IN  /\ d \in ProducerRecords /\ Beside(d, Idle, p) /\ SameMaps(d.of[p], Idle.of[p])
               /\ d.announced = Idle.announced /\ d.out = Quiet
<1>1. PICK b : b = Idle
  BY Zenon
<1>2. b \in ProducerRecords /\ p \in b.open /\ b.out = Quiet
  BY <1>1, IdleFacts, Zenon
<1>3. p \in Producers
  BY <1>2, Zenon DEF ProducerRecords
<1>4. PICK st : st = [b.of[p] EXCEPT !.paused = flag]
  BY Zenon
<1>5. b.of[p] \in StreamSets(p)
  BY <1>2, <1>3, PartTypes, Zenon
<1>6. st \in StreamSets(p) /\ SameMaps(st, b.of[p])
  BY <1>4, <1>5 DEF StreamSets, SameMaps
<1>7. PICK d : d = Place(b, p, st)
  OBVIOUS
<1>8. d = [Idle EXCEPT !.of[p] = [Idle.of[p] EXCEPT !.paused = flag]]
  BY <1>1, <1>4, <1>7, Zenon DEF Place
<1>9. /\ d \in ProducerRecords /\ Beside(d, b, p) /\ d.of[p] = st /\ d.out = b.out
      /\ d.announced = b.announced
  BY <1>2, <1>3, <1>6, <1>7, PlaceFacts, SMTT(60)
<1>10. /\ d \in ProducerRecords /\ Beside(d, Idle, p) /\ SameMaps(d.of[p], Idle.of[p])
       /\ d.announced = Idle.announced /\ d.out = Quiet
  BY <1>1, <1>2, <1>6, <1>9, Zenon
<1> QED BY <1>8, <1>10, Zenon

\* A Producer is paused.
LEMMA PauseOK ==
    ASSUME ProducerInv, NEW p \in Producers, Pause(p)
    PROVE  ProducerInv'
<1>1. p \in prod.open
  BY DEF Pause
<1>2. PICK d : d = [Idle EXCEPT !.of[p] = [Idle.of[p] EXCEPT !.paused = TRUE]]
  BY Zenon
<1>3. prod' = d
  BY <1>2, Zenon DEF Pause
<1>4. /\ d \in ProducerRecords /\ Beside(d, Idle, p) /\ SameMaps(d.of[p], Idle.of[p])
      /\ d.announced = Idle.announced /\ d.out = Quiet
  BY <1>1, <1>2, PausedSet, Zenon
<1>5. ProducerOK(d)
  BY <1>1, <1>4, QuietFacts, KeptStep, Zenon
<1>6. ProducerOK(prod')
  BY <1>3, <1>5
<1> QED BY <1>6 DEF ProducerInv

\* A Producer is resumed, and its streams are asked for key frames.
LEMMA ResumeOK ==
    ASSUME ProducerInv, NEW p \in Producers, Resume(p)
    PROVE  ProducerInv'
<1>1. p \in prod.open
  BY DEF Resume
<1>2. PICK b : b = Idle
  OBVIOUS
<1>3. PICK c : c = [b EXCEPT !.of[p] = [b.of[p] EXCEPT !.paused = FALSE]]
  BY Zenon
<1>4. /\ c \in ProducerRecords /\ Beside(c, b, p) /\ SameMaps(c.of[p], b.of[p])
      /\ c.announced = b.announced /\ c.out = Quiet
  BY <1>1, <1>2, <1>3, PausedSet, Zenon
<1>5. prod' = IF p \in IsVideo THEN OnKeyFrameNeeded(c, p, RtpSsrcs, TRUE) ELSE c
  BY <1>2, <1>3, Zenon DEF Resume
<1>6. PICK d : d = prod'
  OBVIOUS
<1>7. CASE p \notin IsVideo
  <2>1. d = c
    BY <1>5, <1>6, <1>7
  <2>2. ProducerOK(d)
    BY <1>1, <1>2, <1>4, <2>1, QuietFacts, KeptStep, Zenon
  <2>3. ProducerOK(prod')
    BY <1>6, <2>2, Zenon
  <2> QED BY <2>3 DEF ProducerInv
<1>8. CASE p \in IsVideo
  <2>1. PICK S \in SUBSET RtpSsrcs : S = RtpSsrcs
    OBVIOUS
  <2>2. PICK yes \in BOOLEAN : d = OnKeyFrameNeeded(c, p, S, yes)
    BY <1>5, <1>6, <1>8, <2>1, Zenon
  <2>3. Needed(d, c, p, S)
    BY <1>4, <2>1, <2>2, KeyFrameFacts, Zenon
  <2>4. Kept(d, c, p) /\ d.out.asked = c.out.asked
    BY <2>3, Zenon DEF Needed
  <2>5. Beside(d, b, p)
    BY <1>4, <2>4, Zenon DEF Kept, Beside
  <2>6. /\ d \in ProducerRecords /\ SameMaps(d.of[p], b.of[p]) /\ d.announced = b.announced
        /\ d.out.asked = {} /\ d.out.forwarded = {}
    BY <1>4, <2>4, QuietFacts, Zenon DEF Kept, SameMaps
  <2>7. ProducerOK(d)
    BY <1>1, <1>2, <2>5, <2>6, KeptStep, Zenon
  <2>8. ProducerOK(prod')
    BY <1>6, <2>7, Zenon
  <2> QED BY <2>8 DEF ProducerInv
<1> QED BY <1>7, <1>8

\* A Consumer asks for a key frame.
LEMMA AskOK ==
    ASSUME ProducerInv, NEW p \in Producers, NEW i \in Indices(p), Ask(p, i)
    PROVE  ProducerInv'
<1>1. PICK b : b = Idle
  OBVIOUS
<1>2. b \in ProducerRecords /\ ProducersOK(b) /\ AllTold(b) /\ b.out = Quiet /\ p \in b.open
  BY <1>1, IdleFacts, Zenon DEF Ask
<1>3. PICK asks \in SUBSET Indices(p) : asks = {i}
  BY Zenon
<1>4. PICK none : none = {}
  BY Zenon
<1>5. PICK d : d = RequestKeyFrame(b, p, asks, none)
  OBVIOUS
<1>6. prod' = d
  BY <1>1, <1>3, <1>4, <1>5, Zenon DEF Ask
<1>7. /\ Kept(d, b, p) /\ d.out.asked = b.out.asked \cup {<<p, k>> : k \in asks}
      /\ \A k \in asks : Served(p, d.of[p], d.of[p].ssrc[k], Coming(none))
  BY <1>2, <1>3, <1>5, RequestFacts, ZenonT(40)
<1>8. ProducersOK(d)
  BY <1>2, <1>7, KeptOK, Zenon
<1>9. /\ d \in ProducerRecords /\ Beside(d, b, p) /\ d.announced = b.announced
      /\ d.of[p].ssrc = b.of[p].ssrc /\ d.out.forwarded = {}
  BY <1>2, <1>7, QuietFacts, Zenon DEF Kept, SameMaps
<1>10. ToldOf(p, d.of[p], d.announced)
  BY <1>2, <1>9, Zenon DEF AllTold, ToldOf
<1>11. Coming(none) = {}
  BY <1>4, Zenon DEF Coming
<1>12. AsksOf(d, p, asks)
  BY <1>2, <1>7, <1>11, QuietFacts, Zenon DEF AsksOf
<1>13. ForwardsOf(d, p, i)
  BY <1>9, Zenon DEF ForwardsOf
<1>14. ProducerOK(d)
  BY <1>2, <1>3, <1>8, <1>9, <1>10, <1>12, <1>13, ToldOK, Zenon
<1>15. ProducerOK(prod')
  BY <1>6, <1>14, Zenon
<1> QED BY <1>15 DEF ProducerInv

\* A sender report comes.
LEMMA ReportOK ==
    ASSUME ProducerInv, NEW s \in RtpSsrcs, ReceiveRtcpSenderReport(s)
    PROVE  ProducerInv'
<1>1. PICK b : b = Idle
  OBVIOUS
<1>2. /\ b \in ProducerRecords /\ ProducersOK(b) /\ b.out = Quiet /\ b.open = prod.open
      /\ b.of = prod.of /\ b.ssrcTable = prod.ssrcTable
  BY <1>1, IdleFacts, Zenon
<1>3. PICK p : p = prod.ssrcTable[s]
  OBVIOUS
<1>4. p \in b.open
  BY <1>2, <1>3, Zenon DEF ReceiveRtcpSenderReport, ProducersOK, ListensOK
<1>5. p \in Producers
  BY <1>2, <1>4, Zenon DEF ProducerRecords
<1>6. PICK i : i = b.of[p].bySsrc[s]
  BY Zenon
<1>7. i \in Indices(p)
  <2>1. i # 0
    BY <1>2, <1>3, <1>6, Zenon DEF ReceiveRtcpSenderReport
  <2>2. b.of[p].bySsrc \in Maps(p)
    BY <1>2, <1>5, PartTypes, Zenon
  <2> QED BY <1>6, <2>1, <2>2, Zenon DEF Maps
<1>8. PICK st : st = [b.of[p] EXCEPT !.sr = b.of[p].sr \cup {i}]
  BY Zenon
<1>9. PICK X : X = IF i \in b.of[p].sr THEN {} ELSE {<<p, i>>}
  BY Zenon
<1>10. PICK o : o = [b.out EXCEPT !.first = X]
  BY Zenon
<1>11. prod' = Put(b, p, st, o)
  BY <1>1, <1>2, <1>3, <1>6, <1>8, <1>9, <1>10, Zenon DEF ReceiveRtcpSenderReport, Put
<1>12. st \in StreamSets(p) /\ SameMaps(st, b.of[p])
  <2>1. b.of[p] \in StreamSets(p) /\ b.of[p].sr \in SUBSET Indices(p)
    BY <1>2, <1>5, PartTypes, Zenon
  <2>2. PICK R \in SUBSET Indices(p) : R = b.of[p].sr \cup {i}
    BY <1>7, <2>1, Zenon
  <2>3. st = [b.of[p] EXCEPT !.sr = R]
    BY <1>8, <2>2, Zenon
  <2> QED BY <2>1, <2>3, Zenon DEF StreamSets, SameMaps
<1>13. X \in Pairs
  <2>1. <<p, i>> \in Producers \X Nat
    BY <1>5, <1>7, IndicesPositive, Zenon
  <2> QED BY <1>9, <2>1, Zenon DEF Pairs
<1>14. o \in Outs /\ o.asked = {} /\ o.forwarded = {}
  <2>1. b.out \in Outs /\ b.out.asked = {} /\ b.out.forwarded = {}
    BY <1>2, QuietFacts, Zenon
  <2> QED BY <1>10, <1>13, <2>1 DEF Outs
<1>15. PICK d : d = Put(b, p, st, o)
  BY Zenon
<1>16. /\ d \in ProducerRecords /\ Beside(d, b, p) /\ d.of[p] = st /\ d.out = o
       /\ d.announced = b.announced
  BY <1>2, <1>5, <1>12, <1>14, <1>15, PutFacts, SMTT(60)
<1>17. ProducerOK(d)
  BY <1>1, <1>2, <1>4, <1>12, <1>14, <1>16, KeptStep, Zenon
<1>18. ProducerOK(prod')
  BY <1>11, <1>15, <1>17, Zenon
<1> QED BY <1>18 DEF ProducerInv

\* A key frame is waited for no more.
LEMMA GiveUpOK ==
    ASSUME ProducerInv, NEW s \in RtpSsrcs, NEW p \in Producers, GiveUp(p, s)
    PROVE  ProducerInv'
<1>1. PICK b : b = Idle
  OBVIOUS
<1>2. b \in ProducerRecords /\ ProducersOK(b) /\ b.out = Quiet /\ b.open = prod.open /\ b.of = prod.of
  BY <1>1, IdleFacts, Zenon
<1>3. p \in b.open
  <2>1. b.of[p].waiting # {}
    BY <1>2 DEF GiveUp
  <2>2. NewStreams(p).waiting = {}
    BY Zenon DEF NewStreams
  <2> QED BY <1>2, <2>1, <2>2, Zenon DEF ProducersOK
<1>4. PICK W \in SUBSET RtpSsrcs : W = b.of[p].waiting \ {s}
  <2>1. b.of[p].waiting \in SUBSET RtpSsrcs
    BY <1>2, PartTypes, Zenon
  <2> QED BY <2>1, Zenon
<1>5. PICK d : d = Waits(b, p, W)
  OBVIOUS
<1>6. prod' = d
  BY <1>1, <1>2, <1>4, <1>5, Zenon DEF GiveUp, Waits
<1>7. Kept(d, b, p) /\ d.out = b.out
  BY <1>2, <1>4, <1>5, WaitKept, ZenonT(40)
<1>8. ProducerOK(d)
  BY <1>1, <1>2, <1>3, <1>7, QuietFacts, KeptStep, Zenon DEF Kept
<1>9. ProducerOK(prod')
  BY <1>6, <1>8, Zenon
<1> QED BY <1>9, Zenon DEF ProducerInv

\* No Producers.
LEMMA ProducerStart == ProducerInit => ProducerInv
<1> SUFFICES ASSUME ProducerInit PROVE ProducerInv
  OBVIOUS
<1>1. PICK T : T = [s \in RtpSsrcs |-> NoProducer]
  BY Zenon
<1>2. PICK M : M = [m \in Mids |-> NoProducer]
  BY Zenon
<1>3. PICK R : R = [r \in Rids |-> NoProducer]
  BY Zenon
<1>4. PICK of : of = [p \in Producers |-> NewStreams(p)]
  BY Zenon
<1>5. PICK q \in Outs : q = Quiet
  BY QuietFacts, Zenon
<1>6. PICK none : none = {}
  BY Zenon
<1>7. PICK d : d = [open |-> none, ssrcTable |-> T, midTable |-> M, ridTable |-> R, of |-> of,
                    announced |-> none, out |-> q, fault |-> FALSE, events |-> 0]
  BY Zenon
<1>8. prod = d
  BY <1>1, <1>2, <1>3, <1>4, <1>5, <1>6, <1>7, Zenon DEF ProducerInit
<1>9. T \in Listens(RtpSsrcs) /\ M \in Listens(Mids) /\ R \in Listens(Rids)
  BY <1>1, <1>2, <1>3, Zenon DEF Listens
<1>10. of \in StreamTables /\ \A p \in Producers : of[p] = NewStreams(p)
  <2>1. \A p \in Producers : of[p] = NewStreams(p)
    BY <1>4, Zenon
  <2>2. \A p \in Producers : of[p] \in StreamSets(p)
    BY <1>9, <2>1, NewFacts, Zenon
  <2>3. of \in [Producers -> UNION {StreamSets(p) : p \in Producers}]
    BY <1>4, <2>1, <2>2, Zenon
  <2> QED BY <2>1, <2>2, <2>3, Zenon DEF StreamTables
<1>11. none \in SUBSET Producers /\ none \in Pairs
  BY <1>6, Zenon DEF Pairs
<1>12. d \in ProducerRecords
  BY <1>5, <1>7, <1>9, <1>10, <1>11, SMTT(60) DEF ProducerRecords
<1>13. /\ d.open = {} /\ d.ssrcTable = T /\ d.midTable = M /\ d.ridTable = R /\ d.of = of /\ d.out = q
       /\ d.fault = FALSE
  BY <1>6, <1>7, Zenon
<1>14. ListensOK(d)
  BY <1>1, <1>2, <1>3, <1>13, SMTT(60) DEF ListensOK
<1>15. ProducersOK(d) /\ AllTold(d)
  BY <1>10, <1>12, <1>13, <1>14, Zenon DEF ProducersOK, AllTold
<1>16. ProducerOK(d)
  BY <1>5, <1>12, <1>13, <1>15, QuietFacts, QuietOK, Zenon
<1> QED BY <1>8, <1>16 DEF ProducerInv

\* Each step of the Producers keeps the invariant.
LEMMA ProducerStep ==
    ASSUME ProducerInv, [ProducerNext]_prod
    PROVE  ProducerInv'
<1>1. CASE UNCHANGED prod
  BY <1>1, Zenon DEF ProducerInv
<1>2. ASSUME NEW p \in Producers, Produce(p) \/ Close(p) \/ Pause(p) \/ Resume(p)
      PROVE  ProducerInv'
  BY <1>2, ProduceOK, CloseOK, PauseOK, ResumeOK
<1>3. ASSUME NEW p \in Producers, NEW i \in Indices(p), Ask(p, i)
      PROVE  ProducerInv'
  BY <1>3, AskOK, Zenon
<1>4. ASSUME NEW pk \in Packets, Receive(pk)
      PROVE  ProducerInv'
  BY <1>4, PacketOK
<1>5. ASSUME NEW s \in RtpSsrcs, ReceiveRtcpSenderReport(s)
      PROVE  ProducerInv'
  BY <1>5, ReportOK
<1>6. ASSUME NEW s \in RtpSsrcs, NEW p \in Producers, GiveUp(p, s)
      PROVE  ProducerInv'
  BY <1>6, GiveUpOK
<1> QED BY <1>1, <1>2, <1>3, <1>4, <1>5, <1>6, Zenon DEF ProducerNext

\* Whatever packets come, and whatever Producers open, close, pause and resume: the
\* RtpListener and the maps of each Producer agree, no assertion of CreateRtpStream()
\* fails, the Consumers get no packet of a stream they were not told of, and who asks for
\* a key frame gets one or one is waited for.  (RtpListener.cpp, Producer.cpp.)
THEOREM ProducersCorrect == ProducerSpec => []StreamsExact
<1>1. ProducerInv => StreamsExact
  <2> SUFFICES ASSUME ProducerInv PROVE StreamsExact
    OBVIOUS
  <2>1. ProducersOK(prod) /\ ForwardedOK(prod) /\ AskedOK(prod)
    BY DEF ProducerInv, ProducerOK
  <2>2. prod \in ProducerRecords /\ prod.fault = FALSE /\ ListensOK(prod)
    BY <2>1, Zenon DEF ProducersOK
  <2>3. /\ DOMAIN prod.ssrcTable = RtpSsrcs /\ DOMAIN prod.midTable = Mids
        /\ DOMAIN prod.ridTable = Rids /\ prod.open \in SUBSET Producers
    BY <2>2, Zenon DEF ProducerRecords, Listens
  <2>4. \A t \in {prod.ssrcTable, prod.midTable, prod.ridTable} :
            \A k \in DOMAIN t : t[k] \in prod.open \cup {NoProducer}
    BY <2>2, <2>3, Zenon DEF ListensOK
  <2>5. \A p \in prod.open : StreamsOK(p, prod.of[p], prod.ssrcTable)
    BY <2>1, <2>3, Zenon DEF ProducersOK
  <2>6. TablesAgree
    BY <2>2, <2>4, <2>5, Zenon DEF TablesAgree, StreamsOK, MapsOK
  <2>7. ForwardedIsAnnounced
    BY <2>1, Zenon DEF ForwardedOK, ForwardedIsAnnounced
  <2>8. AskedIsServed
    BY <2>1, Zenon DEF AskedOK, AskedIsServed
  <2> QED BY <2>6, <2>7, <2>8 DEF StreamsExact
<1> QED BY <1>1, ProducerStart, ProducerStep, PTL DEF ProducerSpec

==============================================================================
