----------------------------- MODULE MediaProofs -----------------------------
(***************************************************************************)
(* Proofs about the streams of a Transport.  The retransmission buffer of  *)
(* a sent stream finds each packet under its number and loses only old     *)
(* ones, for all its limits.  The KeyFrameRequestManager keeps its         *)
(* invariants for every set of streams, every delay and every timeout.     *)
(* SimpleConsumer and PipeConsumer (instance Fwd) go on from a key frame   *)
(* after a gap, and ask for it, for every set of streams.                  *)
(***************************************************************************)
EXTENDS KeyFrameRequestManager, RtpRetransmissionBuffer, WellFoundedInduction, TLAPS

-----------------------------------------------------------------------------
(* The retransmission buffer.  ResendsExact is not inductive: that Get()     *)
(* finds each packet says nothing of the slots between two packets, and an   *)
(* Insert() computes a slot from the number of the oldest packet alone.      *)
(* BufferOK says that a packet's slot is its distance from the oldest, that  *)
(* both ends hold packets, and that all timestamps are within MaxDelay.      *)
Stored == [seq : Numbers, ts : Ts!Numbers]

BufferOK(b) ==
    /\ b \in Seq(Stored \cup {Blank}) /\ Len(b) <= MaxItems
    /\ b # << >> => b[1] \in Stored /\ b[Len(b)] \in Stored
    /\ \A n \in 1..Len(b) : b[n] \in Stored => Distance(b[1].seq, b[n].seq) = n - 1
    /\ \A m, n \in 1..Len(b) :
          b[m] \in Stored /\ b[n] \in Stored /\ m < n => Ts!Distance(b[m].ts, b[n].ts) <= MaxDelay

BufferInv == BufferOK(buffer)

\* How far j is ahead of i on a circle of `all' numbers.
Gap(i, j, all) == IF j >= i THEN j - i ELSE j - i + all

\* The limits of the buffer, and half a turn of the numbers and of the timestamps.
LEMMA BufferConstants ==
    /\ MaxValue \in Nat /\ MaxTimestamp \in Nat /\ MaxItems \in Nat /\ MaxDelay \in Nat /\ MaxJump \in Nat
    /\ MaxItems > 0
    /\ \E h \in Nat : /\ MaxValue \div 2 = h /\ 2 * h <= MaxValue /\ MaxValue <= 2 * h + 1
                      /\ MaxItems <= h + 1
    /\ \E h \in Nat : /\ MaxTimestamp \div 2 = h /\ 2 * h <= MaxTimestamp /\ MaxTimestamp <= 2 * h + 1
                      /\ MaxDelay + MaxJump <= h
<1>1. /\ MaxValue \in Nat /\ MaxTimestamp \in Nat /\ MaxItems \in Nat /\ MaxDelay \in Nat /\ MaxJump \in Nat
      /\ MaxItems > 0
  BY BufferAssumption
<1>2. \A m \in Nat : m \div 2 \in Nat /\ 2 * (m \div 2) <= m /\ m <= 2 * (m \div 2) + 1
  OBVIOUS
<1> QED BY <1>1, <1>2, BufferAssumption

\* Subtraction modulo the size of the circle is the gap.
LEMMA ModGap ==
    ASSUME NEW all \in Nat \ {0}, NEW i \in 0..(all - 1), NEW j \in 0..(all - 1)
    PROVE  (j - i) % all = Gap(i, j, all)
<1>1. ASSUME NEW x \in 0..(all - 1) PROVE x % all = x /\ (x - all) % all = x
  OBVIOUS
<1>3. CASE j >= i
  BY <1>1, <1>3 DEF Gap
<1>4. CASE j < i
  <2>1. j - i + all \in 0..(all - 1) /\ (j - i + all) - all = j - i
    BY <1>4
  <2> QED BY <1>1, <1>4, <2>1 DEF Gap
<1> QED BY <1>3, <1>4

\* IsSeqLowerThan() where half a turn is h.
Lower(l, r, h) == (r > l /\ r - l <= h) \/ (l > r /\ l - r > h)

IsCircle(all, h) == all \in Nat /\ h \in Nat /\ 2 * h + 1 <= all /\ all <= 2 * h + 2

\* Distances and comparisons of sequence numbers are gaps on a circle.
LEMMA SeqFacts ==
    \E h \in Nat :
        /\ IsCircle(MaxValue + 1, h) /\ MaxItems <= h + 1
        /\ \A i, j \in Numbers : /\ i \in 0..((MaxValue + 1) - 1)
                                 /\ Distance(i, j) = Gap(i, j, MaxValue + 1)
                                 /\ IsSeqLowerThan(i, j) <=> Lower(i, j, h)
                                 /\ IsSeqHigherThan(i, j) <=> Lower(j, i, h)
<1>1. PICK h \in Nat : /\ MaxValue \div 2 = h /\ 2 * h <= MaxValue /\ MaxValue <= 2 * h + 1
                      /\ MaxItems <= h + 1
  BY BufferConstants
<1>2. IsCircle(MaxValue + 1, h)
  BY <1>1, BufferConstants DEF IsCircle
<1>3. ASSUME NEW i \in Numbers, NEW j \in Numbers
      PROVE  /\ i \in 0..((MaxValue + 1) - 1)
             /\ Distance(i, j) = Gap(i, j, MaxValue + 1)
             /\ IsSeqLowerThan(i, j) <=> Lower(i, j, h)
             /\ IsSeqHigherThan(i, j) <=> Lower(j, i, h)
  <2>1. i \in 0..((MaxValue + 1) - 1) /\ j \in 0..((MaxValue + 1) - 1) /\ MaxValue + 1 \in Nat \ {0}
    BY BufferConstants DEF Numbers
  <2>2. Distance(i, j) = Gap(i, j, MaxValue + 1)
    BY <2>1, ModGap, Zenon DEF Distance, Mod
  <2>3. /\ IsSeqLowerThan(i, j) <=> Lower(i, j, h)
        /\ IsSeqHigherThan(i, j) <=> Lower(j, i, h)
    BY <1>1, Zenon DEF IsSeqLowerThan, IsSeqHigherThan, Lower
  <2> QED BY <2>1, <2>2, <2>3
<1> QED BY <1>1, <1>2, <1>3, Zenon

\* And so are those of timestamps.
LEMMA TsFacts ==
    \E h \in Nat :
        /\ IsCircle(MaxTimestamp + 1, h) /\ MaxDelay + MaxJump <= h
        /\ \A i, j \in Ts!Numbers : /\ i \in 0..((MaxTimestamp + 1) - 1)
                                    /\ Ts!Distance(i, j) = Gap(i, j, MaxTimestamp + 1)
                                    /\ Ts!IsSeqLowerThan(i, j) <=> Lower(i, j, h)
                                    /\ Ts!IsSeqHigherThan(i, j) <=> Lower(j, i, h)
<1>1. PICK h \in Nat : /\ MaxTimestamp \div 2 = h /\ 2 * h <= MaxTimestamp /\ MaxTimestamp <= 2 * h + 1
                      /\ MaxDelay + MaxJump <= h
  BY BufferConstants
<1>2. IsCircle(MaxTimestamp + 1, h)
  BY <1>1, BufferConstants DEF IsCircle
<1>3. ASSUME NEW i \in Ts!Numbers, NEW j \in Ts!Numbers
      PROVE  /\ i \in 0..((MaxTimestamp + 1) - 1)
             /\ Ts!Distance(i, j) = Gap(i, j, MaxTimestamp + 1)
             /\ Ts!IsSeqLowerThan(i, j) <=> Lower(i, j, h)
             /\ Ts!IsSeqHigherThan(i, j) <=> Lower(j, i, h)
  <2>1. /\ i \in 0..((MaxTimestamp + 1) - 1) /\ j \in 0..((MaxTimestamp + 1) - 1)
        /\ MaxTimestamp + 1 \in Nat \ {0}
    BY BufferConstants DEF Ts!Numbers
  <2>2. Ts!Distance(i, j) = Gap(i, j, MaxTimestamp + 1)
    BY <2>1, ModGap, Zenon DEF Ts!Distance, Ts!Mod
  <2>3. /\ Ts!IsSeqLowerThan(i, j) <=> Lower(i, j, h)
        /\ Ts!IsSeqHigherThan(i, j) <=> Lower(j, i, h)
    BY <1>1, Zenon DEF Ts!IsSeqLowerThan, Ts!IsSeqHigherThan, Lower
  <2> QED BY <2>1, <2>2, <2>3
<1> QED BY <1>1, <1>2, <1>3, Zenon

\* Gaps add up along the circle.
LEMMA GapFacts ==
    ASSUME NEW all \in Nat, NEW i \in 0..(all - 1), NEW j \in 0..(all - 1), NEW k \in 0..(all - 1)
    PROVE  /\ Gap(i, j, all) \in 0..(all - 1) /\ Gap(i, i, all) = 0
           /\ Gap(i, j, all) = Gap(i, k, all) => j = k
           /\ i # j => Gap(i, j, all) + Gap(j, i, all) = all
           /\ Gap(i, j, all) + Gap(j, k, all) < all => Gap(i, k, all) = Gap(i, j, all) + Gap(j, k, all)
           /\ Gap(i, j, all) <= Gap(i, k, all) => Gap(j, k, all) = Gap(i, k, all) - Gap(i, j, all)
           /\ Gap(j, k, all) <= Gap(i, k, all) => Gap(i, j, all) = Gap(i, k, all) - Gap(j, k, all)
BY DEF Gap

\* Of two different numbers one is lower, by at most half a turn.
LEMMA LowerFacts ==
    ASSUME NEW all, NEW h, IsCircle(all, h), NEW i \in 0..(all - 1), NEW j \in 0..(all - 1)
    PROVE  /\ i = j \/ Lower(i, j, h) \/ Lower(j, i, h)
           /\ Lower(i, j, h) => i # j /\ ~Lower(j, i, h) /\ Gap(i, j, all) \in 1..(h + 1) /\ Gap(i, j, all) + h < all
           /\ Gap(i, j, all) \in 1..h => Lower(i, j, h)
<1>1. i = j \/ Lower(i, j, h) \/ Lower(j, i, h)
  BY DEF Lower, IsCircle
<1>2. ASSUME Lower(i, j, h)
      PROVE  i # j /\ ~Lower(j, i, h) /\ Gap(i, j, all) \in 1..(h + 1) /\ Gap(i, j, all) + h < all
  <2>1. CASE j > i /\ j - i <= h
    BY <2>1 DEF Lower, IsCircle, Gap
  <2>2. CASE i > j /\ i - j > h
    BY <2>2 DEF Lower, IsCircle, Gap
  <2> QED BY <1>2, <2>1, <2>2 DEF Lower
<1>3. ASSUME Gap(i, j, all) \in 1..h PROVE Lower(i, j, h)
  BY <1>3 DEF Gap, Lower, IsCircle
<1> QED BY <1>1, <1>2, <1>3

\* What the proof uses of sequence numbers.
LEMMA SeqDist ==
    ASSUME NEW i \in Numbers, NEW j \in Numbers, NEW k \in Numbers
    PROVE  /\ Distance(i, j) \in 0..MaxValue /\ Distance(i, i) = 0
           /\ Distance(i, j) = Distance(i, k) => j = k
           /\ Distance(i, j) + Distance(j, k) <= MaxValue => Distance(i, k) = Distance(i, j) + Distance(j, k)
           /\ Distance(i, j) <= Distance(i, k) => Distance(j, k) = Distance(i, k) - Distance(i, j)
           /\ IsSeqHigherThan(j, i) <=> IsSeqLowerThan(i, j)
           /\ i = j \/ IsSeqLowerThan(i, j) \/ IsSeqLowerThan(j, i)
           /\ IsSeqLowerThan(i, j) => /\ i # j /\ ~IsSeqLowerThan(j, i) /\ Distance(i, j) >= 1
                                      /\ Distance(i, j) + MaxItems - 1 <= MaxValue
           /\ Distance(i, j) \in 1..(MaxItems - 1) => IsSeqLowerThan(i, j)
<1>1. PICK h \in Nat :
        /\ IsCircle(MaxValue + 1, h) /\ MaxItems <= h + 1
        /\ \A x, y \in Numbers : /\ x \in 0..((MaxValue + 1) - 1)
                                 /\ Distance(x, y) = Gap(x, y, MaxValue + 1)
                                 /\ IsSeqLowerThan(x, y) <=> Lower(x, y, h)
                                 /\ IsSeqHigherThan(x, y) <=> Lower(y, x, h)
  BY SeqFacts, Zenon
<1> DEFINE all == MaxValue + 1
<1>2. MaxValue \in Nat /\ MaxItems \in Nat /\ all \in Nat
  BY BufferConstants
<1>3. i \in 0..(all - 1) /\ j \in 0..(all - 1) /\ k \in 0..(all - 1)
  BY <1>1, Zenon
<1>4. /\ Distance(i, j) = Gap(i, j, all) /\ Distance(i, k) = Gap(i, k, all)
      /\ Distance(j, k) = Gap(j, k, all) /\ Distance(i, i) = Gap(i, i, all)
      /\ IsSeqLowerThan(i, j) <=> Lower(i, j, h)
      /\ IsSeqLowerThan(j, i) <=> Lower(j, i, h)
      /\ IsSeqHigherThan(j, i) <=> Lower(i, j, h)
  BY <1>1, Zenon
<1>5. /\ Gap(i, j, all) \in 0..(all - 1) /\ Gap(i, i, all) = 0
      /\ Gap(i, j, all) = Gap(i, k, all) => j = k
      /\ Gap(i, j, all) + Gap(j, k, all) < all => Gap(i, k, all) = Gap(i, j, all) + Gap(j, k, all)
      /\ Gap(i, j, all) <= Gap(i, k, all) => Gap(j, k, all) = Gap(i, k, all) - Gap(i, j, all)
  BY <1>2, <1>3, GapFacts
<1>a. Gap(j, k, all) \in 0..(all - 1)
  BY <1>2, <1>3, GapFacts
<1>6. /\ i = j \/ Lower(i, j, h) \/ Lower(j, i, h)
      /\ Lower(i, j, h) => i # j /\ ~Lower(j, i, h) /\ Gap(i, j, all) \in 1..(h + 1) /\ Gap(i, j, all) + h < all
      /\ Gap(i, j, all) \in 1..h => Lower(i, j, h)
  BY <1>1, <1>3, LowerFacts, Zenon
<1>7. Distance(i, j) \in 1..(MaxItems - 1) => Gap(i, j, all) \in 1..h
  BY <1>1, <1>2, <1>4
<1>8. Lower(i, j, h) => Distance(i, j) >= 1 /\ Distance(i, j) + MaxItems - 1 <= MaxValue
  BY <1>1, <1>2, <1>4, <1>6
<1>9. /\ Distance(i, j) \in 0..MaxValue /\ Distance(i, i) = 0
      /\ Distance(i, j) + Distance(j, k) <= MaxValue => Distance(i, k) = Distance(i, j) + Distance(j, k)
  BY <1>2, <1>4, <1>5, <1>a
<1> HIDE DEF all
<1> QED BY <1>4, <1>5, <1>6, <1>7, <1>8, <1>9, Zenon

\* What the proof uses of timestamps.
LEMMA TsDist ==
    ASSUME NEW i \in Ts!Numbers, NEW j \in Ts!Numbers, NEW k \in Ts!Numbers
    PROVE  /\ Ts!Distance(i, j) \in 0..MaxTimestamp /\ Ts!Distance(i, i) = 0
           /\ Ts!Distance(i, j) + Ts!Distance(j, k) <= MaxTimestamp
                  => Ts!Distance(i, k) = Ts!Distance(i, j) + Ts!Distance(j, k)
           /\ Ts!Distance(i, j) <= Ts!Distance(i, k) => Ts!Distance(j, k) = Ts!Distance(i, k) - Ts!Distance(i, j)
           /\ Ts!Distance(j, k) <= Ts!Distance(i, k) => Ts!Distance(i, j) = Ts!Distance(i, k) - Ts!Distance(j, k)
           /\ Ts!IsSeqHigherThan(j, i) <=> Ts!IsSeqLowerThan(i, j)
           /\ i = j \/ Ts!IsSeqLowerThan(i, j) \/ Ts!IsSeqLowerThan(j, i)
           /\ Ts!IsSeqLowerThan(i, j) => i # j /\ ~Ts!IsSeqLowerThan(j, i)
           /\ Ts!Distance(i, j) \in 1..(MaxDelay + MaxJump) => Ts!IsSeqLowerThan(i, j)
<1>1. PICK h \in Nat :
        /\ IsCircle(MaxTimestamp + 1, h) /\ MaxDelay + MaxJump <= h
        /\ \A x, y \in Ts!Numbers : /\ x \in 0..((MaxTimestamp + 1) - 1)
                                    /\ Ts!Distance(x, y) = Gap(x, y, MaxTimestamp + 1)
                                    /\ Ts!IsSeqLowerThan(x, y) <=> Lower(x, y, h)
                                    /\ Ts!IsSeqHigherThan(x, y) <=> Lower(y, x, h)
  BY TsFacts, Zenon
<1> DEFINE all == MaxTimestamp + 1
<1>2. MaxTimestamp \in Nat /\ MaxDelay \in Nat /\ MaxJump \in Nat /\ all \in Nat
  BY BufferConstants
<1>3. i \in 0..(all - 1) /\ j \in 0..(all - 1) /\ k \in 0..(all - 1)
  BY <1>1, Zenon
<1>4. /\ Ts!Distance(i, j) = Gap(i, j, all) /\ Ts!Distance(i, k) = Gap(i, k, all)
      /\ Ts!Distance(j, k) = Gap(j, k, all) /\ Ts!Distance(i, i) = Gap(i, i, all)
      /\ Ts!IsSeqLowerThan(i, j) <=> Lower(i, j, h)
      /\ Ts!IsSeqLowerThan(j, i) <=> Lower(j, i, h)
      /\ Ts!IsSeqHigherThan(j, i) <=> Lower(i, j, h)
  BY <1>1, Zenon
<1>5. /\ Gap(i, j, all) \in 0..(all - 1) /\ Gap(i, i, all) = 0
      /\ Gap(i, j, all) + Gap(j, k, all) < all => Gap(i, k, all) = Gap(i, j, all) + Gap(j, k, all)
      /\ Gap(i, j, all) <= Gap(i, k, all) => Gap(j, k, all) = Gap(i, k, all) - Gap(i, j, all)
      /\ Gap(j, k, all) <= Gap(i, k, all) => Gap(i, j, all) = Gap(i, k, all) - Gap(j, k, all)
  BY <1>2, <1>3, GapFacts
<1>a. Gap(j, k, all) \in 0..(all - 1)
  BY <1>2, <1>3, GapFacts
<1>6. /\ i = j \/ Lower(i, j, h) \/ Lower(j, i, h)
      /\ Lower(i, j, h) => i # j /\ ~Lower(j, i, h)
      /\ Gap(i, j, all) \in 1..h => Lower(i, j, h)
  BY <1>1, <1>3, LowerFacts, Zenon
<1>7. Ts!Distance(i, j) \in 1..(MaxDelay + MaxJump) => Gap(i, j, all) \in 1..h
  BY <1>1, <1>2, <1>4
<1>9. /\ Ts!Distance(i, j) \in 0..MaxTimestamp /\ Ts!Distance(i, i) = 0
      /\ Ts!Distance(i, j) + Ts!Distance(j, k) <= MaxTimestamp
             => Ts!Distance(i, k) = Ts!Distance(i, j) + Ts!Distance(j, k)
  BY <1>2, <1>4, <1>5, <1>a
<1> HIDE DEF all
<1> QED BY <1>4, <1>5, <1>6, <1>7, <1>9, Zenon

\* Two timestamps as far ahead of a third are the same.
LEMMA TsSame ==
    ASSUME NEW i \in Ts!Numbers, NEW j \in Ts!Numbers, NEW k \in Ts!Numbers,
           Ts!Distance(i, j) = Ts!Distance(i, k)
    PROVE  j = k
<1>1. PICK h \in Nat :
        /\ IsCircle(MaxTimestamp + 1, h) /\ MaxDelay + MaxJump <= h
        /\ \A x, y \in Ts!Numbers : /\ x \in 0..((MaxTimestamp + 1) - 1)
                                    /\ Ts!Distance(x, y) = Gap(x, y, MaxTimestamp + 1)
                                    /\ Ts!IsSeqLowerThan(x, y) <=> Lower(x, y, h)
                                    /\ Ts!IsSeqHigherThan(x, y) <=> Lower(y, x, h)
  BY TsFacts, Zenon
<1>2. Gap(i, j, MaxTimestamp + 1) = Gap(i, k, MaxTimestamp + 1)
  BY <1>1, Zenon
<1>3. MaxTimestamp \in Nat /\ i \in 0..MaxTimestamp /\ j \in 0..MaxTimestamp /\ k \in 0..MaxTimestamp
  BY BufferConstants DEF Ts!Numbers
<1> QED BY <1>2, <1>3 DEF Gap

\* Distances of timestamps add up while they are less than a turn.
LEMMA TsSum ==
    ASSUME NEW i \in Ts!Numbers, NEW j \in Ts!Numbers, NEW k \in Ts!Numbers,
           Ts!Distance(i, j) + Ts!Distance(j, k) <= MaxTimestamp
    PROVE  Ts!Distance(i, k) = Ts!Distance(i, j) + Ts!Distance(j, k)
BY TsDist

\* A number between two on the circle is no further from the first than the second is.
LEMMA GapBetween ==
    ASSUME NEW all, NEW h, IsCircle(all, h),
           NEW i \in 0..(all - 1), NEW j \in 0..(all - 1), NEW k \in 0..(all - 1),
           k = i \/ Lower(i, k, h), k = j \/ Lower(k, j, h), Gap(i, j, all) <= h
    PROVE  Gap(i, k, all) <= Gap(i, j, all)
<1>1. CASE k = i
  BY <1>1 DEF Gap, IsCircle
<1>2. CASE k = j
  BY <1>2 DEF Gap, IsCircle
<1>3. CASE Lower(i, k, h) /\ Lower(k, j, h)
  BY <1>3, SMTT(30) DEF Gap, Lower, IsCircle
<1> QED BY <1>1, <1>2, <1>3

\* A sequence number that is not below the oldest and not above the newest has a slot.
LEMMA SeqBetween ==
    ASSUME NEW i \in Numbers, NEW j \in Numbers, NEW k \in Numbers,
           ~IsSeqLowerThan(k, i), ~IsSeqHigherThan(k, j), Distance(i, j) <= MaxItems - 1
    PROVE  Distance(i, k) <= Distance(i, j)
<1>1. PICK h \in Nat :
        /\ IsCircle(MaxValue + 1, h) /\ MaxItems <= h + 1
        /\ \A x, y \in Numbers : /\ x \in 0..((MaxValue + 1) - 1)
                                 /\ Distance(x, y) = Gap(x, y, MaxValue + 1)
                                 /\ IsSeqLowerThan(x, y) <=> Lower(x, y, h)
                                 /\ IsSeqHigherThan(x, y) <=> Lower(y, x, h)
  BY SeqFacts, Zenon
<1> DEFINE all == MaxValue + 1
<1>2. i \in 0..(all - 1) /\ j \in 0..(all - 1) /\ k \in 0..(all - 1)
  BY <1>1, Zenon
<1>3. /\ Distance(i, j) = Gap(i, j, all) /\ Distance(i, k) = Gap(i, k, all)
      /\ ~Lower(k, i, h) /\ ~Lower(j, k, h) /\ IsCircle(all, h)
  BY <1>1, Zenon
<1>4. MaxItems \in Nat /\ all \in Nat
  BY BufferConstants
<1>5. Gap(i, j, all) \in 0..(all - 1)
  BY <1>2, <1>4, GapFacts
<1>6. Gap(i, j, all) <= h
  BY <1>1, <1>3, <1>4, <1>5
<1> HIDE DEF all
<1>7. (k = i \/ Lower(i, k, h)) /\ (k = j \/ Lower(k, j, h))
  BY <1>2, <1>3, LowerFacts, Zenon
<1>8. Gap(i, k, all) <= Gap(i, j, all)
  BY <1>2, <1>3, <1>6, <1>7, GapBetween, Zenon
<1> QED BY <1>3, <1>8, Zenon

-----------------------------------------------------------------------------
\* A blank slot holds no packet.
LEMMA BlankIsNoPacket == Blank \notin Stored
<1>1. -1 \notin Numbers
  BY BufferConstants DEF Numbers
<1> QED BY <1>1 DEF Blank, Stored

\* The slots that are not blank are those with a packet.
LEMMA FilledFacts ==
    ASSUME NEW b, BufferOK(b)
    PROVE  /\ Len(b) \in Nat /\ \A n \in 1..Len(b) : b[n] # Blank <=> b[n] \in Stored
           /\ Filled(b) = {n \in 1..Len(b) : b[n] \in Stored}
<1>1. b \in Seq(Stored \cup {Blank})
  BY Zenon DEF BufferOK
<1>2. Len(b) \in Nat /\ \A n \in 1..Len(b) : b[n] \in Stored \cup {Blank}
  BY <1>1
<1>3. \A n \in 1..Len(b) : b[n] # Blank <=> b[n] \in Stored
  BY <1>2, BlankIsNoPacket, Zenon
<1> QED BY <1>2, <1>3, Zenon DEF Filled

\* A packet is its number and its timestamp.
LEMMA PacketFields ==
    ASSUME NEW p \in Stored
    PROVE  p.seq \in Numbers /\ p.ts \in Ts!Numbers /\ p = Item(p.seq, p.ts)
BY DEF Stored, Item

\* Get() finds a packet of the buffer under its number.
LEMMA GetItem ==
    ASSUME NEW b, BufferOK(b), NEW n \in 1..Len(b), b[n] \in Stored
    PROVE  Get(b, b[n].seq) = b[n]
<1>1. Len(b) \in Nat /\ Len(b) <= MaxItems /\ MaxItems \in Nat /\ b # << >>
  BY FilledFacts, BufferConstants DEF BufferOK
<1>2. b[1] \in Stored /\ Distance(b[1].seq, b[n].seq) = n - 1
  BY <1>1, Zenon DEF BufferOK
<1>3. b[1].seq \in Numbers /\ b[n].seq \in Numbers
  BY <1>2, PacketFields, Zenon
<1> DEFINE i == b[1].seq
           j == b[n].seq
<1> HIDE DEF i, j
<1>4. i \in Numbers /\ j \in Numbers /\ Distance(i, j) = n - 1
  BY <1>2, <1>3, Zenon DEF i, j
<1>5. /\ Distance(i, j) \in 1..(MaxItems - 1) => IsSeqLowerThan(i, j)
      /\ IsSeqLowerThan(i, j) => ~IsSeqLowerThan(j, i)
      /\ IsSeqLowerThan(j, i) => j # i
      /\ Distance(i, j) = Distance(i, i) => i = j
      /\ Distance(i, i) = 0
  BY <1>4, SeqDist, Zenon
<1>6. ~IsSeqLowerThan(j, i)
  <2>1. CASE n = 1
    BY <1>4, <1>5, <2>1
  <2>2. CASE n # 1
    <3>1. Distance(i, j) \in 1..(MaxItems - 1)
      BY <1>1, <1>4, <2>2
    <3> QED BY <1>5, <3>1, Zenon
  <2> QED BY <2>1, <2>2, Zenon
<1>7. ~(Distance(i, j) >= Len(b)) /\ Distance(i, j) + 1 = n
  BY <1>1, <1>4
<1>8. Get(b, j) = b[Distance(i, j) + 1]
  BY <1>1, <1>6, <1>7, Zenon DEF Get, Oldest, i
<1> QED BY <1>7, <1>8, Zenon DEF j

\* What Get() finds has the number that was asked for.
LEMMA GetOwn ==
    ASSUME NEW b, BufferOK(b), NEW seq \in Numbers, Get(b, seq) # Blank
    PROVE  Get(b, seq) \in Stored /\ Get(b, seq).seq = seq
<1> DEFINE i == b[1].seq
           d == Distance(i, seq)
<1>1. Len(b) \in Nat /\ b # << >> /\ ~(d >= Len(b)) /\ Get(b, seq) = b[d + 1]
  BY FilledFacts, Zenon DEF Get, Oldest
<1>2. b[1] \in Stored
  BY <1>1, Zenon DEF BufferOK
<1>3. i \in Numbers
  BY <1>2, PacketFields, Zenon
<1>4. d \in 0..MaxValue /\ MaxValue \in Nat
  BY <1>3, SeqDist, BufferConstants, Zenon
<1> HIDE DEF d
<1>5. d + 1 \in 1..Len(b) /\ (d + 1) - 1 = d
  BY <1>1, <1>4
<1>6. b[d + 1] \in Stored
  BY <1>1, <1>5, FilledFacts, Zenon
<1>7. Distance(i, b[d + 1].seq) = d /\ b[d + 1].seq \in Numbers
  BY <1>5, <1>6, PacketFields, Zenon DEF BufferOK
<1> HIDE DEF i
<1>8. ASSUME NEW other \in Numbers, Distance(i, other) = Distance(i, seq) PROVE other = seq
  BY <1>3, <1>8, SeqDist
<1> QED BY <1>1, <1>6, <1>7, <1>8, Zenon DEF d

\* The inductive invariant implies ResendsExact.
LEMMA BufferGivesExact == BufferInv => ResendsExact
<1> SUFFICES ASSUME BufferInv PROVE ResendsExact
  OBVIOUS
<1>1. BufferOK(buffer)
  BY DEF BufferInv
<1>2. /\ Len(buffer) \in Nat /\ \A n \in 1..Len(buffer) : buffer[n] # Blank <=> buffer[n] \in Stored
      /\ Items = {n \in 1..Len(buffer) : buffer[n] \in Stored}
  BY <1>1, FilledFacts, Zenon DEF Items
<1>3. BufferTypeOK
  <2>1. buffer # << >> => 1 \in 1..Len(buffer) /\ Len(buffer) \in 1..Len(buffer)
    BY <1>1 DEF BufferOK
  <2>2. Len(buffer) <= MaxItems /\ (buffer # << >> => buffer[1] \in Stored /\ buffer[Len(buffer)] \in Stored)
    BY <1>1, Zenon DEF BufferOK
  <2> QED BY <1>2, <2>1, <2>2, Zenon DEF BufferTypeOK, Stored
<1>4. GetExact
  BY <1>1, <1>2, GetItem, GetOwn, Zenon DEF GetExact
<1>5. TimestampsOrdered
  BY <1>1, <1>2, Zenon DEF TimestampsOrdered, BufferOK
<1> QED BY <1>3, <1>4, <1>5 DEF ResendsExact


\* A set of numbers that is not empty has a least one.
LEMMA LeastIndex ==
    ASSUME NEW T \in SUBSET Nat, T # {}
    PROVE  \E i \in T : \A j \in T : i <= j
<1> DEFINE R == OpToRel(<, Nat)
<1>1. IsWellFoundedOn(R, Nat)
  BY NatLessThanWellFounded, Zenon
<1>2. PICK i \in T : \A j \in T : <<j, i>> \notin R
  <2> HIDE DEF R
  <2> QED BY <1>1, WFMin, Zenon
<1>3. \A j \in T : ~(j < i)
  BY <1>2, Zenon DEF OpToRel
<1> QED BY <1>3

\* Min of such a set.
LEMMA MinIndex ==
    ASSUME NEW T \in SUBSET Nat, T # {}
    PROVE  Min(T) \in T /\ \A j \in T : Min(T) <= j
BY LeastIndex, Zenon DEF Min

\* Max of one that is bounded.
LEMMA MaxIndex ==
    ASSUME NEW top \in Nat, NEW T \in SUBSET (0..top), T # {}
    PROVE  Max(T) \in T /\ \A j \in T : Max(T) >= j
<1> DEFINE U == {top - x : x \in T}
<1>a. \A x \in T : top - x \in Nat
  OBVIOUS
<1>1. U \in SUBSET Nat /\ U # {}
  BY <1>a, Zenon
<1>2. PICK u \in U : \A v \in U : u <= v
  <2> HIDE DEF U
  <2> QED BY <1>1, LeastIndex, Zenon
<1>3. PICK x \in T : u = top - x
  BY <1>2
<1>4. ASSUME NEW j \in T PROVE x >= j
  <2>1. top - j \in U
    BY Zenon
  <2>2. top - x <= top - j
    BY <1>2, <1>3, <2>1, Zenon
  <2> QED BY <2>2
<1> QED BY <1>4, Zenon DEF Max

\* What the buffer loses at its front is a whole number of slots, up to a packet.
LEMMA SuffixOK ==
    ASSUME NEW b, BufferOK(b), NEW m \in 1..Len(b), b[m] \in Stored
    PROVE  /\ BufferOK(SubSeq(b, m, Len(b))) /\ SubSeq(b, m, Len(b)) # << >>
           /\ Len(SubSeq(b, m, Len(b))) = Len(b) - m + 1
           /\ \A n \in 1..(Len(b) - m + 1) : SubSeq(b, m, Len(b))[n] = b[n + m - 1]
<1>1. /\ b \in Seq(Stored \cup {Blank}) /\ Len(b) \in Nat /\ Len(b) <= MaxItems /\ MaxItems \in Nat /\ b # << >>
      /\ MaxValue \in Nat
  BY FilledFacts, BufferConstants DEF BufferOK
<1> DEFINE c == SubSeq(b, m, Len(b))
           w == Len(b) - m + 1
<1>2. c \in Seq(Stored \cup {Blank}) /\ Len(c) = w /\ \A n \in 1..w : c[n] = b[n + m - 1]
  BY <1>1
<1>3. w \in 1..Len(b) /\ w + m - 1 = Len(b) /\ 1 + m - 1 = m /\ w <= MaxItems
  BY <1>1
<1> HIDE DEF c
<1>4. c # << >>
  BY <1>1, <1>2, <1>3
<1>5. b[1] \in Stored /\ b[Len(b)] \in Stored
  BY <1>1, Zenon DEF BufferOK
<1>a. 1 \in 1..w /\ w \in 1..w
  BY <1>1, <1>3
<1>6. c[1] = b[m] /\ c[Len(c)] = b[Len(b)]
  BY <1>2, <1>3, <1>a, Zenon
<1>7. ASSUME NEW n \in 1..w, c[n] \in Stored
      PROVE  Distance(c[1].seq, c[n].seq) = n - 1
  <2> DEFINE p == n + m - 1
  <2>1. p \in 1..Len(b) /\ c[n] = b[p] /\ p - m = n - 1
    BY <1>1, <1>2
  <2> HIDE DEF p
  <2>2. /\ Distance(b[1].seq, b[m].seq) = m - 1 /\ Distance(b[1].seq, b[p].seq) = p - 1
    BY <1>7, <2>1, Zenon DEF BufferOK
  <2>3. b[1].seq \in Numbers /\ b[m].seq \in Numbers /\ b[p].seq \in Numbers
    BY <1>5, <1>7, <2>1, PacketFields, Zenon
  <2>4. Distance(b[1].seq, b[m].seq) <= Distance(b[1].seq, b[p].seq)
            => Distance(b[m].seq, b[p].seq) = Distance(b[1].seq, b[p].seq) - Distance(b[1].seq, b[m].seq)
    BY <2>3, SeqDist, SMTT(60)
  <2>5. m <= p
    BY <2>1
  <2>6. Distance(b[m].seq, b[p].seq) = n - 1
    BY <2>1, <2>2, <2>4, <2>5
  <2> QED BY <1>6, <2>1, <2>6, Zenon
<1>8. ASSUME NEW k \in 1..w, NEW n \in 1..w, c[k] \in Stored, c[n] \in Stored, k < n
      PROVE  Ts!Distance(c[k].ts, c[n].ts) <= MaxDelay
  <2>1. /\ k + m - 1 \in 1..Len(b) /\ n + m - 1 \in 1..Len(b) /\ k + m - 1 < n + m - 1
    BY <1>1, <1>8
  <2>2. c[k] = b[k + m - 1] /\ c[n] = b[n + m - 1]
    BY <1>2, Zenon
  <2> QED BY <1>8, <2>1, <2>2, Zenon DEF BufferOK
<1>9. BufferOK(c)
  <2> HIDE DEF w
  <2> QED BY <1>2, <1>3, <1>5, <1>6, <1>7, <1>8, Zenon DEF BufferOK
<1> QED BY <1>2, <1>4, <1>9, Zenon DEF c

\* The first `from' - 1 slots of the buffer are dropped.
IsFrom(c, b, from) ==
    /\ from \in 1..Len(b) /\ b[from] \in Stored
    /\ BufferOK(c) /\ c # << >> /\ Len(c) = Len(b) - from + 1
    /\ \A n \in 1..(Len(b) - from + 1) : c[n] = b[n + from - 1]

\* Removing what is before the first slot of `kept' leaves a buffer that starts with it.
LEMMA FromFacts ==
    ASSUME NEW b, BufferOK(b), NEW kept \in SUBSET Filled(b), kept # {}
    PROVE  \E from \in kept : (\A n \in kept : from <= n) /\ IsFrom(From(b, kept), b, from)
<1>1. Filled(b) = {n \in 1..Len(b) : b[n] \in Stored} /\ Len(b) \in Nat
  BY FilledFacts, Zenon
<1>2. kept \in SUBSET Nat
  BY <1>1
<1>3. Min(kept) \in kept /\ \A n \in kept : Min(kept) <= n
  BY <1>2, MinIndex, Zenon
<1>4. PICK from \in kept : from = Min(kept)
  BY <1>3
<1>5. from \in 1..Len(b) /\ b[from] \in Stored
  BY <1>1, Zenon
<1>6. From(b, kept) = SubSeq(b, from, Len(b))
  BY <1>4, Zenon DEF From
<1>7. IsFrom(SubSeq(b, from, Len(b)), b, from)
  BY <1>5, SuffixOK, Zenon DEF IsFrom
<1> QED BY <1>3, <1>4, <1>6, <1>7, Zenon


\* The slots of a concatenation.
LEMMA CatFacts ==
    ASSUME NEW s \in Seq(Stored \cup {Blank}), NEW t \in Seq(Stored \cup {Blank})
    PROVE  \E c \in Seq(Stored \cup {Blank}) :
              /\ c = s \o t /\ Len(c) = Len(s) + Len(t)
              /\ \A n \in 1..Len(s) : c[n] = s[n]
              /\ \A n \in 1..Len(t) : c[n + Len(s)] = t[n]
<1> DEFINE Q == Stored \cup {Blank}
<1>1. s \in Seq(Q) /\ t \in Seq(Q)
  OBVIOUS
<1> HIDE DEF Q
<1>2. s \o t \in Seq(Q) /\ Len(s \o t) = Len(s) + Len(t)
  BY <1>1
<1>3. \A n \in 1..Len(s) : (s \o t)[n] = s[n]
  BY <1>1
<1>4. \A n \in 1..Len(t) : (s \o t)[n + Len(s)] = t[n]
  BY <1>1
<1> QED BY <1>2, <1>3, <1>4, Zenon DEF Q

\* A run of blank slots.
LEMMA BlanksFacts ==
    ASSUME NEW k \in Nat
    PROVE  Blanks(k) \in Seq(Stored \cup {Blank}) /\ Len(Blanks(k)) = k /\ \A n \in 1..k : Blanks(k)[n] = Blank
BY DEF Blanks

\* A packet k + 1 numbers above the newest goes to the end, behind k blank slots.
LEMMA AppendOK ==
    ASSUME NEW b, BufferOK(b), b # << >>, NEW p \in Stored, NEW k \in Nat,
           Distance(b[Len(b)].seq, p.seq) = k + 1, Len(b) + k + 1 <= MaxItems,
           \A n \in 1..Len(b) : b[n] \in Stored => Ts!Distance(b[n].ts, p.ts) <= MaxDelay
    PROVE  \E c : /\ c = b \o Blanks(k) \o <<p>> /\ BufferOK(c) /\ c # << >> /\ Len(c) = Len(b) + k + 1
                  /\ c[Len(c)] = p /\ \A n \in 1..Len(b) : n \in 1..Len(c) /\ c[n] = b[n]
<1>1. /\ b \in Seq(Stored \cup {Blank}) /\ Len(b) \in Nat /\ Len(b) <= MaxItems /\ MaxItems \in Nat
      /\ Len(b) \in 1..Len(b) /\ 1 \in 1..Len(b)
  BY FilledFacts, BufferConstants, SMTT(60) DEF BufferOK
<1> DEFINE e == Len(b) + k + 1
<1>a. PICK z : z = Blanks(k)
  OBVIOUS
<1>b. z \in Seq(Stored \cup {Blank}) /\ Len(z) = k /\ \A n \in 1..k : z[n] = Blank
  BY <1>a, BlanksFacts, Zenon
<1>c. PICK y \in Seq(Stored \cup {Blank}) :
          /\ y = b \o z /\ Len(y) = Len(b) + Len(z)
          /\ \A n \in 1..Len(b) : y[n] = b[n]
          /\ \A n \in 1..Len(z) : y[n + Len(b)] = z[n]
  BY <1>1, <1>b, CatFacts, Zenon
<1>d. /\ y \in Seq(Stored \cup {Blank}) /\ Len(y) = Len(b) + k
      /\ \A n \in 1..Len(b) : y[n] = b[n]
      /\ \A n \in (Len(b) + 1)..(Len(b) + k) : y[n] = Blank
  <2>2. ASSUME NEW n \in (Len(b) + 1)..(Len(b) + k) PROVE y[n] = Blank
    <3>1. n - Len(b) \in 1..k /\ (n - Len(b)) + Len(b) = n
      BY <1>1
    <3> QED BY <1>b, <1>c, <3>1, Zenon
  <2> QED BY <1>b, <1>c, <2>2, Zenon
<1>e. PICK o : o = <<p>>
  BY Zenon
<1>f. o \in Seq(Stored \cup {Blank}) /\ Len(o) = 1 /\ o[1] = p
  BY <1>e
<1>2. PICK c \in Seq(Stored \cup {Blank}) :
          /\ c = y \o o /\ Len(c) = Len(y) + Len(o)
          /\ \A n \in 1..Len(y) : c[n] = y[n]
          /\ \A n \in 1..Len(o) : c[n + Len(y)] = o[n]
  BY <1>d, <1>f, CatFacts, Zenon
<1>3. c \in Seq(Stored \cup {Blank}) /\ Len(c) = e
  BY <1>d, <1>f, <1>2
<1>g. \A n \in 1..(Len(b) + k) : c[n] = y[n]
  BY <1>d, <1>2, Zenon
<1>4. \A n \in 1..Len(b) : c[n] = b[n]
  BY <1>1, <1>d, <1>g
<1>5. c[e] = p
  <2>1. 1 \in 1..Len(o) /\ 1 + Len(y) = e
    BY <1>1, <1>d, <1>f
  <2> QED BY <1>f, <1>2, <2>1, Zenon
<1>6. \A n \in (Len(b) + 1)..(Len(b) + k) : c[n] = Blank
  BY <1>1, <1>d, <1>g
<1>7. e \in Nat /\ 1 \in 1..e /\ e <= MaxItems /\ \A n \in 1..Len(b) : n \in 1..e
  BY <1>1
<1>8. \A n \in 1..e : n \in 1..Len(b) \/ n \in (Len(b) + 1)..(Len(b) + k) \/ n = e
  BY <1>1, SMTT(60)
<1>9. \A n \in 1..Len(b) : n < e
  BY <1>1
<1>10. \A n \in 1..e : ~(e < n)
  BY <1>7
<1>11. b[1] \in Stored /\ b[Len(b)] \in Stored /\ c[1] = b[1]
  BY <1>1, <1>4, Zenon DEF BufferOK
<1>12. Distance(b[1].seq, p.seq) = e - 1
  <2>1. b[1].seq \in Numbers /\ b[Len(b)].seq \in Numbers /\ p.seq \in Numbers
    BY <1>11, PacketFields, Zenon
  <2>2. Distance(b[1].seq, b[Len(b)].seq) = Len(b) - 1
    BY <1>1, <1>11, Zenon DEF BufferOK
  <2>3. MaxItems <= MaxValue + 1 /\ MaxValue \in Nat
    BY BufferConstants
  <2>4. Distance(b[1].seq, b[Len(b)].seq) + Distance(b[Len(b)].seq, p.seq) <= MaxValue
            => Distance(b[1].seq, p.seq) = Distance(b[1].seq, b[Len(b)].seq) + Distance(b[Len(b)].seq, p.seq)
    BY <2>1, SeqDist, SMTT(60)
  <2> QED BY <1>1, <2>2, <2>3, <2>4
<1> HIDE DEF e
<1>13. ASSUME NEW n \in 1..e, c[n] \in Stored PROVE Distance(c[1].seq, c[n].seq) = n - 1
  <2>1. CASE n \in 1..Len(b)
    BY <1>4, <1>11, <1>13, <2>1, Zenon DEF BufferOK
  <2>2. CASE n = e
    BY <1>5, <1>11, <1>12, <2>2, Zenon
  <2> QED BY <1>6, <1>8, <1>13, <2>1, <2>2, BlankIsNoPacket, Zenon
<1>14. ASSUME NEW m \in 1..e, NEW n \in 1..e, c[m] \in Stored, c[n] \in Stored, m < n
       PROVE  Ts!Distance(c[m].ts, c[n].ts) <= MaxDelay
  <2>1. m \in 1..Len(b)
    <3>1. m # e
      BY <1>10, <1>14, Zenon
    <3> QED BY <1>6, <1>8, <1>14, <3>1, BlankIsNoPacket, Zenon
  <2>2. CASE n \in 1..Len(b)
    BY <1>4, <1>14, <2>1, <2>2, Zenon DEF BufferOK
  <2>3. CASE n = e
    BY <1>4, <1>5, <1>14, <2>1, <2>3, Zenon
  <2> QED BY <1>6, <1>8, <1>14, <2>2, <2>3, BlankIsNoPacket, Zenon
<1>15. BufferOK(c)
  BY <1>3, <1>5, <1>7, <1>11, <1>13, <1>14, Zenon DEF BufferOK
<1>16. c # << >>
  BY <1>3, <1>7
<1>17. c = b \o Blanks(k) \o <<p>>
  BY <1>a, <1>c, <1>e, <1>2, Zenon
<1> QED BY <1>3, <1>4, <1>5, <1>7, <1>15, <1>16, <1>17, Zenon DEF e

\* A packet k + 1 numbers below the oldest goes to the front, before k blank slots.
LEMMA PrependOK ==
    ASSUME NEW b, BufferOK(b), b # << >>, NEW p \in Stored, NEW k \in Nat,
           Distance(p.seq, b[1].seq) = k + 1, Len(b) + k + 1 <= MaxItems,
           \A n \in 1..Len(b) : b[n] \in Stored => Ts!Distance(p.ts, b[n].ts) <= MaxDelay
    PROVE  \E c : /\ c = <<p>> \o Blanks(k) \o b /\ BufferOK(c) /\ c # << >>
                  /\ c[Len(c)] = b[Len(b)]
                  /\ \A n \in 1..Len(b) : n + k + 1 \in 1..Len(c) /\ c[n + k + 1] = b[n]
<1>1. /\ b \in Seq(Stored \cup {Blank}) /\ Len(b) \in Nat /\ Len(b) <= MaxItems /\ MaxItems \in Nat
      /\ Len(b) \in 1..Len(b) /\ 1 \in 1..Len(b)
  BY FilledFacts, BufferConstants, SMTT(60) DEF BufferOK
<1> DEFINE e == Len(b) + k + 1
<1>a. PICK z : z = Blanks(k)
  OBVIOUS
<1>b. z \in Seq(Stored \cup {Blank}) /\ Len(z) = k /\ \A n \in 1..k : z[n] = Blank
  BY <1>a, BlanksFacts, Zenon
<1>e. PICK o : o = <<p>>
  BY Zenon
<1>f. o \in Seq(Stored \cup {Blank}) /\ Len(o) = 1 /\ o[1] = p
  BY <1>e
<1>c. PICK y \in Seq(Stored \cup {Blank}) :
          /\ y = o \o z /\ Len(y) = Len(o) + Len(z)
          /\ \A n \in 1..Len(o) : y[n] = o[n]
          /\ \A n \in 1..Len(z) : y[n + Len(o)] = z[n]
  BY <1>b, <1>f, CatFacts, Zenon
<1>d. /\ y \in Seq(Stored \cup {Blank}) /\ Len(y) = k + 1 /\ y[1] = p
      /\ \A n \in 2..(k + 1) : y[n] = Blank
  <2>2. ASSUME NEW n \in 2..(k + 1) PROVE y[n] = Blank
    <3>1. n - 1 \in 1..k /\ (n - 1) + Len(o) = n
      BY <1>f
    <3> QED BY <1>b, <1>c, <3>1, Zenon
  <2>3. 1 \in 1..Len(o) /\ Len(y) = k + 1
    BY <1>b, <1>c, <1>f
  <2> QED BY <1>c, <1>f, <2>2, <2>3, Zenon
<1>2. PICK c \in Seq(Stored \cup {Blank}) :
          /\ c = y \o b /\ Len(c) = Len(y) + Len(b)
          /\ \A n \in 1..Len(y) : c[n] = y[n]
          /\ \A n \in 1..Len(b) : c[n + Len(y)] = b[n]
  BY <1>1, <1>d, CatFacts, Zenon
<1>3. c \in Seq(Stored \cup {Blank}) /\ Len(c) = e
  BY <1>1, <1>d, <1>2
<1>4. \A n \in 1..Len(b) : c[n + k + 1] = b[n]
  BY <1>1, <1>d, <1>2, SMTT(60)
<1>5. c[1] = p
  BY <1>d, <1>2
<1>6. \A n \in 2..(k + 1) : c[n] = Blank
  BY <1>d, <1>2
<1>7. /\ e \in Nat /\ 1 \in 1..e /\ e <= MaxItems /\ e = Len(b) + k + 1
      /\ \A n \in 1..Len(b) : n + k + 1 \in 1..e
  BY <1>1
<1>8. ASSUME NEW n \in 1..e PROVE n = 1 \/ n \in 2..(k + 1) \/ \E m \in 1..Len(b) : n = m + k + 1
  <2>1. CASE n <= k + 1
    BY <2>1
  <2>2. CASE n > k + 1
    <3>1. n - k - 1 \in 1..Len(b) /\ n = (n - k - 1) + k + 1
      BY <1>1, <2>2
    <3> QED BY <3>1
  <2> QED BY <1>7, <2>1, <2>2
<1>9. \A n \in 1..e : ~(n < 1)
  BY <1>7
<1>11. b[1] \in Stored /\ b[Len(b)] \in Stored /\ c[e] = b[Len(b)]
  BY <1>1, <1>4, <1>7, Zenon DEF BufferOK
<1> HIDE DEF e
<1>13. ASSUME NEW n \in 1..e, c[n] \in Stored PROVE Distance(c[1].seq, c[n].seq) = n - 1
  <2>0. p.seq \in Numbers
    BY PacketFields, Zenon
  <2>1. CASE n = 1
    <3>1. Distance(p.seq, p.seq) = 0
      BY <2>0, SeqDist
    <3> QED BY <1>5, <2>1, <3>1
  <2>2. ASSUME NEW m \in 1..Len(b), n = m + k + 1 PROVE Distance(c[1].seq, c[n].seq) = n - 1
    <3>1. c[n] = b[m] /\ b[m] \in Stored
      BY <1>4, <1>13, <2>2, Zenon
    <3>2. b[1].seq \in Numbers /\ b[m].seq \in Numbers
      BY <1>11, <3>1, PacketFields, Zenon
    <3>3. Distance(b[1].seq, b[m].seq) = m - 1
      BY <3>1, Zenon DEF BufferOK
    <3>4. MaxItems <= MaxValue + 1 /\ MaxValue \in Nat
      BY BufferConstants
    <3>5. Distance(p.seq, b[1].seq) + Distance(b[1].seq, b[m].seq) <= MaxValue
            => Distance(p.seq, b[m].seq) = Distance(p.seq, b[1].seq) + Distance(b[1].seq, b[m].seq)
      BY <2>0, <3>2, SeqDist, SMTT(60)
    <3>6. Distance(p.seq, b[m].seq) = n - 1
      BY <1>1, <1>7, <2>2, <3>3, <3>4, <3>5
    <3> QED BY <1>5, <3>1, <3>6, Zenon
  <2> QED BY <1>6, <1>8, <1>13, <2>1, <2>2, BlankIsNoPacket, Zenon
<1>14. ASSUME NEW m \in 1..e, NEW n \in 1..e, c[m] \in Stored, c[n] \in Stored, m < n
       PROVE  Ts!Distance(c[m].ts, c[n].ts) <= MaxDelay
  <2>1. PICK v \in 1..Len(b) : n = v + k + 1
    <3>1. n # 1
      BY <1>9, <1>14, Zenon
    <3> QED BY <1>6, <1>8, <1>14, <3>1, BlankIsNoPacket, Zenon
  <2>2. c[n] = b[v] /\ b[v] \in Stored
    BY <1>4, <1>14, <2>1, Zenon
  <2>3. ASSUME NEW x \in 1..Len(b), m = x + k + 1 PROVE Ts!Distance(c[m].ts, c[n].ts) <= MaxDelay
    <3>1. c[m] = b[x] /\ b[x] \in Stored
      BY <1>4, <1>14, <2>3, Zenon
    <3>2. x < v
      BY <1>1, <1>14, <2>1, <2>3
    <3> QED BY <2>2, <3>1, <3>2, Zenon DEF BufferOK
  <2>4. CASE m = 1
    BY <1>5, <2>2, <2>4, Zenon
  <2> QED BY <1>6, <1>8, <1>14, <2>3, <2>4, BlankIsNoPacket, Zenon
<1>15. BufferOK(c)
  BY <1>3, <1>5, <1>7, <1>11, <1>13, <1>14, Zenon DEF BufferOK
<1>16. c # << >>
  BY <1>3, <1>7
<1>17. c = <<p>> \o Blanks(k) \o b
  BY <1>a, <1>c, <1>e, <1>2, Zenon
<1> QED BY <1>3, <1>4, <1>7, <1>11, <1>15, <1>16, <1>17, Zenon


\* A packet for a blank slot.
LEMMA FillOK ==
    ASSUME NEW b, BufferOK(b), NEW p \in Stored, NEW q \in 1..Len(b), b[q] = Blank,
           Distance(b[1].seq, p.seq) = q - 1,
           \A n \in 1..Len(b) : b[n] \in Stored /\ n < q => Ts!Distance(b[n].ts, p.ts) <= MaxDelay,
           \A n \in 1..Len(b) : b[n] \in Stored /\ n > q => Ts!Distance(p.ts, b[n].ts) <= MaxDelay
    PROVE  \E c : /\ c = [b EXCEPT ![q] = p] /\ BufferOK(c) /\ c # << >>
                  /\ c[Len(c)] = b[Len(b)]
                  /\ \A n \in 1..Len(b) : b[n] \in Stored => n \in 1..Len(c) /\ c[n] = b[n]
<1>1. /\ b \in Seq(Stored \cup {Blank}) /\ Len(b) \in Nat /\ Len(b) <= MaxItems /\ b # << >>
      /\ Len(b) \in 1..Len(b) /\ 1 \in 1..Len(b)
  BY FilledFacts DEF BufferOK
<1>2. PICK c : c = [b EXCEPT ![q] = p]
  BY Zenon
<1>3. c \in Seq(Stored \cup {Blank}) /\ Len(c) = Len(b) /\ c[q] = p /\ \A n \in 1..Len(b) : n # q => c[n] = b[n]
  BY <1>1, <1>2
<1>4. b[1] \in Stored /\ b[Len(b)] \in Stored
  BY <1>1, Zenon DEF BufferOK
<1>5. c[1] = b[1] /\ c[Len(b)] = b[Len(b)]
  BY <1>1, <1>3, <1>4, BlankIsNoPacket, Zenon
<1>6. ASSUME NEW n \in 1..Len(b), c[n] \in Stored PROVE Distance(c[1].seq, c[n].seq) = n - 1
  <2>1. CASE n = q
    BY <1>3, <1>5, <2>1, Zenon
  <2>2. CASE n # q
    BY <1>3, <1>5, <1>6, <2>2, Zenon DEF BufferOK
  <2> QED BY <2>1, <2>2
<1>7. ASSUME NEW m \in 1..Len(b), NEW n \in 1..Len(b), c[m] \in Stored, c[n] \in Stored, m < n
      PROVE  Ts!Distance(c[m].ts, c[n].ts) <= MaxDelay
  <2>0. m # n /\ n > m
    BY <1>7
  <2>1. CASE m = q
    BY <1>3, <1>7, <2>0, <2>1, Zenon
  <2>2. CASE n = q
    BY <1>3, <1>7, <2>0, <2>2, Zenon
  <2>3. CASE m # q /\ n # q
    BY <1>3, <1>7, <2>3, Zenon DEF BufferOK
  <2> QED BY <2>1, <2>2, <2>3
<1>8. BufferOK(c)
  BY <1>1, <1>3, <1>4, <1>5, <1>6, <1>7, Zenon DEF BufferOK
<1>9. c # << >>
  BY <1>1, <1>3
<1>10. \A n \in 1..Len(b) : b[n] \in Stored => n \in 1..Len(c) /\ c[n] = b[n]
  BY <1>3, BlankIsNoPacket, Zenon
<1> QED BY <1>2, <1>3, <1>5, <1>8, <1>9, <1>10, Zenon

-----------------------------------------------------------------------------
\* The timestamps of the buffer end at that of the newest packet and go up to it.
LEMMA TsAlong ==
    ASSUME NEW b, BufferOK(b), NEW m \in 1..Len(b), NEW n \in 1..Len(b),
           b[m] \in Stored, b[n] \in Stored, m <= n
    PROVE  /\ Ts!Distance(b[m].ts, b[n].ts) \in 0..MaxDelay
           /\ Ts!Distance(b[n].ts, b[Len(b)].ts) \in 0..MaxDelay
           /\ Ts!Distance(b[m].ts, b[Len(b)].ts)
                = Ts!Distance(b[m].ts, b[n].ts) + Ts!Distance(b[n].ts, b[Len(b)].ts)
<1>1. Len(b) \in Nat /\ Len(b) \in 1..Len(b) /\ MaxDelay \in Nat /\ 2 * MaxDelay <= MaxTimestamp /\ MaxTimestamp \in Nat
  BY FilledFacts, BufferConstants
<1>2. b # << >>
  BY DEF BufferOK
<1>3. b[Len(b)] \in Stored
  BY <1>2, Zenon DEF BufferOK
<1>4. ASSUME NEW x \in 1..Len(b), NEW y \in 1..Len(b), b[x] \in Stored, b[y] \in Stored, x <= y
      PROVE  Ts!Distance(b[x].ts, b[y].ts) \in 0..MaxDelay
  <2>1. b[x].ts \in Ts!Numbers /\ b[y].ts \in Ts!Numbers
    BY <1>4, PacketFields, Zenon
  <2>2. Ts!Distance(b[x].ts, b[y].ts) \in 0..MaxTimestamp /\ Ts!Distance(b[x].ts, b[x].ts) = 0
    BY <2>1, TsDist, Zenon
  <2>3. CASE x = y
    BY <1>1, <2>2, <2>3
  <2>4. CASE x # y
    <3>1. x < y
      BY <1>4, <2>4
    <3>2. Ts!Distance(b[x].ts, b[y].ts) <= MaxDelay
      BY <1>4, <3>1, Zenon DEF BufferOK
    <3> QED BY <1>1, <2>2, <3>2
  <2> QED BY <2>3, <2>4
<1>5. n <= Len(b)
  BY <1>1
<1>6. Ts!Distance(b[m].ts, b[n].ts) \in 0..MaxDelay /\ Ts!Distance(b[n].ts, b[Len(b)].ts) \in 0..MaxDelay
  BY <1>1, <1>3, <1>4, <1>5, Zenon
<1>7. b[m].ts \in Ts!Numbers /\ b[n].ts \in Ts!Numbers /\ b[Len(b)].ts \in Ts!Numbers
  BY <1>3, PacketFields, Zenon
<1>8. Ts!Distance(b[m].ts, b[n].ts) + Ts!Distance(b[n].ts, b[Len(b)].ts) <= MaxTimestamp
  BY <1>1, <1>6
<1>9. Ts!Distance(b[m].ts, b[Len(b)].ts)
                = Ts!Distance(b[m].ts, b[n].ts) + Ts!Distance(b[n].ts, b[Len(b)].ts)
  BY <1>7, <1>8, TsSum, Zenon
<1> QED BY <1>6, <1>9, Zenon

\* A timestamp above the newest: the packets that are not too old for it are within
\* MaxDelay of it, and so are those behind them.
LEMMA HigherTs ==
    ASSUME NEW b, BufferOK(b), b # << >>, NEW ts \in Ts!Numbers,
           Ts!Distance(b[Len(b)].ts, ts) <= MaxJump,
           NEW m \in 1..Len(b), NEW n \in 1..Len(b), b[m] \in Stored, b[n] \in Stored, m <= n,
           ~IsTooOldTimestamp(b[m].ts, ts)
    PROVE  Ts!Distance(b[n].ts, ts) <= MaxDelay
<1>1. /\ MaxDelay \in Nat /\ MaxJump \in Nat /\ MaxTimestamp \in Nat /\ MaxDelay + MaxJump <= MaxTimestamp
  BY BufferConstants
<1>2. b[Len(b)] \in Stored
  BY Zenon DEF BufferOK
<1>3. b[m].ts \in Ts!Numbers /\ b[n].ts \in Ts!Numbers /\ b[Len(b)].ts \in Ts!Numbers
  BY <1>2, PacketFields, Zenon
<1> DEFINE x == b[m].ts
           y == b[n].ts
           new == b[Len(b)].ts
<1>4. /\ Ts!Distance(x, y) \in 0..MaxDelay /\ Ts!Distance(y, new) \in 0..MaxDelay
      /\ Ts!Distance(x, new) = Ts!Distance(x, y) + Ts!Distance(y, new)
  BY TsAlong, Zenon
<1>a. m \in 1..Len(b) /\ Len(b) \in 1..Len(b) /\ m <= Len(b)
  BY FilledFacts
<1>5. Ts!Distance(x, new) \in 0..MaxDelay
  BY <1>2, <1>a, TsAlong, Zenon
<1>6. x \in Ts!Numbers /\ y \in Ts!Numbers /\ new \in Ts!Numbers /\ Ts!Distance(new, ts) <= MaxJump
  BY <1>3, Zenon
<1> HIDE DEF x, y, new
<1>7. Ts!Distance(new, ts) \in 0..MaxTimestamp
  BY <1>6, TsDist, Zenon
<1>8. Ts!Distance(x, ts) = Ts!Distance(x, new) + Ts!Distance(new, ts)
  <2>1. Ts!Distance(x, new) + Ts!Distance(new, ts) <= MaxTimestamp
    BY <1>1, <1>5, <1>6, <1>7
  <2> QED BY <1>6, <2>1, TsSum, Zenon
<1>9. Ts!Distance(y, ts) = Ts!Distance(y, new) + Ts!Distance(new, ts)
  <2>1. Ts!Distance(y, new) + Ts!Distance(new, ts) <= MaxTimestamp
    BY <1>1, <1>4, <1>6, <1>7
  <2> QED BY <1>6, <2>1, TsSum, Zenon
<1>10. Ts!Distance(x, ts) <= MaxDelay
  <2>1. CASE Ts!Distance(x, ts) = 0
    BY <1>1, <2>1
  <2>2. CASE Ts!Distance(x, ts) # 0
    <3>1. Ts!Distance(x, ts) \in 1..(MaxDelay + MaxJump)
      BY <1>1, <1>5, <1>6, <1>7, <1>8, <2>2, SMTT(60)
    <3>2. ~Ts!IsSeqHigherThan(x, ts)
      BY <1>6, <3>1, TsDist, Zenon
    <3>3. ~(Ts!Distance(x, ts) > MaxDelay)
      BY <3>2, Zenon DEF IsTooOldTimestamp, x
    <3> QED BY <1>1, <3>1, <3>3
  <2> QED BY <2>1, <2>2
<1>11. Ts!Distance(y, ts) <= MaxDelay
  BY <1>1, <1>4, <1>7, <1>8, <1>9, <1>10
<1> QED BY <1>11, Zenon DEF y

\* Nothing is too old for the timestamp of the newest packet.
LEMMA NewestKeeps ==
    ASSUME NEW b, BufferOK(b), b # << >>
    PROVE  /\ ClearTooOldByTimestamp(b, b[Len(b)].ts) = b
           /\ \A n \in 1..Len(b) : b[n] \in Stored => Ts!Distance(b[n].ts, b[Len(b)].ts) <= MaxDelay
<1>1. /\ Len(b) \in Nat /\ Len(b) \in 1..Len(b) /\ 1 \in 1..Len(b) /\ MaxDelay \in Nat
      /\ \A n \in 1..Len(b) : n <= Len(b)
  BY FilledFacts, BufferConstants, SMTT(60) DEF BufferOK
<1>2. b[1] \in Stored /\ b[Len(b)] \in Stored
  BY Zenon DEF BufferOK
<1>3. ASSUME NEW n \in 1..Len(b), b[n] \in Stored PROVE Ts!Distance(b[n].ts, b[Len(b)].ts) <= MaxDelay
  <2>1. Ts!Distance(b[n].ts, b[Len(b)].ts) \in 0..MaxDelay
    BY <1>1, <1>2, <1>3, TsAlong, Zenon
  <2> QED BY <1>1, <2>1
<1>4. ASSUME NEW n \in 1..Len(b), b[n] \in Stored PROVE ~IsTooOldTimestamp(b[n].ts, b[Len(b)].ts)
  <2>1. Ts!Distance(b[n].ts, b[Len(b)].ts) \in 0..MaxDelay
    BY <1>1, <1>2, <1>4, TsAlong, Zenon
  <2>2. ~(Ts!Distance(b[n].ts, b[Len(b)].ts) > MaxDelay)
    BY <1>1, <2>1
  <2> QED BY <2>2, Zenon DEF IsTooOldTimestamp
<1> DEFINE kept == {n \in Filled(b) : ~IsTooOldTimestamp(b[n].ts, b[Len(b)].ts)}
<1>5. 1 \in kept /\ kept \in SUBSET Filled(b)
  BY <1>1, <1>2, <1>4, FilledFacts, Zenon
<1>6. ClearTooOldByTimestamp(b, b[Len(b)].ts) = From(b, kept)
  BY Zenon DEF ClearTooOldByTimestamp
<1> HIDE DEF kept
<1>7. PICK from \in kept : (\A n \in kept : from <= n) /\ IsFrom(From(b, kept), b, from)
  BY <1>5, FromFacts, Zenon
<1>8. from = 1
  <2>1. from \in 1..Len(b)
    BY <1>7, Zenon DEF IsFrom
  <2> QED BY <1>1, <1>5, <1>7, <2>1
<1>9. PICK c : c = From(b, kept)
  OBVIOUS
<1>10. /\ BufferOK(c) /\ Len(c) = Len(b) - 1 + 1 /\ \A n \in 1..(Len(b) - 1 + 1) : c[n] = b[n + 1 - 1]
  BY <1>7, <1>8, <1>9, Zenon DEF IsFrom
<1>11. c \in Seq(Stored \cup {Blank}) /\ b \in Seq(Stored \cup {Blank})
  BY <1>10, Zenon DEF BufferOK
<1>12. c = b
  BY <1>1, <1>10, <1>11
<1> QED BY <1>3, <1>6, <1>9, <1>12, Zenon


\* A buffer of one packet.
LEMMA SingleOK ==
    ASSUME NEW p \in Stored
    PROVE  \E c : /\ c = <<p>> /\ BufferOK(c) /\ c # << >> /\ Len(c) = 1 /\ c[1] = p
<1>1. PICK c : c = <<p>>
  BY Zenon
<1>2. c \in Seq(Stored \cup {Blank}) /\ Len(c) = 1 /\ c[1] = p /\ c # << >>
  BY <1>1
<1>3. MaxItems \in Nat /\ 1 <= MaxItems /\ MaxDelay \in Nat
  BY BufferConstants
<1>4. p.seq \in Numbers /\ p.ts \in Ts!Numbers
  BY PacketFields, Zenon
<1>5. Distance(p.seq, p.seq) = 0 /\ Ts!Distance(p.ts, p.ts) = 0
  BY <1>4, SeqDist, TsDist, Zenon
<1>6. \A n \in 1..1 : n = 1 /\ 0 = n - 1
  OBVIOUS
<1>7. \A m, n \in 1..1 : ~(m < n)
  OBVIOUS
<1>8. BufferOK(c)
  BY <1>2, <1>3, <1>5, <1>6, <1>7, Zenon DEF BufferOK
<1> QED BY <1>1, <1>2, <1>8, Zenon

\* The packet to insert.
LEMMA ItemIsPacket ==
    ASSUME NEW seq \in Numbers, NEW ts \in Ts!Numbers
    PROVE  Item(seq, ts) \in Stored /\ Item(seq, ts).seq = seq /\ Item(seq, ts).ts = ts
BY DEF Stored, Item

\* How far a packet of the buffer is behind one above the newest.
LEMMA BehindNewest ==
    ASSUME NEW b, BufferOK(b), NEW n \in 1..Len(b), b[n] \in Stored, NEW seq \in Numbers,
           IsSeqHigherThan(seq, b[Len(b)].seq)
    PROVE  /\ b[Len(b)].seq \in Numbers /\ Distance(b[Len(b)].seq, seq) \in 1..MaxValue
           /\ Distance(b[n].seq, seq) = Len(b) - n + Distance(b[Len(b)].seq, seq)
<1>1. /\ Len(b) \in Nat /\ Len(b) <= MaxItems /\ MaxItems \in Nat /\ MaxValue \in Nat /\ b # << >>
      /\ Len(b) \in 1..Len(b) /\ 1 \in 1..Len(b)
  BY FilledFacts, BufferConstants, SMTT(60) DEF BufferOK
<1>2. b[1] \in Stored /\ b[Len(b)] \in Stored
  BY <1>1, Zenon DEF BufferOK
<1>3. b[1].seq \in Numbers /\ b[n].seq \in Numbers /\ b[Len(b)].seq \in Numbers
  BY <1>2, PacketFields, Zenon
<1> DEFINE i == b[1].seq
           j == b[n].seq
           new == b[Len(b)].seq
<1>4. Distance(i, j) = n - 1 /\ Distance(i, new) = Len(b) - 1
  BY <1>1, <1>2, Zenon DEF BufferOK
<1>5. i \in Numbers /\ j \in Numbers /\ new \in Numbers /\ IsSeqHigherThan(seq, new)
  BY <1>3, Zenon
<1> HIDE DEF i, j, new
<1>6. Distance(j, new) = Len(b) - n
  <2>1. Distance(i, j) <= Distance(i, new)
    BY <1>1, <1>4
  <2>2. Distance(j, new) = Distance(i, new) - Distance(i, j)
    BY <1>5, <2>1, SeqDist
  <2> QED BY <1>1, <1>4, <2>2
<1>7. /\ Distance(new, seq) \in 0..MaxValue /\ Distance(new, seq) >= 1
      /\ Distance(new, seq) + MaxItems - 1 <= MaxValue
  BY <1>5, SeqDist
<1>8. Distance(j, new) + Distance(new, seq) <= MaxValue
  BY <1>1, <1>6, <1>7
<1>9. Distance(j, seq) = Distance(j, new) + Distance(new, seq)
  BY <1>5, <1>8, SeqDist
<1>10. Distance(new, seq) \in 1..MaxValue /\ Distance(j, seq) = Len(b) - n + Distance(new, seq)
  BY <1>1, <1>6, <1>7, <1>9
<1> QED BY <1>5, <1>10, Zenon DEF j, new

\* Item n of b is an item of c.
Stays(b, n, c) == \E q \in 1..Len(c) : c[q] = b[n]

\* Insert() of a number above the newest: what leaves is MaxItems or more behind it.
LEMMA InsertNewestOK ==
    ASSUME NEW b, BufferOK(b), b # << >>, NEW seq \in Numbers, NEW ts \in Ts!Numbers,
           IsSeqHigherThan(seq, b[Len(b)].seq),
           \A n \in 1..Len(b) : b[n] \in Stored => Ts!Distance(b[n].ts, ts) <= MaxDelay
    PROVE  \E c : /\ c = InsertNewest(b, seq, ts) /\ BufferOK(c) /\ c # << >>
                  /\ \/ c = b /\ Ts!IsSeqLowerThan(ts, b[Len(b)].ts)
                     \/ c[Len(c)] = Item(seq, ts)
                  /\ \A n \in 1..Len(b) : b[n] \in Stored =>
                        \/ Stays(b, n, c)
                        \/ c[Len(c)] = Item(seq, ts) /\ Distance(b[n].seq, seq) >= MaxItems
<1>1. /\ Len(b) \in Nat /\ Len(b) <= MaxItems /\ MaxItems \in Nat /\ MaxValue \in Nat
      /\ Len(b) \in 1..Len(b) /\ 1 \in 1..Len(b)
  BY FilledFacts, BufferConstants, SMTT(60) DEF BufferOK
<1>2. b[Len(b)] \in Stored
  BY <1>1, Zenon DEF BufferOK
<1>3. PICK d : d = Distance(b[Len(b)].seq, seq)
  OBVIOUS
<1>4. d \in 1..MaxValue /\ \A n \in 1..Len(b) : b[n] \in Stored => Distance(b[n].seq, seq) = Len(b) - n + d
  BY <1>1, <1>2, <1>3, BehindNewest, Zenon
<1>5. PICK p \in Stored : p = Item(seq, ts) /\ p.seq = seq /\ p.ts = ts
  BY ItemIsPacket, Zenon
<1> DEFINE k == d - 1
           excess == Len(b) + k + 1 - MaxItems
<1>6. /\ k \in Nat /\ k + 1 = d /\ excess \in Int /\ excess = Len(b) + d - MaxItems
  BY <1>1, <1>4
<1>7. InsertNewest(b, seq, ts) =
          IF Ts!IsSeqLowerThan(ts, b[Len(b)].ts) THEN b
          ELSE IF excess > Len(b) - 1 THEN <<p>>
          ELSE (IF excess > 0 THEN RemoveOldest(b, excess) ELSE b) \o Blanks(k) \o <<p>>
  BY <1>3, <1>5, Zenon DEF InsertNewest, Newest
<1> HIDE DEF k, excess
<1>8. CASE Ts!IsSeqLowerThan(ts, b[Len(b)].ts)
  BY <1>7, <1>8, Zenon DEF Stays
<1>9. CASE ~Ts!IsSeqLowerThan(ts, b[Len(b)].ts) /\ excess > Len(b) - 1
  <2>1. PICK c : c = <<p>> /\ BufferOK(c) /\ c # << >> /\ Len(c) = 1 /\ c[1] = p
    BY SingleOK, Zenon
  <2>2. c = InsertNewest(b, seq, ts) /\ c[Len(c)] = p
    BY <1>7, <1>9, <2>1, Zenon
  <2>3. ASSUME NEW n \in 1..Len(b), b[n] \in Stored PROVE Distance(b[n].seq, seq) >= MaxItems
    <3>1. Distance(b[n].seq, seq) = Len(b) - n + d
      BY <1>4, <2>3, Zenon
    <3> QED BY <1>1, <1>4, <1>6, <1>9, <3>1
  <2> QED BY <1>5, <2>1, <2>2, <2>3, Zenon
<1>10. CASE ~Ts!IsSeqLowerThan(ts, b[Len(b)].ts) /\ ~(excess > Len(b) - 1) /\ ~(excess > 0)
  <2>1. Len(b) + k + 1 <= MaxItems
    BY <1>1, <1>6, <1>10
  <2>2. PICK c : /\ c = b \o Blanks(k) \o <<p>> /\ BufferOK(c) /\ c # << >> /\ Len(c) = Len(b) + k + 1
                 /\ c[Len(c)] = p /\ \A n \in 1..Len(b) : n \in 1..Len(c) /\ c[n] = b[n]
    <3>1. Distance(b[Len(b)].seq, p.seq) = k + 1
      BY <1>3, <1>5, <1>6, Zenon
    <3>2. \A n \in 1..Len(b) : b[n] \in Stored => Ts!Distance(b[n].ts, p.ts) <= MaxDelay
      BY <1>5, Zenon
    <3> QED BY <1>6, <2>1, <3>1, <3>2, AppendOK, Zenon
  <2>3. c = InsertNewest(b, seq, ts)
    BY <1>7, <1>10, <2>2, Zenon
  <2> QED BY <1>5, <2>2, <2>3, Zenon DEF Stays
<1>11. CASE ~Ts!IsSeqLowerThan(ts, b[Len(b)].ts) /\ ~(excess > Len(b) - 1) /\ excess > 0
  <2> DEFINE kept == {n \in Filled(b) : n > excess}
  <2>1. Filled(b) = {n \in 1..Len(b) : b[n] \in Stored}
    BY FilledFacts, Zenon
  <2>2. Len(b) > excess
    BY <1>1, <1>6, <1>11
  <2>3. kept \in SUBSET Filled(b) /\ Len(b) \in kept
    BY <1>1, <1>2, <2>1, <2>2, Zenon
  <2>4. RemoveOldest(b, excess) = From(b, kept)
    BY Zenon DEF RemoveOldest
  <2>5. \A n \in 1..Len(b) : b[n] \in Stored /\ n \notin kept => ~(n > excess)
    BY <2>1, Zenon
  <2>6. \A n \in kept : n > excess
    BY Zenon
  <2> HIDE DEF kept
  <2>7. PICK from \in kept : (\A n \in kept : from <= n) /\ IsFrom(From(b, kept), b, from)
    BY <2>3, FromFacts, Zenon
  <2>8. PICK e : e = From(b, kept)
    OBVIOUS
  <2>9. /\ from \in 1..Len(b) /\ BufferOK(e) /\ e # << >> /\ Len(e) = Len(b) - from + 1
        /\ \A n \in 1..(Len(b) - from + 1) : e[n] = b[n + from - 1]
    BY <2>7, <2>8, Zenon DEF IsFrom
  <2>10. /\ Len(b) - from + 1 \in 1..(Len(b) - from + 1) /\ (Len(b) - from + 1) + from - 1 = Len(b)
         /\ \A n \in 1..(Len(b) - from + 1) : n + from - 1 \in 1..Len(b)
    BY <1>1, <2>9
  <2>11. e[Len(e)] = b[Len(b)]
    BY <2>9, <2>10, Zenon
  <2>12. \A n \in 1..Len(e) : e[n] \in Stored => Ts!Distance(e[n].ts, p.ts) <= MaxDelay
    BY <1>5, <2>9, <2>10, Zenon
  <2>13. Len(e) + k + 1 <= MaxItems
    BY <1>1, <1>6, <2>6, <2>7, <2>9, SMTT(60)
  <2>14. PICK c : /\ c = e \o Blanks(k) \o <<p>> /\ BufferOK(c) /\ c # << >> /\ Len(c) = Len(e) + k + 1
                  /\ c[Len(c)] = p /\ \A n \in 1..Len(e) : n \in 1..Len(c) /\ c[n] = e[n]
    <3>1. Distance(e[Len(e)].seq, p.seq) = k + 1
      BY <1>3, <1>5, <1>6, <2>11, Zenon
    <3> QED BY <1>6, <2>9, <2>12, <2>13, <3>1, AppendOK, ZenonT(40)
  <2>15. c = InsertNewest(b, seq, ts)
    BY <1>7, <1>11, <2>4, <2>8, <2>14, Zenon
  <2>16. ASSUME NEW n \in 1..Len(b), b[n] \in Stored
         PROVE  Stays(b, n, c) \/ Distance(b[n].seq, seq) >= MaxItems
    <3>1. CASE n >= from
      <4>1. n - from + 1 \in 1..(Len(b) - from + 1) /\ (n - from + 1) + from - 1 = n
        BY <1>1, <2>9, <3>1
      <4> QED BY <2>9, <2>14, <4>1, Zenon DEF Stays
    <3>2. CASE ~(n >= from)
      <4>1. n \notin kept
        BY <1>1, <2>7, <2>9, <3>2, Zenon
      <4>2. ~(n > excess)
        BY <2>5, <2>16, <4>1, Zenon
      <4>3. Distance(b[n].seq, seq) = Len(b) - n + d
        BY <1>4, <2>16, Zenon
      <4> QED BY <1>1, <1>4, <1>6, <4>2, <4>3
    <3> QED BY <3>1, <3>2, Zenon
  <2> QED BY <1>5, <2>14, <2>15, <2>16, Zenon
<1> QED BY <1>8, <1>9, <1>10, <1>11, Zenon


\* No packet leaves b for c, and the newest stays the newest.
Grows(b, c) ==
    /\ BufferOK(c) /\ c # << >> /\ c[Len(c)] = b[Len(b)]
    /\ \A n \in 1..Len(b) : b[n] \in Stored => Stays(b, n, c)

\* Insert() drops the packet.
LEMMA SameGrows ==
    ASSUME NEW b, BufferOK(b), b # << >>
    PROVE  Grows(b, b)
BY Zenon DEF Grows, Stays

\* Insert() of a number below the oldest.
LEMMA InsertOldestOK ==
    ASSUME NEW b, BufferOK(b), b # << >>, NEW seq \in Numbers, NEW ts \in Ts!Numbers,
           IsSeqLowerThan(seq, b[1].seq), ~Ts!IsSeqHigherThan(ts, b[Len(b)].ts)
    PROVE  Grows(b, InsertOldest(b, seq, ts))
<1>1. /\ Len(b) \in Nat /\ Len(b) <= MaxItems /\ MaxItems \in Nat /\ MaxValue \in Nat
      /\ Len(b) \in 1..Len(b) /\ 1 \in 1..Len(b) /\ \A n \in 1..Len(b) : 1 <= n
      /\ MaxDelay \in Nat /\ MaxJump \in Nat /\ MaxDelay <= MaxDelay + MaxJump /\ MaxTimestamp \in Nat
  BY FilledFacts, BufferConstants, SMTT(60) DEF BufferOK
<1>2. b[1] \in Stored /\ b[Len(b)] \in Stored
  BY <1>1, Zenon DEF BufferOK
<1>3. /\ b[1].seq \in Numbers /\ b[1].ts \in Ts!Numbers /\ b[Len(b)].ts \in Ts!Numbers
  BY <1>2, PacketFields, Zenon
<1>4. PICK d : d = Distance(seq, b[1].seq)
  OBVIOUS
<1>5. d \in 0..MaxValue /\ d >= 1
  BY <1>3, <1>4, SeqDist
<1>6. PICK p \in Stored : p = Item(seq, ts) /\ p.seq = seq /\ p.ts = ts
  BY ItemIsPacket, Zenon
<1> DEFINE k == d - 1
<1>7. k \in Nat /\ k + 1 = d
  BY <1>1, <1>5
<1>8. InsertOldest(b, seq, ts) =
          IF \/ IsTooOldTimestamp(ts, b[Len(b)].ts) \/ Ts!IsSeqHigherThan(ts, b[1].ts)
             \/ Len(b) + k + 1 > MaxItems
          THEN b ELSE <<p>> \o Blanks(k) \o b
  BY <1>4, <1>6, Zenon DEF InsertOldest, Oldest, Newest
<1> HIDE DEF k
<1>9. CASE \/ IsTooOldTimestamp(ts, b[Len(b)].ts) \/ Ts!IsSeqHigherThan(ts, b[1].ts)
           \/ Len(b) + k + 1 > MaxItems
  <2>1. InsertOldest(b, seq, ts) = b
    BY <1>8, <1>9, Zenon
  <2> QED BY <2>1, SameGrows, Zenon
<1>10. CASE /\ ~IsTooOldTimestamp(ts, b[Len(b)].ts) /\ ~Ts!IsSeqHigherThan(ts, b[1].ts)
            /\ ~(Len(b) + k + 1 > MaxItems)
  <2> DEFINE new == b[Len(b)].ts
             old == b[1].ts
  <2>1. Ts!Distance(ts, new) \in 0..MaxDelay
    <3>1. ~(Ts!Distance(ts, new) > MaxDelay)
      BY <1>10, Zenon DEF IsTooOldTimestamp
    <3>2. Ts!Distance(ts, new) \in 0..MaxTimestamp
      BY <1>3, TsDist, ZenonT(40)
    <3> QED BY <1>1, <3>1, <3>2
  <2>2. Ts!Distance(old, new) \in 0..MaxDelay
    BY <1>1, <1>2, TsAlong, Zenon
  <2>3. Ts!Distance(old, new) <= Ts!Distance(ts, new)
    <3> SUFFICES ASSUME ~(Ts!Distance(old, new) <= Ts!Distance(ts, new)) PROVE FALSE
      OBVIOUS
    <3>1. Ts!Distance(ts, new) <= Ts!Distance(old, new)
      BY <2>1, <2>2
    <3>2. Ts!Distance(old, ts) = Ts!Distance(old, new) - Ts!Distance(ts, new)
      BY <1>3, <3>1, TsDist
    <3>3. Ts!Distance(old, ts) \in 1..(MaxDelay + MaxJump)
      BY <1>1, <2>1, <2>2, <3>2
    <3>4. Ts!IsSeqHigherThan(ts, old)
      BY <1>3, <3>3, TsDist, Zenon
    <3> QED BY <1>10, <3>4, Zenon
  <2>4. ASSUME NEW n \in 1..Len(b), b[n] \in Stored PROVE Ts!Distance(p.ts, b[n].ts) <= MaxDelay
    <3> DEFINE x == b[n].ts
    <3>1. x \in Ts!Numbers
      BY <2>4, PacketFields, Zenon
    <3>2. /\ Ts!Distance(old, x) \in 0..MaxDelay /\ Ts!Distance(x, new) \in 0..MaxDelay
          /\ Ts!Distance(old, new) = Ts!Distance(old, x) + Ts!Distance(x, new)
      BY <1>1, <1>2, <2>4, TsAlong, Zenon
    <3> HIDE DEF x
    <3>3. Ts!Distance(x, new) <= Ts!Distance(ts, new)
      BY <1>1, <2>1, <2>2, <2>3, <3>2, SMTT(60)
    <3>4. Ts!Distance(ts, x) = Ts!Distance(ts, new) - Ts!Distance(x, new)
      BY <1>3, <3>1, <3>3, TsDist, SMTT(60)
    <3>5. Ts!Distance(ts, x) <= MaxDelay
      BY <1>1, <2>1, <3>2, <3>4
    <3> QED BY <1>6, <3>5, Zenon DEF x
  <2>5. Distance(p.seq, b[1].seq) = k + 1
    BY <1>4, <1>6, <1>7, Zenon
  <2>6. Len(b) + k + 1 <= MaxItems
    BY <1>1, <1>7, <1>10
  <2>7. PICK c : /\ c = <<p>> \o Blanks(k) \o b /\ BufferOK(c) /\ c # << >>
                 /\ c[Len(c)] = b[Len(b)]
                 /\ \A n \in 1..Len(b) : n + k + 1 \in 1..Len(c) /\ c[n + k + 1] = b[n]
    BY <1>7, <2>4, <2>5, <2>6, PrependOK, Zenon
  <2>8. c = InsertOldest(b, seq, ts)
    BY <1>8, <1>10, <2>7, Zenon
  <2>9. Grows(b, c)
    BY <2>7, Zenon DEF Grows, Stays
  <2> QED BY <2>8, <2>9, Zenon
<1> QED BY <1>9, <1>10, Zenon

\* Plain order is the order modulo MaxTimestamp + 1 between neighbours.
LEMMA PlainTs ==
    ASSUME NEW x \in Ts!Numbers, NEW y \in Ts!Numbers, NEW t \in Ts!Numbers, x <= t, t <= y
    PROVE  /\ Ts!Distance(x, t) \in Nat /\ Ts!Distance(t, y) \in Nat
           /\ Ts!Distance(x, y) = Ts!Distance(x, t) + Ts!Distance(t, y)
<1>1. PICK h \in Nat :
        /\ IsCircle(MaxTimestamp + 1, h) /\ MaxDelay + MaxJump <= h
        /\ \A i, j \in Ts!Numbers : /\ i \in 0..((MaxTimestamp + 1) - 1)
                                    /\ Ts!Distance(i, j) = Gap(i, j, MaxTimestamp + 1)
                                    /\ Ts!IsSeqLowerThan(i, j) <=> Lower(i, j, h)
                                    /\ Ts!IsSeqHigherThan(i, j) <=> Lower(j, i, h)
  BY TsFacts, Zenon
<1>2. /\ Ts!Distance(x, t) = Gap(x, t, MaxTimestamp + 1) /\ Ts!Distance(t, y) = Gap(t, y, MaxTimestamp + 1)
      /\ Ts!Distance(x, y) = Gap(x, y, MaxTimestamp + 1)
  BY <1>1, Zenon
<1>3. MaxTimestamp \in Nat /\ x \in 0..MaxTimestamp /\ y \in 0..MaxTimestamp /\ t \in 0..MaxTimestamp
  BY BufferConstants DEF Ts!Numbers
<1> QED BY <1>2, <1>3 DEF Gap

\* Insert() of a number there is a slot for.
LEMMA InsertBetweenOK ==
    ASSUME NEW b, BufferOK(b), b # << >>, NEW seq \in Numbers, NEW ts \in Ts!Numbers,
           ~IsSeqHigherThan(seq, b[Len(b)].seq), ~IsSeqLowerThan(seq, b[1].seq)
    PROVE  Grows(b, InsertBetween(b, seq, ts))
<1>1. /\ Len(b) \in Nat /\ Len(b) <= MaxItems /\ MaxItems \in Nat /\ MaxValue \in Nat
      /\ Len(b) \in 1..Len(b) /\ 1 \in 1..Len(b) /\ \A n \in 1..Len(b) : 1 <= n /\ n <= Len(b)
      /\ MaxDelay \in Nat /\ MaxTimestamp \in Nat /\ 2 * MaxDelay <= MaxTimestamp
  BY FilledFacts, BufferConstants, SMTT(60) DEF BufferOK
<1>2. b[1] \in Stored /\ b[Len(b)] \in Stored
  BY <1>1, Zenon DEF BufferOK
<1>3. b[1].seq \in Numbers /\ b[Len(b)].seq \in Numbers
  BY <1>2, PacketFields, Zenon
<1>4. PICK d : d = Distance(b[1].seq, seq)
  OBVIOUS
<1>5. d \in 0..(Len(b) - 1)
  <2>1. Distance(b[1].seq, b[Len(b)].seq) = Len(b) - 1
    BY <1>1, <1>2, Zenon DEF BufferOK
  <2>2. Distance(b[1].seq, b[Len(b)].seq) <= MaxItems - 1
    BY <1>1, <2>1
  <2>3. d <= Distance(b[1].seq, b[Len(b)].seq)
    BY <1>3, <1>4, <2>2, SeqBetween, Zenon
  <2>4. d \in 0..MaxValue
    BY <1>3, <1>4, SeqDist, Zenon
  <2> QED BY <1>1, <2>1, <2>3, <2>4
<1>6. PICK q : q = d + 1
  OBVIOUS
<1>7. q \in 1..Len(b) /\ d = q - 1 /\ ~(d >= Len(b))
  BY <1>1, <1>5, <1>6
<1>8. Get(b, seq) = b[q]
  BY <1>4, <1>6, <1>7, Zenon DEF Get, Oldest
<1>9. PICK p \in Stored : p = Item(seq, ts) /\ p.seq = seq /\ p.ts = ts
  BY ItemIsPacket, Zenon
<1>10. InsertBetween(b, seq, ts) =
          IF b[q] # Blank \/ ts < b[Older(b, q)].ts \/ ts > b[Newer(b, q)].ts THEN b
          ELSE [b EXCEPT ![q] = p]
  BY <1>4, <1>6, <1>8, <1>9, Zenon DEF InsertBetween, Oldest
<1>11. CASE b[q] # Blank \/ ts < b[Older(b, q)].ts \/ ts > b[Newer(b, q)].ts
  <2>1. InsertBetween(b, seq, ts) = b
    BY <1>10, <1>11, Zenon
  <2> QED BY <2>1, SameGrows, Zenon
<1>12. CASE b[q] = Blank /\ ~(ts < b[Older(b, q)].ts) /\ ~(ts > b[Newer(b, q)].ts)
  <2>1. q # 1 /\ q # Len(b)
    BY <1>2, <1>12, BlankIsNoPacket, Zenon
  <2>2. PICK o : o = Older(b, q)
    OBVIOUS
  <2>3. o \in 1..(q - 1) /\ b[o] # Blank /\ \A n \in 1..(q - 1) : b[n] # Blank => o >= n
    <3> DEFINE T == {m \in 1..(q - 1) : b[m] # Blank}
    <3>1. 1 \in 1..(q - 1) /\ b[1] # Blank
      BY <1>1, <1>2, <1>7, <2>1, BlankIsNoPacket
    <3>2. 1..(q - 1) \subseteq 0..q /\ q \in Nat
      BY <1>1, <1>7
    <3>3. T \in SUBSET (0..q) /\ T # {}
      BY <3>1, <3>2, Zenon
    <3>4. o = Max(T)
      BY <2>2, Zenon DEF Older
    <3> HIDE DEF T
    <3>5. o \in T /\ \A j \in T : o >= j
      BY <3>2, <3>3, <3>4, MaxIndex, Zenon
    <3> QED BY <3>5, Zenon DEF T
  <2>4. PICK w : w = Newer(b, q)
    OBVIOUS
  <2>5. w \in (q + 1)..Len(b) /\ b[w] # Blank /\ \A n \in (q + 1)..Len(b) : b[n] # Blank => w <= n
    <3> DEFINE T == {m \in (q + 1)..Len(b) : b[m] # Blank}
    <3>1. Len(b) \in (q + 1)..Len(b) /\ b[Len(b)] # Blank
      BY <1>1, <1>2, <1>7, <2>1, BlankIsNoPacket
    <3>2. (q + 1)..Len(b) \subseteq Nat
      BY <1>1, <1>7
    <3>3. T \in SUBSET Nat /\ T # {}
      BY <3>1, <3>2, Zenon
    <3>4. w = Min(T)
      BY <2>4, Zenon DEF Newer
    <3> HIDE DEF T
    <3>5. w \in T /\ \A j \in T : w <= j
      BY <3>3, <3>4, MinIndex, Zenon
    <3> QED BY <3>5, Zenon DEF T
  <2>6. o \in 1..Len(b) /\ w \in 1..Len(b) /\ o <= w
    BY <1>1, <1>7, <2>3, <2>5
  <2>7. b[o] \in Stored /\ b[w] \in Stored
    BY <2>3, <2>5, <2>6, FilledFacts, Zenon
  <2>8. b[o].ts \in Ts!Numbers /\ b[w].ts \in Ts!Numbers
    BY <2>7, PacketFields, Zenon
  <2>9. b[o].ts <= ts /\ ts <= b[w].ts
    <3>1. ~(ts < b[o].ts) /\ ~(ts > b[w].ts)
      BY <1>12, <2>2, <2>4, Zenon
    <3>2. ts \in 0..MaxTimestamp /\ b[o].ts \in 0..MaxTimestamp /\ b[w].ts \in 0..MaxTimestamp
      BY <2>8, Zenon DEF Ts!Numbers
    <3> QED BY <1>1, <3>1, <3>2, SMTT(60)
  <2>10. /\ Ts!Distance(b[o].ts, ts) \in Nat /\ Ts!Distance(ts, b[w].ts) \in Nat
         /\ Ts!Distance(b[o].ts, b[w].ts) = Ts!Distance(b[o].ts, ts) + Ts!Distance(ts, b[w].ts)
    BY <2>8, <2>9, PlainTs, Zenon
  <2>11. ASSUME NEW n \in 1..Len(b), b[n] \in Stored, n < q PROVE Ts!Distance(b[n].ts, p.ts) <= MaxDelay
    <3>1. n \in 1..(q - 1) /\ b[n] # Blank
      BY <1>1, <1>7, <2>11, BlankIsNoPacket
    <3>2. n <= o /\ n <= w
      BY <1>1, <1>7, <2>3, <2>6, <3>1
    <3>3. b[n].ts \in Ts!Numbers
      BY <2>11, PacketFields, Zenon
    <3>4. /\ Ts!Distance(b[n].ts, b[o].ts) \in 0..MaxDelay
          /\ Ts!Distance(b[o].ts, b[w].ts) \in 0..MaxDelay /\ Ts!Distance(b[n].ts, b[w].ts) \in 0..MaxDelay
      BY <2>6, <2>7, <2>11, <3>2, TsAlong, Zenon
    <3>5. Ts!Distance(b[n].ts, b[o].ts) + Ts!Distance(b[o].ts, b[w].ts) <= MaxTimestamp
      BY <1>1, <3>4
    <3>6. Ts!Distance(b[n].ts, b[w].ts) = Ts!Distance(b[n].ts, b[o].ts) + Ts!Distance(b[o].ts, b[w].ts)
      BY <2>8, <3>3, <3>5, TsSum, Zenon
    <3>7. Ts!Distance(b[n].ts, b[o].ts) + Ts!Distance(b[o].ts, ts) <= MaxTimestamp
      BY <1>1, <2>10, <3>4, <3>5, SMTT(60)
    <3>8. Ts!Distance(b[n].ts, ts) = Ts!Distance(b[n].ts, b[o].ts) + Ts!Distance(b[o].ts, ts)
      BY <2>8, <3>3, <3>7, TsSum, Zenon
    <3>9. Ts!Distance(b[n].ts, ts) <= MaxDelay
      BY <1>1, <2>10, <3>4, <3>6, <3>8, SMTT(60)
    <3> QED BY <1>9, <3>9, Zenon
  <2>12. ASSUME NEW n \in 1..Len(b), b[n] \in Stored, n > q PROVE Ts!Distance(p.ts, b[n].ts) <= MaxDelay
    <3>1. n \in (q + 1)..Len(b) /\ b[n] # Blank
      BY <1>1, <1>7, <2>12, BlankIsNoPacket
    <3>2. w <= n /\ o <= n
      BY <1>1, <1>7, <2>5, <2>6, <3>1
    <3>3. b[n].ts \in Ts!Numbers
      BY <2>12, PacketFields, Zenon
    <3>4. /\ Ts!Distance(b[w].ts, b[n].ts) \in 0..MaxDelay
          /\ Ts!Distance(b[o].ts, b[w].ts) \in 0..MaxDelay /\ Ts!Distance(b[o].ts, b[n].ts) \in 0..MaxDelay
      BY <2>6, <2>7, <2>12, <3>2, TsAlong, Zenon
    <3>5. Ts!Distance(b[o].ts, b[w].ts) + Ts!Distance(b[w].ts, b[n].ts) <= MaxTimestamp
      BY <1>1, <3>4
    <3>6. Ts!Distance(b[o].ts, b[n].ts) = Ts!Distance(b[o].ts, b[w].ts) + Ts!Distance(b[w].ts, b[n].ts)
      BY <2>8, <3>3, <3>5, TsSum, Zenon
    <3>7. Ts!Distance(ts, b[w].ts) + Ts!Distance(b[w].ts, b[n].ts) <= MaxTimestamp
      BY <1>1, <2>10, <3>4, <3>5, SMTT(60)
    <3>8. Ts!Distance(ts, b[n].ts) = Ts!Distance(ts, b[w].ts) + Ts!Distance(b[w].ts, b[n].ts)
      BY <2>8, <3>3, <3>7, TsSum, Zenon
    <3>9. Ts!Distance(ts, b[n].ts) <= MaxDelay
      BY <1>1, <2>10, <3>4, <3>6, <3>8, SMTT(60)
    <3> QED BY <1>9, <3>9, Zenon
  <2>13. Distance(b[1].seq, p.seq) = q - 1
    BY <1>4, <1>7, <1>9, Zenon
  <2>14. PICK c : /\ c = [b EXCEPT ![q] = p] /\ BufferOK(c) /\ c # << >>
                  /\ c[Len(c)] = b[Len(b)]
                  /\ \A n \in 1..Len(b) : b[n] \in Stored => n \in 1..Len(c) /\ c[n] = b[n]
    BY <1>7, <1>12, <2>11, <2>12, <2>13, FillOK, ZenonT(40)
  <2>15. c = InsertBetween(b, seq, ts)
    BY <1>10, <1>12, <2>14, Zenon
  <2>16. Grows(b, c)
    BY <2>14, Zenon DEF Grows, Stays
  <2> QED BY <2>15, <2>16, Zenon
<1> QED BY <1>11, <1>12, Zenon


-----------------------------------------------------------------------------
\* Item n of b is in c, or too old or too far behind for the newest packet of c.
StaysOrOld(b, n, c) ==
    \/ Stays(b, n, c)
    \/ IsTooOldTimestamp(b[n].ts, c[Len(c)].ts)
    \/ Distance(b[n].seq, c[Len(c)].seq) >= MaxItems

\* A step of the buffer from b to c.
Proceeds(b, c) ==
    /\ BufferOK(c) /\ c # << >>
    /\ \A n \in 1..Len(b) : b[n] \in Stored => StaysOrOld(b, n, c)

\* Insert() when the timestamp is not above the newest: nothing is too old.
LEMMA PlaceOK ==
    ASSUME NEW b, BufferOK(b), b # << >>, NEW seq \in Numbers, NEW ts \in Ts!Numbers,
           ~Ts!IsSeqHigherThan(ts, b[Len(b)].ts)
    PROVE  Proceeds(b, Place(b, seq, ts))
<1>1. b[Len(b)] \in Stored
  BY Zenon DEF BufferOK
<1>2. b[Len(b)].ts \in Ts!Numbers
  BY <1>1, PacketFields, Zenon
<1>3. ASSUME NEW c, Grows(b, c) PROVE Proceeds(b, c)
  BY <1>3, Zenon DEF Grows, Proceeds, StaysOrOld
<1>4. CASE IsSeqHigherThan(seq, b[Len(b)].seq)
  <2>1. Place(b, seq, ts) = InsertNewest(b, seq, ts)
    BY <1>4, Zenon DEF Place, Newest
  <2>2. CASE Ts!IsSeqLowerThan(ts, b[Len(b)].ts)
    <3>1. InsertNewest(b, seq, ts) = b
      BY <2>2, Zenon DEF InsertNewest, Newest
    <3>2. Proceeds(b, b)
      BY <1>3, SameGrows, Zenon
    <3> QED BY <2>1, <3>1, <3>2, Zenon
  <2>3. CASE ~Ts!IsSeqLowerThan(ts, b[Len(b)].ts)
    <3>1. ts = b[Len(b)].ts
      BY <1>2, <2>3, TsDist
    <3>2. \A n \in 1..Len(b) : b[n] \in Stored => Ts!Distance(b[n].ts, ts) <= MaxDelay
      BY <3>1, NewestKeeps, Zenon
    <3>3. PICK c : /\ c = InsertNewest(b, seq, ts) /\ BufferOK(c) /\ c # << >>
                   /\ \A n \in 1..Len(b) : b[n] \in Stored =>
                        \/ Stays(b, n, c)
                        \/ c[Len(c)] = Item(seq, ts) /\ Distance(b[n].seq, seq) >= MaxItems
      BY <1>4, <3>2, InsertNewestOK, Zenon
    <3>4. Proceeds(b, c)
      BY <3>3, ItemIsPacket, ZenonT(40) DEF Proceeds, StaysOrOld
    <3> QED BY <2>1, <3>3, <3>4, Zenon
  <2> QED BY <2>2, <2>3
<1>5. CASE ~IsSeqHigherThan(seq, b[Len(b)].seq) /\ IsSeqLowerThan(seq, b[1].seq)
  <2>1. Place(b, seq, ts) = InsertOldest(b, seq, ts)
    BY <1>5, Zenon DEF Place, Newest, Oldest
  <2> QED BY <1>3, <1>5, <2>1, InsertOldestOK, Zenon
<1>6. CASE ~IsSeqHigherThan(seq, b[Len(b)].seq) /\ ~IsSeqLowerThan(seq, b[1].seq)
  <2>1. Place(b, seq, ts) = InsertBetween(b, seq, ts)
    BY <1>6, Zenon DEF Place, Newest, Oldest
  <2> QED BY <1>3, <1>6, <2>1, InsertBetweenOK, Zenon
<1> QED BY <1>4, <1>5, <1>6, Zenon

\* A timestamp above the newest: what is too old for it goes first.
LEMMA ClearedOK ==
    ASSUME NEW b, BufferOK(b), b # << >>, NEW seq \in Numbers, NEW ts \in Ts!Numbers,
           Ts!IsSeqHigherThan(ts, b[Len(b)].ts), Ts!Distance(b[Len(b)].ts, ts) <= MaxJump,
           IsSeqHigherThan(seq, b[Len(b)].seq)
    PROVE  LET c == ClearTooOldByTimestamp(b, ts)
           IN  Proceeds(b, IF c = << >> THEN <<Item(seq, ts)>> ELSE Place(c, seq, ts))
<1> DEFINE kept == {n \in Filled(b) : ~IsTooOldTimestamp(b[n].ts, ts)}
<1>1. Filled(b) = {n \in 1..Len(b) : b[n] \in Stored} /\ Len(b) \in Nat
  BY FilledFacts, Zenon
<1>2. PICK c : c = ClearTooOldByTimestamp(b, ts)
  OBVIOUS
<1>3. c = From(b, kept) /\ kept \in SUBSET Filled(b)
  BY <1>2, Zenon DEF ClearTooOldByTimestamp
<1>4. \A n \in 1..Len(b) : b[n] \in Stored /\ n \notin kept => IsTooOldTimestamp(b[n].ts, ts)
  BY <1>1, Zenon
<1>5. \A n \in kept : ~IsTooOldTimestamp(b[n].ts, ts)
  BY Zenon
<1>6. PICK p \in Stored : p = Item(seq, ts) /\ p.seq = seq /\ p.ts = ts
  BY ItemIsPacket, Zenon
<1> HIDE DEF kept
<1>7. CASE kept = {}
  <2>1. c = << >>
    BY <1>3, <1>7, Zenon DEF From
  <2>2. PICK e : e = <<p>> /\ BufferOK(e) /\ e # << >> /\ Len(e) = 1 /\ e[1] = p
    BY SingleOK, Zenon
  <2>3. Proceeds(b, e)
    BY <1>4, <1>6, <1>7, <2>2, Zenon DEF Proceeds, StaysOrOld
  <2> QED BY <1>2, <1>6, <2>1, <2>2, <2>3, Zenon
<1>8. CASE kept # {}
  <2>1. PICK from \in kept : (\A n \in kept : from <= n) /\ IsFrom(From(b, kept), b, from)
    BY <1>3, <1>8, FromFacts, Zenon
  <2>2. /\ from \in 1..Len(b) /\ b[from] \in Stored /\ BufferOK(c) /\ c # << >> /\ Len(c) = Len(b) - from + 1
        /\ \A n \in 1..(Len(b) - from + 1) : c[n] = b[n + from - 1]
    BY <1>3, <2>1, Zenon DEF IsFrom
  <2>3. /\ Len(b) - from + 1 \in 1..(Len(b) - from + 1) /\ (Len(b) - from + 1) + from - 1 = Len(b)
        /\ \A n \in 1..(Len(b) - from + 1) : n + from - 1 \in 1..Len(b) /\ from <= n + from - 1
    BY <1>1, <2>2
  <2>4. c[Len(c)] = b[Len(b)]
    BY <2>2, <2>3, Zenon
  <2>5. ASSUME NEW n \in 1..Len(c), c[n] \in Stored PROVE Ts!Distance(c[n].ts, ts) <= MaxDelay
    <3>1. PICK m : m = n + from - 1
      BY Zenon
    <3>2. m \in 1..Len(b) /\ from <= m /\ c[n] = b[m]
      BY <2>2, <2>3, <3>1, Zenon
    <3> QED BY <1>5, <2>1, <2>2, <2>5, <3>2, HigherTs, Zenon
  <2>6. PICK e : /\ e = InsertNewest(c, seq, ts) /\ BufferOK(e) /\ e # << >>
                 /\ \/ e = c /\ Ts!IsSeqLowerThan(ts, c[Len(c)].ts)
                    \/ e[Len(e)] = Item(seq, ts)
                 /\ \A n \in 1..Len(c) : c[n] \in Stored =>
                        \/ Stays(c, n, e)
                        \/ e[Len(e)] = Item(seq, ts) /\ Distance(c[n].seq, seq) >= MaxItems
    <3>1. IsSeqHigherThan(seq, c[Len(c)].seq)
      BY <2>4, Zenon
    <3> QED BY <2>2, <2>5, <3>1, InsertNewestOK, Zenon
  <2>7. e[Len(e)] = p
    <3>1. b[Len(b)] \in Stored
      BY Zenon DEF BufferOK
    <3>2. b[Len(b)].ts \in Ts!Numbers
      BY <3>1, PacketFields, Zenon
    <3>3. ~Ts!IsSeqLowerThan(ts, b[Len(b)].ts)
      BY <3>2, TsDist
    <3> QED BY <1>6, <2>4, <2>6, <3>3, Zenon
  <2>8. Place(c, seq, ts) = e
    <3>1. IsSeqHigherThan(seq, Newest(c).seq)
      BY <2>4, Zenon DEF Newest
    <3> QED BY <2>6, <3>1, Zenon DEF Place
  <2>9. ASSUME NEW n \in 1..Len(b), b[n] \in Stored PROVE StaysOrOld(b, n, e)
    <3>1. CASE n >= from
      <4>1. PICK m : m = n - from + 1
        OBVIOUS
      <4>2. m \in 1..(Len(b) - from + 1) /\ m + from - 1 = n
        BY <1>1, <2>2, <3>1, <4>1
      <4>3. m \in 1..Len(c) /\ c[m] = b[n]
        BY <2>2, <4>2, Zenon
      <4> QED BY <1>6, <2>6, <2>7, <2>9, <4>3, Zenon DEF Stays, StaysOrOld
    <3>2. CASE ~(n >= from)
      <4>1. n \notin kept
        BY <1>1, <2>1, <2>2, <3>2, Zenon
      <4> QED BY <1>4, <1>6, <2>7, <2>9, <4>1, Zenon DEF StaysOrOld
    <3> QED BY <3>1, <3>2
  <2> QED BY <1>2, <2>2, <2>6, <2>8, <2>9, Zenon DEF Proceeds
<1> QED BY <1>7, <1>8

\* A packet that does not start the buffer anew.
LEMMA InsertedOK ==
    ASSUME NEW b, BufferOK(b), b # << >>, NEW seq \in Numbers, NEW ts \in Ts!Numbers,
           ~StartsAnew(b, seq, ts),
           \/ Ts!Distance(ts, b[Len(b)].ts) <= MaxJump
           \/ Ts!Distance(b[Len(b)].ts, ts) <= MaxJump,
           Get(b, seq) \in {Blank, Item(seq, ts)}
    PROVE  Proceeds(b, Inserted(b, seq, ts))
<1>1. b[Len(b)] \in Stored /\ Len(b) \in 1..Len(b)
  BY FilledFacts DEF BufferOK
<1>2. b[Len(b)].ts \in Ts!Numbers /\ b[Len(b)].seq \in Numbers
  BY <1>1, PacketFields, Zenon
<1>3. CASE Ts!IsSeqHigherThan(ts, b[Len(b)].ts)
  <2>1. ~IsSeqLowerThan(seq, b[Len(b)].seq)
    BY <1>3, Zenon DEF StartsAnew, Newest
  <2>2. ts # b[Len(b)].ts /\ ~Ts!IsSeqLowerThan(ts, b[Len(b)].ts)
    BY <1>2, <1>3, TsDist
  <2>3. seq # b[Len(b)].seq
    <3>1. ASSUME seq = b[Len(b)].seq PROVE FALSE
      <4>1. Get(b, seq) = b[Len(b)]
        BY <1>1, <3>1, GetItem, Zenon
      <4>2. b[Len(b)] = Item(seq, ts)
        BY <1>1, <4>1, BlankIsNoPacket, Zenon
      <4>3. b[Len(b)].ts = ts
        BY <4>2, ItemIsPacket
      <4> QED BY <2>2, <4>3, Zenon
    <3> QED BY <3>1, Zenon
  <2>4. IsSeqHigherThan(seq, b[Len(b)].seq)
    BY <1>2, <2>1, <2>3, SeqDist
  <2>5. Ts!Distance(b[Len(b)].ts, ts) <= MaxJump
    <3> SUFFICES ASSUME Ts!Distance(ts, b[Len(b)].ts) <= MaxJump PROVE FALSE
      OBVIOUS
    <3> DEFINE new == b[Len(b)].ts
    <3>1. new \in Ts!Numbers /\ MaxDelay \in Nat /\ MaxJump \in Nat /\ MaxTimestamp \in Nat
      BY <1>2, BufferConstants
    <3>2. Ts!Distance(ts, new) \in 0..MaxTimestamp
      BY <3>1, TsDist, ZenonT(40)
    <3>3. Ts!Distance(ts, new) # 0
      <4>1. Ts!Distance(ts, ts) = 0 /\ Ts!Distance(ts, new) \in 0..MaxTimestamp
        BY <3>1, TsDist
      <4>2. Ts!Distance(ts, new) = Ts!Distance(ts, ts) => new = ts
        BY <3>1, TsSame, Zenon
      <4> QED BY <2>2, <4>1, <4>2, Zenon
    <3>4. Ts!Distance(ts, new) \in 1..(MaxDelay + MaxJump)
      BY <3>1, <3>2, <3>3
    <3>5. Ts!IsSeqLowerThan(ts, new)
      BY <3>1, <3>4, TsDist
    <3> QED BY <2>2, <3>5, Zenon
  <2>6. Inserted(b, seq, ts) = LET c == ClearTooOldByTimestamp(b, ts)
                               IN  IF c = << >> THEN <<Item(seq, ts)>> ELSE Place(c, seq, ts)
    BY <1>3, Zenon DEF Inserted, Newest
  <2> QED BY <1>3, <2>4, <2>5, <2>6, ClearedOK, Zenon
<1>4. CASE ~Ts!IsSeqHigherThan(ts, b[Len(b)].ts)
  <2>1. ClearTooOldByTimestamp(b, b[Len(b)].ts) = b
    BY NewestKeeps, Zenon
  <2>2. Inserted(b, seq, ts) = Place(b, seq, ts)
    BY <1>4, <2>1, Zenon DEF Inserted, Newest
  <2> QED BY <1>4, <2>2, PlaceOK, Zenon
<1> QED BY <1>3, <1>4, Zenon

\* Each step keeps the invariant, and what leaves is old.
LEMMA BufferStep ==
    ASSUME BufferInv, [BufferNext]_buffer
    PROVE  /\ BufferInv'
           /\ buffer' # << >> =>
                \A n \in Items :
                   \/ Get(buffer', buffer[n].seq) = buffer[n]
                   \/ StartsAnew(buffer, Newest(buffer').seq, Newest(buffer').ts)
                   \/ IsTooOldTimestamp(buffer[n].ts, Newest(buffer').ts)
                   \/ Distance(buffer[n].seq, Newest(buffer').seq) >= MaxItems
<1> DEFINE Leaves(b, c) ==
              c # << >> =>
                \A n \in Filled(b) :
                   \/ Get(c, b[n].seq) = b[n]
                   \/ StartsAnew(b, Newest(c).seq, Newest(c).ts)
                   \/ IsTooOldTimestamp(b[n].ts, Newest(c).ts)
                   \/ Distance(b[n].seq, Newest(c).seq) >= MaxItems
<1>1. PICK b : b = buffer
  OBVIOUS
<1>2. PICK c : c = buffer'
  OBVIOUS
<1>3. BufferOK(b)
  BY <1>1, Zenon DEF BufferInv
<1>4. Filled(b) = {n \in 1..Len(b) : b[n] \in Stored}
  BY <1>3, FilledFacts, Zenon
<1>5. BufferOK(<< >>)
  BY BufferConstants DEF BufferOK
<1>6. ASSUME Proceeds(b, c) PROVE BufferOK(c) /\ Leaves(b, c)
  <2>1. ASSUME NEW n \in Filled(b), Stays(b, n, c) PROVE Get(c, b[n].seq) = b[n]
    <3>1. PICK q \in 1..Len(c) : c[q] = b[n]
      BY <2>1, Zenon DEF Stays
    <3>2. c[q] \in Stored /\ BufferOK(c)
      BY <1>4, <1>6, <3>1, Zenon DEF Proceeds
    <3> QED BY <3>1, <3>2, GetItem, Zenon
  <2> QED BY <1>4, <1>6, <2>1, Zenon DEF Proceeds, StaysOrOld, Newest
<1>7. BufferOK(c) /\ Leaves(b, c)
  <2>1. CASE c = b
    <3>1. Proceeds(b, b) \/ b = << >>
      BY <1>3, SameGrows, Zenon DEF Grows, Proceeds, StaysOrOld
    <3> QED BY <1>3, <1>6, <2>1, <3>1, Zenon
  <2>2. CASE c = << >>
    BY <1>5, <2>2, Zenon
  <2>3. ASSUME NEW seq \in Numbers, NEW ts \in Ts!Numbers, Insert(seq, ts)
        PROVE  BufferOK(c) /\ Leaves(b, c)
    <3>1. c = Inserted(b, seq, ts)
      BY <1>1, <1>2, <2>3, Zenon DEF Insert
    <3>2. PICK p \in Stored : p = Item(seq, ts) /\ p.seq = seq /\ p.ts = ts
      BY ItemIsPacket, Zenon
    <3>3. CASE b = << >> \/ StartsAnew(b, seq, ts)
      <4>1. PICK e : e = <<p>> /\ BufferOK(e) /\ e # << >> /\ Len(e) = 1 /\ e[1] = p
        BY SingleOK, Zenon
      <4>2. c = e
        BY <3>1, <3>2, <3>3, <4>1, Zenon DEF Inserted
      <4>3. Newest(c) = p
        BY <4>1, <4>2, Zenon DEF Newest
      <4>4. b = << >> => Filled(b) = {}
        BY DEF Filled
      <4> QED BY <3>2, <3>3, <4>1, <4>2, <4>3, <4>4, Zenon
    <3>4. CASE b # << >> /\ ~StartsAnew(b, seq, ts)
      <4>1. /\ \/ Ts!Distance(ts, b[Len(b)].ts) <= MaxJump
               \/ Ts!Distance(b[Len(b)].ts, ts) <= MaxJump
            /\ Get(b, seq) \in {Blank, Item(seq, ts)}
        BY <1>1, <2>3, <3>4, Zenon DEF Insert, Newest
      <4> QED BY <1>3, <1>6, <3>1, <3>4, <4>1, InsertedOK, Zenon
    <3> QED BY <3>3, <3>4, Zenon
  <2> QED BY <1>1, <1>2, <2>1, <2>2, <2>3, Zenon DEF BufferNext, Clear
<1> QED BY <1>1, <1>2, <1>7, Zenon DEF BufferInv, Items

\* The invariant holds always.
LEMMA BufferAlways == BufferSpec => []BufferInv
<1>1. BufferInit => BufferInv
  BY BufferConstants DEF BufferInit, BufferInv, BufferOK
<1>2. BufferInv /\ [BufferNext]_buffer => BufferInv'
  BY BufferStep
<1> QED BY <1>1, <1>2, PTL DEF BufferSpec

\* Get() finds each packet of the buffer under its own number and nothing else, the buffer keeps
\* to its limit and has an item at both ends, and its timestamps are in order and not too old,
\* whatever is inserted: for all sizes of the numbers, the timestamps and the buffer.
\* (RtpRetransmissionBuffer.cpp Get(), Insert(), ClearTooOldByTimestamp().)
THEOREM BufferCorrect == BufferSpec => []ResendsExact
BY BufferAlways, BufferGivesExact, PTL

\* A packet leaves the buffer only when it is too old, MaxItems or more behind the newest, or
\* the numbers start anew.  (RtpRetransmissionBuffer.cpp Insert(), RemoveOldest().)
THEOREM OldPacketsLeave == BufferSpec => OnlyOldLeave
<1> DEFINE Left == buffer' # << >> =>
                     LET newest == Newest(buffer') IN
                     \A n \in Items :
                        \/ Get(buffer', buffer[n].seq) = buffer[n]
                        \/ StartsAnew(buffer, newest.seq, newest.ts)
                        \/ IsTooOldTimestamp(buffer[n].ts, newest.ts)
                        \/ Distance(buffer[n].seq, newest.seq) >= MaxItems
<1>1. BufferInv /\ [BufferNext]_buffer => [Left]_buffer
  BY BufferStep
<1> QED BY <1>1, BufferAlways, PTL DEF BufferSpec, OnlyOldLeave

-----------------------------------------------------------------------------
\* Those of ForwardingConsumers.
CONSTANTS PipeStreams, SimpleStream, SeqBound, FwdEvents

VARIABLE fwd

Fwd == INSTANCE ForwardingConsumers

-----------------------------------------------------------------------------
(* KeyFrameRequestManager.  NeedsAreServed bounds the age of an unanswered   *)
(* call but does not say which timer will answer it.  Owed adds that: either *)
(* the delayer was told of the call and fires early enough, or the pending   *)
(* info will repeat its request early enough.  Spaced relates the age of the *)
(* last request to the delayer.                                              *)

\* The timer that will answer an unanswered call on SSRC s.
Owed(s) ==
    waiting[s] # None =>
        /\ waiting[s] >= 0
        /\ \/ s \in keyFrameRequested /\ waiting[s] + delayer[s] <= Delay
           \/ s \in retryOnTimeout /\ waiting[s] + pending[s] <= Delay + Wait

\* The delayer lives until Delay ticks have passed since the last request.
Spaced(s) ==
    /\ delayer[s] # None => Delay > 0 /\ since[s] + delayer[s] >= Delay
    /\ delayer[s] = None => since[s] = Delay

IInv ==
    /\ TypeOK
    /\ \A s \in Ssrcs : Owed(s) /\ Spaced(s)

USE TimesAssumption DEF None

LEMMA InitEstablishes == Init => IInv
BY SMTT(60) DEF Init, IInv, TypeOK, Owed, Spaced

\* The half of KeyFrameNeeded() that the delayer's timeout shares with it.
LEMMA NeedNowPreserves ==
    ASSUME IInv, NEW s \in Ssrcs, NewDelayer(s), NeedNow(s),
           delayer[s] \in {None, 0}
    PROVE  IInv'
<1>1. TypeOK'
    BY SMTT(60) DEF IInv, TypeOK, NewDelayer, NeedNow, Expect, Answered, Unanswered
<1>2. ASSUME NEW r \in Ssrcs PROVE Owed(r)'
    <2>1. CASE pending[s] # None
        BY <2>1, SMTT(60) DEF IInv, TypeOK, Owed, NewDelayer, NeedNow, Unanswered
    <2>2. CASE pending[s] = None
        BY <2>2, Zenon DEF IInv, TypeOK, Owed, NewDelayer, NeedNow, Expect, Answered
    <2> QED BY <2>1, <2>2, Zenon
<1>3. ASSUME NEW r \in Ssrcs PROVE Spaced(r)'
    BY SMTT(60) DEF IInv, TypeOK, Spaced, NewDelayer, NeedNow
<1> QED BY <1>1, <1>2, <1>3 DEF IInv

LEMMA KeyFrameNeededPreserves ==
    ASSUME IInv, NEW s \in Ssrcs, KeyFrameNeeded(s)
    PROVE  IInv'
<1>1. CASE delayer[s] # None
    BY <1>1, SMTT(60) DEF IInv, TypeOK, Owed, Spaced, KeyFrameNeeded, Unanswered
<1>2. CASE delayer[s] = None
    BY <1>2, NeedNowPreserves, Zenon DEF KeyFrameNeeded
<1> QED BY <1>1, <1>2

LEMMA ForceKeyFrameNeededPreserves ==
    ASSUME IInv, NEW s \in Ssrcs, ForceKeyFrameNeeded(s)
    PROVE  IInv'
BY SMTT(60) DEF IInv, TypeOK, Owed, Spaced, ForceKeyFrameNeeded, NewDelayer, Expect, Answered

LEMMA KeyFrameReceivedPreserves ==
    ASSUME IInv, NEW s \in Ssrcs, KeyFrameReceived(s)
    PROVE  IInv'
BY SMTT(60) DEF IInv, TypeOK, Owed, Spaced, KeyFrameReceived, Forget, Answered

LEMMA RequestTimeoutPreserves ==
    ASSUME IInv, NEW s \in Ssrcs, OnKeyFrameRequestTimeout(s)
    PROVE  IInv'
BY SMTT(60) DEF IInv, TypeOK, Owed, Spaced, OnKeyFrameRequestTimeout, Forget, Answered

LEMMA DelayTimeoutPreserves ==
    ASSUME IInv, NEW s \in Ssrcs, OnKeyFrameDelayTimeout(s)
    PROVE  IInv'
<1>1. CASE s \in keyFrameRequested
    BY <1>1, NeedNowPreserves, Zenon DEF OnKeyFrameDelayTimeout
<1>2. CASE s \notin keyFrameRequested
    BY <1>2, SMTT(60) DEF IInv, TypeOK, Owed, Spaced, OnKeyFrameDelayTimeout
<1> QED BY <1>1, <1>2

LEMMA TickPreserves ==
    ASSUME IInv, Tick
    PROVE  IInv'
<1>1. TypeOK'
    BY SMTT(60) DEF IInv, TypeOK, Tick
<1>2. ASSUME NEW s \in Ssrcs PROVE Owed(s)' /\ Spaced(s)'
    BY SMTT(60) DEF IInv, TypeOK, Owed, Spaced, Tick
<1> QED BY <1>1, <1>2, Zenon DEF IInv

LEMMA StepPreserves == IInv /\ [Next]_vars => IInv'
<1> SUFFICES ASSUME IInv, [Next]_vars
             PROVE  IInv'
    BY Zenon
<1>1. ASSUME NEW s \in Ssrcs, KeyFrameNeeded(s) PROVE IInv'
    BY <1>1, KeyFrameNeededPreserves
<1>2. ASSUME NEW s \in Ssrcs, ForceKeyFrameNeeded(s) PROVE IInv'
    BY <1>2, ForceKeyFrameNeededPreserves
<1>3. ASSUME NEW s \in Ssrcs, KeyFrameReceived(s) PROVE IInv'
    BY <1>3, KeyFrameReceivedPreserves
<1>4. ASSUME NEW s \in Ssrcs, OnKeyFrameRequestTimeout(s) PROVE IInv'
    BY <1>4, RequestTimeoutPreserves
<1>5. ASSUME NEW s \in Ssrcs, OnKeyFrameDelayTimeout(s) PROVE IInv'
    BY <1>5, DelayTimeoutPreserves
<1>6. CASE Tick
    BY <1>6, TickPreserves
<1>7. CASE UNCHANGED vars
    BY <1>7, Zenon DEF vars, IInv, TypeOK, Owed, Spaced
<1> QED BY <1>1, <1>2, <1>3, <1>4, <1>5, <1>6, <1>7, Zenon DEF Next, Timeout

\* Whatever calls, key frames and timeouts come in whatever order, IInv holds.
THEOREM Inductive == Spec => []IInv
BY InitEstablishes, StepPreserves, PTL DEF Spec

\* No call of KeyFrameNeeded() is forgotten: a request or a key frame follows
\* within the delay plus the retransmission wait.
THEOREM NeedsServed == Spec => []NeedsAreServed
<1>1. IInv => NeedsAreServed
    <2> SUFFICES ASSUME IInv, NEW s \in Ssrcs
                 PROVE  waiting[s] <= Delay + Wait
        BY Zenon DEF NeedsAreServed
    <2>1. /\ waiting[s] \in Int
          /\ s \in keyFrameRequested => delayer[s] \in 0..Delay
          /\ s \in retryOnTimeout => pending[s] \in 0..Wait
        BY DEF IInv, TypeOK
    <2> QED BY <2>1, SMTT(60) DEF IInv, Owed
<1> QED BY <1>1, Inductive, PTL

\* The requests that calls of KeyFrameNeeded() lead to are at least
\* keyFrameRequestDelay apart.
THEOREM SpacedOut == Spec => RequestsSpacedOut
<1>1. IInv /\ [Next]_vars =>
          [\A s \in Ssrcs :
              KeyFrameNeeded(s) \/ OnKeyFrameDelayTimeout(s) =>
                  since'[s] = since[s] \/ since[s] = Delay]_vars
    <2> SUFFICES ASSUME IInv, NEW s \in Ssrcs, KeyFrameNeeded(s) \/ OnKeyFrameDelayTimeout(s)
                 PROVE  since'[s] = since[s] \/ since[s] = Delay
        BY Zenon
    <2>1. CASE KeyFrameNeeded(s)
        BY <2>1, Zenon DEF IInv, Spaced, KeyFrameNeeded
    <2>2. CASE OnKeyFrameDelayTimeout(s)
        BY <2>2, SMTT(60) DEF IInv, TypeOK, Spaced, OnKeyFrameDelayTimeout
    <2> QED BY <2>1, <2>2, Zenon
<1> QED BY <1>1, Inductive, PTL DEF Spec, RequestsSpacedOut

-----------------------------------------------------------------------------
(* SimpleConsumer and PipeConsumer *)

\* A Consumer that was told to go on, and did, waits for a key frame of every stream of
\* which it missed packets, and has asked for those it waits for.
GoesOn(c) ==
    Fwd!BaseIsActive(c) /\ ~c.asleep => /\ c.missed \subseteq c.sync
                                        /\ c.video => c.sync \subseteq c.asked

\* Only silence that is to be ignored was dropped, by a SimpleConsumer of audio.
Dropped(c) ==
    /\ c.ignoreDtx => c.type = "simple" /\ ~c.video
    /\ \A s \in PipeStreams : \A n \in c.dropped[s] : c.ignoreDtx /\ n \in c.silent

\* A packet that was sent over a gap is a key frame.
SentOverGap(c) == c.sent.gap /\ c.video /\ ~c.asleep => c.sent.key

SentRecords == [s : PipeStreams \cup {0}, key : BOOLEAN, gap : BOOLEAN]

FwdRecords ==
    [type : {"simple", "pipe"}, video : BOOLEAN, dtx : BOOLEAN, ignoreDtx : BOOLEAN,
     silent : SUBSET Fwd!Seqs, connected : BOOLEAN, paused : BOOLEAN, producerPaused : BOOLEAN,
     alive : SUBSET PipeStreams, newest : [PipeStreams -> Fwd!Seqs \cup {0}],
     sync : SUBSET PipeStreams, asked : SUBSET PipeStreams, asleep : BOOLEAN,
     dropped : [PipeStreams -> SUBSET Fwd!Seqs], kept : BOOLEAN, missed : SUBSET PipeStreams,
     undefined : BOOLEAN, sent : SentRecords,
     events : Nat]

\* The inductive invariant, of the record.
Sound(c) ==
    /\ c \in FwdRecords
    /\ c.missed \subseteq Fwd!Streams(c)
    /\ GoesOn(c) /\ Dropped(c) /\ SentOverGap(c)
    /\ ~c.undefined

FwdInv == Sound(fwd)

\* A Consumer's streams are among those of a PipeConsumer.
LEMMA StreamsKnown ==
    ASSUME SimpleStream \in PipeStreams, NEW c
    PROVE  Fwd!Streams(c) \subseteq PipeStreams
BY DEF Fwd!Streams

\* The invariant holds of a new Consumer.
LEMMA FwdInitInv ==
    ASSUME SimpleStream \in PipeStreams, Fwd!Init
    PROVE  FwdInv
<1>1. PICK t \in {"simple", "pipe"}, v, i, d, p \in BOOLEAN, silent \in SUBSET Fwd!Seqs :
        /\ i \/ d \/ silent # {} => t = "simple" /\ ~v
        /\ fwd = [type |-> t, video |-> v, dtx |-> d, ignoreDtx |-> i, silent |-> silent,
                  connected |-> FALSE, paused |-> p, producerPaused |-> FALSE,
                  alive |-> {}, newest |-> [s \in PipeStreams |-> 0],
                  sync |-> {}, asked |-> {}, asleep |-> FALSE,
                  dropped |-> [s \in PipeStreams |-> {}], kept |-> FALSE, missed |-> {},
                  undefined |-> FALSE, sent |-> Fwd!NoPacket, events |-> 0]
  BY Zenon DEF Fwd!Init
<1>2. Fwd!NoPacket \in SentRecords /\ ~Fwd!NoPacket.gap BY Zenon DEF Fwd!NoPacket, SentRecords
<1>3. fwd \in FwdRecords BY <1>1, <1>2, Zenon DEF FwdRecords
<1>4. GoesOn(fwd) /\ SentOverGap(fwd) /\ ~fwd.undefined /\ fwd.missed = {}
  BY <1>1, <1>2, Zenon DEF GoesOn, SentOverGap, Fwd!BaseIsActive
<1>5. Dropped(fwd) BY <1>1, Zenon DEF Dropped
<1> QED BY <1>3, <1>4, <1>5, Zenon DEF FwdInv, Sound

\* A step begins with what was there, and nothing sent.
LEMMA IdleSound ==
    ASSUME FwdInv
    PROVE  /\ Sound(Fwd!Idle) /\ Sound(Fwd!Again)
           /\ ~Fwd!Idle.sent.gap /\ ~Fwd!Again.sent.gap
<1>0. fwd \in FwdRecords BY Zenon DEF FwdInv, Sound
<1>1. Fwd!NoPacket \in SentRecords /\ ~Fwd!NoPacket.gap BY Zenon DEF Fwd!NoPacket, SentRecords
<1>2. PICK r : r = Fwd!Idle OBVIOUS
<1>3. r \in FwdRecords BY <1>0, <1>1, <1>2 DEF Fwd!Idle, FwdRecords
<1>4. /\ r.type = fwd.type /\ r.video = fwd.video /\ r.ignoreDtx = fwd.ignoreDtx
      /\ r.silent = fwd.silent /\ r.connected = fwd.connected /\ r.paused = fwd.paused
      /\ r.producerPaused = fwd.producerPaused /\ r.sync = fwd.sync /\ r.asked = fwd.asked
      /\ r.asleep = fwd.asleep /\ r.dropped = fwd.dropped /\ r.missed = fwd.missed
      /\ r.undefined = fwd.undefined /\ ~r.sent.gap
  BY <1>0, <1>1, <1>2, Zenon DEF Fwd!Idle, FwdRecords
<1>5. GoesOn(r) /\ Dropped(r) /\ SentOverGap(r) /\ ~r.undefined
      /\ r.missed \subseteq Fwd!Streams(r)
  BY <1>4, Zenon DEF FwdInv, Sound, GoesOn, Dropped, SentOverGap, Fwd!BaseIsActive, Fwd!Streams
<1>6. PICK n \in Nat : n = r.events + 1 BY <1>3 DEF FwdRecords
<1>7. PICK q : q = [r EXCEPT !.events = n] BY Zenon
<1>8. q = Fwd!Again BY <1>2, <1>6, <1>7 DEF Fwd!Again
<1>9. q \in FwdRecords BY <1>3, <1>7, Zenon DEF FwdRecords
<1>10. /\ q.type = r.type /\ q.video = r.video /\ q.ignoreDtx = r.ignoreDtx
       /\ q.silent = r.silent /\ q.connected = r.connected /\ q.paused = r.paused
       /\ q.producerPaused = r.producerPaused /\ q.sync = r.sync /\ q.asked = r.asked
       /\ q.asleep = r.asleep /\ q.dropped = r.dropped /\ q.missed = r.missed
       /\ q.undefined = r.undefined /\ q.sent = r.sent
  BY <1>3, <1>7, Zenon DEF FwdRecords
<1>11. GoesOn(q) /\ Dropped(q) /\ SentOverGap(q) /\ ~q.undefined
       /\ q.missed \subseteq Fwd!Streams(q) /\ ~q.sent.gap
  BY <1>4, <1>5, <1>10, Zenon DEF GoesOn, Dropped, SentOverGap, Fwd!BaseIsActive, Fwd!Streams
<1> QED BY <1>2, <1>3, <1>4, <1>5, <1>8, <1>9, <1>11, Zenon DEF Sound

\* Start(), after which `asleep' says that the Consumer should be active and is not.
LEMMA StartSound ==
    ASSUME SimpleStream \in PipeStreams,
           NEW c \in FwdRecords, c.missed \subseteq Fwd!Streams(c), Dropped(c),
           ~c.sent.gap, ~c.undefined,
           NEW a \in BOOLEAN, ~a => Fwd!IsActive(c) \/ ~Fwd!BaseIsActive(c),
           NEW r, r = [Fwd!Start(c) EXCEPT !.asleep = a]
    PROVE  Sound(r)
<1>1. PICK S : S = Fwd!Streams(c) BY Zenon
<1>2. PICK A : A = IF Fwd!IsActive(c) /\ c.video THEN c.asked \cup S ELSE c.asked BY Zenon
<1>3. S \in SUBSET PipeStreams /\ A \in SUBSET PipeStreams
  BY <1>1, <1>2, StreamsKnown DEF FwdRecords
<1>4. PICK n : n = [c EXCEPT !.sync = S] BY Zenon
<1>5. /\ Fwd!IsActive(n) = Fwd!IsActive(c) /\ Fwd!Streams(n) = S
      /\ n.video = c.video /\ n.asked = c.asked
  BY <1>1, <1>4 DEF FwdRecords, Fwd!IsActive, Fwd!BaseIsActive, Fwd!Streams
<1>6. Fwd!Start(c) = [c EXCEPT !.sync = S, !.asked = A]
  <2>1. Fwd!Start(c) = IF Fwd!IsActive(n) THEN Fwd!RequestKeyFrame(n) ELSE n
    BY <1>1, <1>4 DEF Fwd!Start
  <2>2. CASE Fwd!IsActive(c) /\ c.video
    BY <2>1, <2>2, <1>2, <1>4, <1>5, Zenon DEF Fwd!RequestKeyFrame
  <2>3. CASE ~(Fwd!IsActive(c) /\ c.video)
    <3>1. Fwd!Start(c) = n BY <2>1, <2>3, <1>5, Zenon DEF Fwd!RequestKeyFrame
    <3>2. A = c.asked BY <2>3, <1>2
    <3> QED BY <3>1, <3>2, <1>4, Zenon DEF FwdRecords
  <2> QED BY <2>2, <2>3, Zenon
<1>7. PICK q : q = [c EXCEPT !.sync = S, !.asked = A, !.asleep = a] OBVIOUS
<1>8. r = q BY <1>6, <1>7
<1>9. q \in FwdRecords BY <1>3, <1>7, Zenon DEF FwdRecords
<1>10. /\ q.type = c.type /\ q.video = c.video /\ q.ignoreDtx = c.ignoreDtx
       /\ q.silent = c.silent /\ q.connected = c.connected /\ q.paused = c.paused
       /\ q.producerPaused = c.producerPaused /\ q.sync = S /\ q.asked = A
       /\ q.asleep = a /\ q.dropped = c.dropped /\ q.missed = c.missed
       /\ q.undefined = c.undefined /\ q.sent = c.sent
  BY <1>7, Zenon DEF FwdRecords
<1>11. q.missed \subseteq Fwd!Streams(q) BY <1>10 DEF Fwd!Streams
<1>12. GoesOn(q)
  BY <1>1, <1>2, <1>10 DEF GoesOn, Fwd!BaseIsActive
<1>13. Dropped(q) /\ SentOverGap(q) BY <1>10, Zenon DEF Dropped, SentOverGap
<1> QED BY <1>8, <1>9, <1>10, <1>11, <1>12, <1>13, Zenon DEF Sound

\* What a step leaves alone that does not wake the Consumer.
LEMMA QuietSound ==
    ASSUME NEW c, Sound(c), NEW r \in FwdRecords,
           r.type = c.type, r.video = c.video, r.ignoreDtx = c.ignoreDtx,
           r.silent = c.silent, r.dropped = c.dropped, r.missed = c.missed,
           r.undefined = c.undefined, r.sent = c.sent, r.asleep = c.asleep,
           r.sync = c.sync, c.asked \subseteq r.asked,
           Fwd!BaseIsActive(r) => Fwd!BaseIsActive(c)
    PROVE  Sound(r)
BY Zenon DEF Sound, GoesOn, Dropped, SentOverGap, Fwd!Streams

\* UserOnPaused() and UserOnTransportDisconnected() clear the packets that were kept.
LEMMA KeptSound ==
    ASSUME NEW c, Sound(c)
    PROVE  Sound([c EXCEPT !.kept = FALSE])
<1>0. c \in FwdRecords BY Zenon DEF Sound
<1>1. PICK r : r = [c EXCEPT !.kept = FALSE] BY Zenon
<1>2. r \in FwdRecords BY <1>0, <1>1, Zenon DEF FwdRecords
<1>3. /\ r.type = c.type /\ r.video = c.video /\ r.ignoreDtx = c.ignoreDtx
      /\ r.silent = c.silent /\ r.dropped = c.dropped /\ r.missed = c.missed
      /\ r.undefined = c.undefined /\ r.sent = c.sent /\ r.asleep = c.asleep
      /\ r.sync = c.sync /\ c.asked \subseteq r.asked
      /\ Fwd!BaseIsActive(r) => Fwd!BaseIsActive(c)
  BY <1>0, <1>1 DEF FwdRecords, Fwd!BaseIsActive
<1>4. Sound(r) BY <1>2, <1>3, QuietSound, Zenon
<1> QED BY <1>1, <1>4

\* The transport is disconnected, the Consumer or the Producer paused.
LEMMA StopsSound ==
    ASSUME FwdInv, Fwd!Disconnect \/ Fwd!Pause \/ Fwd!ProducerPaused
    PROVE  FwdInv'
<1>0. PICK c : c = Fwd!Again OBVIOUS
<1>1. Sound(c) /\ c \in FwdRecords BY <1>0, IdleSound, Zenon DEF Sound
<1>2. PICK d : /\ d \in {[c EXCEPT !.connected = FALSE], [c EXCEPT !.paused = TRUE],
                         [c EXCEPT !.producerPaused = TRUE]}
               /\ fwd' = d \/ fwd' = [d EXCEPT !.kept = FALSE]
  <2>1. CASE Fwd!Disconnect
    <3>1. fwd' = [[c EXCEPT !.connected = FALSE] EXCEPT !.kept = FALSE]
      BY <2>1, <1>0 DEF Fwd!Disconnect, Fwd!Kept
    <3> QED BY <3>1, Zenon
  <2>2. CASE Fwd!Pause
    <3>1. \/ fwd' = [c EXCEPT !.paused = TRUE]
          \/ fwd' = [[c EXCEPT !.paused = TRUE] EXCEPT !.kept = FALSE]
      BY <2>2, <1>0 DEF Fwd!Pause, Fwd!Kept
    <3> QED BY <3>1, Zenon
  <2>3. CASE Fwd!ProducerPaused
    <3>1. \/ fwd' = [c EXCEPT !.producerPaused = TRUE]
          \/ fwd' = [[c EXCEPT !.producerPaused = TRUE] EXCEPT !.kept = FALSE]
      BY <2>3, <1>0 DEF Fwd!ProducerPaused, Fwd!Kept
    <3> QED BY <3>1, Zenon
  <2> QED BY <2>1, <2>2, <2>3
<1>3. d \in FwdRecords
  <2>1. [c EXCEPT !.connected = FALSE] \in FwdRecords BY <1>1, Zenon DEF FwdRecords
  <2>2. [c EXCEPT !.paused = TRUE] \in FwdRecords BY <1>1, Zenon DEF FwdRecords
  <2>3. [c EXCEPT !.producerPaused = TRUE] \in FwdRecords BY <1>1, Zenon DEF FwdRecords
  <2> QED BY <1>2, <2>1, <2>2, <2>3, Zenon
<1>4. /\ d.type = c.type /\ d.video = c.video /\ d.ignoreDtx = c.ignoreDtx
      /\ d.silent = c.silent /\ d.dropped = c.dropped /\ d.missed = c.missed
      /\ d.undefined = c.undefined /\ d.sent = c.sent /\ d.asleep = c.asleep
      /\ d.sync = c.sync /\ d.asked = c.asked /\ ~Fwd!BaseIsActive(d)
  BY <1>1, <1>2 DEF FwdRecords, Fwd!BaseIsActive
<1>5. Sound(d) BY <1>1, <1>3, <1>4, QuietSound, Zenon
<1>6. Sound(fwd') BY <1>2, <1>5, KeptSound, Zenon
<1> QED BY <1>6, Zenon DEF FwdInv

\* RequestKeyFrame() of the application, and the score of a stream falling to 0.
LEMMA AsksSound ==
    ASSUME SimpleStream \in PipeStreams, FwdInv,
           Fwd!AskKeyFrame \/ \E s \in PipeStreams : Fwd!Dies(s)
    PROVE  FwdInv'
<1>0. PICK c : c = Fwd!Again BY Zenon
<1>1. Sound(c) /\ c \in FwdRecords BY <1>0, IdleSound, Zenon DEF Sound
<1>2. PICK A, L \in SUBSET PipeStreams : /\ c.asked \subseteq A
                                         /\ fwd' = [c EXCEPT !.asked = A, !.alive = L]
  <2>0. c.asked \in SUBSET PipeStreams /\ c.alive \in SUBSET PipeStreams
    BY <1>1, Zenon DEF FwdRecords
  <2>1. CASE Fwd!AskKeyFrame
    <3>1. PICK A \in SUBSET PipeStreams :
            A = IF c.video THEN c.asked \cup Fwd!Streams(c) ELSE c.asked
      BY <2>0, StreamsKnown, Zenon
    <3>2. fwd' = [c EXCEPT !.asked = A]
      BY <2>1, <1>0, <1>1, <3>1, Zenon DEF Fwd!AskKeyFrame, Fwd!RequestKeyFrame, FwdRecords
    <3>3. fwd' = [c EXCEPT !.asked = A, !.alive = c.alive] BY <3>2, <1>1, Zenon DEF FwdRecords
    <3> QED BY <2>0, <3>1, <3>3, Zenon
  <2>2. CASE \E s \in PipeStreams : Fwd!Dies(s)
    <3>1. PICK s \in PipeStreams : fwd' = [c EXCEPT !.alive = c.alive \ {s}]
      BY <2>2, <1>0, Zenon DEF Fwd!Dies
    <3>2. fwd' = [c EXCEPT !.asked = c.asked, !.alive = c.alive \ {s}]
      BY <3>1, <1>1, Zenon DEF FwdRecords
    <3> QED BY <2>0, <3>2, Zenon
  <2> QED BY <2>1, <2>2, Zenon
<1>3. PICK d : d = [c EXCEPT !.asked = A, !.alive = L] BY Zenon
<1>4. d \in FwdRecords BY <1>1, <1>3, Zenon DEF FwdRecords
<1>5. /\ d.type = c.type /\ d.video = c.video /\ d.ignoreDtx = c.ignoreDtx
      /\ d.silent = c.silent /\ d.dropped = c.dropped /\ d.missed = c.missed
      /\ d.undefined = c.undefined /\ d.sent = c.sent /\ d.asleep = c.asleep
      /\ d.sync = c.sync /\ c.asked \subseteq d.asked
      /\ Fwd!BaseIsActive(d) => Fwd!BaseIsActive(c)
  BY <1>1, <1>2, <1>3, Zenon DEF FwdRecords, Fwd!BaseIsActive
<1>6. Sound(d) BY <1>1, <1>4, <1>5, QuietSound, Zenon
<1> QED BY <1>2, <1>3, <1>6, Zenon DEF FwdInv

\* The transport is connected, the Consumer or the Producer resumed.
LEMMA WakesSound ==
    ASSUME SimpleStream \in PipeStreams, FwdInv,
           Fwd!Connect \/ Fwd!Resume \/ Fwd!ProducerResumed
    PROVE  FwdInv'
<1>1. PICK b : b \in {Fwd!Idle, Fwd!Again} /\
        \/ LET c == [b EXCEPT !.connected = TRUE]
           IN  fwd' = [Fwd!Start(c) EXCEPT !.asleep = Fwd!BaseIsActive(c) /\ ~Fwd!IsActive(c)]
        \/ fwd' = Fwd!Resumed([b EXCEPT !.paused = FALSE])
        \/ fwd' = Fwd!Resumed([b EXCEPT !.producerPaused = FALSE])
  BY Zenon DEF Fwd!Connect, Fwd!Resume, Fwd!ProducerResumed
<1>2. Sound(b) /\ b \in FwdRecords /\ ~b.sent.gap BY <1>1, IdleSound DEF Sound
<1>3. PICK c : /\ c \in {[b EXCEPT !.connected = TRUE], [b EXCEPT !.paused = FALSE],
                         [b EXCEPT !.producerPaused = FALSE]}
               /\ \/ fwd' = [Fwd!Start(c) EXCEPT !.asleep = Fwd!BaseIsActive(c) /\ ~Fwd!IsActive(c)]
                  \/ fwd' = Fwd!Resumed(c)
  BY <1>1, Zenon
<1>4. c \in FwdRecords
  <2>1. [b EXCEPT !.connected = TRUE] \in FwdRecords BY <1>2, Zenon DEF FwdRecords
  <2>2. [b EXCEPT !.paused = FALSE] \in FwdRecords BY <1>2, Zenon DEF FwdRecords
  <2>3. [b EXCEPT !.producerPaused = FALSE] \in FwdRecords BY <1>2, Zenon DEF FwdRecords
  <2> QED BY <1>3, <2>1, <2>2, <2>3, Zenon
<1>5. /\ c.type = b.type /\ c.video = b.video /\ c.ignoreDtx = b.ignoreDtx
      /\ c.silent = b.silent /\ c.dropped = b.dropped /\ c.missed = b.missed
      /\ c.undefined = b.undefined /\ c.sent = b.sent /\ c.asleep = b.asleep
      /\ c.sync = b.sync /\ c.asked = b.asked
  BY <1>2, <1>3 DEF FwdRecords
<1>6. /\ c.missed \subseteq Fwd!Streams(c) /\ Dropped(c) /\ ~c.sent.gap /\ ~c.undefined
  BY <1>2, <1>5, Zenon DEF Sound, Dropped, Fwd!Streams
<1>7. \A a \in BOOLEAN : (~a => Fwd!IsActive(c) \/ ~Fwd!BaseIsActive(c)) =>
            Sound([Fwd!Start(c) EXCEPT !.asleep = a])
  BY <1>4, <1>6, StartSound
<1>8. CASE fwd' = [Fwd!Start(c) EXCEPT !.asleep = Fwd!BaseIsActive(c) /\ ~Fwd!IsActive(c)]
  <2>1. PICK a \in BOOLEAN : a = (Fwd!BaseIsActive(c) /\ ~Fwd!IsActive(c)) BY Zenon
  <2>2. fwd' = [Fwd!Start(c) EXCEPT !.asleep = a] BY <1>8, <2>1, Zenon
  <2>3. ~a => Fwd!IsActive(c) \/ ~Fwd!BaseIsActive(c) BY <2>1, Zenon
  <2>4. Sound([Fwd!Start(c) EXCEPT !.asleep = a]) BY <1>7, <2>3, Zenon
  <2> QED BY <2>2, <2>4, Zenon DEF FwdInv
<1>9. CASE fwd' = Fwd!Resumed(c) /\ Fwd!IsActive(c)
  <2>1. fwd' = [Fwd!Start(c) EXCEPT !.asleep = FALSE] BY <1>9, Zenon DEF Fwd!Resumed
  <2>2. Sound([Fwd!Start(c) EXCEPT !.asleep = FALSE]) BY <1>7, <1>9, Zenon
  <2> QED BY <2>1, <2>2 DEF FwdInv
<1>10. CASE fwd' = Fwd!Resumed(c) /\ ~Fwd!IsActive(c)
  <2>1. PICK a \in BOOLEAN : a = (c.asleep \/ Fwd!BaseIsActive(c)) BY Zenon
  <2>2. PICK r : r = [c EXCEPT !.asleep = a] BY Zenon
  <2>3. fwd' = r BY <1>10, <2>1, <2>2, Zenon DEF Fwd!Resumed
  <2>4. r \in FwdRecords BY <1>4, <2>2, Zenon DEF FwdRecords
  <2>5. /\ r.type = c.type /\ r.video = c.video /\ r.ignoreDtx = c.ignoreDtx
        /\ r.silent = c.silent /\ r.dropped = c.dropped /\ r.missed = c.missed
        /\ r.undefined = c.undefined /\ r.sent = c.sent /\ r.asleep = a
        /\ r.connected = c.connected /\ r.paused = c.paused
        /\ r.producerPaused = c.producerPaused
    BY <1>4, <2>2, Zenon DEF FwdRecords
  <2>6. Fwd!BaseIsActive(r) => r.asleep BY <2>1, <2>5, Zenon DEF Fwd!BaseIsActive
  <2>7. Sound(r)
    BY <1>6, <2>4, <2>5, <2>6, Zenon DEF Sound, GoesOn, Dropped, SentOverGap, Fwd!Streams
  <2> QED BY <2>3, <2>7, Zenon DEF FwdInv
<1> QED BY <1>3, <1>8, <1>9, <1>10, Zenon

\* Forward(): from the next key frame on, if the Consumer waits for one.
LEMMA ForwardSound ==
    ASSUME NEW c \in FwdRecords, NEW p, p.s \in PipeStreams, p.key \in BOOLEAN,
           c.missed \subseteq Fwd!Streams(c), Dropped(c), ~c.sent.gap, ~c.undefined,
           Fwd!BaseIsActive(c), ~c.asleep => c.missed \subseteq c.sync,
           ~c.asleep /\ c.video => c.sync \ (IF p.key THEN {p.s} ELSE {}) \subseteq c.asked,
           ~(c.ignoreDtx /\ p.n \in c.silent)
    PROVE  Sound(Fwd!Forward(c, p))
<1>1. CASE p.s \in c.sync /\ c.video /\ ~p.key
  <2>1. Fwd!Forward(c, p) = c BY <1>1, Zenon DEF Fwd!Forward
  <2> QED BY <1>1, <2>1, Zenon DEF Sound, GoesOn, SentOverGap
<1>2. CASE ~(p.s \in c.sync /\ c.video /\ ~p.key)
  <2>1. PICK D : D = IF p.s \in c.sync THEN [c.dropped EXCEPT ![p.s] = {}] ELSE c.dropped
    BY Zenon
  <2>2. /\ D \in [PipeStreams -> SUBSET Fwd!Seqs]
        /\ \A s \in PipeStreams : D[s] \subseteq c.dropped[s]
    BY <2>1, Zenon DEF FwdRecords
  <2>3. PICK S, M : S = c.sync \ {p.s} /\ M = c.missed \ {p.s} BY Zenon
  <2>4. PICK e : e = [s |-> p.s, key |-> p.key, gap |-> p.s \in c.missed] BY Zenon
  <2>5. p.n \notin D[p.s] BY <2>2, Zenon DEF Dropped
  <2>6. PICK r : r = [c EXCEPT !.sync = S, !.dropped = D, !.undefined = FALSE,
                               !.kept = TRUE, !.missed = M, !.sent = e]
    OBVIOUS
  <2>7. Fwd!Forward(c, p) = r
    <3>1. PICK n : n = IF p.s \in c.sync
                       THEN [c EXCEPT !.sync = @ \ {p.s}, !.dropped[p.s] = {}] ELSE c
      BY Zenon
    <3>2. n = [c EXCEPT !.sync = S, !.dropped = D]
      <4>1. CASE p.s \in c.sync BY <4>1, <3>1, <2>1, <2>3 DEF FwdRecords
      <4>2. CASE p.s \notin c.sync
        <5>1. S = c.sync /\ D = c.dropped /\ n = c BY <4>2, <3>1, <2>1, <2>3
        <5> QED BY <5>1, Zenon DEF FwdRecords
      <4> QED BY <4>1, <4>2
    <3>3. n.dropped = D /\ n.undefined = FALSE /\ n.missed = c.missed
      BY <3>2, Zenon DEF FwdRecords
    <3>4. Fwd!Forward(c, p) = [n EXCEPT !.undefined = @ \/ p.n \in n.dropped[p.s],
                       !.kept = TRUE, !.missed = @ \ {p.s},
                       !.sent = [s |-> p.s, key |-> p.key, gap |-> p.s \in c.missed]]
      BY <1>2, <3>1, Zenon DEF Fwd!Forward
    <3>5. (n.undefined \/ p.n \in n.dropped[p.s]) = FALSE BY <3>3, <2>5, Zenon
    <3>6. Fwd!Forward(c, p) = [n EXCEPT !.undefined = FALSE, !.kept = TRUE, !.missed = M,
                                        !.sent = e]
      BY <3>3, <3>4, <3>5, <2>3, <2>4, Zenon
    <3> QED BY <3>2, <3>6, <2>6
  <2>8. S \in SUBSET PipeStreams /\ M \in SUBSET PipeStreams BY <2>3, Zenon DEF FwdRecords
  <2>9. e \in SentRecords /\ e.key = p.key /\ e.gap = (p.s \in c.missed)
    BY <2>4, SMTT(60) DEF SentRecords
  <2>10. r \in FwdRecords BY <2>2, <2>6, <2>8, <2>9, Zenon DEF FwdRecords
  <2>11. /\ r.type = c.type /\ r.video = c.video /\ r.ignoreDtx = c.ignoreDtx
         /\ r.silent = c.silent /\ r.dropped = D /\ r.missed = M /\ r.sync = S
         /\ r.undefined = FALSE /\ r.sent = e /\ r.asleep = c.asleep /\ r.asked = c.asked
    BY <2>6, Zenon DEF FwdRecords
  <2>12. GoesOn(r) BY <1>2, <2>3, <2>11, Zenon DEF GoesOn
  <2>13. Dropped(r) BY <2>2, <2>11, Zenon DEF Dropped
  <2>14. SentOverGap(r) BY <1>2, <2>9, <2>11, Zenon DEF SentOverGap
  <2>15. r.missed \subseteq Fwd!Streams(r) BY <2>3, <2>11, Zenon DEF Fwd!Streams
  <2> QED BY <2>7, <2>10, <2>11, <2>12, <2>13, <2>14, <2>15, Zenon DEF Sound
<1> QED BY <1>1, <1>2, Zenon

\* A packet of a stream: it is missed, dropped or forwarded.
LEMMA PacketSound ==
    ASSUME SimpleStream \in PipeStreams, FwdInv,
           NEW s \in PipeStreams, NEW n \in Fwd!Seqs, NEW k \in BOOLEAN,
           Fwd!Packet([s |-> s, n |-> n, key |-> k])
    PROVE  FwdInv'
<1>0. PICK b : b = Fwd!Idle BY Zenon
<1>1. Sound(b) /\ b \in FwdRecords /\ ~b.sent.gap BY <1>0, IdleSound, Zenon DEF Sound
<1>2. PICK p : p = [s |-> s, n |-> n, key |-> k] BY Zenon
<1>3. p.s = s /\ p.n = n /\ p.key = k BY <1>2, Zenon
<1>4. PICK A, L, N :
        /\ fwd' = Fwd!SendRtpPacket([b EXCEPT !.alive = L, !.newest = N, !.asked = A], p)
        /\ L = b.alive \cup {s}
        /\ N \in [PipeStreams -> Fwd!Seqs \cup {0}]
        /\ A \in SUBSET PipeStreams /\ b.asked \ (IF k THEN {s} ELSE {}) \subseteq A
  <2>1. PICK asked : asked = IF fwd.newest[s] = 0 /\ fwd.video THEN fwd.asked \cup {s}
                             ELSE fwd.asked
    BY Zenon
  <2>2. b.asked = fwd.asked /\ b.newest = fwd.newest
    <3>1. fwd \in FwdRecords BY Zenon DEF FwdInv, Sound
    <3> QED BY <3>1, <1>0 DEF Fwd!Idle, FwdRecords
  <2>3. PICK N : N = [b.newest EXCEPT ![s] = IF n > fwd.newest[s] THEN n ELSE @] BY Zenon
  <2>4. PICK A : A = IF k THEN asked \ {s} ELSE asked BY Zenon
  <2>5. fwd' = Fwd!SendRtpPacket([b EXCEPT !.alive = @ \cup {s}, !.newest = N, !.asked = A], p)
    BY <1>0, <1>2, <1>3, <2>1, <2>3, <2>4, Zenon DEF Fwd!Packet
  <2>6. fwd' = Fwd!SendRtpPacket([b EXCEPT !.alive = b.alive \cup {s}, !.newest = N, !.asked = A], p)
    BY <2>5, Zenon
  <2>7. N \in [PipeStreams -> Fwd!Seqs \cup {0}] BY <1>1, <2>3, Zenon DEF FwdRecords
  <2>8. A \in SUBSET PipeStreams /\ b.asked \ (IF k THEN {s} ELSE {}) \subseteq A
    BY <1>1, <2>1, <2>2, <2>4, Zenon DEF FwdRecords
  <2> QED BY <2>6, <2>7, <2>8, Zenon
<1>5. s \in Fwd!Streams(fwd) BY <1>2, <1>3, Zenon DEF Fwd!Packet
<1>6. PICK c : c = [b EXCEPT !.alive = L, !.newest = N, !.asked = A] OBVIOUS
<1>7. L \in SUBSET PipeStreams BY <1>1, <1>4 DEF FwdRecords
<1>8. c \in FwdRecords BY <1>1, <1>4, <1>6, <1>7, Zenon DEF FwdRecords
<1>9. /\ c.type = b.type /\ c.video = b.video /\ c.ignoreDtx = b.ignoreDtx
      /\ c.silent = b.silent /\ c.dropped = b.dropped /\ c.missed = b.missed
      /\ c.undefined = b.undefined /\ c.sent = b.sent /\ c.asleep = b.asleep
      /\ c.sync = b.sync /\ c.asked = A /\ c.alive = L /\ c.connected = b.connected
      /\ c.paused = b.paused /\ c.producerPaused = b.producerPaused
  BY <1>1, <1>6, Zenon DEF FwdRecords
<1>10. /\ c.missed \subseteq Fwd!Streams(c) /\ Dropped(c) /\ ~c.sent.gap /\ ~c.undefined
       /\ Fwd!BaseIsActive(c) /\ ~c.asleep => c.missed \subseteq c.sync
       /\ Fwd!BaseIsActive(c) /\ ~c.asleep /\ c.video =>
              c.sync \ (IF p.key THEN {p.s} ELSE {}) \subseteq c.asked
  BY <1>1, <1>3, <1>4, <1>9, Zenon DEF Sound, GoesOn, Dropped, Fwd!Streams, Fwd!BaseIsActive
<1>11. s \in Fwd!Streams(c)
  <2>1. fwd.type = c.type
    <3>1. fwd \in FwdRecords BY Zenon DEF FwdInv, Sound
    <3> QED BY <3>1, <1>0, <1>9, Zenon DEF Fwd!Idle, FwdRecords
  <2> QED BY <1>5, <2>1, Zenon DEF Fwd!Streams
<1>12. Fwd!IsActive(c) <=> Fwd!BaseIsActive(c)
  BY <1>4, <1>9, <1>11 DEF Fwd!IsActive, Fwd!Streams
<1>13. CASE ~Fwd!IsActive(c)
  <2>1. PICK M : M = c.missed \cup {s} BY Zenon
  <2>2. M \in SUBSET PipeStreams BY <1>8, <2>1, Zenon DEF FwdRecords
  <2>3. PICK r : r = [c EXCEPT !.missed = M] BY Zenon
  <2>4. fwd' = r
    BY <1>3, <1>4, <1>6, <1>13, <2>1, <2>3 DEF Fwd!SendRtpPacket, Fwd!SimpleSendRtpPacket,
       Fwd!PipeSendRtpPacket
  <2>5. r \in FwdRecords BY <1>8, <2>2, <2>3, Zenon DEF FwdRecords
  <2>6. /\ r.type = c.type /\ r.video = c.video /\ r.ignoreDtx = c.ignoreDtx
        /\ r.silent = c.silent /\ r.dropped = c.dropped /\ r.missed = M
        /\ r.undefined = c.undefined /\ r.sent = c.sent
        /\ Fwd!BaseIsActive(r) = Fwd!BaseIsActive(c)
    BY <1>8, <2>3, Zenon DEF FwdRecords, Fwd!BaseIsActive
  <2>7. GoesOn(r) BY <1>12, <1>13, <2>6, Zenon DEF GoesOn
  <2>8. Dropped(r) /\ SentOverGap(r) BY <1>10, <2>6, Zenon DEF Dropped, SentOverGap
  <2>9. r.missed \subseteq Fwd!Streams(r) BY <1>10, <1>11, <2>1, <2>6, Zenon DEF Fwd!Streams
  <2>10. Sound(r) BY <1>10, <2>5, <2>6, <2>7, <2>8, <2>9, Zenon DEF Sound
  <2> QED BY <2>4, <2>10, Zenon DEF FwdInv
<1>14. CASE Fwd!IsActive(c) /\ c.type = "simple" /\ ~Fwd!ProcessPayload(c, p)
  <2>1. PICK D : D = [c.dropped EXCEPT ![s] = @ \cup {n}] BY Zenon
  <2>2. D \in [PipeStreams -> SUBSET Fwd!Seqs] BY <1>8, <2>1, Zenon DEF FwdRecords
  <2>3. PICK r : r = [c EXCEPT !.dropped = D] BY Zenon
  <2>4. fwd' = r
    <3>1. fwd' = [c EXCEPT !.dropped[p.s] = @ \cup {p.n}]
      BY <1>4, <1>6, <1>14, Zenon DEF Fwd!SendRtpPacket, Fwd!SimpleSendRtpPacket
    <3> QED BY <3>1, <1>3, <2>1, <2>3
  <2>5. r \in FwdRecords BY <1>8, <2>2, <2>3, Zenon DEF FwdRecords
  <2>6. /\ r.type = c.type /\ r.video = c.video /\ r.ignoreDtx = c.ignoreDtx
        /\ r.silent = c.silent /\ r.dropped = D /\ r.missed = c.missed
        /\ r.undefined = c.undefined /\ r.sent = c.sent /\ r.asleep = c.asleep
        /\ r.sync = c.sync /\ r.asked = c.asked
        /\ Fwd!BaseIsActive(r) = Fwd!BaseIsActive(c)
    BY <1>8, <2>3, Zenon DEF FwdRecords, Fwd!BaseIsActive
  <2>7. c.ignoreDtx /\ n \in c.silent BY <1>3, <1>14, Zenon DEF Fwd!ProcessPayload
  <2>8. \A x \in PipeStreams : D[x] \subseteq c.dropped[x] \cup {n}
    BY <1>8, <2>1, Zenon DEF FwdRecords
  <2>9. Dropped(r) BY <1>10, <2>6, <2>7, <2>8, Zenon DEF Dropped
  <2>10. GoesOn(r) BY <1>10, <2>6, <2>7, Zenon DEF GoesOn, Dropped
  <2>11. SentOverGap(r) BY <1>10, <2>6, Zenon DEF SentOverGap
  <2>12. r.missed \subseteq Fwd!Streams(r) BY <1>10, <2>6, Zenon DEF Fwd!Streams
  <2>13. Sound(r) BY <1>10, <2>5, <2>6, <2>9, <2>10, <2>11, <2>12, Zenon DEF Sound
  <2> QED BY <2>4, <2>13, Zenon DEF FwdInv
<1>15. CASE Fwd!IsActive(c) /\ (c.type # "simple" \/ Fwd!ProcessPayload(c, p))
  <2>1. fwd' = Fwd!Forward(c, p)
    BY <1>4, <1>6, <1>15, Zenon DEF Fwd!SendRtpPacket, Fwd!SimpleSendRtpPacket, Fwd!PipeSendRtpPacket
  <2>2. ~(c.ignoreDtx /\ p.n \in c.silent)
    BY <1>10, <1>15, Zenon DEF Dropped, Fwd!ProcessPayload
  <2>3. Sound(Fwd!Forward(c, p))
    BY <1>3, <1>8, <1>10, <1>12, <1>15, <2>2, ForwardSound, Zenon
  <2> QED BY <2>1, <2>3, Zenon DEF FwdInv
<1> QED BY <1>13, <1>14, <1>15, Zenon

\* Every step keeps it.
LEMMA FwdNextInv ==
    ASSUME SimpleStream \in PipeStreams, FwdInv, [Fwd!Next]_fwd
    PROVE  FwdInv'
<1>1. CASE UNCHANGED fwd BY <1>1, Zenon DEF FwdInv
<1>2. CASE Fwd!Next
  <2>1. CASE Fwd!Connect \/ Fwd!Resume \/ Fwd!ProducerResumed BY <2>1, WakesSound, Zenon
  <2>2. CASE Fwd!Disconnect \/ Fwd!Pause \/ Fwd!ProducerPaused BY <2>2, StopsSound, Zenon
  <2>3. CASE Fwd!AskKeyFrame \/ \E s \in PipeStreams : Fwd!Dies(s) BY <2>3, AsksSound, Zenon
  <2>4. CASE \E s \in PipeStreams, n \in Fwd!Seqs, k \in BOOLEAN :
                Fwd!Packet([s |-> s, n |-> n, key |-> k])
    BY <2>4, PacketSound, Zenon
  <2> QED BY <1>2, <2>1, <2>2, <2>3, <2>4, Zenon DEF Fwd!Next
<1> QED BY <1>1, <1>2, Zenon

\* A SimpleConsumer or PipeConsumer of any streams goes on with a key frame where it missed
\* packets, has asked for the key frame it waits for, and sends no packet under a number
\* that SeqManager dropped; one resumed while its stream was dead is left out of the first
\* two.  (UserOnResumed(), SendRtpPacket() of SimpleConsumer.cpp and PipeConsumer.cpp.)
THEOREM ForwardersSound ==
    ASSUME SimpleStream \in PipeStreams
    PROVE  Fwd!Spec => [](Fwd!KeyFrameAfterGap /\ Fwd!KeyFrameIsComing /\ Fwd!NumberIsDefined)
<1>1. Fwd!Init => FwdInv BY FwdInitInv, Zenon
<1>2. FwdInv /\ [Fwd!Next]_fwd => FwdInv' BY FwdNextInv, Zenon
<1>3. FwdInv => Fwd!KeyFrameAfterGap /\ Fwd!KeyFrameIsComing /\ Fwd!NumberIsDefined
  BY Zenon DEF FwdInv, Sound, GoesOn, SentOverGap, Fwd!KeyFrameAfterGap, Fwd!KeyFrameIsComing,
     Fwd!NumberIsDefined, Fwd!IsActive
<1> QED BY <1>1, <1>2, <1>3, PTL DEF Fwd!Spec
=============================================================================
