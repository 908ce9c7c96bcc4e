---------------------- MODULE RtpRetransmissionBuffer ----------------------
(***************************************************************************)
(* The packets an RtpStreamSend keeps to send again: a deque of items and  *)
(* blank slots, indexed by sequence number from its front.  Packets of any *)
(* number and of timestamps around the newest are inserted.  Timestamps    *)
(* are compared modulo MaxTimestamp + 1, except between neighbours.        *)
(***************************************************************************)
EXTENDS SeqNumbers, Sequences, FiniteSetsExt

CONSTANTS
    MaxTimestamp,
    MaxItems,
    MaxDelay,       \* maxRetransmissionDelayMs, in units of the timestamps
    MaxJump         \* how far timestamps are from the newest

Ts == INSTANCE SeqNumbers WITH MaxValue <- MaxTimestamp

ASSUME BufferAssumption ==
    /\ {MaxValue, MaxTimestamp, MaxItems, MaxDelay, MaxJump} \subseteq Nat
    /\ MaxItems > 0 /\ MaxItems <= MaxValue \div 2 + 1
    /\ MaxDelay + MaxJump <= MaxTimestamp \div 2

VARIABLE buffer

Blank == [seq |-> -1, ts |-> -1]

-----------------------------------------------------------------------------
Oldest(b) == b[1]

Newest(b) == b[Len(b)]

Item(seq, ts) == [seq |-> seq, ts |-> ts]

Get(b, seq) ==
    IF b = << >> THEN Blank
    ELSE IF IsSeqLowerThan(seq, Oldest(b).seq) \/ Distance(Oldest(b).seq, seq) >= Len(b)
    THEN Blank
    ELSE b[Distance(Oldest(b).seq, seq) + 1]

IsTooOldTimestamp(ts, newestTs) ==
    ~Ts!IsSeqHigherThan(ts, newestTs) /\ Ts!Distance(ts, newestTs) > MaxDelay

\* The slots that hold a packet.
Filled(b) == {n \in 1..Len(b) : b[n] # Blank}

\* What is left of the buffer when the slots before the first of `kept' are removed.
From(b, kept) == IF kept = {} THEN << >> ELSE SubSeq(b, Min(kept), Len(b))

\* RemoveOldest(): at least `count' slots, and blank ones behind them.
RemoveOldest(b, count) == From(b, {n \in Filled(b) : n > count})

ClearTooOldByTimestamp(b, newestTs) ==
    From(b, {n \in Filled(b) : ~IsTooOldTimestamp(b[n].ts, newestTs)})

Blanks(n) == [i \in 1..n |-> Blank]

\* Mutant: a buffer that is full is emptied.
InsertNewest_AlwaysClear(b, seq, ts) ==
    LET blanks == Distance(Newest(b).seq, seq) - 1
    IN  IF Ts!IsSeqLowerThan(ts, Newest(b).ts) THEN b
        ELSE IF Len(b) + blanks + 1 > MaxItems THEN <<Item(seq, ts)>>
        ELSE b \o Blanks(blanks) \o <<Item(seq, ts)>>

\* A packet with a number above the newest.
InsertNewest(b, seq, ts) ==
    LET blanks == Distance(Newest(b).seq, seq) - 1
        excess == Len(b) + blanks + 1 - MaxItems
    IN  IF Ts!IsSeqLowerThan(ts, Newest(b).ts) THEN b
        ELSE IF excess > Len(b) - 1 THEN <<Item(seq, ts)>>
        ELSE (IF excess > 0 THEN RemoveOldest(b, excess) ELSE b)
                \o Blanks(blanks) \o <<Item(seq, ts)>>

\* Mutant: the timestamp of an old packet is not looked at.
InsertOldest_AnyTimestamp(b, seq, ts) ==
    LET blanks == Distance(seq, Oldest(b).seq) - 1
    IN  IF Len(b) + blanks + 1 > MaxItems THEN b
        ELSE <<Item(seq, ts)>> \o Blanks(blanks) \o b

\* A packet with a number below the oldest.
InsertOldest(b, seq, ts) ==
    LET blanks == Distance(seq, Oldest(b).seq) - 1
    IN  IF \/ IsTooOldTimestamp(ts, Newest(b).ts)
           \/ Ts!IsSeqHigherThan(ts, Oldest(b).ts)
           \/ Len(b) + blanks + 1 > MaxItems
        THEN b
        ELSE <<Item(seq, ts)>> \o Blanks(blanks) \o b

\* The closest items on either side of slot n.
Older(b, n) == Max({m \in 1..(n - 1) : b[m] # Blank})

Newer(b, n) == Min({m \in (n + 1)..Len(b) : b[m] # Blank})

\* A packet for a slot there is.
InsertBetween(b, seq, ts) ==
    LET n == Distance(Oldest(b).seq, seq) + 1
    IN  IF Get(b, seq) # Blank \/ ts < b[Older(b, n)].ts \/ ts > b[Newer(b, n)].ts
        THEN b
        ELSE [b EXCEPT ![n] = Item(seq, ts)]

Place(b, seq, ts) ==
    IF IsSeqHigherThan(seq, Newest(b).seq) THEN InsertNewest(b, seq, ts)
    ELSE IF IsSeqLowerThan(seq, Oldest(b).seq) THEN InsertOldest(b, seq, ts)
    ELSE InsertBetween(b, seq, ts)

\* The packet starts the buffer anew: lower number, higher timestamp.
StartsAnew(b, seq, ts) ==
    IsSeqLowerThan(seq, Newest(b).seq) /\ Ts!IsSeqHigherThan(ts, Newest(b).ts)

Inserted(b, seq, ts) ==
    IF b = << >> \/ StartsAnew(b, seq, ts) THEN <<Item(seq, ts)>>
    ELSE LET newestTs == IF Ts!IsSeqHigherThan(ts, Newest(b).ts) THEN ts ELSE Newest(b).ts
             c == ClearTooOldByTimestamp(b, newestTs)
         IN  IF c = << >> THEN <<Item(seq, ts)>> ELSE Place(c, seq, ts)

-----------------------------------------------------------------------------
BufferInit == buffer = << >>

\* A packet that comes again has the timestamp it had.
Insert(seq, ts) ==
    /\ buffer # << >> =>
          \/ Ts!Distance(ts, Newest(buffer).ts) <= MaxJump
          \/ Ts!Distance(Newest(buffer).ts, ts) <= MaxJump
    /\ Get(buffer, seq) \in {Blank, Item(seq, ts)}
    /\ buffer' = Inserted(buffer, seq, ts)

Clear == buffer' = << >>

BufferNext == Clear \/ \E seq \in Numbers, ts \in Ts!Numbers : Insert(seq, ts)

BufferSpec == BufferInit /\ [][BufferNext]_buffer
-----------------------------------------------------------------------------
Items == Filled(buffer)

\* The buffer keeps to its limit, which Insert() asserts, and begins and ends with
\* an item, which GetOldest() and GetNewest() rely on.
BufferTypeOK ==
    /\ \A n \in Items : buffer[n] \in [seq : Numbers, ts : Ts!Numbers]
    /\ Len(buffer) <= MaxItems
    /\ buffer # << >> => {1, Len(buffer)} \subseteq Items

\* Get() finds each packet in the buffer under its own number and nothing else,
\* over wraps, gaps, late packets and removals.
GetExact ==
    \A seq \in Numbers :
        /\ Get(buffer, seq) # Blank => Get(buffer, seq).seq = seq
        /\ \A n \in Items : buffer[n].seq = seq => Get(buffer, seq) = buffer[n]

\* Timestamps do not decrease along the buffer, and none is too old: what ends the
\* search for old packets at the first that is not, and lets packets be resent
\* without looking at their age.
TimestampsOrdered ==
    \A m, n \in Items : m < n => Ts!Distance(buffer[m].ts, buffer[n].ts) <= MaxDelay

\* What is sent again is the packet that was asked for, and not too old; the buffer keeps
\* to its limit and has an item at both ends.  (RtpRetransmissionBuffer.cpp Insert(), Get().)
ResendsExact == BufferTypeOK /\ GetExact /\ TimestampsOrdered

\* A packet leaves the buffer only when it is too old, too far behind, or the
\* numbers start anew.
OnlyOldLeave ==
    [][buffer' # << >> =>
         LET newest == Newest(buffer') IN
         \A n \in Items :
            \/ Get(buffer', buffer[n].seq) = buffer[n]
            \/ StartsAnew(buffer, newest.seq, newest.ts)
            \/ IsTooOldTimestamp(buffer[n].ts, newest.ts)
            \/ Distance(buffer[n].seq, newest.seq) >= MaxItems]_buffer
=============================================================================
