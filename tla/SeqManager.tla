----------------------------- MODULE SeqManager -----------------------------
(***************************************************************************)
(* SeqManager, as a Consumer uses it: incoming sequence numbers, some of   *)
(* which are dropped, are renumbered so that the receiver sees no hole for *)
(* a dropped packet.  Numbers are taken modulo MaxValue + 1; the source    *)
(* itself has an instance of 3 bits for its tests.                         *)
(*                                                                         *)
(* std::set orders `dropped' with the circular comparator, which is no     *)
(* order on numbers more than half a cycle apart.  The set is a sequence   *)
(* in its iteration order, held by any red-black tree: where a search ends *)
(* may depend on the shape of the tree.                                    *)
(***************************************************************************)
EXTENDS SeqNumbers, SequencesExt

CONSTANTS
    Step,           \* how far ahead of the last packet sent the next one may be
    DropSpacing,    \* how far a dropped packet is from the one dropped before
    SyncPoints,     \* the numbers streams are synced to
    SyncGaps,       \* what Consumers subtract from that number
    Late            \* the hard cases of late packets: among "wrapped", "overtaken"

ASSUME SeqAssumption ==
    /\ {MaxValue, Step, DropSpacing} \subseteq Nat
    /\ Late \subseteq {"wrapped", "overtaken"}

VARIABLES
    mgr,            \* [started, base, maxInput, maxOutput, dropped]
    head,           \* the newest packet seen, sent or dropped
    top,            \* the newest packet sent
    given,          \* the output given to recent packets
    skipped         \* recent packets that were dropped in time

seqVars == <<mgr, head, top, given, skipped>>

-----------------------------------------------------------------------------
(* The set *)

\* Subtrees of l and r nodes can have the same black height.
Balanced(l, r) ==
    \E b \in 0..3 : \A n \in {l, r} : 2^b - 1 <= n /\ n <= 2 * 4^b - 1

\* Where two searches in the same tree of elements lo..hi may end: each goes left
\* at a root where its condition holds.
RECURSIVE Searches(_, _, _, _)
Searches(p, q, lo, hi) ==
    IF lo > hi THEN {<<lo, lo>>}
    ELSE UNION {LET P == IF p[r] THEN Searches(p, q, lo, r - 1) ELSE Searches(p, q, r + 1, hi)
                    Q == IF q[r] THEN Searches(p, q, lo, r - 1) ELSE Searches(p, q, r + 1, hi)
                IN  IF p[r] = q[r] THEN P ELSE {<<x[1], y[2]>> : x \in P, y \in Q}
                : r \in {n \in lo..hi : Balanced(n - lo, hi - n)}}

SetUpperBound(s, x) == [n \in 1..Len(s) |-> IsSeqLowerThan(x, s[n])]

SetLowerBound(s, x) == [n \in 1..Len(s) |-> ~IsSeqLowerThan(s[n], x)]

-----------------------------------------------------------------------------
(* The operations, on the state m of a SeqManager *)

Sync(m, input) ==
    [m EXCEPT !.base = Mod(m.maxOutput - input), !.maxInput = input, !.dropped = <<>>]

\* The states Drop() may end in.
Drops(m, input) ==
    IF IsSeqHigherThan(input, m.maxInput) /\ ~Contains(m.dropped, input)
    THEN LET p == SetUpperBound(m.dropped, input)
         IN  {[m EXCEPT !.dropped = InsertAt(@, it[1], input)] :
                it \in Searches(p, p, 1, Len(m.dropped))}
    ELSE {m}

\* Mutant: those of a previous cycle are not counted.
DroppedCount_Lower(m, input) ==
    Len(SelectSeq(m.dropped, LAMBDA v : IsSeqLowerThan(v, input)))

\* Dropped values that count for an input: lower ones and those of a previous cycle.
DroppedCount(m, input) ==
    Len(SelectSeq(m.dropped, LAMBDA v :
            \/ IsSeqLowerThan(v, input)
            \/ v > input /\ v - input > MaxValue \div 3
            \/ v < input /\ input - v > MaxValue \div 3))

Output(m, input) == Mod(input + Mod(m.base - DroppedCount(m, input)))

Threshold(m) == Mod(m.maxInput + MaxValue \div 3)

\* ClearDropped(), with the ends it1 and it2 of its two searches: erases from it1
\* to it2, and at least the first.
Erase(m, it1, it2) ==
    LET n == IF it2 <= it1 THEN 1 ELSE it2 - it1
    IN  IF it1 > Len(m.dropped) THEN m
        ELSE [m EXCEPT !.dropped = SubSeq(@, 1, it1 - 1) \o SubSeq(@, it1 + n, Len(@)),
                       !.base = Mod(@ - n)]

Clears(m) ==
    {Erase(m, it[1], it[2]) : it \in Searches(SetUpperBound(m.dropped, m.maxInput),
                                              SetLowerBound(m.dropped, Threshold(m)),
                                              1, Len(m.dropped))}

\* Input() up to ClearDropped(), for an input that was not dropped.
Advance(m, input) ==
    LET output == Output(m, input)
    IN  [m EXCEPT
           !.started = TRUE,
           !.maxInput = IF ~m.started \/ IsSeqHigherThan(input, @) THEN input ELSE @,
           !.maxOutput = IF ~m.started \/ IsSeqHigherThan(output, @) THEN output ELSE @]

Inputs(m, input) == Clears(Advance(m, input))

-----------------------------------------------------------------------------
(* The Consumer *)

Window == MaxValue \div 3

Behind(i, j, n) == Distance(i, j) <= n

SeqInit ==
    /\ mgr = [started |-> FALSE, base |-> 0, maxInput |-> 0, maxOutput |-> 0,
              dropped |-> <<>>]
    /\ head = 0 /\ top = 0
    /\ given = (0 :> 0)
    /\ skipped = {}

\* What is remembered of the past, once the newest packets are h and t.
Remember(g, s, h, t) ==
    /\ head' = h /\ top' = t
    /\ given' = [i \in {j \in DOMAIN g : j = t \/ Behind(j, h, Window)} |-> g[i]]
    /\ skipped' = {i \in s : Behind(i, h, Window) \/ Behind(i, h, Distance(t, h))}

InTime(i) == i # top /\ Distance(top, i) <= Step

NewerPacket(i) == InTime(i) /\ Distance(top, i) > Distance(top, head)

\* A late or repeated packet: "wrapped" if the numbers wrapped since, "overtaken" if
\* a dropped packet is the newest.
LatePacket(i) ==
    /\ Behind(i, head, Window)
    /\ i > head => "wrapped" \in Late
    /\ head # top => "overtaken" \in Late

\* A packet that is not dropped, sent to the Consumer's endpoint.
SendPacket(i) ==
    /\ mgr.started
    /\ i \notin skipped /\ ~Contains(mgr.dropped, i)
    /\ NewerPacket(i) \/ LatePacket(i)
    /\ mgr' \in Inputs(mgr, i)
    /\ Remember((i :> Output(mgr, i)) @@ given, skipped,
                IF NewerPacket(i) THEN i ELSE head, IF InTime(i) THEN i ELSE top)

\* The first packet, and the first after a pause or a change of layers or stream.
SyncPacket(i, gap) ==
    LET m == Sync(mgr, Mod(i - gap))
    IN  /\ mgr' \in Inputs(m, i)
        /\ head' = i /\ top' = i
        /\ given' = (i :> Output(m, i)) @@ (Mod(i - gap) :> given[top])
        /\ skipped' = {}

\* A packet the codec leaves out, new or late.
DropPacket(i) ==
    /\ mgr.started
    /\ i \notin DOMAIN given
    /\ NewerPacket(i) \/ Behind(i, head, Window)
    /\ Distance(top, i) # Step
    /\ \A n \in 1..Len(mgr.dropped) :
          Distance(mgr.dropped[n], i) \notin 1..(DropSpacing - 1)
    /\ mgr' \in Drops(mgr, i)
    /\ Remember(given, IF InTime(i) THEN skipped \cup {i} ELSE skipped,
                IF NewerPacket(i) THEN i ELSE head, top)

SeqNext ==
    \/ \E i \in Numbers : SendPacket(i) \/ DropPacket(i)
    \/ \E i \in SyncPoints, gap \in SyncGaps : SyncPacket(i, gap)

SeqSpec == SeqInit /\ [][SeqNext]_seqVars
-----------------------------------------------------------------------------
\* The fields of SeqManager are numbers of its range, and `dropped' holds none twice.
SeqTypeOK ==
    /\ mgr.started \in BOOLEAN /\ {mgr.base, mgr.maxInput, mgr.maxOutput} \subseteq Numbers
    /\ ToSet(mgr.dropped) \subseteq Numbers
    /\ Len(mgr.dropped) = Cardinality(ToSet(mgr.dropped))
    /\ {head, top} \subseteq Numbers /\ top \in DOMAIN given
    /\ skipped \subseteq Numbers \ DOMAIN given

\* What the receiver sees: recent packets are as far apart as they came in, less
\* what was dropped in between.  So a packet that comes again gets the output it
\* had, no output is given twice, and only lost packets leave a hole, across
\* wraps of the numbers, syncs and late packets.
OutputsExact ==
    \A i, j \in DOMAIN given :
        LET gap == Distance(i, j) IN
        gap <= Distance(i, top) /\ Distance(i, top) <= Window =>
            Distance(given[i], given[j]) = gap - Cardinality({k \in skipped :
                                                0 < Distance(i, k) /\ Distance(i, k) < gap})

\* maxOutput, which the next sync continues from, is the output of the newest packet.
MaximaExact == mgr.started => mgr.maxOutput = given[top] /\ mgr.maxInput = top

\* A packet that was dropped in time is not forgotten while late packets from
\* before it may come, which must not count it.
RecentDropsKept == skipped \subseteq ToSet(mgr.dropped)
=============================================================================
