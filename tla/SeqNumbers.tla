----------------------------- MODULE SeqNumbers -----------------------------
(***************************************************************************)
(* The circular comparison of sequence numbers, of SeqManager<T, N>.       *)
(***************************************************************************)
EXTENDS Integers

CONSTANT MaxValue   \* 2^N - 1

Numbers == 0..MaxValue

Mod(n) == n % (MaxValue + 1)

IsSeqLowerThan(lhs, rhs) ==
    \/ rhs > lhs /\ rhs - lhs <= MaxValue \div 2
    \/ lhs > rhs /\ lhs - rhs > MaxValue \div 2

IsSeqHigherThan(lhs, rhs) ==
    \/ lhs > rhs /\ lhs - rhs <= MaxValue \div 2
    \/ rhs > lhs /\ rhs - lhs > MaxValue \div 2

\* How far j is ahead of i.
Distance(i, j) == Mod(j - i)
=============================================================================
