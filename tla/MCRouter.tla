------------------------------ MODULE MCRouter ------------------------------
(* Small instances of Router for TLC. *)
EXTENDS Router, TLC

\* Transports are interchangeable, and so are Consumers.
Symmetry == Permutations(Transports) \cup Permutations(Consumers)
=============================================================================
