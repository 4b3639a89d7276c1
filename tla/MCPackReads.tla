---------------------------- MODULE MCPackReads ----------------------------
(* Constants for model-checking PackReads. *)
EXTENDS PackReads, TLC

CONSTANTS c1, c2, p1, p2, r1, r2

TwoClients == {c1, c2}
TwoPacks   == {p1, p2}
TwoReaders == {r1, r2}

Symmetry == Permutations(TwoClients) \cup Permutations(TwoPacks) \cup Permutations(TwoReaders)
=============================================================================
