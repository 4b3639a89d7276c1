---------------------------- MODULE MCSpanTracker ----------------------------
(* Constants for model-checking SpanTracker. *)
EXTENDS SpanTracker, TLC

CONSTANTS r1, r2

TwoReaders == {r1, r2}
ReaderSymmetry == Permutations(TwoReaders)
=============================================================================
