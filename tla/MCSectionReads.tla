--------------------------- MODULE MCSectionReads ---------------------------
(* Constants for model-checking SectionReads. *)
EXTENDS SectionReads, TLC

CONSTANTS c1, c2, pv, configuration, r1, r2

TwoClients  == {c1, c2}
TwoSections == {pv, configuration}
Cached      == {configuration}
Reconfigured == {pv}
TwoReaders  == {r1, r2}

Symmetry == Permutations(TwoClients) \cup Permutations(TwoReaders)
=============================================================================
