--------------------------- MODULE MCBatteryReads ---------------------------
(* Constants for model-checking BatteryReads. *)
EXTENDS BatteryReads

CONSTANTS r1, r2

TwoReaders == {r1, r2}

\* Two numbers of channels, and a word that the reader does not believe.
MCWords == {2, 3, 9}
=============================================================================
