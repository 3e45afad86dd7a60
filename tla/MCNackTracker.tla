--------------------------- MODULE MCNackTracker ---------------------------
(* A stream of 20 ms packets at 1 kHz on a circle of 16 numbers.            *)
EXTENDS NackTracker

MCStream == {[seq |-> n, ts |-> 20 * n] : n \in 0 .. 15}
MCRates == {1}
=============================================================================
