--------------------------- MODULE MCDatagramPipe ---------------------------
(* Instances of DatagramPipe for TLC.                                      *)
EXTENDS DatagramPipe

\* Every residue that a latency can come from, and one value past them.
MCDraws == 0..(MaxLatency - MinLatency + 1)
=============================================================================
