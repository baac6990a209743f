----------------------------- MODULE MCFdTable ------------------------------
(* Instances of FdTable for TLC and the faults the runs must detect.       *)
EXTENDS FdTable

\* A guest that uses the result of a failed call.
MCNegative == {-1}

\* A guest that makes up a simulated descriptor: (1 << 30) | 1.
MCMadeUp == {1}
=============================================================================
