----------------------------- MODULE NetFaults ------------------------------
(***************************************************************************)
(* The random choices of net_fault_options.  A value v stands for what     *)
(* rng.next() returns.  The operators are for the options of a sensible    *)
(* configuration, with min_latency at most max_latency; parse_config       *)
(* accepts others, for which the width below is zero (a division by zero)  *)
(* or wraps around.                                                        *)
(***************************************************************************)
EXTENDS Integers

CONSTANTS
  MinLatency,   \* min_latency
  MaxLatency    \* max_latency

ASSUME LatencyAssumption ==
  MinLatency \in Nat /\ MaxLatency \in Nat /\ MinLatency <= MaxLatency

\* random::gen_range: a value of the half-open interval [first, last).
SampleUniform(v, first, last) == first + (v % (last - first))

\* Mistake: the lower bound left out of the width.
FaultWidth(v) == MinLatency + (v % (MaxLatency + 1))

\* net_fault_options::latency.
Latency(v) == SampleUniform(v, MinLatency, MaxLatency + 1)
=============================================================================
