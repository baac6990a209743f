-------------------------------- MODULE MCDisk -------------------------------
(* Disk with bounds for TLC. *)
EXTENDS Disk, TLC

MCSymmetry == Permutations(Openers)

\* Bound: several open files write zeros only, and read no bytes.  What is claimed
\* of them is when their writes come to the file, whatever these hold and
\* whatever is read in between.
MCZeros ==
  \/ Alone
  \/ \A o \in Openers :
       /\ \A req \in Range(backlog[o]) \cup {op[o]} : Range(req.bytes) \subseteq {0}
       /\ op[o].n = 0
=============================================================================
