------------------------------ MODULE FileOps -------------------------------
(***************************************************************************)
(* The contents of a simulated file (disk::disk_file), a sequence of       *)
(* bytes.  Positions count from 0, as in the code, and are kept in a       *)
(* size_t, that is, modulo 2^64: here modulo Modulus.                      *)
(***************************************************************************)
EXTENDS Integers, Sequences

CONSTANTS
  Bytes,      \* values of a byte, 0 among them
  MaxFile,    \* max_file_size
  Modulus,    \* 2^64
  MaxLen      \* bound: length of one write or read

ASSUME BytesAssumption == Bytes \subseteq Nat /\ 0 \in Bytes
ASSUME SizesAssumption == MaxFile \in Nat \ {0} /\ Modulus \in Nat /\ MaxFile < Modulus
ASSUME MaxLenAssumption == MaxLen \in Nat

\* What a call writes, and what it returns.
Data == UNION {[1..n -> Bytes] : n \in 0..MaxLen}
Returned(n, bytes) == [ok |-> TRUE, n |-> n, bytes |-> bytes]
Einval == [ok |-> FALSE, n |-> 0, bytes |-> <<>>]

\* disk_file::write accepts a position below max_file_size.  Mistake: also
\* that position.
FaultLastPosition(pos) == pos <= MaxFile
CanWrite(pos) == pos < MaxFile

\* It extends the buffer, with zeros, up to the end of the write if need be.
WriteAt(buffer, pos, bytes) ==
  [i \in 1..(IF pos + Len(bytes) > Len(buffer) THEN pos + Len(bytes) ELSE Len(buffer)) |->
     CASE i > pos /\ i <= pos + Len(bytes) -> bytes[i - pos]
       [] ~(i > pos /\ i <= pos + Len(bytes)) /\ i <= Len(buffer) -> buffer[i]
       [] OTHER -> 0]

\* disk_file::read refuses a position at or past the end.
CanRead(buffer, pos) == pos < Len(buffer)

\* It reads n bytes, or those that are left.
ReadAt(buffer, pos, n) ==
  SubSeq(buffer, pos + 1, IF pos + n < Len(buffer) THEN pos + n ELSE Len(buffer))
=============================================================================
