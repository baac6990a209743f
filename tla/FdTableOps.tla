----------------------------- MODULE FdTableOps -----------------------------
(***************************************************************************)
(* The three operations of sim::file_descriptor_table as operators on the  *)
(* table's two members:                                                    *)
(*                                                                         *)
(*   table   table_, an unordered_map from file descriptors to shared      *)
(*           pointers; an entry whose pointer is null maps to NoObject     *)
(*   unused  unused_, the stack of descriptors closed and not yet reused   *)
(*                                                                         *)
(* A simulated descriptor is an int with bit 30 set.  The descriptor       *)
(* (1 << 30) | i is written i here; a negative int whose two's complement  *)
(* has bit 30 set, such as -1, also passes is_simulated and keeps its      *)
(* (negative) value.  An int that does not pass is_simulated never reaches *)
(* a table: every hook passes such a call through to the kernel.           *)
(*                                                                         *)
(* The assertions of insert and close are not part of the operators: the   *)
(* sources compile only with NDEBUG (datagram_socket.cpp asserts about a   *)
(* constant that is defined in commented-out code), so an assertion that   *)
(* fails does not stop the program.  They are properties of FdTable.       *)
(*                                                                         *)
(* An operator named Fault... is a variant of the operator below it with a *)
(* mistake in it; the project's runs detect each of them.                  *)
(***************************************************************************)
EXTENDS Integers, Sequences, FiniteSets, Functions

CONSTANTS
  NoObject,   \* the null shared_ptr<file_descriptor>
  Capacity    \* file_descriptor_table::capacity

ASSUME CapacityAssumption == Capacity \in Nat

\* What looking fd up finds, null when there is no entry or a null one.
Slot(table, fd) == IF fd \in DOMAIN table THEN table[fd] ELSE NoObject

LiveFds(table) == {fd \in DOMAIN table : table[fd] # NoObject}

Put(table, fd, obj) ==
  [k \in DOMAIN table \cup {fd} |-> IF k = fd THEN obj ELSE table[k]]

-----------------------------------------------------------------------------
\* get(fd) reads table_[fd]; operator[] adds a null entry for a missing key.
AfterGet(table, fd) == Put(table, fd, Slot(table, fd))

\* close(fd) refuses a missing or null entry with EBADFD ...
CanClose(table, fd) == Slot(table, fd) # NoObject

\* ... and otherwise erases the entry and keeps the number for reuse.
FaultNotErased(table, fd) == table
AfterCloseTable(table, fd) == Restrict(table, DOMAIN table \ {fd})
FaultNotKept(unused, fd) == unused
AfterCloseUnused(unused, fd) == Append(unused, fd)

\* insert(fildes) fails only with nothing to reuse and capacity entries ...
IsFull(table, unused) == unused = <<>> /\ Capacity <= Cardinality(DOMAIN table)

\* ... and otherwise takes the number closed last, else the number of entries.
FaultIgnoresUnused(table, unused) == Cardinality(DOMAIN table)
FaultOffByOne(table, unused) == Cardinality(DOMAIN table) - 1
InsertFd(table, unused) ==
  IF unused # <<>> THEN unused[Len(unused)] ELSE Cardinality(DOMAIN table)

AfterInsertTable(table, unused, obj) == Put(table, InsertFd(table, unused), obj)
FaultNotPopped(unused) == unused
AfterInsertUnused(unused) ==
  IF unused # <<>> THEN SubSeq(unused, 1, Len(unused) - 1) ELSE unused
=============================================================================
