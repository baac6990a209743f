------------------------------ MODULE FdTable -------------------------------
(***************************************************************************)
(* One replica's file descriptor table (sim::file_descriptor_table) under  *)
(* the system calls of the guest that uses it: socket() inserts, close()   *)
(* closes, and read, write, sendto, recvfrom, connect and bind look a      *)
(* descriptor up.  The guest's calls reach the table one at a time: a      *)
(* replica has one tracer thread.                                          *)
(*                                                                         *)
(* The guest passes descriptors it was once handed, closed ones included,  *)
(* and those of WildFds: numbers that it was never handed but that pass    *)
(* is_simulated, like the -1 of a failed call that it did not check.       *)
(***************************************************************************)
EXTENDS FdTableOps

CONSTANTS
  WildFds,     \* descriptors the guest uses without having been handed them
  MaxObjects   \* bound: sockets the guest creates

ASSUME WildFdsAssumption == WildFds \in SUBSET Int /\ IsFiniteSet(WildFds)
ASSUME MaxObjectsAssumption == MaxObjects \in Nat
ASSUME NoObjectAssumption == NoObject \notin Nat

VARIABLES
  table,     \* table_
  unused,    \* unused_
  created,   \* objects are numbered 1, 2, ... in order of creation
  open,      \* the guest's view: object it opened and did not close |-> fd
  handed     \* descriptors socket() has returned so far

vars == <<table, unused, created, open, handed>>

Init ==
  /\ table = <<>>
  /\ unused = <<>>
  /\ created = 0
  /\ open = <<>>
  /\ handed = {}

-----------------------------------------------------------------------------
\* sys_socket, when the table takes the new socket.
Socket ==
  LET fd == InsertFd(table, unused)
      obj == created + 1
  IN /\ created < MaxObjects
     /\ ~IsFull(table, unused)
     /\ table' = AfterInsertTable(table, unused, obj)
     /\ unused' = AfterInsertUnused(unused)
     /\ created' = obj
     /\ open' = Put(open, obj, fd)
     /\ handed' = handed \cup {fd}

\* sys_socket, when insert returns -1: the socket made is destroyed, EMFILE.
SocketEmfile ==
  /\ created < MaxObjects
  /\ IsFull(table, unused)
  /\ created' = created + 1
  /\ UNCHANGED <<table, unused, open, handed>>

\* sys_close of a simulated descriptor that has an object.
Close(fd) ==
  /\ CanClose(table, fd)
  /\ table' = AfterCloseTable(table, fd)
  /\ unused' = AfterCloseUnused(unused, fd)
  /\ open' = Restrict(open, {obj \in DOMAIN open : open[obj] # fd})
  /\ UNCHANGED <<created, handed>>

\* sys_close of any other simulated descriptor: EBADFD.
CloseEbadfd(fd) ==
  /\ ~CanClose(table, fd)
  /\ UNCHANGED vars

\* The look-up that read, write, sendto, recvfrom, connect and bind start with.
Get(fd) ==
  /\ table' = AfterGet(table, fd)
  /\ UNCHANGED <<unused, created, open, handed>>

Next ==
  \/ Socket
  \/ SocketEmfile
  \/ \E fd \in handed \cup WildFds :
       \/ Close(fd)
       \/ CloseEbadfd(fd)
       \/ Get(fd)

Spec == Init /\ [][Next]_vars

-----------------------------------------------------------------------------
\* Values stay in range: entries name created objects, unused_ holds handed
\* out descriptors (the state of file_descriptor_table).
TypeOK ==
  /\ DOMAIN table \in SUBSET (handed \cup WildFds)
  /\ IsFiniteSet(DOMAIN table)
  /\ \A fd \in DOMAIN table : table[fd] \in {NoObject} \cup 1..created
  /\ LiveFds(table) \subseteq handed
  /\ unused \in Seq(handed)
  /\ created \in 0..MaxObjects
  /\ DOMAIN open \in SUBSET (1..created)
  /\ \A obj \in DOMAIN open : open[obj] \in handed
  /\ handed \in SUBSET Nat
  /\ IsFiniteSet(handed)

\* The numbers the table knows: those with an entry and those awaiting reuse.
Known == DOMAIN table \cup Range(unused)

\* Why the number of entries is a free number once unused_ is empty: every
\* descriptor handed out is still known and lies below the count of the known
\* ones; a number awaiting reuse is listed once and has no object; a null
\* entry stands for such a number or for a wild one.
NumbersAccountedFor ==
  /\ handed \subseteq Known
  /\ \A fd \in handed : fd < Cardinality(Known)
  /\ \A i \in DOMAIN unused : Slot(table, unused[i]) = NoObject
  /\ \A i, j \in DOMAIN unused : unused[i] = unused[j] => i = j
  /\ \A fd \in DOMAIN table :
       table[fd] = NoObject => fd \in Range(unused) \cup WildFds

\* insert's assert(!slot): the entry that the next insert would fill is empty.
InsertsIntoEmptySlot ==
  ~IsFull(table, unused) => Slot(table, InsertFd(table, unused)) = NoObject

\* A descriptor keeps naming the object it was handed out for until the guest
\* closes it, whatever other descriptors the guest opens, closes and misuses
\* meanwhile: no later insert replaces a live entry and no close of another
\* number loses it.
DescriptorsStable == \A obj \in DOMAIN open : Slot(table, open[obj]) = obj

\* A socket whose descriptor the guest closed leaves no entry behind: the live
\* entries are exactly the descriptors the guest has open.
NothingLeaks == LiveFds(table) = {open[obj] : obj \in DOMAIN open}

\* EMFILE means what it says, up to one entry per wild descriptor: the null
\* entries that get() adds for closed descriptors never use up the capacity.
EmfileMeansFull ==
  IsFull(table, unused) =>
    Cardinality(LiveFds(table)) + Cardinality(WildFds) >= Capacity
=============================================================================
