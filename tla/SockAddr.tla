------------------------------ MODULE SockAddr ------------------------------
(***************************************************************************)
(* parse_addr: what the hooks make of a sockaddr that a guest passes.      *)
(*                                                                         *)
(* A sockaddr is its length, its family and the bytes behind the family.   *)
(* parse_addr copies it over a variable that is not initialised: what it   *)
(* reads further on is stale, a sequence of whatever the stack held.       *)
(*                                                                         *)
(* An operator named Fault... is a variant, with a mistake in it, of the   *)
(* operator that follows; the runs of the project detect each of them.     *)
(***************************************************************************)
EXTENDS Integers, Sequences

CONSTANTS
  StorageSize,   \* sizeof(sockaddr_storage)
  BadAddr        \* the result is an error

ASSUME StorageSizeAssumption == StorageSize \in Nat

\* Byte j behind the family, counted from 0, of the variable and beyond.
Behind(name, stale, j) == (name.bytes \o stale)[j + 1]

\* AF_INET: two bytes of port and four of address, whatever the length.
InetAddr(name, stale) == <<"inet", [k \in 1..6 |-> Behind(name, stale, k - 1)]>>

\* AF_UNIX: the loop counts from the offset of sun_path, 2, and indexes
\* sun_path with it: two characters are left out, and two bytes behind the
\* sockaddr are looked at.  Without a null among them the result is an error.
\* Mistake: the path ends where the sockaddr does.
Looked(name) == 2..(name.len - 1)
Ends(name, stale) == {i \in Looked(name) : Behind(name, stale, i) = 0}
Path(name, stale, end) == <<"unix", [k \in 1..(end - 2) |-> Behind(name, stale, k + 1)]>>
FaultReadsOn(name, stale) == Path(name, stale, name.len)
UnixAddr(name, stale) ==
  IF Ends(name, stale) # {}
  THEN Path(name, stale,
            CHOOSE i \in Ends(name, stale) : \A j \in Ends(name, stale) : i <= j)
  ELSE IF Looked(name) = {} THEN Path(name, stale, 2) ELSE BadAddr

ParseAddr(name, stale) ==
  IF name.len \notin 2..StorageSize THEN BadAddr
  ELSE IF name.family = "inet" THEN InetAddr(name, stale)
  ELSE IF name.family = "unix" THEN UnixAddr(name, stale)
  ELSE BadAddr

-----------------------------------------------------------------------------
\* A path with its terminating null, of two characters or more.
ProperPath(bytes) ==
  \E i \in DOMAIN bytes : i > 2 /\ bytes[i] = 0 /\ \A j \in 1..(i - 1) : bytes[j] # 0

Proper(name) ==
  /\ name.len = Len(name.bytes) + 2 /\ name.len <= StorageSize
  /\ \/ name.family = "inet" /\ Len(name.bytes) >= 6
     \/ name.family = "unix" /\ ProperPath(name.bytes)

\* The same address and port, or paths of the same length that differ in the
\* first two characters at most.
SameName(m, n) ==
  /\ m.family = n.family
  /\ IF m.family = "inet"
     THEN \A i \in 1..6 : m.bytes[i] = n.bytes[i]
     ELSE \E e \in DOMAIN m.bytes \cap DOMAIN n.bytes :
            /\ e > 2 /\ m.bytes[e] = 0 /\ n.bytes[e] = 0
            /\ \A i \in 1..(e - 1) : m.bytes[i] # 0 /\ n.bytes[i] # 0
            /\ \A i \in 3..(e - 1) : m.bytes[i] = n.bytes[i]
=============================================================================
