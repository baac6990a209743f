--------------------------- MODULE Sockets_proofs ---------------------------
(***************************************************************************)
(* Theorems about Sockets, for every set of replicas, of addresses and of  *)
(* sorts of sockets, every capacity of the tables and every bound on the   *)
(* number of sockets and datagrams.                                        *)
(*                                                                         *)
(* The first part is about one replica's table, as a value; the second has *)
(* the invariant of all replicas, the network and the hooks that are       *)
(* running; the third is about parse_addr.                                 *)
(***************************************************************************)
EXTENDS Sockets, FiniteSetTheorems, SequenceTheorems, TLAPS

\* One replica's table t, unused descriptors u and open sockets o, with top
\* sockets created so far: the numbers that the table knows are the first ones,
\* one that awaits reuse is listed once and has no socket, and the table and the
\* guest agree about the others.
Numbers(t, u) == DOMAIN t \cup Range(u)
TableInv(t, u, o, top) ==
  /\ u \in Seq(Nat)
  /\ Numbers(t, u) \subseteq Nat /\ IsFiniteSet(Numbers(t, u))
  /\ \A fd \in Numbers(t, u) : fd < Cardinality(Numbers(t, u))
  /\ \A i \in DOMAIN u : Slot(t, u[i]) = NoObject
  /\ \A i, j \in DOMAIN u : u[i] = u[j] => i = j
  /\ \A fd \in DOMAIN t : t[fd] = NoObject => fd \in Range(u)
  /\ DOMAIN o \subseteq 1..top
  /\ \A s \in DOMAIN o : o[s] \in DOMAIN t /\ t[o[s]] = s
  /\ \A fd \in DOMAIN t : t[fd] # NoObject => t[fd] \in DOMAIN o /\ o[t[fd]] = fd

\* Every replica's table is in order.
Tables ==
  /\ DOMAIN table = Replicas /\ DOMAIN unused = Replicas /\ DOMAIN open = Replicas
  /\ \A r \in Replicas : TableInv(table[r], unused[r], open[r], Len(sockets))

\* The types of what the replicas share, and of their calls.
SocketType ==
  [kind : {"dgram", "stream"}, af : {sort.af : sort \in Sorts}, bound : SUBSET Addrs,
   peer : SocketIds \cup {NoObject}]
Ids == 1..Len(sockets)
Types ==
  /\ sockets \in Seq(SocketType) /\ Len(sockets) <= MaxSockets
  /\ \A s \in Ids : [kind |-> sockets[s].kind, af |-> sockets[s].af] \in Sorts
  /\ destroyed \subseteq Ids
  /\ map \in [Addrs -> Ids \cup {NoObject}]
  /\ inbox \in Seq(SUBSET (Message \X (1..MaxCopies))) /\ Len(inbox) = Len(sockets)
  /\ call \in [Replicas -> [at : {"guest", "deliver", "recv"}, sock : Ids \cup {NoObject},
                            msg : SUBSET Message, fd : Nat]]
  /\ sends \in 0..MaxSends
  /\ got \subseteq Ids \X Message

\* A socket is open in one replica only.
OwnedOnce == \A r, q \in Replicas : \A s \in DOMAIN open[r] : s \in DOMAIN open[q] => r = q

\* What a hook that is running holds: a sendto its target, which has the address
\* that the datagram goes to, and a recvfrom a socket that its guest has open.
CallInv(r) ==
  /\ call[r].at = "guest" => call[r].sock = NoObject
  /\ call[r].at # "guest" => call[r].sock \in Ids /\ sockets[call[r].sock].kind = "dgram"
  /\ call[r].at = "deliver" => \A m \in call[r].msg : m.addr \in sockets[call[r].sock].bound
  /\ call[r].at = "recv" => call[r].sock \in DOMAIN open[r] /\ open[r][call[r].sock] = call[r].fd

\* A socket is destroyed when no guest has it open and no hook holds it.
Lifetime ==
  \A s \in Ids :
    s \in destroyed <=> \A r \in Replicas : s \notin DOMAIN open[r] /\ call[r].sock # s

\* The network leads to the socket that exists and was bound, and to none that
\* was not.
AddrInv ==
  \A s \in Ids, a \in Addrs :
    /\ s \notin destroyed /\ a \in sockets[s].bound => map[a] = s
    /\ map[a] = s => a \in sockets[s].bound

\* Datagrams are queued at datagram sockets that were bound to their address.
InboxInv ==
  \A s \in Ids : \A mc \in inbox[s] :
    sockets[s].kind = "dgram" /\ mc[1].addr \in sockets[s].bound

\* A connected socket and its peer are of one sort.
PeerInv ==
  \A s \in Ids :
    LET p == sockets[s].peer
    IN p # NoObject =>
         /\ p \in Ids /\ sockets[s].af = sockets[p].af
         /\ sockets[s].kind = "stream" /\ sockets[p].kind = "stream"
         /\ sockets[p].bound # {}

\* The inductive invariant: the tables, and what does not mention them.
Shared ==
  /\ Types /\ OwnedOnce /\ (\A r \in Replicas : CallInv(r))
  /\ Lifetime /\ AddrInv /\ InboxInv /\ PeerInv /\ ReceivedByBinder
Inv == Tables /\ Shared

-----------------------------------------------------------------------------
\* What looking a descriptor up finds: a socket that the guest has open as it.
LEMMA SlotOpen ==
  ASSUME NEW t, NEW u, NEW o, NEW top \in Nat, TableInv(t, u, o, top), NEW fd, Slot(t, fd) # NoObject
  PROVE  /\ Slot(t, fd) \in 1..top
         /\ Slot(t, fd) \in DOMAIN o /\ o[Slot(t, fd)] = fd
         /\ fd \in DOMAIN t /\ t[fd] = Slot(t, fd) /\ fd \in Nat
  BY DEF Slot, TableInv, Numbers

\* A socket is in a table exactly if the guest has it open.
LEMMA InTable ==
  ASSUME NEW t, NEW u, NEW o, NEW top \in Nat, TableInv(t, u, o, top), NEW s, s # NoObject
  PROVE  s \in Range(t) <=> s \in DOMAIN o
  BY DEF Range, TableInv

\* A table stays in order when a socket is created elsewhere.
LEMMA TableInvGrows ==
  ASSUME NEW t, NEW u, NEW o, NEW top \in Nat, TableInv(t, u, o, top)
  PROVE  TableInv(t, u, o, top + 1)
  <1>1. 1..top \subseteq 1..(top + 1)
    OBVIOUS
  <1> QED BY <1>1 DEF TableInv

\* A look-up (get) finds and leaves what there is: the null entry that it may
\* add is one for a number that awaits reuse.
LEMMA GetTable ==
  ASSUME NEW t, NEW u, NEW o, NEW top \in Nat, TableInv(t, u, o, top),
         NEW fd \in Numbers(t, u)
  PROVE  TableInv(AfterGet(t, fd), u, o, top)
  <1> DEFINE z == AfterGet(t, fd)
  <1>1. /\ DOMAIN z = DOMAIN t \cup {fd} /\ z[fd] = Slot(t, fd)
        /\ \A k \in DOMAIN t \ {fd} : z[k] = t[k]
    BY DEF AfterGet, Put
  <1> HIDE DEF z
  <1>2. \A k : Slot(z, k) = Slot(t, k)
    BY <1>1 DEF Slot
  <1>3. Numbers(z, u) = Numbers(t, u)
    BY <1>1 DEF Numbers
  <1>4. \A k \in DOMAIN z : z[k] = NoObject => k \in Range(u)
    BY <1>1 DEF TableInv, Numbers, Slot
  <1>5. \A s \in DOMAIN o : o[s] \in DOMAIN z /\ z[o[s]] = s
    BY <1>1 DEF TableInv, Slot
  <1>6. \A k \in DOMAIN z : z[k] # NoObject => z[k] \in DOMAIN o /\ o[z[k]] = k
    BY <1>1 DEF TableInv, Slot
  <1>7. TableInv(z, u, o, top)
    BY <1>2, <1>3, <1>4, <1>5, <1>6 DEF TableInv
  <1> QED BY <1>7 DEF z

\* A table in order, and the sockets left open in it, after close of fd.
Closed(t, u, o, top, fd, left) ==
  /\ TableInv(AfterCloseTable(t, fd), AfterCloseUnused(u, fd), left, top)
  /\ DOMAIN left = DOMAIN o \ {Slot(t, fd)}
  /\ \A s \in DOMAIN left : left[s] = o[s]

\* close of a descriptor that has a socket: its number moves from the table into
\* unused_, and the guest no longer has the socket open.
LEMMA CloseTable ==
  ASSUME NEW t, NEW u, NEW o, NEW top \in Nat, TableInv(t, u, o, top), NEW fd, CanClose(t, fd),
         NEW left, left = Restrict(o, {h \in DOMAIN o : o[h] # fd})
  PROVE  Closed(t, u, o, top, fd, left)
  <1> DEFINE z == AfterCloseTable(t, fd)
             v == AfterCloseUnused(u, fd)
             n == Len(u)
  <1>1. /\ Slot(t, fd) # NoObject /\ Slot(t, fd) \in DOMAIN o /\ o[Slot(t, fd)] = fd
        /\ fd \in DOMAIN t /\ t[fd] = Slot(t, fd) /\ fd \in Nat
    BY SlotOpen DEF CanClose
  <1>2. DOMAIN z = DOMAIN t \ {fd} /\ \A k \in DOMAIN z : z[k] = t[k]
    BY DEF AfterCloseTable, Restrict
  <1>3. DOMAIN left = {h \in DOMAIN o : o[h] # fd} /\ \A s \in DOMAIN left : left[s] = o[s]
    BY DEF Restrict
  <1>4. \A h \in DOMAIN o : o[h] = fd => h = Slot(t, fd)
    BY <1>1 DEF TableInv
  <1>5. DOMAIN left = DOMAIN o \ {Slot(t, fd)}
    BY <1>1, <1>3, <1>4
  <1>6. /\ n \in Nat /\ DOMAIN u = 1..n /\ DOMAIN v = 1..(n + 1) /\ v[n + 1] = fd /\ v \in Seq(Nat)
        /\ \A i \in 1..n : v[i] = u[i]
    BY <1>1 DEF AfterCloseUnused, TableInv
  <1> HIDE DEF z, v, n
  <1>7. 1..(n + 1) = 1..n \cup {n + 1} /\ n + 1 \notin 1..n
    BY <1>6
  <1>8. Range(v) = Range(u) \cup {fd}
    <2>1. Range(u) = {u[i] : i \in 1..n}
      BY <1>6 DEF Range
    <2>2. Range(v) = {v[i] : i \in 1..n} \cup {v[n + 1]}
      BY <1>6, <1>7 DEF Range
    <2> QED BY <1>6, <2>1, <2>2
  <1>9. Numbers(z, v) = Numbers(t, u)
    BY <1>1, <1>2, <1>8 DEF Numbers
  <1>10. \A i \in 1..n : u[i] # fd /\ Slot(t, u[i]) = NoObject
    BY <1>1, <1>6 DEF TableInv
  <1>11. \A i \in DOMAIN v : Slot(z, v[i]) = NoObject
    <2>1. Slot(z, fd) = NoObject
      BY <1>2 DEF Slot
    <2>2. \A i \in 1..n : Slot(z, v[i]) = NoObject
      BY <1>2, <1>6, <1>10 DEF Slot
    <2> QED BY <1>6, <1>7, <2>1, <2>2
  <1>12. \A i, j \in DOMAIN v : v[i] = v[j] => i = j
    <2>1. \A i, j \in 1..n : u[i] = u[j] => i = j
      BY <1>6 DEF TableInv
    <2> QED BY <1>6, <1>7, <1>10, <2>1
  <1>13. \A k \in DOMAIN z : z[k] = NoObject => k \in Range(v)
    BY <1>2, <1>8 DEF TableInv
  <1>14. \A s \in DOMAIN left : left[s] \in DOMAIN z /\ z[left[s]] = s
    BY <1>2, <1>3 DEF TableInv
  <1>15. \A k \in DOMAIN z : z[k] # NoObject => z[k] \in DOMAIN left /\ left[z[k]] = k
    BY <1>2, <1>3 DEF TableInv
  <1>16. DOMAIN left \subseteq 1..top
    BY <1>5 DEF TableInv
  <1>17. TableInv(z, v, left, top)
    <2>1. Numbers(z, v) \subseteq Nat /\ IsFiniteSet(Numbers(z, v))
          /\ \A k \in Numbers(z, v) : k < Cardinality(Numbers(z, v))
      BY <1>9 DEF TableInv
    <2> QED BY <1>6, <1>11, <1>12, <1>13, <1>14, <1>15, <1>16, <2>1 DEF TableInv
  <1> QED BY <1>3, <1>5, <1>17 DEF z, v, Closed

\* fd is a number that is free in a table with entries t and unused numbers u,
\* of which v are left.
Takes(t, u, fd, v) ==
  /\ fd \in Nat /\ Slot(t, fd) = NoObject
  /\ v \in Seq(Nat) /\ DOMAIN v \subseteq DOMAIN u /\ fd \notin Range(v)
  /\ \A i \in DOMAIN v : v[i] = u[i]
  /\ Range(u) \subseteq Range(v) \cup {fd}
  /\ DOMAIN t \cup {fd} \cup Range(v) = Numbers(t, u) \cup {fd}
  /\ IsFiniteSet(Numbers(t, u) \cup {fd})
  /\ \A k \in Numbers(t, u) \cup {fd} : k < Cardinality(Numbers(t, u) \cup {fd})

\* What insert makes of the numbers: the one that it takes is free, and the
\* first ones are still the known ones.
LEMMA InsertNumbers ==
  ASSUME NEW t, NEW u, NEW o, NEW top \in Nat, TableInv(t, u, o, top),
         NEW fd, fd = InsertFd(t, u), NEW v, v = AfterInsertUnused(u)
  PROVE  Takes(t, u, fd, v)
  <1> DEFINE K == Numbers(t, u)
  <1>0. IsFiniteSet(K) /\ Cardinality(K) \in Nat /\ K \subseteq Nat /\ u \in Seq(Nat)
        /\ \A k \in K : k < Cardinality(K)
    BY FS_CardinalityType DEF TableInv
  <1>1. CASE u = <<>>
    <2>1. v = <<>> /\ Range(u) = {} /\ DOMAIN v = {} /\ Range(v) = {} /\ DOMAIN u = {}
      BY <1>1 DEF AfterInsertUnused, Range
    <2>2. K = DOMAIN t /\ fd = Cardinality(K)
      BY <1>1, <2>1 DEF Numbers, InsertFd
    <2> HIDE DEF K
    <2>3. fd \notin K /\ fd \in Nat
      BY <1>0, <2>2
    <2>4. IsFiniteSet(K \cup {fd}) /\ Cardinality(K \cup {fd}) = Cardinality(K) + 1
      BY <1>0, <2>3, FS_AddElement
    <2>5. \A k \in K \cup {fd} : k < Cardinality(K \cup {fd})
      BY <1>0, <2>2, <2>4
    <2>6. Slot(t, fd) = NoObject
      BY <2>2, <2>3 DEF Slot
    <2>7. v \in Seq(Nat)
      BY <1>0, <1>1, <2>1
    <2> QED BY <2>1, <2>2, <2>3, <2>4, <2>5, <2>6, <2>7 DEF K, Takes
  <1>2. CASE u # <<>>
    <2> DEFINE n == Len(u) - 1
    <2>1. fd = u[Len(u)] /\ v = SubSeq(u, 1, n)
      BY <1>2 DEF InsertFd, AfterInsertUnused
    <2>2. n \in Nat /\ Len(u) = n + 1 /\ DOMAIN u = 1..(n + 1) /\ \A i \in 1..(n + 1) : u[i] \in Nat
      BY <1>0, <1>2
    <2> HIDE DEF n
    <2>3. v \in Seq(Nat) /\ DOMAIN v = 1..n /\ \A i \in 1..n : v[i] = u[i]
      <3>1. n \in Int /\ \A i \in 1..n : u[i] \in Nat /\ 1 + i - 1 = i
        BY <2>2
      <3>2. /\ SubSeq(u, 1, n) \in Seq(Nat)
            /\ Len(SubSeq(u, 1, n)) = IF 1 <= n THEN n - 1 + 1 ELSE 0
            /\ \A i \in 1..(n - 1 + 1) : SubSeq(u, 1, n)[i] = u[1 + i - 1]
        BY <3>1, SubSeqProperties
      <3>3. Len(v) = n /\ n - 1 + 1 = n
        BY <2>1, <2>2, <3>2
      <3> QED BY <2>1, <3>1, <3>2, <3>3
    <2>4. 1..(n + 1) = 1..n \cup {n + 1} /\ n + 1 \notin 1..n /\ 1..n \subseteq 1..(n + 1)
      BY <2>2
    <2>5. fd = u[n + 1] /\ fd \in Nat /\ Slot(t, fd) = NoObject
      <3>1. n + 1 \in DOMAIN u
        BY <2>2, <2>4
      <3> QED BY <2>1, <2>2, <3>1 DEF TableInv
    <2>6. Range(u) = Range(v) \cup {fd}
      <3>1. Range(u) = {u[i] : i \in 1..n} \cup {u[n + 1]}
        BY <2>2, <2>4 DEF Range
      <3>2. Range(v) = {u[i] : i \in 1..n}
        BY <2>3 DEF Range
      <3> QED BY <2>5, <3>1, <3>2
    <2>7. fd \notin Range(v)
      <3>1. \A i \in 1..n : u[i] # u[n + 1]
        BY <2>2, <2>4 DEF TableInv
      <3> QED BY <2>3, <2>5, <3>1 DEF Range
    <2>8. fd \in K /\ K \cup {fd} = K /\ DOMAIN t \cup {fd} \cup Range(v) = K
      BY <2>6 DEF Numbers
    <2> HIDE DEF K
    <2>9. IsFiniteSet(K \cup {fd}) /\ \A k \in K \cup {fd} : k < Cardinality(K \cup {fd})
      BY <1>0, <2>8
    <2>10. /\ DOMAIN v \subseteq DOMAIN u /\ \A i \in DOMAIN v : v[i] = u[i]
           /\ Range(u) \subseteq Range(v) \cup {fd}
      BY <2>2, <2>3, <2>4, <2>6
    <2>11. DOMAIN t \cup {fd} \cup Range(v) = K \cup {fd}
      BY <2>8
    <2> QED BY <2>3, <2>5, <2>7, <2>9, <2>10, <2>11 DEF K, Takes
  <1> QED BY <1>1, <1>2

\* insert of a new socket: it takes the place of no other.
LEMMA InsertTable ==
  ASSUME NEW t, NEW u, NEW o, NEW top \in Nat, TableInv(t, u, o, top),
         NEW s, s = top + 1, NEW fd, fd = InsertFd(t, u)
  PROVE  TableInv(AfterInsertTable(t, u, s), AfterInsertUnused(u), Put(o, s, fd), top + 1)
  <1> DEFINE z == AfterInsertTable(t, u, s)
             v == AfterInsertUnused(u)
             w == Put(o, s, fd)
  <1>1. /\ fd \in Nat /\ Slot(t, fd) = NoObject
        /\ v \in Seq(Nat) /\ DOMAIN v \subseteq DOMAIN u /\ fd \notin Range(v)
        /\ \A i \in DOMAIN v : v[i] = u[i]
        /\ Range(u) \subseteq Range(v) \cup {fd}
        /\ DOMAIN t \cup {fd} \cup Range(v) = Numbers(t, u) \cup {fd}
        /\ IsFiniteSet(Numbers(t, u) \cup {fd})
        /\ \A k \in Numbers(t, u) \cup {fd} : k < Cardinality(Numbers(t, u) \cup {fd})
    <2>1. v = AfterInsertUnused(u)
      OBVIOUS
    <2> HIDE DEF z, w, v
    <2>2. Takes(t, u, fd, v)
      BY <2>1, InsertNumbers
    <2> QED BY <2>2 DEF Takes
  <1>2. /\ DOMAIN z = DOMAIN t \cup {fd} /\ z[fd] = s
        /\ \A k \in DOMAIN t \ {fd} : z[k] = t[k]
    BY DEF AfterInsertTable, Put
  <1>3. DOMAIN w = DOMAIN o \cup {s} /\ w[s] = fd /\ \A k \in DOMAIN o \ {s} : w[k] = o[k]
    BY DEF Put
  <1>4. s \notin DOMAIN o /\ s # NoObject /\ s \in 1..(top + 1)
    <2>1. s \in Nat /\ s \notin 1..top /\ s \in 1..(top + 1)
      OBVIOUS
    <2> QED BY <2>1, NoSocketAssumption DEF TableInv
  <1> HIDE DEF z, v, w
  <1>5. Numbers(z, v) = Numbers(t, u) \cup {fd}
    BY <1>1, <1>2 DEF Numbers
  <1>6. \A i \in DOMAIN v : Slot(z, v[i]) = NoObject
    <2>1. \A i \in DOMAIN v : v[i] # fd
      BY <1>1 DEF Range
    <2>2. \A i \in DOMAIN v : Slot(t, v[i]) = NoObject
      BY <1>1 DEF TableInv
    <2> QED BY <1>2, <2>1, <2>2 DEF Slot
  <1>7. \A i, j \in DOMAIN v : v[i] = v[j] => i = j
    BY <1>1 DEF TableInv
  <1>8. \A k \in DOMAIN z : z[k] = NoObject => k \in Range(v)
    BY <1>1, <1>2, <1>4 DEF TableInv
  <1>9. DOMAIN w \subseteq 1..(top + 1)
    <2>1. 1..top \subseteq 1..(top + 1)
      OBVIOUS
    <2> QED BY <1>3, <1>4, <2>1 DEF TableInv
  <1>10. \A h \in DOMAIN w : w[h] \in DOMAIN z /\ z[w[h]] = h
    <2>1. ASSUME NEW h \in DOMAIN o PROVE o[h] \in DOMAIN t /\ o[h] # fd /\ t[o[h]] = h
      <3>1. o[h] \in DOMAIN t /\ t[o[h]] = h /\ h # NoObject
        BY NoSocketAssumption DEF TableInv
      <3> QED BY <1>1, <3>1 DEF Slot
    <2> QED BY <1>2, <1>3, <1>4, <2>1
  <1>11. \A k \in DOMAIN z : z[k] # NoObject => z[k] \in DOMAIN w /\ w[z[k]] = k
    <2>1. ASSUME NEW k \in DOMAIN t, t[k] # NoObject PROVE t[k] \in DOMAIN o /\ t[k] # s /\ o[t[k]] = k
      BY <1>4, <2>1 DEF TableInv
    <2> QED BY <1>2, <1>3, <2>1
  <1>12. Numbers(z, v) \subseteq Nat /\ IsFiniteSet(Numbers(z, v))
         /\ \A k \in Numbers(z, v) : k < Cardinality(Numbers(z, v))
    <2>1. Numbers(t, u) \subseteq Nat
      BY DEF TableInv
    <2> QED BY <1>1, <1>5, <2>1
  <1>13. TableInv(z, v, w, top + 1)
    BY <1>1, <1>6, <1>7, <1>8, <1>9, <1>10, <1>11, <1>12 DEF TableInv
  <1> QED BY <1>13 DEF z, v, w

-----------------------------------------------------------------------------
\* The invariant holds at first.
LEMMA InitInv == Init => Inv
  <1> SUFFICES ASSUME Init PROVE Inv
    OBVIOUS
  <1>1. sockets = <<>> /\ Len(sockets) = 0 /\ Ids = {} /\ inbox = <<>> /\ Len(inbox) = 0
    BY DEF Init, Ids
  <1>2. ASSUME NEW r \in Replicas PROVE TableInv(table[r], unused[r], open[r], Len(sockets))
    <2>1. table[r] = <<>> /\ unused[r] = <<>> /\ open[r] = <<>> /\ DOMAIN <<>> = {}
      BY <1>2 DEF Init
    <2>2. Range(unused[r]) = {} /\ Numbers(table[r], unused[r]) = {}
      BY <2>1 DEF Range, Numbers
    <2>3. IsFiniteSet({})
      BY FS_EmptySet
    <2>4. unused[r] \in Seq(Nat)
      BY <2>1
    <2> QED BY <2>1, <2>2, <2>3, <2>4 DEF TableInv
  <1>3. Tables
    BY <1>2 DEF Init, Tables
  <1>4. Types
    <2>1. sockets \in Seq(SocketType) /\ Len(sockets) <= MaxSockets
      BY <1>1, BoundsAssumption
    <2>2. inbox \in Seq(SUBSET (Message \X (1..MaxCopies))) /\ Len(inbox) = Len(sockets)
      BY <1>1
    <2>3. map \in [Addrs -> Ids \cup {NoObject}] /\ destroyed \subseteq Ids /\ got \subseteq Ids \X Message
      BY DEF Init
    <2>4. call \in [Replicas -> [at : {"guest", "deliver", "recv"}, sock : Ids \cup {NoObject},
                                 msg : SUBSET Message, fd : Nat]]
      BY DEF Init, NotInCall
    <2>5. sends \in 0..MaxSends
      BY BoundsAssumption DEF Init
    <2> QED BY <1>1, <2>1, <2>2, <2>3, <2>4, <2>5 DEF Types
  <1>5. OwnedOnce /\ \A r \in Replicas : CallInv(r)
    BY DEF Init, OwnedOnce, CallInv, NotInCall
  <1>6. Lifetime /\ AddrInv /\ InboxInv /\ PeerInv
    BY <1>1 DEF Lifetime, AddrInv, InboxInv, PeerInv
  <1>7. ReceivedByBinder
    BY DEF Init, ReceivedByBinder
  <1> QED BY <1>3, <1>4, <1>5, <1>6, <1>7 DEF Inv, Shared

\* A hook that only looks a descriptor up keeps the tables in order.
LEMMA LookUpTables ==
  ASSUME Inv, NEW r \in Replicas, NEW fd \in Handed(r), LooksUp(r, fd),
         unused' = unused, open' = open, Len(sockets') = Len(sockets)
  PROVE  Tables'
  <1>1. table' = [table EXCEPT ![r] = AfterGet(table[r], fd)] /\ DOMAIN table = Replicas
    BY DEF LooksUp, Inv, Tables
  <1>2. Len(sockets) \in Nat
    BY DEF Inv, Shared, Types
  <1>3. TableInv(AfterGet(table[r], fd), unused[r], open[r], Len(sockets))
    <2>1. fd \in Numbers(table[r], unused[r]) /\ TableInv(table[r], unused[r], open[r], Len(sockets))
      BY DEF Handed, Numbers, Inv, Tables
    <2> QED BY <1>2, <2>1, GetTable
  <1>4. ASSUME NEW q \in Replicas PROVE TableInv(table'[q], unused'[q], open'[q], Len(sockets'))
    <2>1. CASE q = r
      BY <1>1, <1>3, <2>1
    <2>2. CASE q # r
      <3>1. table'[q] = table[q]
        BY <1>1, <2>2
      <3> QED BY <3>1 DEF Inv, Tables
    <2> QED BY <2>1, <2>2
  <1> QED BY <1>1, <1>4 DEF Tables, Inv

\* A hook that leaves them alone does.
LEMMA SameTables ==
  ASSUME Inv, UNCHANGED <<table, unused, open>>, Len(sockets') = Len(sockets)
  PROVE  Tables'
  BY DEF Inv, Tables

\* What does not mention the tables is not changed by a change of them.
LEMMA SharedSame ==
  ASSUME Inv, UNCHANGED <<sockets, destroyed, map, inbox, call, open, sends, got>>
  PROVE  Shared'
  <1>1. Types'
    BY DEF Inv, Shared, Types, Ids
  <1>2. OwnedOnce' /\ Lifetime' /\ AddrInv' /\ InboxInv' /\ PeerInv' /\ ReceivedByBinder'
    BY DEF Inv, Shared, OwnedOnce, Lifetime, AddrInv, InboxInv, PeerInv, ReceivedByBinder, Ids
  <1>3. ASSUME NEW r \in Replicas PROVE CallInv(r)'
    BY DEF Inv, Shared, CallInv, Ids
  <1> QED BY <1>1, <1>2, <1>3 DEF Shared

\* sys_read and sys_write.
LEMMA ReadWriteInv ==
  ASSUME Inv, NEW r \in Replicas, NEW fd \in Handed(r), ReadWrite(r, fd)
  PROVE  Inv'
  <1>1. Tables'
    BY LookUpTables DEF ReadWrite
  <1>2. Shared'
    BY SharedSame DEF ReadWrite
  <1> QED BY <1>1, <1>2 DEF Inv

\* What a descriptor stands for: a socket that exists, if any.
LEMMA SlotFacts ==
  ASSUME Inv, NEW r \in Replicas, NEW fd, Slot(table[r], fd) # NoObject
  PROVE  /\ Slot(table[r], fd) \in Ids
         /\ Slot(table[r], fd) \in DOMAIN open[r] /\ open[r][Slot(table[r], fd)] = fd
         /\ Slot(table[r], fd) \notin destroyed /\ fd \in Nat
  <1>1. TableInv(table[r], unused[r], open[r], Len(sockets)) /\ Len(sockets) \in Nat
    BY DEF Inv, Tables, Shared, Types
  <1> DEFINE s == Slot(table[r], fd)
  <1>2. s \in Ids /\ s \in DOMAIN open[r] /\ open[r][s] = fd /\ fd \in Nat
    BY <1>1, SlotOpen DEF Ids
  <1> HIDE DEF s
  <1>3. s \notin destroyed
    BY <1>2 DEF Inv, Shared, Lifetime
  <1> QED BY <1>2, <1>3 DEF s

\* What network::get returns: a socket that exists and was bound to the address.
LEMMA GetFacts ==
  ASSUME Inv, NEW a, Get(a) # NoObject
  PROVE  Get(a) \in Ids /\ Get(a) \notin destroyed /\ a \in Addrs /\ a \in sockets[Get(a)].bound
  <1>1. a \in Addrs /\ Get(a) = map[a] /\ map[a] \notin destroyed /\ map[a] # NoObject
    BY DEF Get
  <1>2. map[a] \in Ids
    BY <1>1 DEF Inv, Shared, Types
  <1> QED BY <1>1, <1>2 DEF Inv, Shared, AddrInv

\* A socket with one more address.
WithBound(so, s, a) == [so EXCEPT ![s].bound = @ \cup {a}]

\* The sockets z are so, but for one more address of s.
GainsAddress(z, so, s, a) ==
  /\ z \in Seq(SocketType) /\ Len(z) = Len(so)
  /\ \A q \in 1..Len(so) :
       /\ z[q].kind = so[q].kind /\ z[q].af = so[q].af /\ z[q].peer = so[q].peer
       /\ z[q].bound = IF q = s THEN so[q].bound \cup {a} ELSE so[q].bound

\* That is what bind does.
LEMMA BoundEffect ==
  ASSUME NEW so \in Seq(SocketType), NEW s \in 1..Len(so), NEW a \in Addrs,
         NEW z, z = WithBound(so, s, a)
  PROVE  GainsAddress(z, so, s, a)
  <1> DEFINE e == [so[s] EXCEPT !.bound = so[s].bound \cup {a}]
  <1>1. so[s] \in SocketType
    BY ElementOfSeq
  <1>2. /\ e \in SocketType /\ e.kind = so[s].kind /\ e.af = so[s].af /\ e.peer = so[s].peer
        /\ e.bound = so[s].bound \cup {a}
    BY <1>1 DEF SocketType
  <1>3. z = [so EXCEPT ![s] = e]
    BY DEF WithBound
  <1> HIDE DEF e
  <1>4. /\ z \in Seq(SocketType) /\ Len(z) = Len(so)
        /\ \A j \in 1..Len(so) : z[j] = IF j = s THEN e ELSE so[j]
    BY <1>2, <1>3, ExceptSeq
  <1> QED BY <1>2, <1>4 DEF GainsAddress

\* Setting a socket's peer.
LEMMA PeerEffect ==
  ASSUME NEW so \in Seq(SocketType), NEW s \in 1..Len(so), NEW p \in SocketIds,
         NEW z, z = [so EXCEPT ![s].peer = p]
  PROVE  /\ z \in Seq(SocketType) /\ Len(z) = Len(so)
         /\ \A q \in 1..Len(so) :
              /\ z[q].kind = so[q].kind /\ z[q].af = so[q].af /\ z[q].bound = so[q].bound
              /\ z[q].peer = IF q = s THEN p ELSE so[q].peer
  <1> DEFINE e == [so[s] EXCEPT !.peer = p]
  <1>1. so[s] \in SocketType
    BY ElementOfSeq
  <1>2. /\ e \in SocketType /\ e.kind = so[s].kind /\ e.af = so[s].af /\ e.peer = p
        /\ e.bound = so[s].bound
    BY <1>1 DEF SocketType
  <1>3. z = [so EXCEPT ![s] = e]
    OBVIOUS
  <1> HIDE DEF e
  <1>4. /\ z \in Seq(SocketType) /\ Len(z) = Len(so)
        /\ \A j \in 1..Len(so) : z[j] = IF j = s THEN e ELSE so[j]
    BY <1>2, <1>3, ExceptSeq
  <1> QED BY <1>2, <1>4

\* sys_bind: the address was nobody's that exists.
LEMMA BindInv ==
  ASSUME Inv, NEW r \in Replicas, NEW fd \in Handed(r), NEW a \in Parsed, Bind(r, fd, a)
  PROVE  Inv'
  <1> DEFINE s == Slot(table[r], fd)
  <1>0. LooksUp(r, fd) /\ UNCHANGED <<unused, destroyed, inbox, call, open, sends, got>>
    BY DEF Bind
  <1>1. CASE ~(s # NoObject /\ a \in Addrs /\ Free(a))
    <2>1. UNCHANGED <<map, sockets>>
      BY <1>1 DEF Bind
    <2>2. Tables'
      BY <1>0, <2>1, LookUpTables
    <2>3. Shared'
      BY <1>0, <2>1, SharedSame
    <2> QED BY <2>2, <2>3 DEF Inv
  <1>2. CASE s # NoObject /\ a \in Addrs /\ Free(a)
    <2>1. map' = [map EXCEPT ![a] = s] /\ sockets' = WithBound(sockets, s, a)
      BY <1>2 DEF Bind, WithBound
    <2>2. s \in Ids /\ s \in DOMAIN open[r] /\ s \notin destroyed
      BY <1>2, SlotFacts
    <2>3. a \in Addrs /\ (map[a] = NoObject \/ map[a] \in destroyed)
      BY <1>2 DEF Free, Get
    <2> HIDE DEF s
    <2>4. /\ sockets' \in Seq(SocketType) /\ Len(sockets') = Len(sockets)
          /\ \A q \in 1..Len(sockets) :
               /\ sockets'[q].kind = sockets[q].kind /\ sockets'[q].af = sockets[q].af
               /\ sockets'[q].peer = sockets[q].peer
               /\ sockets'[q].bound = IF q = s THEN sockets[q].bound \cup {a} ELSE sockets[q].bound
      <3> DEFINE z == sockets'
      <3>1. sockets \in Seq(SocketType) /\ s \in 1..Len(sockets) /\ a \in Addrs /\ z = WithBound(sockets, s, a)
        BY <2>1, <2>2, <2>3 DEF Inv, Shared, Types, Ids
      <3> HIDE DEF z
      <3>2. GainsAddress(z, sockets, s, a)
        BY <3>1, BoundEffect
      <3> QED BY <3>2 DEF z, GainsAddress
    <2>5. Ids' = Ids
      BY <2>4 DEF Ids
    <2>6. map' \in [Addrs -> Ids \cup {NoObject}] /\ map'[a] = s /\ \A b \in Addrs \ {a} : map'[b] = map[b]
      BY <2>1, <2>2, <2>3 DEF Inv, Shared, Types
    <2>7. Tables'
      BY <1>0, <2>4, LookUpTables
    <2>8. Types'
      <3>1. \A q \in Ids : [kind |-> sockets'[q].kind, af |-> sockets'[q].af] \in Sorts
        BY <2>4 DEF Inv, Shared, Types, Ids
      <3> QED BY <1>0, <2>4, <2>5, <2>6, <3>1 DEF Inv, Shared, Types
    <2>9. OwnedOnce' /\ Lifetime'
      BY <1>0, <2>5 DEF Inv, Shared, OwnedOnce, Lifetime
    <2>10. \A q \in Ids : sockets'[q].kind = sockets[q].kind /\ sockets[q].bound \subseteq sockets'[q].bound
      BY <2>4 DEF Ids
    <2>11. ASSUME NEW q \in Replicas PROVE CallInv(q)'
      BY <1>0, <2>5, <2>10 DEF Inv, Shared, CallInv
    <2>12. AddrInv'
      <3> SUFFICES ASSUME NEW h \in Ids, NEW b \in Addrs
                   PROVE  /\ h \notin destroyed /\ b \in sockets'[h].bound => map'[b] = h
                          /\ map'[b] = h => b \in sockets'[h].bound
        BY <1>0, <2>5 DEF AddrInv
      <3>1. /\ h \notin destroyed /\ b \in sockets[h].bound => map[b] = h
            /\ map[b] = h => b \in sockets[h].bound
        BY DEF Inv, Shared, AddrInv
      <3>2. h # NoObject
        BY NoSocketAssumption DEF Ids
      <3>3. sockets'[h].bound = IF h = s THEN sockets[h].bound \cup {a} ELSE sockets[h].bound
        BY <2>4 DEF Ids
      <3>4. CASE b = a
        <4>1. h # s /\ h \notin destroyed => b \notin sockets[h].bound
          BY <2>3, <3>1, <3>2, <3>4
        <4> QED BY <2>6, <3>3, <3>4, <4>1
      <3>5. CASE b # a
        BY <2>6, <3>1, <3>3, <3>5
      <3> QED BY <3>4, <3>5
    <2>13. InboxInv'
      BY <1>0, <2>5, <2>10 DEF Inv, Shared, InboxInv
    <2>14. PeerInv'
      <3> SUFFICES ASSUME NEW h \in Ids, sockets'[h].peer # NoObject
                   PROVE  LET p == sockets'[h].peer
                          IN /\ p \in Ids /\ sockets'[h].af = sockets'[p].af
                             /\ sockets'[h].kind = "stream" /\ sockets'[p].kind = "stream"
                             /\ sockets'[p].bound # {}
        BY <2>5 DEF PeerInv
      <3>1. sockets'[h].peer = sockets[h].peer /\ sockets[h].peer \in Ids
        BY <2>4 DEF Inv, Shared, PeerInv, Ids
      <3>2. \A q \in Ids : sockets'[q].kind = sockets[q].kind /\ sockets'[q].af = sockets[q].af
                           /\ (sockets[q].bound # {} => sockets'[q].bound # {})
        BY <2>4 DEF Ids
      <3> QED BY <3>1, <3>2 DEF Inv, Shared, PeerInv
    <2>15. ReceivedByBinder'
      <3>1. \A hm \in got : hm[1] \in Ids
        BY DEF Inv, Shared, Types
      <3> QED BY <1>0, <2>10, <3>1 DEF Inv, Shared, ReceivedByBinder
    <2> QED BY <2>7, <2>8, <2>9, <2>11, <2>12, <2>13, <2>14, <2>15 DEF Inv, Shared
  <1> QED BY <1>1, <1>2

\* sys_connect: the peer is one that was bound, and of the same sort.
LEMMA ConnectInv ==
  ASSUME Inv, NEW r \in Replicas, NEW fd \in Handed(r), NEW a \in Parsed, Connect(r, fd, a)
  PROVE  Inv'
  <1> DEFINE s == Slot(table[r], fd)
             p == Get(a)
  <1>0. UNCHANGED <<unused, destroyed, map, inbox, call, open, sends, got>>
    BY DEF Connect
  <1>10. ASSUME Len(sockets') = Len(sockets) PROVE Tables'
    <2>1. CASE a \in Addrs
      <3>1. LooksUp(r, fd)
        BY <2>1 DEF Connect
      <3> QED BY <1>0, <1>10, <3>1, LookUpTables
    <2>2. CASE a \notin Addrs
      <3>1. UNCHANGED table
        BY <2>2 DEF Connect
      <3> QED BY <1>0, <1>10, <3>1, SameTables
    <2> QED BY <2>1, <2>2
  <1>1. CASE ~(Is(s, "stream") /\ Is(p, "stream") /\ SameFamily(s, p))
    <2>1. sockets' = sockets
      BY <1>1 DEF Connect
    <2>2. Tables'
      BY <1>10, <2>1
    <2>3. Shared'
      BY <1>0, <2>1, SharedSame
    <2> QED BY <2>2, <2>3 DEF Inv
  <1>2. CASE Is(s, "stream") /\ Is(p, "stream") /\ SameFamily(s, p)
    <2>1. sockets' = [sockets EXCEPT ![s].peer = p]
      BY <1>2 DEF Connect
    <2>2. s \in Ids /\ sockets[s].kind = "stream" /\ sockets[s].af = sockets[p].af
      <3>1. s # NoObject /\ sockets[s].kind = "stream" /\ sockets[s].af = sockets[p].af
        BY <1>2 DEF Is, SameFamily
      <3> QED BY <3>1, SlotFacts
    <2>3. p \in Ids /\ sockets[p].kind = "stream" /\ sockets[p].bound # {}
      <3>1. p # NoObject /\ sockets[p].kind = "stream"
        BY <1>2 DEF Is
      <3> QED BY <3>1, GetFacts
    <2> HIDE DEF s, p
    <2>4. /\ sockets' \in Seq(SocketType) /\ Len(sockets') = Len(sockets)
          /\ \A q \in 1..Len(sockets) :
               /\ sockets'[q].kind = sockets[q].kind /\ sockets'[q].af = sockets[q].af
               /\ sockets'[q].bound = sockets[q].bound
               /\ sockets'[q].peer = IF q = s THEN p ELSE sockets[q].peer
      <3> DEFINE z == sockets'
      <3>1. sockets \in Seq(SocketType) /\ s \in 1..Len(sockets) /\ p \in SocketIds
        <4>1. sockets \in Seq(SocketType) /\ s \in 1..Len(sockets) /\ p \in 1..Len(sockets)
              /\ Len(sockets) <= MaxSockets /\ Len(sockets) \in Nat
          BY <2>2, <2>3 DEF Inv, Shared, Types, Ids
        <4>2. p \in 1..MaxSockets
          BY <4>1, BoundsAssumption
        <4> QED BY <4>1, <4>2 DEF SocketIds
      <3>2. z = [sockets EXCEPT ![s].peer = p]
        BY <2>1
      <3> HIDE DEF z
      <3>3. /\ z \in Seq(SocketType) /\ Len(z) = Len(sockets)
            /\ \A q \in 1..Len(sockets) :
                 /\ z[q].kind = sockets[q].kind /\ z[q].af = sockets[q].af /\ z[q].bound = sockets[q].bound
                 /\ z[q].peer = IF q = s THEN p ELSE sockets[q].peer
        BY <3>1, <3>2, PeerEffect
      <3> QED BY <3>3 DEF z
    <2>5. Ids' = Ids
      BY <2>4 DEF Ids
    <2>6. \A q \in Ids : /\ sockets'[q].kind = sockets[q].kind /\ sockets'[q].af = sockets[q].af
                         /\ sockets'[q].bound = sockets[q].bound
                         /\ sockets'[q].peer = IF q = s THEN p ELSE sockets[q].peer
      BY <2>4 DEF Ids
    <2>7. Tables'
      BY <1>10, <2>4
    <2>8. Types'
      <3>1. \A q \in Ids : [kind |-> sockets'[q].kind, af |-> sockets'[q].af] \in Sorts
        BY <2>6 DEF Inv, Shared, Types
      <3> QED BY <1>0, <2>4, <2>5, <3>1 DEF Inv, Shared, Types
    <2>9. OwnedOnce' /\ Lifetime'
      BY <1>0, <2>5 DEF Inv, Shared, OwnedOnce, Lifetime
    <2>10. ASSUME NEW q \in Replicas PROVE CallInv(q)'
      BY <1>0, <2>5, <2>6 DEF Inv, Shared, CallInv
    <2>11. AddrInv'
      BY <1>0, <2>5, <2>6 DEF Inv, Shared, AddrInv
    <2>12. InboxInv'
      BY <1>0, <2>5, <2>6 DEF Inv, Shared, InboxInv
    <2>13. PeerInv'
      <3> SUFFICES ASSUME NEW h \in Ids, sockets'[h].peer # NoObject
                   PROVE  LET k == sockets'[h].peer
                          IN /\ k \in Ids /\ sockets'[h].af = sockets'[k].af
                             /\ sockets'[h].kind = "stream" /\ sockets'[k].kind = "stream"
                             /\ sockets'[k].bound # {}
        BY <2>5 DEF PeerInv
      <3>1. CASE h = s
        BY <2>2, <2>3, <2>6, <3>1
      <3>2. CASE h # s
        <4>1. sockets'[h].peer = sockets[h].peer
          BY <2>6, <3>2
        <4> QED BY <2>6, <4>1 DEF Inv, Shared, PeerInv
      <3> QED BY <3>1, <3>2
    <2>14. ReceivedByBinder'
      <3>1. \A hm \in got : hm[1] \in Ids
        BY DEF Inv, Shared, Types
      <3> QED BY <1>0, <2>6, <3>1 DEF Inv, Shared, ReceivedByBinder
    <2> QED BY <2>7, <2>8, <2>9, <2>10, <2>11, <2>12, <2>13, <2>14 DEF Inv, Shared
  <1> QED BY <1>1, <1>2

\* What sys_socket does to the sockets, whether or not the table takes the new one.
LEMMA SocketEffect ==
  ASSUME Inv, NEW r \in Replicas, NEW sort \in Sorts, Socket(r, sort), NEW s, s = Len(sockets) + 1
  PROVE  /\ Len(sockets) \in Nat /\ s \in Nat /\ Len(sockets') = s /\ s <= MaxSockets
         /\ sockets' \in Seq(SocketType) /\ \A q \in Ids : sockets'[q] = sockets[q]
         /\ sockets'[s].peer = NoObject /\ sockets'[s].bound = {}
         /\ [kind |-> sockets'[s].kind, af |-> sockets'[s].af] \in Sorts
         /\ inbox' \in Seq(SUBSET (Message \X (1..MaxCopies))) /\ Len(inbox') = s
         /\ (\A q \in Ids : inbox'[q] = inbox[q]) /\ inbox'[s] = {}
         /\ Ids' = Ids \cup {s} /\ s \notin Ids
  <1> DEFINE e == [kind |-> sort.kind, af |-> sort.af, bound |-> {}, peer |-> NoObject]
  <1>1. Len(sockets) < MaxSockets /\ sockets' = Append(sockets, e) /\ inbox' = Append(inbox, {})
    BY DEF Socket
  <1>2. /\ sockets \in Seq(SocketType) /\ inbox \in Seq(SUBSET (Message \X (1..MaxCopies)))
        /\ Len(inbox) = Len(sockets) /\ Len(sockets) \in Nat
    BY DEF Inv, Shared, Types
  <1>3. e \in SocketType
    BY SortsAssumption DEF SocketType
  <1>4. e.peer = NoObject /\ e.bound = {} /\ e.kind = sort.kind /\ e.af = sort.af
    OBVIOUS
  <1> HIDE DEF e
  <1>5. sockets' \in Seq(SocketType) /\ Len(sockets') = s
        /\ (\A q \in 1..Len(sockets) : sockets'[q] = sockets[q]) /\ sockets'[s] = e
    BY <1>1, <1>2, <1>3, AppendProperties
  <1>6. inbox' \in Seq(SUBSET (Message \X (1..MaxCopies))) /\ Len(inbox') = s
        /\ (\A q \in 1..Len(sockets) : inbox'[q] = inbox[q]) /\ inbox'[s] = {}
    BY <1>1, <1>2, AppendProperties
  <1>7. [kind |-> sockets'[s].kind, af |-> sockets'[s].af] \in Sorts
    <2>1. sort = [kind |-> sort.kind, af |-> sort.af]
      BY SortsAssumption
    <2> QED BY <1>4, <1>5, <2>1
  <1>8. Ids' = Ids \cup {s} /\ s \notin Ids /\ s <= MaxSockets /\ s \in Nat
    <2>1. 1..s = 1..Len(sockets) \cup {s} /\ s \notin 1..Len(sockets) /\ s <= MaxSockets /\ s \in Nat
      BY <1>1, <1>2, BoundsAssumption
    <2> QED BY <1>5, <2>1 DEF Ids
  <1> QED BY <1>2, <1>4, <1>5, <1>6, <1>7, <1>8 DEF Ids

\* The tables after sys_socket.
LEMMA SocketTables ==
  ASSUME Inv, NEW r \in Replicas, NEW sort \in Sorts, Socket(r, sort)
  PROVE  /\ Tables'
         /\ \A q \in Replicas :
              \/ DOMAIN open'[q] = DOMAIN open[q]
              \/ q = r /\ DOMAIN open'[q] = DOMAIN open[q] \cup {Len(sockets) + 1}
                 /\ ~IsFull(table[r], unused[r])
         /\ ~IsFull(table[r], unused[r]) => Len(sockets) + 1 \in DOMAIN open'[r]
         /\ \A q \in Replicas : \A h \in DOMAIN open[q] : open'[q][h] = open[q][h]
  <1> DEFINE s == Len(sockets) + 1
             fd == InsertFd(table[r], unused[r])
  <1>1. Len(sockets) \in Nat /\ Len(sockets') = s
    BY SocketEffect
  <1>2. /\ DOMAIN table = Replicas /\ DOMAIN unused = Replicas /\ DOMAIN open = Replicas
        /\ \A q \in Replicas : TableInv(table[q], unused[q], open[q], Len(sockets))
    BY DEF Inv, Tables
  <1>3. \A q \in Replicas : TableInv(table[q], unused[q], open[q], s)
    BY <1>1, <1>2, TableInvGrows
  <1>4. CASE IsFull(table[r], unused[r])
    <2>1. UNCHANGED <<table, unused, open>>
      BY <1>4 DEF Socket
    <2>2. Tables'
      BY <1>1, <1>2, <1>3, <2>1 DEF Tables
    <2> QED BY <1>4, <2>1, <2>2
  <1>5. CASE ~IsFull(table[r], unused[r])
    <2>1. /\ table' = [table EXCEPT ![r] = AfterInsertTable(table[r], unused[r], s)]
          /\ unused' = [unused EXCEPT ![r] = AfterInsertUnused(unused[r])]
          /\ open' = [open EXCEPT ![r] = Put(open[r], s, fd)]
      BY <1>5 DEF Socket
    <2> HIDE DEF s, fd
    <2>2. TableInv(AfterInsertTable(table[r], unused[r], s), AfterInsertUnused(unused[r]),
                   Put(open[r], s, fd), s)
      <3>1. s = Len(sockets) + 1 /\ fd = InsertFd(table[r], unused[r])
            /\ TableInv(table[r], unused[r], open[r], Len(sockets))
        BY <1>2 DEF s, fd
      <3> QED BY <1>1, <3>1, InsertTable
    <2>3. \A q \in Replicas : q # r => table'[q] = table[q] /\ unused'[q] = unused[q] /\ open'[q] = open[q]
      BY <1>2, <2>1
    <2>4. /\ table'[r] = AfterInsertTable(table[r], unused[r], s)
          /\ unused'[r] = AfterInsertUnused(unused[r]) /\ open'[r] = Put(open[r], s, fd)
      BY <1>2, <2>1
    <2>5. ASSUME NEW q \in Replicas PROVE TableInv(table'[q], unused'[q], open'[q], Len(sockets'))
      BY <1>1, <1>3, <2>2, <2>3, <2>4
    <2>6. DOMAIN table' = Replicas /\ DOMAIN unused' = Replicas /\ DOMAIN open' = Replicas
      BY <1>2, <2>1
    <2>7. Tables'
      BY <2>5, <2>6 DEF Tables
    <2>8. DOMAIN open'[r] = DOMAIN open[r] \cup {s} /\ \A h \in DOMAIN open[r] : h # s => open'[r][h] = open[r][h]
      BY <2>4 DEF Put
    <2>9. s \notin DOMAIN open[r]
      <3>1. s \notin 1..Len(sockets)
        BY <1>1 DEF s
      <3> QED BY <1>2, <3>1 DEF TableInv
    <2> QED BY <1>5, <2>3, <2>7, <2>8, <2>9 DEF s
  <1> QED BY <1>4, <1>5

\* sys_socket.
LEMMA SocketInv ==
  ASSUME Inv, NEW r \in Replicas, NEW sort \in Sorts, Socket(r, sort)
  PROVE  Inv'
  <1> DEFINE s == Len(sockets) + 1
             full == IsFull(table[r], unused[r])
  <1>0. UNCHANGED <<map, call, sends, got>> /\ destroyed' = IF full THEN destroyed \cup {s} ELSE destroyed
    BY DEF Socket
  <1>1. /\ Len(sockets) \in Nat /\ s \in Nat /\ Len(sockets') = s /\ s <= MaxSockets
        /\ sockets' \in Seq(SocketType) /\ \A q \in Ids : sockets'[q] = sockets[q]
    BY SocketEffect
  <1>2. /\ sockets'[s].peer = NoObject /\ sockets'[s].bound = {}
        /\ [kind |-> sockets'[s].kind, af |-> sockets'[s].af] \in Sorts
        /\ Ids' = Ids \cup {s} /\ s \notin Ids
    BY SocketEffect
  <1>3. /\ inbox' \in Seq(SUBSET (Message \X (1..MaxCopies))) /\ Len(inbox') = s
        /\ (\A q \in Ids : inbox'[q] = inbox[q]) /\ inbox'[s] = {}
    BY SocketEffect
  <1>4. Tables'
    BY SocketTables
  <1>5. \A q \in Replicas :
          \/ DOMAIN open'[q] = DOMAIN open[q]
          \/ q = r /\ DOMAIN open'[q] = DOMAIN open[q] \cup {s} /\ ~full
    BY SocketTables
  <1>6. /\ ~full => s \in DOMAIN open'[r]
        /\ \A q \in Replicas : \A h \in DOMAIN open[q] : open'[q][h] = open[q][h]
    BY SocketTables
  <1>7. s # NoObject /\ \A q \in Replicas : s \notin DOMAIN open[q] /\ call[q].sock # s
    <2>1. s # NoObject
      BY <1>1, NoSocketAssumption
    <2>2. \A q \in Replicas : DOMAIN open[q] \subseteq Ids
      BY DEF Inv, Tables, TableInv, Ids
    <2>3. \A q \in Replicas : call[q].sock \in Ids \cup {NoObject}
      BY DEF Inv, Shared, Types
    <2> QED BY <1>2, <2>1, <2>2, <2>3
  <1> HIDE DEF s, full
  <1>8. Types'
    <2>1. \A q \in Ids \cup {s} : [kind |-> sockets'[q].kind, af |-> sockets'[q].af] \in Sorts
      BY <1>1, <1>2 DEF Inv, Shared, Types
    <2>2. destroyed' \subseteq Ids \cup {s} /\ map' \in [Addrs -> Ids \cup {s} \cup {NoObject}]
          /\ got' \subseteq (Ids \cup {s}) \X Message /\ sends' \in 0..MaxSends
      BY <1>0 DEF Inv, Shared, Types
    <2>3. call' \in [Replicas -> [at : {"guest", "deliver", "recv"}, sock : Ids \cup {s} \cup {NoObject},
                                  msg : SUBSET Message, fd : Nat]]
      BY <1>0 DEF Inv, Shared, Types
    <2> QED BY <1>1, <1>2, <1>3, <2>1, <2>2, <2>3 DEF Types
  <1>9. OwnedOnce'
    BY <1>5, <1>7 DEF Inv, Shared, OwnedOnce
  <1>10. ASSUME NEW q \in Replicas PROVE CallInv(q)'
    <2>1. CallInv(q)
      BY DEF Inv, Shared
    <2>2. DOMAIN open[q] \subseteq DOMAIN open'[q]
      BY <1>5
    <2> QED BY <1>0, <1>1, <1>2, <1>6, <2>1, <2>2 DEF CallInv
  <1>11. Lifetime'
    <2>1. ASSUME NEW h \in Ids
          PROVE  h \in destroyed' <=> \A q \in Replicas : h \notin DOMAIN open'[q] /\ call'[q].sock # h
      <3>1. h # s
        BY <1>2
      <3>2. h \in destroyed <=> \A q \in Replicas : h \notin DOMAIN open[q] /\ call[q].sock # h
        BY DEF Inv, Shared, Lifetime
      <3>3. h \in destroyed' <=> h \in destroyed
        BY <1>0, <3>1
      <3>4. \A q \in Replicas : h \in DOMAIN open'[q] <=> h \in DOMAIN open[q]
        BY <1>5, <3>1
      <3> QED BY <1>0, <3>2, <3>3, <3>4
    <2>2. s \in destroyed' <=> \A q \in Replicas : s \notin DOMAIN open'[q] /\ call'[q].sock # s
      <3>1. s \notin destroyed
        BY <1>2 DEF Inv, Shared, Types
      <3> QED BY <1>0, <1>5, <1>6, <1>7, <3>1
    <2> QED BY <1>2, <2>1, <2>2 DEF Lifetime
  <1>12. AddrInv'
    <2>1. ASSUME NEW h \in Ids, NEW a \in Addrs
          PROVE  /\ h \notin destroyed' /\ a \in sockets'[h].bound => map'[a] = h
                 /\ map'[a] = h => a \in sockets'[h].bound
      <3>1. h \in destroyed' <=> h \in destroyed
        BY <1>0, <1>2
      <3> QED BY <1>0, <1>1, <3>1 DEF Inv, Shared, AddrInv
    <2>2. \A a \in Addrs : a \notin sockets'[s].bound /\ map'[a] # s
      BY <1>0, <1>2, <1>7 DEF Inv, Shared, Types
    <2> QED BY <1>2, <2>1, <2>2 DEF AddrInv
  <1>13. InboxInv'
    BY <1>1, <1>2, <1>3 DEF Inv, Shared, InboxInv
  <1>14. PeerInv'
    <2>1. ASSUME NEW h \in Ids, sockets'[h].peer # NoObject
          PROVE  LET k == sockets'[h].peer
                 IN /\ k \in Ids' /\ sockets'[h].af = sockets'[k].af
                    /\ sockets'[h].kind = "stream" /\ sockets'[k].kind = "stream"
                    /\ sockets'[k].bound # {}
      <3>1. sockets'[h] = sockets[h] /\ sockets[h].peer # NoObject
        BY <1>1, <2>1
      <3>2. sockets[h].peer \in Ids
        BY <3>1 DEF Inv, Shared, PeerInv
      <3>3. sockets'[sockets[h].peer] = sockets[sockets[h].peer]
        BY <1>1, <3>2
      <3> QED BY <1>2, <3>1, <3>2, <3>3 DEF Inv, Shared, PeerInv
    <2> QED BY <1>2, <2>1 DEF PeerInv
  <1>15. ReceivedByBinder'
    <2>1. \A hm \in got : hm[1] \in Ids
      BY DEF Inv, Shared, Types
    <2> QED BY <1>0, <1>1, <2>1 DEF Inv, Shared, ReceivedByBinder
  <1> QED BY <1>4, <1>8, <1>9, <1>10, <1>11, <1>12, <1>13, <1>14, <1>15 DEF Inv, Shared

\* sys_close: the socket goes at once, unless a sendto holds it.
LEMMA CloseInv ==
  ASSUME Inv, NEW r \in Replicas, NEW fd \in Handed(r), Close(r, fd)
  PROVE  Inv'
  <1> DEFINE s == Slot(table[r], fd)
             left == Restrict(open[r], {h \in DOMAIN open[r] : open[r][h] # fd})
  <1>0. /\ call[r].at = "guest" /\ CanClose(table[r], fd)
        /\ table' = [table EXCEPT ![r] = AfterCloseTable(table[r], fd)]
        /\ unused' = [unused EXCEPT ![r] = AfterCloseUnused(unused[r], fd)]
        /\ destroyed' = destroyed \cup Dropped(s, FALSE, Holders(s))
        /\ open' = [open EXCEPT ![r] = left]
        /\ UNCHANGED <<sockets, map, inbox, call, sends, got>>
    BY DEF Close, Calls
  <1>1. s # NoObject /\ s \in Ids /\ s \in DOMAIN open[r] /\ s \notin destroyed
    BY <1>0, SlotFacts DEF CanClose
  <1>2. /\ DOMAIN table = Replicas /\ DOMAIN unused = Replicas /\ DOMAIN open = Replicas
        /\ \A q \in Replicas : TableInv(table[q], unused[q], open[q], Len(sockets))
        /\ Len(sockets) \in Nat
    BY DEF Inv, Tables, Shared, Types
  <1>3. /\ TableInv(AfterCloseTable(table[r], fd), AfterCloseUnused(unused[r], fd), left, Len(sockets))
        /\ DOMAIN left = DOMAIN open[r] \ {s}
        /\ \A h \in DOMAIN left : left[h] = open[r][h]
    <2>1. left = Restrict(open[r], {h \in DOMAIN open[r] : open[r][h] # fd})
      OBVIOUS
    <2>2. TableInv(table[r], unused[r], open[r], Len(sockets)) /\ Len(sockets) \in Nat
          /\ CanClose(table[r], fd)
      BY <1>0, <1>2
    <2> HIDE DEF left
    <2>3. Closed(table[r], unused[r], open[r], Len(sockets), fd, left)
      BY <2>1, <2>2, CloseTable
    <2> QED BY <2>3 DEF Closed
  <1> HIDE DEF left
  <1>4. \A q \in Replicas : q # r => table'[q] = table[q] /\ unused'[q] = unused[q] /\ open'[q] = open[q]
    BY <1>0, <1>2
  <1>5. /\ table'[r] = AfterCloseTable(table[r], fd)
        /\ unused'[r] = AfterCloseUnused(unused[r], fd) /\ open'[r] = left
    BY <1>0, <1>2
  <1>6. Tables'
    <2>1. ASSUME NEW q \in Replicas PROVE TableInv(table'[q], unused'[q], open'[q], Len(sockets'))
      BY <1>0, <1>2, <1>3, <1>4, <1>5
    <2>2. DOMAIN table' = Replicas /\ DOMAIN unused' = Replicas /\ DOMAIN open' = Replicas
      BY <1>0, <1>2
    <2> QED BY <2>1, <2>2 DEF Tables
  <1> HIDE DEF s
  <1>7. \A q \in Replicas : DOMAIN open'[q] = DOMAIN open[q] \ {s}
    <2>1. \A q \in Replicas : q # r => s \notin DOMAIN open[q]
      BY <1>1 DEF Inv, Shared, OwnedOnce
    <2> QED BY <1>3, <1>4, <1>5, <2>1
  <1>8. destroyed' \subseteq destroyed \cup {s} /\ destroyed \subseteq destroyed' /\ Ids' = Ids
    BY <1>0 DEF Dropped, Ids
  <1>9. Types'
    BY <1>0, <1>1, <1>8 DEF Inv, Shared, Types
  <1>10. OwnedOnce'
    BY <1>7 DEF Inv, Shared, OwnedOnce
  <1>11. ASSUME NEW q \in Replicas PROVE CallInv(q)'
    <2>1. CASE q = r
      BY <1>0, <2>1 DEF Inv, Shared, CallInv
    <2>2. CASE q # r
      BY <1>0, <1>4, <1>8, <2>2 DEF Inv, Shared, CallInv
    <2> QED BY <2>1, <2>2
  <1>12. Lifetime'
    <2>1. ASSUME NEW h \in Ids, h # s
          PROVE  h \in destroyed' <=> \A q \in Replicas : h \notin DOMAIN open'[q] /\ call'[q].sock # h
      <3>1. h \in destroyed' <=> h \in destroyed
        BY <1>8, <2>1
      <3>2. \A q \in Replicas : (h \in DOMAIN open'[q] <=> h \in DOMAIN open[q]) /\ call'[q] = call[q]
        BY <1>0, <1>7, <2>1
      <3>3. h \in destroyed <=> \A q \in Replicas : h \notin DOMAIN open[q] /\ call[q].sock # h
        BY DEF Inv, Shared, Lifetime
      <3> QED BY <3>1, <3>2, <3>3
    <2>2. s \in destroyed' <=> Holders(s) = {}
      BY <1>0, <1>1 DEF Dropped
    <2>3. ASSUME NEW q \in Replicas PROVE call[q].sock = s <=> q \in Holders(s)
      <3>1. CallInv(q) /\ call[q].at \in {"guest", "deliver", "recv"}
        BY DEF Inv, Shared, Types
      <3>2. call[q].at = "recv" /\ call[q].sock = s => q = r
        BY <1>1, <3>1 DEF CallInv, Inv, Shared, OwnedOnce
      <3> QED BY <1>0, <1>1, <3>1, <3>2 DEF CallInv, Holders
    <2>4. s \in destroyed' <=> \A q \in Replicas : s \notin DOMAIN open'[q] /\ call'[q].sock # s
      <3>1. Holders(s) \subseteq Replicas
        BY DEF Holders
      <3> QED BY <1>0, <1>7, <2>2, <2>3, <3>1
    <2> QED BY <1>8, <2>1, <2>4 DEF Lifetime
  <1>13. AddrInv' /\ InboxInv' /\ PeerInv' /\ ReceivedByBinder'
    BY <1>0, <1>8 DEF Inv, Shared, AddrInv, InboxInv, PeerInv, ReceivedByBinder
  <1> QED BY <1>6, <1>9, <1>10, <1>11, <1>12, <1>13 DEF Inv, Shared

\* sys_sendto finds its target: a datagram socket that exists and has the
\* address.
LEMMA SendtoInv ==
  ASSUME Inv, NEW r \in Replicas, NEW fd \in Handed(r), NEW a \in Parsed, Sendto(r, fd, a)
  PROVE  Inv'
  <1> DEFINE s == Slot(table[r], fd)
             t == Get(a)
             e == [at |-> "deliver", sock |-> t, msg |-> {[id |-> sends + 1, addr |-> a]}, fd |-> 0]
  <1>0. UNCHANGED <<unused, sockets, destroyed, map, inbox, open, got>> /\ sends < MaxSends
    BY DEF Sendto
  <1>1. call[r].at = "guest"
    BY DEF Sendto, LooksUp, Calls
  <1>2. Tables'
    <2>1. CASE a \in Addrs
      <3>1. LooksUp(r, fd)
        BY <2>1 DEF Sendto
      <3> QED BY <1>0, <3>1, LookUpTables
    <2>2. CASE a \notin Addrs
      <3>1. UNCHANGED table
        BY <2>2 DEF Sendto
      <3> QED BY <1>0, <3>1, SameTables
    <2> QED BY <2>1, <2>2
  <1>3. CASE ~(Is(s, "dgram") /\ Is(t, "dgram"))
    <2>1. UNCHANGED <<call, sends>>
      BY <1>3 DEF Sendto
    <2>2. Shared'
      BY <1>0, <2>1, SharedSame
    <2> QED BY <1>2, <2>2 DEF Inv
  <1>4. CASE Is(s, "dgram") /\ Is(t, "dgram")
    <2>1. call' = [call EXCEPT ![r] = e] /\ sends' = sends + 1
      BY <1>4 DEF Sendto, NotInCall
    <2>2. t \in Ids /\ t \notin destroyed /\ a \in Addrs /\ a \in sockets[t].bound /\ sockets[t].kind = "dgram"
      <3>1. t # NoObject /\ sockets[t].kind = "dgram"
        BY <1>4 DEF Is
      <3> QED BY <3>1, GetFacts
    <2> HIDE DEF s, t
    <2>3. [id |-> sends + 1, addr |-> a] \in Message /\ sends + 1 \in 0..MaxSends
      <3>1. sends + 1 \in 1..MaxSends /\ sends + 1 \in 0..MaxSends
        BY <1>0, BoundsAssumption DEF Inv, Shared, Types
      <3> QED BY <2>2, <3>1 DEF Message
    <2>4. /\ e \in [at : {"guest", "deliver", "recv"}, sock : Ids \cup {NoObject}, msg : SUBSET Message, fd : Nat]
          /\ e.at = "deliver" /\ e.sock = t /\ \A m \in e.msg : m.addr = a
      BY <2>2, <2>3
    <2> HIDE DEF e
    <2>5. /\ call' \in [Replicas -> [at : {"guest", "deliver", "recv"}, sock : Ids \cup {NoObject},
                                     msg : SUBSET Message, fd : Nat]]
          /\ call'[r] = e /\ \A q \in Replicas : q # r => call'[q] = call[q]
      BY <2>1, <2>4 DEF Inv, Shared, Types
    <2>6. Ids' = Ids
      BY <1>0 DEF Ids
    <2>7. Types'
      BY <1>0, <2>1, <2>3, <2>5, <2>6 DEF Inv, Shared, Types
    <2>8. OwnedOnce' /\ AddrInv' /\ InboxInv' /\ PeerInv' /\ ReceivedByBinder'
      BY <1>0, <2>6 DEF Inv, Shared, OwnedOnce, AddrInv, InboxInv, PeerInv, ReceivedByBinder
    <2>9. ASSUME NEW q \in Replicas PROVE CallInv(q)'
      <3>1. CASE q = r
        BY <1>0, <2>2, <2>4, <2>5, <2>6, <3>1 DEF CallInv
      <3>2. CASE q # r
        BY <1>0, <2>5, <2>6, <3>2 DEF Inv, Shared, CallInv
      <3> QED BY <3>1, <3>2
    <2>10. Lifetime'
      <3>1. call[r].sock = NoObject
        BY <1>1 DEF Inv, Shared, CallInv
      <3>2. ASSUME NEW h \in Ids
            PROVE  h \in destroyed <=> \A q \in Replicas : h \notin DOMAIN open[q] /\ call'[q].sock # h
        <4>1. h \in destroyed <=> \A q \in Replicas : h \notin DOMAIN open[q] /\ call[q].sock # h
          BY DEF Inv, Shared, Lifetime
        <4>2. h # NoObject
          BY NoSocketAssumption DEF Ids
        <4>3. CASE h = t
          BY <2>2, <2>4, <2>5, <3>1, <4>1, <4>2, <4>3
        <4>4. CASE h # t
          BY <2>4, <2>5, <3>1, <4>1, <4>2, <4>4
        <4> QED BY <4>3, <4>4
      <3> QED BY <1>0, <2>6, <3>2 DEF Lifetime
    <2> QED BY <1>2, <2>7, <2>8, <2>9, <2>10 DEF Inv, Shared
  <1> QED BY <1>3, <1>4

\* sys_sendto delivers and returns; if its pointer was the last, the target goes.
LEMMA DeliverInv ==
  ASSUME Inv, NEW r \in Replicas, Deliver(r)
  PROVE  Inv'
  <1> DEFINE t == call[r].sock
             gone == Dropped(t, Opened(t), Holders(t) \ {r})
  <1>1. PICK n \in 0..MaxCopies :
           inbox' = [inbox EXCEPT ![t] = IF gone = {} THEN inbox[t] \cup (call[r].msg \X (1..n)) ELSE {}]
    BY DEF Deliver
  <1>2. /\ call[r].at = "deliver" /\ destroyed' = destroyed \cup gone /\ call' = [call EXCEPT ![r] = NotInCall]
        /\ UNCHANGED <<table, unused, sockets, map, open, sends, got>>
    BY DEF Deliver
  <1>3. /\ t \in Ids /\ sockets[t].kind = "dgram" /\ \A m \in call[r].msg : m.addr \in sockets[t].bound
        /\ call[r].msg \subseteq Message
    BY <1>2 DEF Inv, Shared, CallInv, Types
  <1>4. t # NoObject /\ t \notin destroyed
    <2>1. t # NoObject
      BY <1>3, NoSocketAssumption DEF Ids
    <2> QED BY <1>3, <2>1 DEF Inv, Shared, Lifetime
  <1>5. Opened(t) <=> \E q \in Replicas : t \in DOMAIN open[q]
    <2>1. \A q \in Replicas : TableInv(table[q], unused[q], open[q], Len(sockets)) /\ Len(sockets) \in Nat
      BY DEF Inv, Tables, Shared, Types
    <2> HIDE DEF t
    <2>2. \A q \in Replicas : t \in Range(table[q]) <=> t \in DOMAIN open[q]
      BY <1>4, <2>1, InTable
    <2> QED BY <2>2 DEF Opened
  <1>6. /\ gone = IF Opened(t) \/ Holders(t) \ {r} # {} THEN {} ELSE {t}
    BY DEF Dropped
  <1> DEFINE new == IF gone = {} THEN inbox[t] \cup (call[r].msg \X (1..n)) ELSE {}
  <1>7. new \subseteq Message \X (1..MaxCopies) /\ \A mc \in new : mc[1].addr \in sockets[t].bound
    <2>1. inbox[t] \subseteq Message \X (1..MaxCopies)
      <3>1. inbox \in Seq(SUBSET (Message \X (1..MaxCopies))) /\ t \in 1..Len(inbox)
        BY <1>3 DEF Inv, Shared, Types, Ids
      <3>2. inbox[t] \in SUBSET (Message \X (1..MaxCopies))
        BY <3>1, ElementOfSeq
      <3> QED BY <3>2
    <2>2. \A mc \in inbox[t] : mc[1].addr \in sockets[t].bound
      BY <1>3 DEF Inv, Shared, InboxInv
    <2>3. 1..n \subseteq 1..MaxCopies
      BY BoundsAssumption
    <2>4. call[r].msg \X (1..n) \subseteq Message \X (1..MaxCopies)
      BY <1>3, <2>3
    <2>5. \A mc \in call[r].msg \X (1..n) : mc[1].addr \in sockets[t].bound
      BY <1>3
    <2> QED BY <2>1, <2>2, <2>4, <2>5
  <1>8. /\ inbox' \in Seq(SUBSET (Message \X (1..MaxCopies))) /\ Len(inbox') = Len(sockets)
        /\ \A q \in Ids : inbox'[q] = IF q = t THEN new ELSE inbox[q]
    <2>1. inbox \in Seq(SUBSET (Message \X (1..MaxCopies))) /\ Len(inbox) = Len(sockets) /\ t \in 1..Len(inbox)
      BY <1>3 DEF Inv, Shared, Types, Ids
    <2>2. inbox' = [inbox EXCEPT ![t] = new] /\ new \in SUBSET (Message \X (1..MaxCopies))
      BY <1>1, <1>7
    <2> HIDE DEF new, t
    <2> QED BY <2>1, <2>2, ExceptSeq DEF Ids
  <1> HIDE DEF new, gone
  <1>9. Tables'
    BY <1>2, SameTables
  <1>10. Ids' = Ids
    BY <1>2 DEF Ids
  <1>11. /\ call' \in [Replicas -> [at : {"guest", "deliver", "recv"}, sock : Ids \cup {NoObject},
                                    msg : SUBSET Message, fd : Nat]]
         /\ call'[r] = NotInCall /\ \A q \in Replicas : q # r => call'[q] = call[q]
    <2>1. NotInCall \in [at : {"guest", "deliver", "recv"}, sock : Ids \cup {NoObject},
                         msg : SUBSET Message, fd : Nat]
      BY DEF NotInCall
    <2> QED BY <1>2, <2>1 DEF Inv, Shared, Types
  <1>15. NotInCall.at = "guest" /\ NotInCall.sock = NoObject
    BY DEF NotInCall
  <1>12. Types'
    <2>1. destroyed' \subseteq Ids
      BY <1>2, <1>3, <1>6 DEF Inv, Shared, Types
    <2> QED BY <1>2, <1>8, <1>10, <1>11, <2>1 DEF Inv, Shared, Types
  <1>13. OwnedOnce' /\ PeerInv' /\ ReceivedByBinder'
    BY <1>2, <1>10 DEF Inv, Shared, OwnedOnce, PeerInv, ReceivedByBinder
  <1>14. ASSUME NEW q \in Replicas PROVE CallInv(q)'
    <2>1. CASE q = r
      BY <1>11, <1>15, <2>1 DEF CallInv
    <2>2. CASE q # r
      BY <1>2, <1>10, <1>11, <2>2 DEF Inv, Shared, CallInv
    <2> QED BY <2>1, <2>2
  <1>16. Lifetime'
    <2>1. ASSUME NEW h \in Ids, h # t
          PROVE  h \in destroyed' <=> \A q \in Replicas : h \notin DOMAIN open[q] /\ call'[q].sock # h
      <3>1. h \in destroyed' <=> h \in destroyed
        BY <1>2, <1>6, <2>1
      <3>2. h # NoObject
        BY NoSocketAssumption DEF Ids
      <3>3. \A q \in Replicas : call'[q].sock # h <=> call[q].sock # h
        BY <1>11, <1>15, <2>1, <3>2
      <3> QED BY <3>1, <3>3 DEF Inv, Shared, Lifetime
    <2>2. t \in destroyed' <=> ~Opened(t) /\ Holders(t) \ {r} = {}
      BY <1>2, <1>4, <1>6
    <2>3. ASSUME NEW q \in Replicas, ~Opened(t) PROVE call'[q].sock = t <=> q \in Holders(t) \ {r}
      <3>1. CASE q = r
        BY <1>4, <1>11, <1>15, <3>1
      <3>2. CASE q # r
        <4>1. CallInv(q) /\ call[q].at \in {"guest", "deliver", "recv"}
          BY DEF Inv, Shared, Types
        <4>2. call[q].at = "recv" => call[q].sock # t
          BY <1>5, <2>3, <4>1 DEF CallInv
        <4> QED BY <1>4, <1>11, <3>2, <4>1, <4>2 DEF CallInv, Holders
      <3> QED BY <3>1, <3>2
    <2>4. t \in destroyed' <=> \A q \in Replicas : t \notin DOMAIN open[q] /\ call'[q].sock # t
      <3>1. Holders(t) \ {r} \subseteq Replicas
        BY DEF Holders
      <3>2. CASE Opened(t)
        BY <1>5, <2>2, <3>2
      <3>3. CASE ~Opened(t)
        BY <1>5, <2>2, <2>3, <3>1, <3>3
      <3> QED BY <3>2, <3>3
    <2> QED BY <1>2, <1>10, <2>1, <2>4 DEF Lifetime
  <1>17. AddrInv'
    BY <1>2, <1>10 DEF Inv, Shared, AddrInv
  <1>18. InboxInv'
    <2>1. ASSUME NEW h \in Ids, NEW mc \in inbox'[h]
          PROVE  sockets[h].kind = "dgram" /\ mc[1].addr \in sockets[h].bound
      <3>1. CASE h = t
        BY <1>3, <1>7, <1>8, <3>1, <2>1
      <3>2. CASE h # t
        BY <1>8, <2>1, <3>2 DEF Inv, Shared, InboxInv
      <3> QED BY <3>1, <3>2
    <2> QED BY <1>2, <1>10, <2>1 DEF InboxInv
  <1> QED BY <1>9, <1>12, <1>13, <1>14, <1>16, <1>17, <1>18 DEF Inv, Shared

\* sys_recvfrom looks its socket up.
LEMMA RecvfromInv ==
  ASSUME Inv, NEW r \in Replicas, NEW fd \in Handed(r), Recvfrom(r, fd)
  PROVE  Inv'
  <1> DEFINE s == Slot(table[r], fd)
             e == [at |-> "recv", sock |-> s, msg |-> {}, fd |-> fd]
  <1>0. LooksUp(r, fd) /\ UNCHANGED <<unused, sockets, destroyed, map, inbox, open, sends, got>>
    BY DEF Recvfrom
  <1>1. Tables'
    BY <1>0, LookUpTables
  <1>2. CASE ~Is(s, "dgram")
    <2>1. UNCHANGED call
      BY <1>2 DEF Recvfrom
    <2>2. Shared'
      BY <1>0, <2>1, SharedSame
    <2> QED BY <1>1, <2>2 DEF Inv
  <1>3. CASE Is(s, "dgram")
    <2>1. call' = [call EXCEPT ![r] = e]
      BY <1>3 DEF Recvfrom, NotInCall
    <2>2. s \in Ids /\ sockets[s].kind = "dgram" /\ s \in DOMAIN open[r] /\ open[r][s] = fd /\ fd \in Nat
          /\ s \notin destroyed
      <3>1. s # NoObject /\ sockets[s].kind = "dgram"
        BY <1>3 DEF Is
      <3> QED BY <3>1, SlotFacts
    <2> HIDE DEF s
    <2>4. /\ e \in [at : {"guest", "deliver", "recv"}, sock : Ids \cup {NoObject}, msg : SUBSET Message, fd : Nat]
          /\ e.at = "recv" /\ e.sock = s /\ e.fd = fd
      BY <2>2
    <2> HIDE DEF e
    <2>5. /\ call' \in [Replicas -> [at : {"guest", "deliver", "recv"}, sock : Ids \cup {NoObject},
                                     msg : SUBSET Message, fd : Nat]]
          /\ call'[r] = e /\ \A q \in Replicas : q # r => call'[q] = call[q]
      BY <2>1, <2>4 DEF Inv, Shared, Types
    <2>6. Ids' = Ids
      BY <1>0 DEF Ids
    <2>7. Types'
      BY <1>0, <2>5, <2>6 DEF Inv, Shared, Types
    <2>8. OwnedOnce' /\ AddrInv' /\ InboxInv' /\ PeerInv' /\ ReceivedByBinder'
      BY <1>0, <2>6 DEF Inv, Shared, OwnedOnce, AddrInv, InboxInv, PeerInv, ReceivedByBinder
    <2>9. ASSUME NEW q \in Replicas PROVE CallInv(q)'
      <3>1. CASE q = r
        BY <1>0, <2>2, <2>4, <2>5, <2>6, <3>1 DEF CallInv
      <3>2. CASE q # r
        BY <1>0, <2>5, <2>6, <3>2 DEF Inv, Shared, CallInv
      <3> QED BY <3>1, <3>2
    <2>10. Lifetime'
      <3>1. call[r].sock = NoObject
        BY <1>0 DEF Inv, Shared, CallInv, LooksUp, Calls
      <3>2. ASSUME NEW h \in Ids
            PROVE  h \in destroyed <=> \A q \in Replicas : h \notin DOMAIN open[q] /\ call'[q].sock # h
        <4>1. h \in destroyed <=> \A q \in Replicas : h \notin DOMAIN open[q] /\ call[q].sock # h
          BY DEF Inv, Shared, Lifetime
        <4>2. h # NoObject
          BY NoSocketAssumption DEF Ids
        <4>3. CASE h = s
          BY <2>2, <4>1, <4>3
        <4>4. CASE h # s
          BY <2>4, <2>5, <3>1, <4>1, <4>2, <4>4
        <4> QED BY <4>3, <4>4
      <3> QED BY <1>0, <2>6, <3>2 DEF Lifetime
    <2> QED BY <1>1, <2>7, <2>8, <2>9, <2>10 DEF Inv, Shared
  <1> QED BY <1>2, <1>3

\* sys_recvfrom returns a datagram: its guest has one open socket as that
\* descriptor, the one that it waited at.
LEMMA RecvReturnsInv ==
  ASSUME Inv, NEW r \in Replicas, RecvReturns(r)
  PROVE  Inv'
  <1> DEFINE s == call[r].sock
  <1>1. PICK mc \in inbox[s] :
          /\ inbox' = [inbox EXCEPT ![s] = inbox[s] \ {mc}]
          /\ got' = got \cup {<<h, mc[1]>> : h \in {h \in DOMAIN open[r] : open[r][h] = call[r].fd}}
    BY DEF RecvReturns
  <1>2. /\ call[r].at = "recv" /\ call' = [call EXCEPT ![r] = NotInCall]
        /\ UNCHANGED <<table, unused, sockets, destroyed, map, open, sends>>
    BY DEF RecvReturns
  <1>3. s \in Ids /\ s \in DOMAIN open[r] /\ open[r][s] = call[r].fd /\ s # NoObject
    <2>1. s \in Ids /\ s \in DOMAIN open[r] /\ open[r][s] = call[r].fd
      BY <1>2 DEF Inv, Shared, CallInv
    <2> QED BY <2>1, NoSocketAssumption DEF Ids
  <1>4. inbox[s] \subseteq Message \X (1..MaxCopies) /\ mc[1].addr \in sockets[s].bound /\ mc[1] \in Message
    <2>1. inbox \in Seq(SUBSET (Message \X (1..MaxCopies))) /\ s \in 1..Len(inbox)
      BY <1>3 DEF Inv, Shared, Types, Ids
    <2>2. inbox[s] \in SUBSET (Message \X (1..MaxCopies))
      BY <2>1, ElementOfSeq
    <2>3. mc[1].addr \in sockets[s].bound
      BY <1>3 DEF Inv, Shared, InboxInv
    <2> QED BY <2>2, <2>3
  <1>5. \A h \in DOMAIN open[r] : open[r][h] = call[r].fd => h = s
    <2>1. TableInv(table[r], unused[r], open[r], Len(sockets))
      BY DEF Inv, Tables
    <2> QED BY <1>3, <2>1 DEF TableInv
  <1>6. got' = got \cup {<<s, mc[1]>>}
    <2>1. {h \in DOMAIN open[r] : open[r][h] = call[r].fd} = {s}
      BY <1>3, <1>5
    <2> QED BY <1>1, <2>1
  <1> HIDE DEF s
  <1>7. /\ inbox' \in Seq(SUBSET (Message \X (1..MaxCopies))) /\ Len(inbox') = Len(sockets)
        /\ \A q \in Ids : inbox'[q] \subseteq inbox[q]
    <2>1. inbox \in Seq(SUBSET (Message \X (1..MaxCopies))) /\ Len(inbox) = Len(sockets) /\ s \in 1..Len(inbox)
      BY <1>3 DEF Inv, Shared, Types, Ids
    <2> DEFINE new == inbox[s] \ {mc}
    <2>2. inbox' = [inbox EXCEPT ![s] = new] /\ new \in SUBSET (Message \X (1..MaxCopies)) /\ new \subseteq inbox[s]
      BY <1>1, <1>4
    <2> HIDE DEF new
    <2>3. /\ inbox' \in Seq(SUBSET (Message \X (1..MaxCopies))) /\ Len(inbox') = Len(inbox)
          /\ \A q \in 1..Len(inbox) : inbox'[q] = IF q = s THEN new ELSE inbox[q]
      BY <2>1, <2>2, ExceptSeq
    <2> QED BY <2>1, <2>2, <2>3 DEF Ids
  <1>9. Tables'
    BY <1>2, SameTables
  <1>10. Ids' = Ids
    BY <1>2 DEF Ids
  <1>11. /\ call' \in [Replicas -> [at : {"guest", "deliver", "recv"}, sock : Ids \cup {NoObject},
                                    msg : SUBSET Message, fd : Nat]]
         /\ call'[r] = NotInCall /\ \A q \in Replicas : q # r => call'[q] = call[q]
    <2>1. NotInCall \in [at : {"guest", "deliver", "recv"}, sock : Ids \cup {NoObject},
                         msg : SUBSET Message, fd : Nat]
      BY DEF NotInCall
    <2> QED BY <1>2, <2>1 DEF Inv, Shared, Types
  <1>15. NotInCall.at = "guest" /\ NotInCall.sock = NoObject
    BY DEF NotInCall
  <1>12. Types'
    <2>1. got' \subseteq Ids \X Message
      BY <1>3, <1>4, <1>6 DEF Inv, Shared, Types
    <2> QED BY <1>2, <1>7, <1>10, <1>11, <2>1 DEF Inv, Shared, Types
  <1>13. OwnedOnce' /\ PeerInv' /\ AddrInv'
    BY <1>2, <1>10 DEF Inv, Shared, OwnedOnce, PeerInv, AddrInv
  <1>14. ASSUME NEW q \in Replicas PROVE CallInv(q)'
    <2>1. CASE q = r
      BY <1>11, <1>15, <2>1 DEF CallInv
    <2>2. CASE q # r
      BY <1>2, <1>10, <1>11, <2>2 DEF Inv, Shared, CallInv
    <2> QED BY <2>1, <2>2
  <1>16. Lifetime'
    <2>1. ASSUME NEW h \in Ids
          PROVE  h \in destroyed <=> \A q \in Replicas : h \notin DOMAIN open[q] /\ call'[q].sock # h
      <3>1. h \in destroyed <=> \A q \in Replicas : h \notin DOMAIN open[q] /\ call[q].sock # h
        BY DEF Inv, Shared, Lifetime
      <3>2. CASE h = s
        BY <1>3, <3>1, <3>2
      <3>3. CASE h # s
        <4>1. h # NoObject
          BY NoSocketAssumption DEF Ids
        <4>2. \A q \in Replicas : call'[q].sock # h <=> call[q].sock # h
          BY <1>11, <1>15, <3>3, <4>1 DEF s
        <4> QED BY <3>1, <4>2
      <3> QED BY <3>2, <3>3
    <2> QED BY <1>2, <1>10, <2>1 DEF Lifetime
  <1>17. InboxInv'
    BY <1>2, <1>7, <1>10 DEF Inv, Shared, InboxInv
  <1>18. ReceivedByBinder'
    BY <1>2, <1>4, <1>6 DEF Inv, Shared, ReceivedByBinder
  <1> QED BY <1>9, <1>12, <1>13, <1>14, <1>16, <1>17, <1>18 DEF Inv, Shared

-----------------------------------------------------------------------------
\* The invariant of the replicas' tables, the network and the running hooks.
THEOREM InvHolds == Spec => []Inv
  <1>1. ASSUME Inv, [Next]_vars PROVE Inv'
    <2>1. CASE Next
      <3>1. PICK r \in Replicas :
              \/ \E sort \in Sorts : Socket(r, sort)
              \/ \E fd \in Handed(r) :
                   \/ Close(r, fd) \/ ReadWrite(r, fd) \/ Recvfrom(r, fd)
                   \/ \E a \in Parsed :
                        Bind(r, fd, a) \/ Connect(r, fd, a) \/ Sendto(r, fd, a)
              \/ Deliver(r) \/ RecvReturns(r)
        BY <2>1 DEF Next
      <3> QED BY <1>1, <3>1, SocketInv, CloseInv, ReadWriteInv, RecvfromInv, BindInv, ConnectInv,
                 SendtoInv, DeliverInv, RecvReturnsInv
    <2>2. CASE UNCHANGED vars
      <3>1. Tables'
        BY <1>1, <2>2, SameTables DEF vars
      <3>2. Shared'
        BY <1>1, <2>2, SharedSame DEF vars
      <3> QED BY <3>1, <3>2 DEF Inv
    <2> QED BY <1>1, <2>1, <2>2
  <1> QED BY <1>1, InitInv, PTL DEF Spec

\* Every variable keeps its type, and sockets meet their own kind: datagrams are
\* queued at datagram sockets only, and a peer is a bound stream socket of the
\* same family.
THEOREM TypeCorrect == Spec => []TypeOK
  <1>1. ASSUME Inv PROVE TypeOK
    <2>1. Len(sockets) \in Nat /\ DOMAIN sockets = Ids /\ DOMAIN inbox = Ids /\ Ids \subseteq SocketIds
      <3>1. Len(sockets) \in Nat /\ DOMAIN sockets = Ids /\ DOMAIN inbox = Ids /\ Len(sockets) <= MaxSockets
        BY <1>1 DEF Inv, Shared, Types, Ids
      <3> QED BY <3>1, BoundsAssumption DEF SocketIds, Ids
    <2>2. ASSUME NEW r \in Replicas
          PROVE  /\ DOMAIN table[r] \subseteq Nat
                 /\ Range(table[r]) \subseteq SocketIds \cup {NoObject}
                 /\ unused[r] \in Seq(Nat)
                 /\ DOMAIN open[r] \subseteq SocketIds
                 /\ Range(open[r]) \subseteq Nat
      <3>1. TableInv(table[r], unused[r], open[r], Len(sockets))
        BY <1>1 DEF Inv, Tables
      <3>2. DOMAIN open[r] \subseteq SocketIds /\ unused[r] \in Seq(Nat) /\ DOMAIN table[r] \subseteq Nat
        BY <2>1, <3>1 DEF TableInv, Numbers, Ids
      <3>3. Range(table[r]) \subseteq SocketIds \cup {NoObject} /\ Range(open[r]) \subseteq Nat
        BY <3>1, <3>2 DEF TableInv, Range
      <3> QED BY <3>2, <3>3
    <2>3. ASSUME NEW s \in Ids
          PROVE  /\ [kind |-> sockets[s].kind, af |-> sockets[s].af] \in Sorts
                 /\ sockets[s].bound \subseteq Addrs
                 /\ inbox[s] # {} => sockets[s].kind = "dgram"
                 /\ LET p == sockets[s].peer
                    IN p # NoObject =>
                         /\ p \in Ids /\ SameFamily(s, p)
                         /\ sockets[s].kind = "stream" /\ sockets[p].kind = "stream"
                         /\ sockets[p].bound # {}
      <3>1. sockets[s] \in SocketType
        BY <1>1, <2>3, ElementOfSeq DEF Inv, Shared, Types, Ids
      <3>2. sockets[s].bound \subseteq Addrs
        BY <3>1 DEF SocketType
      <3>3. inbox[s] # {} => sockets[s].kind = "dgram"
        BY <1>1 DEF Inv, Shared, InboxInv
      <3>4. [kind |-> sockets[s].kind, af |-> sockets[s].af] \in Sorts
        BY <1>1 DEF Inv, Shared, Types
      <3> QED BY <1>1, <3>2, <3>3, <3>4 DEF Inv, Shared, PeerInv, SameFamily
    <2>4. ASSUME NEW s \in Ids PROVE inbox[s] \subseteq Message \X (1..MaxCopies)
      <3>1. inbox \in Seq(SUBSET (Message \X (1..MaxCopies))) /\ s \in 1..Len(inbox)
        BY <1>1 DEF Inv, Shared, Types, Ids
      <3>2. inbox[s] \in SUBSET (Message \X (1..MaxCopies))
        BY <3>1, ElementOfSeq
      <3> QED BY <3>2
    <2>5. /\ Len(sockets) <= MaxSockets /\ destroyed \subseteq Ids /\ map \in [Addrs -> Ids \cup {NoObject}]
          /\ call \in [Replicas -> [at : {"guest", "deliver", "recv"}, sock : Ids \cup {NoObject},
                                    msg : SUBSET Message, fd : Nat]]
          /\ sends \in 0..MaxSends /\ got \subseteq Ids \X Message
      BY <1>1 DEF Inv, Shared, Types
    <2> QED BY <2>1, <2>2, <2>3, <2>4, <2>5 DEF TypeOK
  <1> QED BY <1>1, InvHolds, PTL

\* A socket lives exactly as long as a descriptor or a running hook refers to it.
THEOREM DestroyedInTime == Spec => []DestroyedWhenUnreferenced
  <1>1. ASSUME Inv PROVE DestroyedWhenUnreferenced
    <2>1. DOMAIN sockets = Ids
      BY <1>1 DEF Inv, Shared, Types, Ids
    <2>2. ASSUME NEW s \in Ids PROVE Opened(s) <=> \E r \in Replicas : s \in DOMAIN open[r]
      <3>1. \A r \in Replicas : TableInv(table[r], unused[r], open[r], Len(sockets)) /\ Len(sockets) \in Nat
        BY <1>1 DEF Inv, Tables, Shared, Types
      <3>2. s # NoObject
        BY NoSocketAssumption DEF Ids
      <3>3. \A r \in Replicas : s \in Range(table[r]) <=> s \in DOMAIN open[r]
        BY <3>1, <3>2, InTable
      <3> QED BY <3>3 DEF Opened
    <2>3. ASSUME NEW s \in Ids
          PROVE  s \in destroyed <=> \A r \in Replicas : s \notin DOMAIN open[r] /\ call[r].sock # s
      BY <1>1 DEF Inv, Shared, Lifetime
    <2> QED BY <2>1, <2>2, <2>3 DEF DestroyedWhenUnreferenced
  <1> QED BY <1>1, InvHolds, PTL

\* While a guest has a socket open, the addresses it bound it to lead there.
THEOREM BoundReaches == Spec => []BoundAddressReaches
  <1>1. ASSUME Inv PROVE BoundAddressReaches
    <2> SUFFICES ASSUME NEW r \in Replicas, NEW h \in DOMAIN open[r], NEW a \in sockets[h].bound
                 PROVE  Get(a) = h
      BY DEF BoundAddressReaches
    <2>1. h \in Ids
      BY <1>1 DEF Inv, Tables, TableInv, Ids
    <2>2. h \notin destroyed
      BY <1>1, <2>1 DEF Inv, Shared, Lifetime
    <2>3. sockets[h] \in SocketType
      BY <1>1, <2>1, ElementOfSeq DEF Inv, Shared, Types, Ids
    <2>4. a \in Addrs
      BY <2>3 DEF SocketType
    <2>5. map[a] = h
      BY <1>1, <2>1, <2>2, <2>4 DEF Inv, Shared, AddrInv
    <2> QED BY <2>2, <2>4, <2>5 DEF Get
  <1> QED BY <1>1, InvHolds, PTL

\* A guest receives what was sent to an address that it bound the socket to.
THEOREM BinderReceives == Spec => []ReceivedByBinder
  <1>1. Inv => ReceivedByBinder
    BY DEF Inv, Shared
  <1> QED BY <1>1, InvHolds, PTL

-----------------------------------------------------------------------------
\* Within a sockaddr that is as long as it says parse_addr reads its bytes, not
\* what the stack held.
LEMMA BehindIs ==
  ASSUME NEW name \in Samples, NEW stale \in Stale, NEW j \in Nat, j < Len(name.bytes)
  PROVE  Behind(name, stale, j) = name.bytes[j + 1]
  <1>1. name.bytes \in Seq(Nat) /\ stale \in Seq(Nat) /\ Len(name.bytes) \in Nat /\ Len(stale) \in Nat
    BY NamesAssumption, StaleAssumption
  <1> DEFINE b == name.bytes
  <1> HIDE DEF b
  <1>2. b \in Seq(Nat) /\ Len(b) \in Nat /\ j < Len(b)
    BY <1>1 DEF b
  <1>3. j + 1 \in 1..(Len(b) + Len(stale)) /\ j + 1 <= Len(b)
    BY <1>1, <1>2
  <1>4. (b \o stale)[j + 1] = b[j + 1]
    BY <1>1, <1>2, <1>3, ConcatProperties
  <1> QED BY <1>4 DEF b, Behind

\* A proper address of the internet family.
LEMMA ParseInet ==
  ASSUME NEW name \in Samples, NEW stale \in Stale, Proper(name), name.family = "inet"
  PROVE  ParseAddr(name, stale) = <<"inet", [k \in 1..6 |-> name.bytes[k]]>>
  <1>1. Len(name.bytes) >= 6 /\ name.len = Len(name.bytes) + 2 /\ name.len <= StorageSize
        /\ Len(name.bytes) \in Nat
    BY NamesAssumption DEF Proper
  <1>2. name.len \in 2..StorageSize
    BY <1>1, StorageSizeAssumption
  <1>3. ASSUME NEW k \in 1..6 PROVE Behind(name, stale, k - 1) = name.bytes[k]
    <2>1. k - 1 \in Nat /\ k - 1 < Len(name.bytes) /\ (k - 1) + 1 = k
      BY <1>1
    <2> QED BY <2>1, BehindIs
  <1>4. InetAddr(name, stale) = <<"inet", [k \in 1..6 |-> name.bytes[k]]>>
    BY <1>3 DEF InetAddr
  <1> QED BY <1>2, <1>4 DEF ParseAddr

\* The path of name ends at byte e.
EndsAt(name, e) ==
  e \in DOMAIN name.bytes /\ e > 2 /\ name.bytes[e] = 0 /\ \A j \in 1..(e - 1) : name.bytes[j] # 0

\* A proper path: parse_addr keeps it, but for the first two characters.
LEMMA ParseUnix ==
  ASSUME NEW name \in Samples, NEW stale \in Stale, Proper(name), name.family = "unix",
         NEW e, EndsAt(name, e)
  PROVE  /\ e \in Nat /\ e >= 3
         /\ ParseAddr(name, stale) = <<"unix", [k \in 1..(e - 3) |-> name.bytes[k + 2]]>>
  <1>1. name.len = Len(name.bytes) + 2 /\ name.len <= StorageSize /\ Len(name.bytes) \in Nat
        /\ name.bytes \in Seq(Nat)
    BY NamesAssumption DEF Proper
  <1>2. name.len \in 2..StorageSize
    BY <1>1, StorageSizeAssumption
  <1>3. e \in 1..Len(name.bytes) /\ e >= 3 /\ e \in Nat
    BY <1>1 DEF EndsAt
  <1>4. e - 1 \in Ends(name, stale)
    <2>1. e - 1 \in Nat /\ e - 1 < Len(name.bytes) /\ (e - 1) + 1 = e /\ e - 1 \in 2..(name.len - 1)
      BY <1>1, <1>3
    <2>2. Behind(name, stale, e - 1) = name.bytes[e]
      BY <2>1, BehindIs
    <2> QED BY <2>1, <2>2 DEF Ends, Looked, EndsAt
  <1>5. ASSUME NEW i \in Ends(name, stale) PROVE e - 1 <= i /\ i \in Nat
    <2>1. i \in 2..(name.len - 1) /\ Behind(name, stale, i) = 0
      BY DEF Ends, Looked
    <2>2. i \in Nat /\ i >= 2
      BY <1>1, <2>1
    <2>3. ASSUME i < e - 1 PROVE FALSE
      <3>1. i < Len(name.bytes) /\ i + 1 \in 1..(e - 1)
        BY <1>1, <1>3, <2>2, <2>3
      <3>2. Behind(name, stale, i) = name.bytes[i + 1]
        BY <2>2, <3>1, BehindIs
      <3> QED BY <2>1, <3>1, <3>2 DEF EndsAt
    <2> QED BY <1>3, <2>2, <2>3
  <1> DEFINE end == CHOOSE i \in Ends(name, stale) : \A j \in Ends(name, stale) : i <= j
  <1>6. end = e - 1
    <2>1. end \in Ends(name, stale) /\ \A j \in Ends(name, stale) : end <= j
      BY <1>4, <1>5
    <2> HIDE DEF end
    <2>2. end <= e - 1 /\ e - 1 <= end /\ end \in Nat
      BY <1>4, <1>5, <2>1
    <2> QED BY <1>3, <2>2
  <1>7. UnixAddr(name, stale) = Path(name, stale, e - 1)
    <2>1. Ends(name, stale) # {}
      BY <1>4
    <2> QED BY <1>6, <2>1 DEF UnixAddr
  <1>8. ASSUME NEW k \in 1..(e - 3) PROVE Behind(name, stale, k + 1) = name.bytes[k + 2]
    <2>1. k + 1 \in Nat /\ k + 1 < Len(name.bytes) /\ (k + 1) + 1 = k + 2
      BY <1>1, <1>3
    <2> QED BY <2>1, BehindIs
  <1>9. (e - 1) - 2 = e - 3
    BY <1>3
  <1>10. Path(name, stale, e - 1) = <<"unix", [k \in 1..(e - 3) |-> name.bytes[k + 2]]>>
    BY <1>8, <1>9 DEF Path
  <1>11. ParseAddr(name, stale) = UnixAddr(name, stale)
    BY <1>2 DEF ParseAddr
  <1> QED BY <1>3, <1>7, <1>10, <1>11

\* Of two proper paths parse_addr makes the same address exactly if they are the
\* same but for the first two characters.
LEMMA UnixApart ==
  ASSUME NEW m \in Samples, NEW name \in Samples, NEW s \in Stale, NEW t \in Stale,
         Proper(m), Proper(name), m.family = "unix", name.family = "unix"
  PROVE  (ParseAddr(m, s) = ParseAddr(name, t)) <=> SameName(m, name)
  <1>1. PICK d : EndsAt(m, d)
    <2>1. ProperPath(m.bytes)
      BY DEF Proper
    <2> QED BY <2>1 DEF ProperPath, EndsAt
  <1>2. PICK e : EndsAt(name, e)
    <2>1. ProperPath(name.bytes)
      BY DEF Proper
    <2> QED BY <2>1 DEF ProperPath, EndsAt
  <1> DEFINE f == [k \in 1..(d - 3) |-> m.bytes[k + 2]]
             g == [k \in 1..(e - 3) |-> name.bytes[k + 2]]
  <1>3. d \in Nat /\ d >= 3 /\ ParseAddr(m, s) = <<"unix", f>>
    BY <1>1, ParseUnix
  <1>4. e \in Nat /\ e >= 3 /\ ParseAddr(name, t) = <<"unix", g>>
    BY <1>2, ParseUnix
  <1>5. ASSUME f = g PROVE SameName(m, name)
    <2>1. 1..(d - 3) = 1..(e - 3)
      <3>1. DOMAIN f = 1..(d - 3) /\ DOMAIN g = 1..(e - 3)
        OBVIOUS
      <3> HIDE DEF f, g
      <3> QED BY <1>5, <3>1
    <2>2. d = e
      <3>1. d < e => e - 3 \in 1..(e - 3) /\ e - 3 \notin 1..(d - 3)
        BY <1>3, <1>4
      <3>2. e < d => d - 3 \in 1..(d - 3) /\ d - 3 \notin 1..(e - 3)
        BY <1>3, <1>4
      <3> QED BY <1>3, <1>4, <2>1, <3>1, <3>2
    <2>3. ASSUME NEW i \in 3..(e - 1) PROVE m.bytes[i] = name.bytes[i]
      <3>1. i - 2 \in 1..(e - 3) /\ (i - 2) + 2 = i
        BY <1>4
      <3>2. f[i - 2] = m.bytes[i] /\ g[i - 2] = name.bytes[i]
        BY <2>2, <3>1
      <3> HIDE DEF f, g
      <3> QED BY <1>5, <3>2
    <2>4. e \in DOMAIN m.bytes \cap DOMAIN name.bytes /\ m.bytes[e] = 0 /\ name.bytes[e] = 0 /\ e > 2
          /\ \A i \in 1..(e - 1) : m.bytes[i] # 0 /\ name.bytes[i] # 0
      BY <1>1, <1>2, <2>2 DEF EndsAt
    <2> QED BY <2>3, <2>4 DEF SameName
  <1>6. ASSUME SameName(m, name) PROVE f = g
    <2>1. PICK c \in DOMAIN m.bytes \cap DOMAIN name.bytes :
            /\ c > 2 /\ m.bytes[c] = 0 /\ name.bytes[c] = 0
            /\ \A i \in 1..(c - 1) : m.bytes[i] # 0 /\ name.bytes[i] # 0
            /\ \A i \in 3..(c - 1) : m.bytes[i] = name.bytes[i]
      BY <1>6 DEF SameName
    <2>2. c \in Nat
      BY NamesAssumption DEF Proper
    <2>3. c = d
      <3>1. c < d => c \in 1..(d - 1)
        BY <1>3, <2>1, <2>2
      <3>2. d < c => d \in 1..(c - 1)
        BY <1>3, <2>1, <2>2
      <3> QED BY <1>1, <1>3, <2>1, <2>2, <3>1, <3>2 DEF EndsAt
    <2>4. c = e
      <3>1. c < e => c \in 1..(e - 1)
        BY <1>4, <2>1, <2>2
      <3>2. e < c => e \in 1..(c - 1)
        BY <1>4, <2>1, <2>2
      <3> QED BY <1>2, <1>4, <2>1, <2>2, <3>1, <3>2 DEF EndsAt
    <2>5. ASSUME NEW k \in 1..(e - 3) PROVE m.bytes[k + 2] = name.bytes[k + 2]
      <3>1. k + 2 \in 3..(c - 1)
        BY <1>4, <2>4
      <3> QED BY <2>1, <3>1
    <2> QED BY <2>3, <2>4, <2>5
  <1>7. (ParseAddr(m, s) = ParseAddr(name, t)) <=> f = g
    <2> HIDE DEF f, g
    <2> QED BY <1>3, <1>4
  <1> HIDE DEF f, g
  <1> QED BY <1>5, <1>6, <1>7

\* The same for two addresses of the internet family.
LEMMA InetApart ==
  ASSUME NEW m \in Samples, NEW name \in Samples, NEW s \in Stale, NEW t \in Stale,
         Proper(m), Proper(name), m.family = "inet", name.family = "inet"
  PROVE  (ParseAddr(m, s) = ParseAddr(name, t)) <=> SameName(m, name)
  <1> DEFINE f == [k \in 1..6 |-> m.bytes[k]]
             g == [k \in 1..6 |-> name.bytes[k]]
  <1>1. ParseAddr(m, s) = <<"inet", f>> /\ ParseAddr(name, t) = <<"inet", g>>
    BY ParseInet
  <1>2. f = g <=> \A i \in 1..6 : m.bytes[i] = name.bytes[i]
    <2>1. \A i \in 1..6 : f[i] = m.bytes[i] /\ g[i] = name.bytes[i]
      OBVIOUS
    <2>2. (\A i \in 1..6 : m.bytes[i] = name.bytes[i]) => f = g
      OBVIOUS
    <2> HIDE DEF f, g
    <2> QED BY <2>1, <2>2
  <1> HIDE DEF f, g
  <1> QED BY <1>1, <1>2 DEF SameName

\* Two sockaddrs as programs make them lead to the same socket exactly if they
\* name the same, whatever the stack held (parse_addr, which does not initialise
\* the variable that it copies into).
THEOREM NamesKeptApart == Spec => []NamesApart
  <1>1. NamesApart
    <2> SUFFICES ASSUME NEW m \in Samples, Proper(m), NEW name \in Samples, Proper(name),
                        NEW s \in Stale, NEW t \in Stale
                 PROVE  (ParseAddr(m, s) = ParseAddr(name, t)) <=> SameName(m, name)
      BY DEF NamesApart
    <2>1. m.family \in {"inet", "unix"} /\ name.family \in {"inet", "unix"}
      BY DEF Proper
    <2>2. CASE m.family = "inet" /\ name.family = "inet"
      BY <2>2, InetApart
    <2>3. CASE m.family = "unix" /\ name.family = "unix"
      BY <2>3, UnixApart
    <2>4. ASSUME NEW x \in Samples, NEW u \in Stale, Proper(x), x.family = "unix"
          PROVE  \E f : ParseAddr(x, u) = <<"unix", f>>
      <3>1. PICK e : EndsAt(x, e)
        BY <2>4 DEF Proper, ProperPath, EndsAt
      <3> QED BY <2>4, <3>1, ParseUnix
    <2>5. ASSUME NEW x \in Samples, NEW u \in Stale, Proper(x), x.family = "inet"
          PROVE  \E f : ParseAddr(x, u) = <<"inet", f>>
      BY <2>5, ParseInet
    <2>6. CASE m.family # name.family
      <3>1. ParseAddr(m, s) # ParseAddr(name, t)
        BY <2>1, <2>4, <2>5, <2>6
      <3> QED BY <2>6, <3>1 DEF SameName
    <2> QED BY <2>1, <2>2, <2>3, <2>6
  <1> QED BY <1>1, PTL
=============================================================================
