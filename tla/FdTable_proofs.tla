--------------------------- MODULE FdTable_proofs ---------------------------
(***************************************************************************)
(* Theorems about FdTable, for every capacity, every bound on the number   *)
(* of sockets and every finite set of wild descriptors.                    *)
(***************************************************************************)
EXTENDS FdTable, FiniteSetTheorems, SequenceTheorems, TLAPS

\* What taking the last element off a sequence leaves (vector::pop_back).
LEMMA FrontOfSeq ==
  ASSUME NEW S, NEW s \in Seq(S), s # <<>>
  PROVE  /\ Len(s) \in Nat \ {0}
         /\ s[Len(s)] \in S
         /\ SubSeq(s, 1, Len(s) - 1) \in Seq(S)
         /\ Len(SubSeq(s, 1, Len(s) - 1)) = Len(s) - 1
         /\ \A i \in 1..(Len(s) - 1) : SubSeq(s, 1, Len(s) - 1)[i] = s[i]
  <1> DEFINE n == Len(s) - 1
  <1>1. Len(s) \in Nat \ {0} /\ \A i \in 1..Len(s) : s[i] \in S
    OBVIOUS
  <1>2. n \in Nat /\ \A i \in 1..n : s[i] \in S
    BY <1>1
  <1> HIDE DEF n
  <1>3. /\ SubSeq(s, 1, n) \in Seq(S)
        /\ Len(SubSeq(s, 1, n)) = IF 1 <= n THEN n - 1 + 1 ELSE 0
        /\ \A i \in 1..(n - 1 + 1) : SubSeq(s, 1, n)[i] = s[1 + i - 1]
    BY <1>2, SubSeqProperties
  <1>4. /\ Len(SubSeq(s, 1, n)) = n
        /\ \A i \in 1..n : SubSeq(s, 1, n)[i] = s[i]
    BY <1>2, <1>3
  <1> QED BY <1>1, <1>3, <1>4 DEF n

\* The number insert picks is a natural number and, if reused, was handed out.
LEMMA InsertFdType ==
  ASSUME TypeOK
  PROVE  /\ InsertFd(table, unused) \in Nat
         /\ unused # <<>> => InsertFd(table, unused) \in handed
  <1>1. CASE unused = <<>>
    BY <1>1, FS_CardinalityType DEF InsertFd, TypeOK
  <1>2. CASE unused # <<>>
    BY <1>2, FrontOfSeq DEF InsertFd, TypeOK
  <1> QED BY <1>1, <1>2

\* TypeOK is preserved by every step, so it holds in every reachable state.
LEMMA TypeStep == TypeOK /\ [Next]_vars => TypeOK'
  <1> SUFFICES ASSUME TypeOK, [Next]_vars PROVE TypeOK'
    OBVIOUS
  <1> USE MaxObjectsAssumption, NoObjectAssumption, WildFdsAssumption
  <1>1. CASE Socket
    <2> DEFINE fd == InsertFd(table, unused)
    <2>1. fd \in Nat
      BY InsertFdType
    <2>2. /\ DOMAIN table' = DOMAIN table \cup {fd}
          /\ table'[fd] = created + 1
          /\ \A k \in DOMAIN table \ {fd} : table'[k] = table[k]
      BY <1>1 DEF Socket, AfterInsertTable, Put
    <2>3. /\ DOMAIN open' = DOMAIN open \cup {created + 1}
          /\ open'[created + 1] = fd
          /\ \A k \in DOMAIN open \ {created + 1} : open'[k] = open[k]
      BY <1>1 DEF Socket, Put
    <2>4. handed' = handed \cup {fd} /\ created' = created + 1 /\ created < MaxObjects
      BY <1>1 DEF Socket
    <2>5. IsFiniteSet(handed') /\ IsFiniteSet(DOMAIN table')
      BY <2>2, <2>4, FS_AddElement DEF TypeOK
    <2>6. unused' \in Seq(handed)
      <3>1. CASE unused = <<>>
        BY <1>1, <3>1 DEF Socket, AfterInsertUnused, TypeOK
      <3>2. CASE unused # <<>>
        BY <1>1, <3>2, FrontOfSeq DEF Socket, AfterInsertUnused, TypeOK
      <3> QED BY <3>1, <3>2
    <2>7. unused' \in Seq(handed')
      BY <2>4, <2>6
    <2>8. created' \in 0..MaxObjects
      BY <2>4 DEF TypeOK
    <2>9. \A k \in DOMAIN table' : table'[k] \in {NoObject} \cup 1..created'
      BY <2>2, <2>4 DEF TypeOK
    <2>10. /\ DOMAIN open' \in SUBSET (1..created')
           /\ \A obj \in DOMAIN open' : open'[obj] \in handed'
      BY <2>3, <2>4 DEF TypeOK
    <2> HIDE DEF fd
    <2> QED
      BY <2>1, <2>2, <2>4, <2>5, <2>7, <2>8, <2>9, <2>10 DEF LiveFds, TypeOK
  <1>2. CASE SocketEmfile
    BY <1>2 DEF SocketEmfile, TypeOK, LiveFds
  <1>3. ASSUME NEW fd \in handed \cup WildFds, Close(fd) PROVE TypeOK'
    <2>1. /\ DOMAIN table' = DOMAIN table \ {fd}
          /\ \A k \in DOMAIN table' : table'[k] = table[k]
      BY <1>3 DEF Close, AfterCloseTable, Restrict
    <2>2. IsFiniteSet(DOMAIN table')
      BY <2>1, FS_RemoveElement DEF TypeOK
    <2>3. fd \in DOMAIN table /\ fd \in handed
      BY <1>3 DEF Close, CanClose, Slot, LiveFds, TypeOK
    <2> QED
      BY <1>3, <2>1, <2>2, <2>3 DEF Close, AfterCloseUnused, Restrict, LiveFds, TypeOK
  <1>4. ASSUME NEW fd \in handed \cup WildFds, CloseEbadfd(fd) PROVE TypeOK'
    BY <1>4 DEF CloseEbadfd, vars, TypeOK, LiveFds
  <1>5. ASSUME NEW fd \in handed \cup WildFds, Get(fd) PROVE TypeOK'
    <2>1. /\ DOMAIN table' = DOMAIN table \cup {fd}
          /\ table'[fd] = Slot(table, fd)
          /\ \A k \in DOMAIN table \ {fd} : table'[k] = table[k]
      BY <1>5 DEF Get, AfterGet, Put
    <2>2. IsFiniteSet(DOMAIN table')
      BY <2>1, FS_AddElement DEF TypeOK
    <2> QED
      BY <1>5, <2>1, <2>2 DEF Get, Slot, LiveFds, TypeOK
  <1>6. CASE UNCHANGED vars
    BY <1>6 DEF vars, TypeOK, LiveFds
  <1> QED
    BY <1>1, <1>2, <1>3, <1>4, <1>5, <1>6 DEF Next

-----------------------------------------------------------------------------
\* Only finitely many numbers are known.
LEMMA KnownFinite ==
  ASSUME TypeOK
  PROVE  IsFiniteSet(Known) /\ Cardinality(Known) \in Nat
  <1>1. IsFiniteSet(handed \cup WildFds)
    BY WildFdsAssumption, FS_Union DEF TypeOK
  <1>2. Known \in SUBSET (handed \cup WildFds)
    BY DEF Known, Range, TypeOK
  <1> QED BY <1>1, <1>2, FS_Subset, FS_CardinalityType

\* The inductive invariant: types, the accounting of numbers, and the two
\* halves of the agreement between the table and the guest.
Inv == TypeOK /\ NumbersAccountedFor /\ DescriptorsStable /\ NothingLeaks

\* With no wild number among the table's own, the number that insert picks
\* when it has none to reuse is unknown to the table (unused_ empty, fd is
\* table_.size()).
LEMMA FreshNumber ==
  ASSUME Inv, unused = <<>>, WildFds \cap Nat = {}
  PROVE  /\ InsertFd(table, unused) = Cardinality(Known)
         /\ InsertFd(table, unused) \notin Known
  <1>1. Known = DOMAIN table
    BY DEF Known, Range
  <1>2. InsertFd(table, unused) = Cardinality(Known)
    BY <1>1 DEF InsertFd
  <1>3. Cardinality(Known) \in Nat
    BY KnownFinite DEF Inv
  <1>4. ASSUME Cardinality(Known) \in Known PROVE FALSE
    <2>1. Cardinality(Known) \in handed
      BY <1>1, <1>3, <1>4 DEF Inv, TypeOK
    <2> QED BY <2>1, <1>3 DEF Inv, NumbersAccountedFor
  <1> QED BY <1>2, <1>4

\* insert's assert(!slot) in every state of the inductive invariant.
LEMMA InvEmptySlot ==
  ASSUME Inv, WildFds \cap Nat = {}
  PROVE  Slot(table, InsertFd(table, unused)) = NoObject
  <1>1. CASE unused = <<>>
    BY <1>1, FreshNumber DEF Known, Slot
  <1>2. CASE unused # <<>>
    BY <1>2, FrontOfSeq DEF Inv, TypeOK, NumbersAccountedFor, InsertFd
  <1> QED BY <1>1, <1>2

\* How the table looks after insert.
LEMMA SocketEffect ==
  ASSUME TypeOK, Socket
  PROVE  /\ DOMAIN table' = DOMAIN table \cup {InsertFd(table, unused)}
         /\ table'[InsertFd(table, unused)] = created + 1
         /\ \A k \in DOMAIN table \ {InsertFd(table, unused)} : table'[k] = table[k]
         /\ DOMAIN open' = DOMAIN open \cup {created + 1}
         /\ open'[created + 1] = InsertFd(table, unused)
         /\ \A k \in DOMAIN open \ {created + 1} : open'[k] = open[k]
         /\ handed' = handed \cup {InsertFd(table, unused)}
         /\ created + 1 # NoObject
         /\ created + 1 \notin DOMAIN open
         /\ created \in Nat
  <1>1. created \in Nat /\ created + 1 # NoObject /\ created + 1 \notin DOMAIN open
    BY NoObjectAssumption, MaxObjectsAssumption DEF TypeOK
  <1>2. handed' = handed \cup {InsertFd(table, unused)}
    BY DEF Socket
  <1>3. /\ DOMAIN table' = DOMAIN table \cup {InsertFd(table, unused)}
        /\ table'[InsertFd(table, unused)] = created + 1
        /\ \A k \in DOMAIN table \ {InsertFd(table, unused)} : table'[k] = table[k]
    BY DEF Socket, AfterInsertTable, Put
  <1>4. /\ DOMAIN open' = DOMAIN open \cup {created + 1}
        /\ open'[created + 1] = InsertFd(table, unused)
        /\ \A k \in DOMAIN open \ {created + 1} : open'[k] = open[k]
    BY DEF Socket, Put
  <1> QED BY <1>1, <1>2, <1>3, <1>4

\* socket() keeps the accounting of numbers when it reuses a closed one: the
\* number moves from unused_ into the table.
LEMMA ReuseAccounts ==
  ASSUME Inv, Socket, unused # <<>>
  PROVE  NumbersAccountedFor'
  <1> DEFINE fd == InsertFd(table, unused)
             n == Len(unused) - 1
  <1>1. fd = unused[Len(unused)] /\ fd \in handed
    BY InsertFdType DEF InsertFd, Inv
  <1>2. /\ Len(unused) \in Nat \ {0} /\ n \in Nat /\ n + 1 = Len(unused)
        /\ unused' = SubSeq(unused, 1, n)
        /\ Len(unused') = n
        /\ DOMAIN unused' = 1..n
        /\ \A i \in 1..n : unused'[i] = unused[i]
    <2>1. unused \in Seq(handed) /\ unused' = SubSeq(unused, 1, n)
      BY DEF Inv, TypeOK, Socket, AfterInsertUnused
    <2>2. /\ Len(unused) \in Nat \ {0}
          /\ unused' \in Seq(handed) /\ Len(unused') = n
          /\ \A i \in 1..n : unused'[i] = unused[i]
      BY <2>1, FrontOfSeq
    <2> QED BY <2>1, <2>2
  <1>3. DOMAIN unused = 1..(n + 1)
    BY <1>2 DEF Inv, TypeOK
  <1> HIDE DEF n
  <1>4. Range(unused) = Range(unused') \cup {fd}
    <2>1. Range(unused) = {unused[i] : i \in 1..(n + 1)}
      BY <1>3 DEF Range
    <2>2. Range(unused') = {unused[i] : i \in 1..n}
      BY <1>2 DEF Range
    <2>3. fd = unused[n + 1]
      BY <1>1, <1>2
    <2>4. 1..(n + 1) = 1..n \cup {n + 1}
      BY <1>2
    <2> QED BY <2>1, <2>2, <2>3, <2>4
  <1> HIDE DEF fd
  <1>5. /\ DOMAIN table' = DOMAIN table \cup {fd}
        /\ table'[fd] # NoObject
        /\ \A k \in DOMAIN table \ {fd} : table'[k] = table[k]
        /\ handed' = handed
    BY <1>1, SocketEffect DEF Inv, fd
  <1>6. Known' = Known
    BY <1>4, <1>5 DEF Known
  <1>7. \A i \in DOMAIN unused' : unused'[i] = unused[i] /\ unused[i] # fd /\ i \in DOMAIN unused
    <2> SUFFICES ASSUME NEW i \in 1..n PROVE unused'[i] = unused[i] /\ unused[i] # fd /\ i \in DOMAIN unused
      BY <1>2
    <2>1. i \in DOMAIN unused /\ n + 1 \in DOMAIN unused /\ i # n + 1
      BY <1>2, <1>3
    <2>2. unused[i] # unused[n + 1]
      BY <2>1 DEF Inv, NumbersAccountedFor
    <2> QED BY <1>1, <1>2, <2>1, <2>2
  <1>8. \A i \in DOMAIN unused' : Slot(table', unused'[i]) = NoObject
    BY <1>5, <1>7 DEF Inv, NumbersAccountedFor, Slot
  <1>9. \A i, j \in DOMAIN unused' : unused'[i] = unused'[j] => i = j
    BY <1>7 DEF Inv, NumbersAccountedFor
  <1>10. \A k \in DOMAIN table' :
           table'[k] = NoObject => k \in Range(unused') \cup WildFds
    BY <1>4, <1>5 DEF Inv, NumbersAccountedFor
  <1>11. handed' \subseteq Known' /\ \A k \in handed' : k < Cardinality(Known')
    BY <1>5, <1>6 DEF Inv, NumbersAccountedFor
  <1> QED BY <1>8, <1>9, <1>10, <1>11 DEF NumbersAccountedFor

\* socket() keeps the accounting of numbers when it makes up a new one: the
\* count of known numbers, which was the new number, grows by one.
LEMMA FreshAccounts ==
  ASSUME Inv, Socket, unused = <<>>, WildFds \cap Nat = {}
  PROVE  NumbersAccountedFor'
  <1> DEFINE fd == InsertFd(table, unused)
  <1>1. fd = Cardinality(Known) /\ fd \notin Known
    BY FreshNumber
  <1>2. IsFiniteSet(Known) /\ Cardinality(Known) \in Nat
    BY KnownFinite DEF Inv
  <1>3. unused' = <<>>
    BY DEF Socket, AfterInsertUnused
  <1>4. Known = DOMAIN table /\ Range(unused') = {} /\ DOMAIN unused' = {}
    <2>1. DOMAIN <<>> = {}
      OBVIOUS
    <2>2. Range(unused) = {} /\ Range(unused') = {}
      BY <1>3, <2>1 DEF Range
    <2> QED BY <1>3, <2>1, <2>2 DEF Known
  <1> HIDE DEF fd
  <1>5. /\ DOMAIN table' = DOMAIN table \cup {fd}
        /\ table'[fd] # NoObject
        /\ \A k \in DOMAIN table \ {fd} : table'[k] = table[k]
        /\ handed' = handed \cup {fd}
    BY SocketEffect DEF Inv, fd
  <1>6. Known' = Known \cup {fd}
    BY <1>4, <1>5 DEF Known
  <1>7. Cardinality(Known') = Cardinality(Known) + 1
    BY <1>1, <1>2, <1>6, FS_AddElement
  <1>8. handed' \subseteq Known' /\ \A k \in handed' : k < Cardinality(Known')
    <2>1. \A k \in handed : k \in Nat /\ k < Cardinality(Known)
      BY DEF Inv, TypeOK, NumbersAccountedFor
    <2>2. handed \subseteq Known
      BY DEF Inv, NumbersAccountedFor
    <2> QED BY <1>1, <1>2, <1>5, <1>6, <1>7, <2>1, <2>2
  <1>9. \A k \in DOMAIN table' :
           table'[k] = NoObject => k \in Range(unused') \cup WildFds
    <2>1. Range(unused) = {}
      BY DEF Range
    <2> QED BY <1>5, <2>1 DEF Inv, NumbersAccountedFor
  <1> QED BY <1>4, <1>8, <1>9 DEF NumbersAccountedFor

\* close() keeps the accounting of numbers: the number moves from the table
\* into unused_, where it was not before because it had an object.
LEMMA CloseAccounts ==
  ASSUME Inv, NEW fd \in handed \cup WildFds, Close(fd)
  PROVE  NumbersAccountedFor'
  <1>1. /\ DOMAIN table' = DOMAIN table \ {fd}
        /\ \A k \in DOMAIN table' : table'[k] = table[k]
    BY DEF Close, AfterCloseTable, Restrict
  <1>2. fd \in DOMAIN table /\ Slot(table, fd) # NoObject
    BY DEF Close, CanClose, Slot
  <1>3. fd \in handed /\ handed' = handed /\ unused \in Seq(handed)
    BY <1>2 DEF Close, Inv, TypeOK, LiveFds, Slot
  <1> DEFINE n == Len(unused)
  <1>4. /\ n \in Nat
        /\ DOMAIN unused = 1..n
        /\ DOMAIN unused' = 1..(n + 1)
        /\ unused'[n + 1] = fd
        /\ \A i \in 1..n : unused'[i] = unused[i]
    BY <1>3 DEF Close, AfterCloseUnused
  <1> HIDE DEF n
  <1>5. 1..(n + 1) = 1..n \cup {n + 1} /\ n + 1 \notin 1..n
    BY <1>4
  <1>6. Range(unused') = Range(unused) \cup {fd}
    <2>1. Range(unused) = {unused[i] : i \in 1..n}
      BY <1>4 DEF Range
    <2>2. Range(unused') = {unused'[i] : i \in 1..n} \cup {unused'[n + 1]}
      BY <1>4, <1>5 DEF Range
    <2> QED BY <1>4, <2>1, <2>2
  <1>7. Known' = Known
    BY <1>1, <1>2, <1>6 DEF Known
  <1>8. \A i \in 1..n : unused[i] # fd
    BY <1>2, <1>4 DEF Inv, NumbersAccountedFor
  <1>9. \A i \in DOMAIN unused' : Slot(table', unused'[i]) = NoObject
    <2>1. \A i \in 1..n : Slot(table, unused[i]) = NoObject
      BY <1>4 DEF Inv, NumbersAccountedFor
    <2>2. Slot(table', fd) = NoObject
      BY <1>1 DEF Slot
    <2>3. \A i \in 1..n : Slot(table', unused'[i]) = NoObject
      BY <1>1, <1>4, <2>1 DEF Slot
    <2> QED BY <1>4, <1>5, <2>2, <2>3
  <1>10. \A i, j \in DOMAIN unused' : unused'[i] = unused'[j] => i = j
    <2>1. \A i, j \in 1..n : unused[i] = unused[j] => i = j
      BY <1>4 DEF Inv, NumbersAccountedFor
    <2> QED BY <1>4, <1>5, <1>8, <2>1
  <1>11. \A k \in DOMAIN table' :
           table'[k] = NoObject => k \in Range(unused') \cup WildFds
    BY <1>1, <1>6 DEF Inv, NumbersAccountedFor
  <1>12. handed' \subseteq Known' /\ \A k \in handed' : k < Cardinality(Known')
    BY <1>3, <1>7 DEF Inv, NumbersAccountedFor
  <1> QED BY <1>9, <1>10, <1>11, <1>12 DEF NumbersAccountedFor

\* A look-up keeps the accounting of numbers: the entry it may add is for a
\* number that is known already or wild.
LEMMA GetAccounts ==
  ASSUME Inv, NEW fd \in handed \cup WildFds, Get(fd)
  PROVE  NumbersAccountedFor'
  <1>1. /\ DOMAIN table' = DOMAIN table \cup {fd}
        /\ table'[fd] = Slot(table, fd)
        /\ \A k \in DOMAIN table \ {fd} : table'[k] = table[k]
    BY DEF Get, AfterGet, Put
  <1>2. unused' = unused /\ handed' = handed
    BY DEF Get
  <1>3. \A k : Slot(table', k) = Slot(table, k)
    BY <1>1 DEF Slot
  <1>4. Known' = Known \cup {fd} /\ Range(unused') = Range(unused)
    BY <1>1, <1>2 DEF Known, Range
  <1>5. /\ Cardinality(Known) \in Nat
        /\ Cardinality(Known') \in Nat
        /\ Cardinality(Known) <= Cardinality(Known')
    <2>1. IsFiniteSet(Known) /\ Cardinality(Known) \in Nat
      BY KnownFinite DEF Inv
    <2>2. CASE fd \in Known
      BY <1>4, <2>1, <2>2
    <2>3. CASE fd \notin Known
      <3>1. Cardinality(Known \cup {fd}) = Cardinality(Known) + 1
        BY <2>1, <2>3, FS_AddElement
      <3> QED BY <1>4, <2>1, <3>1
    <2> QED BY <2>2, <2>3
  <1>6. handed' \subseteq Known' /\ \A k \in handed' : k < Cardinality(Known')
    <2>1. handed \subseteq Known /\ \A k \in handed : k \in Nat /\ k < Cardinality(Known)
      BY DEF Inv, TypeOK, NumbersAccountedFor
    <2> QED BY <1>2, <1>4, <1>5, <2>1
  <1>7. \A k \in DOMAIN table' :
           table'[k] = NoObject => k \in Range(unused') \cup WildFds
    <2>1. \A k \in DOMAIN table : table[k] = NoObject => k \in Range(unused) \cup WildFds
      BY DEF Inv, NumbersAccountedFor
    <2>2. fd \notin DOMAIN table => fd \in Range(unused) \cup WildFds
      BY DEF Inv, NumbersAccountedFor, Known
    <2> QED BY <1>1, <1>4, <2>1, <2>2 DEF Slot
  <1>8. \A i \in DOMAIN unused' : Slot(table', unused'[i]) = NoObject
    BY <1>2, <1>3 DEF Inv, NumbersAccountedFor
  <1>9. \A i, j \in DOMAIN unused' : unused'[i] = unused'[j] => i = j
    BY <1>2 DEF Inv, NumbersAccountedFor
  <1> QED BY <1>6, <1>7, <1>8, <1>9 DEF NumbersAccountedFor

\* The table and the guest agree after every step: no insert replaces a live
\* entry (its slot was empty) and no close touches another descriptor.
LEMMA AgreementStep ==
  ASSUME Inv, [Next]_vars, WildFds \cap Nat = {}
  PROVE  (DescriptorsStable /\ NothingLeaks)'
  <1>1. CASE Socket
    <2> DEFINE fd == InsertFd(table, unused)
               obj == created + 1
    <2>1. Slot(table, fd) = NoObject
      BY InvEmptySlot
    <2>2. /\ DOMAIN table' = DOMAIN table \cup {fd}
          /\ table'[fd] = obj
          /\ \A k \in DOMAIN table \ {fd} : table'[k] = table[k]
          /\ DOMAIN open' = DOMAIN open \cup {obj}
          /\ open'[obj] = fd
          /\ \A k \in DOMAIN open \ {obj} : open'[k] = open[k]
          /\ obj # NoObject
          /\ obj \notin DOMAIN open
      BY <1>1, SocketEffect DEF Inv
    <2>3. \A o \in DOMAIN open : Slot(table, open[o]) = o /\ o # NoObject
      BY NoObjectAssumption, MaxObjectsAssumption DEF Inv, DescriptorsStable, TypeOK
    <2> HIDE DEF fd, obj
    <2>4. DescriptorsStable'
      BY <2>1, <2>2, <2>3 DEF DescriptorsStable, Slot
    <2>5. LiveFds(table') = LiveFds(table) \cup {fd}
      BY <2>1, <2>2 DEF LiveFds, Slot
    <2>6. {open'[o] : o \in DOMAIN open'} = {open[o] : o \in DOMAIN open} \cup {fd}
      BY <2>2
    <2>7. NothingLeaks'
      BY <2>5, <2>6 DEF NothingLeaks, Inv
    <2> QED BY <2>4, <2>7
  <1>2. CASE SocketEmfile
    BY <1>2 DEF SocketEmfile, Inv, DescriptorsStable, NothingLeaks
  <1>3. ASSUME NEW fd \in handed \cup WildFds, Close(fd)
        PROVE  (DescriptorsStable /\ NothingLeaks)'
    <2>1. /\ DOMAIN table' = DOMAIN table \ {fd}
          /\ \A k \in DOMAIN table' : table'[k] = table[k]
      BY <1>3 DEF Close, AfterCloseTable, Restrict
    <2>2. /\ DOMAIN open' = {o \in DOMAIN open : open[o] # fd}
          /\ \A o \in DOMAIN open' : open'[o] = open[o]
      BY <1>3 DEF Close, Restrict
    <2>3. DescriptorsStable'
      BY <2>1, <2>2 DEF Inv, DescriptorsStable, Slot
    <2>4. LiveFds(table') = LiveFds(table) \ {fd}
      BY <2>1 DEF LiveFds
    <2>5. {open'[o] : o \in DOMAIN open'} = {open[o] : o \in DOMAIN open} \ {fd}
      BY <2>2
    <2> QED BY <2>3, <2>4, <2>5 DEF Inv, NothingLeaks
  <1>4. ASSUME NEW fd \in handed \cup WildFds, CloseEbadfd(fd)
        PROVE  (DescriptorsStable /\ NothingLeaks)'
    BY <1>4 DEF CloseEbadfd, vars, Inv, DescriptorsStable, NothingLeaks
  <1>5. ASSUME NEW fd \in handed \cup WildFds, Get(fd)
        PROVE  (DescriptorsStable /\ NothingLeaks)'
    <2>1. /\ DOMAIN table' = DOMAIN table \cup {fd}
          /\ table'[fd] = Slot(table, fd)
          /\ \A k \in DOMAIN table \ {fd} : table'[k] = table[k]
          /\ open' = open
      BY <1>5 DEF Get, AfterGet, Put
    <2>2. (\A k : Slot(table', k) = Slot(table, k)) /\ LiveFds(table') = LiveFds(table)
      BY <2>1 DEF Slot, LiveFds
    <2> QED BY <2>1, <2>2 DEF Inv, DescriptorsStable, NothingLeaks
  <1>6. CASE UNCHANGED vars
    BY <1>6 DEF vars, Inv, DescriptorsStable, NothingLeaks
  <1> QED
    BY <1>1, <1>2, <1>3, <1>4, <1>5, <1>6 DEF Next

\* The accounting of numbers is kept by every step.
LEMMA AccountingStep ==
  ASSUME Inv, [Next]_vars, WildFds \cap Nat = {}
  PROVE  NumbersAccountedFor'
  <1>1. CASE Socket
    BY <1>1, ReuseAccounts, FreshAccounts
  <1>2. CASE SocketEmfile
    BY <1>2 DEF SocketEmfile, Inv, NumbersAccountedFor, Known
  <1>3. ASSUME NEW fd \in handed \cup WildFds, CloseEbadfd(fd)
        PROVE  NumbersAccountedFor'
    BY <1>3 DEF CloseEbadfd, vars, Inv, NumbersAccountedFor, Known
  <1>4. CASE UNCHANGED vars
    BY <1>4 DEF vars, Inv, NumbersAccountedFor, Known
  <1> QED
    BY <1>1, <1>2, <1>3, <1>4, CloseAccounts, GetAccounts DEF Next

\* The initial table satisfies the invariant.
LEMMA InvInit == Init => Inv
  <1> SUFFICES ASSUME Init PROVE Inv
    OBVIOUS
  <1>1. DOMAIN <<>> = {}
    OBVIOUS
  <1>2. IsFiniteSet({}) /\ Cardinality({}) = 0
    BY FS_EmptySet
  <1>3. TypeOK
    BY <1>1, <1>2, MaxObjectsAssumption DEF Init, TypeOK, LiveFds
  <1>4. NumbersAccountedFor
    BY <1>1, <1>2 DEF Init, NumbersAccountedFor, Known, Range
  <1>5. DescriptorsStable /\ NothingLeaks
    BY <1>1 DEF Init, DescriptorsStable, NothingLeaks, LiveFds
  <1> QED BY <1>3, <1>4, <1>5 DEF Inv

-----------------------------------------------------------------------------
\* The table's state is well typed, whatever descriptors the guest makes up.
THEOREM TypeCorrect == Spec => []TypeOK
  <1>1. Init => TypeOK
    BY InvInit DEF Inv
  <1> QED BY <1>1, TypeStep, PTL DEF Spec

\* If no number that the guest makes up is one the table could hand out (it
\* uses at most negative ones), the invariant holds in every state.
THEOREM InvHolds ==
  ASSUME WildFds \cap Nat = {}
  PROVE  Spec => []Inv
  <1>1. Inv /\ [Next]_vars => Inv'
    BY TypeStep, AgreementStep, AccountingStep DEF Inv
  <1> QED BY <1>1, InvInit, PTL DEF Spec

\* The inductive heart: every descriptor handed out stays known, below the
\* number of known ones, and listed once if it awaits reuse.
THEOREM NumbersAccounted ==
  ASSUME WildFds \cap Nat = {}
  PROVE  Spec => []NumbersAccountedFor
  <1>1. Inv => NumbersAccountedFor
    BY DEF Inv
  <1> QED BY <1>1, InvHolds, PTL

\* insert's assert(!slot) never fails: the number it takes has no object.
THEOREM SlotsEmpty ==
  ASSUME WildFds \cap Nat = {}
  PROVE  Spec => []InsertsIntoEmptySlot
  <1>1. Inv => InsertsIntoEmptySlot
    BY InvEmptySlot DEF InsertsIntoEmptySlot, Inv
  <1> QED BY <1>1, InvHolds, PTL

\* The descriptor table a guest relies on: an open descriptor names its object
\* until it is closed.
THEOREM StableDescriptors ==
  ASSUME WildFds \cap Nat = {}
  PROVE  Spec => []DescriptorsStable
  <1>1. Inv => DescriptorsStable
    BY DEF Inv
  <1> QED BY <1>1, InvHolds, PTL

\* A closed descriptor leaves no entry behind.
THEOREM NoLeaks ==
  ASSUME WildFds \cap Nat = {}
  PROVE  Spec => []NothingLeaks
  <1>1. Inv => NothingLeaks
    BY DEF Inv
  <1> QED BY <1>1, InvHolds, PTL

\* EMFILE is returned only when the guest holds capacity descriptors, less one
\* for each wild number it has looked up.
THEOREM EmfileCorrect ==
  ASSUME WildFds \cap Nat = {}
  PROVE  Spec => []EmfileMeansFull
  <1>1. ASSUME Inv PROVE EmfileMeansFull
    <2> SUFFICES ASSUME IsFull(table, unused)
                 PROVE  Cardinality(LiveFds(table)) + Cardinality(WildFds) >= Capacity
      BY DEF EmfileMeansFull
    <2>1. unused = <<>> /\ Capacity <= Cardinality(DOMAIN table)
      BY DEF IsFull
    <2>2. Range(unused) = {}
      BY <2>1 DEF Range
    <2>3. DOMAIN table \subseteq LiveFds(table) \cup WildFds
      BY <2>2, <1>1 DEF Inv, NumbersAccountedFor, LiveFds
    <2>4. IsFiniteSet(LiveFds(table)) /\ IsFiniteSet(WildFds)
      BY <1>1, WildFdsAssumption, FS_Subset DEF Inv, TypeOK
    <2>5. /\ IsFiniteSet(LiveFds(table) \cup WildFds)
          /\ Cardinality(LiveFds(table) \cup WildFds) <=
               Cardinality(LiveFds(table)) + Cardinality(WildFds)
      <3>1. /\ IsFiniteSet(LiveFds(table) \cup WildFds)
            /\ IsFiniteSet(LiveFds(table) \cap WildFds)
            /\ Cardinality(LiveFds(table) \cup WildFds) =
                 Cardinality(LiveFds(table)) + Cardinality(WildFds)
                   - Cardinality(LiveFds(table) \cap WildFds)
        BY <2>4, FS_Union, FS_Intersection
      <3> QED BY <2>4, <3>1, FS_CardinalityType
    <2>6. Cardinality(DOMAIN table) <= Cardinality(LiveFds(table) \cup WildFds)
      BY <2>3, <2>5, FS_Subset
    <2> QED
      BY <2>1, <2>4, <2>5, <2>6, FS_CardinalityType, FS_Subset, CapacityAssumption, <1>1 DEF Inv, TypeOK
  <1> QED BY <1>1, InvHolds, PTL
=============================================================================
