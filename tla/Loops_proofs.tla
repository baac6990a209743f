---------------------------- MODULE Loops_proofs ----------------------------
(***************************************************************************)
(* Theorems about the two components that go through a list entry by       *)
(* entry: Disk, whose open files write their backlogs to the file, for     *)
(* every set of open files, every number of writes and every size; and     *)
(* HookTable, whose table is built from the list of hooks, for every such  *)
(* list, every set of numbers and every content of the memory past it.     *)
(*                                                                         *)
(* Both models are folds, and the first part is about those.  The second   *)
(* has the invariant of the open files, the third the refinement of File.  *)
(* The fourth shows that a look-up in the table finds what the list names, *)
(* and the fifth that get_hook's statistics classify a number by that      *)
(* alone.                                                                  *)
(***************************************************************************)
EXTENDS Disk, HookTable, SequenceTheorems, WellFoundedInduction, TLAPS

\* Induction over the numbers up to top, for a set of numbers.
LEMMA UpTo ==
  ASSUME NEW top \in Nat, NEW T, 0 \in T, \A k \in 0..(top - 1) : k \in T => k + 1 \in T
  PROVE  0..top \subseteq T
  <1> SUFFICES ASSUME ~(0..top \subseteq T) PROVE FALSE
    OBVIOUS
  <1> DEFINE B == {k \in 0..top : k \notin T}
  <1>1. B \subseteq Nat /\ B # {}
    OBVIOUS
  <1>2. PICK x \in B : \A y \in B : ~(<<y, x>> \in OpToRel(<, Nat))
    BY <1>1, NatLessThanWellFounded, WFMin
  <1>3. x # 0 /\ x \in 0..top /\ x \notin T
    BY <1>2
  <1>5. x - 1 \in 0..(top - 1) /\ x - 1 < x /\ x \in Nat /\ x - 1 \in Nat
    BY <1>3
  <1>4. x - 1 \notin B
    BY <1>2, <1>5 DEF OpToRel
  <1> QED BY <1>3, <1>4, <1>5

\* The largest element of an interval that starts with 1.
LEMMA MaxOf ==
  ASSUME NEW k \in Nat, NEW s \in SUBSET (1..(k + 1)), k + 1 \in s
  PROVE  Max(s) = k + 1
  <1>1. \A x \in s : (\A y \in s : x >= y) <=> x = k + 1
    OBVIOUS
  <1>2. \E x \in s : \A y \in s : x >= y
    BY <1>1
  <1>3. Max(s) \in s /\ \A y \in s : Max(s) >= y
    BY <1>2 DEF Max
  <1> QED BY <1>1, <1>3

\* A set of numbers up to top that is not empty has a largest one.
LEMMA MaxIn ==
  ASSUME NEW top \in Nat, NEW s \in SUBSET (1..top), s # {}
  PROVE  Max(s) \in s
  <1> DEFINE T == {top - x : x \in s}
  <1>0. \A x \in s : x \in Int /\ top - x \in Nat
    OBVIOUS
  <1>1. T \subseteq Nat /\ T # {}
    BY <1>0
  <1>2. PICK t \in T : \A u \in T : ~(<<u, t>> \in OpToRel(<, Nat))
    BY <1>1, NatLessThanWellFounded, WFMin
  <1>3. \A u \in T : t <= u
    <2> HIDE DEF T
    <2>1. \A u \in T : u \in Nat /\ t \in Nat /\ ~(u < t)
      BY <1>1, <1>2 DEF OpToRel
    <2> QED BY <2>1
  <1>4. PICK x \in s : t = top - x
    OBVIOUS
  <1>5. \A y \in s : top - y \in T
    OBVIOUS
  <1>6. \A y \in s : top - x <= top - y
    BY <1>3, <1>4, <1>5
  <1>7. \A y \in s : x >= y
    BY <1>0, <1>6
  <1> QED BY <1>7 DEF Max

\* it is what the community modules' fold of F over 1..top iterates over.
IsFold(it, top, M, base, F) ==
  /\ it \in [SUBSET (1..top) -> M]
  /\ \A s \in SUBSET (1..top) :
       it[s] = IF s = {} THEN base ELSE F[<<Max(s), it[s \ {Max(s)}]>>]

\* A fold over a sequence of numbers exists.
LEMMA FoldExists ==
  ASSUME NEW top \in Nat, NEW M, NEW base \in M, NEW F \in [(1..top) \X M -> M]
  PROVE  \E it : IsFold(it, top, M, base, F)
  <1> DEFINE Folds(m, it) == \A s \in SUBSET (1..m) :
               it[s] = IF s = {} THEN base ELSE F[<<Max(s), it[s \ {Max(s)}]>>]
             T == {m \in 0..top : \E it \in [SUBSET (1..m) -> M] : Folds(m, it)}
  <1>1. 0 \in T
    <2> DEFINE it == [s \in SUBSET (1..0) |-> base]
    <2>1. it \in [SUBSET (1..0) -> M]
      OBVIOUS
    <2>2. \A s \in SUBSET (1..0) : s = {}
      OBVIOUS
    <2>3. \A s \in SUBSET (1..0) : s = {} /\ it[s] = base
      BY <2>2
    <2> HIDE DEF it
    <2>4. Folds(0, it)
      BY <2>3
    <2> HIDE DEF Folds
    <2>5. \E f \in [SUBSET (1..0) -> M] : Folds(0, f)
      BY <2>1, <2>4
    <2>6. 0 \in 0..top
      OBVIOUS
    <2> QED BY <2>5, <2>6
  <1>2. ASSUME NEW k \in 0..(top - 1), k \in T PROVE k + 1 \in T
    <2>1. PICK f \in [SUBSET (1..k) -> M] : Folds(k, f)
      BY <1>2
    <2> DEFINE it == [s \in SUBSET (1..(k + 1)) |->
                        IF k + 1 \in s THEN F[<<k + 1, f[s \ {k + 1}]>>] ELSE f[s]]
    <2>2. ASSUME NEW s \in SUBSET (1..(k + 1)) PROVE s \ {k + 1} \in SUBSET (1..k)
      OBVIOUS
    <2>3. ASSUME NEW s \in SUBSET (1..(k + 1)), k + 1 \notin s PROVE s \in SUBSET (1..k) /\ it[s] = f[s]
      BY <2>3
    <2>4. it \in [SUBSET (1..(k + 1)) -> M]
      BY <2>2, <2>3
    <2>5. ASSUME NEW s \in SUBSET (1..(k + 1))
          PROVE  it[s] = IF s = {} THEN base ELSE F[<<Max(s), it[s \ {Max(s)}]>>]
      <3>1. CASE k + 1 \in s
        <4>1. Max(s) = k + 1
          BY <3>1, MaxOf
        <4>2. it[s \ {k + 1}] = f[s \ {k + 1}]
          BY <2>2, <2>3
        <4>3. it[s] = F[<<k + 1, f[s \ {k + 1}]>>]
          BY <3>1
        <4> QED BY <3>1, <4>1, <4>2, <4>3
      <3>2. CASE k + 1 \notin s
        <4>1. s \in SUBSET (1..k) /\ it[s] = f[s]
          BY <2>3, <3>2
        <4>2. f[s] = IF s = {} THEN base ELSE F[<<Max(s), f[s \ {Max(s)}]>>]
          BY <2>1, <4>1
        <4>3. s \ {Max(s)} \in SUBSET (1..(k + 1)) /\ k + 1 \notin s \ {Max(s)}
          BY <3>2
        <4>4. it[s \ {Max(s)}] = f[s \ {Max(s)}]
          BY <2>3, <4>3
        <4> HIDE DEF it
        <4> QED BY <4>1, <4>2, <4>4
      <3> QED BY <3>1, <3>2
    <2> HIDE DEF it
    <2>6. Folds(k + 1, it)
      BY <2>5
    <2> HIDE DEF Folds
    <2> QED BY <2>4, <2>6
  <1> HIDE DEF T
  <1>3. top \in T
    <2>1. 0..top \subseteq T
      BY <1>1, <1>2, UpTo
    <2> QED BY <2>1
  <1> QED BY <1>3 DEF T, IsFold

-----------------------------------------------------------------------------
\* What a call writes is a sequence of at most MaxLen bytes.
LEMMA DataIs ==
  ASSUME NEW d \in Data
  PROVE  d \in Seq(Bytes) /\ Len(d) \in 0..MaxLen
  <1>1. PICK n \in 0..MaxLen : d \in [1..n -> Bytes]
    BY DEF Data
  <1>2. n \in Nat /\ n \in 0..MaxLen
    BY MaxLenAssumption
  <1>3. d \in Seq(Bytes) /\ Len(d) = n
    BY <1>1, <1>2
  <1> QED BY <1>2, <1>3

\* disk_file::write leaves a sequence of bytes, not shorter than before and
\* within the limit.
LEMMA WriteAtIs ==
  ASSUME NEW b \in Seq(Bytes), NEW p \in Nat, NEW d \in Seq(Bytes)
  PROVE  /\ WriteAt(b, p, d) \in Seq(Bytes)
         /\ Len(WriteAt(b, p, d)) = IF p + Len(d) > Len(b) THEN p + Len(d) ELSE Len(b)
  <1> DEFINE top == IF p + Len(d) > Len(b) THEN p + Len(d) ELSE Len(b)
             z == WriteAt(b, p, d)
  <1>1. top \in Nat /\ Len(b) \in Nat /\ Len(d) \in Nat
    OBVIOUS
  <1>2. ASSUME NEW i \in 1..top PROVE z[i] \in Bytes
    <2>1. CASE i > p /\ i <= p + Len(d)
      <3>1. z[i] = d[i - p]
        BY <2>1 DEF WriteAt
      <3>2. i - p \in 1..Len(d)
        BY <1>1, <2>1
      <3> QED BY <3>1, <3>2
    <2>2. CASE ~(i > p /\ i <= p + Len(d)) /\ i <= Len(b)
      <3>1. z[i] = b[i]
        BY <2>2 DEF WriteAt
      <3>2. i \in 1..Len(b)
        BY <1>1, <2>2
      <3> QED BY <3>1, <3>2
    <2>3. CASE ~(i > p /\ i <= p + Len(d)) /\ ~(i <= Len(b))
      <3>1. z[i] = 0
        BY <2>3 DEF WriteAt
      <3> QED BY <3>1, BytesAssumption
    <2> QED BY <2>1, <2>2, <2>3
  <1>3. z = [i \in 1..top |-> z[i]]
    BY DEF WriteAt
  <1> HIDE DEF z, top
  <1>4. z \in [1..top -> Bytes]
    BY <1>2, <1>3
  <1>5. z \in Seq(Bytes) /\ Len(z) = top
    BY <1>1, <1>4
  <1> QED BY <1>5 DEF z, top

\* What disk_file::write makes of a file: accepted or not, it is one.
Longer(z, b) ==
  /\ z \in Seq(Bytes) /\ Len(z) >= Len(b)
  /\ Len(b) < MaxFile + MaxLen => Len(z) < MaxFile + MaxLen

\* A write that came to the file is such a step.
LEMMA WrittenIs ==
  ASSUME NEW b \in Seq(Bytes), NEW req \in Reqs
  PROVE  Longer(Written(b, req), b)
  <1>1. req.pos \in Nat /\ req.bytes \in Data
    BY SizesAssumption DEF Reqs
  <1>2. req.bytes \in Seq(Bytes) /\ Len(req.bytes) \in 0..MaxLen
    BY <1>1, DataIs
  <1>3. Len(b) \in Nat /\ MaxFile \in Nat /\ MaxLen \in Nat
    BY SizesAssumption, MaxLenAssumption
  <1>4. CASE CanWrite(req.pos)
    <2> DEFINE z == Written(b, req)
               l == Len(req.bytes)
    <2>1. /\ z \in Seq(Bytes)
          /\ Len(z) = IF req.pos + l > Len(b) THEN req.pos + l ELSE Len(b)
      BY <1>1, <1>2, <1>4, WriteAtIs DEF Written
    <2>2. req.pos < MaxFile /\ l \in 0..MaxLen
      BY <1>2, <1>4 DEF CanWrite
    <2> HIDE DEF z, l
    <2>3. Longer(z, b)
      BY <1>1, <1>3, <2>1, <2>2 DEF Longer
    <2> QED BY <2>3 DEF z
  <1>5. CASE ~CanWrite(req.pos)
    BY <1>3, <1>5 DEF Written, Longer
  <1> QED BY <1>4, <1>5

\* fsync_unlocked as the loop that it is: the contents after each entry.
Steps(g, c, reqs) == \A k \in 1..c : g[k] = Written(g[k - 1], reqs[k])
IsWriting(g, c, b, reqs) ==
  /\ g \in [0..c -> Seq(Bytes)]
  /\ g[0] = b
  /\ Steps(g, c, reqs)
  /\ WriteAll(b, reqs) = g[c]

\* There are such contents.
LEMMA WriteLoop ==
  ASSUME NEW b \in Seq(Bytes), NEW reqs \in Seq(Reqs), NEW c \in Nat, c = Len(reqs)
  PROVE  \E g : IsWriting(g, c, b, reqs)
  <1> DEFINE M == Seq(Bytes)
             F == [x \in (1..c) \X M |-> Written(x[2], reqs[x[1]])]
             iter[s \in SUBSET DOMAIN reqs] ==
               IF s = {} THEN b
               ELSE LET x == Max(s) IN Written(iter[s \ {x}], reqs[x])
  <1>14. DOMAIN reqs = 1..c
    OBVIOUS
  <1>1. WriteAll(b, reqs) = iter[DOMAIN reqs]
    BY DEF WriteAll, FoldLeft, MapThenFoldSet
  <1>2. ASSUME NEW t \in M, NEW k \in 1..c PROVE Written(t, reqs[k]) \in M
    <2>1. reqs[k] \in Reqs
      BY <1>14
    <2>2. Longer(Written(t, reqs[k]), t)
      BY <2>1, WrittenIs
    <2> QED BY <2>2 DEF Longer
  <1> DEFINE Eq(f) == f = [s \in SUBSET DOMAIN reqs |->
               IF s = {} THEN b ELSE Written(f[s \ {Max(s)}], reqs[Max(s)])]
  <1>3. iter = CHOOSE f : Eq(f)
    OBVIOUS
  <1> HIDE DEF iter, M
  <1>4. F \in [(1..c) \X M -> M]
    BY <1>2
  <1>5. PICK it : IsFold(it, c, M, b, F)
    <2> HIDE DEF F
    <2>1. b \in M
      BY DEF M
    <2> QED BY <1>4, <2>1, FoldExists
  <1>6. Eq(it)
    <2>2. ASSUME NEW s \in SUBSET (1..c), s # {}
          PROVE  F[<<Max(s), it[s \ {Max(s)}]>>] = Written(it[s \ {Max(s)}], reqs[Max(s)])
      <3>1. Max(s) \in s
        BY <2>2, MaxIn
      <3>2. Max(s) \in 1..c
        BY <3>1
      <3>3. it[s \ {Max(s)}] \in M
        BY <1>5 DEF IsFold
      <3> QED BY <3>2, <3>3
    <2>3. it = [s \in SUBSET (1..c) |-> it[s]]
      BY <1>5 DEF IsFold
    <2>4. \A s \in SUBSET (1..c) : it[s] = IF s = {} THEN b ELSE Written(it[s \ {Max(s)}], reqs[Max(s)])
      <3> HIDE DEF F
      <3> QED BY <1>5, <2>2 DEF IsFold
    <2> HIDE DEF F
    <2> QED BY <1>14, <2>3, <2>4
  <1>7. Eq(iter)
    <2> HIDE DEF Eq
    <2> QED BY <1>3, <1>6
  <1> DEFINE g == [k \in 0..c |-> iter[1..k]]
  <1>8. iter[{}] = b
    <2>1. {} \in SUBSET DOMAIN reqs
      OBVIOUS
    <2> QED BY <1>7, <2>1
  <1>9. ASSUME NEW k \in 1..c PROVE iter[1..k] = Written(iter[1..(k - 1)], reqs[k])
    <2>1. (1..k) \in SUBSET DOMAIN reqs /\ (1..k) # {}
      <3>1. (1..k) \in SUBSET (1..c) /\ k \in 1..k
        OBVIOUS
      <3> QED BY <1>14, <3>1
    <2>2. Max(1..k) = k
      <3>1. k - 1 \in Nat /\ (k - 1) + 1 = k /\ k \in 1..k
        OBVIOUS
      <3> QED BY <3>1, MaxOf
    <2>3. (1..k) \ {k} = 1..(k - 1)
      OBVIOUS
    <2> QED BY <1>7, <2>1, <2>2, <2>3
  <1>10. g[0] = b /\ \A k \in 1..c : g[k] = Written(g[k - 1], reqs[k])
    BY <1>8, <1>9
  <1>11. WriteAll(b, reqs) = g[c]
    BY <1>1, <1>14
  <1> DEFINE T == {k \in 0..c : g[k] \in M}
  <1>12. 0..c \subseteq T
    <2>1. 0 \in T
      BY <1>10 DEF M
    <2>2. ASSUME NEW k \in 0..(c - 1), k \in T PROVE k + 1 \in T
      <3>1. k + 1 \in 1..c /\ (k + 1) - 1 = k
        OBVIOUS
      <3> HIDE DEF g
      <3> QED BY <1>2, <1>10, <2>2, <3>1
    <2> HIDE DEF T
    <2> QED BY <2>1, <2>2, UpTo
  <1>13. g \in [0..c -> M]
    BY <1>12
  <1> HIDE DEF g
  <1> QED BY <1>10, <1>11, <1>13 DEF IsWriting, Steps, M

\* Two ways to write the same entries come to the same contents.
LEMMA SameWriting ==
  ASSUME NEW c \in Nat, NEW g, NEW h, NEW reqs, g[0] = h[0],
         Steps(g, c, reqs), Steps(h, c, reqs)
  PROVE  g[c] = h[c]
  <1> DEFINE T == {k \in 0..c : g[k] = h[k]}
  <1>1. 0 \in T
    OBVIOUS
  <1>2. ASSUME NEW k \in 0..(c - 1), k \in T PROVE k + 1 \in T
    <2>1. k + 1 \in 1..c /\ (k + 1) - 1 = k /\ k + 1 \in 0..c
      OBVIOUS
    <2>2. g[k + 1] = Written(g[k], reqs[k + 1]) /\ h[k + 1] = Written(h[k], reqs[k + 1])
      BY <2>1 DEF Steps
    <2> QED BY <1>2, <2>1, <2>2
  <1> HIDE DEF T
  <1>3. c \in T
    <2>1. 0..c \subseteq T
      BY <1>1, <1>2, UpTo
    <2> QED BY <2>1
  <1> QED BY <1>3 DEF T

\* Nothing to write.
LEMMA WriteNone ==
  ASSUME NEW b \in Seq(Bytes)
  PROVE  WriteAll(b, <<>>) = b
  <1>1. <<>> \in Seq(Reqs) /\ 0 = Len(<<>>) /\ 0 \in Nat
    OBVIOUS
  <1>2. PICK g : IsWriting(g, 0, b, <<>>)
    BY <1>1, WriteLoop
  <1> QED BY <1>2 DEF IsWriting

\* One more entry at the end is written last.
LEMMA WriteLast ==
  ASSUME NEW b \in Seq(Bytes), NEW s \in Seq(Reqs), NEW x \in Reqs
  PROVE  WriteAll(b, Append(s, x)) = Written(WriteAll(b, s), x)
  <1> DEFINE t == Append(s, x)
  <1>1. PICK c \in Nat : c = Len(s)
    OBVIOUS
  <1>2. t \in Seq(Reqs) /\ Len(t) = c + 1 /\ t[c + 1] = x /\ \A k \in 1..c : t[k] = s[k]
    BY <1>1
  <1> HIDE DEF t
  <1>3. PICK g : IsWriting(g, c, b, s)
    BY <1>1, WriteLoop
  <1>4. c + 1 \in Nat /\ (c + 1) - 1 = c /\ c + 1 \in 1..(c + 1) /\ 1..c \subseteq 1..(c + 1)
    OBVIOUS
  <1>5. PICK h : IsWriting(h, c + 1, b, t)
    BY <1>2, <1>4, WriteLoop
  <1>6. g[0] = h[0] /\ Steps(g, c, s)
    BY <1>3, <1>5 DEF IsWriting
  <1>7. Steps(h, c, s)
    BY <1>2, <1>4, <1>5 DEF IsWriting, Steps
  <1>8. g[c] = h[c]
    BY <1>6, <1>7, SameWriting
  <1>9. h[c + 1] = Written(h[c], x)
    BY <1>2, <1>4, <1>5 DEF IsWriting, Steps
  <1> QED BY <1>3, <1>5, <1>8, <1>9 DEF IsWriting, t

\* The first entry may be written first.
LEMMA WriteFirst ==
  ASSUME NEW b \in Seq(Bytes), NEW s \in Seq(Reqs), s # <<>>
  PROVE  WriteAll(b, s) = WriteAll(Written(b, Head(s)), Tail(s))
  <1> DEFINE t == Tail(s)
             b2 == Written(b, Head(s))
  <1>1. PICK c \in Nat : c + 1 = Len(s)
    <2>1. Len(s) \in Nat /\ Len(s) # 0
      OBVIOUS
    <2>2. Len(s) - 1 \in Nat /\ (Len(s) - 1) + 1 = Len(s)
      BY <2>1
    <2> QED BY <2>2
  <1>2. t \in Seq(Reqs) /\ Len(t) = c /\ \A k \in 1..c : t[k] = s[k + 1]
    <2>1. t \in Seq(Reqs) /\ Len(t) = Len(s) - 1 /\ \A k \in 1..Len(t) : t[k] = s[k + 1]
      BY HeadTailProperties
    <2> HIDE DEF t
    <2> QED BY <1>1, <2>1
  <1>3. b2 \in Seq(Bytes) /\ Head(s) = s[1] /\ s[1] \in Reqs
    <2>1. Head(s) = s[1] /\ s[1] \in Reqs
      OBVIOUS
    <2>2. Longer(b2, b)
      BY <2>1, WrittenIs
    <2> QED BY <2>1, <2>2 DEF Longer
  <1>4. b2 = Written(b, s[1])
    BY <1>3
  <1> HIDE DEF t, b2
  <1>5. PICK g : IsWriting(g, c, b2, t)
    BY <1>2, <1>3, WriteLoop
  <1>6. PICK h : IsWriting(h, c + 1, b, s)
    BY <1>1, WriteLoop
  <1> DEFINE f == [k \in 0..c |-> h[k + 1]]
  <1>7. f[0] = b2 /\ f[c] = h[c + 1]
    <2>1. 1 \in 1..(c + 1) /\ 0 \in 0..c /\ c \in 0..c /\ 1 - 1 = 0 /\ 0 + 1 = 1
      OBVIOUS
    <2>2. h[1] = Written(h[0], s[1]) /\ h[0] = b
      BY <1>6, <2>1 DEF IsWriting, Steps
    <2> QED BY <1>4, <2>1, <2>2
  <1>8. ASSUME NEW k \in 1..c PROVE f[k] = Written(f[k - 1], t[k])
    <2>1. k + 1 \in 1..(c + 1) /\ (k + 1) - 1 = k /\ (k - 1) + 1 = k /\ k \in 0..c /\ k - 1 \in 0..c
      OBVIOUS
    <2>2. h[k + 1] = Written(h[k], s[k + 1])
      BY <1>6, <2>1 DEF IsWriting, Steps
    <2>3. f[k] = h[k + 1] /\ f[k - 1] = h[k]
      BY <2>1
    <2> QED BY <1>2, <2>2, <2>3
  <1> HIDE DEF f
  <1>9. g[0] = f[0] /\ Steps(g, c, t) /\ Steps(f, c, t)
    BY <1>5, <1>7, <1>8 DEF IsWriting, Steps
  <1>10. g[c] = f[c]
    BY <1>9, SameWriting
  <1> QED BY <1>5, <1>6, <1>7, <1>10 DEF IsWriting, t, b2

\* What is written is a sequence of bytes, not shorter than before.
LEMMA WriteAllIs ==
  ASSUME NEW b \in Seq(Bytes), NEW s \in Seq(Reqs)
  PROVE  WriteAll(b, s) \in Seq(Bytes) /\ Len(WriteAll(b, s)) >= Len(b)
  <1>1. PICK c \in Nat : c = Len(s)
    OBVIOUS
  <1>2. PICK g : IsWriting(g, c, b, s)
    BY <1>1, WriteLoop
  <1>3. \A k \in 0..c : g[k] \in Seq(Bytes)
    BY <1>2 DEF IsWriting
  <1> DEFINE T == {k \in 0..c : Len(g[k]) >= Len(b)}
  <1>4. 0 \in T
    BY <1>2 DEF IsWriting
  <1>5. ASSUME NEW k \in 0..(c - 1), k \in T PROVE k + 1 \in T
    <2>1. k + 1 \in 1..c /\ (k + 1) - 1 = k /\ k + 1 \in 0..c /\ k \in 0..c
      OBVIOUS
    <2>2. g[k + 1] = Written(g[k], s[k + 1])
      BY <1>2, <2>1 DEF IsWriting, Steps
    <2>3. s[k + 1] \in Reqs
      BY <1>1, <2>1
    <2>4. Longer(g[k + 1], g[k])
      BY <1>3, <2>1, <2>2, <2>3, WrittenIs
    <2>5. Len(g[k + 1]) >= Len(g[k]) /\ Len(g[k]) >= Len(b)
      BY <1>5, <2>4 DEF Longer
    <2>6. Len(g[k]) \in Nat /\ Len(g[k + 1]) \in Nat /\ Len(b) \in Nat
      BY <1>3, <2>1
    <2> QED BY <2>1, <2>5, <2>6
  <1> HIDE DEF T
  <1>6. c \in T /\ c \in 0..c
    <2>1. 0..c \subseteq T
      BY <1>4, <1>5, UpTo
    <2> QED BY <2>1
  <1> QED BY <1>2, <1>3, <1>6 DEF IsWriting, T

-----------------------------------------------------------------------------
\* The invariant.  One open file: b is its backlog, p its position, f the
\* method it is in, a how many of its writes have returned, l the order in which
\* they came to the file; dir says whether it is direct, w how many writes there
\* were.  Its writes came to the file in order, and those in the backlog that
\* the flush has not come to are the ones after them.
OpTypes == [at : {"idle", "direct", "flush"}, then : {"none", "fsync", "read"},
            next : Nat \ {0}, off : 0..(Modulus - 1), n : 0..MaxLen, bytes : Data,
            moves : BOOLEAN]
Results == [ok : BOOLEAN, n : Nat, bytes : Seq(Bytes)]

FileInv(b, p, f, a, l, dir, w) ==
  /\ f.next \in 1..(Len(b) + 1)
  /\ f.at # "flush" => f.next = 1
  /\ f.at = "direct" => dir /\ a < w
  /\ dir => b = <<>>
  /\ f.at # "idle" /\ f.moves => f.off = p
  /\ a <= w
  /\ a = Len(l) + (Len(b) + 1 - f.next)
  /\ \A i \in 1..Len(l) : l[i] = i
  /\ \A i \in f.next..Len(b) : b[i].number = Len(l) + (i + 1 - f.next)

Types ==
  /\ users \subseteq Openers /\ direct \subseteq users /\ writes \in 0..MaxWrites
  /\ buffer \in Seq(Bytes) /\ Len(buffer) < MaxFile + MaxLen
  /\ backlog \in [Openers -> Seq(Reqs)]
  /\ pos \in [Openers -> 0..(Modulus - 1)]
  /\ op \in [Openers -> OpTypes]
  /\ acked \in [Openers -> Nat]
  /\ result \in [Openers -> Results]
  /\ applied \in [Openers -> Seq(1..MaxWrites)]

Inv ==
  /\ Types
  /\ \A o \in Openers :
       FileInv(backlog[o], pos[o], op[o], acked[o], applied[o], o \in direct, writes)

\* Other open files' writes do not matter to one.
LEMMA MoreWrites ==
  ASSUME NEW b, NEW p, NEW f, NEW a \in Nat, NEW l, NEW dir, NEW w \in Nat, NEW v \in Nat,
         w <= v, FileInv(b, p, f, a, l, dir, w)
  PROVE  FileInv(b, p, f, a, l, dir, v)
  <1>1. a <= w /\ (f.at = "direct" => a < w)
    BY DEF FileInv
  <1>2. a <= v /\ (f.at = "direct" => a < v)
    BY <1>1
  <1> QED BY <1>2 DEF FileInv

\* A step of the open file o, to such a state.
Becomes(o, b, p, f, a, l, res) ==
  /\ backlog' = [backlog EXCEPT ![o] = b] /\ pos' = [pos EXCEPT ![o] = p]
  /\ op' = [op EXCEPT ![o] = f] /\ acked' = [acked EXCEPT ![o] = a]
  /\ applied' = [applied EXCEPT ![o] = l] /\ result' = [result EXCEPT ![o] = res]
  /\ UNCHANGED <<users, direct>>
Allowed(b, p, f, a, l, res) ==
  /\ b \in Seq(Reqs) /\ p \in 0..(Modulus - 1) /\ f \in OpTypes /\ a \in Nat
  /\ l \in Seq(1..MaxWrites) /\ res \in Results
  /\ writes' \in 0..MaxWrites /\ writes <= writes'
  /\ buffer' \in Seq(Bytes) /\ Len(buffer') < MaxFile + MaxLen

\* It keeps the invariant.
LEMMA OneFile ==
  ASSUME Inv, NEW o \in Openers, NEW b, NEW p, NEW f, NEW a, NEW l, NEW res,
         Becomes(o, b, p, f, a, l, res), Allowed(b, p, f, a, l, res),
         FileInv(b, p, f, a, l, o \in direct, writes')
  PROVE  Inv'
  <1> USE DEF Becomes, Allowed
  <1>1. Types'
    BY DEF Inv, Types
  <1>2. ASSUME NEW q \in Openers
        PROVE  FileInv(backlog'[q], pos'[q], op'[q], acked'[q], applied'[q], q \in direct', writes')
    <2>1. direct' = direct
      OBVIOUS
    <2>2. CASE q = o
      <3>1. /\ backlog'[q] = b /\ pos'[q] = p /\ op'[q] = f /\ acked'[q] = a /\ applied'[q] = l
        BY <2>2 DEF Inv, Types
      <3> QED BY <2>1, <2>2, <3>1
    <2>3. CASE q # o
      <3>1. /\ backlog'[q] = backlog[q] /\ pos'[q] = pos[q] /\ op'[q] = op[q]
            /\ acked'[q] = acked[q] /\ applied'[q] = applied[q]
        BY <2>3 DEF Inv, Types
      <3>2. writes \in Nat /\ writes' \in Nat /\ acked[q] \in Nat
        BY MaxWritesAssumption DEF Inv, Types
      <3>3. FileInv(backlog[q], pos[q], op[q], acked[q], applied[q], q \in direct, writes)
        BY DEF Inv
      <3>4. FileInv(backlog[q], pos[q], op[q], acked[q], applied[q], q \in direct, writes')
        BY <3>2, <3>3, MoreWrites
      <3> QED BY <2>1, <3>1, <3>4
    <2> QED BY <2>2, <2>3
  <1> QED BY <1>1, <1>2 DEF Inv

\* The open file that takes a step.
Facts(o) ==
  /\ o \in Openers
  /\ backlog[o] \in Seq(Reqs) /\ pos[o] \in 0..(Modulus - 1) /\ op[o] \in OpTypes
  /\ acked[o] \in Nat /\ applied[o] \in Seq(1..MaxWrites) /\ result[o] \in Results
  /\ FileInv(backlog[o], pos[o], op[o], acked[o], applied[o], o \in direct, writes)
  /\ writes \in 0..MaxWrites /\ buffer \in Seq(Bytes) /\ Len(buffer) < MaxFile + MaxLen
  /\ backlog = [backlog EXCEPT ![o] = backlog[o]]
  /\ pos = [pos EXCEPT ![o] = pos[o]]
  /\ op = [op EXCEPT ![o] = op[o]]
  /\ acked = [acked EXCEPT ![o] = acked[o]]
  /\ applied = [applied EXCEPT ![o] = applied[o]]
  /\ result = [result EXCEPT ![o] = result[o]]

\* They hold of every open file in use.
LEMMA FileFacts ==
  ASSUME Inv, NEW o \in users
  PROVE  Facts(o)
  BY DEF Facts, Inv, Types

\* An open file that is in no method, and one that begins one.
LEMMA OpIs ==
  ASSUME NEW at \in {"idle", "direct", "flush"}, NEW then \in {"none", "fsync", "read"},
         NEW off \in 0..(Modulus - 1), NEW n \in 0..MaxLen, NEW bytes \in Data, NEW moves \in BOOLEAN
  PROVE  Method(at, then, off, n, bytes, moves) \in OpTypes
  BY DEF Method, OpTypes

\* The members of an idle open file are in range.
LEMMA IdleIs == Idle \in OpTypes /\ <<>> \in Data /\ 0 \in 0..(Modulus - 1) /\ 0 \in 0..MaxLen
  <1>1. 0 \in 0..(Modulus - 1) /\ 0 \in 0..MaxLen
    BY SizesAssumption, MaxLenAssumption
  <1>2. <<>> \in [1..0 -> Bytes]
    OBVIOUS
  <1>3. <<>> \in Data
    BY <1>1, <1>2 DEF Data
  <1> QED BY <1>1, <1>3, OpIs DEF Idle

\* What a method returns, and where that leaves the position.
LEMMA ReturnIs ==
  ASSUME NEW n \in Nat, NEW bytes \in Seq(Bytes)
  PROVE  Returned(n, bytes) \in Results /\ Einval \in Results
  BY DEF Returned, Einval, Results

\* pos_ stays a size_t.
LEMMA PosIs ==
  ASSUME NEW p \in 0..(Modulus - 1), NEW res \in Results, NEW moves
  PROVE  (IF res.ok /\ moves THEN (p + res.n) % Modulus ELSE p) \in 0..(Modulus - 1)
  <1>1. res.n \in Nat /\ Modulus \in Nat /\ Modulus > 0 /\ p \in Nat
    BY SizesAssumption DEF Results
  <1>2. p + res.n \in Nat
    BY <1>1
  <1>3. (p + res.n) % Modulus \in 0..(Modulus - 1)
    BY <1>1, <1>2
  <1> QED BY <1>3

\* A write into the backlog.
LEMMA BufferedInv ==
  ASSUME Inv, NEW o \in users, NEW off \in 0..(Modulus - 1), NEW bytes \in Data, NEW moves \in BOOLEAN,
         WriteBuffered(o, off, bytes, moves)
  PROVE  Inv'
  <1>0. Facts(o)
    BY FileFacts
  <1> USE <1>0 DEF Facts
  <1> DEFINE req == Req(o, off, bytes)
             b == Append(backlog[o], req)
             res == Returned(Len(bytes), <<>>)
             p == IF res.ok /\ moves THEN (pos[o] + res.n) % Modulus ELSE pos[o]
             a == acked[o] + 1
  <1>1. /\ op[o].at = "idle" /\ o \notin direct /\ writes < MaxWrites /\ writes' = writes + 1
        /\ backlog' = [backlog EXCEPT ![o] = b] /\ acked' = [acked EXCEPT ![o] = a]
        /\ UNCHANGED <<users, direct, buffer, op, applied>>
        /\ result' = [result EXCEPT ![o] = res] /\ pos' = [pos EXCEPT ![o] = p]
    BY DEF WriteBuffered, Finish, Ack
  <1>2. /\ FileInv(backlog[o], pos[o], op[o], acked[o], applied[o], o \in direct, writes)
        /\ writes \in Nat /\ MaxWrites \in Nat /\ acked[o] \in Nat
    BY MaxWritesAssumption
  <1>3. acked[o] <= writes
    BY <1>2 DEF FileInv
  <1>4. a \in 1..MaxWrites /\ a \in Nat /\ writes' \in 0..MaxWrites /\ a <= writes' /\ writes <= writes'
    BY <1>1, <1>2, <1>3
  <1>5. req \in Reqs /\ req.number = a
    BY <1>4 DEF Req, Reqs
  <1>6. res \in Results
    <2>1. Len(bytes) \in Nat /\ <<>> \in Seq(Bytes)
      BY DataIs, MaxLenAssumption
    <2> QED BY <2>1, ReturnIs
  <1>7. p \in 0..(Modulus - 1)
    BY <1>6, PosIs
  <1>8. /\ b \in Seq(Reqs) /\ Len(b) = Len(backlog[o]) + 1 /\ b[Len(backlog[o]) + 1] = req
        /\ \A i \in 1..Len(backlog[o]) : b[i] = backlog[o][i]
    BY <1>5
  <1> HIDE DEF req, b, res, p, a
  <1>9. FileInv(b, p, op[o], a, applied[o], o \in direct, writes')
    <2> DEFINE n == Len(backlog[o])
               m == Len(applied[o])
    <2>1. n \in Nat /\ m \in Nat /\ op[o].next = 1 /\ acked[o] = m + (n + 1 - op[o].next)
      BY <1>1, <1>2 DEF FileInv
    <2>2. a = m + n + 1
      BY <1>2, <2>1 DEF a
    <2>3. \A i \in 1..n : backlog[o][i].number = m + (i + 1 - op[o].next)
      BY <1>2, <2>1 DEF FileInv
    <2>4. Len(b) = n + 1 /\ b[n + 1].number = m + n + 1
      BY <1>5, <1>8, <2>2
    <2>5. \A i \in 1..n : b[i] = backlog[o][i]
      BY <1>8
    <2> HIDE DEF n, m
    <2>6. \A i \in 1..(n + 1) : b[i].number = m + (i + 1 - op[o].next)
      <3> SUFFICES ASSUME NEW i \in 1..(n + 1) PROVE b[i].number = m + (i + 1 - op[o].next)
        OBVIOUS
      <3>1. CASE i \in 1..n
        BY <2>3, <2>5, <3>1
      <3>2. CASE i = n + 1
        <4>1. b[i].number = m + n + 1
          BY <2>4, <3>2
        <4>2. m + (i + 1 - op[o].next) = m + n + 1
          BY <2>1, <3>2
        <4> QED BY <4>1, <4>2
      <3> QED BY <2>1, <3>1, <3>2
    <2>7. op[o].next \in 1..(Len(b) + 1) /\ a = m + (Len(b) + 1 - op[o].next)
      BY <2>1, <2>2, <2>4
    <2>8. \A i \in 1..m : applied[o][i] = i
      BY <1>2 DEF FileInv, m
    <2> QED BY <1>1, <1>4, <2>1, <2>4, <2>6, <2>7, <2>8 DEF FileInv, m
  <1>10. Becomes(o, b, p, op[o], a, applied[o], res)
    BY <1>1 DEF Becomes
  <1>11. Allowed(b, p, op[o], a, applied[o], res) /\ o \in Openers
    BY <1>1, <1>4, <1>6, <1>7, <1>8 DEF Allowed
  <1> QED BY <1>9, <1>10, <1>11, OneFile

\* The begin of a write of a direct open file.
LEMMA DirectInv ==
  ASSUME Inv, NEW o \in users, NEW off \in 0..(Modulus - 1), NEW bytes \in Data, NEW moves \in BOOLEAN,
         Call(o, off, moves), WriteDirect(o, off, bytes, moves)
  PROVE  Inv'
  <1>0. Facts(o)
    BY FileFacts
  <1> USE <1>0 DEF Facts
  <1> DEFINE f == Method("direct", "none", off, 0, bytes, moves)
  <1>1. /\ op[o].at = "idle" /\ o \in direct /\ writes < MaxWrites /\ writes' = writes + 1
        /\ op' = [op EXCEPT ![o] = f]
        /\ UNCHANGED <<users, direct, buffer, backlog, pos, result, acked, applied>>
    BY DEF WriteDirect
  <1>2. f \in OpTypes /\ f.next = 1 /\ f.at = "direct" /\ f.off = off /\ f.moves = moves
    <2>1. 0 \in 0..MaxLen
      BY IdleIs
    <2>2. f \in OpTypes
      BY <2>1, OpIs
    <2> QED BY <2>2 DEF Method
  <1>3. /\ FileInv(backlog[o], pos[o], op[o], acked[o], applied[o], o \in direct, writes)
        /\ writes \in Nat /\ MaxWrites \in Nat /\ acked[o] \in Nat
    BY MaxWritesAssumption
  <1>4. writes' \in 0..MaxWrites /\ writes <= writes' /\ acked[o] < writes'
    <2>1. acked[o] <= writes
      BY <1>3 DEF FileInv
    <2> QED BY <1>1, <1>3, <2>1
  <1> HIDE DEF f
  <1>5. moves => off = pos[o]
    BY DEF Call
  <1>6. op[o].next = 1 /\ acked[o] <= writes'
    BY <1>1, <1>3, <1>4 DEF FileInv
  <1>7. FileInv(backlog[o], pos[o], f, acked[o], applied[o], o \in direct, writes')
    BY <1>1, <1>2, <1>3, <1>4, <1>5, <1>6 DEF FileInv
  <1>8. Becomes(o, backlog[o], pos[o], f, acked[o], applied[o], result[o])
    BY <1>1 DEF Becomes
  <1>9. Allowed(backlog[o], pos[o], f, acked[o], applied[o], result[o]) /\ o \in Openers
    BY <1>1, <1>2, <1>4 DEF Allowed
  <1> QED BY <1>7, <1>8, <1>9, OneFile

\* Its access to the file.
LEMMA ThroughInv ==
  ASSUME Inv, NEW o \in users, WriteThrough(o)
  PROVE  Inv'
  <1>0. Facts(o)
    BY FileFacts
  <1> USE <1>0 DEF Facts
  <1> DEFINE off == op[o].off
             bytes == op[o].bytes
             moves == op[o].moves
             req == Req(o, off, bytes)
             res == IF CanWrite(off) THEN Returned(Len(bytes), <<>>) ELSE Einval
             p == IF res.ok /\ moves THEN (pos[o] + res.n) % Modulus ELSE pos[o]
             a == acked[o] + 1
             l == Append(applied[o], req.number)
  <1>1. /\ op[o].at = "direct" /\ writes' = writes
        /\ buffer' = Written(buffer, req)
        /\ backlog' = backlog /\ acked' = [acked EXCEPT ![o] = a]
        /\ applied' = [applied EXCEPT ![o] = l] /\ op' = [op EXCEPT ![o] = Idle]
        /\ UNCHANGED <<users, direct>>
        /\ result' = [result EXCEPT ![o] = res] /\ pos' = [pos EXCEPT ![o] = p]
    BY DEF WriteThrough, Apply, Finish, Ack
  <1>2. /\ FileInv(backlog[o], pos[o], op[o], acked[o], applied[o], o \in direct, writes)
        /\ writes \in Nat /\ MaxWrites \in Nat /\ acked[o] \in Nat /\ writes \in 0..MaxWrites
        /\ op[o] \in OpTypes
    BY MaxWritesAssumption
  <1>3. acked[o] < writes /\ backlog[o] = <<>> /\ op[o].next = 1
    BY <1>1, <1>2 DEF FileInv
  <1>4. a \in 1..MaxWrites /\ a \in Nat /\ a <= writes
    BY <1>2, <1>3
  <1>5. off \in 0..(Modulus - 1) /\ bytes \in Data
    BY <1>2 DEF OpTypes
  <1>6. req \in Reqs /\ req.number = a
    BY <1>4, <1>5 DEF Req, Reqs
  <1>7. res \in Results
    <2>1. Len(bytes) \in Nat /\ <<>> \in Seq(Bytes) /\ 0 \in Nat
      BY <1>5, DataIs, MaxLenAssumption
    <2>2. Returned(Len(bytes), <<>>) \in Results /\ Einval \in Results
      BY <2>1, ReturnIs
    <2> QED BY <2>2
  <1>8. p \in 0..(Modulus - 1)
    BY <1>7, PosIs
  <1>9. Longer(buffer', buffer)
    BY <1>1, <1>6, WrittenIs
  <1>10. /\ l \in Seq(1..MaxWrites) /\ Len(l) = Len(applied[o]) + 1 /\ l[Len(applied[o]) + 1] = a
         /\ \A i \in 1..Len(applied[o]) : l[i] = applied[o][i]
    BY <1>4, <1>6
  <1> HIDE DEF off, bytes, moves, req, res, p, l
  <1>11. FileInv(backlog[o], p, Idle, a, l, o \in direct, writes')
    <2> DEFINE m == Len(applied[o])
    <2>1. m \in Nat /\ acked[o] = m + (Len(backlog[o]) + 1 - op[o].next) /\ Len(backlog[o]) = 0
      BY <1>2, <1>3 DEF FileInv
    <2>2. a = m + 1
      BY <1>2, <1>3, <2>1
    <2>3. \A i \in 1..m : applied[o][i] = i
      BY <1>2 DEF FileInv
    <2>4. Len(l) = m + 1 /\ l[m + 1] = m + 1 /\ \A i \in 1..m : l[i] = i
      BY <1>10, <2>2, <2>3
    <2> HIDE DEF m, a
    <2>5. \A i \in 1..Len(l) : l[i] = i
      BY <2>1, <2>4
    <2>6. Idle.at = "idle" /\ Idle.next = 1
      BY DEF Idle, Method
    <2>7. 1 \in 1..(Len(backlog[o]) + 1) /\ a = Len(l) + (Len(backlog[o]) + 1 - 1)
      BY <2>1, <2>2, <2>4
    <2> QED BY <1>1, <1>3, <1>4, <2>1, <2>5, <2>6, <2>7 DEF FileInv
  <1>12. Becomes(o, backlog[o], p, Idle, a, l, res)
    BY <1>1 DEF Becomes
  <1>13. Allowed(backlog[o], p, Idle, a, l, res) /\ o \in Openers
    BY <1>1, <1>2, <1>4, <1>7, <1>8, <1>9, <1>10, IdleIs DEF Allowed, Longer
  <1> HIDE DEF a
  <1> QED BY <1>11, <1>12, <1>13, OneFile

\* The begin of a flush.
LEMMA BeginInv ==
  ASSUME Inv, NEW o \in users, NEW then \in {"fsync", "read"}, NEW off \in 0..(Modulus - 1),
         NEW n \in 0..MaxLen, NEW moves \in BOOLEAN, Call(o, off, moves), Start(o, then, off, n, moves)
  PROVE  Inv'
  <1>0. Facts(o)
    BY FileFacts
  <1> USE <1>0 DEF Facts
  <1> DEFINE f == Method("flush", then, off, n, <<>>, moves)
  <1>1. /\ op[o].at = "idle" /\ op' = [op EXCEPT ![o] = f]
        /\ UNCHANGED <<users, direct, writes, buffer, backlog, pos, result, acked, applied>>
    BY DEF Start
  <1>2. f \in OpTypes /\ f.next = 1 /\ f.at = "flush" /\ f.off = off /\ f.moves = moves
    <2>1. f \in OpTypes
      BY IdleIs, OpIs
    <2> QED BY <2>1 DEF Method
  <1>3. FileInv(backlog[o], pos[o], op[o], acked[o], applied[o], o \in direct, writes)
    OBVIOUS
  <1>4. writes \in 0..MaxWrites /\ writes' \in 0..MaxWrites /\ writes <= writes'
    BY <1>1, MaxWritesAssumption
  <1> HIDE DEF f
  <1>5. (moves => off = pos[o]) /\ op[o].next = 1
    BY <1>1, <1>3 DEF Call, FileInv
  <1>7. FileInv(backlog[o], pos[o], f, acked[o], applied[o], o \in direct, writes')
    BY <1>1, <1>2, <1>3, <1>5 DEF FileInv
  <1>8. Becomes(o, backlog[o], pos[o], f, acked[o], applied[o], result[o])
    BY <1>1 DEF Becomes
  <1>9. Allowed(backlog[o], pos[o], f, acked[o], applied[o], result[o]) /\ o \in Openers
    BY <1>1, <1>2, <1>4 DEF Allowed
  <1> QED BY <1>7, <1>8, <1>9, OneFile

\* One entry on.
LEMMA OneOn ==
  ASSUME NEW k \in Nat, NEW m \in Nat, NEW n \in Nat, k \in 1..n
  PROVE  k + 1 \in 1..(n + 1) /\ m + (n + 1 - k) = (m + 1) + (n + 1 - (k + 1))
  OBVIOUS

\* One entry of a backlog reaches the file.
LEMMA FlushInv ==
  ASSUME Inv, NEW o \in users, FlushOne(o)
  PROVE  Inv'
  <1>0. Facts(o)
    BY FileFacts
  <1> USE <1>0 DEF Facts
  <1> DEFINE k == op[o].next
             req == backlog[o][k]
             f == [op[o] EXCEPT !.next = k + 1]
             l == Append(applied[o], req.number)
             n == Len(backlog[o])
             m == Len(applied[o])
  <1>1. /\ op[o].at = "flush" /\ k <= n /\ buffer' = Written(buffer, req)
        /\ applied' = [applied EXCEPT ![o] = l]
        /\ UNCHANGED <<users, direct, writes, backlog, pos, result, acked>>
    BY DEF FlushOne, Apply
  <1>2. op' = [op EXCEPT ![o] = f]
    BY DEF FlushOne
  <1>3. /\ FileInv(backlog[o], pos[o], op[o], acked[o], applied[o], o \in direct, writes)
        /\ op[o] \in OpTypes /\ n \in Nat /\ m \in Nat /\ writes \in 0..MaxWrites
        /\ writes' \in 0..MaxWrites /\ writes <= writes'
    BY <1>1, MaxWritesAssumption
  <1>4. k \in Nat \ {0} /\ k \in 1..n
    BY <1>1, <1>3 DEF OpTypes
  <1>5. f \in OpTypes /\ f.next = k + 1 /\ f.at = "flush" /\ f.off = op[o].off /\ f.moves = op[o].moves
    <2>1. k + 1 \in Nat \ {0}
      BY <1>4
    <2> HIDE DEF k
    <2> QED BY <1>1, <1>3, <2>1 DEF OpTypes
  <1>6. req \in Reqs
    BY <1>4
  <1>7. Longer(buffer', buffer)
    BY <1>1, <1>6, WrittenIs
  <1>8. req.number = m + 1
    <2>1. k \in k..n
      BY <1>3, <1>4
    <2>2. req.number = m + (k + 1 - k)
      BY <1>3, <2>1 DEF FileInv
    <2>3. k \in Nat /\ m \in Nat
      BY <1>3, <1>4
    <2> HIDE DEF k, m, req
    <2>4. m + (k + 1 - k) = m + 1
      BY <2>3
    <2> QED BY <2>2, <2>4
  <1>9. req.number \in 1..MaxWrites
    BY <1>6 DEF Reqs
  <1>10. /\ l \in Seq(1..MaxWrites) /\ Len(l) = m + 1 /\ l[m + 1] = m + 1
         /\ \A i \in 1..m : l[i] = applied[o][i]
    BY <1>8, <1>9
  <1> HIDE DEF f, l, req
  <1>11. FileInv(backlog[o], pos[o], f, acked[o], l, o \in direct, writes')
    <2>1. \A i \in 1..m : applied[o][i] = i
      BY <1>3 DEF FileInv
    <2>2. acked[o] = m + (n + 1 - k) /\ \A i \in k..n : backlog[o][i].number = m + (i + 1 - k)
      BY <1>3 DEF FileInv
    <2>0. k \in Nat /\ m \in Nat /\ n \in Nat /\ k \in 1..n
      BY <1>3, <1>4
    <2> HIDE DEF k, n, m
    <2>3. \A i \in 1..Len(l) : l[i] = i
      BY <1>10, <2>0, <2>1
    <2>4. f.next \in 1..(n + 1) /\ acked[o] = Len(l) + (n + 1 - f.next)
      <3>1. k + 1 \in 1..(n + 1) /\ m + (n + 1 - k) = (m + 1) + (n + 1 - (k + 1))
        BY <2>0, OneOn
      <3> QED BY <1>5, <1>10, <2>2, <3>1
    <2>5. ASSUME NEW i \in f.next..n PROVE backlog[o][i].number = Len(l) + (i + 1 - f.next)
      <3>0. i \in (k + 1)..n
        BY <1>5
      <3>1. i \in k..n /\ i \in Nat
        BY <2>0, <3>0
      <3>2. backlog[o][i].number = m + (i + 1 - k)
        BY <2>2, <3>1
      <3>3. m + (i + 1 - k) = (m + 1) + (i + 1 - (k + 1))
        BY <2>0, <3>1
      <3> QED BY <1>5, <1>10, <3>2, <3>3
    <2>6. /\ f.at # "direct" /\ f.at = "flush" /\ (f.moves => f.off = pos[o]) /\ acked[o] <= writes'
          /\ (o \in direct => backlog[o] = <<>>)
      BY <1>1, <1>3, <1>5 DEF FileInv
    <2> QED BY <2>3, <2>4, <2>5, <2>6 DEF FileInv, n
  <1>12. Becomes(o, backlog[o], pos[o], f, acked[o], l, result[o])
    BY <1>1, <1>2 DEF Becomes
  <1>13. Allowed(backlog[o], pos[o], f, acked[o], l, result[o]) /\ o \in Openers
    BY <1>1, <1>3, <1>5, <1>7, <1>10 DEF Allowed, Longer
  <1> QED BY <1>11, <1>12, <1>13, OneFile

\* The end of a flush, with what its method returns.
LEMMA FlushedInv ==
  ASSUME Inv, NEW o \in users, NEW res \in Results, NEW moves, Flushed(o), Clear(o),
         Finish(o, res, moves), op' = [op EXCEPT ![o] = Idle],
         UNCHANGED <<writes, buffer, acked, applied>>
  PROVE  Inv'
  <1>0. Facts(o)
    BY FileFacts
  <1> USE <1>0 DEF Facts
  <1> DEFINE p == IF res.ok /\ moves THEN (pos[o] + res.n) % Modulus ELSE pos[o]
             n == Len(backlog[o])
             m == Len(applied[o])
  <1>1. /\ op[o].at = "flush" /\ op[o].next > n /\ backlog' = [backlog EXCEPT ![o] = <<>>]
        /\ UNCHANGED <<users, direct>>
        /\ result' = [result EXCEPT ![o] = res] /\ pos' = [pos EXCEPT ![o] = p]
    BY DEF Flushed, Clear, Finish
  <1>2. /\ FileInv(backlog[o], pos[o], op[o], acked[o], applied[o], o \in direct, writes)
        /\ op[o] \in OpTypes /\ n \in Nat /\ m \in Nat /\ writes \in 0..MaxWrites
        /\ writes' \in 0..MaxWrites /\ writes <= writes'
    BY <1>1, MaxWritesAssumption
  <1>3. p \in 0..(Modulus - 1)
    BY PosIs
  <1>4. Idle.at = "idle" /\ Idle.next = 1 /\ <<>> \in Seq(Reqs) /\ Len(<<>>) = 0
    BY DEF Idle, Method
  <1> HIDE DEF p
  <1>5. FileInv(<<>>, p, Idle, acked[o], applied[o], o \in direct, writes')
    <2>1. op[o].next \in 1..(n + 1) /\ acked[o] = m + (n + 1 - op[o].next)
      BY <1>2 DEF FileInv
    <2>2. op[o].next = n + 1
      BY <1>1, <1>2, <2>1
    <2>3. acked[o] = m + (0 + 1 - 1)
      <3>1. m \in Nat /\ n \in Nat
        BY <1>2
      <3> HIDE DEF m, n
      <3>2. m + (n + 1 - (n + 1)) = m + (0 + 1 - 1)
        BY <3>1
      <3> QED BY <2>1, <2>2, <3>2
    <2>4. acked[o] <= writes' /\ \A i \in 1..m : applied[o][i] = i
      BY <1>2 DEF FileInv
    <2>5. 1 \in 1..(0 + 1) /\ \A i \in 1..0 : FALSE
      OBVIOUS
    <2> QED BY <1>4, <2>3, <2>4, <2>5 DEF FileInv
  <1>6. Becomes(o, <<>>, p, Idle, acked[o], applied[o], res)
    BY <1>1 DEF Becomes
  <1>7. Allowed(<<>>, p, Idle, acked[o], applied[o], res) /\ o \in Openers
    BY <1>2, <1>3, <1>4, IdleIs DEF Allowed
  <1> QED BY <1>5, <1>6, <1>7, OneFile

\* What a read finds.
LEMMA ReadAtIs ==
  ASSUME NEW b \in Seq(Bytes), NEW p \in Nat, NEW n \in Nat, CanRead(b, p)
  PROVE  ReadAt(b, p, n) \in Seq(Bytes) /\ Len(ReadAt(b, p, n)) \in Nat
  <1> DEFINE e == IF p + n < Len(b) THEN p + n ELSE Len(b)
  <1>1. Len(b) \in Nat /\ p < Len(b)
    BY DEF CanRead
  <1>2. e \in Nat /\ e <= Len(b) /\ p + 1 \in Nat /\ p + 1 >= 1
    BY <1>1
  <1> HIDE DEF e
  <1>3. \A i \in (p + 1)..e : b[i] \in Bytes
    <2>1. \A i \in (p + 1)..e : i \in 1..Len(b)
      BY <1>1, <1>2
    <2> QED BY <2>1
  <1>4. SubSeq(b, p + 1, e) \in Seq(Bytes)
    BY <1>2, <1>3, SubSeqProperties
  <1> QED BY <1>4 DEF ReadAt, e

\* A seek.
LEMMA SeekInv ==
  ASSUME Inv, NEW o \in users, NEW off \in 0..(Modulus - 1), Lseek(o, off)
  PROVE  Inv'
  <1>0. Facts(o)
    BY FileFacts
  <1> USE <1>0 DEF Facts
  <1>1. /\ op[o].at = "idle"
        /\ UNCHANGED <<users, direct, writes, buffer, backlog, op, acked, applied>>
    BY DEF Lseek
  <1>2. PICK p \in 0..(Modulus - 1), res \in Results :
          pos' = [pos EXCEPT ![o] = p] /\ result' = [result EXCEPT ![o] = res]
    <2>1. Modulus \in Nat /\ Modulus > 0
      BY SizesAssumption
    <2>2. CASE \E base \in {0, pos[o]} \cup Sizes(o) :
                 /\ pos' = [pos EXCEPT ![o] = (base + off) % Modulus]
                 /\ result' = [result EXCEPT ![o] = Returned((base + off) % Modulus, <<>>)]
      <3>1. PICK base \in {0, pos[o]} \cup Sizes(o) :
              /\ pos' = [pos EXCEPT ![o] = (base + off) % Modulus]
              /\ result' = [result EXCEPT ![o] = Returned((base + off) % Modulus, <<>>)]
        BY <2>2
      <3>2. base \in Nat
        <4>1. 0 \in Nat /\ pos[o] \in Nat /\ Len(buffer) \in Nat /\ 0..(Modulus - 1) \subseteq Nat
          BY <2>1
        <4> QED BY <4>1 DEF Sizes
      <3>3. (base + off) % Modulus \in 0..(Modulus - 1) /\ (base + off) % Modulus \in Nat
        <4>1. base + off \in Nat
          BY <3>2
        <4> QED BY <2>1, <4>1
      <3>4. Returned((base + off) % Modulus, <<>>) \in Results
        <4>1. <<>> \in Seq(Bytes)
          OBVIOUS
        <4> QED BY <3>3, <4>1, ReturnIs
      <3> QED BY <3>1, <3>3, <3>4
    <2>3. CASE pos' = pos /\ result' = [result EXCEPT ![o] = Einval]
      <3>1. Einval \in Results
        BY DEF Einval, Results
      <3>2. pos[o] \in 0..(Modulus - 1) /\ pos' = [pos EXCEPT ![o] = pos[o]]
        BY <2>3
      <3> QED BY <2>3, <3>1, <3>2
    <2> QED BY <2>2, <2>3 DEF Lseek
  <1>3. FileInv(backlog[o], p, op[o], acked[o], applied[o], o \in direct, writes')
    BY <1>1 DEF FileInv
  <1>4. Becomes(o, backlog[o], p, op[o], acked[o], applied[o], res)
    BY <1>1, <1>2 DEF Becomes
  <1>5. Allowed(backlog[o], p, op[o], acked[o], applied[o], res) /\ o \in Openers
    BY <1>1, <1>2, MaxWritesAssumption DEF Allowed
  <1> QED BY <1>3, <1>4, <1>5, OneFile

\* Every step keeps the invariant.
LEMMA StepInv == Inv /\ [Next]_vars => Inv'
  <1> SUFFICES ASSUME Inv, [Next]_vars PROVE Inv'
    OBVIOUS
  <1>1. ASSUME NEW o \in users, NEW off \in 0..(Modulus - 1), NEW moves \in BOOLEAN,
               NEW bytes \in Data, Call(o, off, moves),
               WriteBuffered(o, off, bytes, moves) \/ WriteDirect(o, off, bytes, moves)
        PROVE  Inv'
    BY <1>1, BufferedInv, DirectInv
  <1>2. ASSUME NEW o \in users, NEW off \in 0..(Modulus - 1), NEW moves \in BOOLEAN,
               NEW n \in 0..MaxLen, Call(o, off, moves), Start(o, "read", off, n, moves)
        PROVE  Inv'
    BY <1>2, BeginInv
  <1>3. ASSUME NEW o \in users, Start(o, "fsync", 0, 0, FALSE) PROVE Inv'
    <2>1. Call(o, 0, FALSE)
      BY DEF Call
    <2> QED BY <1>3, <2>1, BeginInv, IdleIs
  <1>4. ASSUME NEW o \in users, FsyncReturns(o) PROVE Inv'
    <2>1. Returned(0, <<>>) \in Results
      <3>1. 0 \in Nat /\ <<>> \in Seq(Bytes)
        OBVIOUS
      <3> QED BY <3>1, ReturnIs
    <2> QED BY <1>4, <2>1, FlushedInv DEF FsyncReturns
  <1>5. ASSUME NEW o \in users, ReadReturns(o) PROVE Inv'
    <2> DEFINE bytes == ReadAt(buffer, op[o].off, op[o].n)
               res == IF CanRead(buffer, op[o].off) THEN Returned(Len(bytes), bytes) ELSE Einval
    <2>1. op[o].off \in Nat /\ op[o].n \in Nat /\ buffer \in Seq(Bytes)
      BY FileFacts, SizesAssumption, MaxLenAssumption DEF Facts, OpTypes
    <2>2. res \in Results
      <3>1. CASE CanRead(buffer, op[o].off)
        <4>1. bytes \in Seq(Bytes) /\ Len(bytes) \in Nat
          BY <2>1, <3>1, ReadAtIs
        <4> QED BY <3>1, <4>1, ReturnIs
      <3>2. CASE ~CanRead(buffer, op[o].off)
        BY <3>2 DEF Einval, Results
      <3> QED BY <3>1, <3>2
    <2>3. /\ Flushed(o) /\ Clear(o) /\ Finish(o, res, op[o].moves) /\ op' = [op EXCEPT ![o] = Idle]
          /\ UNCHANGED <<writes, buffer, acked, applied>>
      BY <1>5 DEF ReadReturns
    <2> HIDE DEF res
    <2> QED BY <2>2, <2>3, FlushedInv
  <1>6. ASSUME NEW o \in users, WriteThrough(o) \/ FlushOne(o) PROVE Inv'
    BY <1>6, ThroughInv, FlushInv
  <1>7. ASSUME NEW o \in users, NEW off \in 0..(Modulus - 1), Lseek(o, off) PROVE Inv'
    BY <1>7, SeekInv
  <1>8. CASE UNCHANGED vars
    BY <1>8 DEF vars, Inv, Types
  <1> QED BY <1>1, <1>2, <1>3, <1>4, <1>5, <1>6, <1>7, <1>8 DEF Next

\* The files that are open start with the invariant.
LEMMA StartInv == Init => Inv
  <1> SUFFICES ASSUME Init PROVE Inv
    OBVIOUS
  <1>1. /\ users \subseteq Openers /\ direct \subseteq users /\ writes = 0 /\ buffer = <<>>
        /\ \A o \in Openers : /\ backlog[o] = <<>> /\ pos[o] = 0 /\ op[o] = Idle
                              /\ result[o] = Returned(0, <<>>) /\ acked[o] = 0
                              /\ applied[o] = <<>>
    BY DEF Init
  <1>2. /\ Idle \in OpTypes /\ 0 \in 0..(Modulus - 1) /\ 0 \in 0..MaxWrites /\ 0 \in Nat
        /\ 0 < MaxFile + MaxLen
    BY IdleIs, SizesAssumption, MaxLenAssumption, MaxWritesAssumption
  <1>3. <<>> \in Seq(Bytes) /\ <<>> \in Seq(Reqs) /\ <<>> \in Seq(1..MaxWrites) /\ Len(<<>>) = 0
    OBVIOUS
  <1>4. Returned(0, <<>>) \in Results
    BY <1>2, <1>3, ReturnIs
  <1>5. Types
    BY <1>1, <1>2, <1>3, <1>4 DEF Init, Types
  <1>6. ASSUME NEW o \in Openers
        PROVE  FileInv(backlog[o], pos[o], op[o], acked[o], applied[o], o \in direct, writes)
    <2>1. FileInv(<<>>, 0, Idle, 0, <<>>, o \in direct, 0)
      BY <1>3 DEF FileInv, Idle, Method
    <2> QED BY <1>1, <2>1
  <1> QED BY <1>5, <1>6 DEF Inv

\* The invariant holds of every state.
THEOREM InvHolds == Spec => []Inv
  BY StartInv, StepInv, PTL DEF Spec

\* Values stay in range, whatever the number of open files and of writes, and
\* the file stays below the largest position and one write (disk_file::write).
THEOREM TypeCorrect == Spec => []TypeOK
  <1>1. Inv => TypeOK
    <2> SUFFICES ASSUME Inv PROVE TypeOK
      OBVIOUS
    <2>1. ASSUME NEW o \in Openers
          PROVE  /\ op[o].at \in {"idle", "direct", "flush"}
                 /\ op[o].next \in 1..(Len(backlog[o]) + 1)
                 /\ result[o].ok \in BOOLEAN /\ result[o].bytes \in Seq(Bytes)
                 /\ acked[o] \in 0..MaxWrites
      <3>1. /\ FileInv(backlog[o], pos[o], op[o], acked[o], applied[o], o \in direct, writes)
            /\ op[o] \in OpTypes /\ result[o] \in Results /\ acked[o] \in Nat
            /\ writes \in 0..MaxWrites
        BY DEF Inv, Types
      <3>2. acked[o] <= writes /\ op[o].next \in 1..(Len(backlog[o]) + 1)
        BY <3>1 DEF FileInv
      <3>3. acked[o] \in 0..MaxWrites
        BY <3>1, <3>2, MaxWritesAssumption
      <3> QED BY <3>1, <3>2, <3>3 DEF OpTypes, Results
    <2>2. acked \in [Openers -> 0..MaxWrites]
      BY <2>1 DEF Inv, Types
    <2> QED BY <2>1, <2>2 DEF Inv, Types, TypeOK
  <1> QED BY <1>1, InvHolds, PTL

\* A sequence that counts.
LEMMA CountIs ==
  ASSUME NEW z \in Seq(Nat), NEW a, Len(z) = a, \A i \in 1..a : z[i] = i
  PROVE  z = [i \in 1..a |-> i]
  OBVIOUS

\* Numbers in order, then those of the entries that follow.
InOrder(b, l, a, nx) ==
  /\ nx \in 1..(Len(b) + 1) /\ a = Len(l) + (Len(b) + 1 - nx)
  /\ \A i \in 1..Len(l) : l[i] = i
  /\ \A i \in nx..Len(b) : b[i].number = Len(l) + (i + 1 - nx)
NumbersOf(c) == [i \in DOMAIN c |-> c[i].number]

\* Together they are all numbers up to the last.
LEMMA Numbered ==
  ASSUME NEW b \in Seq(Reqs), NEW l \in Seq(1..MaxWrites), NEW a \in Nat, NEW nx \in Nat,
         InOrder(b, l, a, nx)
  PROVE  l \o NumbersOf(SubSeq(b, nx, Len(b))) = [i \in 1..a |-> i]
  <1> DEFINE c == SubSeq(b, nx, Len(b))
             n == Len(b)
             m == Len(l)
             w == n + 1 - nx
             t == [i \in DOMAIN c |-> c[i].number]
  <1> USE DEF InOrder
  <1>1. n \in Nat /\ m \in Nat /\ w \in Nat /\ nx \in Nat /\ nx >= 1
    OBVIOUS
  <1>2. c \in Seq(Reqs) /\ Len(c) = w /\ \A i \in 1..w : c[i] = b[nx + i - 1]
    <2>1. \A i \in nx..n : b[i] \in Reqs
      OBVIOUS
    <2>2. /\ c \in Seq(Reqs) /\ Len(c) = (IF nx <= n THEN n - nx + 1 ELSE 0)
          /\ \A i \in 1..(n - nx + 1) : c[i] = b[nx + i - 1]
      BY <1>1, <2>1, SubSeqProperties
    <2> QED BY <1>1, <2>2
  <1>3. DOMAIN c = 1..w
    BY <1>2
  <1>4. t = [i \in 1..w |-> c[i].number]
    BY <1>3
  <1>5. \A i \in 1..w : c[i].number = m + i
    <2> TAKE i \in 1..w
    <2>1. nx + i - 1 \in nx..n /\ m + ((nx + i - 1) + 1 - nx) = m + i
      <3> HIDE DEF n, m
      <3> QED BY <1>1
    <2>2. b[nx + i - 1].number = m + ((nx + i - 1) + 1 - nx)
      BY <2>1
    <2> QED BY <1>2, <2>1, <2>2
  <1>6. t \in Seq(Nat) /\ Len(t) = w /\ \A i \in 1..w : t[i] = m + i
    <2> HIDE DEF c, n, w, m, t, InOrder
    <2>1. \A i \in 1..w : c[i].number \in Nat
      <3>1. \A i \in 1..w : m + i \in Nat
        BY <1>1
      <3> QED BY <1>5, <3>1
    <2>2. t = [i \in 1..w |-> c[i].number]
      BY <1>4
    <2>3. t \in [1..w -> Nat]
      BY <2>1, <2>2
    <2>4. t \in Seq(Nat) /\ Len(t) = w
      BY <1>1, <2>3
    <2> QED BY <1>5, <2>2, <2>4
  <1>7. l \in Seq(Nat)
    BY MaxWritesAssumption
  <1> HIDE DEF c, n, w, t, m
  <1>8. a = m + w
    BY DEF m, w, n
  <1>9. /\ Len(l \o t) = m + w /\ l \o t \in Seq(Nat)
        /\ \A i \in 1..(m + w) : (l \o t)[i] = IF i <= m THEN l[i] ELSE t[i - m]
    BY <1>1, <1>6, <1>7, ConcatProperties DEF m
  <1>10. \A i \in 1..(m + w) : (l \o t)[i] = i
    <2> TAKE i \in 1..(m + w)
    <2>1. CASE i <= m
      <3>1. i \in 1..m
        BY <1>1, <2>1
      <3> QED BY <1>9, <2>1, <3>1 DEF m
    <2>2. CASE ~(i <= m)
      <3>1. i - m \in 1..w /\ m + (i - m) = i
        BY <1>1, <2>2
      <3> QED BY <1>6, <1>9, <2>2, <3>1
    <2> QED BY <2>1, <2>2
  <1>11. l \o t = [i \in 1..a |-> i]
    BY <1>8, <1>9, <1>10, CountIs
  <1> QED BY <1>11 DEF t, c, NumbersOf

\* Each write that has returned reaches the file once and in the order of its
\* open file, whatever the open files and the order of their steps
\* (pwrite_unlocked, fsync_unlocked).
THEOREM WritesInOrder == Spec => []OnceAndInOrder
  <1>1. Inv => OnceAndInOrder
    <2> SUFFICES ASSUME Inv, NEW o \in Openers
                 PROVE  applied[o] \o NumbersOf(Waiting(o)) = [i \in 1..acked[o] |-> i]
      BY DEF OnceAndInOrder, NumbersOf
    <2>1. /\ FileInv(backlog[o], pos[o], op[o], acked[o], applied[o], o \in direct, writes)
          /\ backlog[o] \in Seq(Reqs) /\ acked[o] \in Nat /\ applied[o] \in Seq(1..MaxWrites)
          /\ op[o].next \in Nat
      BY DEF Inv, Types, OpTypes
    <2>2. InOrder(backlog[o], applied[o], acked[o], op[o].next)
      BY <2>1 DEF FileInv, InOrder
    <2> QED BY <2>1, <2>2, Numbered DEF Waiting
  <1> QED BY <1>1, InvHolds, PTL
-----------------------------------------------------------------------------
\* What the one user sees: the file with the backlog written to it.
Held(o) == WriteAll(buffer, Waiting(o))

\* File's operators are those of Disk.
LEMMA SameOps ==
  /\ \A b, p, d : AbstractFile!WriteAt(b, p, d) = WriteAt(b, p, d)
  /\ \A b, p, n : AbstractFile!ReadAt(b, p, n) = ReadAt(b, p, n)
  /\ \A p : AbstractFile!CanWrite(p) <=> CanWrite(p)
  /\ \A b, p : AbstractFile!CanRead(b, p) <=> CanRead(b, p)
  /\ \A n, b : AbstractFile!Returned(n, b) = Returned(n, b)
  /\ AbstractFile!Einval = Einval /\ AbstractFile!Data = Data
  BY DEF AbstractFile!WriteAt, WriteAt, AbstractFile!ReadAt, ReadAt, AbstractFile!CanWrite,
         CanWrite, AbstractFile!CanRead, CanRead, AbstractFile!Returned, Returned,
         AbstractFile!Einval, Einval, AbstractFile!Data, Data

\* The mapping, where u is alone ...
Maps(u) ==
  /\ Content = Held(u) /\ Content' = Held(u)'
  /\ (IF Alone THEN pos[User] ELSE 0) = pos[u]
  /\ (IF Alone THEN pos[User] ELSE 0)' = pos'[u]
  /\ (IF Alone THEN result[User] ELSE Returned(0, <<>>)) = result[u]
  /\ (IF Alone THEN result[User] ELSE Returned(0, <<>>))' = result'[u]

\* That is what it maps to.
LEMMA MapsIt ==
  ASSUME NEW u \in Openers, users = {u}, UNCHANGED users
  PROVE  Maps(u)
  <1>1. Alone /\ Alone'
    BY DEF Alone
  <1>2. User = u /\ User' = u
    <2>1. \A x : x \in {u} => x = u
      OBVIOUS
    <2> QED BY <2>1 DEF User
  <1>3. Content = Held(u) /\ Content' = Held(u)'
    BY <1>1, <1>2 DEF Content, Held, Waiting
  <1> QED BY <1>1, <1>2, <1>3 DEF Maps

\* ... and where nobody is.
LEMMA NobodyAlone ==
  ASSUME ~Alone, UNCHANGED users
  PROVE  UNCHANGED AbstractFile!vars
  <1>1. ~Alone /\ ~Alone'
    BY DEF Alone
  <1> QED BY <1>1 DEF AbstractFile!vars, Content, Returned

\* A step that the user does not see.
LEMMA Unseen ==
  ASSUME NEW u, Maps(u), Held(u)' = Held(u), pos'[u] = pos[u], result'[u] = result[u]
  PROVE  UNCHANGED AbstractFile!vars
  BY DEF Maps, AbstractFile!vars

\* The steps of File, in terms of the open file.
MovesTo(u, off, n) == (off = pos[u] /\ pos'[u] = (pos[u] + n) % Modulus) \/ pos'[u] = pos[u]

\* A call moves the position as File says ...
LEMMA MovesIs ==
  ASSUME NEW u, Maps(u), NEW off, NEW n, MovesTo(u, off, n)
  PROVE  AbstractFile!Moves(off, n)
  BY DEF Maps, MovesTo, AbstractFile!Moves

\* ... a write that changes what the user sees is File's ...
LEMMA WriteIs ==
  ASSUME NEW u, Maps(u), NEW off \in 0..(Modulus - 1), NEW data \in Data, NEW req,
         req.pos = off, req.bytes = data, Held(u)' = Written(Held(u), req),
         \/ result'[u] = Returned(Len(data), <<>>) /\ MovesTo(u, off, Len(data))
         \/ ~CanWrite(off) /\ result'[u] = Einval /\ pos'[u] = pos[u]
  PROVE  AbstractFile!Next
  <1>1. AbstractFile!Write(off, data)
    <2>1. CASE CanWrite(off)
      <3>1. Held(u)' = WriteAt(Held(u), off, data)
        BY <2>1 DEF Written
      <3>2. result'[u] = Returned(Len(data), <<>>) /\ AbstractFile!Moves(off, Len(data))
        BY <2>1, MovesIs
      <3> QED BY <2>1, <3>1, <3>2, SameOps DEF Maps, AbstractFile!Write
    <2>2. CASE ~CanWrite(off)
      <3>1. Held(u)' = Held(u)
        BY <2>2 DEF Written
      <3>2. CASE result'[u] = Returned(Len(data), <<>>) /\ MovesTo(u, off, Len(data))
        <4>1. AbstractFile!Moves(off, Len(data))
          BY <3>2, MovesIs
        <4> QED BY <2>2, <3>1, <3>2, <4>1, SameOps DEF Maps, AbstractFile!Write
      <3>3. CASE result'[u] = Einval /\ pos'[u] = pos[u]
        BY <2>2, <3>1, <3>3, SameOps DEF Maps, AbstractFile!Write
      <3> QED BY <3>2, <3>3
    <2> QED BY <2>1, <2>2
  <1> QED BY <1>1, SameOps DEF AbstractFile!Next

\* ... a read of what the user sees is ...
LEMMA ReadIs ==
  ASSUME NEW u, Maps(u), NEW off \in 0..(Modulus - 1), NEW n \in 0..MaxLen, Held(u)' = Held(u),
         IF CanRead(Held(u), off)
         THEN /\ result'[u] = Returned(Len(ReadAt(Held(u), off, n)), ReadAt(Held(u), off, n))
              /\ MovesTo(u, off, Len(ReadAt(Held(u), off, n)))
         ELSE result'[u] = Einval /\ pos'[u] = pos[u]
  PROVE  AbstractFile!Next
  <1>1. AbstractFile!Read(off, n)
    <2>1. CASE CanRead(Held(u), off)
      <3>1. AbstractFile!Moves(off, Len(ReadAt(Held(u), off, n)))
        BY <2>1, MovesIs
      <3> QED BY <2>1, <3>1, SameOps DEF Maps, AbstractFile!Read
    <2>2. CASE ~CanRead(Held(u), off)
      BY <2>2, SameOps DEF Maps, AbstractFile!Read
    <2> QED BY <2>1, <2>2
  <1> QED BY <1>1 DEF AbstractFile!Next

\* ... a seek to no further than the end of it ...
LEMMA SeekIs ==
  ASSUME NEW u, Maps(u), NEW off \in 0..(Modulus - 1), Held(u)' = Held(u),
         \/ \E base \in {0, pos[u]} \cup 0..Len(Held(u)) :
              /\ pos'[u] = (base + off) % Modulus
              /\ result'[u] = Returned(pos'[u], <<>>)
         \/ pos'[u] = pos[u] /\ result'[u] = Einval
  PROVE  AbstractFile!Next
  <1>1. AbstractFile!Seek(off)
    BY SameOps DEF Maps, AbstractFile!Seek
  <1> QED BY <1>1 DEF AbstractFile!Next

\* ... and a call that returns 0 and changes nothing.
LEMMA SyncIs ==
  ASSUME NEW u, Maps(u), Held(u)' = Held(u), pos'[u] = pos[u], result'[u] = Returned(0, <<>>)
  PROVE  AbstractFile!Next
  <1>1. AbstractFile!Sync
    BY SameOps DEF Maps, AbstractFile!Sync
  <1> QED BY <1>1 DEF AbstractFile!Next

\* What an open file outside a flush has yet to write: its backlog; nothing,
\* if the backlog is empty or the flush has come to its end.
LEMMA WaitingIs ==
  ASSUME Inv, NEW o \in Openers
  PROVE  /\ Waiting(o) \in Seq(Reqs)
         /\ op[o].next = 1 => Waiting(o) = backlog[o]
         /\ op[o].next > Len(backlog[o]) => Waiting(o) = <<>>
  <1>1. /\ backlog[o] \in Seq(Reqs) /\ op[o].next \in Nat \ {0} /\ Len(backlog[o]) \in Nat
    BY DEF Inv, Types, OpTypes
  <1>2. \A i \in op[o].next..Len(backlog[o]) : backlog[o][i] \in Reqs
    BY <1>1
  <1>3. Waiting(o) \in Seq(Reqs)
    BY <1>1, <1>2, SubSeqProperties DEF Waiting
  <1>4. op[o].next = 1 => Waiting(o) = backlog[o]
    BY <1>1, SubSeqFull DEF Waiting
  <1>5. op[o].next > Len(backlog[o]) => Waiting(o) = <<>>
    BY <1>1, SubSeqEmpty DEF Waiting
  <1> QED BY <1>3, <1>4, <1>5

\* The same of the next state.
LEMMA WaitingNext ==
  ASSUME Inv', NEW o \in Openers
  PROVE  /\ op'[o].next = 1 => Waiting(o)' = backlog'[o]
         /\ op'[o].next > Len(backlog'[o]) => Waiting(o)' = <<>>
  <1>1. /\ backlog'[o] \in Seq(Reqs) /\ op'[o].next \in Nat \ {0} /\ Len(backlog'[o]) \in Nat
    BY DEF Inv, Types, OpTypes
  <1>2. op'[o].next = 1 => Waiting(o)' = backlog'[o]
    BY <1>1, SubSeqFull DEF Waiting
  <1>3. op'[o].next > Len(backlog'[o]) => Waiting(o)' = <<>>
    BY <1>1, SubSeqEmpty DEF Waiting
  <1> QED BY <1>2, <1>3

\* What the user sees is not shorter than the file, and is the file if nothing
\* waits.
LEMMA HeldIs ==
  ASSUME Inv, NEW o \in Openers
  PROVE  /\ Held(o) \in Seq(Bytes) /\ Len(Held(o)) >= Len(buffer)
         /\ Waiting(o) = <<>> => Held(o) = buffer
  BY WaitingIs, WriteAllIs, WriteNone DEF Held, Inv, Types

\* With nothing to write the next state's user sees the file.
LEMMA HeldNext ==
  ASSUME Inv', NEW o \in Openers, Waiting(o)' = <<>>
  PROVE  Held(o)' = buffer'
  BY WriteNone DEF Held, Inv, Types

\* The steps of the only user u: a buffered write is a write of File ...
LEMMA BufferedStep ==
  ASSUME Inv, Inv', NEW u \in Openers, Maps(u), NEW off \in 0..(Modulus - 1),
         NEW bytes \in Data, NEW moves \in BOOLEAN, Call(u, off, moves),
         WriteBuffered(u, off, bytes, moves)
  PROVE  AbstractFile!Next
  <1> DEFINE req == Req(u, off, bytes)
  <1>1. /\ op[u].at = "idle" /\ backlog' = [backlog EXCEPT ![u] = Append(backlog[u], req)]
        /\ buffer' = buffer /\ op' = op
    BY DEF WriteBuffered
  <1>2. /\ backlog \in [Openers -> Seq(Reqs)] /\ backlog' \in [Openers -> Seq(Reqs)]
        /\ pos \in [Openers -> 0..(Modulus - 1)] /\ result \in [Openers -> Results]
        /\ buffer \in Seq(Bytes) /\ op[u].next = 1
    BY <1>1 DEF Inv, Types, FileInv
  <1>3. backlog'[u] = Append(backlog[u], req)
    BY <1>1, <1>2
  <1>4. req \in Reqs
    <2>1. Append(backlog[u], req) \in Seq(Reqs) /\ backlog[u] \in Seq(Reqs)
      BY <1>2, <1>3
    <2> HIDE DEF req
    <2>2. LET k == Len(backlog[u]) + 1
          IN k \in 1..Len(Append(backlog[u], req)) /\ Append(backlog[u], req)[k] = req
      BY <2>1
    <2> QED BY <2>1, <2>2
  <1>5. Waiting(u) = backlog[u] /\ Waiting(u)' = backlog'[u]
    <2>1. op'[u].next = 1
      BY <1>1, <1>2
    <2> QED BY <1>2, <2>1, WaitingIs, WaitingNext
  <1>6. req.pos = off /\ req.bytes = bytes
    BY DEF Req
  <1> HIDE DEF req
  <1>7. Held(u)' = Written(Held(u), req)
    <2>1. backlog[u] \in Seq(Reqs)
      BY <1>2
    <2>2. WriteAll(buffer, Append(backlog[u], req)) = Written(WriteAll(buffer, backlog[u]), req)
      BY <1>2, <1>4, <2>1, WriteLast
    <2> QED BY <1>1, <1>3, <1>5, <2>2 DEF Held
  <1>8. /\ result'[u] = Returned(Len(bytes), <<>>) /\ MovesTo(u, off, Len(bytes))
    BY <1>2 DEF WriteBuffered, Finish, Returned, MovesTo, Call
  <1> QED BY <1>6, <1>7, <1>8, WriteIs

\* ... as is the end of a direct one ...
LEMMA ThroughStep ==
  ASSUME Inv, Inv', NEW u \in Openers, Maps(u), WriteThrough(u)
  PROVE  AbstractFile!Next
  <1> DEFINE off == op[u].off
             bytes == op[u].bytes
             req == Req(u, off, bytes)
  <1>1. /\ op[u].at = "direct" /\ backlog' = backlog /\ buffer' = Written(buffer, req)
        /\ op' = [op EXCEPT ![u] = Idle]
    BY DEF WriteThrough, Apply
  <1>2. /\ backlog[u] = <<>> /\ op \in [Openers -> OpTypes]
        /\ pos \in [Openers -> 0..(Modulus - 1)] /\ result \in [Openers -> Results]
        /\ op[u].moves => op[u].off = pos[u]
        /\ op[u].next = 1
    BY <1>1 DEF Inv, Types, FileInv
  <1>3. op'[u].next = 1 /\ backlog'[u] = <<>>
    BY <1>1, <1>2 DEF Idle, Method
  <1>4. Held(u) = buffer /\ Held(u)' = buffer'
    BY <1>2, <1>3, WaitingIs, WaitingNext, HeldIs, HeldNext
  <1>5. off \in 0..(Modulus - 1) /\ bytes \in Data
    BY <1>2 DEF OpTypes
  <1>6. req.pos = off /\ req.bytes = bytes
    BY DEF Req
  <1>7. \/ result'[u] = Returned(Len(bytes), <<>>) /\ MovesTo(u, off, Len(bytes))
        \/ ~CanWrite(off) /\ result'[u] = Einval /\ pos'[u] = pos[u]
    <2>1. CASE CanWrite(off)
      BY <1>2, <2>1 DEF WriteThrough, Finish, Returned, MovesTo
    <2>2. CASE ~CanWrite(off)
      BY <1>2, <2>2 DEF WriteThrough, Finish, Einval
    <2> QED BY <2>1, <2>2
  <1>8. Held(u)' = Written(Held(u), req)
    BY <1>1, <1>4
  <1> HIDE DEF off, bytes, req
  <1> QED BY <1>5, <1>6, <1>7, <1>8, WriteIs

\* ... the beginning of a method is not seen ...
LEMMA BeginStep ==
  ASSUME Inv, Inv', NEW u \in Openers, Maps(u), NEW f, op[u].at = "idle", f.next = 1,
         op' = [op EXCEPT ![u] = f], UNCHANGED <<buffer, backlog, pos, result>>
  PROVE  UNCHANGED AbstractFile!vars
  <1>1. op[u].next = 1 /\ op'[u].next = 1
    BY DEF Inv, Types, FileInv
  <1>2. Waiting(u)' = Waiting(u)
    BY <1>1, WaitingIs, WaitingNext
  <1>3. Held(u)' = Held(u)
    BY <1>2 DEF Held
  <1> QED BY <1>3, Unseen

\* ... nor is an entry of the backlog that comes to the file ...
LEMMA FlushStep ==
  ASSUME Inv, Inv', NEW u \in Openers, Maps(u), FlushOne(u)
  PROVE  UNCHANGED AbstractFile!vars
  <1> DEFINE k == op[u].next
             b == backlog[u]
  <1>1. /\ k <= Len(b) /\ buffer' = Written(buffer, b[k]) /\ backlog' = backlog
        /\ op' = [op EXCEPT ![u] = [op[u] EXCEPT !.next = k + 1]]
        /\ pos' = pos /\ result' = result
    BY DEF FlushOne, Apply
  <1>2. b \in Seq(Reqs) /\ k \in 1..Len(b) /\ Len(b) \in k..Len(b) /\ buffer \in Seq(Bytes)
        /\ op \in [Openers -> OpTypes]
    <2>1. /\ b \in Seq(Reqs) /\ op[u] \in OpTypes /\ buffer \in Seq(Bytes)
          /\ op \in [Openers -> OpTypes]
      BY DEF Inv, Types
    <2>2. k \in Nat \ {0} /\ Len(b) \in Nat /\ k <= Len(b)
      BY <1>1, <2>1 DEF OpTypes
    <2> HIDE DEF k, b
    <2>3. k \in 1..Len(b) /\ Len(b) \in k..Len(b)
      BY <2>2
    <2> QED BY <2>1, <2>3
  <1>3. op'[u].next = k + 1 /\ backlog'[u] = b
    BY <1>1, <1>2 DEF OpTypes
  <1> HIDE DEF k, b
  <1>4. Waiting(u) = SubSeq(b, k, Len(b)) /\ Waiting(u)' = SubSeq(b, k + 1, Len(b))
    BY <1>3 DEF Waiting, k, b
  <1>5. Head(SubSeq(b, k, Len(b))) = b[k] /\ Tail(SubSeq(b, k, Len(b))) = SubSeq(b, k + 1, Len(b))
    BY <1>2, HeadTailOfSubSeq
  <1>6. SubSeq(b, k, Len(b)) \in Seq(Reqs) /\ SubSeq(b, k, Len(b)) # <<>>
    <2>1. k \in Int /\ Len(b) \in Int /\ k <= Len(b) /\ \A i \in k..Len(b) : b[i] \in Reqs
      BY <1>2
    <2>2. SubSeq(b, k, Len(b)) \in Seq(Reqs) /\ Len(SubSeq(b, k, Len(b))) = Len(b) - k + 1
      BY <2>1, SubSeqProperties
    <2>3. Len(b) - k + 1 # 0
      BY <2>1
    <2> QED BY <2>2, <2>3
  <1>7. Held(u)' = Held(u)
    BY <1>1, <1>2, <1>4, <1>5, <1>6, WriteFirst DEF Held
  <1> QED BY <1>1, <1>7, Unseen

\* ... the end of fsync is a sync, that of a read a read of what the user sees ...
LEMMA ReturnStep ==
  ASSUME Inv, Inv', NEW u \in Openers, Flushed(u), Clear(u), op' = [op EXCEPT ![u] = Idle],
         UNCHANGED buffer
  PROVE  Held(u) = buffer /\ Held(u)' = Held(u)
  <1>1. op[u].next > Len(backlog[u]) /\ op'[u].next = 1 /\ backlog'[u] = <<>>
    BY DEF Flushed, Clear, Inv, Types, Idle, Method
  <1> QED BY <1>1, WaitingIs, WaitingNext, HeldIs, HeldNext

\* This is the end of fsync ...
LEMMA FsyncStep ==
  ASSUME Inv, Inv', NEW u \in Openers, Maps(u), FsyncReturns(u)
  PROVE  AbstractFile!Next
  <1>1. Held(u)' = Held(u)
    BY ReturnStep DEF FsyncReturns
  <1>2. pos'[u] = pos[u] /\ result'[u] = Returned(0, <<>>)
    BY DEF FsyncReturns, Finish, Inv, Types
  <1> QED BY <1>1, <1>2, SyncIs

\* ... and this that of read and pread.
LEMMA ReadStep ==
  ASSUME Inv, Inv', NEW u \in Openers, Maps(u), ReadReturns(u)
  PROVE  AbstractFile!Next
  <1> DEFINE off == op[u].off
             n == op[u].n
             bytes == ReadAt(buffer, off, n)
             res == IF CanRead(buffer, off) THEN Returned(Len(bytes), bytes) ELSE Einval
  <1>1. Held(u) = buffer /\ Held(u)' = Held(u)
    BY ReturnStep DEF ReadReturns
  <1>2. /\ off \in 0..(Modulus - 1) /\ n \in 0..MaxLen
        /\ op[u].moves => off = pos[u]
    BY DEF Inv, Types, OpTypes, FileInv, ReadReturns, Flushed
  <1>3. /\ pos'[u] = (IF res.ok /\ op[u].moves THEN (pos[u] + res.n) % Modulus ELSE pos[u])
        /\ result'[u] = res
    BY DEF ReadReturns, Finish, Inv, Types
  <1>4. CASE CanRead(buffer, off)
    <2>1. res = Returned(Len(bytes), bytes) /\ res.ok /\ res.n = Len(bytes)
      BY <1>4 DEF Returned
    <2>2. MovesTo(u, off, Len(bytes))
      BY <1>2, <1>3, <2>1 DEF MovesTo
    <2> HIDE DEF off, n, res
    <2> QED BY <1>1, <1>2, <1>3, <1>4, <2>1, <2>2, ReadIs
  <1>5. CASE ~CanRead(buffer, off)
    <2>1. res = Einval /\ ~res.ok
      BY <1>5 DEF Einval
    <2>2. result'[u] = Einval /\ pos'[u] = pos[u]
      BY <1>3, <2>1
    <2> HIDE DEF off, n, res
    <2> QED BY <1>1, <1>2, <1>5, <2>2, ReadIs
  <1> QED BY <1>4, <1>5

\* ... and a seek is one whose end may be the end of the file without the
\* backlog.
LEMMA SeekStep ==
  ASSUME Inv, NEW u \in Openers, users = {u}, Maps(u), NEW off \in 0..(Modulus - 1), Lseek(u, off)
  PROVE  AbstractFile!Next
  <1>1. Held(u)' = Held(u)
    BY DEF Lseek, Held, Waiting
  <1>2. Sizes(u) = {Len(buffer)}
    BY DEF Sizes
  <1>3. Len(buffer) \in 0..Len(Held(u))
    <2>1. Len(Held(u)) >= Len(buffer) /\ Len(Held(u)) \in Nat /\ Len(buffer) \in Nat
      BY HeldIs DEF Inv, Types
    <2> QED BY <2>1
  <1>4. \/ \E base \in {0, pos[u]} \cup 0..Len(Held(u)) :
              /\ pos'[u] = (base + off) % Modulus
              /\ result'[u] = Returned(pos'[u], <<>>)
        \/ pos'[u] = pos[u] /\ result'[u] = Einval
    <2>1. pos \in [Openers -> 0..(Modulus - 1)] /\ result \in [Openers -> Results]
      BY DEF Inv, Types
    <2>2. CASE \E base \in {0, pos[u]} \cup Sizes(u) :
                 /\ pos' = [pos EXCEPT ![u] = (base + off) % Modulus]
                 /\ result' = [result EXCEPT ![u] = Returned((base + off) % Modulus, <<>>)]
      BY <1>2, <1>3, <2>1, <2>2
    <2>3. CASE pos' = pos /\ result' = [result EXCEPT ![u] = Einval]
      BY <2>1, <2>3
    <2> QED BY <2>2, <2>3 DEF Lseek
  <1> QED BY <1>1, <1>4, SeekIs

\* Every step is one of File or is not seen.
LEMMA FileStep ==
  ASSUME Inv, Inv', [Next]_vars
  PROVE  [AbstractFile!Next]_(AbstractFile!vars)
  <1>1. UNCHANGED users
    <2>1. ASSUME NEW o \in users, NEW off, NEW bytes, NEW moves, NEW then, NEW n
          PROVE  /\ WriteBuffered(o, off, bytes, moves) => UNCHANGED users
                 /\ WriteDirect(o, off, bytes, moves) => UNCHANGED users
                 /\ Start(o, then, off, n, moves) => UNCHANGED users
                 /\ Lseek(o, off) => UNCHANGED users
      BY DEF WriteBuffered, WriteDirect, Start, Lseek, Finish
    <2>2. ASSUME NEW o \in users
          PROVE  /\ WriteThrough(o) => UNCHANGED users
                 /\ FlushOne(o) => UNCHANGED users
                 /\ FsyncReturns(o) => UNCHANGED users
                 /\ ReadReturns(o) => UNCHANGED users
      BY DEF WriteThrough, FlushOne, FsyncReturns, ReadReturns, Finish
    <2>3. UNCHANGED vars => UNCHANGED users
      BY DEF vars
    <2> QED BY <2>1, <2>2, <2>3 DEF Next
  <1>2. CASE ~Alone
    BY <1>1, <1>2, NobodyAlone
  <1>3. CASE Alone
    <2>1. PICK u \in Openers : users = {u}
      BY <1>3 DEF Alone
    <2>2. Maps(u)
      BY <1>1, <2>1, MapsIt
    <2>3. CASE UNCHANGED vars
      <3>1. Held(u)' = Held(u) /\ pos' = pos /\ result' = result
        BY <2>3 DEF vars, Held, Waiting
      <3> QED BY <2>2, <3>1, Unseen
    <2>4. ASSUME NEW off \in 0..(Modulus - 1), NEW moves \in BOOLEAN, NEW bytes \in Data,
                 Call(u, off, moves), WriteBuffered(u, off, bytes, moves)
          PROVE  AbstractFile!Next
      BY <2>2, <2>4, BufferedStep
    <2>5. ASSUME NEW off \in 0..(Modulus - 1), NEW moves \in BOOLEAN, NEW bytes \in Data,
                 WriteDirect(u, off, bytes, moves)
          PROVE  UNCHANGED AbstractFile!vars
      <3> DEFINE f == Method("direct", "none", off, 0, bytes, moves)
      <3>1. f.next = 1
        BY DEF Method
      <3>2. /\ op[u].at = "idle" /\ op' = [op EXCEPT ![u] = f]
            /\ UNCHANGED <<buffer, backlog, pos, result>>
        BY <2>5 DEF WriteDirect
      <3> HIDE DEF f
      <3> QED BY <2>2, <3>1, <3>2, BeginStep
    <2>6. ASSUME NEW then, NEW off, NEW n, NEW moves, Start(u, then, off, n, moves)
          PROVE  UNCHANGED AbstractFile!vars
      <3> DEFINE f == Method("flush", then, off, n, <<>>, moves)
      <3>1. f.next = 1
        BY DEF Method
      <3>2. /\ op[u].at = "idle" /\ op' = [op EXCEPT ![u] = f]
            /\ UNCHANGED <<buffer, backlog, pos, result>>
        BY <2>6 DEF Start
      <3> HIDE DEF f
      <3> QED BY <2>2, <3>1, <3>2, BeginStep
    <2>7. WriteThrough(u) \/ FsyncReturns(u) \/ ReadReturns(u) => AbstractFile!Next
      BY <2>2, ThroughStep, FsyncStep, ReadStep
    <2>8. FlushOne(u) => UNCHANGED AbstractFile!vars
      BY <2>2, FlushStep
    <2>9. ASSUME NEW off \in 0..(Modulus - 1), Lseek(u, off) PROVE AbstractFile!Next
      BY <2>1, <2>2, <2>9, SeekStep
    <2>10. CASE Next
      BY <2>1, <2>4, <2>5, <2>6, <2>7, <2>8, <2>9, <2>10 DEF Next
    <2> QED BY <2>3, <2>10
  <1> QED BY <1>2, <1>3

\* A single open file behaves like a file whose writes take effect at once,
\* whatever it writes and wherever fsync or a read flushes the backlog (write,
\* read, pwrite, pread, lseek and fsync of open_file).
THEOREM OpenFileImplementsFile == Spec => ImplementsFile
  <1>1. Init => AbstractFile!Init
    <2> SUFFICES ASSUME Init PROVE AbstractFile!Init
      OBVIOUS
    <2>1. CASE ~Alone
      BY <2>1, SameOps DEF Content, AbstractFile!Init
    <2>2. CASE Alone
      <3>1. PICK u \in Openers : users = {u}
        BY <2>2 DEF Alone
      <3>2. User = u
        <4>1. \A x : x \in {u} => x = u
          OBVIOUS
        <4> QED BY <3>1, <4>1 DEF User
      <3>3. pos[u] = 0 /\ result[u] = Returned(0, <<>>) /\ backlog[u] = <<>> /\ buffer = <<>>
        BY DEF Init
      <3>4. op[u].next = 1
        BY DEF Init, Idle, Method
      <3>5. Waiting(u) = <<>>
        BY <3>3, <3>4, StartInv, WaitingIs
      <3>6. Content = <<>>
        BY <2>2, <3>2, <3>3, <3>5, StartInv, HeldIs DEF Content, Held
      <3> QED BY <2>2, <3>2, <3>3, <3>6, SameOps DEF AbstractFile!Init
    <2> QED BY <2>1, <2>2
  <1>2. Inv /\ Inv' /\ [Next]_vars => [AbstractFile!Next]_(AbstractFile!vars)
    BY FileStep
  <1> QED BY <1>1, <1>2, InvHolds, PTL DEF Spec, ImplementsFile, AbstractFile!Spec

-----------------------------------------------------------------------------
\* What the table may hold, and the tables: vectors of any size.
Entries == {Hooks[i][2] : i \in DOMAIN Hooks} \cup {NoHook}
Tables == UNION {[0..(m - 1) -> Entries] : m \in Nat}

\* A table made larger is a table, with the same entries.
LEMMA ResizedIs ==
  ASSUME NEW t \in Tables, NEW n \in Nat
  PROVE  Resized(t, n) \in [0..(n - 1) -> Entries]
  <1>1. PICK m \in Nat : t \in [0..(m - 1) -> Entries]
    BY DEF Tables
  <1>2. \A i \in DOMAIN t : t[i] \in Entries
    BY <1>1
  <1>3. NoHook \in Entries
    BY DEF Entries
  <1> HIDE DEF Entries
  <1> QED BY <1>2, <1>3 DEF Resized

\* The hook that a look-up finds, as get_hook does it.
Lookup(t, sys) == IF sys \in DOMAIN t THEN t[sys] ELSE NoHook

\* The i-th pair of the list.
LEMMA PairIs ==
  ASSUME NEW i \in 1..Len(Hooks)
  PROVE  Hooks[i][1] \in Nat /\ Hooks[i][2] \in Entries
  BY HooksAssumption DEF Entries

\* What one round of the loop does to a table: a look-up finds the pair's hook
\* for the pair's number, and what it found before for another.
OneMore(z, t, n, h) ==
  /\ z \in Tables
  /\ Lookup(z, n) = h
  /\ \A sys \in Nat \ {n} : Lookup(z, sys) = Lookup(t, sys)

\* That is what it does.
LEMMA FilledIs ==
  ASSUME NEW t \in Tables, NEW n \in Nat, NEW h \in Entries,
         NEW pair, pair[1] = n, pair[2] = h
  PROVE  OneMore(Filled(t, pair), t, n, h)
  <1> DEFINE z == Filled(t, pair)
  <1>1. PICK m \in Nat : t \in [0..(m - 1) -> Entries]
    BY DEF Tables
  <1>2. CASE n \in DOMAIN t
    <2>1. z = [t EXCEPT ![n] = h]
      BY <1>2 DEF Filled
    <2>2. z \in [0..(m - 1) -> Entries]
      BY <1>1, <1>2, <2>1
    <2>3. z \in Tables
      BY <2>2 DEF Tables
    <2>4. DOMAIN z = DOMAIN t /\ z[n] = h /\ \A sys \in DOMAIN t \ {n} : z[sys] = t[sys]
      BY <1>1, <1>2, <2>1
    <2> HIDE DEF z
    <2>5. OneMore(z, t, n, h)
      BY <1>2, <2>3, <2>4 DEF OneMore, Lookup
    <2> QED BY <2>5 DEF z
  <1>3. CASE n \notin DOMAIN t
    <2> DEFINE r == Resized(t, n + 1)
    <2>1. z = [r EXCEPT ![n] = h]
      BY <1>3 DEF Filled
    <2>2. r \in [0..n -> Entries]
      <3>1. n + 1 \in Nat /\ (n + 1) - 1 = n
        OBVIOUS
      <3>2. r \in [0..((n + 1) - 1) -> Entries]
        BY <3>1, ResizedIs
      <3> QED BY <3>1, <3>2
    <2>3. \A i \in 0..n : r[i] = Lookup(t, i)
      BY DEF Resized, Lookup
    <2>4. \A sys \in Nat \ (0..n) : sys \notin DOMAIN t
      <3>1. DOMAIN t = 0..(m - 1)
        BY <1>1
      <3> QED BY <1>3, <3>1
    <2> HIDE DEF r
    <2>5. z \in [0..n -> Entries] /\ z[n] = h /\ \A i \in 0..n : i # n => z[i] = r[i]
      BY <2>1, <2>2
    <2>6. z \in Tables
      <3>1. n + 1 \in Nat /\ (n + 1) - 1 = n
        OBVIOUS
      <3> QED BY <2>5, <3>1 DEF Tables
    <2> HIDE DEF z
    <2>7. DOMAIN z = 0..n /\ n \in 0..n
      BY <2>5
    <2>8. Lookup(z, n) = h
      BY <2>5, <2>7 DEF Lookup
    <2>9. ASSUME NEW sys \in Nat \ {n} PROVE Lookup(z, sys) = Lookup(t, sys)
      <3>1. CASE sys \in 0..n
        BY <2>3, <2>5, <2>7, <3>1 DEF Lookup
      <3>2. CASE sys \notin 0..n
        BY <2>4, <2>7, <3>2 DEF Lookup
      <3> QED BY <3>1, <3>2
    <2>10. OneMore(z, t, n, h)
      BY <2>6, <2>8, <2>9 DEF OneMore
    <2> QED BY <2>10 DEF z
  <1> QED BY <1>2, <1>3

\* build_hook_table as the loop that it is: the tables after each pair.
IsBuilding(g, c, base, memory) ==
  /\ g \in [0..c -> Tables]
  /\ g[0] = base
  /\ \A k \in 1..c : g[k] = Filled(g[k - 1], Hooks[k])
  /\ BuildHookTable(memory) = g[c]

\* There are such tables.
LEMMA BuildLoop ==
  ASSUME NEW memory, NEW c \in Nat, c = Len(Hooks),
         NEW base \in Tables, base = Resized(Unbuilt, FirstSize(memory))
  PROVE  \E g : IsBuilding(g, c, base, memory)
  <1> DEFINE F == [x \in (1..c) \X Tables |-> Filled(x[2], Hooks[x[1]])]
             iter[s \in SUBSET DOMAIN Hooks] ==
               IF s = {} THEN base
               ELSE LET x == Max(s) IN Filled(iter[s \ {x}], Hooks[x])
  <1>14. DOMAIN Hooks = 1..c
    BY HooksAssumption
  <1>1. BuildHookTable(memory) = iter[DOMAIN Hooks]
    BY DEF BuildHookTable, FoldLeft, MapThenFoldSet
  <1>2. ASSUME NEW t \in Tables, NEW k \in 1..c PROVE Filled(t, Hooks[k]) \in Tables
    <2>1. Hooks[k][1] \in Nat /\ Hooks[k][2] \in Entries
      BY PairIs
    <2>2. OneMore(Filled(t, Hooks[k]), t, Hooks[k][1], Hooks[k][2])
      BY <2>1, FilledIs
    <2> QED BY <2>2 DEF OneMore
  <1> DEFINE Eq(f) == f = [s \in SUBSET DOMAIN Hooks |->
               IF s = {} THEN base ELSE Filled(f[s \ {Max(s)}], Hooks[Max(s)])]
  <1>3. iter = CHOOSE f : Eq(f)
    OBVIOUS
  <1> HIDE DEF iter
  <1>4. F \in [(1..c) \X Tables -> Tables]
    BY <1>2
  <1>5. PICK it : IsFold(it, c, Tables, base, F)
    <2> HIDE DEF F
    <2> QED BY <1>4, FoldExists
  <1>6. Eq(it)
    <2>2. ASSUME NEW s \in SUBSET (1..c), s # {}
          PROVE  F[<<Max(s), it[s \ {Max(s)}]>>] = Filled(it[s \ {Max(s)}], Hooks[Max(s)])
      <3>1. Max(s) \in s
        BY <2>2, MaxIn
      <3>2. Max(s) \in 1..c
        BY <3>1
      <3>3. it[s \ {Max(s)}] \in Tables
        BY <1>5 DEF IsFold
      <3> QED BY <3>2, <3>3
    <2>3. it = [s \in SUBSET (1..c) |-> it[s]]
      BY <1>5 DEF IsFold
    <2>4. \A s \in SUBSET (1..c) :
            it[s] = IF s = {} THEN base ELSE Filled(it[s \ {Max(s)}], Hooks[Max(s)])
      <3> HIDE DEF F
      <3> QED BY <1>5, <2>2 DEF IsFold
    <2> HIDE DEF F
    <2> QED BY <1>14, <2>3, <2>4
  <1>7. Eq(iter)
    <2> HIDE DEF Eq
    <2> QED BY <1>3, <1>6
  <1> DEFINE g == [k \in 0..c |-> iter[1..k]]
  <1>8. iter[{}] = base
    <2>1. {} \in SUBSET DOMAIN Hooks
      OBVIOUS
    <2> QED BY <1>7, <2>1
  <1>9. ASSUME NEW k \in 1..c PROVE iter[1..k] = Filled(iter[1..(k - 1)], Hooks[k])
    <2>1. (1..k) \in SUBSET DOMAIN Hooks /\ (1..k) # {}
      <3>1. (1..k) \in SUBSET (1..c) /\ k \in 1..k
        OBVIOUS
      <3> QED BY <1>14, <3>1
    <2>2. Max(1..k) = k
      <3>1. k - 1 \in Nat /\ (k - 1) + 1 = k /\ k \in 1..k
        OBVIOUS
      <3> QED BY <3>1, MaxOf
    <2>3. (1..k) \ {k} = 1..(k - 1)
      OBVIOUS
    <2> QED BY <1>7, <2>1, <2>2, <2>3
  <1>10. g[0] = base /\ \A k \in 1..c : g[k] = Filled(g[k - 1], Hooks[k])
    BY <1>8, <1>9
  <1>11. BuildHookTable(memory) = g[c]
    BY <1>1, <1>14
  <1> DEFINE T == {k \in 0..c : g[k] \in Tables}
  <1>12. 0..c \subseteq T
    <2>1. 0 \in T
      BY <1>10
    <2>2. ASSUME NEW k \in 0..(c - 1), k \in T PROVE k + 1 \in T
      <3>1. k + 1 \in 1..c /\ (k + 1) - 1 = k
        OBVIOUS
      <3> HIDE DEF g
      <3> QED BY <1>2, <1>10, <2>2, <3>1
    <2> HIDE DEF T
    <2> QED BY <2>1, <2>2, UpTo
  <1>13. g \in [0..c -> Tables]
    BY <1>12
  <1> HIDE DEF g
  <1> QED BY <1>10, <1>11, <1>13 DEF IsBuilding

\* h is what the first k pairs of the list have for a number.
IsListed(h, k, sys) ==
  \/ h = NoHook /\ \A i \in 1..k : Hooks[i][1] # sys
  \/ \E i \in 1..k : /\ Hooks[i][1] = sys /\ h = Hooks[i][2]
                     /\ \A j \in 1..k : Hooks[j][1] = sys => j <= i

\* For the whole list that is what Listed says.
LEMMA ListedIs ==
  ASSUME NEW h, NEW sys \in Nat, IsListed(h, Len(Hooks), sys)
  PROVE  h = Listed(sys)
  <1> DEFINE at == {i \in DOMAIN Hooks : Hooks[i][1] = sys}
  <1>1. DOMAIN Hooks = 1..Len(Hooks) /\ Len(Hooks) \in Nat
    BY HooksAssumption
  <1>2. CASE h = NoHook /\ \A i \in 1..Len(Hooks) : Hooks[i][1] # sys
    <2>1. at = {}
      BY <1>1, <1>2
    <2> QED BY <1>2, <2>1 DEF Listed
  <1>3. CASE \E i \in 1..Len(Hooks) : /\ Hooks[i][1] = sys /\ h = Hooks[i][2]
                /\ \A j \in 1..Len(Hooks) : Hooks[j][1] = sys => j <= i
    <2>1. PICK i \in at : h = Hooks[i][2] /\ \A j \in at : j <= i
      BY <1>1, <1>3
    <2>2. at \subseteq Nat /\ at # {}
      BY <1>1
    <2> DEFINE top == CHOOSE n \in at : \A j \in at : j <= n
    <2>3. top \in at /\ \A j \in at : j <= top
      BY <2>1
    <2>4. Listed(sys) = Hooks[top][2]
      BY <2>2 DEF Listed
    <2> HIDE DEF at, top
    <2>5. top = i
      BY <2>1, <2>2, <2>3
    <2> QED BY <2>1, <2>4, <2>5
  <1> QED BY <1>2, <1>3 DEF IsListed

\* Whatever the memory past the list held, the table answers for each number
\* as the list does.
LEMMA BuiltAsListed ==
  ASSUME NEW memory \in 0..(SizeModulus - 1)
  PROVE  \A sys \in Nat : Lookup(BuildHookTable(memory), sys) = Listed(sys)
  <1> DEFINE base == Resized(Unbuilt, FirstSize(memory))
  <1>1. Len(Hooks) \in Nat /\ 1 \in 1..Len(Hooks)
    BY HooksAssumption
  <1>2. FirstSize(memory) \in Nat
    <2>1. Hooks[1][1] \in Nat
      BY <1>1, PairIs
    <2>2. SizeModulus \in Nat /\ SizeModulus > 0
      BY TableAssumption
    <2>3. MaxSysno(memory) + 1 \in Nat
      BY <2>1, <2>2 DEF MaxSysno
    <2> QED BY <2>2, <2>3 DEF FirstSize
  <1>3. base \in Tables /\ \A sys \in Nat : Lookup(base, sys) = NoHook
    <2>1. NoHook \in Entries
      BY DEF Entries
    <2>2. \A sys \in Nat : Lookup(base, sys) = NoHook
      BY DEF Resized, Unbuilt, Lookup
    <2>3. base \in [0..(FirstSize(memory) - 1) -> Entries]
      BY <2>1 DEF Resized, Unbuilt
    <2> HIDE DEF base
    <2> QED BY <1>2, <2>2, <2>3 DEF Tables
  <1> HIDE DEF base
  <1>4. PICK c \in Nat : c = Len(Hooks)
    BY <1>1
  <1>5. PICK g : IsBuilding(g, c, base, memory)
    BY <1>3, <1>4, BuildLoop DEF base
  <1> SUFFICES ASSUME NEW sys \in Nat PROVE Lookup(BuildHookTable(memory), sys) = Listed(sys)
    OBVIOUS
  <1> DEFINE T == {k \in 0..c : IsListed(Lookup(g[k], sys), k, sys)}
  <1>6. 0 \in T
    <2>1. g[0] = base
      BY <1>5 DEF IsBuilding
    <2>2. IsListed(Lookup(g[0], sys), 0, sys)
      BY <1>3, <2>1 DEF IsListed
    <2> QED BY <2>2
  <1>7. ASSUME NEW k \in 0..(c - 1), k \in T PROVE k + 1 \in T
    <2>1. k + 1 \in 1..c /\ (k + 1) - 1 = k /\ k \in 0..c
      OBVIOUS
    <2>2. g[k] \in Tables /\ g[k + 1] = Filled(g[k], Hooks[k + 1])
      BY <1>5, <2>1 DEF IsBuilding
    <2>3. Hooks[k + 1][1] \in Nat /\ Hooks[k + 1][2] \in Entries
      BY <1>4, <2>1, PairIs
    <2>4. OneMore(g[k + 1], g[k], Hooks[k + 1][1], Hooks[k + 1][2])
      BY <2>2, <2>3, FilledIs
    <2>5. IsListed(Lookup(g[k], sys), k, sys)
      BY <1>7
    <2>6. IsListed(Lookup(g[k + 1], sys), k + 1, sys)
      <3>1. CASE Hooks[k + 1][1] = sys
        <4>1. Lookup(g[k + 1], sys) = Hooks[k + 1][2]
          BY <2>4, <3>1 DEF OneMore
        <4>2. k + 1 \in 1..(k + 1) /\ \A j \in 1..(k + 1) : j <= k + 1
          OBVIOUS
        <4> QED BY <3>1, <4>1, <4>2 DEF IsListed
      <3>2. CASE Hooks[k + 1][1] # sys
        <4>1. Lookup(g[k + 1], sys) = Lookup(g[k], sys)
          BY <2>4, <3>2 DEF OneMore
        <4>2. 1..(k + 1) = (1..k) \cup {k + 1}
          OBVIOUS
        <4> QED BY <2>5, <3>2, <4>1, <4>2 DEF IsListed
      <3> QED BY <3>1, <3>2
    <2> QED BY <2>1, <2>6
  <1> HIDE DEF T
  <1>8. c \in T
    <2>1. 0..c \subseteq T
      BY <1>6, <1>7, UpTo
    <2> QED BY <2>1
  <1>9. IsListed(Lookup(g[c], sys), Len(Hooks), sys)
    BY <1>4, <1>8 DEF T
  <1> QED BY <1>5, <1>9, ListedIs DEF IsBuilding

-----------------------------------------------------------------------------
\* The invariant.  A built table answers as the list does, so the class that a
\* name is counted in depends on its number alone: no name is in two.
TableInv == table = Unbuilt \/ \A sys \in Numbers : Lookup(table, sys) = Listed(sys)
ClassInv ==
  /\ ~ended => all = passthroughSet \cup unimplemented \cup implemented
  /\ \A n \in passthroughSet : n \in Named /\ Listed(n) = Passthrough
  /\ \A n \in implemented : n \in Named /\ Listed(n) \notin {Passthrough, NoHook}
  /\ \A n \in unimplemented : n \in Named => Listed(n) = NoHook
HookInv == TableInv /\ AnswersAsListed /\ ClassInv

\* A number that syscall_name does not know has no hook.
LEMMA NamelessUnlisted ==
  ASSUME NEW sys, sys \notin Named
  PROVE  Listed(sys) = NoHook
  <1>1. {i \in DOMAIN Hooks : Hooks[i][1] = sys} = {}
    BY NamedAssumption DEF Hooked
  <1> QED BY <1>1 DEF Listed

\* The conversion to int neither loses nor makes up a name.
LEMMA NameOf ==
  ASSUME NEW sys \in Numbers
  PROVE  SyscallName(sys) = IF sys \in Named THEN sys ELSE NoName
  <1>1. /\ IntMax \in Nat /\ SizeModulus \in Nat /\ IntMax <= SizeModulus
        /\ Named \subseteq 0..(IntMax - 1)
        /\ sys \in 0..(IntMax - 1) \cup (SizeModulus - IntMax)..(SizeModulus - 1)
    BY NumbersAssumption, NamedAssumption, TableAssumption
  <1>2. CASE sys < IntMax
    BY <1>2 DEF SyscallName, ToInt
  <1>3. CASE ~(sys < IntMax)
    <2>1. sys \in Int /\ sys - SizeModulus < 0 /\ sys \notin Named
      BY <1>1, <1>3
    <2>2. ToInt(sys) \notin Named
      BY <1>1, <1>3, <2>1 DEF ToInt
    <2> QED BY <2>1, <2>2 DEF SyscallName
  <1> QED BY <1>2, <1>3

\* A call of get_hook finds in the table what the list has.
LEMMA FoundAsListed ==
  ASSUME TableInv, NEW sys \in Numbers, HookTable
  PROVE  TableInv' /\ Lookup(table', sys) = Listed(sys)
  <1>1. Numbers \subseteq Nat
    BY NumbersAssumption, TableAssumption
  <1>2. CASE table = Unbuilt
    <2>1. PICK memory \in 0..(SizeModulus - 1) : table' = BuildHookTable(memory)
      BY <1>2 DEF HookTable
    <2>2. \A n \in Numbers : Lookup(table', n) = Listed(n)
      BY <1>1, <2>1, BuiltAsListed
    <2> QED BY <2>2 DEF TableInv
  <1>3. CASE table # Unbuilt
    BY <1>3 DEF HookTable, TableInv
  <1> QED BY <1>2, <1>3

\* Every step keeps the invariant.
LEMMA HookStepInv == HookInv /\ [HookNext]_hookVars => HookInv'
  <1> SUFFICES ASSUME HookInv, [HookNext]_hookVars PROVE HookInv'
    OBVIOUS
  <1>1. ASSUME NEW sys \in Numbers, GetHook(sys) PROVE HookInv'
    <2> DEFINE name == SyscallName(sys)
               hook == Lookup(table', sys)
    <2>1. TableInv' /\ hook = Listed(sys)
      BY <1>1, FoundAsListed DEF HookInv, GetHook
    <2>2. /\ ~ended /\ ended' = ended
          /\ all' = all \cup {name}
          /\ passthroughSet' = IF hook = Passthrough THEN passthroughSet \cup {name} ELSE passthroughSet
          /\ unimplemented' = IF hook = NoHook THEN unimplemented \cup {name} ELSE unimplemented
          /\ implemented' = IF hook \notin {Passthrough, NoHook}
                            THEN implemented \cup {name} ELSE implemented
          /\ answers' = answers \cup {<<sys, hook>>}
      BY <1>1 DEF GetHook, Lookup
    <2>3. /\ name \in Named => Listed(name) = hook
          /\ name \notin Named => hook = NoHook
      <3>1. CASE sys \in Named
        BY <1>1, <2>1, <3>1, NameOf
      <3>2. CASE sys \notin Named
        BY <1>1, <2>1, <3>2, NameOf, NamelessUnlisted, NamedAssumption
      <3> QED BY <3>1, <3>2
    <2>4. Passthrough # NoHook
      BY HooksAssumption
    <2> HIDE DEF name
    <2>5. AnswersAsListed'
      BY <2>1, <2>2 DEF HookInv, AnswersAsListed
    <2> HIDE DEF hook
    <2>6. ClassInv'
      <3>1. CASE hook = Passthrough
        BY <2>2, <2>3, <2>4, <3>1 DEF HookInv, ClassInv
      <3>2. CASE hook = NoHook
        BY <2>2, <2>3, <2>4, <3>2 DEF HookInv, ClassInv
      <3>3. CASE hook \notin {Passthrough, NoHook}
        BY <2>2, <2>3, <3>3 DEF HookInv, ClassInv
      <3> QED BY <3>1, <3>2, <3>3
    <2> QED BY <2>1, <2>5, <2>6 DEF HookInv
  <1>2. ASSUME NEW sys \in Numbers, BuildFails(sys) PROVE HookInv'
    BY <1>2 DEF HookInv, TableInv, AnswersAsListed, ClassInv, BuildFails
  <1>3. CASE UNCHANGED hookVars
    BY <1>3 DEF HookInv, TableInv, AnswersAsListed, ClassInv, hookVars
  <1> QED BY <1>1, <1>2, <1>3 DEF HookNext

\* The invariant holds of every reachable state.
THEOREM HookInvHolds == HookSpec => []HookInv
  <1>1. HookInit => HookInv
    BY DEF HookInit, HookInv, TableInv, AnswersAsListed, ClassInv
  <1> QED BY <1>1, HookStepInv, PTL DEF HookSpec

\* get_hook finds the hook that the list names and none for another number,
\* whatever build_hook_table read past the end of the list.
THEOREM AnswersCorrect == HookSpec => []AnswersAsListed
  <1>1. HookInv => AnswersAsListed
    BY DEF HookInv
  <1> QED BY <1>1, HookInvHolds, PTL

\* The statistics of get_hook put every call that returned into one class, and
\* no name into two.
THEOREM StatisticsCorrect == HookSpec => []StatisticsPartition
  <1>1. HookInv => StatisticsPartition
    <2> SUFFICES ASSUME HookInv PROVE StatisticsPartition
      OBVIOUS
    <2>1. Passthrough # NoHook
      BY HooksAssumption
    <2> QED BY <2>1 DEF HookInv, ClassInv, StatisticsPartition
  <1> QED BY <1>1, HookInvHolds, PTL
=============================================================================
