------------------------- MODULE StreamPipe_proofs --------------------------
(***************************************************************************)
(* Theorems about StreamPipe, for every set of sends, every size of a word *)
(* and every size of the guests' memories.                                 *)
(*                                                                         *)
(* write_memory is a loop, and the model a fold: the first part shows what *)
(* it does to each byte.  The second part has the invariant of the calls   *)
(* and the mutex, the third the refinement of ByteStream.                  *)
(***************************************************************************)
EXTENDS StreamPipe, SequenceTheorems, WellFoundedInduction, TLAPS

\* Induction over the numbers up to top, for a set of numbers.
LEMMA UpTo ==
  ASSUME NEW top \in Nat, NEW T, 0 \in T, \A k \in 0..(top - 1) : k \in T => k + 1 \in T
  PROVE  0..top \subseteq T
  <1> SUFFICES ASSUME ~(0..top \subseteq T) PROVE FALSE
    OBVIOUS
  <1> DEFINE B == {k \in 0..top : k \notin T}
  <1>1. B \subseteq Nat /\ B # {}
    OBVIOUS
  <1>2. PICK x \in B : \A y \in B : ~(<<y, x>> \in OpToRel(<, Nat))
    BY <1>1, NatLessThanWellFounded, WFMin
  <1>3. x # 0 /\ x \in 0..top /\ x \notin T
    BY <1>2
  <1>5. x - 1 \in 0..(top - 1) /\ x - 1 < x /\ x \in Nat /\ x - 1 \in Nat
    BY <1>3
  <1>4. x - 1 \notin B
    BY <1>2, <1>5 DEF OpToRel
  <1> QED BY <1>3, <1>4, <1>5

\* The largest element of an interval that starts with 1.
LEMMA MaxOf ==
  ASSUME NEW k \in Nat, NEW s \in SUBSET (1..(k + 1)), k + 1 \in s
  PROVE  Max(s) = k + 1
  <1>1. \A x \in s : (\A y \in s : x >= y) <=> x = k + 1
    OBVIOUS
  <1>2. \E x \in s : \A y \in s : x >= y
    BY <1>1
  <1>3. Max(s) \in s /\ \A y \in s : Max(s) >= y
    BY <1>2 DEF Max
  <1> QED BY <1>1, <1>3

\* A set of numbers up to top that is not empty has a largest one.
LEMMA MaxIn ==
  ASSUME NEW top \in Nat, NEW s \in SUBSET (1..top), s # {}
  PROVE  Max(s) \in s
  <1> DEFINE T == {top - x : x \in s}
  <1>0. \A x \in s : x \in Int /\ top - x \in Nat
    OBVIOUS
  <1>1. T \subseteq Nat /\ T # {}
    BY <1>0
  <1>2. PICK t \in T : \A u \in T : ~(<<u, t>> \in OpToRel(<, Nat))
    BY <1>1, NatLessThanWellFounded, WFMin
  <1>3. \A u \in T : t <= u
    <2> HIDE DEF T
    <2>1. \A u \in T : u \in Nat /\ t \in Nat /\ ~(u < t)
      BY <1>1, <1>2 DEF OpToRel
    <2> QED BY <2>1
  <1>4. PICK x \in s : t = top - x
    OBVIOUS
  <1>5. \A y \in s : top - y \in T
    OBVIOUS
  <1>6. \A y \in s : top - x <= top - y
    BY <1>3, <1>4, <1>5
  <1>7. \A y \in s : x >= y
    BY <1>0, <1>6
  <1> QED BY <1>7 DEF Max

\* it is what the community modules' fold of F over 1..top iterates over.
IsFold(it, top, M, base, F) ==
  /\ it \in [SUBSET (1..top) -> M]
  /\ \A s \in SUBSET (1..top) :
       it[s] = IF s = {} THEN base ELSE F[<<Max(s), it[s \ {Max(s)}]>>]

\* A fold over a sequence of numbers exists.
LEMMA FoldExists ==
  ASSUME NEW top \in Nat, NEW M, NEW base \in M, NEW F \in [(1..top) \X M -> M]
  PROVE  \E it : IsFold(it, top, M, base, F)
  <1> DEFINE Folds(m, it) == \A s \in SUBSET (1..m) :
               it[s] = IF s = {} THEN base ELSE F[<<Max(s), it[s \ {Max(s)}]>>]
             T == {m \in 0..top : \E it \in [SUBSET (1..m) -> M] : Folds(m, it)}
  <1>1. 0 \in T
    <2> DEFINE it == [s \in SUBSET (1..0) |-> base]
    <2>1. it \in [SUBSET (1..0) -> M]
      OBVIOUS
    <2>2. \A s \in SUBSET (1..0) : s = {}
      OBVIOUS
    <2>3. \A s \in SUBSET (1..0) : s = {} /\ it[s] = base
      BY <2>2
    <2> HIDE DEF it
    <2>4. Folds(0, it)
      BY <2>3
    <2> HIDE DEF Folds
    <2>5. \E f \in [SUBSET (1..0) -> M] : Folds(0, f)
      BY <2>1, <2>4
    <2>6. 0 \in 0..top
      OBVIOUS
    <2> QED BY <2>5, <2>6
  <1>2. ASSUME NEW k \in 0..(top - 1), k \in T PROVE k + 1 \in T
    <2>1. PICK f \in [SUBSET (1..k) -> M] : Folds(k, f)
      BY <1>2
    <2> DEFINE it == [s \in SUBSET (1..(k + 1)) |->
                        IF k + 1 \in s THEN F[<<k + 1, f[s \ {k + 1}]>>] ELSE f[s]]
    <2>2. ASSUME NEW s \in SUBSET (1..(k + 1)) PROVE s \ {k + 1} \in SUBSET (1..k)
      OBVIOUS
    <2>3. ASSUME NEW s \in SUBSET (1..(k + 1)), k + 1 \notin s PROVE s \in SUBSET (1..k) /\ it[s] = f[s]
      BY <2>3
    <2>4. it \in [SUBSET (1..(k + 1)) -> M]
      BY <2>2, <2>3
    <2>5. ASSUME NEW s \in SUBSET (1..(k + 1))
          PROVE  it[s] = IF s = {} THEN base ELSE F[<<Max(s), it[s \ {Max(s)}]>>]
      <3>1. CASE k + 1 \in s
        <4>1. Max(s) = k + 1
          BY <3>1, MaxOf
        <4>2. it[s \ {k + 1}] = f[s \ {k + 1}]
          BY <2>2, <2>3
        <4>3. it[s] = F[<<k + 1, f[s \ {k + 1}]>>]
          BY <3>1
        <4> QED BY <3>1, <4>1, <4>2, <4>3
      <3>2. CASE k + 1 \notin s
        <4>1. s \in SUBSET (1..k) /\ it[s] = f[s]
          BY <2>3, <3>2
        <4>2. f[s] = IF s = {} THEN base ELSE F[<<Max(s), f[s \ {Max(s)}]>>]
          BY <2>1, <4>1
        <4>3. s \ {Max(s)} \in SUBSET (1..(k + 1)) /\ k + 1 \notin s \ {Max(s)}
          BY <3>2
        <4>4. it[s \ {Max(s)}] = f[s \ {Max(s)}]
          BY <2>3, <4>3
        <4> HIDE DEF it
        <4> QED BY <4>1, <4>2, <4>4
      <3> QED BY <3>1, <3>2
    <2> HIDE DEF it
    <2>6. Folds(k + 1, it)
      BY <2>5
    <2> HIDE DEF Folds
    <2> QED BY <2>4, <2>6
  <1> HIDE DEF T
  <1>3. top \in T
    <2>1. 0..top \subseteq T
      BY <1>1, <1>2, UpTo
    <2> QED BY <2>1
  <1> QED BY <1>3 DEF T, IsFold

\* The k-th word of a copy follows the one before.
LEMMA WordAtNext ==
  ASSUME NEW k \in Nat
  PROVE  WordAt(k + 1) = WordAt(k) + WordSize /\ WordAt(k + 1) = k * WordSize
         /\ WordAt(k + 1) \in Nat
  BY WordSizeAssumption DEF WordAt

\* One step of write_memory keeps the memory a memory.
LEMMA PokeType ==
  ASSUME NEW D \in SUBSET Nat, NEW V, AllOnes \in V, NEW m \in [D -> V], NEW p \in Nat,
         NEW data \in Seq(V), NEW k \in Nat \ {0}
  PROVE  Poke(m, p + WordAt(k), WordToPoke(m, p, data, k)) \in [D -> V]
  <1> DEFINE q == p + WordAt(k)
             word == WordToPoke(m, p, data, k)
  <1>1. WordAt(k) \in Nat /\ q \in Nat /\ WordSize \in Nat
    <2>1. k - 1 \in Nat /\ (k - 1) + 1 = k
      OBVIOUS
    <2>2. WordAt(k) \in Nat
      BY <2>1, WordAtNext
    <2> QED BY <2>2, WordSizeAssumption
  <1>2. ASSUME NEW i \in 1..WordSize PROVE Peek(m, q)[i] \in V
    <2>1. q + i - 1 \in Word(q)
      BY <1>1 DEF Word
    <2> QED BY <2>1 DEF Peek
  <1>3. ASSUME NEW i \in 1..WordSize PROVE word[i] \in V
    <2>1. WordAt(k) + i <= Len(data) => WordAt(k) + i \in DOMAIN data
      BY <1>1
    <2> QED BY <1>2, <2>1 DEF WordToPoke
  <1>4. ASSUME NEW a \in D, a \in Word(q) PROVE a - q + 1 \in 1..WordSize
    BY <1>1, <1>4 DEF Word
  <1> HIDE DEF q, word
  <1> QED BY <1>3, <1>4 DEF Poke, q, word

\* write_memory as the loop that it is: the memories after each of c words.
IsWriting(g, c, M, mem, p, data) ==
  /\ g \in [0..c -> M]
  /\ g[0] = mem
  /\ \A k \in 1..c : g[k] = Poke(g[k - 1], p + WordAt(k), WordToPoke(g[k - 1], p, data, k))
  /\ WriteMemory(mem, p, data) = g[c]

\* There are such memories.
LEMMA WriteLoop ==
  ASSUME NEW D \in SUBSET Nat, NEW V, AllOnes \in V, NEW mem \in [D -> V], NEW p \in Nat,
         NEW data \in Seq(V), NEW c \in Nat, c = Words(Len(data))
  PROVE  \E g : IsWriting(g, c, [D -> V], mem, p, data)
  <1> DEFINE M == [D -> V]
             seq == [k \in 1..c |-> k]
             After(m, k) == Poke(m, p + WordAt(k), WordToPoke(m, p, data, k))
             F == [x \in (1..c) \X M |-> After(x[2], x[1])]
             iter[s \in SUBSET DOMAIN seq] ==
               IF s = {} THEN mem
               ELSE LET x == Max(s) IN After(iter[s \ {x}], seq[x])
  <1>1. WriteMemory(mem, p, data) = iter[DOMAIN seq]
    BY DEF WriteMemory, FoldLeft, MapThenFoldSet
  <1>2. ASSUME NEW m \in M, NEW k \in 1..c PROVE After(m, k) \in M
    <2>1. k \in Nat \ {0} /\ m \in [D -> V]
      OBVIOUS
    <2> QED BY <2>1, PokeType
  <1> DEFINE Eq(f) == f = [s \in SUBSET DOMAIN seq |->
               IF s = {} THEN mem ELSE After(f[s \ {Max(s)}], seq[Max(s)])]
  <1>3. iter = CHOOSE f : Eq(f)
    OBVIOUS
  <1> HIDE DEF iter, After
  <1>4. F \in [(1..c) \X M -> M]
    BY <1>2
  <1>5. PICK it : IsFold(it, c, M, mem, F)
    <2> HIDE DEF F, M
    <2>1. mem \in M
      BY DEF M
    <2> QED BY <1>4, <2>1, FoldExists
  <1>6. Eq(it)
    <2>1. DOMAIN seq = 1..c
      OBVIOUS
    <2>2. ASSUME NEW s \in SUBSET (1..c), s # {}
          PROVE  Max(s) \in 1..c /\ seq[Max(s)] = Max(s) /\ it[s \ {Max(s)}] \in M
                 /\ F[<<Max(s), it[s \ {Max(s)}]>>] = After(it[s \ {Max(s)}], seq[Max(s)])
      <3>1. Max(s) \in s
        BY <2>2, MaxIn
      <3>2. Max(s) \in 1..c /\ seq[Max(s)] = Max(s)
        BY <3>1
      <3>3. it[s \ {Max(s)}] \in M
        BY <1>5 DEF IsFold
      <3> QED BY <3>2, <3>3
    <2>3. it = [s \in SUBSET (1..c) |-> it[s]]
      BY <1>5 DEF IsFold
    <2>4. \A s \in SUBSET (1..c) : it[s] = IF s = {} THEN mem ELSE After(it[s \ {Max(s)}], seq[Max(s)])
      <3> HIDE DEF seq, F, M
      <3> QED BY <1>5, <2>2 DEF IsFold
    <2> HIDE DEF seq, F, M
    <2> QED BY <2>1, <2>3, <2>4
  <1>7. Eq(iter)
    <2> HIDE DEF Eq
    <2> QED BY <1>3, <1>6
  <1> DEFINE g == [k \in 0..c |-> iter[1..k]]
  <1>14. DOMAIN seq = 1..c
    OBVIOUS
  <1>8. iter[{}] = mem
    <2>1. {} \in SUBSET DOMAIN seq
      OBVIOUS
    <2> HIDE DEF seq
    <2> QED BY <1>7, <2>1
  <1>9. ASSUME NEW k \in 1..c PROVE iter[1..k] = After(iter[1..(k - 1)], k)
    <2>1. (1..k) \in SUBSET DOMAIN seq /\ (1..k) # {} /\ seq[k] = k
      <3>1. (1..k) \in SUBSET (1..c) /\ k \in 1..k
        OBVIOUS
      <3> QED BY <1>14, <3>1
    <2>2. Max(1..k) = k
      <3>1. k - 1 \in Nat /\ (k - 1) + 1 = k /\ k \in 1..k
        OBVIOUS
      <3> QED BY <3>1, MaxOf
    <2>3. (1..k) \ {k} = 1..(k - 1)
      OBVIOUS
    <2> QED BY <1>7, <2>1, <2>2, <2>3
  <1>10. g[0] = mem /\ \A k \in 1..c : g[k] = After(g[k - 1], k)
    BY <1>8, <1>9
  <1>11. WriteMemory(mem, p, data) = g[c]
    BY <1>1
  <1> DEFINE T == {k \in 0..c : g[k] \in M}
  <1>12. 0..c \subseteq T
    <2>1. 0 \in T
      BY <1>10
    <2>2. ASSUME NEW k \in 0..(c - 1), k \in T PROVE k + 1 \in T
      <3>1. k + 1 \in 1..c /\ (k + 1) - 1 = k
        OBVIOUS
      <3> HIDE DEF M, g
      <3> QED BY <1>2, <1>10, <2>2, <3>1
    <2> HIDE DEF T
    <2> QED BY <2>1, <2>2, UpTo
  <1>13. g \in [0..c -> M]
    BY <1>12
  <1> HIDE DEF g
  <1> QED BY <1>10, <1>11, <1>13 DEF After, IsWriting

\* The byte at a is the i-th of the word at q, and one of the bytes from p on.
LEMMA ByteOfWord ==
  ASSUME NEW a \in Nat, NEW p \in Nat, NEW at \in Nat, NEW size \in Nat,
         NEW q \in Nat, q = p + at, q <= a, a < q + size
  PROVE  /\ a - q + 1 \in 1..size /\ q + (a - q + 1) - 1 = a
         /\ at + (a - q + 1) = a - p + 1
  OBVIOUS

\* What one word of write_memory, at q, does to byte a of a memory m that is
\* mapped from 1 to top.
WordWritten(z, m, top, p, data, q, a) ==
  /\ ~(q <= a /\ a < q + WordSize) => z[a] = m[a]
  /\ q <= a /\ a < q + WordSize /\ a < p + Len(data) => z[a] = data[a - p + 1]
  /\ q <= a /\ a < q + WordSize /\ a >= p + Len(data) =>
       z[a] = m[a] \/ (z[a] = AllOnes /\ a > top - WordSize)

\* That is what it does.
LEMMA OneWord ==
  ASSUME NEW Sp \in Nat, NEW V, AllOnes \in V, NEW m \in [1..Sp -> V], NEW p \in Nat \ {0},
         NEW data \in Seq(V), NEW k \in Nat \ {0}, NEW a \in 1..Sp,
         NEW q \in Nat, q = p + WordAt(k)
  PROVE  WordWritten(Poke(m, q, WordToPoke(m, p, data, k)), m, Sp, p, data, q, a)
  <1> DEFINE word == WordToPoke(m, p, data, k)
             z == Poke(m, q, word)
             i == a - q + 1
  <1>1. WordAt(k) \in Nat /\ WordSize \in Nat /\ Len(data) \in Nat /\ q >= 1
        /\ p \in Nat /\ p >= 1 /\ a \in Nat
    <2>1. k - 1 \in Nat /\ (k - 1) + 1 = k
      OBVIOUS
    <2>2. WordAt(k) \in Nat
      BY <2>1, WordAtNext
    <2> QED BY <2>2, WordSizeAssumption
  <1>2. a \in Word(q) <=> q <= a /\ a < q + WordSize
    BY <1>1 DEF Word
  <1>3. z[a] = IF a \in Word(q) /\ q..a \subseteq 1..Sp THEN word[i] ELSE m[a]
    <2> HIDE DEF word
    <2> QED BY DEF Poke
  <1>4. q <= a => q..a \subseteq 1..Sp
    BY <1>1
  <1>5. ASSUME q <= a, a < q + WordSize
        PROVE  i \in 1..WordSize /\ q + i - 1 = a /\ WordAt(k) + i = a - p + 1
    <2> HIDE DEF word, z
    <2> DEFINE at == WordAt(k)
               size == WordSize
    <2>1. at \in Nat /\ size \in Nat /\ q = p + at /\ q <= a /\ a < q + size /\ a \in Nat /\ p \in Nat
      BY <1>1, <1>5
    <2> HIDE DEF at, size
    <2>2. a - q + 1 \in 1..size /\ q + (a - q + 1) - 1 = a /\ at + (a - q + 1) = a - p + 1
      BY <2>1, ByteOfWord
    <2> QED BY <2>2 DEF at, size
  <1>6. i \in 1..WordSize =>
          word[i] = IF WordAt(k) + i <= Len(data) THEN data[WordAt(k) + i] ELSE Peek(m, q)[i]
    BY DEF WordToPoke
  <1>7. i \in 1..WordSize =>
          Peek(m, q)[i] = IF Word(q) \subseteq 1..Sp THEN m[q + i - 1] ELSE AllOnes
    BY DEF Peek
  <1>8. ~(Word(q) \subseteq 1..Sp) => q + WordSize - 1 > Sp
    BY <1>1 DEF Word
  <1>9. q <= a /\ a < q + WordSize =>
          z[a] = IF a - p + 1 <= Len(data) THEN data[a - p + 1]
                 ELSE IF Word(q) \subseteq 1..Sp THEN m[a] ELSE AllOnes
    <2> HIDE DEF z, word, i
    <2> QED BY <1>2, <1>3, <1>4, <1>5, <1>6, <1>7
  <1>10. ~(q <= a /\ a < q + WordSize) => z[a] = m[a]
    BY <1>2, <1>3
  <1> HIDE DEF z
  <1>11. WordWritten(z, m, Sp, p, data, q, a)
    BY <1>1, <1>8, <1>9, <1>10 DEF WordWritten
  <1> QED BY <1>11 DEF z

\* write_memory on a memory that is mapped from 1 on: it changes nothing before
\* the bytes, puts the bytes there as far as the memory goes, and leaves what
\* lies behind as it was, but for bytes of a word that is not all mapped.
LEMMA Written ==
  ASSUME NEW Sp \in Nat, NEW V, AllOnes \in V, NEW mem \in [1..Sp -> V], NEW p \in Nat \ {0},
         NEW data \in Seq(V), NEW m, m = WriteMemory(mem, p, data)
  PROVE  /\ m \in [1..Sp -> V]
         /\ \A a \in 1..Sp :
              /\ a < p => m[a] = mem[a]
              /\ p <= a /\ a < p + Len(data) => m[a] = data[a - p + 1]
              /\ a >= p + Len(data) => m[a] = mem[a] \/ (m[a] = AllOnes /\ a > Sp - WordSize)
  <1> DEFINE c == Words(Len(data))
  <1>1. c \in Nat /\ c * WordSize >= Len(data) /\ Len(data) \in Nat
    <2>0. Len(data) \in Nat /\ WordSize \in Nat /\ WordSize >= 1
      BY WordSizeAssumption
    <2> DEFINE l == Len(data) + WordSize - 1
    <2>1. l \in Nat /\ l = Len(data) + WordSize - 1
      BY <2>0
    <2>3. c = l \div WordSize
      BY DEF Words
    <2> HIDE DEF l
    <2>2. l \div WordSize \in Nat /\ l < (l \div WordSize) * WordSize + WordSize
      BY <2>1, WordSizeAssumption
    <2>4. PICK d \in Nat : d = c * WordSize /\ l < d + WordSize
      BY <2>2, <2>3, WordSizeAssumption
    <2>5. d >= Len(data)
      BY <2>0, <2>1, <2>4, WordSizeAssumption
    <2> QED BY <2>0, <2>1, <2>2, <2>3, <2>4, <2>5
  <1>2. PICK g : IsWriting(g, c, [1..Sp -> V], mem, p, data)
    <2>1. 1..Sp \in SUBSET Nat /\ p \in Nat
      OBVIOUS
    <2>2. c = Words(Len(data))
      OBVIOUS
    <2> DEFINE D == 1..Sp
    <2>3. mem \in [D -> V] /\ D \in SUBSET Nat
      OBVIOUS
    <2> HIDE DEF c, D
    <2>4. \E g : IsWriting(g, c, [D -> V], mem, p, data)
      BY <1>1, <2>1, <2>2, <2>3, WriteLoop
    <2> QED BY <2>4 DEF D
  <1> HIDE DEF c
  <1> DEFINE Done(k, a) ==
               /\ ~(p <= a /\ a < p + WordAt(k + 1)) => g[k][a] = mem[a]
               /\ p <= a /\ a < p + WordAt(k + 1) /\ a < p + Len(data) => g[k][a] = data[a - p + 1]
               /\ p <= a /\ a < p + WordAt(k + 1) /\ a >= p + Len(data) =>
                    g[k][a] = mem[a] \/ (g[k][a] = AllOnes /\ a > Sp - WordSize)
             T == {k \in 0..c : \A a \in 1..Sp : Done(k, a)}
  <1>3. 0 \in T
    <2>1. WordAt(0 + 1) = 0
      BY WordSizeAssumption DEF WordAt
    <2>2. ASSUME NEW a \in 1..Sp PROVE Done(0, a)
      BY <1>2, <2>1 DEF IsWriting
    <2>3. 0 \in 0..c
      BY <1>1
    <2> HIDE DEF Done
    <2> QED BY <2>2, <2>3
  <1>4. ASSUME NEW k \in 0..(c - 1), k \in T PROVE k + 1 \in T
    <2>1. k \in Nat /\ k + 1 \in Nat \ {0} /\ k + 1 \in 1..c /\ (k + 1) - 1 = k /\ k \in 0..c
          /\ k + 1 \in 0..c
      BY <1>1
    <2>2. /\ WordAt(k + 1) \in Nat /\ WordAt((k + 1) + 1) = WordAt(k + 1) + WordSize
          /\ WordSize \in Nat
      BY <2>1, WordAtNext, WordSizeAssumption
    <2>3. g[k + 1] = Poke(g[k], p + WordAt(k + 1), WordToPoke(g[k], p, data, k + 1))
      BY <1>2, <2>1 DEF IsWriting
    <2>4. g[k] \in [1..Sp -> V]
      BY <1>2, <2>1 DEF IsWriting
    <2>5. ASSUME NEW a \in 1..Sp PROVE Done(k + 1, a)
      <3> DEFINE q == p + WordAt(k + 1)
      <3>1. q \in Nat
        BY <2>2
      <3>2. Done(k, a)
        BY <1>4
      <3>3. WordWritten(g[k + 1], g[k], Sp, p, data, q, a)
        BY <2>1, <2>3, <2>4, <3>1, OneWord
      <3>4. q + WordSize = p + WordAt((k + 1) + 1) /\ p <= q
        BY <2>2
      <3>5. Len(data) \in Nat
        BY <1>1
      <3> HIDE DEF q
      <3>6. q = p + WordAt(k + 1)
        BY DEF q
      <3>7. CASE q <= a /\ a < q + WordSize
        <4>1. g[k][a] = mem[a] /\ p <= a /\ a < p + WordAt((k + 1) + 1)
          BY <2>2, <3>1, <3>2, <3>4, <3>6, <3>7
        <4> QED BY <3>3, <3>7, <4>1 DEF WordWritten
      <3>8. CASE ~(q <= a /\ a < q + WordSize)
        <4>1. g[k + 1][a] = g[k][a]
          BY <3>3, <3>8 DEF WordWritten
        <4>2. (p <= a /\ a < p + WordAt((k + 1) + 1)) <=> (p <= a /\ a < p + WordAt(k + 1))
          BY <2>2, <3>1, <3>4, <3>6, <3>8
        <4> QED BY <3>2, <4>1, <4>2
      <3> QED BY <3>7, <3>8
    <2> HIDE DEF Done
    <2> QED BY <2>1, <2>5
  <1>5. c \in T
    <2> HIDE DEF T
    <2>1. 0..c \subseteq T
      BY <1>1, <1>3, <1>4, UpTo
    <2> QED BY <1>1, <2>1
  <1>6. m = g[c] /\ m \in [1..Sp -> V]
    BY <1>1, <1>2 DEF IsWriting
  <1>7. WordAt(c + 1) >= Len(data) /\ WordAt(c + 1) \in Nat
    BY <1>1, WordAtNext
  <1>8. ASSUME NEW a \in 1..Sp
        PROVE  /\ a < p => m[a] = mem[a]
               /\ p <= a /\ a < p + Len(data) => m[a] = data[a - p + 1]
               /\ a >= p + Len(data) => m[a] = mem[a] \/ (m[a] = AllOnes /\ a > Sp - WordSize)
    <2>1. Done(c, a)
      BY <1>5
    <2> QED BY <1>1, <1>6, <1>7, <2>1
  <1> QED BY <1>6, <1>8

-----------------------------------------------------------------------------
\* The type invariant without the receiver's memory, which MemoryInv is about.
Types ==
  /\ open \in BOOLEAN /\ crashed \in BOOLEAN
  /\ mutex \in Sends \cup {Receiver, Nobody}
  /\ pc \in [Sends -> {"idle", "held", "read", "push", "done"}]
  /\ buf \in [Sends -> Seq(Bytes)]
  /\ pushed \in [Sends -> Nat]
  /\ buffer \in Seq(Bytes) /\ tmp \in Seq(Bytes) /\ received \in Seq(Bytes)
  /\ rpc \in {"idle", "ready", "wait", "pop"}
  /\ n \in Nat
  /\ dead \subseteq Sends \cup {Receiver}

\* The one that copies is the one that holds the mutex.
MutexInv ==
  /\ \A s \in Sends : pc[s] \in {"read", "push"} <=> mutex = s
  /\ rpc = "pop" <=> mutex = Receiver

\* The bytes b of send s: m of its guest's, then ones, and a reason for these.
BufferOf(s, b, m, gone) ==
  /\ m \in 0..Len(b)
  /\ \A i \in 1..Len(b) : b[i] = IF i <= m THEN <<s, i>> ELSE AllOnes
  /\ \A i \in 1..Len(b) : i > m => gone \/ ~WordMapped(s, i)
  /\ m < Len(b) => gone \/ Len(b) = Size[s]

\* A send reads whole words, but for the last one, before it pushes anything.
SendInv(s) ==
  /\ pc[s] \in {"idle", "held"} => buf[s] = <<>>
  /\ pc[s] \in {"idle", "held", "read"} => pushed[s] = 0
  /\ Len(buf[s]) <= Size[s]
  /\ Len(buf[s]) = Size[s] \/ \E j \in Nat : Len(buf[s]) = j * WordSize
  /\ pc[s] \in {"push", "done"} => Len(buf[s]) = Size[s]
  /\ pushed[s] <= Len(buf[s])
  /\ \E m : BufferOf(s, buf[s], m, s \in dead)

\* What a send that holds the mutex has pushed is at the buffer's end.
PushInv ==
  mutex \in Sends =>
    /\ pushed[mutex] <= Len(buffer)
    /\ \A i \in 1..pushed[mutex] : buffer[Len(buffer) - pushed[mutex] + i] = buf[mutex][i]

\* A recv that pops finds as many bytes as it decided to take.
RecvInv ==
  /\ rpc # "pop" => tmp = <<>>
  /\ rpc = "pop" => Len(tmp) <= n /\ n <= Len(tmp) + Len(buffer)

\* The receiver's memory has what it received.
MemoryInv ==
  IF Receiver \in dead THEN memory \in [{} -> Bytes \cup {Old}]
  ELSE memory \in [1..Space -> Bytes \cup {Old}] /\ ReceivedIntact

\* The inductive invariant.
Inv ==
  /\ Types /\ MutexInv /\ (\A s \in Sends : SendInv(s)) /\ PushInv /\ RecvInv /\ MemoryInv
  /\ NoLostWakeup

-----------------------------------------------------------------------------
\* The word that a byte belongs to.
LEMMA WordOfByte ==
  ASSUME NEW i \in Nat, NEW j \in Nat, NEW at \in Nat, at = j * WordSize, at < i, i <= at + WordSize
  PROVE  Words(i) * WordSize = at + WordSize
  <1>1. WordSize \in Nat /\ WordSize >= 1
    BY WordSizeAssumption
  <1>2. (j + 1) * WordSize = at + WordSize /\ j + 1 \in Nat
    BY <1>1
  <1> DEFINE l == i + WordSize - 1
  <1>3. l \in Nat /\ at + WordSize <= l /\ l < at + WordSize + WordSize /\ Words(i) = l \div WordSize
    BY <1>1 DEF Words
  <1> HIDE DEF l
  <1>4. l \div WordSize = j + 1
    <2>1. (j + 1) * WordSize <= l /\ l < (j + 1) * WordSize + WordSize
      BY <1>1, <1>2, <1>3
    <2> QED BY <1>1, <1>2, <1>3, <2>1
  <1> QED BY <1>2, <1>3, <1>4

\* The size bytes r that follow the first at ones of send s: they are its
\* guest's if the whole word is mapped, and ones otherwise.
BytesRead(r, size, s, at, gone) ==
  /\ r \in Seq(Bytes) /\ Len(r) = size
  /\ \A i \in 1..size :
       r[i] = IF ~gone /\ at + WordSize <= Room[s] THEN <<s, at + i>> ELSE AllOnes

\* What PTRACE_PEEKDATA returns for the word of send s that follows at bytes.
LEMMA WordRead ==
  ASSUME NEW s \in Sends, NEW gone \in BOOLEAN, NEW at \in Nat,
         NEW mem, mem = IF gone THEN <<>> ELSE [a \in 1..Room[s] |-> <<s, a>>],
         NEW word, word = Peek(mem, 1 + at)
  PROVE  BytesRead(word, WordSize, s, at, gone)
  <1> DEFINE mapped == Word(1 + at) \subseteq DOMAIN mem
  <1>1. WordSize \in Nat /\ WordSize >= 1 /\ Room[s] \in Nat
    BY WordSizeAssumption, SizeAssumption
  <1>5. word = [i \in 1..WordSize |-> IF mapped THEN mem[1 + at + i - 1] ELSE AllOnes]
    BY DEF Peek
  <1>6. mapped <=> ~gone /\ at + WordSize <= Room[s]
    <2>1. CASE gone
      <3>1. DOMAIN mem = {}
        BY <2>1
      <3>2. 1 + at \in Word(1 + at)
        BY <1>1 DEF Word
      <3> QED BY <2>1, <3>1, <3>2
    <2>2. CASE ~gone
      <3>1. DOMAIN mem = 1..Room[s]
        BY <2>2
      <3>2. CASE at + WordSize <= Room[s]
        BY <1>1, <2>2, <3>1, <3>2 DEF Word
      <3>3. CASE ~(at + WordSize <= Room[s])
        <4>1. at + WordSize \in Word(1 + at) /\ at + WordSize \notin 1..Room[s]
          BY <1>1, <3>3 DEF Word
        <4> QED BY <2>2, <3>1, <3>3, <4>1
      <3> QED BY <3>2, <3>3
    <2> QED BY <2>1, <2>2
  <1>7. ASSUME NEW i \in 1..WordSize
        PROVE  word[i] = IF ~gone /\ at + WordSize <= Room[s] THEN <<s, at + i>> ELSE AllOnes
    <2>1. word[i] = IF mapped THEN mem[1 + at + i - 1] ELSE AllOnes
      <3> HIDE DEF mapped
      <3> QED BY <1>5
    <2>2. ~gone /\ at + WordSize <= Room[s] => mem[1 + at + i - 1] = <<s, at + i>>
      <3>1. ~gone /\ at + WordSize <= Room[s] => at + i \in 1..Room[s] /\ 1 + at + i - 1 = at + i
        BY <1>1
      <3> QED BY <3>1
    <2> HIDE DEF mapped
    <2> QED BY <1>6, <2>1, <2>2
  <1> HIDE DEF mapped
  <1>8. \A i \in 1..WordSize : word[i] \in Bytes
    <2> SUFFICES ASSUME NEW i \in 1..WordSize PROVE word[i] \in Bytes
      OBVIOUS
    <2>1. <<s, at + i>> \in Bytes /\ AllOnes \in Bytes
      BY <1>1 DEF Bytes
    <2>2. word[i] = <<s, at + i>> \/ word[i] = AllOnes
      BY <1>7
    <2> QED BY <2>1, <2>2
  <1>9. word \in [1..WordSize -> Bytes]
    BY <1>5, <1>8
  <1> QED BY <1>1, <1>7, <1>9 DEF BytesRead

\* Appending a word, or the first part of one, to what send s has read.
LEMMA ReadAppends ==
  ASSUME NEW s \in Sends, NEW gone \in BOOLEAN, NEW b \in Seq(Bytes), NEW at \in Nat, at = Len(b),
         NEW m, BufferOf(s, b, m, gone), at < Size[s],
         NEW len \in Nat, 1 <= len, len <= WordSize, at + len <= Size[s],
         at + WordSize > Size[s] => at + len = Size[s],
         NEW r, BytesRead(r, len, s, at, gone),
         \A i \in (at + 1)..(at + WordSize) : Words(i) * WordSize = at + WordSize
  PROVE  \E h : BufferOf(s, b \o r, h, gone)
  <1> DEFINE mapped == ~gone /\ at + WordSize <= Room[s]
             z == b \o r
  <1>1. /\ WordSize \in Nat /\ Size[s] \in Nat /\ Room[s] \in Nat /\ Size[s] <= Room[s]
    BY WordSizeAssumption, SizeAssumption
  <1>10. Len(z) = at + len /\ \A i \in 1..(at + len) : z[i] = IF i <= at THEN b[i] ELSE r[i - at]
    <2>1. r \in Seq(Bytes) /\ Len(r) = len
      BY DEF BytesRead
    <2>2. /\ Len(b \o r) = Len(b) + Len(r)
          /\ \A i \in 1..(Len(b) + Len(r)) : (b \o r)[i] = IF i <= Len(b) THEN b[i] ELSE r[i - Len(b)]
      BY <2>1, ConcatProperties
    <2> QED BY <2>1, <2>2
  <1> HIDE DEF z
  <1>14. /\ m \in 0..at
         /\ \A i \in 1..at : b[i] = IF i <= m THEN <<s, i>> ELSE AllOnes
         /\ \A i \in 1..at : i > m => gone \/ ~WordMapped(s, i)
         /\ m < at => gone
    BY <1>1 DEF BufferOf
  <1>11. ASSUME NEW i \in 1..(at + len)
         PROVE  /\ i <= at => i \in 1..at /\ z[i] = b[i]
                /\ i > at => z[i] = IF mapped THEN <<s, i>> ELSE AllOnes
                /\ i > at => Words(i) * WordSize = at + WordSize
    <2>1. CASE i <= at
      BY <1>10, <2>1
    <2>2. CASE i > at
      <3>1. i - at \in 1..len /\ at + (i - at) = i /\ ~(i <= at) /\ i \in (at + 1)..(at + WordSize)
        BY <1>1, <2>2
      <3>2. z[i] = r[i - at]
        BY <1>10, <3>1
      <3>3. r[i - at] = IF mapped THEN <<s, at + (i - at)>> ELSE AllOnes
        BY <3>1 DEF BytesRead
      <3> HIDE DEF mapped
      <3> QED BY <2>2, <3>1, <3>2, <3>3
    <2> QED BY <2>1, <2>2
  <1>15. CASE mapped
    <2>1. m = at
      BY <1>1, <1>14, <1>15
    <2>2. \A i \in 1..(at + len) : z[i] = <<s, i>>
      BY <1>11, <1>14, <1>15, <2>1
    <2>3. BufferOf(s, z, at + len, gone)
      BY <1>10, <2>2 DEF BufferOf
    <2> QED BY <2>3 DEF z
  <1>16. CASE ~mapped
    <2>1. \A i \in 1..(at + len) : z[i] = IF i <= m THEN <<s, i>> ELSE AllOnes
      BY <1>11, <1>14, <1>16
    <2>2. ASSUME NEW i \in 1..(at + len), i > m PROVE gone \/ ~WordMapped(s, i)
      <3>1. CASE i <= at
        BY <1>11, <1>14, <2>2, <3>1
      <3>2. CASE i > at /\ ~gone
        <4>1. Words(i) * WordSize = at + WordSize
          BY <1>11, <3>2
        <4> QED BY <1>1, <1>16, <3>2, <4>1 DEF WordMapped
      <3> QED BY <3>1, <3>2
    <2>3. gone \/ Len(z) = Size[s]
      BY <1>1, <1>10, <1>16
    <2>4. m \in 0..Len(z)
      BY <1>10, <1>14
    <2>5. BufferOf(s, z, m, gone)
      BY <1>10, <2>1, <2>2, <2>3, <2>4 DEF BufferOf
    <2> QED BY <2>5 DEF z
  <1> QED BY <1>15, <1>16

\* What send s has read after a round: whole words, or all there is to read.
RoundRead(z, s, gone) ==
  /\ z \in Seq(Bytes) /\ Len(z) <= Size[s]
  /\ Len(z) = Size[s] \/ \E h \in Nat : Len(z) = h * WordSize
  /\ \E h : BufferOf(s, z, h, gone)

\* One round of read_memory, for a guest that is alive or not: it appends the
\* next word of the guest's bytes, or as many ones.
LEMMA ReadRound ==
  ASSUME NEW s \in Sends, NEW gone \in BOOLEAN, NEW b \in Seq(Bytes), NEW j \in Nat,
         Len(b) = j * WordSize, Len(b) < Size[s], NEW m, BufferOf(s, b, m, gone),
         NEW mem, mem = IF gone THEN <<>> ELSE [a \in 1..Room[s] |-> <<s, a>>],
         NEW z, z = b \o ReadWord(mem, 1, Size[s], Len(b) \div WordSize + 1)
  PROVE  RoundRead(z, s, gone)
  <1> DEFINE at == Len(b)
             len == IF at + WordSize <= Size[s] THEN WordSize ELSE Size[s] - at
             word == Peek(mem, 1 + at)
             r == SubSeq(word, 1, len)
  <1>1. /\ at \in Nat /\ WordSize \in Nat /\ WordSize >= 1 /\ Size[s] \in Nat /\ Room[s] \in Nat
        /\ Size[s] <= Room[s] /\ at < Size[s] /\ at = j * WordSize
    BY WordSizeAssumption, SizeAssumption
  <1>2. at \div WordSize = j /\ (j + 1) * WordSize = at + WordSize /\ WordAt(j + 1) = at
    BY <1>1 DEF WordAt
  <1>3. len \in Nat /\ 1 <= len /\ len <= WordSize /\ at + len <= Size[s]
        /\ (len = WordSize \/ at + len = Size[s]) /\ (at + WordSize > Size[s] => at + len = Size[s])
    BY <1>1
  <1>4. z = b \o r
    <2>1. LengthOf(Size[s], j + 1) = len
      BY <1>2 DEF LengthOf
    <2> HIDE DEF len
    <2> QED BY <1>2, <2>1 DEF ReadWord
  <1>5. BytesRead(word, WordSize, s, at, gone)
    <2>1. word = Peek(mem, 1 + at) /\ at \in Nat
      BY <1>1
    <2> HIDE DEF at, word
    <2> QED BY <2>1, WordRead
  <1> HIDE DEF word, len
  <1>6. r \in Seq(Bytes) /\ Len(r) = len /\ \A i \in 1..len : r[i] = word[i]
    <2>1. len \in Int /\ 1 <= len
      BY <1>3
    <2>2. \A i \in 1..len : i \in 1..WordSize /\ 1 + i - 1 = i /\ word[i] \in Bytes
      BY <1>1, <1>3, <1>5 DEF BytesRead
    <2>3. /\ SubSeq(word, 1, len) \in Seq(Bytes)
          /\ Len(SubSeq(word, 1, len)) = IF 1 <= len THEN len - 1 + 1 ELSE 0
          /\ \A i \in 1..(len - 1 + 1) : SubSeq(word, 1, len)[i] = word[1 + i - 1]
      BY <2>1, <2>2, SubSeqProperties
    <2> QED BY <2>1, <2>2, <2>3
  <1> HIDE DEF r
  <1>7. BytesRead(r, len, s, at, gone)
    <2>1. \A i \in 1..len : i \in 1..WordSize
      BY <1>1, <1>3
    <2> QED BY <1>5, <1>6, <2>1 DEF BytesRead
  <1>8. ASSUME NEW i \in (at + 1)..(at + WordSize) PROVE Words(i) * WordSize = at + WordSize
    <2>1. i \in Nat /\ at < i /\ i <= at + WordSize
      BY <1>1
    <2> QED BY <1>1, <2>1, WordOfByte
  <1>9. \E h : BufferOf(s, b \o r, h, gone)
    <2>1. at = Len(b)
      OBVIOUS
    <2> HIDE DEF at
    <2> QED BY <1>1, <1>3, <1>7, <1>8, <2>1, ReadAppends
  <1>10. z \in Seq(Bytes) /\ Len(z) = at + len
    BY <1>4, <1>6, ConcatProperties
  <1>11. Len(z) = Size[s] \/ \E h \in Nat : Len(z) = h * WordSize
    <2>1. CASE len = WordSize
      <3>1. Len(z) = (j + 1) * WordSize /\ j + 1 \in Nat
        BY <1>2, <1>10, <2>1
      <3> QED BY <3>1
    <2>2. CASE at + len = Size[s]
      BY <1>10, <2>2
    <2> QED BY <1>3, <2>1, <2>2
  <1>12. Len(z) <= Size[s]
    BY <1>1, <1>3, <1>10
  <1> QED BY <1>4, <1>9, <1>10, <1>11, <1>12 DEF RoundRead


-----------------------------------------------------------------------------
\* The invariant holds at first.
LEMMA InitInv == Init => Inv
  <1> SUFFICES ASSUME Init PROVE Inv
    OBVIOUS
  <1>1. Types
    <2>1. <<>> \in Seq(Bytes)
      OBVIOUS
    <2> QED BY <2>1 DEF Init, Types
  <1>2. MutexInv
    BY ReceiverAssumption DEF Init, MutexInv
  <1>3. ASSUME NEW s \in Sends PROVE SendInv(s)
    <2>1. buf[s] = <<>> /\ Len(buf[s]) = 0 /\ pushed[s] = 0 /\ pc[s] = "idle" /\ Size[s] \in Nat
      BY SizeAssumption DEF Init
    <2>2. BufferOf(s, buf[s], 0, s \in dead)
      BY <2>1 DEF BufferOf
    <2>3. Len(buf[s]) = 0 * WordSize
      BY <2>1, WordSizeAssumption
    <2> QED BY <2>1, <2>2, <2>3 DEF SendInv
  <1>4. PushInv
    BY ReceiverAssumption DEF Init, PushInv
  <1>5. RecvInv
    BY DEF Init, RecvInv
  <1>6. MemoryInv
    <2>1. memory \in [1..Space -> Bytes \cup {Old}] /\ Receiver \notin dead
      BY DEF Init
    <2>2. received = <<>> /\ Len(received) = 0 /\ \A a \in 1..Space : memory[a] = Old
      BY DEF Init
    <2>3. \A a \in 1..Space : ~(a <= 0)
      BY AskedAssumption
    <2>4. ReceivedIntact
      BY <2>2, <2>3 DEF ReceivedIntact
    <2> QED BY <2>1, <2>4 DEF MemoryInv
  <1>7. NoLostWakeup
    BY DEF Init, NoLostWakeup
  <1> QED BY <1>1, <1>2, <1>3, <1>4, <1>5, <1>6, <1>7 DEF Inv

\* send: peer_.lock().
LEMMA SendCallInv ==
  ASSUME Inv, NEW s \in Sends, SendCall(s)
  PROVE  Inv'
  <1> USE DEF SendCall, Goes, receiving
  <1>1. Types'
    BY DEF Inv, Types
  <1>2. MutexInv'
    BY DEF Inv, Types, MutexInv
  <1>3. ASSUME NEW t \in Sends PROVE SendInv(t)'
    BY DEF Inv, Types, SendInv
  <1>4. PushInv'
    BY DEF Inv, PushInv
  <1>5. RecvInv'
    BY DEF Inv, RecvInv
  <1>6. MemoryInv'
    BY DEF Inv, MemoryInv, ReceivedIntact
  <1>7. NoLostWakeup'
    BY DEF Inv, Types, MutexInv, NoLostWakeup
  <1> QED BY <1>1, <1>2, <1>3, <1>4, <1>5, <1>6, <1>7 DEF Inv

\* send locks the mutex.
LEMMA SendLocksInv ==
  ASSUME Inv, NEW s \in Sends, SendLocks(s)
  PROVE  Inv'
  <1> USE DEF SendLocks, Unlocked, Goes, receiving
  <1>1. Types'
    BY DEF Inv, Types
  <1>2. MutexInv'
    BY ReceiverAssumption DEF Inv, Types, MutexInv
  <1>3. ASSUME NEW t \in Sends PROVE SendInv(t)'
    BY DEF Inv, Types, SendInv
  <1>4. PushInv'
    <2>1. pushed'[mutex'] = 0 /\ Len(buffer') \in Nat
      BY DEF Inv, SendInv, Types
    <2>2. 1..0 = {}
      OBVIOUS
    <2> QED BY <2>1, <2>2 DEF PushInv
  <1>5. RecvInv'
    BY DEF Inv, RecvInv
  <1>6. MemoryInv'
    BY DEF Inv, MemoryInv, ReceivedIntact
  <1>7. NoLostWakeup'
    BY ReceiverAssumption DEF Inv, NoLostWakeup
  <1> QED BY <1>1, <1>2, <1>3, <1>4, <1>5, <1>6, <1>7 DEF Inv

\* send reads a word of its guest's memory.
LEMMA SendReadsInv ==
  ASSUME Inv, NEW s \in Sends, SendReads(s)
  PROVE  Inv'
  <1> USE DEF receiving
  <1>1. CASE Len(buf[s]) < Size[s]
    <2> DEFINE z == buf[s] \o ReadWord(SenderMemory(s), 1, Size[s], Len(buf[s]) \div WordSize + 1)
    <2>1. /\ pc[s] = "read" /\ buf' = [buf EXCEPT ![s] = z]
          /\ UNCHANGED <<open, mutex, pc, pushed, buffer, receiving, dead, crashed>>
      BY <1>1 DEF SendReads
    <2>2. mutex = s
      BY <2>1 DEF Inv, MutexInv
    <2>3. /\ z \in Seq(Bytes) /\ Len(z) <= Size[s]
          /\ Len(z) = Size[s] \/ \E h \in Nat : Len(z) = h * WordSize
          /\ \E h : BufferOf(s, z, h, s \in dead)
      <3> DEFINE gone == s \in dead
                 mem == SenderMemory(s)
      <3>1. buf[s] \in Seq(Bytes) /\ gone \in BOOLEAN /\ Len(buf[s]) \in Nat /\ Size[s] \in Nat
        BY SizeAssumption DEF Inv, Types
      <3>2. PICK j \in Nat : Len(buf[s]) = j * WordSize
        BY <1>1, <3>1 DEF Inv, SendInv
      <3>3. PICK m : BufferOf(s, buf[s], m, gone)
        BY DEF Inv, SendInv
      <3>4. mem = IF gone THEN <<>> ELSE [a \in 1..Room[s] |-> <<s, a>>]
        BY DEF SenderMemory
      <3>5. z = buf[s] \o ReadWord(mem, 1, Size[s], Len(buf[s]) \div WordSize + 1)
        OBVIOUS
      <3> HIDE DEF gone, mem, z
      <3>6. RoundRead(z, s, gone)
        BY <1>1, <3>1, <3>2, <3>3, <3>4, <3>5, ReadRound
      <3> QED BY <3>6 DEF gone, RoundRead
    <2> HIDE DEF z
    <2>4. buf' \in [Sends -> Seq(Bytes)] /\ buf'[s] = z /\ \A t \in Sends : t # s => buf'[t] = buf[t]
      BY <2>1, <2>3 DEF Inv, Types
    <2>5. Types'
      BY <2>1, <2>4 DEF Inv, Types
    <2>6. MutexInv'
      BY <2>1 DEF Inv, MutexInv
    <2>7. SendInv(s)'
      <3>1. pushed[s] = 0 /\ Len(z) \in Nat
        BY <2>1, <2>3 DEF Inv, SendInv
      <3> QED BY <2>1, <2>3, <2>4, <3>1 DEF SendInv
    <2>8. ASSUME NEW t \in Sends, t # s PROVE SendInv(t)'
      BY <2>1, <2>4, <2>8 DEF Inv, SendInv
    <2>9. PushInv'
      <3>1. pushed'[mutex'] = 0 /\ Len(buffer') \in Nat
        BY <2>1, <2>2 DEF Inv, SendInv, Types
      <3>2. 1..0 = {}
        OBVIOUS
      <3> QED BY <3>1, <3>2 DEF PushInv
    <2>10. RecvInv'
      BY <2>1 DEF Inv, RecvInv
    <2>11. MemoryInv'
      BY <2>1 DEF Inv, MemoryInv, ReceivedIntact
    <2>12. NoLostWakeup'
      BY <2>1 DEF Inv, NoLostWakeup
    <2> QED BY <2>5, <2>6, <2>7, <2>8, <2>9, <2>10, <2>11, <2>12 DEF Inv
  <1>2. CASE ~(Len(buf[s]) < Size[s])
    <2>1. /\ pc[s] = "read" /\ pc' = [pc EXCEPT ![s] = "push"]
          /\ UNCHANGED <<open, mutex, buf, pushed, buffer, receiving, dead, crashed>>
      BY <1>2 DEF SendReads, Goes
    <2>2. mutex = s
      BY <2>1 DEF Inv, MutexInv
    <2>3. Types'
      BY <2>1 DEF Inv, Types
    <2>4. MutexInv'
      BY <2>1 DEF Inv, Types, MutexInv
    <2>5. ASSUME NEW t \in Sends PROVE SendInv(t)'
      <3>1. Len(buf[s]) \in Nat /\ Size[s] \in Nat
        BY SizeAssumption DEF Inv, Types
      <3>2. Len(buf[s]) = Size[s]
        BY <1>2, <3>1 DEF Inv, SendInv
      <3> QED BY <2>1, <3>2 DEF Inv, Types, SendInv
    <2>6. PushInv'
      BY <2>1 DEF Inv, PushInv
    <2>7. RecvInv'
      BY <2>1 DEF Inv, RecvInv
    <2>8. MemoryInv'
      BY <2>1 DEF Inv, MemoryInv, ReceivedIntact
    <2>9. NoLostWakeup'
      BY <2>1, <2>2 DEF Inv, Types, NoLostWakeup
    <2> QED BY <2>3, <2>4, <2>5, <2>6, <2>7, <2>8, <2>9 DEF Inv
  <1> QED BY <1>1, <1>2

\* send pushes a byte.
LEMMA SendPushesInv ==
  ASSUME Inv, NEW s \in Sends, SendPushes(s)
  PROVE  Inv'
  <1> DEFINE e == buf[s][pushed[s] + 1]
  <1>1. /\ pc[s] = "push" /\ pushed[s] < Len(buf[s]) /\ buffer' = Append(buffer, e)
        /\ pushed' = [pushed EXCEPT ![s] = pushed[s] + 1]
        /\ UNCHANGED <<open, mutex, pc, buf, receiving, dead, crashed>>
    BY DEF SendPushes
  <1>2. mutex = s
    BY <1>1 DEF Inv, MutexInv
  <1>3. /\ buf[s] \in Seq(Bytes) /\ Len(buf[s]) \in Nat /\ pushed[s] \in Nat /\ e \in Bytes
        /\ buffer \in Seq(Bytes) /\ Len(buffer) \in Nat
    <2>1. buf[s] \in Seq(Bytes) /\ Len(buf[s]) \in Nat /\ pushed[s] \in Nat
      BY DEF Inv, Types
    <2>2. pushed[s] + 1 \in 1..Len(buf[s])
      BY <1>1, <2>1
    <2>3. buffer \in Seq(Bytes) /\ Len(buffer) \in Nat
      BY DEF Inv, Types
    <2> QED BY <2>1, <2>2, <2>3, ElementOfSeq
  <1>4. /\ buffer' \in Seq(Bytes) /\ Len(buffer') = Len(buffer) + 1 /\ buffer' # <<>>
        /\ \A i \in 1..Len(buffer) : buffer'[i] = buffer[i]
        /\ buffer'[Len(buffer) + 1] = e
    <2> HIDE DEF e
    <2> QED BY <1>1, <1>3, AppendProperties
  <1>5. pushed' \in [Sends -> Nat] /\ pushed'[s] = pushed[s] + 1
        /\ \A t \in Sends : t # s => pushed'[t] = pushed[t]
    <2> HIDE DEF e
    <2> QED BY <1>1, <1>3 DEF Inv, Types
  <1> USE DEF receiving
  <1> HIDE DEF e
  <1>6. Types'
    BY <1>1, <1>4, <1>5 DEF Inv, Types
  <1>7. MutexInv'
    BY <1>1 DEF Inv, MutexInv
  <1>8. SendInv(s)'
    <2>1. pushed[s] + 1 <= Len(buf[s])
      BY <1>1, <1>3
    <2> QED BY <1>1, <1>5, <2>1 DEF Inv, SendInv
  <1>9. ASSUME NEW t \in Sends, t # s PROVE SendInv(t)'
    BY <1>1, <1>5, <1>9 DEF Inv, SendInv
  <1>10. PushInv'
    <2>1. /\ pushed[s] <= Len(buffer)
          /\ \A i \in 1..pushed[s] : buffer[Len(buffer) - pushed[s] + i] = buf[s][i]
      BY <1>2 DEF Inv, PushInv
    <2>2. pushed'[s] <= Len(buffer')
      BY <1>3, <1>4, <1>5, <2>1
    <2>3. ASSUME NEW i \in 1..pushed'[s]
          PROVE  buffer'[Len(buffer') - pushed'[s] + i] = buf[s][i]
      <3>1. Len(buffer') - pushed'[s] + i = Len(buffer) - pushed[s] + i /\ i \in 1..(pushed[s] + 1)
        BY <1>3, <1>4, <1>5
      <3>2. CASE i \in 1..pushed[s]
        <4>1. Len(buffer) - pushed[s] + i \in 1..Len(buffer)
          BY <1>3, <2>1, <3>2
        <4> QED BY <1>4, <2>1, <3>1, <3>2, <4>1
      <3>3. CASE i = pushed[s] + 1
        <4>1. Len(buffer) - pushed[s] + i = Len(buffer) + 1
          BY <1>3, <3>3
        <4> QED BY <1>4, <3>1, <3>3, <4>1 DEF e
      <3> QED BY <1>3, <3>1, <3>2, <3>3
    <2> QED BY <1>1, <1>2, <2>2, <2>3 DEF PushInv
  <1>11. RecvInv'
    <2>1. rpc # "pop"
      BY <1>2, ReceiverAssumption DEF Inv, MutexInv
    <2> QED BY <1>1, <2>1 DEF Inv, RecvInv
  <1>12. MemoryInv'
    BY <1>1 DEF Inv, MemoryInv, ReceivedIntact
  <1>13. NoLostWakeup'
    BY <1>1, <1>2 DEF NoLostWakeup
  <1> QED BY <1>6, <1>7, <1>8, <1>9, <1>10, <1>11, <1>12, <1>13 DEF Inv

\* send notifies and unlocks.
LEMMA SendReturnInv ==
  ASSUME Inv, NEW s \in Sends, SendReturn(s)
  PROVE  Inv'
  <1> USE DEF SendReturn, Goes
  <1>0. mutex = s /\ rpc # "pop"
    BY ReceiverAssumption DEF Inv, MutexInv
  <1>1. Types'
    BY DEF Inv, Types, Notified
  <1>2. MutexInv'
    BY <1>0, ReceiverAssumption DEF Inv, Types, MutexInv, Notified
  <1>3. ASSUME NEW t \in Sends PROVE SendInv(t)'
    BY DEF Inv, Types, SendInv
  <1>4. PushInv'
    BY ReceiverAssumption DEF PushInv
  <1>5. RecvInv'
    BY <1>0 DEF Inv, RecvInv, Notified
  <1>6. MemoryInv'
    BY DEF Inv, MemoryInv, ReceivedIntact
  <1>7. NoLostWakeup'
    BY DEF NoLostWakeup, Notified
  <1> QED BY <1>1, <1>2, <1>3, <1>4, <1>5, <1>6, <1>7 DEF Inv

\* A guest calls recv.
LEMMA RecvCallInv ==
  ASSUME Inv, NEW bytes \in Asked, RecvCall(bytes)
  PROVE  Inv'
  <1> USE DEF RecvCall, sending
  <1>1. Types'
    BY AskedAssumption DEF Inv, Types
  <1>2. MutexInv'
    BY DEF Inv, MutexInv
  <1>3. ASSUME NEW t \in Sends PROVE SendInv(t)'
    BY DEF Inv, SendInv
  <1>4. PushInv'
    BY DEF Inv, PushInv
  <1>5. RecvInv'
    BY DEF Inv, RecvInv
  <1>6. MemoryInv'
    BY DEF Inv, MemoryInv, ReceivedIntact
  <1>7. NoLostWakeup'
    BY DEF NoLostWakeup
  <1> QED BY <1>1, <1>2, <1>3, <1>4, <1>5, <1>6, <1>7 DEF Inv

\* recv waits, or begins to pop.
LEMMA RecvRoundInv ==
  ASSUME Inv, RecvRound
  PROVE  Inv'
  <1> USE DEF RecvRound, Unlocked, AfterWait, sending
  <1>0. Len(buffer) \in Nat /\ n \in Nat
    BY DEF Inv, Types
  <1>1. Types'
    BY <1>0 DEF Inv, Types
  <1>2. MutexInv'
    BY ReceiverAssumption DEF Inv, MutexInv
  <1>3. ASSUME NEW t \in Sends PROVE SendInv(t)'
    BY DEF Inv, SendInv
  <1>4. PushInv'
    BY ReceiverAssumption DEF PushInv
  <1>5. RecvInv'
    <2>1. tmp = <<>> /\ Len(tmp) = 0
      BY DEF Inv, RecvInv
    <2>2. CASE buffer = <<>>
      BY <2>1, <2>2 DEF RecvInv
    <2>3. CASE buffer # <<>>
      <3>1. n' \in Nat /\ n' <= Len(buffer) /\ buffer' = buffer /\ tmp' = tmp /\ rpc' = "pop"
        BY <1>0, <2>3
      <3> QED BY <1>0, <2>1, <3>1 DEF RecvInv
    <2> QED BY <2>2, <2>3
  <1>6. MemoryInv'
    BY DEF Inv, MemoryInv, ReceivedIntact
  <1>7. NoLostWakeup'
    BY DEF NoLostWakeup
  <1> QED BY <1>1, <1>2, <1>3, <1>4, <1>5, <1>6, <1>7 DEF Inv

\* recv wakes up by itself.
LEMMA SpuriousInv ==
  ASSUME Inv, Spurious
  PROVE  Inv'
  <1> USE DEF Spurious, sending
  <1>1. Types'
    BY DEF Inv, Types
  <1>2. MutexInv'
    BY DEF Inv, MutexInv
  <1>3. ASSUME NEW t \in Sends PROVE SendInv(t)'
    BY DEF Inv, SendInv
  <1>4. PushInv'
    BY DEF Inv, PushInv
  <1>5. RecvInv'
    BY DEF Inv, RecvInv
  <1>6. MemoryInv'
    BY DEF Inv, MemoryInv, ReceivedIntact
  <1>7. NoLostWakeup'
    BY DEF NoLostWakeup
  <1> QED BY <1>1, <1>2, <1>3, <1>4, <1>5, <1>6, <1>7 DEF Inv

\* recv pops a byte: there is one.
LEMMA RecvPopsInv ==
  ASSUME Inv, RecvPops
  PROVE  Inv'
  <1> USE DEF RecvPops, sending
  <1>0. mutex = Receiver /\ mutex \notin Sends
    BY ReceiverAssumption DEF Inv, MutexInv
  <1>1. Len(buffer) \in Nat /\ n \in Nat /\ Len(tmp) \in Nat /\ tmp \in Seq(Bytes) /\ buffer \in Seq(Bytes)
    BY DEF Inv, Types
  <1>2. buffer # <<>>
    <2>1. Len(tmp) < n /\ n <= Len(tmp) + Len(buffer)
      BY DEF Inv, RecvInv
    <2> QED BY <1>1, <2>1
  <1>3. /\ Head(buffer) \in Bytes /\ Tail(buffer) \in Seq(Bytes)
        /\ Len(Tail(buffer)) = Len(buffer) - 1
    BY <1>1, <1>2, HeadTailProperties
  <1>4. tmp' \in Seq(Bytes) /\ Len(tmp') = Len(tmp) + 1
    BY <1>1, <1>3, AppendProperties
  <1>5. Types'
    BY <1>3, <1>4 DEF Inv, Types
  <1>6. MutexInv'
    BY DEF Inv, MutexInv
  <1>7. ASSUME NEW t \in Sends PROVE SendInv(t)'
    BY DEF Inv, SendInv
  <1>8. PushInv'
    BY <1>0 DEF PushInv
  <1>9. RecvInv'
    <2>1. n <= Len(tmp) + Len(buffer) /\ Len(buffer') = Len(buffer) - 1 /\ Len(tmp) < n
      BY <1>3 DEF Inv, RecvInv
    <2> HIDE DEF RecvPops
    <2>2. Len(tmp') <= n /\ n <= Len(tmp') + Len(buffer')
      BY <1>1, <1>4, <2>1
    <2>3. rpc' = "pop" /\ n' = n
      BY DEF RecvPops
    <2> QED BY <2>2, <2>3 DEF RecvInv
  <1>10. MemoryInv'
    BY DEF Inv, MemoryInv, ReceivedIntact
  <1>11. NoLostWakeup'
    BY DEF NoLostWakeup
  <1> QED BY <1>5, <1>6, <1>7, <1>8, <1>9, <1>10, <1>11 DEF Inv

\* recv writes its guest's memory and returns.
LEMMA RecvReturnMemory ==
  ASSUME Inv, RecvReturn
  PROVE  MemoryInv'
  <1> DEFINE V == Bytes \cup {Old}
             p == Len(received) + 1
  <1>1. /\ memory' = WriteMemory(memory, p, tmp) /\ received' = received \o tmp /\ dead' = dead
    BY DEF RecvReturn
  <1>2. received \in Seq(Bytes) /\ tmp \in Seq(Bytes) /\ Len(received) \in Nat /\ Len(tmp) \in Nat
        /\ Space \in Nat
    BY AskedAssumption DEF Inv, Types
  <1>3. tmp \in Seq(V) /\ AllOnes \in V /\ p \in Nat \ {0} /\ p \in Nat
    <2>1. Bytes \subseteq V /\ AllOnes \in V
      BY DEF Bytes
    <2>2. tmp \in Seq(V)
      <3> HIDE DEF V
      <3> QED BY <1>2, <2>1, SeqMonotonic
    <2> QED BY <1>2, <2>1, <2>2
  <1>4. CASE Receiver \in dead
    <2> DEFINE D == {}
               c == Words(Len(tmp))
    <2>1. memory \in [D -> V] /\ D \in SUBSET Nat
      BY <1>4 DEF Inv, MemoryInv
    <2>2. c \in Nat /\ c = Words(Len(tmp))
      <3>1. Len(tmp) + WordSize - 1 \in Nat /\ WordSize \in Nat \ {0}
        BY <1>2, WordSizeAssumption
      <3>2. (Len(tmp) + WordSize - 1) \div WordSize \in Nat
        BY <3>1
      <3> QED BY <3>2 DEF Words
    <2> HIDE DEF D, c, V, p
    <2>3. PICK g : IsWriting(g, c, [D -> V], memory, p, tmp)
      BY <1>3, <2>1, <2>2, WriteLoop
    <2>4. g[c] \in [D -> V] /\ WriteMemory(memory, p, tmp) = g[c]
      BY <2>2, <2>3 DEF IsWriting
    <2>5. memory' \in [{} -> Bytes \cup {Old}]
      BY <1>1, <2>4 DEF D, V
    <2> QED BY <1>1, <1>4, <2>5 DEF MemoryInv
  <1>5. CASE Receiver \notin dead
    <2>1. memory \in [1..Space -> V] /\ ReceivedIntact
      BY <1>5 DEF Inv, MemoryInv
    <2>2. /\ memory' \in [1..Space -> V]
          /\ \A a \in 1..Space :
               /\ a < p => memory'[a] = memory[a]
               /\ p <= a /\ a < p + Len(tmp) => memory'[a] = tmp[a - p + 1]
               /\ a >= p + Len(tmp) =>
                    memory'[a] = memory[a] \/ (memory'[a] = AllOnes /\ a > Space - WordSize)
      <3> DEFINE m == memory'
      <3>1. m = WriteMemory(memory, p, tmp)
        BY <1>1
      <3> HIDE DEF V, p, m
      <3>2. /\ m \in [1..Space -> V]
            /\ \A a \in 1..Space :
                 /\ a < p => m[a] = memory[a]
                 /\ p <= a /\ a < p + Len(tmp) => m[a] = tmp[a - p + 1]
                 /\ a >= p + Len(tmp) =>
                      m[a] = memory[a] \/ (m[a] = AllOnes /\ a > Space - WordSize)
        BY <1>2, <1>3, <2>1, <3>1, Written
      <3> QED BY <3>2 DEF m
    <2>3. /\ Len(received') = Len(received) + Len(tmp)
          /\ \A i \in 1..(Len(received) + Len(tmp)) :
               received'[i] = IF i <= Len(received) THEN received[i] ELSE tmp[i - Len(received)]
      BY <1>1, <1>2, ConcatProperties
    <2>4. ASSUME NEW a \in 1..Space
          PROVE  \/ memory'[a] = IF a <= Len(received') THEN received'[a] ELSE Old
                 \/ a > Len(received') /\ a > Space - WordSize /\ memory'[a] = AllOnes
      <3>0. a \in Nat /\ a >= 1
        BY <1>2
      <3>1. \/ memory[a] = IF a <= Len(received) THEN received[a] ELSE Old
            \/ a > Len(received) /\ a > Space - WordSize /\ memory[a] = AllOnes
        BY <1>5, <2>1 DEF ReceivedIntact
      <3>2. CASE a <= Len(received)
        <4>1. a < p /\ a \in 1..(Len(received) + Len(tmp)) /\ a <= Len(received')
          BY <1>2, <2>3, <3>0, <3>2
        <4>2. memory'[a] = memory[a] /\ received'[a] = received[a]
          BY <2>2, <2>3, <3>2, <4>1
        <4> QED BY <1>2, <3>0, <3>1, <3>2, <4>1, <4>2
      <3>3. CASE a > Len(received) /\ a <= Len(received) + Len(tmp)
        <4>1. /\ p <= a /\ a < p + Len(tmp) /\ a - p + 1 = a - Len(received)
              /\ a \in 1..(Len(received) + Len(tmp)) /\ ~(a <= Len(received)) /\ a <= Len(received')
          BY <1>2, <2>3, <3>0, <3>3
        <4>2. memory'[a] = tmp[a - Len(received)] /\ received'[a] = tmp[a - Len(received)]
          BY <2>2, <2>3, <4>1
        <4> QED BY <4>1, <4>2
      <3>4. CASE a > Len(received) + Len(tmp)
        <4>1. a >= p + Len(tmp) /\ a > Len(received') /\ ~(a <= Len(received')) /\ ~(a <= Len(received))
          BY <1>2, <2>3, <3>0, <3>4
        <4>2. memory'[a] = memory[a] \/ (memory'[a] = AllOnes /\ a > Space - WordSize)
          BY <2>2, <4>1
        <4> QED BY <3>1, <4>1, <4>2
      <3> QED BY <1>2, <3>0, <3>2, <3>3, <3>4
    <2>5. ReceivedIntact'
      BY <2>4 DEF ReceivedIntact
    <2> QED BY <1>1, <1>5, <2>2, <2>5 DEF MemoryInv
  <1> QED BY <1>4, <1>5

\* recv returns.
LEMMA RecvReturnInv ==
  ASSUME Inv, RecvReturn
  PROVE  Inv'
  <1>1. MemoryInv'
    BY RecvReturnMemory
  <1>2. /\ received' = received \o tmp /\ tmp' = <<>> /\ n' = 0 /\ rpc' = "idle" /\ mutex' = Nobody
        /\ UNCHANGED <<open, sending, buffer, dead, crashed>> /\ rpc = "pop"
    BY DEF RecvReturn
  <1> USE DEF sending
  <1>3. Types'
    <2>1. received' \in Seq(Bytes) /\ <<>> \in Seq(Bytes)
      BY <1>2, ConcatProperties DEF Inv, Types
    <2> QED BY <1>2, <2>1 DEF Inv, Types
  <1>4. MutexInv'
    BY <1>2, ReceiverAssumption DEF Inv, MutexInv
  <1>5. ASSUME NEW t \in Sends PROVE SendInv(t)'
    BY <1>2 DEF Inv, SendInv
  <1>6. PushInv'
    BY <1>2, ReceiverAssumption DEF PushInv
  <1>7. RecvInv'
    BY <1>2 DEF RecvInv
  <1>8. NoLostWakeup'
    BY <1>2 DEF NoLostWakeup
  <1> QED BY <1>1, <1>3, <1>4, <1>5, <1>6, <1>7, <1>8 DEF Inv

\* The owner closes the socket.
LEMMA CloseInv ==
  ASSUME Inv, Close
  PROVE  Inv'
  <1> USE DEF Close, sending, receiving
  <1>1. Types'
    BY DEF Inv, Types
  <1>2. MutexInv'
    BY DEF Inv, MutexInv
  <1>3. ASSUME NEW t \in Sends PROVE SendInv(t)'
    BY DEF Inv, SendInv
  <1>4. PushInv'
    BY DEF Inv, PushInv
  <1>5. RecvInv'
    BY DEF Inv, RecvInv
  <1>6. MemoryInv'
    BY DEF Inv, MemoryInv, ReceivedIntact
  <1>7. NoLostWakeup'
    BY DEF Inv, NoLostWakeup
  <1> QED BY <1>1, <1>2, <1>3, <1>4, <1>5, <1>6, <1>7 DEF Inv

\* A guest is killed.
LEMMA KilledInv ==
  ASSUME Inv, NEW g \in Sends \cup {Receiver}, Killed(g)
  PROVE  Inv'
  <1> USE DEF Killed, sending
  <1>1. Types'
    BY DEF Inv, Types
  <1>2. MutexInv'
    BY DEF Inv, MutexInv
  <1>3. ASSUME NEW t \in Sends PROVE SendInv(t)'
    <2>1. PICK m : BufferOf(t, buf[t], m, t \in dead)
      BY DEF Inv, SendInv
    <2>2. t \in dead => t \in dead'
      OBVIOUS
    <2>3. BufferOf(t, buf[t], m, t \in dead')
      BY <2>1, <2>2 DEF BufferOf
    <2> QED BY <2>3 DEF Inv, SendInv
  <1>4. PushInv'
    BY DEF Inv, PushInv
  <1>5. RecvInv'
    BY DEF Inv, RecvInv
  <1>6. MemoryInv'
    <2>1. CASE g = Receiver
      <3>1. memory' = <<>> /\ <<>> \in [{} -> Bytes \cup {Old}] /\ Receiver \in dead'
        BY <2>1
      <3> QED BY <3>1 DEF MemoryInv
    <2>2. CASE g # Receiver
      <3>1. memory' = memory /\ (Receiver \in dead' <=> Receiver \in dead) /\ received' = received
        BY <2>2
      <3> QED BY <3>1 DEF Inv, MemoryInv, ReceivedIntact
    <2> QED BY <2>1, <2>2
  <1>7. NoLostWakeup'
    BY DEF Inv, NoLostWakeup
  <1> QED BY <1>1, <1>2, <1>3, <1>4, <1>5, <1>6, <1>7 DEF Inv

\* The invariant of the calls of send and recv on a socket: at every point the
\* holder of the mutex is the one that copies, and what it copies is accounted
\* for.
THEOREM InvHolds == Spec => []Inv
  <1>1. ASSUME Inv, [Next]_vars PROVE Inv'
    <2>1. CASE Next
      BY <1>1, <2>1, SendCallInv, SendLocksInv, SendReadsInv, SendPushesInv, SendReturnInv, RecvCallInv,
         RecvRoundInv, SpuriousInv, RecvPopsInv, RecvReturnInv, CloseInv, KilledInv
         DEF Next, SendStep, RecvStep
    <2>2. CASE UNCHANGED vars
      <3> USE <2>2 DEF vars
      <3>1. Types'
        BY <1>1 DEF Inv, Types
      <3>2. MutexInv' /\ PushInv' /\ RecvInv' /\ NoLostWakeup'
        BY <1>1 DEF Inv, MutexInv, PushInv, RecvInv, NoLostWakeup
      <3>3. ASSUME NEW t \in Sends PROVE SendInv(t)'
        BY <1>1 DEF Inv, SendInv
      <3>4. MemoryInv'
        BY <1>1 DEF Inv, MemoryInv, ReceivedIntact
      <3> QED BY <3>1, <3>2, <3>3, <3>4 DEF Inv
    <2> QED BY <1>1, <2>1, <2>2
  <1> QED BY <1>1, InitInv, PTL DEF Spec

\* Every variable of the calls keeps its type.
THEOREM TypeCorrect == Spec => []TypeOK
  <1>1. Inv => TypeOK
    <2> SUFFICES ASSUME Inv PROVE TypeOK
      OBVIOUS
    <2>1. \A s \in Sends : Len(buf[s]) <= Size[s]
      BY DEF Inv, SendInv
    <2>2. Range(memory) \subseteq Bytes \cup {Old}
      <3>1. memory \in [{} -> Bytes \cup {Old}] \/ memory \in [1..Space -> Bytes \cup {Old}]
        BY DEF Inv, MemoryInv
      <3> QED BY <3>1 DEF Range
    <2> QED BY <2>1, <2>2 DEF Inv, Types, TypeOK
  <1> QED BY <1>1, InvHolds, PTL

\* A receiver that waits on cond_ while there are bytes is about to be notified,
\* by the sender that holds the mutex.
THEOREM WakeupsNotLost == Spec => []NoLostWakeup
  <1>1. Inv => NoLostWakeup
    BY DEF Inv
  <1> QED BY <1>1, InvHolds, PTL

\* send passes on its guest's bytes, in order, whoever is killed meanwhile.
THEOREM SendsAsRead == Spec => []SentAsRead
  <1>1. Inv => SentAsRead
    <2> SUFFICES ASSUME Inv, NEW s \in Sends, NEW i \in DOMAIN buf[s]
                 PROVE  \/ buf[s][i] = <<s, i>>
                        \/ buf[s][i] = AllOnes /\ (s \in dead \/ ~WordMapped(s, i))
      BY DEF SentAsRead
    <2>1. PICK m : BufferOf(s, buf[s], m, s \in dead)
      BY DEF Inv, SendInv
    <2>2. i \in 1..Len(buf[s]) /\ Len(buf[s]) \in Nat
      BY LenProperties DEF Inv, Types
    <2>3. m \in 0..Len(buf[s]) /\ buf[s][i] = IF i <= m THEN <<s, i>> ELSE AllOnes
      BY <2>1, <2>2 DEF BufferOf
    <2>4. i > m => s \in dead \/ ~WordMapped(s, i)
      BY <2>1, <2>2 DEF BufferOf
    <2> QED BY <2>2, <2>3, <2>4
  <1> QED BY <1>1, InvHolds, PTL

\* A guest that is alive has in its memory what its calls of recv returned.
THEOREM ReceivesIntact == Spec => []ReceivedIntact
  <1>1. Inv => ReceivedIntact
    BY DEF Inv, MemoryInv, ReceivedIntact
  <1> QED BY <1>1, InvHolds, PTL

-----------------------------------------------------------------------------
\* What StreamPipe's variables are as a stream.
Sent == {s \in Sends : pc[s] = "done"}
Bytestream == tmp \o SubSeq(buffer, 1, Len(buffer) - Partial)

\* The first k elements of a sequence.
LEMMA Prefix ==
  ASSUME NEW S, NEW b \in Seq(S), NEW k \in Nat, k <= Len(b)
  PROVE  /\ SubSeq(b, 1, k) \in Seq(S) /\ Len(SubSeq(b, 1, k)) = k
         /\ \A i \in 1..k : SubSeq(b, 1, k)[i] = b[i]
  <1>1. \A i \in 1..k : i \in 1..Len(b) /\ b[i] \in S /\ 1 + i - 1 = i
    BY ElementOfSeq
  <1>2. k \in Int /\ 1 \in Int /\ k - 1 + 1 = k
    OBVIOUS
  <1>3. /\ SubSeq(b, 1, k) \in Seq(S)
        /\ Len(SubSeq(b, 1, k)) = IF 1 <= k THEN k - 1 + 1 ELSE 0
        /\ \A i \in 1..(k - 1 + 1) : SubSeq(b, 1, k)[i] = b[1 + i - 1]
    BY <1>1, <1>2, SubSeqProperties
  <1> QED BY <1>1, <1>2, <1>3

\* They are the same when an element is appended.
LEMMA PrefixOfAppend ==
  ASSUME NEW S, NEW b \in Seq(S), NEW e \in S, NEW k \in Nat, k <= Len(b)
  PROVE  SubSeq(Append(b, e), 1, k) = SubSeq(b, 1, k)
  <1> DEFINE z == Append(b, e)
  <1>1. z \in Seq(S) /\ Len(z) = Len(b) + 1 /\ \A i \in 1..Len(b) : z[i] = b[i]
    BY AppendProperties
  <1> HIDE DEF z
  <1>2. k <= Len(z)
    BY <1>1
  <1>3. /\ SubSeq(z, 1, k) \in Seq(S) /\ Len(SubSeq(z, 1, k)) = k
        /\ \A i \in 1..k : SubSeq(z, 1, k)[i] = z[i]
    BY <1>1, <1>2, Prefix
  <1>4. /\ SubSeq(b, 1, k) \in Seq(S) /\ Len(SubSeq(b, 1, k)) = k
        /\ \A i \in 1..k : SubSeq(b, 1, k)[i] = b[i]
    BY Prefix
  <1>5. \A i \in 1..k : i \in 1..Len(b)
    OBVIOUS
  <1>6. SubSeq(z, 1, k) = SubSeq(b, 1, k)
    BY <1>1, <1>3, <1>4, <1>5, SeqEqual
  <1> QED BY <1>6 DEF z

\* Moving the first element of one sequence to the end of another leaves what
\* they are together.
LEMMA HeadMoved ==
  ASSUME NEW S, NEW a \in Seq(S), NEW b \in Seq(S), b # <<>>
  PROVE  Append(a, Head(b)) \o Tail(b) = a \o b
  <1>1. Head(b) \in S /\ Tail(b) \in Seq(S)
    BY HeadTailProperties
  <1>2. Append(a, Head(b)) = a \o <<Head(b)>> /\ <<Head(b)>> \in Seq(S)
    BY <1>1, AppendIsConcat
  <1>3. (a \o <<Head(b)>>) \o Tail(b) = a \o (<<Head(b)>> \o Tail(b))
    BY <1>1, <1>2, ConcatAssociative
  <1>4. <<Head(b)>> \o Tail(b) = b
    <2> DEFINE z == <<Head(b)>> \o Tail(b)
    <2>1. /\ z \in Seq(S) /\ Len(z) = 1 + Len(Tail(b))
          /\ \A i \in 1..(1 + Len(Tail(b))) : z[i] = IF i <= 1 THEN <<Head(b)>>[i] ELSE Tail(b)[i - 1]
      <3>1. Len(<<Head(b)>>) = 1
        OBVIOUS
      <3> QED BY <1>1, <1>2, <3>1, ConcatProperties
    <2>2. Len(Tail(b)) = Len(b) - 1 /\ \A i \in 1..Len(Tail(b)) : Tail(b)[i] = b[i + 1]
      BY HeadTailProperties
    <2>3. Head(b) = b[1] /\ Len(b) \in Nat
      OBVIOUS
    <2> HIDE DEF z
    <2>4. ASSUME NEW i \in 1..Len(b) PROVE z[i] = b[i]
      <3>1. i \in 1..(1 + Len(Tail(b)))
        BY <2>2, <2>3
      <3>2. CASE i = 1
        BY <2>1, <2>3, <3>1, <3>2
      <3>3. CASE i # 1
        <4>1. i - 1 \in 1..Len(Tail(b)) /\ (i - 1) + 1 = i /\ ~(i <= 1)
          BY <2>2, <2>3, <3>3
        <4> QED BY <2>1, <2>2, <3>1, <4>1
      <3> QED BY <3>2, <3>3
    <2>5. Len(z) = Len(b)
      BY <2>1, <2>2, <2>3
    <2>6. z = b
      BY <2>1, <2>4, <2>5, SeqEqual
    <2> QED BY <2>6 DEF z
  <1> QED BY <1>2, <1>3, <1>4

\* The parts of a concatenation.
LEMMA PartsOfConcat ==
  ASSUME NEW S, NEW a \in Seq(S), NEW b \in Seq(S)
  PROVE  /\ SubSeq(a \o b, 1, Len(a)) = a
         /\ SubSeq(a \o b, Len(a) + 1, Len(a \o b)) = b
  <1> DEFINE z == a \o b
             r == SubSeq(z, Len(a) + 1, Len(z))
  <1>1. /\ z \in Seq(S) /\ Len(z) = Len(a) + Len(b)
        /\ \A i \in 1..(Len(a) + Len(b)) : z[i] = IF i <= Len(a) THEN a[i] ELSE b[i - Len(a)]
    BY ConcatProperties
  <1>2. Len(a) \in Nat /\ Len(b) \in Nat
    OBVIOUS
  <1> HIDE DEF z
  <1>3. SubSeq(z, 1, Len(a)) = a
    <2>1. Len(a) <= Len(z)
      BY <1>1, <1>2
    <2>2. /\ SubSeq(z, 1, Len(a)) \in Seq(S) /\ Len(SubSeq(z, 1, Len(a))) = Len(a)
          /\ \A i \in 1..Len(a) : SubSeq(z, 1, Len(a))[i] = z[i]
      BY <1>1, <1>2, <2>1, Prefix
    <2>3. \A i \in 1..Len(a) : z[i] = a[i]
      BY <1>1, <1>2
    <2> QED BY <2>2, <2>3, SeqEqual
  <1>4. r = b
    <2>1. \A i \in (Len(a) + 1)..Len(z) : z[i] \in S
      BY <1>1, <1>2, ElementOfSeq
    <2>2. Len(a) + 1 \in Int /\ Len(z) \in Int
      BY <1>1, <1>2
    <2>3. /\ r \in Seq(S)
          /\ Len(r) = IF Len(a) + 1 <= Len(z) THEN Len(z) - (Len(a) + 1) + 1 ELSE 0
          /\ \A i \in 1..(Len(z) - (Len(a) + 1) + 1) : r[i] = z[(Len(a) + 1) + i - 1]
      BY <2>1, <2>2, SubSeqProperties
    <2> HIDE DEF r
    <2>4. Len(r) = Len(b)
      BY <1>1, <1>2, <2>3
    <2>5. ASSUME NEW i \in 1..Len(b) PROVE r[i] = b[i]
      <3>1. /\ i \in 1..(Len(z) - (Len(a) + 1) + 1) /\ (Len(a) + 1) + i - 1 = Len(a) + i
            /\ Len(a) + i \in 1..(Len(a) + Len(b)) /\ ~(Len(a) + i <= Len(a)) /\ (Len(a) + i) - Len(a) = i
        BY <1>1, <1>2
      <3> QED BY <1>1, <2>3, <3>1
    <2> QED BY <2>3, <2>4, <2>5, SeqEqual
  <1> QED BY <1>3, <1>4 DEF z

\* A send that has pushed everything adds its block to the stream as it returns.
LEMMA SendReturnSends ==
  ASSUME Inv, NEW s \in Sends, SendReturn(s)
  PROVE  Stream!Send(s)
  <1>1. mutex = s /\ rpc # "pop" /\ tmp = <<>> /\ mutex' = Nobody /\ buffer' = buffer /\ tmp' = tmp
        /\ received' = received /\ Nobody \notin Sends /\ pc[s] = "push" /\ pc' = [pc EXCEPT ![s] = "done"]
    BY ReceiverAssumption DEF Inv, MutexInv, RecvInv, SendReturn, Goes
  <1>2. /\ buffer \in Seq(Bytes) /\ Len(buffer) \in Nat /\ buf[s] \in Seq(Bytes)
        /\ Len(buf[s]) \in Nat /\ Size[s] \in Nat /\ AllOnes \in Bytes
    BY SizeAssumption DEF Inv, Types, Bytes
  <1> DEFINE size == Size[s]
             k == Len(buffer) - size
  <1>3. Len(buf[s]) = size /\ pushed[s] = size /\ Partial = size /\ Partial' = 0
    BY <1>1 DEF Inv, SendInv, SendReturn, Partial
  <1>4. /\ k \in Nat /\ k + size = Len(buffer) /\ k <= Len(buffer)
        /\ \A i \in 1..size : buffer[k + i] = buf[s][i]
    <2>1. /\ size <= Len(buffer)
          /\ \A i \in 1..size : buffer[Len(buffer) - size + i] = buf[s][i]
      BY <1>1, <1>3 DEF Inv, PushInv
    <2> QED BY <1>2, <2>1
  <1>5. PICK m : BufferOf(s, buf[s], m, s \in dead)
    BY DEF Inv, SendInv
  <1>6. m \in 0..size /\ \A i \in 1..size : buf[s][i] = IF i <= m THEN <<s, i>> ELSE AllOnes
    BY <1>3, <1>5 DEF BufferOf
  <1> DEFINE b == Stream!Block(s, m)
             head == SubSeq(buffer, 1, k)
  <1>7. b \in Seq(Bytes) /\ Len(b) = size /\ \A i \in 1..size : b[i] = buf[s][i]
    <2>1. b = [i \in 1..size |-> IF i <= m THEN <<s, i>> ELSE AllOnes]
      BY DEF Stream!Block
    <2> HIDE DEF b
    <2>2. \A i \in 1..size : b[i] = buf[s][i]
      BY <1>6, <2>1
    <2>3. \A i \in 1..size : buf[s][i] \in Bytes
      BY <1>2, <1>3, ElementOfSeq
    <2>4. b \in [1..size -> Bytes]
      BY <2>1, <2>2, <2>3
    <2> QED BY <1>2, <2>2, <2>4
  <1>8. head \in Seq(Bytes) /\ Len(head) = k /\ \A i \in 1..k : head[i] = buffer[i]
    <2> HIDE DEF k
    <2> QED BY <1>2, <1>4, Prefix
  <1> HIDE DEF b, head, k, size
  <1>9. head \o b = buffer
    <2> DEFINE z == head \o b
    <2>1. /\ z \in Seq(Bytes) /\ Len(z) = k + size
          /\ \A i \in 1..(k + size) : z[i] = IF i <= k THEN head[i] ELSE b[i - k]
      BY <1>7, <1>8, ConcatProperties
    <2> HIDE DEF z
    <2>2. size \in Nat
      BY <1>2 DEF size
    <2>3. ASSUME NEW i \in 1..Len(buffer) PROVE z[i] = buffer[i]
      <3>1. i \in 1..(k + size)
        BY <1>4
      <3>2. CASE i <= k
        BY <1>4, <1>8, <2>1, <3>1, <3>2
      <3>3. CASE ~(i <= k)
        <4>1. i - k \in 1..size /\ k + (i - k) = i
          BY <1>4, <2>2, <3>1, <3>3
        <4> QED BY <1>4, <1>7, <2>1, <3>1, <3>3, <4>1
      <3> QED BY <3>2, <3>3
    <2>4. Len(z) = Len(buffer)
      BY <1>4, <2>1
    <2>5. z = buffer
      BY <1>2, <2>1, <2>3, <2>4, SeqEqual
    <2> QED BY <2>5 DEF z
  <1>10. Bytestream = head
    <2>1. SubSeq(buffer, 1, Len(buffer) - Partial) = head
      BY <1>3 DEF head, k
    <2> QED BY <1>1, <1>8, <2>1, ConcatEmptySeq DEF Bytestream
  <1>11. Bytestream' = buffer
    <2>1. SubSeq(buffer, 1, Len(buffer) - 0) = buffer
      BY <1>2, SubSeqFull
    <2>2. Bytestream' = <<>> \o SubSeq(buffer, 1, Len(buffer) - 0)
      BY <1>1, <1>3 DEF Bytestream
    <2> QED BY <1>2, <2>1, <2>2, ConcatEmptySeq
  <1>12. s \notin Sent /\ Sent' = Sent \cup {s}
    BY <1>1 DEF Inv, Types, Sent
  <1>13. Bytestream' = Bytestream \o Stream!Block(s, m) /\ m \in 0..Size[s]
    BY <1>6, <1>9, <1>10, <1>11 DEF b, size
  <1> QED BY <1>1, <1>12, <1>13 DEF Stream!Send, Sent, Bytestream

\* A recv takes what it has popped from the front of the stream as it returns;
\* one that asked for nothing takes nothing.
LEMMA RecvReturnReceives ==
  ASSUME Inv, RecvReturn
  PROVE  [Stream!Next]_(Stream!vars)
  <1>1. /\ mutex = Receiver /\ mutex \notin Sends /\ mutex' = Nobody /\ Nobody \notin Sends
        /\ buffer' = buffer /\ tmp' = <<>> /\ received' = received \o tmp /\ pc' = pc
    BY ReceiverAssumption DEF Inv, MutexInv, RecvReturn, sending
  <1>2. /\ buffer \in Seq(Bytes) /\ Len(buffer) \in Nat /\ tmp \in Seq(Bytes) /\ Len(tmp) \in Nat
        /\ received \in Seq(Bytes)
    BY DEF Inv, Types
  <1>3. Partial = 0 /\ Partial' = 0 /\ Len(buffer) - 0 = Len(buffer)
    BY <1>1, <1>2 DEF Partial
  <1>4. SubSeq(buffer, 1, Len(buffer)) = buffer
    BY <1>2, SubSeqFull
  <1>5. Bytestream = tmp \o buffer
    BY <1>3, <1>4 DEF Bytestream
  <1>6. Bytestream' = buffer
    <2>1. Bytestream' = <<>> \o SubSeq(buffer, 1, Len(buffer))
      BY <1>1, <1>3 DEF Bytestream
    <2> QED BY <1>2, <1>4, <2>1, ConcatEmptySeq
  <1>7. Sent' = Sent
    BY <1>1 DEF Sent
  <1>8. CASE tmp = <<>>
    <2>1. received' = received /\ Bytestream' = Bytestream
      BY <1>1, <1>2, <1>5, <1>6, <1>8, ConcatEmptySeq
    <2> QED BY <1>7, <2>1 DEF Stream!vars, Sent, Bytestream
  <1>9. CASE tmp # <<>>
    <2>1. /\ SubSeq(tmp \o buffer, 1, Len(tmp)) = tmp
          /\ SubSeq(tmp \o buffer, Len(tmp) + 1, Len(tmp \o buffer)) = buffer
      BY <1>2, PartsOfConcat
    <2>2. Len(tmp) \in 1..Len(Bytestream)
      <3>1. Len(tmp \o buffer) = Len(tmp) + Len(buffer)
        BY <1>2, ConcatProperties
      <3>2. Len(tmp) # 0
        BY <1>2, <1>9, EmptySeq
      <3> QED BY <1>2, <1>5, <3>1, <3>2
    <2>3. /\ received' = received \o SubSeq(Bytestream, 1, Len(tmp))
          /\ Bytestream' = SubSeq(Bytestream, Len(tmp) + 1, Len(Bytestream))
      BY <1>1, <1>5, <1>6, <2>1
    <2>4. Stream!Receive
      BY <1>7, <2>2, <2>3 DEF Stream!Receive, Sent, Bytestream
    <2> QED BY <2>4 DEF Stream!Next
  <1> QED BY <1>8, <1>9

\* Every step of the calls is a step of the stream or leaves it alone.
LEMMA StepsImplement ==
  ASSUME Inv, [Next]_vars
  PROVE  [Stream!Next]_(Stream!vars)
  <1> DEFINE Same == Sent' = Sent /\ Bytestream' = Bytestream /\ received' = received
  <1>1. Same => UNCHANGED Stream!vars
    BY DEF Stream!vars, Sent, Bytestream
  <1>2. ASSUME NEW s \in Sends, SendCall(s) PROVE Same
    <2>1. Bytestream' = Bytestream /\ received' = received
      BY <1>2 DEF SendCall, receiving, Bytestream, Partial
    <2>2. Sent' = Sent
      BY <1>2 DEF Inv, Types, SendCall, Goes, Sent
    <2> QED BY <2>1, <2>2
  <1>3. ASSUME NEW s \in Sends, SendLocks(s) PROVE Same
    <2>1. pushed[s] = 0 /\ mutex \notin Sends /\ mutex' = s /\ pushed' = pushed /\ buffer' = buffer
          /\ tmp' = tmp /\ received' = received
      BY <1>3, ReceiverAssumption DEF Inv, SendInv, SendLocks, Unlocked, receiving
    <2>2. Bytestream' = Bytestream
      BY <2>1 DEF Bytestream, Partial
    <2>3. Sent' = Sent
      BY <1>3 DEF Inv, Types, SendLocks, Goes, Sent
    <2> QED BY <2>1, <2>2, <2>3
  <1>4. ASSUME NEW s \in Sends, SendReads(s) PROVE Same
    <2>1. Bytestream' = Bytestream /\ received' = received
      BY <1>4 DEF SendReads, receiving, Bytestream, Partial
    <2>2. Sent' = Sent
      BY <1>4 DEF Inv, Types, SendReads, Goes, Sent
    <2> QED BY <2>1, <2>2
  <1>5. ASSUME NEW s \in Sends, SendPushes(s) PROVE Same
    <2> DEFINE e == buf[s][pushed[s] + 1]
               k == Len(buffer) - pushed[s]
    <2>1. /\ mutex = s /\ mutex' = s /\ buffer' = Append(buffer, e) /\ pushed' = [pushed EXCEPT ![s] = @ + 1]
          /\ tmp' = tmp /\ received' = received /\ pc' = pc /\ pushed[s] < Len(buf[s])
      BY <1>5 DEF Inv, MutexInv, SendPushes, receiving
    <2>2. /\ buffer \in Seq(Bytes) /\ Len(buffer) \in Nat /\ pushed[s] \in Nat /\ buf[s] \in Seq(Bytes)
          /\ Len(buf[s]) \in Nat /\ pushed[s] <= Len(buffer)
      BY <2>1 DEF Inv, Types, PushInv
    <2>3. pushed[s] + 1 \in 1..Len(buf[s])
      BY <2>1, <2>2
    <2>4. e \in Bytes
      BY <2>2, <2>3, ElementOfSeq
    <2>5. Partial = pushed[s] /\ Partial' = pushed[s] + 1
      BY <2>1 DEF Inv, Types, Partial
    <2>6. k \in Nat /\ k <= Len(buffer)
      BY <2>2
    <2> HIDE DEF e
    <2>7. Len(buffer') = Len(buffer) + 1
      BY <2>1, <2>2, <2>4, AppendProperties
    <2>8. Len(buffer') - Partial' = k /\ Len(buffer) - Partial = k
      BY <2>2, <2>5, <2>7
    <2> HIDE DEF k
    <2>9. SubSeq(Append(buffer, e), 1, k) = SubSeq(buffer, 1, k)
      BY <2>2, <2>4, <2>6, PrefixOfAppend
    <2>10. Bytestream' = Bytestream
      <3>1. Bytestream' = tmp' \o SubSeq(buffer', 1, Len(buffer') - Partial')
        BY DEF Bytestream
      <3> QED BY <2>1, <2>8, <2>9, <3>1 DEF Bytestream
    <2> QED BY <2>1, <2>10 DEF Sent
  <1>6. ASSUME NEW bytes \in Asked, RecvCall(bytes) PROVE Same
    BY <1>6 DEF RecvCall, sending, Sent, Bytestream, Partial
  <1>7. ASSUME RecvRound PROVE Same
    BY <1>7, ReceiverAssumption DEF RecvRound, Unlocked, AfterWait, sending, Sent, Bytestream, Partial
  <1>8. ASSUME Spurious PROVE Same
    BY <1>8 DEF Spurious, sending, Sent, Bytestream, Partial
  <1>9. ASSUME RecvPops PROVE Same
    <2>1. /\ mutex = Receiver /\ mutex \notin Sends /\ mutex' = mutex /\ Len(tmp) < n
          /\ buffer' = Tail(buffer) /\ tmp' = Append(tmp, Head(buffer)) /\ received' = received /\ pc' = pc
      BY <1>9, ReceiverAssumption DEF Inv, MutexInv, RecvPops, sending
    <2>2. /\ buffer \in Seq(Bytes) /\ Len(buffer) \in Nat /\ tmp \in Seq(Bytes) /\ Len(tmp) \in Nat
          /\ n \in Nat /\ n <= Len(tmp) + Len(buffer)
      BY <1>9 DEF Inv, Types, RecvInv, RecvPops
    <2>3. buffer # <<>>
      BY <2>1, <2>2
    <2>4. Tail(buffer) \in Seq(Bytes) /\ Len(Tail(buffer)) \in Nat
      BY <2>2, <2>3, HeadTailProperties
    <2>5. Partial = 0 /\ Partial' = 0
      BY <2>1 DEF Partial
    <2>6. Bytestream = tmp \o buffer
      <3>1. SubSeq(buffer, 1, Len(buffer) - 0) = buffer
        BY <2>2, SubSeqFull
      <3> QED BY <2>5, <3>1 DEF Bytestream
    <2>7. Bytestream' = Append(tmp, Head(buffer)) \o Tail(buffer)
      <3>1. SubSeq(Tail(buffer), 1, Len(Tail(buffer)) - 0) = Tail(buffer)
        BY <2>4, SubSeqFull
      <3>2. Bytestream' = tmp' \o SubSeq(buffer', 1, Len(buffer') - Partial')
        BY DEF Bytestream
      <3> QED BY <2>1, <2>5, <3>1, <3>2
    <2>8. Bytestream' = Bytestream
      BY <2>2, <2>3, <2>6, <2>7, HeadMoved
    <2> QED BY <2>1, <2>8 DEF Sent
  <1>10. ASSUME Close PROVE Same
    BY <1>10 DEF Close, sending, receiving, Sent, Bytestream, Partial
  <1>11. ASSUME NEW g \in Sends \cup {Receiver}, Killed(g) PROVE Same
    BY <1>11 DEF Killed, sending, Sent, Bytestream, Partial
  <1>12. ASSUME UNCHANGED vars PROVE Same
    BY <1>12 DEF vars, Sent, Bytestream, Partial
  <1>13. ASSUME NEW s \in Sends, SendReturn(s) PROVE Stream!Next
    BY <1>13, SendReturnSends DEF Stream!Next
  <1> HIDE DEF Same
  <1> QED BY <1>1, <1>2, <1>3, <1>4, <1>5, <1>6, <1>7, <1>8, <1>9, <1>10, <1>11, <1>12, <1>13,
             RecvReturnReceives DEF Next, SendStep, RecvStep

\* The calls of send and recv, with the mutex, the loops and the guests that are
\* killed in them, implement a stream: blocks are not torn or mixed, and no byte
\* is lost, repeated or overtaken between a send and a recv.
THEOREM RefinesStream == Spec => ImplementsStream
  <1>1. Init => Stream!Init
    <2> SUFFICES ASSUME Init PROVE Stream!Init
      OBVIOUS
    <2>1. {s \in Sends : pc[s] = "done"} = {} /\ received = <<>>
      BY DEF Init
    <2>2. tmp = <<>> /\ buffer = <<>> /\ Partial = 0
      BY ReceiverAssumption DEF Init, Partial
    <2>3. tmp \o SubSeq(buffer, 1, Len(buffer) - Partial) = <<>>
      <3>1. <<>> \in Seq(Bytes) /\ Len(<<>>) - 0 = 0
        OBVIOUS
      <3>2. SubSeq(<<>>, 1, 0) = <<>>
        BY SubSeqEmpty
      <3>3. <<>> \o <<>> = <<>>
        BY <3>1, ConcatEmptySeq
      <3> QED BY <2>2, <3>1, <3>2, <3>3
    <2> QED BY <2>1, <2>3 DEF Stream!Init
  <1>2. Inv /\ [Next]_vars => [Stream!Next]_(Stream!vars)
    BY StepsImplement
  <1> QED BY <1>1, <1>2, InvHolds, PTL DEF Spec, ImplementsStream, Stream!Spec
=============================================================================
