---------------------------- MODULE Clocks_proofs ---------------------------
(***************************************************************************)
(* Theorems about Clocks, for every number of machines, every time scale,  *)
(* every bound on time and every program's image that the kernel can make. *)
(*                                                                         *)
(* The first part is about remove_vdso, the second about the truncations,  *)
(* the third has the invariant.                                            *)
(***************************************************************************)
EXTENDS Clocks, FiniteSetTheorems, SequenceTheorems, WellFoundedInduction, TLAPS

\* What the words of the stack are, by their places.
Base(image) == image.args + image.env + 3
IsLayout(image, s) ==
  /\ s \in Seq(Nat) /\ Len(s) = Base(image) + 2 * Len(image.aux) + 2
  /\ s[1] = image.args
  /\ \A i \in 2..(image.args + 1) : s[i] = Pointer
  /\ s[image.args + 2] = 0
  /\ \A i \in (image.args + 3)..(Base(image) - 1) : s[i] = Pointer
  /\ s[Base(image)] = 0
  /\ \A i \in (Base(image) + 1)..(Base(image) + 2 * Len(image.aux)) :
       s[i] = Words(image.aux)[i - Base(image)]
  /\ s[Base(image) + 2 * Len(image.aux) + 1] = 0
  /\ s[Base(image) + 2 * Len(image.aux) + 2] = 0

\* Elements of a concatenation.
Joined(u, s, t) ==
  /\ u \in Seq(Nat) /\ Len(u) = Len(s) + Len(t)
  /\ \A i \in 1..Len(s) : u[i] = s[i]
  /\ \A i \in (Len(s) + 1)..(Len(s) + Len(t)) : u[i] = t[i - Len(s)]

LEMMA ConcatAt ==
  ASSUME NEW s \in Seq(Nat), NEW t \in Seq(Nat)
  PROVE  Joined(s \o t, s, t)
BY DEF Joined

LEMMA WordsType ==
  ASSUME NEW aux \in Seq(Nat \X Nat)
  PROVE  /\ Words(aux) \in Seq(Nat) /\ Len(Words(aux)) = 2 * Len(aux)
         /\ \A i \in 1..Len(aux) :
              Words(aux)[2 * i - 1] = aux[i][1] /\ Words(aux)[2 * i] = aux[i][2]
<1> DEFINE n == Len(aux)
<1>1. n \in Nat /\ DOMAIN aux = 1..n
  OBVIOUS
<1>2. \A i \in 1..n : aux[i] \in Nat \X Nat
  OBVIOUS
<1> HIDE DEF n
<1>3. \A i \in 1..(2 * n) : (i + 1) \div 2 \in 1..n /\ 2 - (i % 2) \in {1, 2}
  BY <1>1
<1>4. \A i \in 1..(2 * n) : aux[(i + 1) \div 2][2 - (i % 2)] \in Nat
  BY <1>2, <1>3
<1>5. Words(aux) = [i \in 1..(2 * n) |-> aux[(i + 1) \div 2][2 - (i % 2)]]
  BY DEF Words, n
<1>6. 2 * n \in Nat
  BY <1>1
<1>7. Words(aux) \in [1..(2 * n) -> Nat]
  BY <1>4, <1>5
<1>8. Words(aux) \in Seq(Nat) /\ Len(Words(aux)) = 2 * n
  <2> DEFINE m == 2 * n
             W == Words(aux)
  <2>1. m \in Nat /\ W \in [1..m -> Nat]
    BY <1>6, <1>7
  <2> HIDE DEF m, W
  <2>2. W \in Seq(Nat) /\ Len(W) = m
    BY <2>1
  <2>3. QED
    BY <2>2 DEF m, W
<1>9. ASSUME NEW i \in 1..n
      PROVE  Words(aux)[2 * i - 1] = aux[i][1] /\ Words(aux)[2 * i] = aux[i][2]
  <2>1. /\ 2 * i - 1 \in 1..(2 * n) /\ (2 * i - 1 + 1) \div 2 = i /\ 2 - ((2 * i - 1) % 2) = 1
        /\ 2 * i \in 1..(2 * n) /\ (2 * i + 1) \div 2 = i /\ 2 - ((2 * i) % 2) = 2
    BY <1>1
  <2>2. QED
    BY <1>5, <2>1
<1>10. QED
  BY <1>8, <1>9 DEF n

LEMMA PointersType ==
  ASSUME NEW n \in Nat
  PROVE  /\ [i \in 1..n |-> Pointer] \in Seq(Nat) /\ Len([i \in 1..n |-> Pointer]) = n
         /\ \A j \in 1..n : [i \in 1..n |-> Pointer][j] = Pointer
<1> DEFINE f == [i \in 1..n |-> Pointer]
<1>1. f \in [1..n -> Nat] /\ \A j \in 1..n : f[j] = Pointer
  BY DEF Pointer
<1> HIDE DEF f
<1>2. f \in Seq(Nat) /\ Len(f) = n
  BY <1>1
<1>3. QED
  BY <1>1, <1>2 DEF f

\* The kernel's layout, piece by piece.
ImageType == [args : Nat, env : Nat, aux : Seq(Nat \X Nat)]

LEMMA LayoutAt ==
  ASSUME NEW image \in ImageType
  PROVE  IsLayout(image, Layout(image))
<1> DEFINE A == image.args
           E == image.env
           m == 2 * Len(image.aux)
           p == [i \in 1..A |-> Pointer]
           q == [i \in 1..E |-> Pointer]
           w == Words(image.aux)
           s1 == <<A>> \o p
           s2 == s1 \o <<0>>
           s3 == s2 \o q
           s4 == s3 \o <<0>>
           s5 == s4 \o w
           s6 == s5 \o <<AT_NULL, 0>>
<1>1. A \in Nat /\ E \in Nat /\ m \in Nat /\ image.aux \in Seq(Nat \X Nat)
  BY DEF ImageType
<1>2. w \in Seq(Nat) /\ Len(w) = m
  BY <1>1, WordsType
<1>3. Layout(image) = s6
  BY DEF Layout
<1>4. /\ p \in Seq(Nat) /\ Len(p) = A /\ \A i \in 1..A : p[i] = Pointer
      /\ q \in Seq(Nat) /\ Len(q) = E /\ \A i \in 1..E : q[i] = Pointer
  BY <1>1, PointersType
<1>5. /\ <<A>> \in Seq(Nat) /\ Len(<<A>>) = 1 /\ <<A>>[1] = A
      /\ <<0>> \in Seq(Nat) /\ Len(<<0>>) = 1 /\ <<0>>[1] = 0
      /\ <<AT_NULL, 0>> \in Seq(Nat) /\ Len(<<AT_NULL, 0>>) = 2
      /\ <<AT_NULL, 0>>[1] = 0 /\ <<AT_NULL, 0>>[2] = 0
  BY <1>1 DEF AT_NULL
<1> DEFINE a == <<A>>
           z == <<0>>
           y == <<AT_NULL, 0>>
<1> HIDE DEF A, E, m, p, q, w, a, z, y
<1>6. /\ s1 \in Seq(Nat) /\ Len(s1) = A + 1 /\ s1[1] = A
      /\ \A i \in 2..(A + 1) : s1[i] = Pointer
  <2> DEFINE t == a \o p
  <2>1. /\ t \in Seq(Nat) /\ Len(t) = 1 + A
        /\ \A i \in 1..1 : t[i] = a[i]
        /\ \A i \in (1 + 1)..(1 + A) : t[i] = p[i - 1]
    <3>1. a \in Seq(Nat) /\ Len(a) = 1
      BY <1>5 DEF a
    <3>2. Joined(t, a, p)
      BY <1>4, <3>1, ConcatAt
    <3> HIDE DEF t
    <3>3. QED
      BY <1>1, <1>4, <3>1, <3>2 DEF Joined
  <2>2. s1 = t
    BY DEF a
  <2> HIDE DEF t, s1
  <2>3. QED
    BY <1>1, <1>4, <1>5, <2>1, <2>2 DEF a
<1> HIDE DEF s1
<1>7. /\ s2 \in Seq(Nat) /\ Len(s2) = A + 2 /\ s2[A + 2] = 0
      /\ \A i \in 1..(A + 1) : s2[i] = s1[i]
  <2> DEFINE t == s1 \o z
  <2>1. /\ t \in Seq(Nat) /\ Len(t) = A + 1 + 1
        /\ \A i \in 1..(A + 1) : t[i] = s1[i]
        /\ \A i \in (A + 1 + 1)..(A + 1 + 1) : t[i] = z[i - (A + 1)]
    <3>1. z \in Seq(Nat) /\ Len(z) = 1
      BY <1>5 DEF z
    <3>2. Joined(t, s1, z)
      BY <1>6, <3>1, ConcatAt
    <3> HIDE DEF t
    <3>3. QED
      BY <1>1, <1>6, <3>1, <3>2 DEF Joined
  <2>2. s2 = t
    BY DEF z
  <2> HIDE DEF t, s2
  <2>3. QED
    BY <1>1, <1>5, <2>1, <2>2 DEF z
<1> HIDE DEF s2
<1>8. /\ s3 \in Seq(Nat) /\ Len(s3) = A + E + 2
      /\ \A i \in 1..(A + 2) : s3[i] = s2[i]
      /\ \A i \in (A + 3)..(A + E + 2) : s3[i] = Pointer
  <2>1. /\ s3 \in Seq(Nat) /\ Len(s3) = A + 2 + E
        /\ \A i \in 1..(A + 2) : s3[i] = s2[i]
        /\ \A i \in (A + 2 + 1)..(A + 2 + E) : s3[i] = q[i - (A + 2)]
    <3>1. Joined(s3, s2, q)
      BY <1>4, <1>7, ConcatAt
    <3> HIDE DEF s3
    <3>2. QED
      BY <1>1, <1>4, <1>7, <3>1 DEF Joined
  <2> HIDE DEF s3
  <2>2. QED
    BY <1>1, <1>4, <2>1
<1> HIDE DEF s3
<1>9. /\ s4 \in Seq(Nat) /\ Len(s4) = A + E + 3 /\ s4[A + E + 3] = 0
      /\ \A i \in 1..(A + E + 2) : s4[i] = s3[i]
  <2> DEFINE t == s3 \o z
  <2>1. /\ t \in Seq(Nat) /\ Len(t) = A + E + 2 + 1
        /\ \A i \in 1..(A + E + 2) : t[i] = s3[i]
        /\ \A i \in (A + E + 2 + 1)..(A + E + 2 + 1) : t[i] = z[i - (A + E + 2)]
    <3>1. z \in Seq(Nat) /\ Len(z) = 1
      BY <1>5 DEF z
    <3>2. Joined(t, s3, z)
      BY <1>8, <3>1, ConcatAt
    <3> HIDE DEF t
    <3>3. QED
      BY <1>1, <1>8, <3>1, <3>2 DEF Joined
  <2>2. s4 = t
    BY DEF z
  <2> HIDE DEF t, s4
  <2>3. QED
    BY <1>1, <1>5, <2>1, <2>2 DEF z
<1> HIDE DEF s4
<1>10. /\ s5 \in Seq(Nat) /\ Len(s5) = A + E + 3 + m
       /\ \A i \in 1..(A + E + 3) : s5[i] = s4[i]
       /\ \A i \in (A + E + 3 + 1)..(A + E + 3 + m) : s5[i] = w[i - (A + E + 3)]
  <2>1. Joined(s5, s4, w)
    BY <1>2, <1>9, ConcatAt
  <2> HIDE DEF s5
  <2>2. QED
    BY <1>1, <1>2, <1>9, <2>1 DEF Joined
<1> HIDE DEF s5
<1>11. /\ s6 \in Seq(Nat) /\ Len(s6) = A + E + 3 + m + 2
       /\ \A i \in 1..(A + E + 3 + m) : s6[i] = s5[i]
       /\ s6[A + E + 3 + m + 1] = 0 /\ s6[A + E + 3 + m + 2] = 0
  <2> DEFINE t == s5 \o y
  <2>1. /\ t \in Seq(Nat) /\ Len(t) = A + E + 3 + m + 2
        /\ \A i \in 1..(A + E + 3 + m) : t[i] = s5[i]
        /\ \A i \in (A + E + 3 + m + 1)..(A + E + 3 + m + 2) : t[i] = y[i - (A + E + 3 + m)]
    <3>1. y \in Seq(Nat) /\ Len(y) = 2
      BY <1>5 DEF y
    <3>2. Joined(t, s5, y)
      BY <1>10, <3>1, ConcatAt
    <3> HIDE DEF t
    <3>3. QED
      BY <1>1, <1>10, <3>1, <3>2 DEF Joined
  <2>2. s6 = t
    BY DEF y
  <2> HIDE DEF t, s6
  <2>3. QED
    BY <1>1, <1>5, <2>1, <2>2 DEF y
<1> HIDE DEF s6
<1> DEFINE b == A + E + 3
<1>12. b \in Nat /\ b = A + E + 3
  BY <1>1
<1> HIDE DEF b
<1>13. s6[1] = A /\ \A i \in 2..(A + 1) : s6[i] = Pointer
  <2>1. \A i \in 1..(A + 1) :
          i \in 1..(A + 2) /\ i \in 1..(A + E + 2) /\ i \in 1..(A + E + 3) /\ i \in 1..(A + E + 3 + m)
    BY <1>1
  <2>2. \A i \in 1..(A + 1) : s6[i] = s1[i]
    BY <1>7, <1>8, <1>9, <1>10, <1>11, <2>1
  <2>3. 1 \in 1..(A + 1) /\ \A i \in 2..(A + 1) : i \in 1..(A + 1)
    BY <1>1
  <2>4. QED
    BY <1>6, <2>2, <2>3
<1>14. s6[A + 2] = 0 /\ \A i \in (A + 3)..(A + E + 3 - 1) : s6[i] = Pointer
  BY <1>1, <1>7, <1>8, <1>9, <1>10, <1>11
<1>15. /\ s6[b] = 0 /\ s6[b + m + 1] = 0 /\ s6[b + m + 2] = 0
       /\ \A i \in (b + 1)..(b + m) : s6[i] = w[i - b]
  <2>1. /\ s4[b] = 0 /\ \A i \in 1..b : s5[i] = s4[i]
        /\ \A i \in (b + 1)..(b + m) : s5[i] = w[i - b]
        /\ \A i \in 1..(b + m) : s6[i] = s5[i]
        /\ s6[b + m + 1] = 0 /\ s6[b + m + 2] = 0
    BY <1>9, <1>10, <1>11, <1>12
  <2>2. b \in 1..b /\ b \in 1..(b + m) /\ \A i \in (b + 1)..(b + m) : i \in 1..(b + m)
    BY <1>1, <1>12
  <2>3. QED
    BY <2>1, <2>2
<1>16. b = Base(image)
  BY <1>12 DEF Base, A, E
<1>17. QED
  <2>1. Len(s6) = b + m + 2 /\ \A i \in (A + 3)..(b - 1) : s6[i] = Pointer
    BY <1>1, <1>11, <1>12, <1>14
  <2>2. QED
    <3> HIDE DEF b
    <3>1. IsLayout(image, s6)
      <4>1. /\ A = image.args /\ m = 2 * Len(image.aux) /\ w = Words(image.aux)
            /\ Base(image) = b
        BY <1>16 DEF A, m, w
      <4>2. QED
        BY <1>11, <1>13, <1>14, <1>15, <2>1, <4>1 DEF IsLayout
    <3>2. QED
      BY <1>3, <3>1

\* The second null is the one above the environment.
LEMMA SecondNullAt ==
  ASSUME NEW image \in ImageType, NEW s, IsLayout(image, s)
  PROVE  SecondNull(s) = Base(image)
<1> DEFINE A == image.args
           b == Base(image)
           S == Nulls(s)
           Below(i) == {j \in S : j < i}
<1>1. A \in Nat /\ b \in Nat /\ A + 2 < b
  BY DEF ImageType, Base
<1>2. s \in Seq(Nat) /\ DOMAIN s = 1..Len(s) /\ b < Len(s) /\ Len(s) \in Nat
  BY <1>1 DEF IsLayout, ImageType
<1>3. S \subseteq 1..Len(s) /\ IsFiniteSet(S)
  <2>1. IsFiniteSet(1..Len(s))
    BY <1>2, FS_Interval
  <2>2. S \subseteq 1..Len(s)
    BY <1>2 DEF Nulls
  <2>3. QED
    BY <2>1, <2>2, FS_Subset
<1>11. /\ s[A + 2] = 0 /\ s[b] = 0
       /\ \A i \in 2..(A + 1) : s[i] = Pointer
       /\ \A i \in (A + 3)..(b - 1) : s[i] = Pointer
  BY DEF IsLayout
<1>12. S = {i \in DOMAIN s : i > 1 /\ s[i] = 0}
  BY DEF Nulls, AT_NULL
<1> HIDE DEF S, A, b
<1>4. A + 2 \in S /\ b \in S
  <2>1. A + 2 \in DOMAIN s /\ A + 2 > 1 /\ b \in DOMAIN s /\ b > 1
    BY <1>1, <1>2
  <2>2. QED
    BY <1>11, <1>12, <2>1
<1>5. \A i \in S : i < b => i = A + 2
  <2> SUFFICES ASSUME NEW i \in S, i < b, i # A + 2 PROVE FALSE
    OBVIOUS
  <2>1. i \in 1..Len(s) /\ i > 1 /\ s[i] = 0
    BY <1>2, <1>12
  <2>2. i \in 2..(A + 1) \/ i \in (A + 3)..(b - 1)
    BY <1>1, <1>2, <2>1
  <2>3. s[i] = Pointer
    BY <1>11, <2>2
  <2>4. QED
    BY <2>1, <2>3 DEF Pointer
<1>6. Below(b) = {A + 2}
  BY <1>1, <1>4, <1>5
<1>7. Cardinality(Below(b)) = 1
  BY <1>6, FS_Singleton
<1>8. ASSUME NEW i \in S, Cardinality(Below(i)) = 1 PROVE i = b
  <2>1. IsFiniteSet(Below(i))
    BY <1>3, FS_Subset
  <2>2. PICK x : Below(i) = {x}
    BY <1>8, <2>1, FS_Singleton
  <2>3. i \in Int
    BY <1>3
  <2>4. ~(i < b)
    <3>1. ASSUME i < b PROVE FALSE
      <4>1. i = A + 2
        BY <1>5, <3>1
      <4>2. \A j \in S : j < i => FALSE
        BY <1>1, <1>3, <1>5, <4>1
      <4>3. QED
        BY <2>2, <4>2
    <3>2. QED
      BY <3>1
  <2>5. ~(i > b)
    <3>1. ASSUME i > b PROVE FALSE
      <4>1. A + 2 \in Below(i) /\ b \in Below(i)
        BY <1>1, <1>4, <2>3, <3>1
      <4>2. QED
        BY <1>1, <2>2, <4>1
    <3>2. QED
      BY <3>1
  <2>6. QED
    BY <1>1, <2>3, <2>4, <2>5
<1>9. b = CHOOSE i \in S : Cardinality(Below(i)) = 1
  BY <1>4, <1>7, <1>8
<1>10. QED
  BY <1>9 DEF SecondNull, S, b

\* A set of numbers has a least one.
LEMMA LeastExists ==
  ASSUME NEW T \in SUBSET Nat, T # {}
  PROVE  \E i \in T : \A j \in T : i <= j
<1>1. PICK x \in T : \A y \in T : ~(<<y, x>> \in OpToRel(<, Nat))
  BY NatLessThanWellFounded, WFMin
<1>2. ASSUME NEW y \in T PROVE x <= y
  <2>1. x \in Nat /\ y \in Nat
    OBVIOUS
  <2>2. ~(y < x)
    BY <1>1, <2>1 DEF OpToRel
  <2>3. QED
    BY <2>1, <2>2
<1>3. QED
  BY <1>2

\* The scan ends at the vDSO's key if there is one, and else at a null.
VdsoFirst(image) == Len(image.aux) > 0 /\ image.aux[1][1] = AT_SYSINFO_EHDR
Ends(image, s) == {i \in DOMAIN s : i > Base(image) /\ s[i] \in {AT_NULL, AT_SYSINFO_EHDR}}
LEMMA ScanEndAt ==
  ASSUME NEW image, KernelImage(image), NEW s, IsLayout(image, s)
  PROVE  /\ ScanEnd(s) \in DOMAIN s
         /\ VdsoFirst(image) => ScanEnd(s) = Base(image) + 1 /\ s[ScanEnd(s)] = AT_SYSINFO_EHDR
         /\ ~VdsoFirst(image) => s[ScanEnd(s)] = AT_NULL
<1> DEFINE b == Base(image)
           n == Len(image.aux)
           T == Ends(image, s)
           k == ScanEnd(s)
<1>1. image \in ImageType /\ image.aux \in Seq(Nat \X Nat) /\ n \in Nat /\ b \in Nat /\ b > 0
  BY DEF KernelImage, ImageType, Base
<1>2. s \in Seq(Nat) /\ Len(s) = b + 2 * n + 2 /\ DOMAIN s = 1..Len(s)
  BY DEF IsLayout
<1>11. /\ s[b + 2 * n + 1] = 0 /\ s[b + 2 * n + 2] = 0
       /\ \A i \in (b + 1)..(b + 2 * n) : s[i] = Words(image.aux)[i - b]
  BY DEF IsLayout
<1>12. T = {i \in DOMAIN s : i > b /\ s[i] \in {0, AT_SYSINFO_EHDR}}
  BY DEF Ends, AT_NULL
<1>13. /\ VdsoFirst(image) <=> n > 0 /\ image.aux[1][1] = AT_SYSINFO_EHDR
       /\ \A i \in 1..n :
            /\ image.aux[i][1] = AT_SYSINFO_EHDR => i = 1
            /\ image.aux[i][2] = AT_SYSINFO_EHDR /\ image.aux[1][1] # AT_SYSINFO_EHDR =>
                 \E j \in 1..(i - 1) : image.aux[j][2] = 0
  <2>1. DOMAIN image.aux = 1..n
    BY <1>1
  <2>2. QED
    BY <2>1 DEF KernelImage, VdsoFirst, AT_NULL
<1>14. \A i \in 1..n :
         Words(image.aux)[2 * i - 1] = image.aux[i][1] /\ Words(image.aux)[2 * i] = image.aux[i][2]
  BY <1>1, WordsType
<1>15. b = Base(image) /\ T = Ends(image, s)
  OBVIOUS
<1> HIDE DEF b, n, T
<1>3. T \in SUBSET Nat /\ b + 2 * n + 1 \in T
  <2>1. b + 2 * n + 1 \in DOMAIN s /\ b + 2 * n + 1 > b /\ DOMAIN s \subseteq Nat
    BY <1>1, <1>2
  <2>2. QED
    BY <1>11, <1>12, <2>1
<1>4. k = CHOOSE i \in T : \A j \in T : i <= j
  BY <1>1, <1>15, SecondNullAt DEF ScanEnd, Ends
<1> HIDE DEF k
<1>5. k \in T /\ \A j \in T : k <= j
  <2>1. \E i \in T : \A j \in T : i <= j
    BY <1>3, LeastExists
  <2>2. QED
    BY <1>4, <2>1
<1>6. k \in DOMAIN s /\ k > b /\ s[k] \in {AT_NULL, AT_SYSINFO_EHDR} /\ k \in Nat
  BY <1>2, <1>5, <1>12 DEF AT_NULL
<1>7. \A i \in 1..n : s[b + (2 * i - 1)] = image.aux[i][1] /\ s[b + 2 * i] = image.aux[i][2]
  <2> SUFFICES ASSUME NEW i \in 1..n
               PROVE  s[b + (2 * i - 1)] = image.aux[i][1] /\ s[b + 2 * i] = image.aux[i][2]
    OBVIOUS
  <2>1. /\ b + (2 * i - 1) \in (b + 1)..(b + 2 * n) /\ b + (2 * i - 1) - b = 2 * i - 1
        /\ b + 2 * i \in (b + 1)..(b + 2 * n) /\ b + 2 * i - b = 2 * i
    BY <1>1
  <2>2. /\ s[b + (2 * i - 1)] = Words(image.aux)[2 * i - 1]
        /\ s[b + 2 * i] = Words(image.aux)[2 * i]
    <3> DEFINE x == b + (2 * i - 1)
               y == b + 2 * i
    <3>1. x \in (b + 1)..(b + 2 * n) /\ x - b = 2 * i - 1 /\ y \in (b + 1)..(b + 2 * n) /\ y - b = 2 * i
      BY <1>1, <2>1
    <3> HIDE DEF x, y
    <3>2. s[x] = Words(image.aux)[x - b] /\ s[y] = Words(image.aux)[y - b]
      BY <1>11, <3>1
    <3>3. QED
      BY <3>1, <3>2 DEF x, y
  <2>3. QED
    BY <1>14, <2>2
<1>8. ASSUME VdsoFirst(image) PROVE k = b + 1 /\ s[k] = AT_SYSINFO_EHDR
  <2>1. n > 0 /\ 1 \in 1..n /\ image.aux[1][1] = AT_SYSINFO_EHDR
    BY <1>1, <1>8, <1>13
  <2>2. s[b + 1] = AT_SYSINFO_EHDR
    BY <1>1, <1>7, <2>1
  <2>3. b + 1 \in T
    <3>1. b + 1 \in DOMAIN s /\ b + 1 > b
      BY <1>1, <1>2, <2>1
    <3>2. QED
      BY <1>12, <2>2, <3>1
  <2>4. k = b + 1
    BY <1>1, <1>5, <1>6, <2>3
  <2>5. QED
    BY <2>2, <2>4
<1>9. ASSUME ~VdsoFirst(image), s[k] = AT_SYSINFO_EHDR PROVE FALSE
  <2>1. k \in (b + 1)..(b + 2 * n)
    <3>2. k # b + 2 * n + 1 /\ k # b + 2 * n + 2
      BY <1>9, <1>11 DEF AT_SYSINFO_EHDR
    <3>1. k \in 1..(b + 2 * n + 2) /\ k > b
      BY <1>2, <1>6
    <3>3. QED
      BY <1>1, <3>1, <3>2
  <2>2. PICK i \in 1..n : k = b + (2 * i - 1) \/ k = b + 2 * i
    <3> DEFINE x == k - b + 1
               h == x \div 2
    <3>1. x \in Nat /\ x >= 2 /\ x <= 2 * n + 1 /\ k = b + x - 1
      BY <1>1, <1>6, <2>1
    <3> HIDE DEF x
    <3>2. h \in Int /\ (x = 2 * h \/ x = 2 * h + 1)
      BY <3>1
    <3> HIDE DEF h
    <3>3. h \in 1..n /\ (k = b + (2 * h - 1) \/ k = b + 2 * h)
      BY <1>1, <1>6, <3>1, <3>2
    <3>4. QED
      BY <3>3
  <2>3. CASE k = b + (2 * i - 1)
    <3>1. image.aux[i][1] = AT_SYSINFO_EHDR
      BY <1>7, <1>9, <2>3
    <3>2. i = 1
      BY <1>13, <3>1
    <3>3. QED
      BY <1>1, <1>9, <1>13, <3>1, <3>2
  <2>4. CASE k = b + 2 * i
    <3>1. image.aux[i][2] = AT_SYSINFO_EHDR
      BY <1>7, <1>9, <2>4
    <3>2. image.aux[1][1] # AT_SYSINFO_EHDR
      BY <1>1, <1>9, <1>13, <2>1
    <3>3. PICK j \in 1..(i - 1) : image.aux[j][2] = 0
      BY <1>13, <3>1, <3>2
    <3>4. j \in 1..n /\ b + 2 * j < k
      BY <1>1, <2>4
    <3>5. s[b + 2 * j] = 0
      BY <1>7, <3>3, <3>4
    <3>6. b + 2 * j \in T
      <4>1. b + 2 * j \in DOMAIN s /\ b + 2 * j > b
        BY <1>1, <1>2, <3>4
      <4>2. QED
        BY <1>12, <3>5, <4>1
    <3>7. k <= b + 2 * j
      BY <1>5, <3>6
    <3>8. QED
      BY <1>1, <1>6, <3>4, <3>7
  <2>5. QED
    BY <2>2, <2>3, <2>4
<1>10. QED
  BY <1>6, <1>8, <1>9 DEF b, k

\* What the stack should be: that of the image with its keys replaced.
Replaced(aux) ==
  [i \in DOMAIN aux |-> <<IF aux[i][1] = AT_SYSINFO_EHDR THEN AT_IGNORE ELSE aux[i][1], aux[i][2]>>]
Cleared(image) == [image EXCEPT !.aux = Replaced(image.aux)]

LEMMA ReplacedType ==
  ASSUME NEW aux \in Seq(Nat \X Nat)
  PROVE  /\ Replaced(aux) \in Seq(Nat \X Nat) /\ Len(Replaced(aux)) = Len(aux)
         /\ \A i \in 1..Len(aux) :
              /\ Replaced(aux)[i][1] # AT_SYSINFO_EHDR
              /\ aux[i][1] # AT_SYSINFO_EHDR => Replaced(aux)[i] = aux[i]
              /\ aux[i][1] = AT_SYSINFO_EHDR => Replaced(aux)[i] = <<AT_IGNORE, aux[i][2]>>
<1> DEFINE n == Len(aux)
           f == Replaced(aux)
<1>1. n \in Nat /\ DOMAIN aux = 1..n
  OBVIOUS
<1>2. \A i \in 1..n : aux[i] \in Nat \X Nat /\ aux[i] = <<aux[i][1], aux[i][2]>>
                      /\ aux[i][1] \in Nat /\ aux[i][2] \in Nat
  OBVIOUS
<1>3. f = [i \in 1..n |-> <<IF aux[i][1] = AT_SYSINFO_EHDR THEN AT_IGNORE ELSE aux[i][1], aux[i][2]>>]
  BY <1>1 DEF Replaced
<1> HIDE DEF f, n
<1>4. \A i \in 1..n :
        /\ f[i] \in Nat \X Nat
        /\ f[i][1] # AT_SYSINFO_EHDR
        /\ aux[i][1] # AT_SYSINFO_EHDR => f[i] = aux[i]
        /\ aux[i][1] = AT_SYSINFO_EHDR => f[i] = <<AT_IGNORE, aux[i][2]>>
  <2> SUFFICES ASSUME NEW i \in 1..n
               PROVE  /\ f[i] \in Nat \X Nat
                      /\ f[i][1] # AT_SYSINFO_EHDR
                      /\ aux[i][1] # AT_SYSINFO_EHDR => f[i] = aux[i]
                      /\ aux[i][1] = AT_SYSINFO_EHDR => f[i] = <<AT_IGNORE, aux[i][2]>>
    OBVIOUS
  <2>1. f[i] = <<IF aux[i][1] = AT_SYSINFO_EHDR THEN AT_IGNORE ELSE aux[i][1], aux[i][2]>>
    BY <1>3
  <2>2. CASE aux[i][1] = AT_SYSINFO_EHDR
    BY <1>2, <2>1, <2>2 DEF AT_IGNORE, AT_SYSINFO_EHDR
  <2>3. CASE aux[i][1] # AT_SYSINFO_EHDR
    BY <1>2, <2>1, <2>3
  <2>4. QED
    BY <2>2, <2>3
<1>5. f \in [1..n -> Nat \X Nat]
  BY <1>3, <1>4
<1>6. f \in Seq(Nat \X Nat) /\ Len(f) = n
  BY <1>1, <1>5
<1>7. QED
  BY <1>4, <1>6 DEF f, n

\* remove_vdso makes the one stack of the other.
LEMMA RemovedAs ==
  ASSUME NEW image, KernelImage(image)
  PROVE  RemoveVdso(Layout(image)) = Layout(Cleared(image))
<1> DEFINE aux == image.aux
           new == Cleared(image)
           n == Len(aux)
           b == Base(image)
           s == Layout(image)
           t == Layout(new)
<1>1. image \in ImageType /\ aux \in Seq(Nat \X Nat) /\ n \in Nat /\ b \in Nat /\ b > 0
      /\ DOMAIN aux = 1..n
  BY DEF KernelImage, ImageType, Base
<1>2. /\ Replaced(aux) \in Seq(Nat \X Nat) /\ Len(Replaced(aux)) = n
      /\ \A i \in 1..n :
           /\ Replaced(aux)[i][1] # AT_SYSINFO_EHDR
           /\ aux[i][1] # AT_SYSINFO_EHDR => Replaced(aux)[i] = aux[i]
           /\ aux[i][1] = AT_SYSINFO_EHDR => Replaced(aux)[i] = <<AT_IGNORE, aux[i][2]>>
  BY <1>1, ReplacedType
<1>3. /\ new \in ImageType /\ new.args = image.args /\ new.env = image.env
      /\ new.aux = Replaced(aux) /\ Base(new) = b
  BY <1>1, <1>2 DEF Cleared, ImageType, Base
<1>4. IsLayout(image, s) /\ IsLayout(new, t)
  BY <1>1, <1>3, LayoutAt
<1>5. /\ ScanEnd(s) \in DOMAIN s
      /\ VdsoFirst(image) => ScanEnd(s) = b + 1 /\ s[ScanEnd(s)] = AT_SYSINFO_EHDR
      /\ ~VdsoFirst(image) => s[ScanEnd(s)] = AT_NULL
  BY <1>4, ScanEndAt
<1>6. /\ s \in Seq(Nat) /\ t \in Seq(Nat) /\ Len(s) = b + 2 * n + 2 /\ Len(t) = b + 2 * n + 2
      /\ DOMAIN s = 1..Len(s) /\ DOMAIN t = 1..Len(t)
  <2>1. /\ s \in Seq(Nat) /\ Len(s) = Base(image) + 2 * Len(aux) + 2
        /\ t \in Seq(Nat) /\ Len(t) = Base(new) + 2 * Len(new.aux) + 2
    BY <1>4 DEF IsLayout
  <2>2. Base(new) = b /\ Len(new.aux) = n
    BY <1>2, <1>3
  <2> HIDE DEF s, t, new
  <2>3. DOMAIN s = 1..Len(s) /\ DOMAIN t = 1..Len(t)
    BY <2>1
  <2>4. QED
    BY <2>1, <2>2, <2>3
<1>7. CASE ~VdsoFirst(image)
  <2>1. \A i \in 1..n : aux[i][1] # AT_SYSINFO_EHDR
    BY <1>1, <1>7 DEF KernelImage, VdsoFirst
  <2>2. \A i \in 1..n : Replaced(aux)[i] = aux[i]
    BY <1>2, <2>1
  <2>3. Replaced(aux) = aux
    BY <1>1, <1>2, <2>2, SeqEqual
  <2>4. new = image
    BY <1>1, <2>3 DEF Cleared, ImageType
  <2>5. RemoveVdso(s) = s
    <3>1. s[ScanEnd(s)] # AT_SYSINFO_EHDR
      BY <1>5, <1>7 DEF AT_NULL, AT_SYSINFO_EHDR
    <3>2. RemoveVdso(s) = [s EXCEPT ![ScanEnd(s)] = s[ScanEnd(s)]]
      BY <3>1 DEF RemoveVdso
    <3>3. QED
      BY <1>5, <1>6, <3>2
  <2>6. QED
    BY <2>4, <2>5
<1>8. CASE VdsoFirst(image)
  <2> DEFINE W == Words(aux)
             V == Words(new.aux)
             m == 2 * n
  <2>1. /\ n > 0 /\ aux[1][1] = AT_SYSINFO_EHDR
        /\ \A i \in 1..n : i # 1 => aux[i][1] # AT_SYSINFO_EHDR
    BY <1>1, <1>8 DEF KernelImage, VdsoFirst
  <2>2. /\ new.aux[1] = <<AT_IGNORE, aux[1][2]>>
        /\ \A i \in 1..n : i # 1 => new.aux[i] = aux[i]
    BY <1>1, <1>2, <1>3, <2>1
  <2>3. /\ W = [i \in 1..(2 * n) |-> aux[(i + 1) \div 2][2 - (i % 2)]]
        /\ V = [i \in 1..(2 * n) |-> new.aux[(i + 1) \div 2][2 - (i % 2)]]
    BY <1>2, <1>3 DEF Words
  <2>4. V[1] = AT_IGNORE
    <3>1. 1 \in 1..(2 * n) /\ (1 + 1) \div 2 = 1 /\ 2 - (1 % 2) = 1
      BY <1>1, <2>1
    <3>2. V[1] = new.aux[1][1]
      BY <2>3, <3>1
    <3>3. QED
      BY <2>2, <3>2
  <2>5. \A i \in 2..(2 * n) : V[i] = W[i]
    <3> SUFFICES ASSUME NEW i \in 2..(2 * n) PROVE V[i] = W[i]
      OBVIOUS
    <3> DEFINE h == (i + 1) \div 2
               c == 2 - (i % 2)
    <3>1. i \in 1..(2 * n) /\ h \in 1..n /\ (h = 1 => c = 2)
      BY <1>1
    <3>2. V[i] = new.aux[h][c] /\ W[i] = aux[h][c]
      BY <2>3, <3>1
    <3> HIDE DEF h, c
    <3>3. CASE h = 1
      BY <2>2, <3>1, <3>2, <3>3
    <3>4. CASE h # 1
      BY <2>2, <3>1, <3>2, <3>4
    <3>5. QED
      BY <3>3, <3>4
  <2>6. /\ \A i \in 1..b : t[i] = s[i]
        /\ \A i \in (b + 1)..(b + m) : t[i] = V[i - b] /\ s[i] = W[i - b]
        /\ t[b + m + 1] = s[b + m + 1] /\ t[b + m + 2] = s[b + m + 2]
    <3> DEFINE A == image.args
    <3>1. A \in Nat /\ A + 2 < b
      BY <1>1 DEF ImageType, Base
    <3>2. /\ t[1] = A /\ s[1] = A /\ t[A + 2] = 0 /\ s[A + 2] = 0 /\ t[b] = 0 /\ s[b] = 0
          /\ \A i \in 2..(A + 1) : t[i] = Pointer /\ s[i] = Pointer
          /\ \A i \in (A + 3)..(b - 1) : t[i] = Pointer /\ s[i] = Pointer
      BY <1>3, <1>4 DEF IsLayout
    <3>3. /\ \A i \in (b + 1)..(b + m) : t[i] = V[i - b] /\ s[i] = W[i - b]
          /\ t[b + m + 1] = s[b + m + 1] /\ t[b + m + 2] = s[b + m + 2]
      BY <1>2, <1>3, <1>4 DEF IsLayout
    <3> HIDE DEF A, b, s, t, V, W, m
    <3>4. \A i \in 1..b : \/ i \in {1, A + 2, b} \/ i \in 2..(A + 1) \/ i \in (A + 3)..(b - 1)
      BY <1>1, <3>1
    <3>5. QED
      BY <3>2, <3>3, <3>4
  <2>7. m \in Nat /\ m >= 2 /\ m = 2 * n
    BY <1>1, <2>1
  <2>8. RemoveVdso(s) = [s EXCEPT ![b + 1] = AT_IGNORE]
    BY <1>5, <1>8 DEF RemoveVdso
  <2> HIDE DEF b, s, t, V, W, m
  <2>9. ASSUME NEW i \in 1..(b + m + 2), i # b + 1 PROVE t[i] = s[i]
    <3>1. CASE i \in 1..b
      BY <2>6, <3>1
    <3>2. CASE i \in (b + 2)..(b + m)
      <4>1. i \in (b + 1)..(b + m) /\ i - b \in 2..m
        BY <1>1, <2>7, <3>2
      <4>2. QED
        BY <2>5, <2>6, <2>7, <4>1
    <3>3. CASE i = b + m + 1 \/ i = b + m + 2
      BY <2>6, <3>3
    <3>4. \/ i \in 1..b \/ i \in (b + 2)..(b + m) \/ i = b + m + 1 \/ i = b + m + 2
      <4>1. b \in Nat /\ i \in Nat /\ i >= 1 /\ i <= b + m + 2 /\ i # b + 1
        BY <1>1, <2>7, <2>9
      <4>2. QED
        BY <2>7, <4>1
    <3>5. QED
      BY <3>1, <3>2, <3>3, <3>4
  <2>10. t[b + 1] = AT_IGNORE
    <3>1. b + 1 \in (b + 1)..(b + m) /\ (b + 1) - b = 1
      BY <1>1, <2>7
    <3>2. QED
      BY <2>4, <2>6, <3>1
  <2>11. t = [s EXCEPT ![b + 1] = AT_IGNORE]
    <3>1. DOMAIN s = 1..(b + m + 2) /\ DOMAIN t = 1..(b + m + 2)
      BY <1>6, <2>7
    <3>2. t = [i \in 1..(b + m + 2) |-> t[i]]
      <4>1. t \in [1..Len(t) -> Nat]
        BY <1>6, LenProperties
      <4>2. QED
        BY <3>1, <4>1
    <3>3. QED
      BY <2>9, <2>10, <3>1, <3>2
  <2>12. QED
    BY <2>8, <2>11 DEF s, t
<1>9. QED
  BY <1>7, <1>8

\* remove_vdso changes the key of the vDSO's entry, and nothing else on the
\* stack, however many arguments and strings of the environment there are.
THEOREM VdsoGone == Spec => []VdsoRemoved
<1>1. VdsoRemoved
  <2> SUFFICES ASSUME NEW image \in Images
               PROVE  RemoveVdso(Layout(image)) = Layout([image EXCEPT !.aux =
                        [i \in DOMAIN @ |-> <<IF @[i][1] = AT_SYSINFO_EHDR THEN AT_IGNORE
                                             ELSE @[i][1], @[i][2]>>]])
    BY DEF VdsoRemoved
  <2>1. RemoveVdso(Layout(image)) = Layout(Cleared(image))
    BY ImageAssumption, RemovedAs
  <2>2. QED
    BY <2>1 DEF Cleared, Replaced
<1>2. QED
  BY <1>1, PTL

\* So no guest reads the kernel's clock.
LEMMA NoVdso == WithVdso = {}
<1> SUFFICES ASSUME NEW r \in Machines, NEW i \in DOMAIN Image[r].aux,
                    RemoveVdso(Layout(Image[r]))[KeyAt(Image[r], i)] = AT_SYSINFO_EHDR
             PROVE  FALSE
  BY DEF WithVdso
<1> DEFINE image == Image[r]
           aux == image.aux
           n == Len(aux)
           b == Base(image)
           new == Cleared(image)
           t == Layout(new)
<1>1. KernelImage(image)
  BY ImageAssumption
<1>2. image \in ImageType /\ aux \in Seq(Nat \X Nat) /\ n \in Nat /\ i \in 1..n /\ b \in Nat
  <2>1. image \in ImageType /\ aux \in Seq(Nat \X Nat) /\ b \in Nat
    BY <1>1 DEF KernelImage, ImageType, Base
  <2>2. DOMAIN aux = 1..n /\ n \in Nat
    BY <2>1
  <2>3. i \in DOMAIN aux
    OBVIOUS
  <2> HIDE DEF aux, n, b
  <2>4. QED
    BY <2>1, <2>2, <2>3
<1>3. t[KeyAt(image, i)] = AT_SYSINFO_EHDR
  BY <1>1, RemovedAs
<1>4. /\ Replaced(aux) \in Seq(Nat \X Nat) /\ Len(Replaced(aux)) = n
      /\ Replaced(aux)[i][1] # AT_SYSINFO_EHDR
  BY <1>2, ReplacedType
<1>5. new \in ImageType /\ new.aux = Replaced(aux) /\ Base(new) = b
  BY <1>2, <1>4 DEF Cleared, ImageType, Base
<1>6. IsLayout(new, t)
  BY <1>5, LayoutAt
<1>7. KeyAt(image, i) \in (b + 1)..(b + 2 * n) /\ KeyAt(image, i) - b = 2 * i - 1
  <2> DEFINE A == image.args
             E == image.env
  <2>1. A \in Nat /\ E \in Nat /\ b = A + E + 3 /\ KeyAt(image, i) = A + E + 2 * i + 2
    BY <1>2 DEF KeyAt, Base, ImageType
  <2> HIDE DEF A, E, b, n
  <2>2. n \in Nat /\ i \in Nat /\ i >= 1 /\ i <= n
    BY <1>2
  <2> DEFINE x == KeyAt(image, i)
  <2> HIDE DEF x
  <2>3. x = A + E + 2 * i + 2
    BY <2>1 DEF x
  <2>4. x \in (b + 1)..(b + 2 * n) /\ x - b = 2 * i - 1
    BY <2>1, <2>2, <2>3
  <2>5. QED
    BY <2>4 DEF x
<1>8. t[KeyAt(image, i)] = Words(new.aux)[2 * i - 1]
  <2> DEFINE x == KeyAt(image, i)
             w == Words(new.aux)
  <2>1. \A j \in (b + 1)..(b + 2 * n) : t[j] = w[j - b]
    BY <1>4, <1>5, <1>6 DEF IsLayout
  <2> HIDE DEF x, w, t, b, n
  <2>2. t[x] = w[x - b] /\ x - b = 2 * i - 1
    BY <1>7, <2>1 DEF x
  <2>3. QED
    BY <2>2 DEF x, w
<1>9. Words(new.aux)[2 * i - 1] = Replaced(aux)[i][1]
  BY <1>2, <1>4, <1>5, WordsType
<1>10. QED
  BY <1>3, <1>4, <1>8, <1>9

-----------------------------------------------------------------------------
\* Truncation takes less than one.
LEMMA DivBounds ==
  ASSUME NEW a \in Nat, NEW d \in Nat \ {0}
  PROVE  /\ a \div d \in Nat
         /\ d * (a \div d) <= a
         /\ a < d * (a \div d) + d
         /\ a % d \in 0..(d - 1)
         /\ a = d * (a \div d) + (a % d)
OBVIOUS

LEMMA ProductNat == ASSUME NEW a \in Nat, NEW d \in Nat PROVE a * d \in Nat
OBVIOUS

\* A timespec has all of the nanoseconds.
LEMMA TimespecExact ==
  ASSUME NEW t \in Nat
  PROVE  /\ Timespec(t) \in [tv_sec : Nat, tv_nsec : 0..(Second - 1)]
         /\ Nanoseconds(Timespec(t)) = t
<1>1. Second \in Nat \ {0}
  BY TimesAssumption
<1>2. /\ t \div Second \in Nat /\ t % Second \in 0..(Second - 1)
      /\ t = Second * (t \div Second) + (t % Second)
  BY <1>1, DivBounds
<1>3. (t \div Second) * Second = Second * (t \div Second)
  BY <1>1, <1>2
<1>4. QED
  BY <1>1, <1>2, <1>3 DEF Timespec, Nanoseconds

\* The bounds of a clock reading X taken when x had passed since the epoch e, and
\* of a later one.
LEMMA ReadingsApart ==
  ASSUME NEW N1 \in Nat, NEW D1 \in Nat, NEW e \in Nat, NEW q \in Nat, NEW t \in Nat, NEW n \in Nat,
         NEW X \in Nat, NEW Y \in Nat, NEW R \in Nat,
         t <= n, R <= e + X,
         N1 * X <= (t - e) * D1, (n - q) * D1 < N1 * Y + N1
  PROVE  N1 * (R - (q + Y) - 1) < (q - e) * (D1 - N1)
<1>1. D1 * t <= D1 * n
  OBVIOUS
<1>2. N1 * R <= N1 * (e + X)
  OBVIOUS
<1>3. N1 * (e + X) = N1 * e + N1 * X
  OBVIOUS
<1>4. (t - e) * D1 = D1 * t - D1 * e /\ (n - q) * D1 = D1 * n - D1 * q
  OBVIOUS
<1>5. N1 * (R - (q + Y) - 1) = N1 * R - N1 * q - N1 * Y - N1
  OBVIOUS
<1>6. (q - e) * (D1 - N1) = D1 * q - D1 * e - N1 * q + N1 * e
  OBVIOUS
<1> DEFINE nr == N1 * R
           ne == N1 * e
           nx == N1 * X
           nq == N1 * q
           ny == N1 * Y
           dt == D1 * t
           dn == D1 * n
           de == D1 * e
           dq == D1 * q
<1>7. /\ nr \in Int /\ ne \in Int /\ nx \in Int /\ nq \in Int /\ ny \in Int
      /\ dt \in Int /\ dn \in Int /\ de \in Int /\ dq \in Int
  OBVIOUS
<1>8. dt <= dn /\ nr <= ne + nx /\ nx <= dt - de /\ dn - dq < ny + N1
  BY <1>1, <1>2, <1>3, <1>4
<1> HIDE DEF nr, ne, nx, nq, ny, dt, dn, de, dq
<1>9. nr - nq - ny - N1 < dq - de - nq + ne
  BY <1>7, <1>8
<1>10. QED
  BY <1>5, <1>6, <1>9 DEF nr, ne, nx, nq, ny, dt, dn, de, dq

LEMMA SleepApart ==
  ASSUME NEW N1 \in Nat, NEW D1 \in Nat, NEW e \in Nat, NEW t \in Nat, NEW n \in Nat, NEW d \in Nat,
         NEW X \in Nat, NEW Y \in Nat, NEW R \in Nat, NEW S \in Nat,
         n >= t + S, R <= e + X,
         N1 * X <= (t - e) * D1, (n - e) * D1 < N1 * Y + N1, d * N1 < D1 * S + D1
  PROVE  N1 * ((e + Y) - R + 1) + D1 > N1 * d
<1>1. D1 * (t + S) <= D1 * n /\ D1 * (t + S) = D1 * t + D1 * S
  OBVIOUS
<1>2. N1 * R <= N1 * (e + X) /\ N1 * (e + X) = N1 * e + N1 * X
  OBVIOUS
<1>3. (t - e) * D1 = D1 * t - D1 * e /\ (n - e) * D1 = D1 * n - D1 * e
  OBVIOUS
<1>4. N1 * ((e + Y) - R + 1) = N1 * e + N1 * Y - N1 * R + N1 /\ d * N1 = N1 * d
  OBVIOUS
<1> DEFINE nr == N1 * R
           ne == N1 * e
           nx == N1 * X
           ny == N1 * Y
           nd == N1 * d
           dt == D1 * t
           dn == D1 * n
           de == D1 * e
           ds == D1 * S
<1>5. /\ nr \in Int /\ ne \in Int /\ nx \in Int /\ ny \in Int /\ nd \in Int
      /\ dt \in Int /\ dn \in Int /\ de \in Int /\ ds \in Int
  OBVIOUS
<1>6. dt + ds <= dn /\ nr <= ne + nx /\ nx <= dt - de /\ dn - de < ny + N1 /\ nd < ds + D1
  BY <1>1, <1>2, <1>3, <1>4
<1> HIDE DEF nr, ne, nx, ny, nd, dt, dn, de, ds
<1>7. ne + ny - nr + N1 + D1 > nd
  BY <1>5, <1>6
<1>8. QED
  BY <1>4, <1>5, <1>7 DEF nr, ne, ny, nd

-----------------------------------------------------------------------------
\* The invariant.  What a guest has read is no more than its clock showed at some
\* time t since its start; if it has asked to sleep since, its sleep ends, or has
\* ended, no earlier than the scaled duration after t.  A machine that main has
\* not started has read nothing.
SeenAt(t, r) ==
  /\ Nanoseconds(reading[r]) <= epoch[r] + Scaled(t - epoch[r])
  /\ asked[r] > 0 /\ until[r] # 0 => until[r] >= t + SleepFor(asked[r])
  /\ asked[r] > 0 /\ until[r] = 0 => now >= t + SleepFor(asked[r])
Fresh(r) == epoch[r] = 0 /\ Nanoseconds(reading[r]) = 0 /\ asked[r] = 0 /\ until[r] = 0
ClockInv(r) ==
  /\ epoch[r] <= now
  /\ r > started => Fresh(r)
  /\ \E t \in epoch[r]..now : SeenAt(t, r)
Inv == TypeOK /\ \A r \in Machines : ClockInv(r)

\* The factor is positive.
LEMMA Factor ==
  ASSUME TypeOK
  PROVE  Num \in Nat \ {0} /\ Den \in Nat \ {0}
BY ScalesAssumption DEF TypeOK, Num, Den

LEMMA ScaledBounds ==
  ASSUME TypeOK, NEW a \in Nat
  PROVE  /\ Scaled(a) \in Nat
         /\ Num * Scaled(a) <= a * Den
         /\ a * Den < Num * Scaled(a) + Num
<1>1. Num \in Nat \ {0} /\ Den \in Nat \ {0}
  BY Factor
<1> DEFINE y == a * Den
<1>2. y \in Nat
  BY <1>1, ProductNat
<1> HIDE DEF y
<1>3. y \div Num \in Nat /\ Num * (y \div Num) <= y /\ y < Num * (y \div Num) + Num
  BY <1>1, <1>2, DivBounds
<1>4. QED
  BY <1>3 DEF Scaled, y

LEMMA SleepForBounds ==
  ASSUME TypeOK, NEW d \in Nat
  PROVE  SleepFor(d) \in Nat /\ d * Num < Den * SleepFor(d) + Den
<1>1. Num \in Nat \ {0} /\ Den \in Nat \ {0}
  BY Factor
<1> DEFINE y == d * Num
<1>2. y \in Nat
  BY <1>1, ProductNat
<1> HIDE DEF y
<1>3. y \div Den \in Nat /\ y < Den * (y \div Den) + Den
  BY <1>1, <1>2, DivBounds
<1>4. QED
  BY <1>3 DEF SleepFor, y

\* Guests read the scaled clock.
LEMMA GuestTimeIs ==
  ASSUME TypeOK, NEW r \in Machines, epoch[r] <= now
  PROVE  /\ GuestTime(r) = epoch[r] + Scaled(now - epoch[r])
         /\ epoch[r] \in Nat /\ now \in Nat /\ now - epoch[r] \in Nat
         /\ Scaled(now - epoch[r]) \in Nat /\ GuestTime(r) \in Nat
<1>1. GuestTime(r) = epoch[r] + Scaled(now - epoch[r])
  BY NoVdso DEF GuestTime
<1>2. epoch[r] \in Nat /\ now \in Nat
  BY DEF TypeOK
<1>3. now - epoch[r] \in Nat
  BY <1>2
<1>4. Scaled(now - epoch[r]) \in Nat
  BY <1>3, ScaledBounds
<1>5. QED
  BY <1>1, <1>2, <1>3, <1>4

\* The types of one machine's members.
LEMMA MachineTypes ==
  ASSUME TypeOK, NEW r \in Machines
  PROVE  /\ epoch[r] \in Nat /\ until[r] \in Nat /\ asked[r] \in Nat /\ now \in Nat
         /\ Nanoseconds(reading[r]) \in Nat /\ started \in Nat /\ r \in Nat
<1>1. epoch[r] \in Nat /\ until[r] \in Nat /\ asked[r] \in Nat /\ now \in Nat /\ started \in Nat
      /\ r \in Nat
  <2>1. epoch[r] \in 0..MaxTime /\ until[r] \in 0..MaxTime /\ now \in 0..MaxTime /\ started \in 0..N
    BY DEF TypeOK
  <2>2. asked[r] \in Nat
    <3>1. asked[r] \in Durations \cup {0}
      BY DEF TypeOK
    <3>2. \A d \in Durations : d \in Nat
      BY TimesAssumption
    <3>3. CASE asked[r] = 0
      BY <3>3
    <3>4. CASE asked[r] \in Durations
      BY <3>2, <3>4
    <3>5. QED
      BY <3>1, <3>3, <3>4
  <2>3. r \in Nat
    BY NAssumption DEF Machines
  <2>4. QED
    BY <2>1, <2>2, <2>3
<1>2. reading[r].tv_sec \in Nat /\ reading[r].tv_nsec \in Nat /\ Second \in Nat
  BY TimesAssumption DEF TypeOK
<1>3. reading[r].tv_sec * Second \in Nat
  BY <1>2, ProductNat
<1>4. QED
  BY <1>1, <1>2, <1>3 DEF Nanoseconds

LEMMA InitInv == Init => Inv
<1> SUFFICES ASSUME Init PROVE Inv
  OBVIOUS
<1>1. TypeOK
  BY TimesAssumption, NAssumption DEF Init, TypeOK
<1>2. ASSUME NEW r \in Machines PROVE ClockInv(r)
  <2>1. /\ epoch[r] = 0 /\ now = 0 /\ asked[r] = 0 /\ until[r] = 0
        /\ reading[r].tv_sec = 0 /\ reading[r].tv_nsec = 0
    BY DEF Init
  <2>2. Nanoseconds(reading[r]) = 0
    BY <2>1, TimesAssumption DEF Nanoseconds
  <2>3. Scaled(0) \in Nat
    BY <1>1, ScaledBounds
  <2>4. SeenAt(0, r)
    BY <2>1, <2>2, <2>3 DEF SeenAt
  <2>5. QED
    BY <2>1, <2>2, <2>4 DEF ClockInv, Fresh
<1>3. QED
  BY <1>1, <1>2 DEF Inv

\* A machine whose members a step leaves alone, while time may go by.
LEMMA Unaffected ==
  ASSUME Inv, NEW r \in Machines, TypeOK', scale' = scale, now' >= now,
         r > started' => r > started,
         epoch'[r] = epoch[r], until'[r] = until[r], reading'[r] = reading[r],
         asked'[r] = asked[r]
  PROVE  ClockInv(r)'
<1>1. /\ epoch[r] \in Nat /\ until[r] \in Nat /\ asked[r] \in Nat /\ now \in Nat /\ now' \in Nat
  BY MachineTypes DEF Inv, TypeOK
<1>2. PICK t \in epoch[r]..now : SeenAt(t, r)
  BY DEF Inv, ClockInv
<1>3. SleepFor(asked[r]) \in Nat
  BY <1>1, SleepForBounds DEF Inv
<1>4. /\ Scaled(t - epoch[r])' = Scaled(t - epoch[r])
      /\ SleepFor(asked[r])' = SleepFor(asked[r])
      /\ Nanoseconds(reading[r])' = Nanoseconds(reading[r])
  BY DEF Scaled, SleepFor, Nanoseconds, Num, Den
<1>5. t \in (epoch[r]..now)'
  BY <1>1, <1>2
<1>6. SeenAt(t, r)'
  BY <1>1, <1>2, <1>3, <1>4 DEF SeenAt
<1>7. (r > started)' => Fresh(r)'
  BY <1>4 DEF Inv, ClockInv, Fresh
<1>8. epoch'[r] <= now'
  BY <1>1 DEF Inv, ClockInv
<1>9. QED
  BY <1>5, <1>6, <1>7, <1>8 DEF ClockInv

LEMMA TickInv ==
  ASSUME Inv, Tick
  PROVE  Inv'
<1>1. TypeOK'
  BY TimesAssumption DEF Inv, TypeOK, Tick
<1>2. now' >= now /\ UNCHANGED <<scale, started, epoch, until, reading, asked>>
  BY DEF Tick, Inv, TypeOK
<1>3. ASSUME NEW r \in Machines PROVE ClockInv(r)'
  BY <1>1, <1>2, Unaffected
<1>4. QED
  BY <1>1, <1>3 DEF Inv

LEMMA StartInv ==
  ASSUME Inv, Start
  PROVE  Inv'
<1>7. PICK m \in Machines : m = started + 1
  BY DEF Start
<1>1. /\ started' = m /\ epoch' = [epoch EXCEPT ![m] = now]
      /\ wake' = now + Gap /\ UNCHANGED <<scale, now, until, reading, asked>>
  BY <1>7 DEF Start
<1>2. started \in Nat /\ m \in Nat /\ m <= N /\ now \in 0..MaxTime
  BY <1>7, NAssumption DEF Inv, TypeOK, Machines
<1>3. TypeOK'
  BY <1>1, <1>2, TimesAssumption, NAssumption DEF Inv, TypeOK
<1>4. ClockInv(m)'
  <2>1. Fresh(m)
    BY <1>2, <1>7 DEF Inv, ClockInv
  <2>2. epoch'[m] = now /\ now' = now /\ now \in Nat
    BY <1>1, <1>2 DEF Inv, TypeOK
  <2>3. Scaled(now - now)' \in Nat
    <3>1. Scaled(0) \in Nat
      BY ScaledBounds DEF Inv
    <3>2. now - now = 0
      BY <2>2
    <3>3. QED
      BY <1>1, <3>1, <3>2 DEF Scaled, Num, Den
  <2>4. /\ Nanoseconds(reading[m])' = 0 /\ asked'[m] = 0
    BY <1>1, <2>1 DEF Fresh, Nanoseconds
  <2>5. SeenAt(now, m)'
    BY <2>2, <2>3, <2>4 DEF SeenAt
  <2>6. ~(m > started')
    BY <1>1, <1>2
  <2>7. now' \in epoch'[m]..now'
    BY <2>2
  <2>8. QED
    BY <2>2, <2>5, <2>6, <2>7 DEF ClockInv
<1>5. ASSUME NEW r \in Machines, r # m PROVE ClockInv(r)'
  <2>1. r > started' => r > started
    BY <1>1, <1>2, <1>7 DEF Machines
  <2>2. epoch'[r] = epoch[r]
    BY <1>1, <1>5 DEF Inv, TypeOK
  <2>3. now' >= now
    BY <1>1, <1>2
  <2>4. QED
    BY <1>1, <1>3, <2>1, <2>2, <2>3, Unaffected
<1>6. QED
  BY <1>3, <1>4, <1>5 DEF Inv

LEMMA ClockGettimeInv ==
  ASSUME Inv, NEW m \in Machines, ClockGettime(m)
  PROVE  Inv'
<1>1. /\ reading' = [reading EXCEPT ![m] = Timespec(GuestTime(m))]
      /\ asked' = [asked EXCEPT ![m] = 0] /\ m \in Started
      /\ UNCHANGED <<scale, now, started, wake, epoch, until>>
  BY DEF ClockGettime, Runs
<1>2. TypeOK /\ epoch[m] <= now
  BY DEF Inv, ClockInv
<1>3. /\ GuestTime(m) = epoch[m] + Scaled(now - epoch[m])
      /\ epoch[m] \in Nat /\ now \in Nat /\ now - epoch[m] \in Nat
      /\ Scaled(now - epoch[m]) \in Nat /\ GuestTime(m) \in Nat
  BY <1>2, GuestTimeIs
<1>4. /\ Timespec(GuestTime(m)) \in [tv_sec : Nat, tv_nsec : 0..(Second - 1)]
      /\ Nanoseconds(Timespec(GuestTime(m))) = GuestTime(m)
  BY <1>3, TimespecExact
<1>5. TypeOK'
  BY <1>1, <1>2, <1>4 DEF TypeOK
<1>6. ClockInv(m)'
  <2>1. Nanoseconds(reading[m])' = GuestTime(m) /\ asked'[m] = 0
    <3>1. reading'[m] = Timespec(GuestTime(m)) /\ asked'[m] = 0
      BY <1>1, <1>2 DEF TypeOK
    <3>2. QED
      BY <1>4, <3>1 DEF Nanoseconds
  <2>2. Scaled(now - epoch[m])' = Scaled(now - epoch[m])
    BY <1>1 DEF Scaled, Num, Den
  <2>3. SeenAt(now, m)'
    BY <1>1, <1>3, <2>1, <2>2 DEF SeenAt
  <2>4. ~(m > started)
    BY <1>1 DEF Started, Inv, TypeOK
  <2>5. (now \in epoch[m]..now)'
    BY <1>1, <1>2, <1>3
  <2>6. QED
    BY <1>1, <1>2, <2>3, <2>4, <2>5 DEF ClockInv
<1>7. ASSUME NEW r \in Machines, r # m PROVE ClockInv(r)'
  <2>1. reading'[r] = reading[r] /\ asked'[r] = asked[r]
    BY <1>1, <1>2, <1>7 DEF TypeOK
  <2>2. now' >= now
    BY <1>1, <1>3
  <2>3. QED
    BY <1>1, <1>5, <2>1, <2>2, Unaffected
<1>8. QED
  BY <1>5, <1>6, <1>7 DEF Inv

LEMMA ClockNanosleepInv ==
  ASSUME Inv, NEW m \in Machines, NEW d \in Durations, ClockNanosleep(m, d)
  PROVE  Inv'
<1>1. /\ asked[m] = 0 /\ now + SleepFor(d) <= MaxTime /\ m \in Started
      /\ until' = [until EXCEPT ![m] = now + SleepFor(d)]
      /\ asked' = [asked EXCEPT ![m] = d]
      /\ UNCHANGED <<scale, now, started, wake, epoch, reading>>
  BY DEF ClockNanosleep, Runs
<1>2. TypeOK /\ d \in Nat /\ MaxTime \in Nat
  BY TimesAssumption DEF Inv
<1>3. SleepFor(d) \in Nat
  BY <1>2, SleepForBounds
<1>4. epoch[m] \in Nat /\ now \in Nat /\ started \in Nat
  BY <1>2, MachineTypes
<1>5. TypeOK'
  <2>1. now + SleepFor(d) \in 0..MaxTime
    BY <1>1, <1>2, <1>3, <1>4
  <2>2. until' \in [Machines -> 0..MaxTime] /\ asked' \in [Machines -> Durations \cup {0}]
    BY <1>1, <1>2, <2>1 DEF TypeOK
  <2>3. QED
    BY <1>1, <1>2, <2>2 DEF TypeOK
<1>6. ClockInv(m)'
  <2>1. until'[m] = now + SleepFor(d) /\ asked'[m] = d
    BY <1>1, <1>2 DEF TypeOK
  <2>2. PICK t \in epoch[m]..now : SeenAt(t, m)
    BY DEF Inv, ClockInv
  <2>3. t \in Nat /\ t <= now
    BY <1>4, <2>2
  <2>4. /\ Scaled(t - epoch[m])' = Scaled(t - epoch[m])
        /\ Nanoseconds(reading[m])' = Nanoseconds(reading[m])
        /\ SleepFor(asked[m])' = SleepFor(d)
    BY <1>1, <2>1 DEF Scaled, SleepFor, Nanoseconds, Num, Den
  <2>5. SeenAt(t, m)'
    <3>1. Nanoseconds(reading[m])' <= epoch'[m] + Scaled(t - epoch[m])'
      BY <1>1, <2>2, <2>4 DEF SeenAt
    <3>2. until'[m] >= t + SleepFor(d)
      BY <1>3, <1>4, <2>1, <2>3
    <3>3. until'[m] = 0 => now' >= t + SleepFor(d)
      BY <1>1, <1>3, <1>4, <2>1, <2>3
    <3>4. QED
      BY <2>4, <3>1, <3>2, <3>3 DEF SeenAt
  <2>6. ~(m > started)
    BY <1>1, <1>4 DEF Started
  <2>7. t \in (epoch[m]..now)' /\ epoch'[m] <= now'
    BY <1>1, <2>2 DEF Inv, ClockInv
  <2>8. QED
    BY <1>1, <2>5, <2>6, <2>7 DEF ClockInv
<1>7. ASSUME NEW r \in Machines, r # m PROVE ClockInv(r)'
  <2>1. until'[r] = until[r] /\ asked'[r] = asked[r]
    BY <1>1, <1>2, <1>7 DEF TypeOK
  <2>2. now' >= now
    BY <1>1, <1>4
  <2>3. QED
    BY <1>1, <1>5, <2>1, <2>2, Unaffected
<1>8. QED
  BY <1>5, <1>6, <1>7 DEF Inv

LEMMA SleepReturnsInv ==
  ASSUME Inv, NEW m \in Machines, SleepReturns(m)
  PROVE  Inv'
<1>1. /\ until[m] # 0 /\ now >= until[m] /\ until' = [until EXCEPT ![m] = 0]
      /\ UNCHANGED <<scale, now, started, wake, epoch, reading, asked>>
  BY DEF SleepReturns, Slept
<1>2. TypeOK
  BY DEF Inv
<1>3. epoch[m] \in Nat /\ now \in Nat /\ started \in Nat /\ until[m] \in Nat /\ asked[m] \in Nat
  BY <1>2, MachineTypes
<1>4. SleepFor(asked[m]) \in Nat
  BY <1>2, <1>3, SleepForBounds
<1>5. TypeOK'
  BY <1>1, <1>2, TimesAssumption DEF TypeOK
<1>6. ClockInv(m)'
  <2>1. until'[m] = 0
    BY <1>1, <1>2 DEF TypeOK
  <2>2. PICK t \in epoch[m]..now : SeenAt(t, m)
    BY DEF Inv, ClockInv
  <2>3. t \in Nat
    BY <1>3, <2>2
  <2>4. /\ Scaled(t - epoch[m])' = Scaled(t - epoch[m])
        /\ Nanoseconds(reading[m])' = Nanoseconds(reading[m])
        /\ SleepFor(asked[m])' = SleepFor(asked[m])
    BY <1>1 DEF Scaled, SleepFor, Nanoseconds, Num, Den
  <2>5. SeenAt(t, m)'
    <3>1. Nanoseconds(reading[m])' <= epoch'[m] + Scaled(t - epoch[m])'
      BY <1>1, <2>2, <2>4 DEF SeenAt
    <3>2. asked[m] > 0 => now >= t + SleepFor(asked[m])
      BY <1>1, <1>3, <1>4, <2>2, <2>3 DEF SeenAt
    <3>3. QED
      BY <1>1, <2>1, <2>4, <3>1, <3>2 DEF SeenAt
  <2>6. ~(m > started)
    BY <1>1 DEF Inv, ClockInv, Fresh
  <2>7. t \in (epoch[m]..now)' /\ epoch'[m] <= now'
    BY <1>1, <2>2 DEF Inv, ClockInv
  <2>8. QED
    BY <1>1, <2>5, <2>6, <2>7 DEF ClockInv
<1>7. ASSUME NEW r \in Machines, r # m PROVE ClockInv(r)'
  <2>1. until'[r] = until[r]
    BY <1>1, <1>2, <1>7 DEF TypeOK
  <2>2. now' >= now
    BY <1>1, <1>3
  <2>3. QED
    BY <1>1, <1>5, <2>1, <2>2, Unaffected
<1>8. QED
  BY <1>5, <1>6, <1>7 DEF Inv

\* The invariant holds in every behaviour.
THEOREM InvHolds == Spec => []Inv
<1>1. Init => Inv
  BY InitInv
<1>2. Inv /\ [Next]_vars => Inv'
  <2> SUFFICES ASSUME Inv, [Next]_vars PROVE Inv'
    OBVIOUS
  <2>1. CASE UNCHANGED vars
    <3>1. TypeOK'
      BY <2>1 DEF vars, Inv, TypeOK
    <3>2. now' >= now
      BY <2>1 DEF vars, Inv, TypeOK
    <3>3. ASSUME NEW r \in Machines PROVE ClockInv(r)'
      BY <2>1, <3>1, <3>2, Unaffected DEF vars
    <3>4. QED
      BY <3>1, <3>3 DEF Inv
  <2>2. CASE Tick
    BY <2>2, TickInv
  <2>3. CASE Start
    BY <2>3, StartInv
  <2>4. CASE \E r \in Machines : ClockGettime(r)
    BY <2>4, ClockGettimeInv
  <2>5. CASE \E r \in Machines : SleepReturns(r)
    BY <2>5, SleepReturnsInv
  <2>6. CASE \E r \in Machines, d \in Durations : ClockNanosleep(r, d)
    BY <2>6, ClockNanosleepInv
  <2>7. QED
    BY <2>1, <2>2, <2>3, <2>4, <2>5, <2>6 DEF Next
<1>3. QED
  BY <1>1, <1>2, PTL DEF Spec

\* Values stay in range, and a timespec's nanoseconds below a second
\* (clock_gettime's duration_casts).
THEOREM TypeCorrect == Spec => []TypeOK
<1>1. Inv => TypeOK
  BY DEF Inv
<1>2. QED
  BY <1>1, InvHolds, PTL

\* No guest's clock goes back, and guests' clocks are apart by no more than the
\* scaled time between their starts differs from that time (clock_gettime and
\* replica::epoch_), for every factor.
THEOREM ClocksAgreeAlways == Spec => []ClocksAgree
<1>1. Inv => ClocksAgree
  <2> SUFFICES ASSUME Inv, NEW r \in Started, NEW q \in Started,
                      Nanoseconds(reading[r]) - GuestTime(q) > 0
               PROVE  Num * (Nanoseconds(reading[r]) - GuestTime(q) - 1) <
                        (epoch[q] - epoch[r]) * (Den - Num)
    BY DEF ClocksAgree
  <2>1. TypeOK /\ r \in Machines /\ q \in Machines /\ epoch[q] <= now
    <3>1. TypeOK /\ started \in 0..N
      BY DEF Inv, TypeOK
    <3>2. \A x \in Started : x \in Machines
      BY <3>1, NAssumption DEF Started, Machines
    <3>3. QED
      BY <3>1, <3>2 DEF Inv, ClockInv
  <2>2. PICK t \in epoch[r]..now : SeenAt(t, r)
    BY <2>1 DEF Inv, ClockInv
  <2>3. /\ GuestTime(q) = epoch[q] + Scaled(now - epoch[q])
        /\ epoch[q] \in Nat /\ now \in Nat /\ now - epoch[q] \in Nat
        /\ Scaled(now - epoch[q]) \in Nat
    BY <2>1, GuestTimeIs
  <2>4. epoch[r] \in Nat /\ Nanoseconds(reading[r]) \in Nat
    BY <2>1, MachineTypes
  <2>5. t \in Nat /\ t <= now /\ t - epoch[r] \in Nat
    BY <2>2, <2>3, <2>4
  <2>6. /\ Scaled(t - epoch[r]) \in Nat
        /\ Num * Scaled(t - epoch[r]) <= (t - epoch[r]) * Den
    BY <2>1, <2>5, ScaledBounds
  <2>7. (now - epoch[q]) * Den < Num * Scaled(now - epoch[q]) + Num
    BY <2>1, <2>3, ScaledBounds
  <2>8. Num \in Nat /\ Den \in Nat
    BY <2>1, Factor
  <2>9. Nanoseconds(reading[r]) <= epoch[r] + Scaled(t - epoch[r])
    BY <2>2 DEF SeenAt
  <2> DEFINE e == epoch[r]
             f == epoch[q]
             X == Scaled(t - epoch[r])
             Y == Scaled(now - epoch[q])
             R == Nanoseconds(reading[r])
  <2>10. /\ e \in Nat /\ f \in Nat /\ X \in Nat /\ Y \in Nat /\ R \in Nat /\ R <= e + X
         /\ Num * X <= (t - e) * Den /\ (now - f) * Den < Num * Y + Num
         /\ GuestTime(q) = f + Y
    BY <2>3, <2>4, <2>6, <2>7, <2>9
  <2> HIDE DEF e, f, X, Y, R
  <2>11. Num * (R - (f + Y) - 1) < (f - e) * (Den - Num)
    BY <2>3, <2>5, <2>8, <2>10, ReadingsApart
  <2>12. QED
    BY <2>10, <2>11 DEF R, e, f
<1>2. QED
  BY <1>1, InvHolds, PTL

\* By its own clock a guest sleeps as long as it asked for, but for what the two
\* truncations take (clock_nanosleep and clock_gettime), for every factor.
THEOREM SleepsAreLongEnough == Spec => []SleepsLongEnough
<1>1. Inv => SleepsLongEnough
  <2> SUFFICES ASSUME Inv, NEW r \in Started, asked[r] > 0, until[r] = 0
               PROVE  Num * (GuestTime(r) - Nanoseconds(reading[r]) + 1) + Den > Num * asked[r]
    BY DEF SleepsLongEnough
  <2>1. TypeOK /\ r \in Machines /\ epoch[r] <= now
    <3>1. TypeOK /\ started \in 0..N
      BY DEF Inv, TypeOK
    <3>2. \A x \in Started : x \in Machines
      BY <3>1, NAssumption DEF Started, Machines
    <3>3. QED
      BY <3>1, <3>2 DEF Inv, ClockInv
  <2>2. PICK t \in epoch[r]..now : SeenAt(t, r)
    BY <2>1 DEF Inv, ClockInv
  <2>3. /\ GuestTime(r) = epoch[r] + Scaled(now - epoch[r])
        /\ epoch[r] \in Nat /\ now \in Nat /\ now - epoch[r] \in Nat
        /\ Scaled(now - epoch[r]) \in Nat
    BY <2>1, GuestTimeIs
  <2>4. Nanoseconds(reading[r]) \in Nat /\ asked[r] \in Nat
    BY <2>1, MachineTypes
  <2>5. t \in Nat /\ t - epoch[r] \in Nat
    BY <2>2, <2>3
  <2>6. /\ Scaled(t - epoch[r]) \in Nat
        /\ Num * Scaled(t - epoch[r]) <= (t - epoch[r]) * Den
    BY <2>1, <2>5, ScaledBounds
  <2>7. (now - epoch[r]) * Den < Num * Scaled(now - epoch[r]) + Num
    BY <2>1, <2>3, ScaledBounds
  <2>8. Num \in Nat /\ Den \in Nat
    BY <2>1, Factor
  <2>9. /\ Nanoseconds(reading[r]) <= epoch[r] + Scaled(t - epoch[r])
        /\ now >= t + SleepFor(asked[r])
    BY <2>2 DEF SeenAt
  <2>10. SleepFor(asked[r]) \in Nat /\ asked[r] * Num < Den * SleepFor(asked[r]) + Den
    BY <2>1, <2>4, SleepForBounds
  <2> DEFINE e == epoch[r]
             X == Scaled(t - epoch[r])
             Y == Scaled(now - epoch[r])
             R == Nanoseconds(reading[r])
             d == asked[r]
             S == SleepFor(asked[r])
  <2>11. /\ e \in Nat /\ X \in Nat /\ Y \in Nat /\ R \in Nat /\ d \in Nat /\ S \in Nat
         /\ R <= e + X /\ now >= t + S
         /\ Num * X <= (t - e) * Den /\ (now - e) * Den < Num * Y + Num
         /\ d * Num < Den * S + Den /\ GuestTime(r) = e + Y
    BY <2>3, <2>4, <2>6, <2>7, <2>9, <2>10
  <2> HIDE DEF e, X, Y, R, d, S
  <2>12. Num * ((e + Y) - R + 1) + Den > Num * d
    BY <2>3, <2>5, <2>8, <2>11, SleepApart
  <2>13. QED
    BY <2>11, <2>12 DEF R, d
<1>2. QED
  BY <1>1, InvHolds, PTL
=============================================================================
