---------------------------- MODULE Seeds_proofs ----------------------------
(***************************************************************************)
(* Theorems about Seeds, for every number of executions, replicas, sockets *)
(* and words of a seed.                                                    *)
(*                                                                         *)
(* The executions know nothing of each other, so the invariants are about  *)
(* one of them: g is its generator, c what its tracers have drawn for the  *)
(* sockets that they create, rd what they have read in next, sd the seeds  *)
(* and o the order of its sockets.                                         *)
(***************************************************************************)
EXTENDS Seeds, FiniteSetTheorems, SequenceTheorems, TLAPS

States == Nat \cup {Torn}

\* What an execution consists of, raced or not: a tracer creates at most one
\* socket, it is in next only while words are missing, and seeds are complete.
TypeInv(g, c, rd, sd, o) ==
  /\ g \in States
  /\ c \in [Replicas -> SUBSET Seq(States)]
  /\ rd \in [Replicas -> SUBSET States]
  /\ sd \in [Replicas -> Seq(Seq(States))]
  /\ o \in Seq(Replicas)
  /\ \A r \in Replicas : \A w \in c[r] : c[r] = {w} /\ Len(w) <= SeedWords
  /\ \A r \in Replicas : rd[r] # {} => \E w \in c[r] : Len(w) < SeedWords
  /\ \A r \in Replicas : \A k \in DOMAIN sd[r] : Len(sd[r][k]) = SeedWords

\* Where no two tracers were in next at once, the one that is has read the
\* present state of the generator, and the numbers drawn so far are smaller than
\* that and all different.
AloneInNext(g, rd) ==
  /\ g \in Nat
  /\ \A r \in Replicas : rd[r] \subseteq {g}
  /\ \A r, q \in Replicas : rd[r] # {} /\ rd[q] # {} => r = q
DrawnBefore(g, c, sd) ==
  /\ \A r \in Replicas : \A w \in c[r] : \A i \in 1..Len(w) : w[i] \in Nat /\ w[i] < g
  /\ \A r \in Replicas : \A k \in DOMAIN sd[r] : \A i \in 1..SeedWords :
       sd[r][k][i] \in Nat /\ sd[r][k][i] < g
WordsApart(c) ==
  \A r, q \in Replicas : \A w \in c[r], v \in c[q] : \A i \in 1..Len(w), j \in 1..Len(v) :
    w[i] = v[j] => r = q /\ i = j
WordsNew(c, sd) ==
  \A r, q \in Replicas : \A w \in c[r], k \in DOMAIN sd[q] :
    \A i \in 1..Len(w), j \in 1..SeedWords : w[i] # sd[q][k][j]
SeedsApart(sd) ==
  \A r, q \in Replicas : \A k \in DOMAIN sd[r], l \in DOMAIN sd[q] :
    \A i, j \in 1..SeedWords : sd[r][k][i] = sd[q][l][j] => r = q /\ k = l /\ i = j
DrawInv(g, c, rd, sd) ==
  /\ AloneInNext(g, rd)
  /\ DrawnBefore(g, c, sd)
  /\ WordsApart(c) /\ WordsNew(c, sd) /\ SeedsApart(sd)

-----------------------------------------------------------------------------
\* The steps of a tracer, on one execution: what Create, NextReads, NextWrites
\* and Seeded make of its members preserves its type.
LEMMA CreateTypes ==
  ASSUME NEW g, NEW c, NEW rd, NEW sd, NEW o, NEW r \in Replicas,
         TypeInv(g, c, rd, sd, o), c[r] = {}
  PROVE  TypeInv(g, [c EXCEPT ![r] = {<<>>}], rd, sd, Append(o, r))
<1> DEFINE d == [c EXCEPT ![r] = {<<>>}]
<1>1. d \in [Replicas -> SUBSET Seq(States)] /\ d[r] = {<<>>}
      /\ \A q \in Replicas : q # r => d[q] = c[q]
  BY DEF TypeInv
<1>2. Append(o, r) \in Seq(Replicas)
  BY DEF TypeInv
<1> HIDE DEF d
<1>3. \A q \in Replicas : \A w \in d[q] : d[q] = {w} /\ Len(w) <= SeedWords
  <2> SUFFICES ASSUME NEW q \in Replicas, NEW w \in d[q]
               PROVE  d[q] = {w} /\ Len(w) <= SeedWords
    OBVIOUS
  <2>1. CASE q = r
    <3>1. Len(<<>>) <= SeedWords
      BY BoundsAssumption
    <3>2. QED
      BY <1>1, <2>1, <3>1
  <2>2. CASE q # r
    BY <1>1, <2>2 DEF TypeInv
  <2>3. QED
    BY <2>1, <2>2
<1>4. \A q \in Replicas : rd[q] # {} => \E w \in d[q] : Len(w) < SeedWords
  BY <1>1 DEF TypeInv
<1>5. TypeInv(g, d, rd, sd, Append(o, r))
  BY <1>1, <1>2, <1>3, <1>4 DEF TypeInv
<1>6. QED
  BY <1>5 DEF d

LEMMA ReadTypes ==
  ASSUME NEW g, NEW c, NEW rd, NEW sd, NEW o, NEW r \in Replicas,
         TypeInv(g, c, rd, sd, o), \E w \in c[r] : Len(w) < SeedWords
  PROVE  TypeInv(g, c, [rd EXCEPT ![r] = {g}], sd, o)
BY DEF TypeInv

LEMMA WriteTypes ==
  ASSUME NEW g, NEW c, NEW rd, NEW sd, NEW o, NEW r \in Replicas, NEW h \in States,
         NEW a \in rd[r], NEW w \in c[r], TypeInv(g, c, rd, sd, o)
  PROVE  TypeInv(h, [c EXCEPT ![r] = {Append(w, a)}], [rd EXCEPT ![r] = {}], sd, o)
<1> DEFINE d == [c EXCEPT ![r] = {Append(w, a)}]
           e == [rd EXCEPT ![r] = {}]
<1>1. w \in Seq(States) /\ a \in States /\ Len(w) < SeedWords
  BY DEF TypeInv
<1>2. Append(w, a) \in Seq(States) /\ Len(Append(w, a)) <= SeedWords
  BY <1>1, BoundsAssumption
<1>3. d \in [Replicas -> SUBSET Seq(States)] /\ d[r] = {Append(w, a)}
      /\ \A q \in Replicas : q # r => d[q] = c[q]
  BY <1>2 DEF TypeInv
<1>4. e \in [Replicas -> SUBSET States] /\ e[r] = {}
      /\ \A q \in Replicas : q # r => e[q] = rd[q]
  BY DEF TypeInv
<1> HIDE DEF d, e
<1>5. \A q \in Replicas : \A v \in d[q] : d[q] = {v} /\ Len(v) <= SeedWords
  BY <1>2, <1>3 DEF TypeInv
<1>6. \A q \in Replicas : e[q] # {} => \E v \in d[q] : Len(v) < SeedWords
  BY <1>3, <1>4 DEF TypeInv
<1>7. TypeInv(h, d, e, sd, o)
  BY <1>3, <1>4, <1>5, <1>6 DEF TypeInv
<1>8. QED
  BY <1>7 DEF d, e

LEMMA SeededTypes ==
  ASSUME NEW g, NEW c, NEW rd, NEW sd, NEW o, NEW r \in Replicas, NEW w \in c[r],
         TypeInv(g, c, rd, sd, o), Len(w) = SeedWords
  PROVE  /\ rd[r] = {}
         /\ TypeInv(g, [c EXCEPT ![r] = {}], rd, [sd EXCEPT ![r] = Append(sd[r], w)], o)
<1> DEFINE d == [c EXCEPT ![r] = {}]
           s == [sd EXCEPT ![r] = Append(sd[r], w)]
<1>1. w \in Seq(States) /\ rd[r] = {} /\ sd[r] \in Seq(Seq(States))
  <2>1. w \in Seq(States) /\ c[r] = {w} /\ sd[r] \in Seq(Seq(States))
    BY DEF TypeInv
  <2>2. rd[r] # {} => Len(w) < SeedWords
    BY <2>1 DEF TypeInv
  <2>3. QED
    BY <2>1, <2>2, BoundsAssumption
<1>2. Append(sd[r], w) \in Seq(Seq(States))
  BY <1>1
<1>3. d \in [Replicas -> SUBSET Seq(States)] /\ d[r] = {}
      /\ \A q \in Replicas : q # r => d[q] = c[q]
  BY DEF TypeInv
<1>4. s \in [Replicas -> Seq(Seq(States))] /\ s[r] = Append(sd[r], w)
      /\ \A q \in Replicas : q # r => s[q] = sd[q]
  BY <1>2 DEF TypeInv
<1> HIDE DEF d, s
<1>5. \A k \in DOMAIN s[r] : Len(s[r][k]) = SeedWords
  <2>1. \A k \in DOMAIN sd[r] : Len(sd[r][k]) = SeedWords
    BY DEF TypeInv
  <2>2. \A k \in DOMAIN s[r] : s[r][k] = w \/ (k \in DOMAIN sd[r] /\ s[r][k] = sd[r][k])
    BY <1>1, <1>4
  <2>3. QED
    BY <2>1, <2>2
<1>6. \A q \in Replicas : \A k \in DOMAIN s[q] : Len(s[q][k]) = SeedWords
  <2> SUFFICES ASSUME NEW q \in Replicas, q # r
               PROVE  \A k \in DOMAIN s[q] : Len(s[q][k]) = SeedWords
    BY <1>5
  <2>1. s[q] = sd[q]
    BY <1>4
  <2>2. QED
    BY <2>1 DEF TypeInv
<1>7. TypeInv(g, d, rd, s, o)
  BY <1>1, <1>3, <1>4, <1>6 DEF TypeInv
<1>8. QED
  BY <1>1, <1>7 DEF d, s

-----------------------------------------------------------------------------
\* The same steps where no two tracers are in next at once.
LEMMA CreateDraws ==
  ASSUME NEW g, NEW c, NEW rd, NEW sd, NEW o, NEW r \in Replicas,
         TypeInv(g, c, rd, sd, o), c[r] = {}, DrawInv(g, c, rd, sd)
  PROVE  DrawInv(g, [c EXCEPT ![r] = {<<>>}], rd, sd)
<1> DEFINE d == [c EXCEPT ![r] = {<<>>}]
<1>1. d[r] = {<<>>} /\ \A q \in Replicas : q # r => d[q] = c[q]
  BY DEF TypeInv
<1> HIDE DEF d
<1>2. \A q \in Replicas : \A w \in d[q] : w \in c[q] \/ 1..Len(w) = {}
  BY <1>1
<1>3. DrawnBefore(g, d, sd)
  BY <1>2 DEF DrawInv, DrawnBefore
<1>4. WordsApart(d)
  BY <1>2 DEF DrawInv, WordsApart
<1>5. WordsNew(d, sd)
  BY <1>2 DEF DrawInv, WordsNew
<1>6. DrawInv(g, d, rd, sd)
  BY <1>3, <1>4, <1>5 DEF DrawInv
<1>7. QED
  BY <1>6 DEF d

LEMMA ReadDraws ==
  ASSUME NEW g, NEW c, NEW rd, NEW sd, NEW o, NEW r \in Replicas,
         TypeInv(g, c, rd, sd, o), DrawInv(g, c, rd, sd),
         \A q \in Replicas \ {r} : rd[q] = {}
  PROVE  DrawInv(g, c, [rd EXCEPT ![r] = {g}], sd)
<1> DEFINE e == [rd EXCEPT ![r] = {g}]
<1>1. e[r] = {g} /\ \A q \in Replicas : q # r => e[q] = {}
  BY DEF TypeInv
<1> HIDE DEF e
<1>2. AloneInNext(g, e)
  BY <1>1 DEF DrawInv, AloneInNext
<1>3. DrawInv(g, c, e, sd)
  BY <1>2 DEF DrawInv
<1>4. QED
  BY <1>3 DEF e

\* The tracer that is alone in next has read the generator's state, and writes
\* the following one: what it draws is new.
LEMMA WriteDraws ==
  ASSUME NEW g, NEW c, NEW rd, NEW sd, NEW o, NEW r \in Replicas,
         NEW a \in rd[r], NEW w \in c[r],
         TypeInv(g, c, rd, sd, o), DrawInv(g, c, rd, sd)
  PROVE  /\ a = g /\ \A q \in Replicas \ {r} : rd[q] = {}
         /\ DrawInv(g + 1, [c EXCEPT ![r] = {Append(w, a)}], [rd EXCEPT ![r] = {}], sd)
<1> DEFINE d == [c EXCEPT ![r] = {Append(w, a)}]
           e == [rd EXCEPT ![r] = {}]
<1>1. a = g /\ g \in Nat /\ \A q \in Replicas \ {r} : rd[q] = {}
  BY DEF DrawInv, AloneInNext
<1>2. w \in Seq(States) /\ a \in States
  BY DEF TypeInv
<1>3. d[r] = {Append(w, a)} /\ \A q \in Replicas : q # r => d[q] = c[q]
  BY DEF TypeInv
<1>4. \A q \in Replicas : e[q] = {}
  BY <1>1 DEF TypeInv
<1> HIDE DEF d, e
<1>5. \A i \in 1..Len(Append(w, a)) :
        \/ i \in 1..Len(w) /\ Append(w, a)[i] = w[i]
        \/ i = Len(w) + 1 /\ Append(w, a)[i] = g
  BY <1>1, <1>2
<1>6. \A q \in Replicas : \A v \in d[q] : \A i \in 1..Len(v) :
        \/ \E u \in c[q] : i \in 1..Len(u) /\ v[i] = u[i]
        \/ q = r /\ i = Len(w) + 1 /\ v[i] = g
  <2> SUFFICES ASSUME NEW q \in Replicas, NEW v \in d[q], NEW i \in 1..Len(v)
               PROVE  \/ \E u \in c[q] : i \in 1..Len(u) /\ v[i] = u[i]
                      \/ q = r /\ i = Len(w) + 1 /\ v[i] = g
    OBVIOUS
  <2>1. CASE q = r
    BY <1>3, <1>5, <2>1
  <2>2. CASE q # r
    BY <1>3, <2>2
  <2>3. QED
    BY <2>1, <2>2
<1>7. AloneInNext(g + 1, e)
  BY <1>1, <1>4 DEF AloneInNext
<1>8. DrawnBefore(g + 1, d, sd)
  <2>1. \A q \in Replicas : \A v \in d[q] : \A i \in 1..Len(v) : v[i] \in Nat /\ v[i] < g + 1
    BY <1>1, <1>6 DEF DrawInv, DrawnBefore
  <2>2. \A q \in Replicas : \A k \in DOMAIN sd[q] : \A i \in 1..SeedWords :
          sd[q][k][i] \in Nat /\ sd[q][k][i] < g + 1
    BY <1>1 DEF DrawInv, DrawnBefore
  <2>3. QED
    BY <2>1, <2>2 DEF DrawnBefore
<1>9. WordsApart(d)
  <2> SUFFICES ASSUME NEW p \in Replicas, NEW q \in Replicas, NEW u \in d[p], NEW v \in d[q],
                      NEW i \in 1..Len(u), NEW j \in 1..Len(v), u[i] = v[j]
               PROVE  p = q /\ i = j
    BY DEF WordsApart
  <2>1. \A x \in Replicas : \A y \in c[x] : \A k \in 1..Len(y) : y[k] # g
    BY <1>1 DEF DrawInv, DrawnBefore
  <2>2. CASE u[i] = g
    <3>1. p = r /\ i = Len(w) + 1
      BY <1>6, <2>1, <2>2
    <3>2. q = r /\ j = Len(w) + 1
      <4>1. v[j] = g
        BY <2>2
      <4>2. QED
        BY <1>6, <2>1, <4>1
    <3>3. QED
      BY <3>1, <3>2
  <2>3. CASE u[i] # g
    <3>1. PICK y \in c[p] : i \in 1..Len(y) /\ u[i] = y[i]
      BY <1>6, <2>3
    <3>2. PICK z \in c[q] : j \in 1..Len(z) /\ v[j] = z[j]
      BY <1>6, <2>3
    <3>3. WordsApart(c) /\ y[i] = z[j]
      BY <3>1, <3>2 DEF DrawInv
    <3>4. QED
      BY <3>1, <3>2, <3>3 DEF WordsApart
  <2>4. QED
    BY <2>2, <2>3
<1>10. WordsNew(d, sd)
  <2> SUFFICES ASSUME NEW p \in Replicas, NEW q \in Replicas, NEW u \in d[p],
                      NEW k \in DOMAIN sd[q], NEW i \in 1..Len(u), NEW j \in 1..SeedWords
               PROVE  u[i] # sd[q][k][j]
    BY DEF WordsNew
  <2>1. sd[q][k][j] # g
    BY <1>1 DEF DrawInv, DrawnBefore
  <2>2. CASE u[i] = g
    BY <2>1, <2>2
  <2>3. CASE u[i] # g
    <3>1. PICK y \in c[p] : i \in 1..Len(y) /\ u[i] = y[i]
      BY <1>6, <2>3
    <3>2. QED
      BY <3>1 DEF DrawInv, WordsNew
  <2>4. QED
    BY <2>2, <2>3
<1>11. DrawInv(g + 1, d, e, sd)
  BY <1>7, <1>8, <1>9, <1>10 DEF DrawInv
<1>12. QED
  BY <1>1, <1>11 DEF d, e

LEMMA SeededDraws ==
  ASSUME NEW g, NEW c, NEW rd, NEW sd, NEW o, NEW r \in Replicas, NEW w \in c[r],
         TypeInv(g, c, rd, sd, o), DrawInv(g, c, rd, sd), Len(w) = SeedWords
  PROVE  DrawInv(g, [c EXCEPT ![r] = {}], rd, [sd EXCEPT ![r] = Append(sd[r], w)])
<1> DEFINE d == [c EXCEPT ![r] = {}]
           s == [sd EXCEPT ![r] = Append(sd[r], w)]
           new == Len(sd[r]) + 1
<1>1. w \in Seq(States) /\ sd[r] \in Seq(Seq(States)) /\ c[r] = {w}
  BY DEF TypeInv
<1>2. d[r] = {} /\ \A q \in Replicas : q # r => d[q] = c[q]
  BY DEF TypeInv
<1>3. s[r] = Append(sd[r], w) /\ \A q \in Replicas : q # r => s[q] = sd[q]
  BY DEF TypeInv
<1> HIDE DEF d, s
<1>4. \A k \in DOMAIN s[r] : \/ k = new /\ s[r][k] = w
                             \/ k \in DOMAIN sd[r] /\ s[r][k] = sd[r][k]
  BY <1>1, <1>3
<1>5. \A q \in Replicas : \A k \in DOMAIN s[q] :
        \/ q = r /\ k = new /\ s[q][k] = w
        \/ k \in DOMAIN sd[q] /\ s[q][k] = sd[q][k]
  BY <1>3, <1>4
<1> HIDE DEF new
<1>6. \A q \in Replicas : \A v \in d[q] : q # r /\ v \in c[q]
  BY <1>2
<1>7. DrawnBefore(g, d, s)
  <2>1. \A q \in Replicas : \A v \in d[q] : \A i \in 1..Len(v) : v[i] \in Nat /\ v[i] < g
    BY <1>6 DEF DrawInv, DrawnBefore
  <2>2. \A i \in 1..SeedWords : w[i] \in Nat /\ w[i] < g
    BY DEF DrawInv, DrawnBefore
  <2>3. \A q \in Replicas : \A k \in DOMAIN s[q] : \A i \in 1..SeedWords :
          s[q][k][i] \in Nat /\ s[q][k][i] < g
    BY <1>5, <2>2 DEF DrawInv, DrawnBefore
  <2>4. QED
    BY <2>1, <2>3 DEF DrawnBefore
<1>8. WordsApart(d)
  BY <1>6 DEF DrawInv, WordsApart
<1>9. WordsNew(d, s)
  <2> SUFFICES ASSUME NEW p \in Replicas, NEW q \in Replicas, NEW u \in d[p],
                      NEW k \in DOMAIN s[q], NEW i \in 1..Len(u), NEW j \in 1..SeedWords
               PROVE  u[i] # s[q][k][j]
    BY DEF WordsNew
  <2>1. p # r /\ u \in c[p]
    BY <1>6
  <2>2. u[i] # w[j]
    BY <2>1 DEF DrawInv, WordsApart
  <2>3. QED
    BY <1>5, <2>1, <2>2 DEF DrawInv, WordsNew
<1>10. SeedsApart(s)
  <2> SUFFICES ASSUME NEW p \in Replicas, NEW q \in Replicas, NEW k \in DOMAIN s[p],
                      NEW l \in DOMAIN s[q], NEW i \in 1..SeedWords, NEW j \in 1..SeedWords,
                      s[p][k][i] = s[q][l][j]
               PROVE  p = q /\ k = l /\ i = j
    BY DEF SeedsApart
  <2>1. CASE s[p][k] = w /\ s[q][l] = w /\ p = r /\ q = r /\ k = new /\ l = new
    BY <2>1 DEF DrawInv, WordsApart
  <2>2. CASE s[p][k] = w /\ l \in DOMAIN sd[q] /\ s[q][l] = sd[q][l]
    BY <2>2 DEF DrawInv, WordsNew
  <2>3. CASE s[q][l] = w /\ k \in DOMAIN sd[p] /\ s[p][k] = sd[p][k]
    BY <2>3 DEF DrawInv, WordsNew
  <2>4. CASE /\ k \in DOMAIN sd[p] /\ s[p][k] = sd[p][k]
             /\ l \in DOMAIN sd[q] /\ s[q][l] = sd[q][l]
    BY <2>4 DEF DrawInv, SeedsApart
  <2>5. QED
    BY <1>5, <2>1, <2>2, <2>3, <2>4
<1>11. DrawInv(g, d, rd, s)
  BY <1>7, <1>8, <1>9, <1>10 DEF DrawInv
<1>12. QED
  BY <1>11 DEF d, s

-----------------------------------------------------------------------------
\* How many of the first p sockets are r's.
CountOf(o, r, p) == Cardinality({i \in 1..p : o[i] = r})

LEMMA CountType ==
  ASSUME NEW o, NEW r, NEW p \in Nat
  PROVE  IsFiniteSet({i \in 1..p : o[i] = r}) /\ CountOf(o, r, p) \in Nat
<1>1. IsFiniteSet(1..p)
  BY FS_Interval
<1>2. IsFiniteSet({i \in 1..p : o[i] = r})
  BY <1>1, FS_Subset
<1>3. QED
  BY <1>2, FS_CardinalityType DEF CountOf

\* Each of r's sockets counts: no two are the same of r's.
LEMMA CountGrows ==
  ASSUME NEW o, NEW r, NEW p \in Nat, NEW m \in Nat, p < m, o[m] = r
  PROVE  CountOf(o, r, p) < CountOf(o, r, m)
<1> DEFINE S == {i \in 1..p : o[i] = r}
           T == {i \in 1..m : o[i] = r}
<1>1. IsFiniteSet(S) /\ IsFiniteSet(T) /\ CountOf(o, r, p) \in Nat /\ CountOf(o, r, m) \in Nat
  BY CountType
<1>2. m \in T /\ m \notin S /\ S \subseteq T
  OBVIOUS
<1> HIDE DEF S, T
<1>3. Cardinality(S) <= Cardinality(T) /\ Cardinality(S) # Cardinality(T)
  BY <1>1, <1>2, FS_Subset
<1>4. CountOf(o, r, p) = Cardinality(S) /\ CountOf(o, r, m) = Cardinality(T)
  BY DEF CountOf, S, T
<1>5. QED
  BY <1>1, <1>3, <1>4

LEMMA CountIdentifies ==
  ASSUME NEW o, NEW r, NEW p \in Nat, NEW m \in Nat, o[p] = r, o[m] = r,
         CountOf(o, r, p) = CountOf(o, r, m)
  PROVE  p = m
<1>1. CountOf(o, r, p) \in Nat /\ CountOf(o, r, m) \in Nat
  BY CountType
<1>2. p < m => CountOf(o, r, p) < CountOf(o, r, m)
  BY CountGrows
<1>3. m < p => CountOf(o, r, m) < CountOf(o, r, p)
  BY CountGrows
<1>4. QED
  BY <1>1, <1>2, <1>3

\* A new socket counts for its replica, and leaves the other counts alone.
LEMMA CountAppend ==
  ASSUME NEW o \in Seq(Replicas), NEW q \in Replicas
  PROVE  /\ \A r : \A p \in 1..Len(o) : CountOf(Append(o, q), r, p) = CountOf(o, r, p)
         /\ \A r : CountOf(Append(o, q), r, Len(o) + 1) =
                     CountOf(o, r, Len(o)) + (IF r = q THEN 1 ELSE 0)
<1> DEFINE a == Append(o, q)
           n == Len(o)
<1>1. n \in Nat /\ a[n + 1] = q /\ \A i \in 1..n : a[i] = o[i]
  OBVIOUS
<1> HIDE DEF a
<1>2. ASSUME NEW r, NEW p \in 1..n
      PROVE  CountOf(a, r, p) = CountOf(o, r, p)
  <2>1. {i \in 1..p : a[i] = r} = {i \in 1..p : o[i] = r}
    BY <1>1
  <2>2. QED
    BY <2>1 DEF CountOf
<1>3. ASSUME NEW r
      PROVE  CountOf(a, r, n + 1) = CountOf(o, r, n) + (IF r = q THEN 1 ELSE 0)
  <2> DEFINE S == {i \in 1..n : o[i] = r}
             T == {i \in 1..(n + 1) : a[i] = r}
  <2>1. IsFiniteSet(S) /\ CountOf(o, r, n) \in Nat /\ CountOf(o, r, n) = Cardinality(S)
    BY <1>1, CountType DEF CountOf
  <2>2. n + 1 \notin S /\ T = IF r = q THEN S \cup {n + 1} ELSE S
    BY <1>1
  <2>3. CountOf(a, r, n + 1) = Cardinality(T)
    BY DEF CountOf
  <2> HIDE DEF S, T
  <2>4. CASE r = q
    <3>1. T = S \cup {n + 1}
      BY <2>2, <2>4
    <3>2. Cardinality(S \cup {n + 1}) = Cardinality(S) + 1
      BY <2>1, <2>2, FS_AddElement
    <3>3. QED
      BY <2>1, <2>3, <2>4, <3>1, <3>2
  <2>5. CASE r # q
    BY <2>1, <2>2, <2>3, <2>5
  <2>6. QED
    BY <2>4, <2>5
<1>4. QED
  BY <1>2, <1>3 DEF a

-----------------------------------------------------------------------------
\* Where sockets are created one after the other, the socket in place p of the
\* order has drawn the numbers from (p - 1) * SeedWords on; a replica's k-th
\* socket is the k-th in the order that is its own.
WordsAt(p, n) == [i \in 1..n |-> (p - 1) * SeedWords + i - 1]
OneCreates(c) == \A r, q \in Replicas : c[r] # {} /\ c[q] # {} => r = q
CurrentRead(g, rd) == \A r \in Replicas : rd[r] \subseteq {g}
NoneCreates(c) == \A r \in Replicas : c[r] = {}
LastCreates(g, c, o) ==
  \A r \in Replicas : \A w \in c[r] :
    /\ Len(o) > 0 /\ o[Len(o)] = r
    /\ w = WordsAt(Len(o), Len(w))
    /\ g = (Len(o) - 1) * SeedWords + Len(w)
Counted(c, sd, o) ==
  \A r \in Replicas :
    CountOf(o, r, Len(o)) = Len(sd[r]) + (IF c[r] = {} THEN 0 ELSE 1)
Placed(sd, o) ==
  \A r \in Replicas : \A k \in DOMAIN sd[r] : \E p \in 1..Len(o) :
    o[p] = r /\ CountOf(o, r, p) = k /\ sd[r][k] = WordsAt(p, SeedWords)
OrderInv(g, c, rd, sd, o) ==
  /\ OneCreates(c) /\ CurrentRead(g, rd)
  /\ NoneCreates(c) => g = Len(o) * SeedWords
  /\ LastCreates(g, c, o) /\ Counted(c, sd, o) /\ Placed(sd, o)

LEMMA CreateOrders ==
  ASSUME NEW g, NEW c, NEW rd, NEW sd, NEW o, NEW r \in Replicas,
         TypeInv(g, c, rd, sd, o), NoneCreates(c), OrderInv(g, c, rd, sd, o)
  PROVE  OrderInv(g, [c EXCEPT ![r] = {<<>>}], rd, sd, Append(o, r))
<1> DEFINE d == [c EXCEPT ![r] = {<<>>}]
           a == Append(o, r)
           n == Len(o)
<1>1. d[r] = {<<>>} /\ (\A q \in Replicas : q # r => d[q] = {}) /\ \A q \in Replicas : c[q] = {}
  BY DEF TypeInv, NoneCreates
<1>2. o \in Seq(Replicas) /\ n \in Nat /\ Len(a) = n + 1 /\ a[n + 1] = r
      /\ \A p \in 1..n : a[p] = o[p]
  BY DEF TypeInv
<1>3. /\ \A q : \A p \in 1..n : CountOf(a, q, p) = CountOf(o, q, p)
      /\ \A q : CountOf(a, q, n + 1) = CountOf(o, q, n) + (IF q = r THEN 1 ELSE 0)
  BY <1>2, CountAppend
<1> HIDE DEF d, a, n
<1>4. OneCreates(d) /\ ~NoneCreates(d) /\ CurrentRead(g, rd)
  BY <1>1 DEF OneCreates, NoneCreates, OrderInv
<1>5. LastCreates(g, d, a)
  <2>1. g = n * SeedWords
    BY DEF OrderInv, n
  <2>2. <<>> = WordsAt(n + 1, Len(<<>>))
    BY DEF WordsAt
  <2>3. g = (n + 1 - 1) * SeedWords + Len(<<>>)
    BY <1>2, <2>1, BoundsAssumption
  <2>4. QED
    BY <1>1, <1>2, <2>2, <2>3 DEF LastCreates
<1>6. Counted(d, sd, a)
  <2>1. \A q \in Replicas : sd[q] \in Seq(Seq(States)) /\ Len(sd[q]) \in Nat
    BY DEF TypeInv
  <2>2. \A q \in Replicas : CountOf(o, q, n) = Len(sd[q])
    <3>1. \A q \in Replicas : CountOf(o, q, n) = Len(sd[q]) + (IF c[q] = {} THEN 0 ELSE 1)
      BY DEF OrderInv, Counted, n
    <3>2. ASSUME NEW q \in Replicas PROVE CountOf(o, q, n) = Len(sd[q])
      <4>1. c[q] = {} /\ Len(sd[q]) \in Nat
        BY <1>1, <2>1
      <4>2. CountOf(o, q, n) = Len(sd[q]) + 0
        BY <3>1, <4>1
      <4>3. QED
        BY <4>1, <4>2
    <3>3. QED
      BY <3>2
  <2>3. \A q \in Replicas : CountOf(a, q, n + 1) = Len(sd[q]) + (IF d[q] = {} THEN 0 ELSE 1)
    BY <1>1, <1>3, <2>1, <2>2
  <2>4. QED
    BY <1>2, <2>3 DEF Counted
<1>7. Placed(sd, a)
  <2> SUFFICES ASSUME NEW q \in Replicas, NEW k \in DOMAIN sd[q]
               PROVE  \E p \in 1..Len(a) :
                        a[p] = q /\ CountOf(a, q, p) = k /\ sd[q][k] = WordsAt(p, SeedWords)
    BY DEF Placed
  <2>1. PICK p \in 1..n :
          o[p] = q /\ CountOf(o, q, p) = k /\ sd[q][k] = WordsAt(p, SeedWords)
    BY DEF OrderInv, Placed, n
  <2>2. p \in 1..Len(a) /\ a[p] = q /\ CountOf(a, q, p) = k
    BY <1>2, <1>3, <2>1
  <2>3. QED
    BY <2>1, <2>2
<1>8. OrderInv(g, d, rd, sd, a)
  BY <1>4, <1>5, <1>6, <1>7 DEF OrderInv
<1>9. QED
  BY <1>8 DEF d, a

LEMMA ReadOrders ==
  ASSUME NEW g, NEW c, NEW rd, NEW sd, NEW o, NEW r \in Replicas,
         TypeInv(g, c, rd, sd, o), OrderInv(g, c, rd, sd, o)
  PROVE  OrderInv(g, c, [rd EXCEPT ![r] = {g}], sd, o)
<1>1. CurrentRead(g, [rd EXCEPT ![r] = {g}])
  BY DEF TypeInv, OrderInv, CurrentRead
<1>2. QED
  BY <1>1 DEF OrderInv

\* The one that creates a socket is alone in next, so that it takes the next
\* number.
LEMMA WriteOrders ==
  ASSUME NEW g, NEW c, NEW rd, NEW sd, NEW o, NEW r \in Replicas,
         NEW a \in rd[r], NEW w \in c[r],
         TypeInv(g, c, rd, sd, o), OrderInv(g, c, rd, sd, o)
  PROVE  /\ a = g /\ g \in Nat /\ \A q \in Replicas \ {r} : rd[q] = {}
         /\ OrderInv(g + 1, [c EXCEPT ![r] = {Append(w, a)}], [rd EXCEPT ![r] = {}], sd, o)
<1> DEFINE d == [c EXCEPT ![r] = {Append(w, a)}]
           e == [rd EXCEPT ![r] = {}]
           n == Len(o)
           m == Len(w)
<1>1. \A q \in Replicas \ {r} : c[q] = {} /\ rd[q] = {}
  BY DEF TypeInv, OrderInv, OneCreates
<1>2. w \in Seq(States) /\ m \in Nat /\ n \in Nat
  BY DEF TypeInv
<1>3. n > 0 /\ o[n] = r /\ w = WordsAt(n, m) /\ g = (n - 1) * SeedWords + m
  BY DEF OrderInv, LastCreates
<1>4. (n - 1) * SeedWords \in Nat
  BY <1>2, <1>3, BoundsAssumption
<1>5. a = g /\ g \in Nat
  <2>1. a = g
    BY DEF OrderInv, CurrentRead
  <2>2. QED
    BY <1>2, <1>3, <1>4, <2>1
<1>6. d[r] = {Append(w, a)} /\ \A q \in Replicas : q # r => d[q] = {}
  BY <1>1 DEF TypeInv
<1>7. \A q \in Replicas : e[q] = {}
  BY <1>1 DEF TypeInv
<1> HIDE DEF d, e, n, m
<1>8. Append(w, a) = WordsAt(n, m + 1) /\ Len(Append(w, a)) = m + 1
  <2> DEFINE b == (n - 1) * SeedWords
  <2>1. b \in Nat /\ a = b + m
    BY <1>3, <1>4, <1>5
  <2>2. w = [i \in 1..m |-> b + i - 1] /\ WordsAt(n, m + 1) = [i \in 1..(m + 1) |-> b + i - 1]
    BY <1>3 DEF WordsAt
  <2> HIDE DEF b
  <2>3. \A i \in 1..(m + 1) : Append(w, a)[i] = b + i - 1
    <3> SUFFICES ASSUME NEW i \in 1..(m + 1)
                 PROVE  Append(w, a)[i] = b + i - 1
      OBVIOUS
    <3>1. CASE i = m + 1
      <4>1. Append(w, a)[i] = a
        BY <1>2, <3>1 DEF m
      <4>2. b + i - 1 = b + m
        BY <1>2, <2>1, <3>1
      <4>3. QED
        BY <2>1, <4>1, <4>2
    <3>2. CASE i # m + 1
      <4>1. i \in 1..m
        BY <1>2, <3>2
      <4>2. Append(w, a)[i] = w[i]
        BY <1>2, <4>1 DEF m
      <4>3. w[i] = b + i - 1
        BY <2>2, <4>1
      <4>4. QED
        BY <4>2, <4>3
    <3>3. QED
      BY <3>1, <3>2
  <2>4. Append(w, a) \in [1..(m + 1) -> States] /\ Len(Append(w, a)) = m + 1
    <3>1. a \in States
      BY <1>5 DEF States
    <3>2. Append(w, a) \in Seq(States) /\ Len(Append(w, a)) = m + 1
      BY <1>2, <3>1 DEF m
    <3>3. QED
      BY <3>2, LenProperties
  <2>5. Append(w, a) = [i \in 1..(m + 1) |-> Append(w, a)[i]]
    BY <2>4
  <2>6. [i \in 1..(m + 1) |-> Append(w, a)[i]] = [i \in 1..(m + 1) |-> b + i - 1]
    BY <2>3
  <2>7. QED
    BY <2>2, <2>4, <2>5, <2>6
<1>9. OneCreates(d) /\ CurrentRead(g + 1, e) /\ ~NoneCreates(d)
  BY <1>6, <1>7 DEF OneCreates, CurrentRead, NoneCreates
<1>10. LastCreates(g + 1, d, o)
  <2>1. g + 1 = (n - 1) * SeedWords + (m + 1)
    BY <1>2, <1>3, <1>4
  <2>2. QED
    BY <1>3, <1>6, <1>8, <2>1 DEF LastCreates, n
<1>11. Counted(d, sd, o)
  <2>1. \A q \in Replicas : d[q] = {} <=> c[q] = {}
    BY <1>1, <1>6
  <2>2. QED
    BY <2>1 DEF OrderInv, Counted
<1>12. OrderInv(g + 1, d, e, sd, o)
  BY <1>9, <1>10, <1>11 DEF OrderInv
<1>13. QED
  BY <1>1, <1>5, <1>12 DEF d, e

LEMMA SeededOrders ==
  ASSUME NEW g, NEW c, NEW rd, NEW sd, NEW o, NEW r \in Replicas, NEW w \in c[r],
         TypeInv(g, c, rd, sd, o), OrderInv(g, c, rd, sd, o), Len(w) = SeedWords
  PROVE  OrderInv(g, [c EXCEPT ![r] = {}], rd, [sd EXCEPT ![r] = Append(sd[r], w)], o)
<1> DEFINE d == [c EXCEPT ![r] = {}]
           s == [sd EXCEPT ![r] = Append(sd[r], w)]
           n == Len(o)
<1>1. w \in Seq(States) /\ sd[r] \in Seq(Seq(States)) /\ n \in Nat
      /\ Len(sd[r]) \in Nat
  BY DEF TypeInv
<1>2. \A q \in Replicas : d[q] = {}
  BY DEF TypeInv, OrderInv, OneCreates
<1>3. s[r] = Append(sd[r], w) /\ \A q \in Replicas : q # r => s[q] = sd[q]
  BY DEF TypeInv
<1>4. n > 0 /\ o[n] = r /\ w = WordsAt(n, SeedWords) /\ g = (n - 1) * SeedWords + SeedWords
  BY DEF OrderInv, LastCreates
<1>5. CountOf(o, r, n) = Len(sd[r]) + 1
  BY DEF OrderInv, Counted
<1>6. \A q \in Replicas : q # r => c[q] = {}
  BY DEF OrderInv, OneCreates
<1> HIDE DEF d, s, n
<1>7. OneCreates(d) /\ CurrentRead(g, rd) /\ LastCreates(g, d, o)
  BY <1>2 DEF OneCreates, OrderInv, LastCreates
<1>8. g = n * SeedWords
  BY <1>1, <1>4, BoundsAssumption
<1>9. Counted(d, s, o)
  <2> SUFFICES ASSUME NEW q \in Replicas
               PROVE  CountOf(o, q, n) = Len(s[q]) + 0
    BY <1>2 DEF Counted, n
  <2>1. CASE q = r
    <3>1. Len(s[r]) = Len(sd[r]) + 1
      BY <1>1, <1>3
    <3>2. QED
      BY <1>1, <1>5, <2>1, <3>1
  <2>2. CASE q # r
    BY <1>3, <1>6, <2>2 DEF OrderInv, Counted, n
  <2>3. QED
    BY <2>1, <2>2
<1>10. Placed(s, o)
  <2> SUFFICES ASSUME NEW q \in Replicas, NEW k \in DOMAIN s[q]
               PROVE  \E p \in 1..n :
                        o[p] = q /\ CountOf(o, q, p) = k /\ s[q][k] = WordsAt(p, SeedWords)
    BY DEF Placed, n
  <2>1. CASE k \in DOMAIN sd[q] /\ s[q][k] = sd[q][k]
    BY <2>1 DEF OrderInv, Placed, n
  <2>2. CASE q = r /\ k = Len(sd[r]) + 1 /\ s[q][k] = w
    <3>1. n \in 1..n /\ o[n] = q /\ CountOf(o, q, n) = k /\ s[q][k] = WordsAt(n, SeedWords)
      BY <1>1, <1>4, <1>5, <2>2
    <3>2. QED
      BY <3>1
  <2>3. QED
    <3>1. q = r => \/ k = Len(sd[r]) + 1 /\ s[q][k] = w
                   \/ k \in DOMAIN sd[q] /\ s[q][k] = sd[q][k]
      <4>1. \A l \in DOMAIN Append(sd[r], w) :
              \/ l = Len(sd[r]) + 1 /\ Append(sd[r], w)[l] = w
              \/ l \in DOMAIN sd[r] /\ Append(sd[r], w)[l] = sd[r][l]
        BY <1>1
      <4>2. QED
        BY <1>3, <4>1
    <3>2. QED
      BY <1>3, <2>1, <2>2, <3>1
<1>11. OrderInv(g, d, rd, s, o)
  BY <1>7, <1>8, <1>9, <1>10 DEF OrderInv, n
<1>12. QED
  BY <1>11 DEF d, s

-----------------------------------------------------------------------------
\* The invariant: every execution has its type; one without a race has drawn
\* different numbers; one whose sockets were created one after the other has
\* drawn those that their order says.
RunInv(e) ==
  /\ TypeInv(rng[e], creating[e], reading[e], seeds[e], order[e])
  /\ e \notin raced => DrawInv(rng[e], creating[e], reading[e], seeds[e])
  /\ e \notin overlap => OrderInv(rng[e], creating[e], reading[e], seeds[e], order[e])
Shapes ==
  /\ DOMAIN rng = Runs /\ DOMAIN creating = Runs /\ DOMAIN reading = Runs
  /\ DOMAIN seeds = Runs /\ DOMAIN order = Runs
  /\ \A e \in Runs : /\ DOMAIN creating[e] = Replicas /\ DOMAIN reading[e] = Replicas
                     /\ DOMAIN seeds[e] = Replicas
Inv == Shapes /\ \A e \in Runs : RunInv(e)

LEMMA InitInv == Init => Inv
<1> SUFFICES ASSUME Init PROVE Inv
  OBVIOUS
<1>1. Shapes
  BY DEF Init, Shapes
<1>2. ASSUME NEW e \in Runs PROVE RunInv(e)
  <2>1. /\ rng[e] = 0 /\ order[e] = <<>>
        /\ \A r \in Replicas : creating[e][r] = {} /\ reading[e][r] = {} /\ seeds[e][r] = <<>>
    BY DEF Init, ConfiguredSeed
  <2>2. TypeInv(rng[e], creating[e], reading[e], seeds[e], order[e])
    BY DEF Init, ConfiguredSeed, TypeInv, States
  <2>3. \A r \in Replicas : DOMAIN seeds[e][r] = {}
    BY <2>1
  <2>4. DrawInv(rng[e], creating[e], reading[e], seeds[e])
    BY <2>1, <2>3 DEF DrawInv, AloneInNext, DrawnBefore, WordsApart, WordsNew, SeedsApart
  <2>5. \A r \in Replicas : CountOf(order[e], r, Len(order[e])) = 0
    <3> SUFFICES ASSUME NEW r \in Replicas PROVE CountOf(order[e], r, Len(order[e])) = 0
      OBVIOUS
    <3>1. {i \in 1..Len(order[e]) : order[e][i] = r} = {}
      BY <2>1
    <3>2. QED
      BY <3>1, FS_EmptySet DEF CountOf
  <2>6. Counted(creating[e], seeds[e], order[e])
    <3>1. ASSUME NEW r \in Replicas
          PROVE  CountOf(order[e], r, Len(order[e])) = Len(seeds[e][r]) + 0 /\ creating[e][r] = {}
      <4>1. Len(seeds[e][r]) = 0
        BY <2>1
      <4>2. QED
        BY <2>1, <2>5, <4>1
    <3>2. QED
      BY <3>1 DEF Counted
  <2>7. rng[e] = Len(order[e]) * SeedWords
    BY <2>1, BoundsAssumption
  <2>8. OrderInv(rng[e], creating[e], reading[e], seeds[e], order[e])
    <3>1. OneCreates(creating[e]) /\ CurrentRead(rng[e], reading[e])
      BY <2>1 DEF OneCreates, CurrentRead
    <3>2. LastCreates(rng[e], creating[e], order[e])
      BY <2>1 DEF LastCreates
    <3>3. Placed(seeds[e], order[e])
      BY <2>3 DEF Placed
    <3>4. QED
      BY <2>6, <2>7, <3>1, <3>2, <3>3 DEF OrderInv
  <2>9. QED
    BY <2>2, <2>4, <2>8 DEF RunInv
<1>3. QED
  BY <1>1, <1>2 DEF Inv

\* A step of one execution leaves the others as they are.
Others(e) ==
  \A f \in Runs \ {e} :
    /\ rng'[f] = rng[f] /\ creating'[f] = creating[f] /\ reading'[f] = reading[f]
    /\ seeds'[f] = seeds[f] /\ order'[f] = order[f]
    /\ f \in raced' <=> f \in raced
    /\ f \in overlap' <=> f \in overlap

LEMMA StepInv ==
  ASSUME Inv, NEW e \in Runs, Others(e), Shapes', RunInv(e)'
  PROVE  Inv'
<1>1. ASSUME NEW f \in Runs \ {e} PROVE RunInv(f)'
  BY <1>1 DEF Inv, RunInv, Others
<1>2. QED
  BY <1>1 DEF Inv

LEMMA CreateInv ==
  ASSUME Inv, NEW e \in Runs, NEW r \in Replicas, Create(e, r)
  PROVE  Inv'
<1> DEFINE g == rng[e]
           c == creating[e]
           d == [c EXCEPT ![r] = {<<>>}]
           rd == reading[e]
           sd == seeds[e]
           o == order[e]
<1>1. /\ rng'[e] = g /\ creating'[e] = d /\ reading'[e] = rd
      /\ seeds'[e] = sd /\ order'[e] = Append(o, r) /\ raced' = raced /\ c[r] = {}
  BY DEF Inv, Shapes, Create
<1>2. e \notin overlap' => e \notin overlap /\ Creating(e, r) = {}
  BY DEF Create
<1>3. Shapes' /\ Others(e)
  BY DEF Inv, Shapes, Create, Others
<1>4. /\ TypeInv(g, c, rd, sd, o)
      /\ e \notin raced => DrawInv(g, c, rd, sd)
      /\ e \notin overlap => OrderInv(g, c, rd, sd, o)
  BY DEF Inv, RunInv
<1>5. Creating(e, r) = {} => NoneCreates(c)
  BY <1>1 DEF Creating, NoneCreates
<1> HIDE DEF g, c, rd, sd, o
<1>6. TypeInv(g, d, rd, sd, Append(o, r))
  BY <1>1, <1>4, CreateTypes
<1>7. e \notin raced => DrawInv(g, d, rd, sd)
  BY <1>1, <1>4, CreateDraws
<1>8. e \notin overlap' => OrderInv(g, d, rd, sd, Append(o, r))
  BY <1>2, <1>4, <1>5, CreateOrders
<1> HIDE DEF d
<1>9. RunInv(e)'
  BY <1>1, <1>6, <1>7, <1>8 DEF RunInv
<1>10. QED
  BY <1>3, <1>9, StepInv

LEMMA NextReadsInv ==
  ASSUME Inv, NEW e \in Runs, NEW r \in Replicas, NextReads(e, r)
  PROVE  Inv'
<1> DEFINE g == rng[e]
           c == creating[e]
           rd == reading[e]
           re == [rd EXCEPT ![r] = {g}]
           sd == seeds[e]
           o == order[e]
<1>1. /\ rng'[e] = g /\ creating'[e] = c /\ reading'[e] = re
      /\ seeds'[e] = sd /\ order'[e] = o /\ overlap' = overlap
      /\ \E w \in c[r] : Len(w) < SeedWords
  BY DEF Inv, Shapes, NextReads
<1>2. e \notin raced' => e \notin raced /\ Reading(e, r) = {}
  BY DEF NextReads
<1>3. Shapes' /\ Others(e)
  BY DEF Inv, Shapes, NextReads, Others
<1>4. /\ TypeInv(g, c, rd, sd, o)
      /\ e \notin raced => DrawInv(g, c, rd, sd)
      /\ e \notin overlap => OrderInv(g, c, rd, sd, o)
  BY DEF Inv, RunInv
<1>5. Reading(e, r) = {} => \A q \in Replicas \ {r} : rd[q] = {}
  BY DEF Reading
<1> HIDE DEF g, c, rd, sd, o
<1>6. TypeInv(g, c, re, sd, o)
  BY <1>1, <1>4, ReadTypes
<1>7. e \notin raced' => DrawInv(g, c, re, sd)
  BY <1>2, <1>4, <1>5, ReadDraws
<1>8. e \notin overlap => OrderInv(g, c, re, sd, o)
  BY <1>4, ReadOrders
<1> HIDE DEF re
<1>9. RunInv(e)'
  BY <1>1, <1>6, <1>7, <1>8 DEF RunInv
<1>10. QED
  BY <1>3, <1>9, StepInv

LEMMA NextWritesInv ==
  ASSUME Inv, NEW e \in Runs, NEW r \in Replicas, NextWrites(e, r)
  PROVE  Inv'
<1>1. PICK a \in reading[e][r], w \in creating[e][r] :
        /\ \/ rng' = [rng EXCEPT ![e] = Advanced(a, w)]
           \/ /\ Reading(e, r) # {} \/ rng[e] # a
              /\ rng' = [rng EXCEPT ![e] = Torn]
        /\ creating' = [creating EXCEPT ![e][r] = {Append(w, a)}]
  BY DEF NextWrites
<1> DEFINE g == rng[e]
           h == rng'[e]
           c == creating[e]
           d == [c EXCEPT ![r] = {Append(w, a)}]
           rd == reading[e]
           re == [rd EXCEPT ![r] = {}]
           sd == seeds[e]
           o == order[e]
<1>2. /\ creating'[e] = d /\ reading'[e] = re /\ seeds'[e] = sd /\ order'[e] = o
      /\ overlap' = overlap /\ raced' = raced
  BY <1>1 DEF Inv, Shapes, NextWrites
<1>3. Shapes' /\ Others(e)
  <2>1. DOMAIN rng' = Runs /\ \A f \in Runs \ {e} : rng'[f] = rng[f]
    BY <1>1 DEF Inv, Shapes
  <2>2. /\ DOMAIN creating' = Runs /\ DOMAIN creating'[e] = Replicas
        /\ \A f \in Runs \ {e} : creating'[f] = creating[f]
    BY <1>1 DEF Inv, Shapes
  <2>3. /\ DOMAIN reading' = Runs /\ DOMAIN reading'[e] = Replicas
        /\ \A f \in Runs \ {e} : reading'[f] = reading[f]
    BY DEF NextWrites, Inv, Shapes
  <2>4. UNCHANGED <<seeds, order, overlap, raced>>
    BY DEF NextWrites
  <2>5. QED
    BY <2>1, <2>2, <2>3, <2>4 DEF Inv, Shapes, Others
<1>4. /\ TypeInv(g, c, rd, sd, o)
      /\ e \notin raced => DrawInv(g, c, rd, sd)
      /\ e \notin overlap => OrderInv(g, c, rd, sd, o)
  BY DEF Inv, RunInv
<1>5. a \in rd[r] /\ w \in c[r] /\ a \in States
  BY <1>1, <1>4 DEF TypeInv
<1>6. h = Advanced(a, w) \/ (h = Torn /\ (g # a \/ Reading(e, r) # {}))
  BY <1>1 DEF Inv, Shapes
<1>7. h \in States
  BY <1>5, <1>6 DEF Advanced, States
<1>8. a = g /\ g \in Nat /\ (\A q \in Replicas \ {r} : rd[q] = {}) => h = g + 1
  BY <1>6, TornAssumption DEF Advanced, Reading
<1> HIDE DEF g, h, c, rd, sd, o
<1>9. TypeInv(h, d, re, sd, o)
  BY <1>4, <1>5, <1>7, WriteTypes
<1>10. ASSUME e \notin raced PROVE DrawInv(h, d, re, sd)
  <2>1. DrawInv(g, c, rd, sd)
    BY <1>4, <1>10
  <2>2. /\ a = g /\ \A q \in Replicas \ {r} : rd[q] = {}
        /\ DrawInv(g + 1, d, re, sd)
    BY <1>4, <1>5, <2>1, WriteDraws
  <2>3. g \in Nat
    BY <2>1 DEF DrawInv, AloneInNext
  <2> HIDE DEF d, re
  <2>4. QED
    BY <1>8, <2>2, <2>3
<1>11. ASSUME e \notin overlap PROVE OrderInv(h, d, re, sd, o)
  <2>1. OrderInv(g, c, rd, sd, o)
    BY <1>4, <1>11
  <2>2. /\ a = g /\ g \in Nat /\ \A q \in Replicas \ {r} : rd[q] = {}
        /\ OrderInv(g + 1, d, re, sd, o)
    BY <1>4, <1>5, <2>1, WriteOrders
  <2> HIDE DEF d, re
  <2>3. QED
    BY <1>8, <2>2
<1> HIDE DEF d, re
<1>12. RunInv(e)'
  BY <1>2, <1>9, <1>10, <1>11 DEF RunInv, h
<1>13. QED
  BY <1>3, <1>12, StepInv

LEMMA SeededInv ==
  ASSUME Inv, NEW e \in Runs, NEW r \in Replicas, Seeded(e, r)
  PROVE  Inv'
<1>1. PICK w \in creating[e][r] :
        Len(w) = SeedWords /\ seeds' = [seeds EXCEPT ![e][r] = Append(@, w)]
  BY DEF Seeded
<1> DEFINE g == rng[e]
           c == creating[e]
           d == [c EXCEPT ![r] = {}]
           rd == reading[e]
           sd == seeds[e]
           s == [sd EXCEPT ![r] = Append(sd[r], w)]
           o == order[e]
<1>2. /\ rng'[e] = g /\ creating'[e] = d /\ reading'[e] = rd /\ seeds'[e] = s
      /\ order'[e] = o /\ overlap' = overlap /\ raced' = raced
  BY <1>1 DEF Inv, Shapes, Seeded
<1>3. Shapes' /\ Others(e)
  BY <1>1 DEF Inv, Shapes, Seeded, Others
<1>4. /\ TypeInv(g, c, rd, sd, o)
      /\ e \notin raced => DrawInv(g, c, rd, sd)
      /\ e \notin overlap => OrderInv(g, c, rd, sd, o)
  BY DEF Inv, RunInv
<1>5. w \in c[r] /\ Len(w) = SeedWords
  BY <1>1
<1> HIDE DEF g, c, rd, sd, o
<1>6. TypeInv(g, d, rd, s, o)
  BY <1>4, <1>5, SeededTypes
<1>7. e \notin raced => DrawInv(g, d, rd, s)
  BY <1>4, <1>5, SeededDraws
<1>8. e \notin overlap => OrderInv(g, d, rd, s, o)
  BY <1>4, <1>5, SeededOrders
<1> HIDE DEF d, s
<1>9. RunInv(e)'
  BY <1>2, <1>6, <1>7, <1>8 DEF RunInv
<1>10. QED
  BY <1>3, <1>9, StepInv

\* The invariant holds in every behaviour.
THEOREM InvHolds == Spec => []Inv
<1>1. Init => Inv
  BY InitInv
<1>2. Inv /\ [Next]_vars => Inv'
  <2> SUFFICES ASSUME Inv, [Next]_vars PROVE Inv'
    OBVIOUS
  <2>1. CASE UNCHANGED vars
    BY <2>1 DEF vars, Inv, Shapes, RunInv
  <2>2. ASSUME NEW e \in Runs, NEW r \in Replicas,
               Create(e, r) \/ NextReads(e, r) \/ NextWrites(e, r) \/ Seeded(e, r)
        PROVE  Inv'
    BY <2>2, CreateInv, NextReadsInv, NextWritesInv, SeededInv
  <2>3. QED
    BY <2>1, <2>2 DEF Next
<1>3. QED
  BY <1>1, <1>2, PTL DEF Spec

\* As long as no two tracers were in next at once, no number was drawn twice:
\* seed_from gives the generators of different sockets different words.
THEOREM NumbersDrawnOnce == Spec => []DrawnOnce
<1>1. Inv => DrawnOnce
  <2> SUFFICES ASSUME Inv, NEW e \in Runs \ raced, NEW s \in SocketsOf(e), NEW t \in SocketsOf(e),
                      NEW i \in 1..SeedWords, NEW j \in 1..SeedWords,
                      seeds[e][s[1]][s[2]][i] = seeds[e][t[1]][t[2]][j]
               PROVE  s = t /\ i = j
    BY DEF DrawnOnce
  <2>1. SeedsApart(seeds[e])
    BY DEF Inv, RunInv, DrawInv
  <2>2. /\ s = <<s[1], s[2]>> /\ s[1] \in Replicas /\ s[2] \in DOMAIN seeds[e][s[1]]
        /\ t = <<t[1], t[2]>> /\ t[1] \in Replicas /\ t[2] \in DOMAIN seeds[e][t[1]]
    BY DEF SocketsOf
  <2>3. s[1] = t[1] /\ s[2] = t[2] /\ i = j
    BY <2>1, <2>2 DEF SeedsApart
  <2>4. QED
    BY <2>2, <2>3
<1>2. QED
  BY <1>1, InvHolds, PTL

\* The order in which sockets are created, one after the other, is all that
\* their seeds depend on (datagram_socket's constructor).
THEOREM OrderDecidesSeeds == Spec => []OrderDecides
<1>1. Inv => OrderDecides
  <2> SUFFICES ASSUME Inv, NEW e \in Runs \ overlap, NEW f \in Runs \ overlap,
                      order[e] = order[f], NEW s \in SocketsOf(e) \cap SocketsOf(f)
               PROVE  seeds[e][s[1]][s[2]] = seeds[f][s[1]][s[2]]
    BY DEF OrderDecides
  <2> DEFINE o == order[e]
             r == s[1]
             k == s[2]
  <2>1. r \in Replicas /\ k \in DOMAIN seeds[e][r] /\ k \in DOMAIN seeds[f][r]
    BY DEF SocketsOf
  <2>2. Placed(seeds[e], o) /\ Placed(seeds[f], o) /\ o \in Seq(Replicas)
    BY DEF Inv, RunInv, OrderInv, TypeInv
  <2> HIDE DEF o, r, k
  <2>3. PICK p \in 1..Len(o) :
          o[p] = r /\ CountOf(o, r, p) = k /\ seeds[e][r][k] = WordsAt(p, SeedWords)
    BY <2>1, <2>2 DEF Placed
  <2>4. PICK m \in 1..Len(o) :
          o[m] = r /\ CountOf(o, r, m) = k /\ seeds[f][r][k] = WordsAt(m, SeedWords)
    BY <2>1, <2>2 DEF Placed
  <2>5. p = m
    BY <2>2, <2>3, <2>4, CountIdentifies
  <2>6. QED
    BY <2>3, <2>4, <2>5 DEF r, k
<1>2. QED
  BY <1>1, InvHolds, PTL
=============================================================================
