---------------------------- MODULE GuestMemory -----------------------------
(***************************************************************************)
(* How the simulator reads and writes the memory of a guest:               *)
(* ptrace_runner_handle::read_memory and write_memory, word by word with   *)
(* PTRACE_PEEKDATA and PTRACE_POKEDATA, whose failures they ignore.        *)
(*                                                                         *)
(* A memory is a function from the addresses that are mapped to bytes.     *)
(* That of a guest that has ended is the empty function.                   *)
(*                                                                         *)
(* An operator named Fault... is a variant, with a mistake in it, of the   *)
(* operator that follows; the runs of the project detect each of them.     *)
(***************************************************************************)
EXTENDS Integers, Sequences, SequencesExt

CONSTANTS
  WordSize,   \* sizeof(long)
  AllOnes     \* the byte of which the error -1 of ptrace is made

ASSUME WordSizeAssumption == WordSize \in Nat \ {0}

Word(p) == p..(p + WordSize - 1)

\* PTRACE_PEEKDATA: the word at p, or -1 if any of it is not mapped.
Peek(mem, p) ==
  [i \in 1..WordSize |-> IF Word(p) \subseteq DOMAIN mem THEN mem[p + i - 1] ELSE AllOnes]

\* PTRACE_POKEDATA writes as far as the word is mapped.
Poke(mem, p, word) ==
  [a \in DOMAIN mem |->
     IF a \in Word(p) /\ p..a \subseteq DOMAIN mem THEN word[a - p + 1] ELSE mem[a]]

\* n bytes are copied as the words 1..Words(n), of which the last may be
\* shorter; the k-th starts WordAt(k) bytes from the first.  Mistake: the last
\* one is copied whole.
Words(n) == (n + WordSize - 1) \div WordSize
WordAt(k) == (k - 1) * WordSize
FaultWholeWord(n, k) == WordSize
LengthOf(n, k) == IF k * WordSize <= n THEN WordSize ELSE n - WordAt(k)

\* read_memory: the k-th step of reading n bytes at p.  Mistake: the last word
\* is taken from the end of the bytes.
FaultLastWordAligned(mem, p, n, k) ==
  SubSeq(Peek(mem, IF k = Words(n) /\ n >= WordSize THEN p + n - WordSize ELSE p + WordAt(k)),
         1, LengthOf(n, k))
ReadWord(mem, p, n, k) == SubSeq(Peek(mem, p + WordAt(k)), 1, LengthOf(n, k))

\* write_memory: what the k-th word of data becomes; the rest of a short word
\* is what the guest has there.  Mistake: the rest is not fetched.
FaultRestNotFetched(mem, p, data, k) ==
  [i \in 1..WordSize |-> IF WordAt(k) + i <= Len(data) THEN data[WordAt(k) + i] ELSE AllOnes]
WordToPoke(mem, p, data, k) ==
  [i \in 1..WordSize |-> IF WordAt(k) + i <= Len(data) THEN data[WordAt(k) + i]
                         ELSE Peek(mem, p + WordAt(k))[i]]

WriteMemory(mem, p, data) ==
  FoldLeft(LAMBDA m, k : Poke(m, p + WordAt(k), WordToPoke(m, p, data, k)),
           mem, [k \in 1..Words(Len(data)) |-> k])
=============================================================================
