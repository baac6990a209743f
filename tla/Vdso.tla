-------------------------------- MODULE Vdso --------------------------------
(***************************************************************************)
(* remove_vdso, which keeps a guest from reading the clock without a       *)
(* system call: on the stack of a program that was just executed it        *)
(* replaces the key of the entry that leads to the vDSO.                   *)
(*                                                                         *)
(* The kernel lays the stack out, from the stack pointer up, as the number *)
(* of arguments, their pointers, a null, the pointers of the environment,  *)
(* a null, and the auxiliary vector: pairs of a key and a value, the last  *)
(* of which is null.  The entry of the vDSO is the first, if there is one. *)
(*                                                                         *)
(* An operator named Fault... is a variant, with a mistake in it, of the   *)
(* operator that follows; the runs of the project detect each of them.     *)
(***************************************************************************)
EXTENDS Integers, Sequences, FiniteSets

AT_NULL == 0
AT_IGNORE == 1
AT_SYSINFO_EHDR == 33

\* A pointer; which one makes no difference.
Pointer == 4096

\* The words of an auxiliary vector: keys and values in turn.
Words(aux) == [i \in 1..(2 * Len(aux)) |-> aux[(i + 1) \div 2][2 - (i % 2)]]

\* A program's image: the numbers of its arguments and of the strings of its
\* environment, and its auxiliary vector.
Layout(image) ==
  <<image.args>>
  \o [i \in 1..image.args |-> Pointer] \o <<0>>
  \o [i \in 1..image.env |-> Pointer] \o <<0>>
  \o Words(image.aux) \o <<AT_NULL, 0>>

\* Where its i-th key is.
KeyAt(image, i) == image.args + image.env + 2 * i + 2

\* What the kernel guarantees: no key is null, and the vDSO's entry is the
\* first.  Without one, a value that looks like its key comes after a null value
\* (AT_FLAGS, which is 0, comes before the identities of the user).
KernelImage(image) ==
  /\ image \in [args : Nat, env : Nat, aux : Seq(Nat \X Nat)]
  /\ \A i \in DOMAIN image.aux :
       /\ image.aux[i][1] # AT_NULL
       /\ image.aux[i][1] = AT_SYSINFO_EHDR => i = 1
       /\ image.aux[i][2] = AT_SYSINFO_EHDR /\ image.aux[1][1] # AT_SYSINFO_EHDR =>
            \E j \in 1..(i - 1) : image.aux[j][2] = AT_NULL

\* Positions of nulls above the stack pointer, and the second of them.
\* Mistake: the first.
Nulls(stack) == {i \in DOMAIN stack : i > 1 /\ stack[i] = AT_NULL}
FaultFirstNull(stack) == CHOOSE i \in Nulls(stack) : \A j \in Nulls(stack) : i <= j
SecondNull(stack) ==
  CHOOSE i \in Nulls(stack) : Cardinality({j \in Nulls(stack) : j < i}) = 1

\* The scan that follows looks at keys and values alike, and ends at the first
\* that is null or the vDSO's key; the latter is replaced.
ScanEnd(stack) ==
  LET ends == {i \in DOMAIN stack :
                 i > SecondNull(stack) /\ stack[i] \in {AT_NULL, AT_SYSINFO_EHDR}}
  IN CHOOSE i \in ends : \A j \in ends : i <= j

RemoveVdso(stack) ==
  [stack EXCEPT ![ScanEnd(stack)] = IF @ = AT_SYSINFO_EHDR THEN AT_IGNORE ELSE @]
=============================================================================
