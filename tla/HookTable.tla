----------------------------- MODULE HookTable ------------------------------
(***************************************************************************)
(* The table of system call hooks (hook/hook.cpp) and the statistics that  *)
(* get_hook keeps.  The table is built by the first get_hook of any tracer *)
(* thread, and get_hook holds a mutex from its first line to its last: one *)
(* call is one step.                                                       *)
(*                                                                         *)
(* build_hook_table means to size the table by the largest number in its   *)
(* list of pairs, but gives std::max the list's two ends instead of the    *)
(* list: it compares the first pair with the one past the last, memory     *)
(* that the list reserved and never wrote.  The model lets that memory     *)
(* hold any number.                                                        *)
(***************************************************************************)
EXTENDS Integers, SequencesExt

CONSTANTS
  Hooks,        \* the pairs of a number and a hook, in the order of the list
  Passthrough,  \* the hook explicit_passthrough
  NoHook,       \* nullptr
  Numbers,      \* numbers of calls, as the kernel reports them: ints that
                \* are extended, with their sign, to a uint64_t
  IntMax,       \* 2^31
  Named,        \* numbers that syscall_name knows
  NoName,       \* its answer for others
  SizeModulus,  \* 2^64
  MaxTable      \* the largest table that can be allocated

Hooked == {Hooks[i][1] : i \in DOMAIN Hooks}

ASSUME HooksAssumption ==
  /\ Hooks # <<>> /\ Hooks \in Seq(Nat \X {Hooks[i][2] : i \in DOMAIN Hooks})
  /\ Hooked \subseteq 0..(MaxTable - 1)
  /\ NoHook \notin {Hooks[i][2] : i \in DOMAIN Hooks} \cup {Passthrough}
ASSUME TableAssumption == MaxTable \in Nat /\ SizeModulus \in Nat /\ MaxTable < SizeModulus
ASSUME NumbersAssumption ==
  /\ IntMax \in Nat /\ IntMax <= SizeModulus
  /\ Numbers \subseteq 0..(IntMax - 1) \cup (SizeModulus - IntMax)..(SizeModulus - 1)
ASSUME NamedAssumption ==
  /\ Hooked \subseteq Named /\ Named \subseteq 0..(IntMax - 1)
  /\ NoName \notin Named

VARIABLES
  table,            \* the static table of hook_table, none before it is built
  all,              \* the names of all calls so far
  passthroughSet,   \* those that went to explicit_passthrough
  unimplemented,    \* those without a hook
  implemented,      \* the others
  answers,          \* what get_hook returned: <<number, hook>>
  ended             \* std::terminate was called

hookVars == <<table, all, passthroughSet, unimplemented, implemented, answers, ended>>

Unbuilt == <<>>

-----------------------------------------------------------------------------
\* What *max reads is the first pair's number, or that of the memory past the
\* last if it is larger; adding 1 may wrap around.
MaxSysno(memory) == IF Hooks[1][1] < memory THEN memory ELSE Hooks[1][1]
FirstSize(memory) == (MaxSysno(memory) + 1) % SizeModulus

\* A vector, indexed from 0, that is made larger.
Resized(t, n) == [i \in 0..(n - 1) |-> IF i \in DOMAIN t THEN t[i] ELSE NoHook]

\* One round of the loop that fills the table.  Mistake: it relies on the
\* table's size.
FaultNotGrown(t, pair) ==
  IF pair[1] \in DOMAIN t THEN [t EXCEPT ![pair[1]] = pair[2]] ELSE t
Filled(t, pair) ==
  [(IF pair[1] \in DOMAIN t THEN t ELSE Resized(t, pair[1] + 1))
     EXCEPT ![pair[1]] = pair[2]]

BuildHookTable(memory) == FoldLeft(Filled, Resized(Unbuilt, FirstSize(memory)), Hooks)

\* get_hook's uint64_t as the int that syscall_name takes: the int that the
\* kernel had.
ToInt(sys) == IF sys < IntMax THEN sys ELSE sys - SizeModulus

\* syscall_name.  Mistake: its parameter is too narrow.
FaultNarrow(sys) == IF sys % 4 \in Named THEN sys % 4 ELSE NoName
SyscallName(sys) == IF ToInt(sys) \in Named THEN ToInt(sys) ELSE NoName

HookInit ==
  /\ table = Unbuilt
  /\ all = {} /\ passthroughSet = {} /\ unimplemented = {} /\ implemented = {}
  /\ answers = {}
  /\ ended = FALSE

\* The static variable is initialised once.
HookTable ==
  IF table = Unbuilt
  THEN \E memory \in 0..(SizeModulus - 1) :
         FirstSize(memory) <= MaxTable /\ table' = BuildHookTable(memory)
  ELSE UNCHANGED table

GetHook(sys) ==
  LET name == SyscallName(sys)
      hook == IF sys \in DOMAIN table' THEN table'[sys] ELSE NoHook
      In(set, member) == IF member THEN set \cup {name} ELSE set
  IN /\ ~ended
     /\ HookTable
     /\ all' = all \cup {name}
     /\ passthroughSet' = In(passthroughSet, hook = Passthrough)
     /\ unimplemented' = In(unimplemented, hook = NoHook)
     /\ implemented' = In(implemented, hook \notin {Passthrough, NoHook})
     /\ answers' = answers \cup {<<sys, hook>>}
     /\ UNCHANGED ended

\* The table is too large to allocate: no handler catches what resize throws.
BuildFails(sys) ==
  /\ ~ended /\ table = Unbuilt
  /\ \E memory \in 0..(SizeModulus - 1) : FirstSize(memory) > MaxTable
  /\ all' = all \cup {SyscallName(sys)}
  /\ ended' = TRUE
  /\ UNCHANGED <<table, passthroughSet, unimplemented, implemented, answers>>

HookNext == \E sys \in Numbers : GetHook(sys) \/ BuildFails(sys)

HookSpec == HookInit /\ [][HookNext]_hookVars

-----------------------------------------------------------------------------
\* The hook that the list has for a number: the last pair counts.
Listed(sys) ==
  LET at == {i \in DOMAIN Hooks : Hooks[i][1] = sys}
  IN IF at = {} THEN NoHook ELSE Hooks[CHOOSE i \in at : \A j \in at : j <= i][2]

\* get_hook finds the hook that the list names, and none for other numbers,
\* whatever the memory past the list held when the table was sized
\* (build_hook_table and get_hook).
AnswersAsListed == \A a \in answers : a[2] = Listed(a[1])

\* The statistics put every call that returned into one class and none into
\* two: a nameless call is never taken for one with a hook (get_hook).
StatisticsPartition ==
  /\ ~ended => all = passthroughSet \cup unimplemented \cup implemented
  /\ passthroughSet \cap unimplemented = {}
  /\ passthroughSet \cap implemented = {}
  /\ unimplemented \cap implemented = {}
=============================================================================
