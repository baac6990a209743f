# A TLA+ model of redstone

redstone runs unmodified Linux programs ("guests") under `ptrace`, answers some of
their system calls itself, and so puts them on a simulated network that delays,
drops and repeats datagrams. This directory holds TLA+ modules for the parts of it
that have state and concurrency, the TLC configurations that check them on small
instances, and proofs for TLAPS. Paths below are those of the repository; the
file `PROJECT.json` lists, for every definition, the lines it models.

The code was read as it is built: only builds with `NDEBUG` compile
(`net/datagram_socket.cpp:11` asserts something about an undeclared name), so an
`assert` is never a guard in a module. Some are stated as properties.

## 1. Inventory

| Component | State | Operations | Talks to |
|---|---|---|---|
| `main` (`src/main.cpp`) | machines, the prime one | parse the file, start machines 100 ms apart, wait for all tracers or for the prime one's, then kill the others | machines |
| machine, replica (`sim/machine`, `sim/replica`) | current replica; its table, epoch | start | `ptrace_run` |
| simulated time (`hook/impls.cpp`, `remove_vdso`) | epochs, the time scale | clock_gettime, clock_nanosleep | `steady_clock` |
| guest memory (`read_memory`, `write_memory`) | the guests' memories | copy word by word | `ptrace`; used by all hooks |
| runner (`sim/runner/ptrace.cpp`, `sys/child.cpp`, `sys/ptrace.cpp`) | one tracer thread and one guest per machine, a barrier, `child::pid_` | spawn, follow, `handle_trapped`, `replace_syscall_with_result`, wait, kill | kernel, hooks |
| hook table (`hook/hook.cpp`, `hook/syscalls.cpp`) | the table, four sets of names | `build_hook_table`, `get_hook` | called by every tracer |
| hooks (`hook/impls.cpp`) | none of their own | socket, close, read, write, bind, connect, sendto, recvfrom, clock_gettime, clock_nanosleep | descriptor table, network, sockets |
| descriptor table (`sim/file_descriptor.cpp`) | `table_`, `unused_` | insert, close, get | owns sockets |
| network (`net/network.cpp`) | address to weak pointer | bind, get (clear is not called) | sockets of all replicas |
| datagram socket and pipe (`net/datagram_socket.cpp`) | priority queue, two mutexes, condition variable, generator | deliver/send, recv | clock, fault options |
| stream socket (`net/stream_socket.cpp`) | byte queue, peer | connect; send and recv, which no hook calls | |
| faults and generators (`net/fault.hpp`, `random/`) | generator states | latency, should_drop, replay_count, seed_from | |
| disk (`disk/disk.cpp`) | file contents; backlog and position of open files | write, read, pwrite, pread, lseek, fsync | used by no hook yet |
| metrics, old prototypes, name table, demos, benches | | | not part of the simulation's logic |

What is hard here: one tracer thread per replica, all of them sharing the network,
the sockets and the simulator's generator; guests that die between any two
`ptrace` requests; condition variables with deadlines; weak pointers to sockets
that others close; numbers and addresses that are used again; objects on the stack
or in `main` that threads outlive; memory that is read without a look at errors, or
before anything was written to it; two clocks with a factor between them. The list of hazards in `PROJECT.json` has each
at its line, with the properties that cover it.

What makes each component correct:

* descriptor table: a descriptor names its socket until closed and no longer, is
  never handed out twice at a time, and EMFILE means full;
* pipe: what is received was sent, each copy once; no receiver sleeps on a packet;
  reordering is bounded by the spread of latencies;
* sockets and network: sockets live as long as they are referred to, an address leads
  to its binder, nobody receives what was sent to another;
* stream sockets and guest memory: bytes arrive as they were sent, in one piece and in
  order, where they were asked for, and nothing beside them changes;
* simulated time: a guest cannot avoid its clock, which never goes back and by which
  its sleeps are as long as it asked for;
* runner: a configuration is run as a whole or not at all, guests see the results of hooks,
  no guest is left behind and hooks do not outlive the simulator (without a prime machine),
  the simulator survives the death of guests;
* hook table: a number has the hook that the list gives it;
* seeds: the same seed gives the same faults;
* disk: a delayed write behaves like a write.

## 2. Modules

A definition whose name begins with `Fault` is a variant, with a plausible mistake,
of the one after it. No specification uses it; substituting it makes the property
that `PROJECT.json` names fail.

**FdTableOps, FdTable, FdTable_proofs, MCFdTable.** `FdTableOps` has
`file_descriptor_table` as operators on its two members (`AfterGet`,
`AfterCloseTable`, `InsertFd`, ...). Descriptors are the code's without the bit
`1 << 30`. `get` adds a null entry for a number without one, as `table_[fd]` does.
`FdTable` drives them with a guest that uses descriptors it was handed, open or
closed, and those of `WildFds`, numbers that it was not handed but which pass
`is_simulated` (-1 does).

**NetFaults, DatagramPipe, LossyChannel, DatagramPipe_proofs, MCDatagramPipe.** One
socket's inbound queue. Each `deliver` call is a process with two steps: it draws
and reads the clock under the socket's mutex (`Drop`, `Draw`), then pushes under
the pipe's (`Push`). `recv` is one step per round of its loop, ending in a wait, a
timed wait or a packet. Waits may end spuriously. `LossyChannel` is the abstract
specification: a set of copies in flight. `NetFaults` computes latencies as
`gen_range` does; drops and replay counts are free choices.

**Sockets, Sockets_proofs, MCSockets.** The composition of all replicas' tables (the operators of
`FdTableOps`), the network's map and the hooks of the socket calls. A socket's queue
is a set of copies of datagrams, as in `LossyChannel`. `sendto` takes two steps
because it holds a shared pointer to its target while it reads guest memory;
`recvfrom` two because it waits. Ownership is what decides when a socket is
destroyed: its table entry and the pointers that running calls hold. A guest that
dies is, for its sockets, like one that makes no more calls.

**SockAddr.** `parse_addr`, used by `Sockets`. A sockaddr is its length, family and
bytes; it is copied over a variable that is not initialised, whose bytes are the
parameter `stale`. The code indexes `sun_path` from 2, so paths that differ in
their first two characters only are one address, and paths of fewer than two characters
are whatever the stack held.

**GuestMemory, StreamPipe, ByteStream, StreamPipe_proofs, MCStreamPipe.** `GuestMemory` has `read_memory`
and `write_memory` as operators on a memory, a function from mapped addresses to bytes:
a word that is not all mapped reads as -1, that is as bytes of ones, and is written as far
as it is mapped; a dead guest's memory is empty. `StreamPipe` is one stream socket:
`send` takes a shared pointer, then the mutex, reads its guest's memory word by word
and pushes byte by byte; `recv` waits, pops byte by byte and writes its guest's memory.
Guests are killed at any point, the owner closes the socket. Bytes are identified with
their sender and position. `ByteStream` is the abstract specification: a send appends a
block, of which a dying sender spoils the end; a receive takes a prefix.

**Vdso, Clocks, Clocks_proofs, MCClocks.** `Vdso` has `remove_vdso` on the stack that the kernel lays
out, and in `KernelImage` what it relies on there: the vDSO's entry comes first, and no
key is null. `Clocks` has `main`'s start loop, which sets each replica's epoch, and guests that
read the clock and sleep; a guest that still has the vDSO reads the kernel's clock.
The time scale is a fraction; the code has a double, whose rounding (below a nanosecond
for clocks of months) is left out.

**Runner, Runner_proofs, MCRunner.** `main`, the tracer threads and the guests. A scenario is what a
run meets: an argument or none, a file that can be parsed or not, its array of replicas with
their malformed elements, a killer or none. `Parse` does what `parse_config`,
`parse_replicas` and `main` make of it; its `Machines` and `prime` are what the rest
uses. The guests' side
(stops, exec events, signals, SIGKILL, zombies) is the kernel's behaviour as the code
uses it. A tracer's program counter `w` follows `ptrace_worker` request by request,
with the failure of each on a dead child. The barrier on `ptrace_run`'s stack
may be gone when a tracer wakes up in it; the tracer then goes on or is "stuck". With
a prime machine, tracers go on while `main` returns and exit destroys what they use: the
logger, the machine, the statics of `get_hook`, the simulator (`Uses`); each such use may
end the program (`UseAfterDestroy`) or go unnoticed. Guests that outlive the simulator are
no longer traced and end as they please, or by a SIGTERM that nobody holds back any more
(`Orphaned`).

**HookTable, Loops_proofs, MCHookTable.** `build_hook_table` and `get_hook`. `std::max` is given
two iterators and so reads a pair past the list's end; the model lets that memory hold
any number, sizes the table by it, and fills it as the loop does. `get_hook` has the
number as a `uint64_t` and `syscall_name` as an `int` (`ToInt`); of the list of names only
the set of numbers that it has a name for matters.

**Seeds, Seeds_proofs, MCSeeds.** Who draws from the simulator's generator, in two executions with
one seed. A call of `next` is a read and a write of the state, without a lock; if two
overlap, the state may be torn. What is drawn is identified with the state.

**FileOps, File, Disk, Loops_proofs, MCDisk.** `FileOps` has `disk_file`'s operations
as functions on sequences of bytes. `Disk` has open files with their backlogs, one step
per access to the file; it numbers the writes of an open file in the order of their
calls and records the order in which they come to `disk_file::write` (`applied`), whether
that accepts them or not. Nothing in the sources makes an `open_file`, and `direct_` has no
initial value: the model starts with any of them open, each direct or not. That the
`resize` in `disk_file::write` may throw is no step of the model: nothing catches the
exception, and the program ends there. `File` is
the abstract specification for a lone user: writes take effect at once.

## 3. Runs

| Run | Instance | Shows |
|---|---|---|
| `fd_table` | capacity 4, 7 sockets, -1 used | no live descriptor is overwritten, lost or leaked; EMFILE means full |
| `fd_made_up` | number 1 used before it was handed out | **violated**: `insert` overwrites a live entry |
| `pipe` | 2 datagrams, drops, 1 replay, latencies 1..2, with fairness | no lost wake-up, recv returns, overtaking within the spread of latencies, the pipe implements `LossyChannel` |
| `sockets` | 3 replicas, 3 sockets of both kinds, capacity 2, 5 sockaddrs that parse to 1 address or none, 2 sends; `parse_addr` on all paths of up to 5 bytes | lifetime, addresses, receipt and kinds are right under reuse; which sockaddrs are the same |
| `runner` | 2 guests, no prime, SIGKILL at any point or 2 calls each; 3 guests, the first prime, the third not executable; 5 files that are empty, missing or malformed; with fairness | a file is run as a whole or not at all; results seen, run complete, hooks end before the simulator, causes of aborts, `main` returns (with its exceptions), or ends with the prime guest; SIGTERM ends no guest while the simulator runs, and never the prime one |
| `runner_status` | 2 guests, both marked prime | **violated**: a run may end abnormally |
| `disk` | 1 or 2 open files, direct or not, 3 writes; 2 values of a byte for a lone one, 1 for two | each opener's writes reach the file once and in order, whatever comes between them; a lone open file implements `File` |
| `hook_table` | 4 hooks, 9 numbers, memory of 16 values | hooks found whatever the memory held; statistics partition calls |
| `streams` | 2 sends of 4 and 5 bytes, words of 3, one at the end of its memory; kills, close; with fairness | bytes sent as read and received intact, no lost wake-up, calls of `send` and `recv` return, the socket implements `ByteStream` |
| `clocks` | 2 guests, time scales 1/2 and 3/2, 7 ticks; 72 stacks for `remove_vdso` | no clock goes back, clocks are apart by a constant, sleeps are long enough |
| `seeds_order` | 2 executions, 2 replicas, 2 words | draws are not shared without a race; order decides seeds |
| `seeds_same` | the same | **violated**: same seed, different socket seeds |

*Bounds.* They are constants named in the modules. Descriptor reuse needs a capacity
below the number of sockets; the reuse of an address while two datagrams are under way
to its former socket needs three replicas (one that closes, two that send) and three
sockets. Overtaking needs two latencies, and sends that lie further apart than their
spread; what the `pipe` run checks for two datagrams is also proved for any number. A
torn state of the generator needs two tracers; seeds have 2 words instead of 4, which
is enough for the draws of two sockets to alternate. The file of `disk` has room for
one byte: what matters there is which write comes when, what a read then sees, and
positions past the limit (`Modulus` stands for 2^64 and is just large enough to have
one). The third write is there to fall between two entries of another's backlog; two open
files write zeros only and read no bytes (`MCZeros`), as what is claimed of them is when
their writes come to the file. `MainReturns` is about guests that
exit: `calls` bounds how many system calls each makes before it does. Words
of 3 bytes and blocks of 4 and 5 give `streams` every remainder of a last word, mapped
and not. `clocks` needs a factor on either side of 1 and a second shorter than the
run, so that it is carried over. In `hook_table` the first size of the table takes every value from 0 (wrapped
around) to too large. `CHECK_DEADLOCK FALSE` stands where the system may really stop:
the program ends, every guest waits in recvfrom, or a bound is used up.

*Symmetry* is used for replicas (`sockets`) and open files (`disk`), in runs without
liveness.

*Fairness.* `DatagramPipe`: a thread that holds a lock goes on, the clock ticks, a timed
wait ends at its deadline; a spurious wake-up or a call by the guest need never come.
`Runner`: `main`, each tracer and each guest that can run do; a hook returns unless
it is a recvfrom; SIGKILL need never come. `StreamPipe`: a thread that holds the mutex
goes on, and one that waits for it gets it if it is free again and again (strong
fairness: `recv` and other sends take it in between); guests need not call. These are the guarantees of the
operating system's scheduler, and no lock of the code is contended for ever.

## 4. Proofs

TLAPS checks the proofs, which hold for every value of the constants that satisfies the
named assumptions: any number of replicas, sockets, sends, guests, hooks, any size of a
word, any time scale, any number of open files and of writes. Each module `M_proofs`
extends `M`; a theorem `InvHolds` says that its inductive invariant holds, and the others
follow from it. `Loops_proofs` is about two components whose proofs share the lemmas on
folds: it extends `Disk` and `HookTable` (the specification of the latter is `HookSpec`,
its invariant `HookInv`).

| Module | Theorem | Property |
|---|---|---|
| `FdTable_proofs` | `TypeCorrect`, `EmfileCorrect` | `TypeOK`, `EmfileMeansFull` |
| | `NumbersAccounted`, `SlotsEmpty` | `NumbersAccountedFor`, `InsertsIntoEmptySlot` |
| | `StableDescriptors`, `NoLeaks` | `DescriptorsStable`, `NothingLeaks` |
| `DatagramPipe_proofs` | `TypeCorrect`, `WakeupsNotLost` | `TypeOK`, `NoLostWakeup` |
| | `ReorderingBounded`, `Refinement` | `ReorderBounded`, `ImplementsChannel` |
| `Runner_proofs` | `TypeCorrect`, `GuestsSeeResults` | `TypeOK`, `GuestSeesResult` |
| | `SigtermIsHeldBack`, `FileRunAsAWhole` | `SigtermHeldBack`, `AllOrNothing` |
| | `RunsComplete`, `AbortsExplained` | `RunComplete`, `AbortCause` |
| `StreamPipe_proofs` | `TypeCorrect`, `WakeupsNotLost` | `TypeOK`, `NoLostWakeup` |
| | `SendsAsRead`, `ReceivesIntact` | `SentAsRead`, `ReceivedIntact` |
| | `RefinesStream` | `ImplementsStream` |
| `Sockets_proofs` | `TypeCorrect`, `DestroyedInTime` | `TypeOK`, `DestroyedWhenUnreferenced` |
| | `BoundReaches`, `BinderReceives` | `BoundAddressReaches`, `ReceivedByBinder` |
| | `NamesKeptApart` | `NamesApart` |
| `Seeds_proofs` | `NumbersDrawnOnce`, `OrderDecidesSeeds` | `DrawnOnce`, `OrderDecides` |
| `Clocks_proofs` | `VdsoGone`, `TypeCorrect` | `VdsoRemoved`, `TypeOK` |
| | `ClocksAgreeAlways`, `SleepsAreLongEnough` | `ClocksAgree`, `SleepsLongEnough` |
| `Loops_proofs`, for `HookTable` | `AnswersCorrect`, `StatisticsCorrect` | `AnswersAsListed`, `StatisticsPartition` |
| and for `Disk` | `TypeCorrect`, `WritesInOrder` | `TypeOK`, `OnceAndInOrder` |
| | `OpenFileImplementsFile` | `ImplementsFile` |

The arguments, with the invariants and why they are needed:

* `FdTable`. That the next number is free is not inductive: it is `table_.size()`, which
  counts null entries. The invariant adds `NumbersAccountedFor`: the numbers with an
  entry and those awaiting reuse contain all that were handed out, and each of these is
  below their count. When nothing awaits reuse the count is the size, so the size was
  not handed out. All but `TypeCorrect` assume that no wild descriptor is one that the
  table could hand out (`WildFds \cap Nat = {}`: negative numbers remain; `fd_made_up`
  shows that the assumption is needed).
* `DatagramPipe`. `PipeInv` says who holds the socket's mutex, that calls read the clock
  in the order in which they hold it, when each packet arrives relative to its sending,
  and that what is queued was not sent much before what was received. `NoLostWakeup` is
  inductive with the types. The pipe implements `LossyChannel` step by step: `Drop` and
  `Push` send, `RecvTake` receives, everything else stutters; that a call pushes copies
  numbered `0..n`, each once, comes from `PipeInv`.
* `Runner`. The invariant has a part for each tracer and its guest, a predicate on their
  own state only (`TracerInv`): which stop of the guest the tracer is at, whose number
  and result its registers hold, who has reaped it. Most steps are a tracer's or a
  guest's and are proved for that pair alone. It holds as long as the simulator runs or the
  guest lives; a guest that ended after the simulator satisfies `Orphan` instead
  (`MachineInv`). That SIGTERM comes from the kill loop only, after the prime guest has been
  waited for, is `SignalInv`. The rest is about `main`: it has started
  the machines up to the one it is at, all of them but that one have passed the barrier
  (`StartInv`, `BarrierInv`), and what it has joined has returned (`JoinInv`).
* `StreamPipe`. The invariant says that whoever is in a copy or a push holds the mutex,
  that what a send has pushed is the end of the buffer and a prefix of its block, and
  what the receiver's memory holds. `write_memory` is a fold; a lemma (`WriteLoop`)
  turns it into the sequence of memories after each word, over which the bytes are
  followed by induction on the number of words. The refinement of `ByteStream` maps the
  return of a send and of a receive to its steps, everything else to stuttering.
* `Sockets`. Each replica's table satisfies the accounting of `FdTable` (`TableInv`, a
  predicate on one table as a value); shared state is tied to it by who opened a socket,
  who holds a pointer to it (`CallInv`), and that an address leads to a live socket only
  if that one bound it. `NamesApart` is a theorem about `parse_addr` alone, byte by
  byte.
* `Seeds`. As long as nobody raced, whoever is in `next` is alone there, and everything
  drawn so far lies below the generator's state (`DrawInv`). As long as creations do not
  overlap, the socket in place `p` of the order has drawn the numbers from `(p - 1) *
  SeedWords` on; that the `k`-th socket of a replica has a place determined by the order
  alone takes counting lemmas (`OrderInv`).
* `Clocks`. `ClocksAgree` says nothing of the time of a reading and is not inductive;
  the invariant is that a reading is at most the guest's clock at some time since the
  guest's start, and that a sleep asked for since ends no earlier than that time and the
  scaled duration (`ClockInv`). The theorems follow by arithmetic on the truncated
  quotients. It uses `VdsoGone`: the clock that a guest reads is the simulator's. For
  that `Layout` is described by the places of its words, and the scan of `remove_vdso`
  by the first key or value it stops at.
* `HookTable`. The fold of `build_hook_table` as a loop (`BuildLoop`): after `k` pairs a
  look-up finds what the first `k` pairs list, whatever size the table began with. So
  the class of a name depends on its number alone, and each name has one number
  (`NameOf`), which makes `StatisticsPartition` inductive.
* `Disk`. `OnceAndInOrder` says nothing of what a flush has done so far, nor of a direct
  write that has begun. The invariant is a predicate on one open file's own state
  (`FileInv`): the writes that came to the file are the first ones, in order, the entries
  that the flush has not come to are the ones after them, and outside a flush these are
  the whole backlog; a direct open file has none; a call that moves `pos_` works at
  `pos_`. Other open files change only the contents of the file, so each step is proved
  for the one that takes it (`OneFile`). For the refinement of `File`, `WriteAll` (a fold)
  is turned into the contents after each entry (`WriteLoop`); then an entry more at the
  end is one write more (`WriteLast`: a buffered write takes effect at once), and an entry
  that moves from the backlog to the file changes nothing (`WriteFirst`: a flush is not
  seen). The end of a direct write is a `Write`, that of fsync a `Sync`, that of a read a
  `Read` of the file alone, for by then the backlog is written. With several open files
  the mapping is constant and every step stutters, as no step changes who has the file
  open.

Assumed of the constants: `LatencyAssumption` (`min_latency <= max_latency`, which
`parse_config` does not check); `KernelImage` (above); `ScalesAssumption` (the time
scale is positive); that a file may have a byte (`max_file_size` is positive and below
2^64); that the kernel reports system calls by ints, sign-extended
(`NumbersAssumption`); that hooks, sockaddrs and scenarios have the shape that the sources
give them (`HooksAssumption`, `NamesAssumption`, `StaleAssumption`, `SortsAssumption`,
`ScenariosAssumption`); that `Torn`, `NoObject`, `NoHook` differ from proper values; and
the bounds' types. TLC evaluates all of them in the runs.

Folds (`FoldLeft`) and induction: the library's induction theorems cannot be
instantiated by the installed provers, but `WFMin`, which is about a set, can. `UpTo`
derives from it induction over an interval, `FoldExists` that the recursive function
inside `FoldLeft` exists.

Only model-checked: liveness (`RecvReturns`, `CallsReturn`, `MainReturns`), which is out
of the prover's reach. Every invariant, action property and refinement that a passing run
checks is also proved.

## 5. What the checks found

1. `file_descriptor_table::get` adds entries. A guest that looks up a simulated number
   which it was never handed makes `insert` overwrite a live entry later, against its
   `assert(!slot)`. Closed descriptors, and -1, are harmless.
2. With a prime machine the run may end by `std::terminate` (a guest that has already
   ended, an unjoined thread), and tracers may use the destroyed machine, statics of
   `get_hook` or simulator; `determinism.py` expects status 0.
3. The seeds of sockets depend on the order in which tracers create them and on a data
   race; `determinism.py` expects equal executions.

Known and not stated as runs:

* `child::terminate` tests `pid_` and then uses it while the tracer clears it (`KillCheck`,
  `KillSend`): `kill` is called for a process that is gone, or, if `pid_` is read late,
  for -1;
* the SIGTERM that `main` sends the other guests is swallowed by a tracer that sees it, and
  as `PTRACE_O_EXITKILL` is not set such a guest outlives the simulator; one that no
  tracer has seen ends the guest then (`SigtermHeldBack`, `Orphaned`);
* a replica without a path is reported, and then its null path is used; an element that
  is not a table makes the program do nothing and return 0;
* paths that differ in their first two characters only are the same address
  (`NamesApart`), shorter ones depend on the stack;
* a guest killed during a `sendto` or send, or whose buffer ends within the last word
  that it has mapped, sends bytes of ones (`SentAsRead`); a receive into the last word
  overwrites what is behind it (`ReceivedIntact`);
* `stream_socket::send` returns 0, not the number of bytes, uses a null pointer when its
  peer is gone, and `recv` knows no end of the stream;
* with a time scale other than 1 the clocks of guests that were started apart disagree
  (`ClocksAgree` bounds by how much); `clock_nanosleep` takes an absolute time for a
  duration;
* `replace_syscall_with_result` and `wait_until_execve` do not look at what `wait`
  reports and make requests on a dead child (`RequestOnDead`), against the disabled
  `assert(child)`; the ESRCH that results is caught, and the child may stay a zombie;
* a guest killed before its tracer reaches the barrier leaves `main` in it for ever; a
  program that cannot be executed keeps its tracer busy for ever (`MainReturns` names
  both);
* a tracer stuck in the barrier of a `ptrace_run` that has returned (`MainReturns`
  names this exception);
* the size that `build_hook_table` starts with may be too large to allocate
  (`BuildFails`), which ends the program;
* the sockets of a guest that died stay bound; overlapping sendtos may keep the address
  of a closed socket taken for a moment (EADDRNOTAVAIL);
* a buffered write past the largest file size is acknowledged and lost; an empty write
  extends a file; a read at the end is EINVAL; SEEK_END ignores the backlog;
* `disk_file::write` accepts positions for which its `resize` throws, which in a flush
  leaves the backlog uncleared; that would matter to a caller that went on, and there is none.

## 6. Not modelled

* Probabilities (`should_drop`, `replay_count` are free choices), and the bits of the
  generators: no property tells their values apart.
* The rounding of the time scale, a double, and time scales that are not positive, which
  `parse_config` accepts: the conversions to integers are then undefined.
* The error paths of hooks after `read_memory` and `write_memory`, which always return
  0: they cannot be reached.
* Guests with several threads: the tracer follows only the first.
* The hash functions and orders of addresses: the former only need to be functions, the
  latter are used by nobody.
* `sys/file.cpp` other than `proc_mem`, the standard output descriptor (never inserted),
  metrics (never printed), `print_stats`, `sys_open` and `network::clear`: no code
  calls them. Files that are not compiled (`net/udp.cpp`, `hook_impls.cpp`, ...).
* The demos and benchmarks as programs: `Runner` and `Sockets` let a guest make
  every sequence of calls, theirs included. One consequence is worth naming: `demo-squawk`
  ends at its first failed `sendto`, and the 100 ms between the starts do not guarantee
  that `demo-echo` has bound its address by then; `demo-echo`, and `main`, then wait for
  ever (the recvfrom that `MainReturns` excepts).

## 7. Plan

Done, in this order because a guest's view of descriptors and datagrams is what the
simulator is for: `FdTable`, `DatagramPipe` with their proofs, `Runner`, `Sockets`, `Disk`,
`HookTable`, `Seeds`; then `StreamPipe` with `GuestMemory`, `Clocks` with `Vdso`, `SockAddr`
as a part of `Sockets`, and the configuration as a part of `Runner`; then the theorems,
`Disk`'s last.

Next, modules:
1. `Sockets`: a datagram sent to a guest in recvfrom arrives unless dropped.
2. `Disk`: what open files of one file promise each other after fsync.
