------------------------------- MODULE Runner -------------------------------
(***************************************************************************)
(* How the simulator runs its guests: main, which reads its configuration, *)
(* starts one machine after the other and then waits for them; one tracer  *)
(* thread per machine (ptrace_worker), which forks the guest, follows it   *)
(* with ptrace and answers its system calls through the hooks; and the     *)
(* guests, whose side of ptrace, wait and kill is the kernel's.            *)
(*                                                                         *)
(* With a prime machine, main waits for that machine's tracer only, sends  *)
(* SIGTERM to the other guests and returns; otherwise it waits for all.    *)
(*                                                                         *)
(* Undefined behaviour: the barrier that ptrace_run and its tracer meet at *)
(* is a local variable of ptrace_run.  If the tracer sleeps in it and main *)
(* comes second, ptrace_run may return and its stack be used again before  *)
(* the tracer has read the barrier once more.  The tracer then goes on, or *)
(* finds a mutex that looks locked and stays there ("stuck").  And with a  *)
(* prime machine, tracers that main has not joined go on while main, and   *)
(* exit after it, destroy what they use; one that does may end the program.*)
(*                                                                         *)
(* An operator named Fault... is a variant, with a mistake in it, of the   *)
(* operator that follows; the runs of the project detect each of them.     *)
(***************************************************************************)
EXTENDS Integers, Sequences, FiniteSets

CONSTANT
  Scenarios    \* the circumstances of a run, of which it has one
  (* given     the program has an argument, the file's name               *)
  (* valid     the file exists and is TOML                                *)
  (* replicas  its array of replicas, in order: whether the element is a  *)
  (*           table, whether it has a path and the path's program can    *)
  (*           be executed, and whether it is prime                       *)
  (* kills     someone else may send SIGKILL to a guest                   *)
  (* calls     bound: system calls of one guest before it exits           *)

Element == [table : BOOLEAN, path : {"good", "bad", "missing"}, prime : BOOLEAN]

ASSUME ScenariosAssumption ==
  \A c \in Scenarios :
    /\ c.given \in BOOLEAN /\ c.valid \in BOOLEAN /\ c.kills \in BOOLEAN
    /\ c.replicas \in Seq(Element)
    /\ c.calls \in Nat

\* Numbers that machines may have; one that the file does not list has none of
\* its own.
Ids == UNION {DOMAIN c.replicas : c \in Scenarios}

VARIABLES
  conf,        \* the scenario
  replicas,    \* config.replicas, one machine for each
  prime,       \* the number of the prime machine, 0 for nullptr
  guest,       \* the guest processes
  w,           \* where each tracer thread is
  pid,         \* child::pid_ is not -1
  current,     \* machine::current_ is set
  mpc,         \* where main is
  mi,          \* the machine that main is dealing with
  bar          \* the barrier of the ptrace_run that main is in

config == <<conf, replicas, prime>>
vars == <<config, guest, w, pid, current, mpc, mi, bar>>

\* parse_replicas.  An element that is not a table ends it with no replicas at
\* all; one without a path is reported, and then a null pointer is used.
\* Mistake: the replicas before the malformed element are kept.
Malformed == {i \in DOMAIN conf.replicas :
                ~conf.replicas[i].table \/ conf.replicas[i].path = "missing"}
FirstMalformed == CHOOSE i \in Malformed : \A j \in Malformed : i <= j
FaultKeepsFirst ==
  IF Malformed = {} THEN conf.replicas ELSE SubSeq(conf.replicas, 1, FirstMalformed - 1)
ParseReplicas == IF Malformed = {} THEN conf.replicas ELSE <<>>
NullPath == Malformed # {} /\ conf.replicas[FirstMalformed].table

\* main makes the last replica that is marked the prime one.
LastMarked(rs) ==
  LET marked == {r \in DOMAIN rs : rs[r].prime}
  IN IF marked = {} THEN 0 ELSE CHOOSE r \in marked : \A j \in marked : j <= r

\* The machines are numbered in the order of the file.
Machines == DOMAIN replicas
N == Len(replicas)
BadPath == {r \in Machines : replicas[r].path = "bad"}

\* Calls that have a hook which answers them: all but a receiving one return.
Hooked == {"sim", "recv"}

Guest == [
  proc  : {"none", "running", "stopped", "held", "zombie", "gone"},
  stop  : {"none", "sigstop", "exec", "entry", "exit", "abort", "signal"},
  at    : {"new", "pre", "exec", "execed", "user", "kernel"},
  call  : {"none", "real", "exit"} \cup Hooked,
  nr    : {"own", "gettid"},
  rax   : {"none", "real", "gettid", "hook"},
  ran   : BOOLEAN,
  sig   : BOOLEAN,
  end   : {"none", "exit", "kill", "term"},
  calls : Nat]
  (* proc   "stopped" before waitpid has reported the stop, "held" after;  *)
  (*        "zombie" before waitpid has reported the end, "gone" after     *)
  (* stop   "abort" for a signal of its own abort, "signal" for SIGTERM    *)
  (* at     where the process continues when it runs                       *)
  (* call   its last system call; nr, the number the kernel will look at;  *)
  (*        ran, whether the kernel has executed the call itself           *)
  (* sig    SIGTERM is pending                                             *)

NoGuest == [proc |-> "none", stop |-> "none", at |-> "new", call |-> "none",
            nr |-> "own", rax |-> "none", ran |-> FALSE, sig |-> FALSE,
            end |-> "none", calls |-> 0]

Init ==
  /\ conf \in Scenarios
  /\ replicas = <<>>
  /\ prime = 0
  /\ guest = [r \in Ids |-> NoGuest]
  /\ w = [r \in Ids |-> "none"]
  /\ pid = [r \in Ids |-> FALSE]
  /\ current = [r \in Ids |-> FALSE]
  /\ mpc = "parse"
  /\ mi = 1
  /\ bar = [arrived |-> 0, released |-> FALSE, alive |-> FALSE]

Main(pc) == mpc = pc

\* The simulator's process still exists.
Alive == mpc \notin {"exited", "aborted"}

-----------------------------------------------------------------------------
(* The guests and the kernel (external).                                   *)

Stopped(g, why) == [g EXCEPT !.proc = "stopped", !.stop = why]

Live(g) == g.proc \in {"running", "stopped", "held"}

GuestStep(r, g) ==
  /\ Alive
  /\ guest' = [guest EXCEPT ![r] = g]
  /\ UNCHANGED <<config, w, pid, current, mpc, mi, bar>>

Running(r, at) == guest[r].proc = "running" /\ guest[r].at = at

\* The forked child, in spawn: it stops itself, then calls execvp, whose stops
\* are the entry, the exec event and the exit.  If execvp fails the child
\* throws, and the signals of its abort stop it again and again.
ChildStops(r) ==
  /\ Running(r, "new")
  /\ GuestStep(r, [Stopped(guest[r], "sigstop") EXCEPT !.at = "pre"])

ChildExecs(r) ==
  /\ Running(r, "pre")
  /\ GuestStep(r, IF r \in BadPath
                  THEN Stopped(guest[r], "abort")
                  ELSE [Stopped(guest[r], "entry") EXCEPT !.at = "exec"])

ExecEvent(r) ==
  \/ /\ Running(r, "exec")
     /\ GuestStep(r, [Stopped(guest[r], "exec") EXCEPT !.at = "execed"])
  \/ /\ Running(r, "execed")
     /\ GuestStep(r, [Stopped(guest[r], "exit") EXCEPT !.at = "user"])

\* The guest program makes a system call.
GuestCalls(r, k) ==
  /\ Running(r, "user")
  /\ k # "exit" => guest[r].calls < conf.calls
  /\ GuestStep(r, [Stopped(guest[r], "entry") EXCEPT
                     !.at = "kernel", !.call = k, !.nr = "own", !.ran = FALSE,
                     !.calls = IF k = "exit" THEN @ ELSE @ + 1])

\* The kernel executes the system call whose number it finds.
KernelRuns(r) ==
  /\ Running(r, "kernel")
  /\ GuestStep(r,
       IF guest[r].nr = "own" /\ guest[r].call = "exit"
       THEN [guest[r] EXCEPT !.proc = "zombie", !.end = "exit"]
       ELSE [Stopped(guest[r], "exit") EXCEPT
               !.at = "user",
               !.ran = guest[r].nr = "own",
               !.rax = IF guest[r].nr = "own" THEN "real" ELSE "gettid"])

\* A pending SIGTERM stops a traced process instead of ending it.
SignalStops(r) ==
  /\ guest[r].proc = "running" /\ guest[r].sig /\ guest[r].at # "kernel"
  /\ GuestStep(r, [Stopped(guest[r], "signal") EXCEPT !.sig = FALSE])

\* SIGKILL ends a process whether it runs or is stopped.
Killed(r) ==
  /\ conf.kills
  /\ Live(guest[r])
  /\ GuestStep(r, [guest[r] EXCEPT !.proc = "zombie", !.end = "kill"])

\* When the simulator has ended the guests that are left are no longer traced
\* (PTRACE_O_EXITKILL is not set) and run on: they end by themselves, or
\* because of a SIGTERM that is pending.  Whether the kernel delivers the one
\* that a guest is stopped for is left open.  What they do until they end is
\* between them and the kernel, and init waits for them.
Orphaned(r) ==
  /\ ~Alive
  /\ Live(guest[r])
  /\ \E end \in {"exit", "kill", "term"} :
       /\ end = "kill" => conf.kills
       /\ end = "term" => guest[r].sig \/ guest[r].stop = "signal"
       /\ guest' = [guest EXCEPT ![r] = [@ EXCEPT !.proc = "gone", !.end = end]]
  /\ UNCHANGED <<config, w, pid, current, mpc, mi, bar>>

\* PTRACE_SYSCALL with no signal: the process runs to its next stop, and a
\* signal that it was stopped for is discarded.  Mistake: it is passed on.
FaultSignalPassedOn(g) ==
  IF g.stop = "signal"
  THEN [g EXCEPT !.proc = "zombie", !.end = "term"]
  ELSE [g EXCEPT !.proc = "running", !.stop = "none"]
Resumed(g) == [g EXCEPT !.proc = "running", !.stop = "none"]

-----------------------------------------------------------------------------
(* A tracer thread: ptrace_worker.                                         *)

Go(r, pc) == w' = [w EXCEPT ![r] = pc]

\* ptrace_worker returns, or ends with ESRCH ("child crashed").  If main has
\* destroyed its machines, the thread held the last reference to its own
\* handle, whose destructor finds a thread that was not joined: terminate.
Return(r) ==
  /\ Go(r, "returned")
  /\ mpc' = IF mpc = "destroyed" THEN "aborted" ELSE mpc

\* A ptrace request on a child that has ended fails with ESRCH.  Mistake: the
\* exception leaves the thread.
FaultUncaught(r) ==
  /\ ~Live(guest[r])
  /\ mpc' = "aborted"
  /\ UNCHANGED <<config, guest, w, pid, current, mi, bar>>
Crash(r) ==
  /\ ~Live(guest[r])
  /\ Return(r)
  /\ UNCHANGED <<config, guest, pid, current, mi, bar>>

\* One request, that turns the guest from held to g and leads to pc.
Request(r, g, pc) ==
  \/ /\ guest[r].proc = "held"
     /\ guest' = [guest EXCEPT ![r] = g]
     /\ Go(r, pc)
     /\ UNCHANGED <<config, pid, current, mpc, mi, bar>>
  \/ Crash(r)

\* child::wait: waitpid reports a stop, or the end of the process; in that
\* case pid_ becomes -1 some time later.
Wait(r, pc, dead) ==
  /\ \/ guest[r].proc = "stopped" /\ Go(r, pc)
        /\ guest' = [guest EXCEPT ![r].proc = "held"]
     \/ guest[r].proc = "zombie" /\ Go(r, dead)
        /\ guest' = [guest EXCEPT ![r].proc = "gone"]
  /\ UNCHANGED <<config, pid, current, mpc, mi, bar>>

Step(r, pc) == Alive /\ w[r] = pc

\* spawn: fork, and wait for the child to stop itself.
Spawn(r) ==
  \/ /\ Step(r, "spawn")
     /\ guest' = [guest EXCEPT ![r].proc = "running"]
     /\ pid' = [pid EXCEPT ![r] = TRUE]
     /\ Go(r, "spawned")
     /\ UNCHANGED <<config, current, mpc, mi, bar>>
  \/ Step(r, "spawned") /\ Wait(r, "mem", "reaped in spawn")

\* child::wait has seen the end of the process.  In the loop ptrace_worker
\* then returns; in wait_until_execve and replace_syscall_with_result it goes
\* on to a ptrace request that fails; in spawn, it goes on to proc_mem.
ClearPid(r) ==
  /\ Alive
  /\ \/ w[r] = "reaped" /\ Return(r)
     \/ w[r] = "reaped early" /\ Go(r, "dead") /\ UNCHANGED mpc
     \/ w[r] = "reaped in spawn" /\ Go(r, "mem") /\ UNCHANGED mpc
  /\ pid' = [pid EXCEPT ![r] = FALSE]
  /\ UNCHANGED <<config, guest, current, mi, bar>>

\* The request on a child whose pid_ is -1.
RequestOnDead(r) == Step(r, "dead") /\ Crash(r)

\* proc_mem: /proc/-1/mem does not exist, which is not ESRCH: terminate.  For
\* a child that has ended but was not waited for, it depends on the kernel.
OpenMem(r) ==
  /\ Step(r, "mem")
  /\ \/ pid[r] /\ Go(r, "options") /\ UNCHANGED mpc
     \/ pid[r] /\ guest[r].proc = "zombie" /\ Return(r)
     \/ ~pid[r] /\ mpc' = "aborted" /\ UNCHANGED w
  /\ UNCHANGED <<config, guest, pid, current, mi, bar>>

SetOptions(r) == Step(r, "options") /\ Request(r, guest[r], "barrier")

\* barrier::wait, for the second to come.  Mistake: the epoch is not advanced.
FaultSameEpoch == [bar EXCEPT !.arrived = 0]
Release == [bar EXCEPT !.arrived = 0, !.released = TRUE]

\* barrier::wait, the tracer's side.
BarrierWorker(r) ==
  /\ Step(r, "barrier")
  /\ IF bar.arrived = 1
     THEN Go(r, "exec") /\ bar' = Release
     ELSE Go(r, "asleep") /\ bar' = [bar EXCEPT !.arrived = 1]
  /\ UNCHANGED <<config, guest, pid, current, mpc, mi>>

\* The tracer wakes up in barrier::wait.  mi has moved on, or bar is dead, if
\* ptrace_run has returned.
BarrierWakes(r) ==
  /\ Step(r, "asleep")
  /\ \/ mi = r /\ bar.alive /\ bar.released /\ Go(r, "exec")
     \/ ~(mi = r /\ bar.alive) /\ (Go(r, "exec") \/ Go(r, "stuck"))
  /\ UNCHANGED <<config, guest, pid, current, mpc, mi, bar>>

\* wait_until_execve: requests and waits until the exec event, then
\* remove_vdso.
WaitUntilExecve(r) ==
  \/ Step(r, "exec") /\ Request(r, Resumed(guest[r]), "exec wait")
  \/ Step(r, "exec wait")
     /\ Wait(r, IF guest[r].stop = "exec" THEN "vdso" ELSE "exec", "reaped early")
  \/ Step(r, "vdso") /\ Request(r, guest[r], "replica")

\* The tracer spins until machine::current_ is set.  It uses a plain pointer to
\* the machine (see UseAfterDestroy).
GetReplica(r) ==
  /\ Step(r, "replica")
  /\ current[r]
  /\ Go(r, "resume")
  /\ UNCHANGED <<config, guest, pid, current, mpc, mi, bar>>

\* The loop of ptrace_worker.
Resume(r) == Step(r, "resume") /\ Request(r, Resumed(guest[r]), "wait")

WaitStop(r) ==
  Step(r, "wait")
    /\ Wait(r, IF guest[r].stop \in {"entry", "exit"} THEN "trapped" ELSE "resume", "reaped")

\* handle_trapped: only the entry of a call that has a hook is answered.  For
\* an entry get_hook looks the hook up (see UseAfterDestroy).
HandleTrapped(r) ==
  /\ Step(r, "trapped")
  /\ Request(r, guest[r],
       IF guest[r].stop = "entry" /\ guest[r].call \in Hooked THEN "hook" ELSE "resume")

\* The hook returns; recvfrom's does when a datagram arrives.
HookReturns(r) ==
  /\ Step(r, "hook")
  /\ Go(r, "replace")
  /\ UNCHANGED <<config, guest, pid, current, mpc, mi, bar>>

\* A tracer is about to use what main's return and exit destroy: the logger, in
\* wait_until_execve and after the hook; its machine, for the replica; the sets
\* and the mutex of get_hook; or the simulator, in a hook.
Uses(r) ==
  \/ w[r] = "exec" /\ guest[r].stop = "sigstop"
  \/ w[r] = "replica"
  \/ w[r] = "trapped" /\ guest[r].proc = "held" /\ guest[r].stop = "entry"
  \/ w[r] \in {"hook", "replace"}

\* After it was destroyed that may end the program; or the memory still holds
\* what it did, and the tracer goes on as before.
UseAfterDestroy(r) ==
  /\ Main("destroyed")
  /\ Uses(r)
  /\ mpc' = "aborted"
  /\ UNCHANGED <<config, guest, w, pid, current, mi, bar>>

\* replace_syscall_with_result: run gettid instead, wait for its exit stop and
\* put the hook's result in its place.  Mistake: it is not.
WithGettid(g) == [Resumed(g) EXCEPT !.nr = "gettid"]

FaultResultLost(g) == g
WithResult(g) == [g EXCEPT !.rax = "hook"]

ReplaceSyscall(r) ==
  \/ Step(r, "replace") /\ Request(r, WithGettid(guest[r]), "replace wait")
  \/ Step(r, "replace wait") /\ Wait(r, "result", "reaped early")
  \/ Step(r, "result") /\ Request(r, WithResult(guest[r]), "resume")

-----------------------------------------------------------------------------
(* main, machine::start, ptrace_run and runner_handle.                     *)

MainTo(pc, i) == mpc' = pc /\ mi' = i

\* main without an argument returns; parse_config, or the null path, may end
\* the program; with no replicas there is nothing to start.
Parse ==
  /\ Main("parse")
  /\ \/ ~conf.given /\ MainTo("exited", mi) /\ UNCHANGED <<replicas, prime>>
     \/ /\ conf.given /\ (~conf.valid \/ NullPath)
        /\ MainTo("aborted", mi) /\ UNCHANGED <<replicas, prime>>
     \/ /\ conf.given /\ conf.valid /\ ~NullPath
        /\ replicas' = ParseReplicas
        /\ prime' = LastMarked(ParseReplicas)
        /\ MainTo(IF ParseReplicas = <<>> THEN "return" ELSE "start", mi)
  /\ UNCHANGED <<conf, guest, w, pid, current, bar>>

\* machine::start calls ptrace_run, which starts the tracer.
Start ==
  /\ Main("start")
  /\ Go(mi, "spawn")
  /\ bar' = [arrived |-> 0, released |-> FALSE, alive |-> TRUE]
  /\ MainTo("barrier", mi)
  /\ UNCHANGED <<config, guest, pid, current>>

\* barrier::wait, main's side; main leaves it and ptrace_run returns, or it
\* sleeps until the tracer comes.
BarrierMain ==
  \/ /\ Main("barrier")
     /\ IF bar.arrived = 1
        THEN MainTo("assign", mi) /\ bar' = [Release EXCEPT !.alive = FALSE]
        ELSE MainTo("asleep", mi) /\ bar' = [bar EXCEPT !.arrived = 1]
     /\ UNCHANGED <<config, guest, w, pid, current>>
  \/ /\ Main("asleep")
     /\ bar.released
     /\ MainTo("assign", mi)
     /\ bar' = [bar EXCEPT !.alive = FALSE]
     /\ UNCHANGED <<config, guest, w, pid, current>>

\* There is another machine.  Mistake: one too many.
FaultOneTooMany == mi <= N
More == mi < N

\* machine::start sets current_; main goes to the next machine, or to the
\* waiting: for all machines, or for the prime one.
Assign ==
  /\ Main("assign")
  /\ current' = [current EXCEPT ![mi] = TRUE]
  /\ IF More THEN MainTo("start", mi + 1)
               ELSE MainTo("join", IF prime = 0 THEN 1 ELSE prime)
  /\ UNCHANGED <<config, guest, w, pid, bar>>

\* The machines that main joins.  Mistake: all but the last one.
FaultJoinsAllButLast == IF prime = 0 THEN 1..(N - 1) ELSE {prime}
Joined == IF prime = 0 THEN Machines ELSE {prime}

\* runner_handle::wait joins the tracer.
Join ==
  /\ Main("join")
  /\ mi \in Joined => w[mi] = "returned"
  /\ IF prime = 0
     THEN IF More THEN MainTo("join", mi + 1) ELSE MainTo("return", mi)
     ELSE MainTo("kill", 1)
  /\ UNCHANGED <<config, guest, w, pid, current, bar>>

\* The kill loop: every machine but the prime one.
NextKill == IF More THEN MainTo("kill", mi + 1) ELSE MainTo("return", mi)

\* The kill loop leaves the prime machine out.
Spared == mi = prime

\* child::terminate refuses when pid_ is -1; nobody catches the exception.
KillCheck ==
  /\ Main("kill")
  /\ IF Spared THEN NextKill
     ELSE MainTo(IF pid[mi] THEN "send" ELSE "aborted", mi)
  /\ UNCHANGED <<config, guest, w, pid, current, bar>>

\* It then calls kill.  pid_ is not protected: for a process that was waited
\* for since, kill fails with ESRCH, which nobody catches, or, if the compiler
\* reads pid_ again, it is kill(-1, SIGTERM), a signal for every process.
KillSend ==
  /\ Main("send")
  /\ \/ guest[mi].proc = "gone" /\ MainTo("aborted", mi) /\ UNCHANGED guest
     \/ guest[mi].proc # "gone" /\ NextKill
        /\ guest' = [guest EXCEPT ![mi].sig = TRUE]
     \/ ~pid[mi] /\ NextKill
        /\ guest' = [r \in Ids |-> [guest[r] EXCEPT !.sig = TRUE]]
  /\ UNCHANGED <<config, w, pid, current, bar>>

\* main returns: the machines are destroyed, and with them the handle of each
\* tracer that has returned; a handle whose tracer was not joined terminates
\* the program.  Tracers that run keep their handles, but their machines and
\* the simulator are gone, and exit goes on to destroy the statics.
Destroy ==
  /\ Main("return")
  /\ MainTo(IF \E r \in Machines \ Joined : w[r] = "returned"
            THEN "aborted" ELSE "destroyed", mi)
  /\ UNCHANGED <<config, guest, w, pid, current, bar>>

Exit ==
  /\ Main("destroyed")
  /\ MainTo("exited", mi)
  /\ UNCHANGED <<config, guest, w, pid, current, bar>>

-----------------------------------------------------------------------------
Kernel(r) ==
  \/ ChildStops(r) \/ ChildExecs(r) \/ ExecEvent(r)
  \/ \E k \in {"real", "exit"} \cup Hooked : GuestCalls(r, k)
  \/ KernelRuns(r) \/ SignalStops(r)

\* What a tracer does once it can, which leaves out the return of a hook.
Tracer(r) ==
  \/ Spawn(r) \/ ClearPid(r) \/ RequestOnDead(r) \/ OpenMem(r) \/ SetOptions(r)
  \/ BarrierWorker(r) \/ BarrierWakes(r) \/ WaitUntilExecve(r) \/ GetReplica(r)
  \/ Resume(r) \/ WaitStop(r) \/ HandleTrapped(r) \/ ReplaceSyscall(r)

MainStep ==
  Parse \/ Start \/ BarrierMain \/ Assign \/ Join \/ KillCheck \/ KillSend \/ Destroy \/ Exit

Ended == ~Alive /\ UNCHANGED vars

Next ==
  \/ \E r \in Ids :
       \/ Kernel(r) \/ Killed(r) \/ Tracer(r) \/ HookReturns(r)
       \/ UseAfterDestroy(r) \/ Orphaned(r)
  \/ MainStep
  \/ Ended

Spec == Init /\ [][Next]_vars

\* Threads and processes that can run do.  A hook returns, except that of a
\* recvfrom, which may wait for ever.  Nobody has to send SIGKILL.
Fairness ==
  /\ WF_vars(MainStep)
  /\ \A r \in Ids :
       /\ WF_vars(Kernel(r))
       /\ WF_vars(Tracer(r))
       /\ WF_vars(HookReturns(r) /\ guest[r].call = "sim")

FairSpec == Spec /\ Fairness

-----------------------------------------------------------------------------
\* Values stay in range: main is at a machine that exists, a process that was
\* waited for has ended, and so on (the state of ptrace_runner_handle and main).
TypeOK ==
  /\ conf \in Scenarios
  /\ replicas \in {<<>>, conf.replicas}
  /\ prime \in Machines \cup {0}
  /\ guest \in [Ids -> Guest]
  /\ w \in [Ids -> {"none", "spawn", "spawned", "reaped in spawn", "mem",
       "options", "barrier", "asleep", "stuck", "exec", "exec wait", "vdso",
       "replica", "resume", "wait", "trapped", "hook", "replace",
       "replace wait", "result", "reaped", "reaped early", "dead", "returned"}]
  /\ pid \in [Ids -> BOOLEAN]
  /\ current \in [Ids -> BOOLEAN]
  /\ mpc \in {"parse", "start", "barrier", "asleep", "assign", "join", "kill", "send",
              "return", "destroyed", "exited", "aborted"}
  /\ mi \in Machines \cup {1}
  /\ bar \in [arrived : {0, 1}, released : BOOLEAN, alive : BOOLEAN]

\* As long as the simulator runs, a guest that runs on after a call which a hook
\* answers sees the hook's result, and the kernel has not executed the call;
\* other calls are the kernel's alone (handle_trapped and
\* replace_syscall_with_result).
GuestSeesResult ==
  \A r \in Machines : Alive /\ Running(r, "user") =>
    /\ guest[r].call \in Hooked => guest[r].rax = "hook" /\ ~guest[r].ran
    /\ guest[r].call = "real" => guest[r].rax = "real" /\ guest[r].ran

\* runner_handle::kill ends no guest while the simulator runs: the tracer
\* discards every signal that its guest stops for.  Only after the end of the
\* simulator does its SIGTERM end guests, and only others than the prime one,
\* which main has waited for before it sends any; without a prime machine no
\* guest ends so (handle_trapped's loop, main, and a missing PTRACE_O_EXITKILL).
SigtermHeldBack ==
  \A r \in Machines : guest[r].end = "term" => ~Alive /\ prime \notin {0, r}

\* What can make the simulator end abnormally: a file that cannot be parsed or
\* has a replica without a path, SIGKILL for a child that has not reached its
\* first stop, or, with a prime machine, another guest: one that has ended, or
\* one whose tracer uses what main's return and exit have destroyed.  The death
\* of a guest later on is handled (the ESRCH clause of ptrace_run).
AbortCause ==
  mpc = "aborted" /\ conf.valid /\ ~NullPath =>
    \E r \in Machines :
      \/ w[r] = "mem" /\ guest[r].end = "kill"
      \/ prime \notin {0, r} /\ (guest[r].end # "none" \/ Uses(r))

\* A file is run as a whole or not at all: when main waits or has ended, every
\* replica that it lists was started, or none was; that none was although it
\* lists some is an abnormal end, or because an element is not a table
\* (parse_replicas and main).
AllOrNothing ==
  mpc \in {"join", "kill", "send", "return", "destroyed", "exited"} =>
    \/ Machines = DOMAIN conf.replicas /\ \A r \in Machines : w[r] # "none"
    \/ /\ \A r \in Machines : w[r] = "none"
       /\ conf.given => \E i \in DOMAIN conf.replicas : ~conf.replicas[i].table

\* Without a prime machine, main returns only after every guest that nobody
\* killed has been started, has exited and has been waited for (a killed one
\* may stay a zombie: its tracer gives up at the first request that fails), and
\* every tracer has returned: no hook uses the simulator after main has
\* destroyed it.
RunComplete ==
  prime = 0 /\ mpc \in {"return", "destroyed", "exited"} =>
    \A r \in Machines :
      /\ w[r] = "returned"
      /\ \/ guest[r].end = "kill"
         \/ guest[r].proc = "gone" /\ guest[r].end = "exit" /\ ~pid[r]

\* main returns, or the program ends otherwise, unless main waits for ever: for
\* a tracer that stays in the barrier of a ptrace_run that has returned, or in
\* a recvfrom that nothing arrives for, or whose program cannot be executed, or
\* at the barrier for a tracer whose guest was killed before it came there.
\* With a prime machine that tracer is the prime one: main does not depend on
\* what the other guests do.  This is about guests that exit after a number of
\* system calls (conf.calls); main waits for ever for one that does not.
MainReturns ==
  \/ <>(~Alive)
  \/ \E r \in Ids :
       \/ <>[](r \in Joined /\ (r \in BadPath \/ w[r] \in {"stuck", "hook"}))
       \/ <>[](w[r] = "returned" /\ mi = r /\ mpc = "asleep" /\ guest[r].end = "kill")

-----------------------------------------------------------------------------
(* What the code says of itself, and does not keep.                        *)

\* result.check_returncode() in determinism.py: a run with a prime machine
\* ends with status 0.
EndsNormally == mpc # "aborted"
=============================================================================
