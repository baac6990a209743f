--------------------------- MODULE Runner_proofs ----------------------------
(***************************************************************************)
(* Theorems about Runner, for every set of scenarios: any number of        *)
(* machines, prime or not, and any number of system calls.                 *)
(*                                                                         *)
(* The inductive invariant has a part for each tracer and its guest, which *)
(* is a predicate on their own state only, and a part for main, which sees *)
(* of the tracers only whether they have passed the barrier and whether    *)
(* they have returned.  Guests that outlive the simulator are left out of  *)
(* the first part.  A third part says when SIGTERM is sent: after main has *)
(* waited for the prime machine.                                           *)
(***************************************************************************)
EXTENDS Runner, TLAPS, WellFoundedInduction

\* Where a tracer is: before it has passed the barrier of ptrace_run ...
Before == {"none", "spawn", "spawned", "reaped in spawn", "mem", "options", "barrier"}

\* ... at a request, with the guest held unless it was killed meanwhile ...
AtRequest == {"mem", "options", "barrier", "asleep", "stuck", "exec", "vdso",
              "replica", "resume", "trapped", "hook", "replace", "result"}

\* ... in waitpid, with the guest running to its next stop ...
Waiting == {"spawned", "exec wait", "wait", "replace wait"}

\* ... or after waitpid has reported the guest's end.
Reaped == {"reaped in spawn", "reaped early", "reaped", "dead"}

-----------------------------------------------------------------------------
\* How a traced process has ended, if it has: it exits only while its tracer
\* waits in the loop of ptrace_worker, and nothing else ends it but SIGKILL.
EndInv(g, pc) ==
  /\ g.end = "none" <=> g.proc \notin {"zombie", "gone"}
  /\ g.end # "term"
  /\ g.end = "exit" => pc \in {"wait", "reaped", "returned"}

\* What the tracer's position says of the process.
ProcInv(g, pc) ==
  /\ g.proc = "none" <=> pc \in {"none", "spawn"}
  /\ g.proc = "none" => g.at = "new" /\ g.call = "none"
  /\ pc \in AtRequest => g.proc = "held" \/ g.end = "kill"
  /\ pc \in Waiting => g.proc \in {"running", "stopped", "zombie"}
  /\ pc \in Reaped => g.proc = "gone"
  /\ pc = "returned" => g.proc \in {"zombie", "gone"}
  /\ pc = "returned" /\ g.end = "exit" => g.proc = "gone"

\* pid_ is set as long as the end of the process was not reported.
PidInv(g, pc, p) ==
  /\ ~p => pc \in {"none", "spawn"} \/ g.proc = "gone"
  /\ pc = "returned" /\ g.end = "exit" => ~p

\* A hooked call has the hook's result, another one the kernel's.
Answered(g) ==
  /\ g.call \in Hooked => g.rax = "hook" /\ ~g.ran
  /\ g.call = "real" => g.rax = "real" /\ g.ran

\* The system call that a live process is in.
CallInv(g, pc) ==
  /\ g.at \notin {"user", "kernel"} => g.call = "none"
  /\ pc \in Before \cup {"asleep", "stuck"} => g.at \in {"new", "pre"}
  /\ pc = "spawned" /\ g.proc = "running" => g.at = "new"
  /\ pc = "exec" => g.at \in {"new", "pre", "exec"}
  /\ pc = "exec wait" => g.at \in {"new", "pre", "exec", "execed"}
  /\ pc = "exec wait" /\ g.at = "execed" => g.proc = "stopped" /\ g.stop = "exec"
  /\ pc = "exec wait" /\ g.proc = "stopped" /\ g.stop = "exec" => g.at = "execed"
  /\ pc \in {"vdso", "replica"} => g.at = "execed"
  /\ g.at = "user" /\ pc \notin {"replace wait", "result"} => Answered(g)
  /\ g.at = "kernel" => ~g.ran /\ g.call # "none"
  /\ g.at = "kernel" /\ g.proc # "running" => g.stop = "entry"
  /\ g.at = "kernel" /\ pc # "replace wait" => g.nr = "own"
  /\ g.at = "kernel" /\ (pc = "resume" \/ (pc = "wait" /\ g.proc = "running"))
       => g.call \notin Hooked
  /\ g.at = "user" /\ g.proc # "running" => g.stop # "entry"
  /\ pc \in {"hook", "replace"} => g.at = "kernel" /\ g.call \in Hooked
  /\ pc = "replace wait" =>
       /\ g.call \in Hooked /\ g.nr = "gettid" /\ ~g.ran
       /\ g.at = IF g.proc = "running" THEN "kernel" ELSE "user"
  /\ pc = "result" => g.at = "user" /\ g.call \in Hooked /\ ~g.ran

\* The tracer's part of the invariant.
TracerInv(g, pc, p) ==
  /\ EndInv(g, pc)
  /\ ProcInv(g, pc)
  /\ PidInv(g, pc, p)
  /\ Live(g) => CallInv(g, pc)

-----------------------------------------------------------------------------
\* What the file has become.
ConfigInv ==
  /\ mpc = "parse" => replicas = <<>> /\ prime = 0 /\ mi = 1
  /\ mpc \notin {"parse", "aborted"} /\ replicas # conf.replicas =>
       /\ replicas = <<>>
       /\ conf.given => \E i \in DOMAIN conf.replicas : ~conf.replicas[i].table
  /\ mpc \in {"start", "barrier", "asleep", "assign", "join", "kill", "send"} =>
       replicas = conf.replicas /\ mi \in Machines
  /\ replicas = <<>> => prime = 0

\* Only machines have tracers; main has started those up to mi, and all but
\* the last of these have passed the barrier.
StartInv ==
  /\ \A r \in Ids \ Machines : w[r] = "none"
  /\ mpc = "parse" => \A r \in Ids : w[r] = "none"
  /\ mpc = "start" =>
       \A r \in Machines : IF r < mi THEN w[r] \notin Before ELSE w[r] = "none"
  /\ mpc \in {"barrier", "asleep", "assign"} =>
       /\ w[mi] # "none"
       /\ \A r \in Machines : /\ r < mi => w[r] \notin Before
                              /\ r > mi => w[r] = "none"
  /\ mpc \in {"join", "kill", "send", "return", "destroyed", "exited"} =>
       \A r \in Machines : w[r] \notin Before

\* The barrier of the ptrace_run that main is in.
BarrierInv ==
  /\ mpc = "barrier" => /\ bar.alive /\ ~bar.released
                        /\ IF bar.arrived = 1 THEN w[mi] = "asleep"
                           ELSE w[mi] \in Before \cup {"returned"}
  /\ mpc = "asleep" => /\ bar.alive
                       /\ IF bar.released THEN w[mi] \notin Before
                          ELSE bar.arrived = 1 /\ w[mi] \in Before \cup {"returned"}
  /\ mpc = "assign" => w[mi] \notin Before

\* What main has waited for.
JoinInv ==
  /\ mpc = "join" =>
       IF prime = 0 THEN \A r \in Machines : r < mi => w[r] = "returned"
       ELSE mi = prime
  /\ mpc \in {"kill", "send"} => prime # 0 /\ w[prime] = "returned"
  /\ mpc = "send" => mi # prime
  /\ mpc \in {"return", "destroyed", "exited"} =>
       \A r \in Joined : r # 0 => w[r] = "returned"

\* A guest that has ended after the simulator.
Orphan(r) ==
  /\ guest[r].proc = "gone" /\ guest[r].end # "none"
  /\ w[r] # "returned"
  /\ guest[r].end = "term" => prime \notin {0, r}

MachineInv(r) == TracerInv(guest[r], w[r], pid[r]) \/ (~Alive /\ Orphan(r))

\* A guest has a SIGTERM pending, or is or was last stopped for one.
Signalled(g) == g.sig \/ g.stop = "signal"

\* SIGTERM is sent only after main has waited for the prime machine.
SignalInv ==
  \A r \in Ids : Signalled(guest[r]) => prime # 0 /\ w[prime] = "returned"

\* The inductive invariant, but for SignalInv.
Inv ==
  /\ TypeOK
  /\ \A r \in Ids : MachineInv(r)
  /\ ConfigInv /\ StartInv /\ BarrierInv /\ JoinInv
  /\ AbortCause
-----------------------------------------------------------------------------
Pcs == {"none", "spawn", "spawned", "reaped in spawn", "mem",
  "options", "barrier", "asleep", "stuck", "exec", "exec wait", "vdso",
  "replica", "resume", "wait", "trapped", "hook", "replace",
  "replace wait", "result", "reaped", "reaped early", "dead", "returned"}

\* Everything of r is in range, and the tracer's invariant holds.
Fine(g, pc, p) == g \in Guest /\ pc \in Pcs /\ p \in BOOLEAN /\ TracerInv(g, pc, p)

\* A step that changes the state of no machine but r's.
Only(r) ==
  /\ guest' = [guest EXCEPT ![r] = guest'[r]]
  /\ w' = [w EXCEPT ![r] = w'[r]]
  /\ pid' = [pid EXCEPT ![r] = pid'[r]]
  /\ Fine(guest'[r], w'[r], pid'[r])

\* While a process runs its tracer waits for it.
LEMMA TracerOfRunning ==
  ASSUME NEW g, NEW pc, NEW p, Fine(g, pc, p), g.proc = "running"
  PROVE  pc \in Waiting /\ CallInv(g, pc) /\ g.end = "none"
  BY DEF Fine, TracerInv, ProcInv, EndInv, Live, AtRequest, Waiting, Reaped, Pcs

\* The stops of a child that runs up to its program, and the stop for SIGTERM.
LEMMA EarlyStop ==
  ASSUME NEW g, NEW pc, NEW p, Fine(g, pc, p), g.proc = "running"
  PROVE  /\ g.at = "new" => Fine([Stopped(g, "sigstop") EXCEPT !.at = "pre"], pc, p)
         /\ g.at = "pre" => Fine(Stopped(g, "abort"), pc, p)
         /\ g.at = "pre" => Fine([Stopped(g, "entry") EXCEPT !.at = "exec"], pc, p)
         /\ g.at = "exec" => Fine([Stopped(g, "exec") EXCEPT !.at = "execed"], pc, p)
         /\ g.at = "execed" => Fine([Stopped(g, "exit") EXCEPT !.at = "user"], pc, p)
         /\ g.at # "kernel" => Fine([Stopped(g, "signal") EXCEPT !.sig = FALSE], pc, p)
  <1>1. pc \in Waiting /\ CallInv(g, pc) /\ g.end = "none"
    BY TracerOfRunning
  <1> USE <1>1 DEF Fine, TracerInv, ProcInv, EndInv, PidInv, CallInv, Stopped, Live, AtRequest,
                   Waiting, Reaped, Before, Guest, Answered, Hooked
  <1>2. g.at = "new" => Fine([Stopped(g, "sigstop") EXCEPT !.at = "pre"], pc, p)
    OBVIOUS
  <1>3. g.at = "pre" => Fine(Stopped(g, "abort"), pc, p)
    OBVIOUS
  <1>4. g.at = "pre" => Fine([Stopped(g, "entry") EXCEPT !.at = "exec"], pc, p)
    OBVIOUS
  <1>5. g.at = "exec" => Fine([Stopped(g, "exec") EXCEPT !.at = "execed"], pc, p)
    OBVIOUS
  <1>6. g.at = "execed" => Fine([Stopped(g, "exit") EXCEPT !.at = "user"], pc, p)
    OBVIOUS
  <1>7. g.at # "kernel" => Fine([Stopped(g, "signal") EXCEPT !.sig = FALSE], pc, p)
    OBVIOUS
  <1> QED BY <1>2, <1>3, <1>4, <1>5, <1>6, <1>7

\* A system call of the program: its entry, and its execution by the kernel.
LEMMA CallStop ==
  ASSUME NEW g, NEW pc, NEW p, Fine(g, pc, p), g.proc = "running"
  PROVE  /\ g.at = "user" => \A k \in {"real", "exit"} \cup Hooked :
              Fine([Stopped(g, "entry") EXCEPT
                      !.at = "kernel", !.call = k, !.nr = "own", !.ran = FALSE,
                      !.calls = IF k = "exit" THEN @ ELSE @ + 1], pc, p)
         /\ g.at = "kernel" =>
              IF g.nr = "own" /\ g.call = "exit"
              THEN Fine([g EXCEPT !.proc = "zombie", !.end = "exit"], pc, p)
              ELSE Fine([Stopped(g, "exit") EXCEPT
                           !.at = "user",
                           !.ran = g.nr = "own",
                           !.rax = IF g.nr = "own" THEN "real" ELSE "gettid"], pc, p)
  <1>1. pc \in Waiting /\ CallInv(g, pc) /\ g.end = "none"
    BY TracerOfRunning
  <1>0. g.calls \in Nat /\ g.calls + 1 \in Nat
    BY DEF Fine, Guest
  <1> USE <1>1 DEF Fine, TracerInv, ProcInv, EndInv, PidInv, CallInv, Stopped, Live, AtRequest,
                   Waiting, Reaped, Before, Guest, Answered, Hooked
  <1>2. ASSUME g.at = "user", NEW k \in {"real", "exit"} \cup Hooked
        PROVE  Fine([Stopped(g, "entry") EXCEPT
                      !.at = "kernel", !.call = k, !.nr = "own", !.ran = FALSE,
                      !.calls = IF k = "exit" THEN @ ELSE @ + 1], pc, p)
    <2>1. pc = "wait"
      BY <1>2
    <2>2. ASSUME NEW c \in Nat
          PROVE  Fine([Stopped(g, "entry") EXCEPT
                    !.at = "kernel", !.call = k, !.nr = "own", !.ran = FALSE, !.calls = c], pc, p)
      <3> DEFINE h == [Stopped(g, "entry") EXCEPT
                    !.at = "kernel", !.call = k, !.nr = "own", !.ran = FALSE, !.calls = c]
      <3>1. h \in Guest
        BY <1>2, <2>2
      <3>2. /\ h.proc = "stopped" /\ h.stop = "entry" /\ h.at = "kernel" /\ h.call = k
            /\ h.nr = "own" /\ ~h.ran /\ h.end = "none"
        BY <1>2
      <3>3. TracerInv(h, pc, p)
        BY <1>2, <2>1, <3>2
      <3> QED BY <3>1, <3>3
    <2> HIDE DEF Fine
    <2>4. CASE k = "exit"
      BY <1>0, <2>2, <2>4 DEF Stopped
    <2>5. CASE k # "exit"
      BY <1>0, <2>2, <2>5 DEF Stopped
    <2> QED BY <2>4, <2>5
  <1>3. ASSUME g.at = "kernel", g.nr = "own", g.call = "exit"
        PROVE  Fine([g EXCEPT !.proc = "zombie", !.end = "exit"], pc, p)
    BY <1>3
  <1>4. ASSUME g.at = "kernel", g.nr = "own", g.call # "exit"
        PROVE  Fine([Stopped(g, "exit") EXCEPT !.at = "user", !.ran = TRUE, !.rax = "real"], pc, p)
    BY <1>4
  <1>5. ASSUME g.at = "kernel", g.nr # "own"
        PROVE  Fine([Stopped(g, "exit") EXCEPT !.at = "user", !.ran = FALSE, !.rax = "gettid"], pc, p)
    BY <1>5
  <1> HIDE DEF Fine
  <1>6. ASSUME g.at = "kernel", ~(g.nr = "own" /\ g.call = "exit")
        PROVE  Fine([Stopped(g, "exit") EXCEPT
                       !.at = "user",
                       !.ran = g.nr = "own",
                       !.rax = IF g.nr = "own" THEN "real" ELSE "gettid"], pc, p)
    <2>1. CASE g.nr = "own"
      BY <1>4, <1>6, <2>1 DEF Stopped
    <2>2. CASE g.nr # "own"
      BY <1>5, <1>6, <2>2 DEF Stopped
    <2> QED BY <2>1, <2>2
  <1> QED BY <1>2, <1>3, <1>6

\* SIGKILL.
LEMMA KillStop ==
  ASSUME NEW g, NEW pc, NEW p, Fine(g, pc, p), Live(g)
  PROVE  Fine([g EXCEPT !.proc = "zombie", !.end = "kill"], pc, p)
  <1> DEFINE z == [g EXCEPT !.proc = "zombie"]
             h == [z EXCEPT !.end = "kill"]
  <1>0. h \in Guest
    <2>1. z \in Guest
      BY DEF Fine, Guest
    <2> HIDE DEF z
    <2> QED BY <2>1 DEF Guest
  <1>1. h.proc = "zombie" /\ h.end = "kill"
    BY DEF Fine, Guest, Hooked
  <1>2. TracerInv(h, pc, p)
    BY <1>1 DEF Fine, TracerInv, ProcInv, EndInv, PidInv, Live, AtRequest, Waiting, Reaped, Pcs
  <1> QED BY <1>0, <1>2 DEF Fine

\* waitpid reports a stop.
LEMMA StopReported ==
  ASSUME NEW g, NEW pc, NEW p, Fine(g, pc, p), g.proc = "stopped"
  PROVE  /\ pc = "spawned" => Fine([g EXCEPT !.proc = "held"], "mem", p)
         /\ pc = "exec wait" /\ g.stop = "exec" => Fine([g EXCEPT !.proc = "held"], "vdso", p)
         /\ pc = "exec wait" /\ g.stop # "exec" => Fine([g EXCEPT !.proc = "held"], "exec", p)
         /\ pc = "wait" /\ g.stop \in {"entry", "exit"} => Fine([g EXCEPT !.proc = "held"], "trapped", p)
         /\ pc = "wait" /\ g.stop \notin {"entry", "exit"} => Fine([g EXCEPT !.proc = "held"], "resume", p)
         /\ pc = "replace wait" => Fine([g EXCEPT !.proc = "held"], "result", p)
  <1> USE DEF Fine, TracerInv, ProcInv, EndInv, PidInv, CallInv, Live, AtRequest, Waiting,
                   Reaped, Before, Guest, Answered, Hooked, Pcs
  <1>1. pc = "spawned" => Fine([g EXCEPT !.proc = "held"], "mem", p)
    OBVIOUS
  <1>2. pc = "exec wait" /\ g.stop = "exec" => Fine([g EXCEPT !.proc = "held"], "vdso", p)
    OBVIOUS
  <1>3. pc = "exec wait" /\ g.stop # "exec" => Fine([g EXCEPT !.proc = "held"], "exec", p)
    OBVIOUS
  <1>4. pc = "wait" /\ g.stop \in {"entry", "exit"} => Fine([g EXCEPT !.proc = "held"], "trapped", p)
    OBVIOUS
  <1>5. pc = "wait" /\ g.stop \notin {"entry", "exit"} => Fine([g EXCEPT !.proc = "held"], "resume", p)
    OBVIOUS
  <1>6. pc = "replace wait" => Fine([g EXCEPT !.proc = "held"], "result", p)
    OBVIOUS
  <1> QED BY <1>1, <1>2, <1>3, <1>4, <1>5, <1>6

\* waitpid reports the end, and then pid_ is reset.
LEMMA EndReported ==
  ASSUME NEW g, NEW pc, NEW p, Fine(g, pc, p)
  PROVE  /\ g.proc = "zombie" /\ pc = "spawned" => Fine([g EXCEPT !.proc = "gone"], "reaped in spawn", p)
         /\ g.proc = "zombie" /\ pc \in {"exec wait", "replace wait"} => Fine([g EXCEPT !.proc = "gone"], "reaped early", p)
         /\ g.proc = "zombie" /\ pc = "wait" => Fine([g EXCEPT !.proc = "gone"], "reaped", p)
         /\ pc = "reaped in spawn" => Fine(g, "mem", FALSE)
         /\ pc = "reaped early" => Fine(g, "dead", FALSE)
         /\ pc = "reaped" => Fine(g, "returned", FALSE)
  <1> USE DEF Fine, TracerInv, ProcInv, EndInv, PidInv, CallInv, Live, AtRequest, Waiting,
                   Reaped, Before, Guest, Answered, Hooked, Pcs
  <1>1. g.proc = "zombie" /\ pc = "spawned" => Fine([g EXCEPT !.proc = "gone"], "reaped in spawn", p)
    OBVIOUS
  <1>2. g.proc = "zombie" /\ pc \in {"exec wait", "replace wait"} => Fine([g EXCEPT !.proc = "gone"], "reaped early", p)
    OBVIOUS
  <1>3. g.proc = "zombie" /\ pc = "wait" => Fine([g EXCEPT !.proc = "gone"], "reaped", p)
    OBVIOUS
  <1>4. pc = "reaped in spawn" => Fine(g, "mem", FALSE)
    OBVIOUS
  <1>5. pc = "reaped early" => Fine(g, "dead", FALSE)
    OBVIOUS
  <1>6. pc = "reaped" => Fine(g, "returned", FALSE)
    OBVIOUS
  <1> QED BY <1>1, <1>2, <1>3, <1>4, <1>5, <1>6

\* A ptrace request on a guest that is held, or one that fails.
LEMMA Requested ==
  ASSUME NEW g, NEW pc, NEW p, Fine(g, pc, p)
  PROVE  /\ pc = "options" /\ g.proc = "held" => Fine(g, "barrier", p)
         /\ pc = "exec" /\ g.proc = "held" => Fine(Resumed(g), "exec wait", p)
         /\ pc = "vdso" /\ g.proc = "held" => Fine(g, "replica", p)
         /\ pc = "resume" /\ g.proc = "held" => Fine(Resumed(g), "wait", p)
         /\ pc = "trapped" /\ g.proc = "held" /\ g.stop = "entry" /\ g.call \in Hooked => Fine(g, "hook", p)
         /\ pc = "trapped" /\ g.proc = "held" /\ ~(g.stop = "entry" /\ g.call \in Hooked) => Fine(g, "resume", p)
         /\ pc = "replace" /\ g.proc = "held" => Fine(WithGettid(g), "replace wait", p)
         /\ pc = "result" /\ g.proc = "held" => Fine(WithResult(g), "resume", p)
         /\ pc \in AtRequest \cup {"dead"} /\ ~Live(g) => Fine(g, "returned", p)
  <1> USE DEF Fine, TracerInv, ProcInv, EndInv, PidInv, CallInv, Live, AtRequest, Waiting,
                   Reaped, Before, Guest, Answered, Hooked, Pcs, Resumed, WithGettid, WithResult
  <1>1. pc = "options" /\ g.proc = "held" => Fine(g, "barrier", p)
    OBVIOUS
  <1>2. pc = "exec" /\ g.proc = "held" => Fine(Resumed(g), "exec wait", p)
    OBVIOUS
  <1>3. pc = "vdso" /\ g.proc = "held" => Fine(g, "replica", p)
    OBVIOUS
  <1>4. pc = "resume" /\ g.proc = "held" => Fine(Resumed(g), "wait", p)
    OBVIOUS
  <1>5. pc = "trapped" /\ g.proc = "held" /\ g.stop = "entry" /\ g.call \in Hooked => Fine(g, "hook", p)
    OBVIOUS
  <1>6. pc = "trapped" /\ g.proc = "held" /\ ~(g.stop = "entry" /\ g.call \in Hooked) => Fine(g, "resume", p)
    OBVIOUS
  <1>7. pc = "replace" /\ g.proc = "held" => Fine(WithGettid(g), "replace wait", p)
    OBVIOUS
  <1>8. pc = "result" /\ g.proc = "held" => Fine(WithResult(g), "resume", p)
    OBVIOUS
  <1>9. pc \in AtRequest \cup {"dead"} /\ ~Live(g) => Fine(g, "returned", p)
    OBVIOUS
  <1> QED BY <1>1, <1>2, <1>3, <1>4, <1>5, <1>6, <1>7, <1>8, <1>9

\* The other steps of a tracer, and a signal that becomes pending.
LEMMA Moved ==
  ASSUME NEW g, NEW pc, NEW p, Fine(g, pc, p)
  PROVE  /\ pc = "none" => Fine(g, "spawn", p)
         /\ pc = "spawn" => Fine([g EXCEPT !.proc = "running"], "spawned", TRUE)
         /\ pc = "mem" /\ p => Fine(g, "options", p)
         /\ pc = "mem" /\ g.proc = "zombie" => Fine(g, "returned", p)
         /\ pc = "barrier" => Fine(g, "exec", p) /\ Fine(g, "asleep", p)
         /\ pc = "asleep" => Fine(g, "exec", p) /\ Fine(g, "stuck", p)
         /\ pc = "replica" => Fine(g, "resume", p)
         /\ pc = "hook" => Fine(g, "replace", p)
         /\ Fine([g EXCEPT !.sig = TRUE], pc, p)
  <1> USE DEF Fine, TracerInv, ProcInv, EndInv, PidInv, CallInv, Live, AtRequest, Waiting,
                   Reaped, Before, Guest, Answered, Hooked, Pcs
  <1>1. pc = "none" => Fine(g, "spawn", p)
    OBVIOUS
  <1>2. pc = "spawn" => Fine([g EXCEPT !.proc = "running"], "spawned", TRUE)
    OBVIOUS
  <1>3. pc = "mem" /\ p => Fine(g, "options", p)
    OBVIOUS
  <1>4. pc = "mem" /\ g.proc = "zombie" => Fine(g, "returned", p)
    OBVIOUS
  <1>5. pc = "barrier" => Fine(g, "exec", p) /\ Fine(g, "asleep", p)
    OBVIOUS
  <1>6. pc = "asleep" => Fine(g, "exec", p) /\ Fine(g, "stuck", p)
    OBVIOUS
  <1>7. pc = "replica" => Fine(g, "resume", p)
    OBVIOUS
  <1>8. pc = "hook" => Fine(g, "replace", p)
    OBVIOUS
  <1>9. Fine([g EXCEPT !.sig = TRUE], pc, p)
    <2> DEFINE h == [g EXCEPT !.sig = TRUE]
    <2>1. /\ h \in Guest
          /\ h.proc = g.proc /\ h.stop = g.stop /\ h.at = g.at /\ h.call = g.call
          /\ h.nr = g.nr /\ h.rax = g.rax /\ h.ran = g.ran /\ h.end = g.end
      OBVIOUS
    <2> HIDE DEF h, Guest, Fine, TracerInv, ProcInv, EndInv, PidInv, CallInv, AtRequest, Waiting,
               Reaped, Before, Hooked, Pcs
    <2>2. EndInv(h, pc) /\ ProcInv(h, pc) /\ PidInv(h, pc, p)
      BY <2>1 DEF Fine, TracerInv, EndInv, ProcInv, PidInv
    <2>3. CallInv(g, pc) => CallInv(h, pc)
      BY <2>1 DEF CallInv
    <2> QED BY <2>1, <2>2, <2>3 DEF Fine, TracerInv, h
  <1> QED BY <1>1, <1>2, <1>3, <1>4, <1>5, <1>6, <1>7, <1>8, <1>9

-----------------------------------------------------------------------------
\* The parts of the invariant that one machine's step needs.
LEMMA InvOfMachine ==
  ASSUME Inv, NEW r \in Ids
  PROVE  /\ guest \in [Ids -> Guest] /\ w \in [Ids -> Pcs] /\ pid \in [Ids -> BOOLEAN]
         /\ Alive => Fine(guest[r], w[r], pid[r])
  <1>1. guest \in [Ids -> Guest] /\ w \in [Ids -> Pcs] /\ pid \in [Ids -> BOOLEAN]
    BY DEF Inv, TypeOK, Pcs
  <1> QED BY <1>1 DEF Inv, MachineInv, Fine

\* How main's state changes in a step of a tracer: not at all, or the program
\* ends when a tracer returns after main.
MainAside(r) ==
  /\ UNCHANGED <<config, current, mi, bar>>
  /\ \/ UNCHANGED mpc
     \/ mpc = "destroyed" /\ mpc' = "aborted" /\ w'[r] = "returned"

\* The step is none of the barrier's.
Passes(from, to) ==
  /\ from \notin {"none", "returned", "barrier", "asleep"} /\ to # "none"
  /\ from \in Before => to \in Before \cup {"returned"}
  /\ from \notin Before => to \notin Before

\* A guest that takes a step.
LEMMA GuestOnly ==
  ASSUME Inv, NEW r \in Ids, NEW g, GuestStep(r, g), Fine(g, w[r], pid[r])
  PROVE  Only(r) /\ Alive /\ UNCHANGED <<config, w, pid, current, mpc, mi, bar>>
  <1>1. guest' = [guest EXCEPT ![r] = g] /\ w' = w /\ pid' = pid /\ Alive
        /\ UNCHANGED <<config, w, pid, current, mpc, mi, bar>>
    BY DEF GuestStep
  <1>2. guest'[r] = g /\ w' = [w EXCEPT ![r] = w[r]] /\ pid' = [pid EXCEPT ![r] = pid[r]]
    BY <1>1, InvOfMachine
  <1> QED BY <1>1, <1>2 DEF Only

\* Every step of a guest, and SIGKILL, is one of its own machine.
LEMMA KernelOnly ==
  ASSUME Inv, NEW r \in Ids, Kernel(r) \/ Killed(r)
  PROVE  Only(r) /\ Alive /\ UNCHANGED <<config, w, pid, current, mpc, mi, bar>>
  <1>0. Alive
    BY DEF Kernel, Killed, ChildStops, ChildExecs, ExecEvent, GuestCalls, KernelRuns, SignalStops,
           GuestStep
  <1>1. Fine(guest[r], w[r], pid[r])
    BY <1>0, InvOfMachine
  <1>2. CASE ChildStops(r)
    BY <1>1, <1>2, EarlyStop, GuestOnly DEF ChildStops, Running
  <1>3. CASE ChildExecs(r)
    BY <1>1, <1>3, EarlyStop, GuestOnly DEF ChildExecs, Running
  <1>4. CASE ExecEvent(r)
    BY <1>1, <1>4, EarlyStop, GuestOnly DEF ExecEvent, Running
  <1>5. ASSUME NEW c \in {"real", "exit"} \cup Hooked, GuestCalls(r, c)
        PROVE  Only(r) /\ Alive /\ UNCHANGED <<config, w, pid, current, mpc, mi, bar>>
    BY <1>1, <1>5, CallStop, GuestOnly DEF GuestCalls, Running
  <1>6. CASE KernelRuns(r)
    BY <1>1, <1>6, CallStop, GuestOnly DEF KernelRuns, Running
  <1>7. CASE SignalStops(r)
    BY <1>1, <1>7, EarlyStop, GuestOnly DEF SignalStops
  <1>8. CASE Killed(r)
    BY <1>1, <1>8, KillStop, GuestOnly DEF Killed
  <1> QED BY <1>2, <1>3, <1>4, <1>5, <1>6, <1>7, <1>8 DEF Kernel

\* So is a ptrace request, whether or not it fails ...
LEMMA RequestOnly ==
  ASSUME Inv, Alive, NEW r \in Ids, NEW h, NEW to, Request(r, h, to),
         w[r] \in AtRequest \cup {"dead"},
         guest[r].proc = "held" => Fine(h, to, pid[r])
  PROVE  Only(r) /\ w'[r] \in {to, "returned"} /\ MainAside(r)
  <1>1. Fine(guest[r], w[r], pid[r]) /\ guest \in [Ids -> Guest] /\ w \in [Ids -> Pcs]
        /\ pid \in [Ids -> BOOLEAN]
    BY InvOfMachine
  <1>2. CASE guest[r].proc = "held" /\ guest' = [guest EXCEPT ![r] = h] /\ Go(r, to)
             /\ UNCHANGED <<config, pid, current, mpc, mi, bar>>
    <2>1. guest'[r] = h /\ w'[r] = to /\ pid'[r] = pid[r] /\ pid' = [pid EXCEPT ![r] = pid[r]]
          /\ w' = [w EXCEPT ![r] = to]
      BY <1>1, <1>2 DEF Go
    <2> QED BY <1>2, <2>1 DEF Only, MainAside
  <1>3. CASE Crash(r)
    <2>1. Fine(guest[r], "returned", pid[r])
      BY <1>1, <1>3, Requested DEF Crash
    <2>2. /\ w'[r] = "returned" /\ w' = [w EXCEPT ![r] = "returned"]
          /\ pid'[r] = pid[r] /\ pid' = [pid EXCEPT ![r] = pid[r]]
          /\ guest'[r] = guest[r] /\ guest' = [guest EXCEPT ![r] = guest[r]]
      BY <1>1, <1>3 DEF Crash, Return, Go
    <2> QED BY <1>3, <2>1, <2>2 DEF Only, MainAside, Crash, Return
  <1> QED BY <1>2, <1>3 DEF Request

\* ... and a waitpid, whether it reports a stop or the end of the process.
LEMMA WaitOnly ==
  ASSUME Inv, NEW r \in Ids, NEW to, NEW dead, Wait(r, to, dead),
         guest[r].proc = "stopped" => Fine([guest[r] EXCEPT !.proc = "held"], to, pid[r]),
         guest[r].proc = "zombie" => Fine([guest[r] EXCEPT !.proc = "gone"], dead, pid[r])
  PROVE  Only(r) /\ w'[r] \in {to, dead} /\ MainAside(r)
  <1>1. guest \in [Ids -> Guest] /\ w \in [Ids -> Pcs] /\ pid \in [Ids -> BOOLEAN]
    BY InvOfMachine
  <1>2. pid' = pid /\ pid' = [pid EXCEPT ![r] = pid[r]] /\ UNCHANGED <<config, current, mpc, mi, bar>>
    BY <1>1 DEF Wait
  <1>3. CASE guest[r].proc = "stopped" /\ Go(r, to) /\ guest' = [guest EXCEPT ![r].proc = "held"]
    <2>1. /\ w'[r] = to /\ w' = [w EXCEPT ![r] = to]
          /\ guest'[r] = [guest[r] EXCEPT !.proc = "held"]
          /\ guest' = [guest EXCEPT ![r] = guest'[r]]
      BY <1>1, <1>3 DEF Go
    <2> QED BY <1>2, <1>3, <2>1 DEF Only, MainAside
  <1>4. CASE guest[r].proc = "zombie" /\ Go(r, dead) /\ guest' = [guest EXCEPT ![r].proc = "gone"]
    <2>1. /\ w'[r] = dead /\ w' = [w EXCEPT ![r] = dead]
          /\ guest'[r] = [guest[r] EXCEPT !.proc = "gone"]
          /\ guest' = [guest EXCEPT ![r] = guest'[r]]
      BY <1>1, <1>4 DEF Go
    <2> QED BY <1>2, <1>4, <2>1 DEF Only, MainAside
  <1> QED BY <1>3, <1>4 DEF Wait

\* The steps of a tracer away from the barrier, but for those that can end the
\* program.
LEMMA TracerOnly ==
  ASSUME Inv, NEW r \in Ids,
         \/ Spawn(r) \/ ClearPid(r) \/ RequestOnDead(r) \/ SetOptions(r)
         \/ WaitUntilExecve(r) \/ GetReplica(r) \/ Resume(r) \/ WaitStop(r)
         \/ HandleTrapped(r) \/ ReplaceSyscall(r) \/ HookReturns(r)
  PROVE  Alive /\ Only(r) /\ Passes(w[r], w'[r]) /\ MainAside(r)
  <1>0. Alive
    BY DEF Spawn, ClearPid, RequestOnDead, SetOptions, WaitUntilExecve, GetReplica, Resume,
           WaitStop, HandleTrapped, ReplaceSyscall, HookReturns, Step
  <1>1. /\ Fine(guest[r], w[r], pid[r]) /\ guest \in [Ids -> Guest] /\ w \in [Ids -> Pcs]
        /\ pid \in [Ids -> BOOLEAN] /\ Alive
    BY <1>0, InvOfMachine
  <1>2. CASE Spawn(r)
    <2>1. CASE Step(r, "spawned") /\ Wait(r, "mem", "reaped in spawn")
      <3>1. /\ guest[r].proc = "stopped" => Fine([guest[r] EXCEPT !.proc = "held"], "mem", pid[r])
            /\ guest[r].proc = "zombie" => Fine([guest[r] EXCEPT !.proc = "gone"], "reaped in spawn", pid[r])
        BY <1>1, <2>1, StopReported, EndReported DEF Step
      <3>2. Only(r) /\ w'[r] \in {"mem", "reaped in spawn"} /\ MainAside(r)
        BY <2>1, <3>1, WaitOnly
      <3> QED BY <2>1, <3>2 DEF Step, Passes, Before
    <2>2. CASE Step(r, "spawn") /\ guest' = [guest EXCEPT ![r].proc = "running"]
               /\ pid' = [pid EXCEPT ![r] = TRUE] /\ Go(r, "spawned")
               /\ UNCHANGED <<config, current, mpc, mi, bar>>
      <3>1. /\ guest'[r] = [guest[r] EXCEPT !.proc = "running"]
            /\ guest' = [guest EXCEPT ![r] = guest'[r]]
            /\ pid'[r] = TRUE /\ w'[r] = "spawned" /\ w' = [w EXCEPT ![r] = "spawned"]
        BY <1>1, <2>2 DEF Go
      <3>2. Fine(guest'[r], w'[r], pid'[r])
        BY <1>1, <2>2, <3>1, Moved DEF Step
      <3> QED BY <2>2, <3>1, <3>2 DEF Only, Step, Passes, Before, MainAside
    <2> QED BY <1>2, <2>1, <2>2 DEF Spawn
  <1>3. CASE ClearPid(r)
    <2>1. pid'[r] = FALSE /\ pid' = [pid EXCEPT ![r] = FALSE]
          /\ guest'[r] = guest[r] /\ guest' = [guest EXCEPT ![r] = guest[r]]
          /\ UNCHANGED <<config, current, mi, bar>> /\ Alive
      BY <1>1, <1>3 DEF ClearPid
    <2>2. CASE w[r] = "reaped" /\ Return(r)
      <3>1. w'[r] = "returned" /\ w' = [w EXCEPT ![r] = "returned"]
        BY <1>1, <2>2 DEF Return, Go
      <3> QED BY <1>1, <2>1, <2>2, <3>1, EndReported
              DEF Only, Passes, Before, MainAside, Return
    <2>3. CASE w[r] = "reaped early" /\ Go(r, "dead") /\ UNCHANGED mpc
      <3>1. w'[r] = "dead" /\ w' = [w EXCEPT ![r] = "dead"]
        BY <1>1, <2>3 DEF Go
      <3> QED BY <1>1, <2>1, <2>3, <3>1, EndReported DEF Only, Passes, Before, MainAside
    <2>4. CASE w[r] = "reaped in spawn" /\ Go(r, "mem") /\ UNCHANGED mpc
      <3>1. w'[r] = "mem" /\ w' = [w EXCEPT ![r] = "mem"]
        BY <1>1, <2>4 DEF Go
      <3> QED BY <1>1, <2>1, <2>4, <3>1, EndReported DEF Only, Passes, Before, MainAside
    <2> QED BY <1>3, <2>2, <2>3, <2>4 DEF ClearPid
  <1>4. CASE RequestOnDead(r)
    <2>1. Request(r, guest[r], "returned") /\ guest[r].proc # "held"
      BY <1>4 DEF RequestOnDead, Request, Crash, Live
    <2>2. Only(r) /\ w'[r] = "returned" /\ MainAside(r)
      BY <1>0, <1>4, <2>1, RequestOnly DEF RequestOnDead, Step
    <2> QED BY <1>4, <2>2 DEF RequestOnDead, Step, Passes, Before
  <1>5. CASE SetOptions(r)
    <2>1. guest[r].proc = "held" => Fine(guest[r], "barrier", pid[r])
      BY <1>1, <1>5, Requested DEF SetOptions, Step
    <2>2. Only(r) /\ w'[r] \in {"barrier", "returned"} /\ MainAside(r)
      BY <1>0, <1>5, <2>1, RequestOnly DEF SetOptions, Step, AtRequest
    <2> QED BY <1>5, <2>2 DEF SetOptions, Step, Passes, Before
  <1>6. CASE WaitUntilExecve(r)
    <2>1. CASE Step(r, "exec") /\ Request(r, Resumed(guest[r]), "exec wait")
      <3>1. guest[r].proc = "held" => Fine(Resumed(guest[r]), "exec wait", pid[r])
        BY <1>1, <2>1, Requested DEF Step
      <3>2. Only(r) /\ w'[r] \in {"exec wait", "returned"} /\ MainAside(r)
        BY <1>0, <2>1, <3>1, RequestOnly DEF Step, AtRequest
      <3> QED BY <2>1, <3>2 DEF Step, Passes, Before
    <2>2. CASE Step(r, "exec wait")
               /\ Wait(r, IF guest[r].stop = "exec" THEN "vdso" ELSE "exec", "reaped early")
      <3> DEFINE to == IF guest[r].stop = "exec" THEN "vdso" ELSE "exec"
      <3>1. /\ guest[r].proc = "stopped" => Fine([guest[r] EXCEPT !.proc = "held"], to, pid[r])
            /\ guest[r].proc = "zombie" => Fine([guest[r] EXCEPT !.proc = "gone"], "reaped early", pid[r])
        BY <1>1, <2>2, StopReported, EndReported DEF Step
      <3>2. Only(r) /\ w'[r] \in {to, "reaped early"} /\ MainAside(r)
        BY <2>2, <3>1, WaitOnly DEF Step
      <3> QED BY <2>2, <3>2 DEF Step, Passes, Before
    <2>3. CASE Step(r, "vdso") /\ Request(r, guest[r], "replica")
      <3>1. guest[r].proc = "held" => Fine(guest[r], "replica", pid[r])
        BY <1>1, <2>3, Requested DEF Step
      <3>2. Only(r) /\ w'[r] \in {"replica", "returned"} /\ MainAside(r)
        BY <1>0, <2>3, <3>1, RequestOnly DEF Step, AtRequest
      <3> QED BY <2>3, <3>2 DEF Step, Passes, Before
    <2> QED BY <1>6, <2>1, <2>2, <2>3 DEF WaitUntilExecve
  <1>7. CASE GetReplica(r)
    <2>1. /\ w'[r] = "resume" /\ w' = [w EXCEPT ![r] = "resume"]
          /\ pid'[r] = pid[r] /\ pid' = [pid EXCEPT ![r] = pid[r]]
          /\ guest'[r] = guest[r] /\ guest' = [guest EXCEPT ![r] = guest[r]]
      BY <1>1, <1>7 DEF GetReplica, Go
    <2> QED BY <1>1, <1>7, <2>1, Moved DEF GetReplica, Step, Only, Passes, Before, MainAside
  <1>8. CASE Resume(r)
    <2>1. guest[r].proc = "held" => Fine(Resumed(guest[r]), "wait", pid[r])
      BY <1>1, <1>8, Requested DEF Resume, Step
    <2>2. Only(r) /\ w'[r] \in {"wait", "returned"} /\ MainAside(r)
      BY <1>0, <1>8, <2>1, RequestOnly DEF Resume, Step, AtRequest
    <2> QED BY <1>8, <2>2 DEF Resume, Step, Passes, Before
  <1>9. CASE WaitStop(r)
    <2> DEFINE to == IF guest[r].stop \in {"entry", "exit"} THEN "trapped" ELSE "resume"
    <2>1. /\ guest[r].proc = "stopped" => Fine([guest[r] EXCEPT !.proc = "held"], to, pid[r])
          /\ guest[r].proc = "zombie" => Fine([guest[r] EXCEPT !.proc = "gone"], "reaped", pid[r])
      BY <1>1, <1>9, StopReported, EndReported DEF WaitStop, Step
    <2>2. Only(r) /\ w'[r] \in {to, "reaped"} /\ MainAside(r)
      BY <1>9, <2>1, WaitOnly DEF WaitStop, Step
    <2> QED BY <1>9, <2>2 DEF WaitStop, Step, Passes, Before
  <1>10. CASE HandleTrapped(r)
    <2> DEFINE to == IF guest[r].stop = "entry" /\ guest[r].call \in Hooked THEN "hook" ELSE "resume"
    <2>1. guest[r].proc = "held" => Fine(guest[r], to, pid[r])
      BY <1>1, <1>10, Requested DEF HandleTrapped, Step
    <2>2. Only(r) /\ w'[r] \in {to, "returned"} /\ MainAside(r)
      BY <1>0, <1>10, <2>1, RequestOnly DEF HandleTrapped, Step, AtRequest
    <2> QED BY <1>10, <2>2 DEF HandleTrapped, Step, Passes, Before
  <1>11. CASE ReplaceSyscall(r)
    <2>1. CASE Step(r, "replace") /\ Request(r, WithGettid(guest[r]), "replace wait")
      <3>1. guest[r].proc = "held" => Fine(WithGettid(guest[r]), "replace wait", pid[r])
        BY <1>1, <2>1, Requested DEF Step
      <3>2. Only(r) /\ w'[r] \in {"replace wait", "returned"} /\ MainAside(r)
        BY <1>0, <2>1, <3>1, RequestOnly DEF Step, AtRequest
      <3> QED BY <2>1, <3>2 DEF Step, Passes, Before
    <2>2. CASE Step(r, "replace wait") /\ Wait(r, "result", "reaped early")
      <3>1. /\ guest[r].proc = "stopped" => Fine([guest[r] EXCEPT !.proc = "held"], "result", pid[r])
            /\ guest[r].proc = "zombie" => Fine([guest[r] EXCEPT !.proc = "gone"], "reaped early", pid[r])
        BY <1>1, <2>2, StopReported, EndReported DEF Step
      <3>2. Only(r) /\ w'[r] \in {"result", "reaped early"} /\ MainAside(r)
        BY <2>2, <3>1, WaitOnly DEF Step
      <3> QED BY <2>2, <3>2 DEF Step, Passes, Before
    <2>3. CASE Step(r, "result") /\ Request(r, WithResult(guest[r]), "resume")
      <3>1. guest[r].proc = "held" => Fine(WithResult(guest[r]), "resume", pid[r])
        BY <1>1, <2>3, Requested DEF Step
      <3>2. Only(r) /\ w'[r] \in {"resume", "returned"} /\ MainAside(r)
        BY <1>0, <2>3, <3>1, RequestOnly DEF Step, AtRequest
      <3> QED BY <2>3, <3>2 DEF Step, Passes, Before
    <2> QED BY <1>11, <2>1, <2>2, <2>3 DEF ReplaceSyscall
  <1>12. CASE HookReturns(r)
    <2>1. /\ w'[r] = "replace" /\ w' = [w EXCEPT ![r] = "replace"]
          /\ pid'[r] = pid[r] /\ pid' = [pid EXCEPT ![r] = pid[r]]
          /\ guest'[r] = guest[r] /\ guest' = [guest EXCEPT ![r] = guest[r]]
      BY <1>1, <1>12 DEF HookReturns, Go
    <2> QED BY <1>1, <1>12, <2>1, Moved DEF HookReturns, Step, Only, Passes, Before, MainAside
  <1> QED BY <1>2, <1>3, <1>4, <1>5, <1>6, <1>7, <1>8, <1>9, <1>10, <1>11, <1>12

-----------------------------------------------------------------------------
\* Machines are numbered from 1 and are among the numbers that tracers have.
LEMMA MachineFacts ==
  ASSUME TypeOK
  PROVE  /\ Machines \subseteq Ids /\ N \in Nat /\ Machines = 1..N
         /\ conf.replicas \in Seq(Element)
  <1>1. conf.replicas \in Seq(Element) /\ conf \in Scenarios
    BY ScenariosAssumption DEF TypeOK
  <1>2. ASSUME NEW i \in DOMAIN conf.replicas PROVE i \in Ids
    <2>1. DOMAIN conf.replicas \in {DOMAIN c.replicas : c \in Scenarios}
      BY <1>1
    <2> QED BY <2>1 DEF Ids
  <1>3. replicas \in Seq(Element) /\ Machines \subseteq Ids
    <2>1. CASE replicas = <<>>
      BY <2>1 DEF Machines
    <2>2. CASE replicas = conf.replicas
      BY <1>1, <1>2, <2>2 DEF Machines
    <2> QED BY <2>1, <2>2 DEF TypeOK
  <1> QED BY <1>1, <1>3 DEF Machines, N

\* A step of a tracer, away from the barrier, as main sees it.
LEMMA PassMain ==
  ASSUME Inv, NEW r \in Ids, Alive, w' = [w EXCEPT ![r] = w'[r]], Passes(w[r], w'[r]), MainAside(r)
  PROVE  ConfigInv' /\ StartInv' /\ BarrierInv' /\ JoinInv'
  <1>1. w \in [Ids -> Pcs] /\ Machines \subseteq Ids
    BY InvOfMachine, MachineFacts DEF Inv
  <1>2. r \in Machines
    BY DEF Inv, StartInv, Passes
  <1>3. \A q \in Ids : q # r => w'[q] = w[q]
    BY <1>1
  <1>4. UNCHANGED <<conf, replicas, prime, mi, bar>> /\ Machines' = Machines /\ Joined' = Joined
    BY DEF MainAside, config, Machines, Joined
  <1>5. CASE UNCHANGED mpc
    <2>1. ConfigInv'
      BY <1>4, <1>5 DEF Inv, ConfigInv
    <2>2. StartInv'
      BY <1>1, <1>2, <1>3, <1>4, <1>5 DEF Inv, StartInv, Passes, Before, ConfigInv
    <2>3. BarrierInv'
      BY <1>1, <1>2, <1>3, <1>4, <1>5 DEF Inv, BarrierInv, Passes, ConfigInv, Before
    <2>4. JoinInv'
      <3>1. \A q \in Machines : w[q] = "returned" => w'[q] = "returned"
        BY <1>1, <1>3 DEF Passes
      <3>2. prime \in Machines \cup {0}
        BY DEF Inv, TypeOK
      <3> QED BY <1>4, <1>5, <3>1, <3>2 DEF Inv, JoinInv, Joined
    <2> QED BY <2>1, <2>2, <2>3, <2>4
  <1>6. CASE mpc' = "aborted"
    BY <1>1, <1>2, <1>3, <1>4, <1>6 DEF Inv, ConfigInv, StartInv, BarrierInv, JoinInv
  <1> QED BY <1>5, <1>6 DEF MainAside

\* The tracer's side of the barrier.
LEMMA BarrierOnly ==
  ASSUME Inv, NEW r \in Ids, BarrierWorker(r) \/ BarrierWakes(r)
  PROVE  /\ Only(r) /\ UNCHANGED <<config, current, mpc, mi>>
         /\ bar' \in [arrived : {0, 1}, released : BOOLEAN, alive : BOOLEAN]
         /\ ConfigInv' /\ StartInv' /\ BarrierInv' /\ JoinInv'
  <1>0. Alive
    BY DEF BarrierWorker, BarrierWakes, Step
  <1>1. Fine(guest[r], w[r], pid[r]) /\ guest \in [Ids -> Guest] /\ w \in [Ids -> Pcs]
        /\ pid \in [Ids -> BOOLEAN] /\ Machines \subseteq Ids /\ N \in Nat /\ Machines = 1..N
    BY <1>0, InvOfMachine, MachineFacts DEF Inv
  <1>2. bar \in [arrived : {0, 1}, released : BOOLEAN, alive : BOOLEAN]
    BY DEF Inv, TypeOK
  <1>3. /\ pid'[r] = pid[r] /\ pid' = [pid EXCEPT ![r] = pid[r]]
        /\ guest'[r] = guest[r] /\ guest' = [guest EXCEPT ![r] = guest[r]]
        /\ UNCHANGED <<conf, replicas, prime, current, mpc, mi>>
        /\ Machines' = Machines /\ Joined' = Joined /\ Alive
    BY <1>1 DEF BarrierWorker, BarrierWakes, config, Machines, Joined, Step
  <1>4. ConfigInv'
    BY <1>3 DEF Inv, ConfigInv
  <1>5. prime \in Machines \cup {0}
    BY DEF Inv, TypeOK
  <1>6. ASSUME NEW to, w[r] \in {"barrier", "asleep"}, to \notin Before, w' = [w EXCEPT ![r] = to],
               w[r] = "barrier" => mpc \in {"barrier", "asleep"} /\ r = mi
        PROVE  StartInv' /\ JoinInv'
    <2>1. r \in Machines /\ w'[r] = to /\ \A q \in Ids : q # r => w'[q] = w[q]
      BY <1>1, <1>6 DEF Inv, StartInv
    <2>2. StartInv'
      BY <1>1, <1>3, <1>6, <2>1 DEF Inv, StartInv, Before, ConfigInv
    <2>3. \A q \in Machines : w[q] = "returned" => w'[q] = "returned"
      BY <1>1, <1>6, <2>1
    <2> QED BY <1>3, <1>5, <2>2, <2>3 DEF Inv, JoinInv, Joined
  <1>7. CASE BarrierWorker(r)
    <2>1. w[r] = "barrier"
      BY <1>7 DEF BarrierWorker, Step
    <2>2. mpc \in {"barrier", "asleep"} /\ r = mi
      <3>1. r \in Machines /\ w[r] \in Before /\ w[r] # "none"
        BY <2>1 DEF Inv, StartInv, Before
      <3>2. mpc \in {"barrier", "asleep", "assign"}
        BY <1>3, <3>1 DEF Inv, TypeOK, Alive, StartInv
      <3>3. mi \in Machines
        BY <3>2 DEF Inv, ConfigInv
      <3>4. ~(r < mi) /\ ~(r > mi)
        BY <3>1, <3>2 DEF Inv, StartInv
      <3>5. r = mi
        BY <1>1, <3>1, <3>3, <3>4
      <3> QED BY <3>1, <3>2, <3>5 DEF Inv, BarrierInv
    <2>3. CASE bar.arrived = 1
      <3>1. w'[r] = "exec" /\ w' = [w EXCEPT ![r] = "exec"] /\ bar' = Release
        BY <1>1, <1>7, <2>3 DEF BarrierWorker, Go
      <3>2. bar'.released /\ bar'.alive = bar.alive
            /\ bar' \in [arrived : {0, 1}, released : BOOLEAN, alive : BOOLEAN]
        BY <1>2, <3>1 DEF Release
      <3>3. mpc = "asleep"
        BY <2>1, <2>2, <2>3 DEF Inv, BarrierInv
      <3>4. StartInv' /\ JoinInv'
        <4>1. w'[r] \notin Before /\ w[r] \in {"barrier", "asleep"} /\ w' = [w EXCEPT ![r] = w'[r]]
          BY <2>1, <3>1 DEF Before
        <4> QED BY <1>6, <2>2, <4>1
      <3>5. BarrierInv'
        BY <1>3, <2>2, <3>1, <3>2, <3>3 DEF Inv, BarrierInv, Before
      <3>6. Fine(guest'[r], w'[r], pid'[r])
        BY <1>1, <1>3, <2>1, <3>1, Moved
      <3> QED BY <1>3, <1>4, <3>1, <3>2, <3>4, <3>5, <3>6 DEF Only, config
    <2>4. CASE bar.arrived # 1
      <3>1. w'[r] = "asleep" /\ w' = [w EXCEPT ![r] = "asleep"] /\ bar' = [bar EXCEPT !.arrived = 1]
        BY <1>1, <1>7, <2>4 DEF BarrierWorker, Go
      <3>2. bar'.arrived = 1 /\ bar'.released = bar.released /\ bar'.alive = bar.alive
            /\ bar' \in [arrived : {0, 1}, released : BOOLEAN, alive : BOOLEAN]
        BY <1>2, <3>1
      <3>3. mpc = "barrier"
        BY <2>1, <2>2, <2>4 DEF Inv, BarrierInv, Before
      <3>4. StartInv' /\ JoinInv'
        <4>1. w'[r] \notin Before /\ w[r] \in {"barrier", "asleep"} /\ w' = [w EXCEPT ![r] = w'[r]]
          BY <2>1, <3>1 DEF Before
        <4> QED BY <1>6, <2>2, <4>1
      <3>5. BarrierInv'
        BY <1>3, <2>2, <3>1, <3>2, <3>3 DEF Inv, BarrierInv, Before
      <3>6. Fine(guest'[r], w'[r], pid'[r])
        BY <1>1, <1>3, <2>1, <3>1, Moved
      <3> QED BY <1>3, <1>4, <3>1, <3>2, <3>4, <3>5, <3>6 DEF Only, config
    <2> QED BY <2>3, <2>4
  <1>8. CASE BarrierWakes(r)
    <2>1. w[r] = "asleep" /\ bar' = bar
      BY <1>8 DEF BarrierWakes, Step
    <2>2. PICK to \in {"exec", "stuck"} : w'[r] = to /\ w' = [w EXCEPT ![r] = to]
      BY <1>1, <1>8 DEF BarrierWakes, Go
    <2>3. StartInv' /\ JoinInv'
      <3>1. /\ w'[r] \notin Before /\ w[r] \in {"barrier", "asleep"} /\ w[r] # "barrier"
            /\ w' = [w EXCEPT ![r] = w'[r]]
        BY <2>1, <2>2 DEF Before
      <3> QED BY <1>6, <3>1
    <2>4. mpc = "barrier" => r # mi
      BY <1>8 DEF BarrierWakes, Inv, BarrierInv
    <2>5. mpc \in {"asleep", "assign"} /\ r = mi => w'[mi] \notin Before
      BY <2>2 DEF Before
    <2>6. mpc = "asleep" /\ r = mi => bar.released
      BY <1>8, <2>1 DEF BarrierWakes, Inv, BarrierInv, Before
    <2>7. mpc \in {"barrier", "asleep", "assign"} => mi \in Ids
      BY <1>1 DEF Inv, ConfigInv
    <2>8. r # mi /\ mi \in Ids => w'[mi] = w[mi]
      BY <1>1, <2>2
    <2>9. BarrierInv'
      BY <1>3, <2>1, <2>4, <2>5, <2>6, <2>7, <2>8 DEF Inv, BarrierInv
    <2>10. Fine(guest'[r], w'[r], pid'[r])
      <3>1. Fine(guest[r], "exec", pid[r]) /\ Fine(guest[r], "stuck", pid[r])
        BY <1>1, <2>1, Moved
      <3> QED BY <1>3, <2>2, <3>1
    <2> QED BY <1>2, <1>3, <1>4, <2>1, <2>2, <2>3, <2>9, <2>10 DEF Only, config
  <1> QED BY <1>7, <1>8

-----------------------------------------------------------------------------
\* The tracers' part of the invariant after a step of one machine.
LEMMA OnlyInv ==
  ASSUME Inv, Alive, NEW r \in Ids, Only(r)
  PROVE  /\ guest' \in [Ids -> Guest] /\ w' \in [Ids -> Pcs] /\ pid' \in [Ids -> BOOLEAN]
         /\ \A q \in Ids : MachineInv(q)'
  <1>1. guest \in [Ids -> Guest] /\ w \in [Ids -> Pcs] /\ pid \in [Ids -> BOOLEAN]
    BY InvOfMachine
  <1>2. /\ guest' = [guest EXCEPT ![r] = guest'[r]] /\ w' = [w EXCEPT ![r] = w'[r]]
        /\ pid' = [pid EXCEPT ![r] = pid'[r]]
        /\ guest'[r] \in Guest /\ w'[r] \in Pcs /\ pid'[r] \in BOOLEAN
        /\ TracerInv(guest'[r], w'[r], pid'[r])
    BY DEF Only, Fine
  <1>3. guest' \in [Ids -> Guest] /\ w' \in [Ids -> Pcs] /\ pid' \in [Ids -> BOOLEAN]
    BY <1>1, <1>2
  <1>4. \A q \in Ids : q # r => guest'[q] = guest[q] /\ w'[q] = w[q] /\ pid'[q] = pid[q]
    BY <1>1, <1>2
  <1>5. ASSUME NEW q \in Ids PROVE TracerInv(guest'[q], w'[q], pid'[q])
    <2>1. CASE q = r
      BY <1>2, <2>1
    <2>2. CASE q # r
      BY <1>4, <2>2 DEF Inv, MachineInv
    <2> QED BY <2>1, <2>2
  <1> QED BY <1>3, <1>5 DEF MachineInv

\* The type invariant from its parts.
LEMMA TypeParts ==
  ASSUME Inv, guest' \in [Ids -> Guest], w' \in [Ids -> Pcs], pid' \in [Ids -> BOOLEAN],
         UNCHANGED <<config, mi>>, current' \in [Ids -> BOOLEAN],
         mpc' \in {mpc, "aborted"},
         bar' \in [arrived : {0, 1}, released : BOOLEAN, alive : BOOLEAN]
  PROVE  TypeOK'
  <1>1. UNCHANGED <<conf, replicas, prime, mi>> /\ Machines' = Machines
    BY DEF config, Machines
  <1> QED BY <1>1 DEF Inv, TypeOK, Pcs

\* A tracer that has not returned when main has returned is not joined.
LEMMA NotJoined ==
  ASSUME Inv, mpc = "destroyed", NEW r \in Ids, w[r] \notin {"none", "returned"}
  PROVE  r \in Machines /\ prime \notin {0, r}
  <1>1. r \in Machines
    BY DEF Inv, StartInv
  <1>2. r \notin Joined
    <2>1. Machines = 1..N /\ N \in Nat
      BY MachineFacts DEF Inv
    <2> QED BY <1>1, <2>1 DEF Inv, JoinInv
  <1> QED BY <1>1, <1>2 DEF Joined

\* Every step of a guest or a tracer preserves the invariant.
LEMMA MachineStep ==
  ASSUME Inv, NEW r \in Ids,
         Kernel(r) \/ Killed(r) \/ Tracer(r) \/ HookReturns(r) \/ UseAfterDestroy(r)
  PROVE  Inv'
  <1>1. /\ bar \in [arrived : {0, 1}, released : BOOLEAN, alive : BOOLEAN]
        /\ current \in [Ids -> BOOLEAN]
    BY DEF Inv, TypeOK
  <1>2. CASE Kernel(r) \/ Killed(r)
    <2>1. Only(r) /\ Alive /\ UNCHANGED <<config, w, pid, current, mpc, mi, bar>>
      BY <1>2, KernelOnly
    <2>2. TypeOK'
      BY <1>1, <2>1, OnlyInv, TypeParts
    <2>3. ConfigInv' /\ StartInv' /\ BarrierInv' /\ JoinInv'
      BY <2>1 DEF Inv, ConfigInv, StartInv, BarrierInv, JoinInv, config, Machines, Joined
    <2>4. AbortCause'
      BY <2>1 DEF Alive, AbortCause
    <2> QED BY <2>1, <2>2, <2>3, <2>4, OnlyInv DEF Inv
  <1>3. ASSUME Alive, Only(r), Passes(w[r], w'[r]), MainAside(r) PROVE Inv'
    <2>1. TypeOK'
      BY <1>1, <1>3, OnlyInv, TypeParts DEF MainAside
    <2>2. ConfigInv' /\ StartInv' /\ BarrierInv' /\ JoinInv'
      BY <1>3, PassMain DEF Only
    <2>3. AbortCause'
      <3>1. CASE UNCHANGED mpc
        BY <1>3, <3>1 DEF Alive, AbortCause
      <3>2. CASE mpc = "destroyed" /\ mpc' = "aborted" /\ w'[r] = "returned"
        <4>1. r \in Machines /\ prime \notin {0, r}
          BY <1>3, <3>2, NotJoined DEF Passes
        <4>2. guest'[r].end # "none"
          BY <1>3, <3>2 DEF Only, Fine, TracerInv, ProcInv, EndInv
        <4>3. Machines' = Machines /\ prime' = prime
          BY <1>3 DEF MainAside, config, Machines
        <4> QED BY <4>1, <4>2, <4>3 DEF AbortCause
      <3> QED BY <1>3, <3>1, <3>2 DEF MainAside
    <2> QED BY <1>3, <2>1, <2>2, <2>3, OnlyInv DEF Inv
  <1>4. CASE \/ Spawn(r) \/ ClearPid(r) \/ RequestOnDead(r) \/ SetOptions(r)
             \/ WaitUntilExecve(r) \/ GetReplica(r) \/ Resume(r) \/ WaitStop(r)
             \/ HandleTrapped(r) \/ ReplaceSyscall(r) \/ HookReturns(r)
    BY <1>3, <1>4, TracerOnly
  <1>5. CASE BarrierWorker(r) \/ BarrierWakes(r)
    <2>1. /\ Only(r) /\ UNCHANGED <<config, current, mpc, mi>>
          /\ bar' \in [arrived : {0, 1}, released : BOOLEAN, alive : BOOLEAN]
          /\ ConfigInv' /\ StartInv' /\ BarrierInv' /\ JoinInv'
      BY <1>5, BarrierOnly
    <2>3. Alive
      BY <1>5 DEF BarrierWorker, BarrierWakes, Step
    <2>2. TypeOK'
      BY <1>1, <2>1, <2>3, OnlyInv, TypeParts
    <2>4. AbortCause'
      BY <2>1, <2>3 DEF Alive, AbortCause
    <2> QED BY <2>1, <2>2, <2>3, <2>4, OnlyInv DEF Inv
  <1>6. ASSUME Alive, w[r] # "none", mpc' = "aborted", UNCHANGED <<config, guest, w, pid, current, mi, bar>>,
               AbortCause'
        PROVE  Inv'
    <2>1. UNCHANGED <<conf, replicas, prime>> /\ Machines' = Machines /\ Joined' = Joined
      BY <1>6 DEF config, Machines, Joined
    <2>2. TypeOK'
      BY <1>6, <2>1 DEF Inv, TypeOK
    <2>3. ConfigInv' /\ StartInv' /\ BarrierInv' /\ JoinInv'
      BY <1>6, <2>1 DEF Inv, ConfigInv, StartInv, BarrierInv, JoinInv
    <2>4. \A q \in Ids : MachineInv(q)'
      BY <1>6 DEF Inv, MachineInv
    <2> QED BY <1>6, <2>2, <2>3, <2>4 DEF Inv
  <1>7. CASE OpenMem(r)
    <2>1. w[r] = "mem" /\ Alive /\ Fine(guest[r], w[r], pid[r])
          /\ guest \in [Ids -> Guest] /\ w \in [Ids -> Pcs] /\ pid \in [Ids -> BOOLEAN]
          /\ UNCHANGED <<config, guest, pid, current, mi, bar>>
      BY <1>7, InvOfMachine DEF OpenMem, Step
    <2>2. pid'[r] = pid[r] /\ pid' = [pid EXCEPT ![r] = pid[r]]
          /\ guest'[r] = guest[r] /\ guest' = [guest EXCEPT ![r] = guest[r]]
      BY <2>1
    <2>3. CASE pid[r] /\ Go(r, "options") /\ UNCHANGED mpc
      <3>1. w'[r] = "options" /\ w' = [w EXCEPT ![r] = "options"]
        BY <2>1, <2>3 DEF Go
      <3>2. Only(r)
        BY <2>1, <2>2, <2>3, <3>1, Moved DEF Only
      <3> QED BY <1>3, <2>1, <2>3, <3>1, <3>2 DEF Passes, MainAside, Before
    <2>4. CASE pid[r] /\ guest[r].proc = "zombie" /\ Return(r)
      <3>1. w'[r] = "returned" /\ w' = [w EXCEPT ![r] = "returned"]
        BY <2>1, <2>4 DEF Return, Go
      <3>2. Only(r)
        BY <2>1, <2>2, <2>4, <3>1, Moved DEF Only
      <3> QED BY <1>3, <2>1, <2>4, <3>1, <3>2 DEF Passes, MainAside, Before, Return
    <2>5. CASE ~pid[r] /\ mpc' = "aborted" /\ UNCHANGED w
      <3>1. guest[r].end = "kill"
        BY <2>1, <2>5 DEF Fine, TracerInv, PidInv, EndInv, Guest
      <3>2. r \in Machines /\ Machines' = Machines
        BY <2>1 DEF Inv, StartInv, config, Machines
      <3>3. AbortCause'
        BY <2>1, <2>5, <3>1, <3>2 DEF AbortCause
      <3> QED BY <1>6, <2>1, <2>5, <3>3
    <2> QED BY <1>7, <2>3, <2>4, <2>5 DEF OpenMem
  <1>8. CASE UseAfterDestroy(r)
    <2>1. /\ Uses(r) /\ mpc = "destroyed" /\ mpc' = "aborted"
          /\ UNCHANGED <<config, guest, w, pid, current, mi, bar>>
      BY <1>8 DEF UseAfterDestroy, Main
    <2>2. Alive /\ w[r] \notin {"none", "returned"}
      BY <2>1 DEF Alive, Uses
    <2>3. r \in Machines /\ prime \notin {0, r}
      BY <2>1, <2>2, NotJoined
    <2>4. Uses(r)' /\ Machines' = Machines /\ prime' = prime
      BY <2>1 DEF Uses, config, Machines
    <2>5. AbortCause'
      BY <2>3, <2>4 DEF AbortCause
    <2> QED BY <1>6, <2>1, <2>2, <2>5
  <1> QED BY <1>2, <1>4, <1>5, <1>7, <1>8 DEF Tracer

-----------------------------------------------------------------------------
\* A set of numbers that is not empty has a smallest element, and a largest
\* one if it is bounded.
LEMMA Extremes ==
  ASSUME NEW n \in Nat, NEW S \in SUBSET (1..n), S # {}
  PROVE  /\ \E x \in S : \A y \in S : x <= y
         /\ \E x \in S : \A y \in S : y <= x
  <1>1. ASSUME NEW T, T \subseteq Nat, T # {} PROVE \E x \in T : \A y \in T : x <= y
    <2>1. PICK x \in T : \A y \in T : ~(<<y, x>> \in OpToRel(<, Nat))
      BY <1>1, NatLessThanWellFounded, WFMin
    <2>2. \A y \in T : ~(y < x)
      BY <1>1, <2>1 DEF OpToRel
    <2> QED BY <1>1, <2>2
  <1>2. \E x \in S : \A y \in S : x <= y
    <2>1. S \subseteq Nat
      OBVIOUS
    <2> QED BY <1>1, <2>1
  <1>3. \E x \in S : \A y \in S : y <= x
    <2> DEFINE T == {n - x : x \in S}
    <2>0. \A x \in S : x \in Int /\ n - x \in Nat
      OBVIOUS
    <2>1. T \subseteq Nat /\ T # {}
      BY <2>0
    <2>2. PICK t \in T : \A u \in T : t <= u
      BY <1>1, <2>1
    <2>3. PICK x \in S : t = n - x
      OBVIOUS
    <2>4. \A y \in S : n - y \in T
      OBVIOUS
    <2>5. \A y \in S : n - x <= n - y
      BY <2>2, <2>3, <2>4
    <2> QED BY <2>0, <2>5
  <1> QED BY <1>2, <1>3

\* What parse_replicas returns when it does not use a null pointer: the file's
\* replicas, or none because an element is not a table.
LEMMA Parsed ==
  ASSUME TypeOK, ~NullPath
  PROVE  /\ ParseReplicas \in {<<>>, conf.replicas}
         /\ ParseReplicas # conf.replicas => \E i \in DOMAIN conf.replicas : ~conf.replicas[i].table
  <1>1. PICK n \in Nat : DOMAIN conf.replicas = 1..n
    BY MachineFacts
  <1>2. CASE Malformed = {}
    BY <1>2 DEF ParseReplicas
  <1>3. CASE Malformed # {}
    <2>1. Malformed \in SUBSET (1..n)
      BY <1>1 DEF Malformed
    <2>2. \E i \in Malformed : \A j \in Malformed : i <= j
      BY <1>3, <2>1, Extremes
    <2>3. FirstMalformed \in Malformed
      BY <2>2 DEF FirstMalformed
    <2>4. ~conf.replicas[FirstMalformed].table
      BY <1>3 DEF NullPath
    <2> QED BY <1>3, <2>3, <2>4 DEF ParseReplicas, Malformed
  <1> QED BY <1>2, <1>3

\* main's prime machine is a machine.
LEMMA Marked ==
  ASSUME NEW rs, NEW n \in Nat, DOMAIN rs = 1..n
  PROVE  LastMarked(rs) \in (DOMAIN rs) \cup {0}
  <1> DEFINE marked == {r \in DOMAIN rs : rs[r].prime}
  <1>1. CASE marked = {}
    BY <1>1 DEF LastMarked
  <1>2. CASE marked # {}
    <2>1. \E r \in marked : \A j \in marked : j <= r
      BY <1>2, Extremes
    <2>2. LastMarked(rs) \in marked
      BY <1>2, <2>1 DEF LastMarked
    <2> QED BY <2>2
  <1> QED BY <1>1, <1>2

\* The invariant after a step of main, from its parts.
LEMMA MainParts ==
  ASSUME Inv, UNCHANGED conf,
         replicas' \in {<<>>, conf.replicas}, prime' \in Machines' \cup {0},
         \A r \in Ids : Fine(guest'[r], w'[r], pid'[r]),
         guest' \in [Ids -> Guest], w' \in [Ids -> Pcs], pid' \in [Ids -> BOOLEAN],
         current' \in [Ids -> BOOLEAN],
         mpc' \in {"parse", "start", "barrier", "asleep", "assign", "join", "kill", "send",
                   "return", "destroyed", "exited", "aborted"},
         mi' \in Machines' \cup {1},
         bar' \in [arrived : {0, 1}, released : BOOLEAN, alive : BOOLEAN],
         ConfigInv', StartInv', BarrierInv', JoinInv', AbortCause'
  PROVE  Inv'
  <1>1. TypeOK'
    BY DEF Inv, TypeOK, Pcs
  <1>2. \A r \in Ids : MachineInv(r)'
    BY DEF Fine, MachineInv
  <1> QED BY <1>1, <1>2 DEF Inv

\* main reads its configuration.
LEMMA ParseInv ==
  ASSUME Inv, Parse
  PROVE  Inv'
  <1>1. /\ mpc = "parse" /\ conf' = conf /\ mi' = mi /\ UNCHANGED <<guest, w, pid, current, bar>>
        /\ replicas = <<>> /\ prime = 0 /\ mi = 1 /\ TypeOK
        /\ \A r \in Ids : w[r] = "none"
    BY DEF Parse, Main, MainTo, Inv, ConfigInv, StartInv
  <1>2. /\ \A r \in Ids : Fine(guest[r], w[r], pid[r])
        /\ guest \in [Ids -> Guest] /\ w \in [Ids -> Pcs] /\ pid \in [Ids -> BOOLEAN]
        /\ current \in [Ids -> BOOLEAN] /\ conf.replicas \in Seq(Element)
        /\ bar \in [arrived : {0, 1}, released : BOOLEAN, alive : BOOLEAN]
    BY <1>1, InvOfMachine, MachineFacts DEF TypeOK, Pcs, Inv, Alive
  <1>3. CASE ~conf.given /\ MainTo("exited", mi) /\ UNCHANGED <<replicas, prime>>
    <2>1. Machines' = {} /\ Joined' = {} /\ prime' = 0 /\ replicas' = <<>> /\ mpc' = "exited"
      BY <1>1, <1>3 DEF Machines, Joined, MainTo
    <2>2. ConfigInv' /\ StartInv' /\ BarrierInv' /\ JoinInv' /\ AbortCause'
      BY <1>1, <1>3, <2>1 DEF ConfigInv, StartInv, BarrierInv, JoinInv, AbortCause
    <2> QED BY <1>1, <1>2, <2>1, <2>2, MainParts
  <1>4. CASE conf.given /\ (~conf.valid \/ NullPath)
             /\ MainTo("aborted", mi) /\ UNCHANGED <<replicas, prime>>
    <2>1. Machines' = {} /\ Joined' = {} /\ prime' = 0 /\ replicas' = <<>> /\ mpc' = "aborted"
      BY <1>1, <1>4 DEF Machines, Joined, MainTo
    <2>2. NullPath' = NullPath
      BY <1>1 DEF NullPath, Malformed, FirstMalformed
    <2>3. ConfigInv' /\ StartInv' /\ BarrierInv' /\ JoinInv' /\ AbortCause'
      BY <1>1, <1>4, <2>1, <2>2 DEF ConfigInv, StartInv, BarrierInv, JoinInv, AbortCause
    <2> QED BY <1>1, <1>2, <2>1, <2>3, MainParts
  <1>5. CASE /\ conf.given /\ conf.valid /\ ~NullPath
             /\ replicas' = ParseReplicas
             /\ prime' = LastMarked(ParseReplicas)
             /\ MainTo(IF ParseReplicas = <<>> THEN "return" ELSE "start", mi)
    <2>1. /\ replicas' \in {<<>>, conf.replicas}
          /\ replicas' # conf.replicas => \E i \in DOMAIN conf.replicas : ~conf.replicas[i].table
      BY <1>1, <1>5, Parsed
    <2>2. PICK n \in Nat : DOMAIN replicas' = 1..n /\ (replicas' # <<>> => n >= 1)
      BY <1>2, <2>1
    <2>3. prime' \in Machines' \cup {0}
      BY <1>5, <2>2, Marked DEF Machines
    <2>4. CASE replicas' = <<>>
      <3>1. Machines' = {} /\ Joined' = {} /\ prime' = 0 /\ mpc' = "return"
        BY <1>1, <1>5, <2>3, <2>4 DEF Machines, Joined, MainTo
      <3>2. ConfigInv' /\ StartInv' /\ BarrierInv' /\ JoinInv' /\ AbortCause'
        BY <1>1, <2>1, <2>4, <3>1 DEF ConfigInv, StartInv, BarrierInv, JoinInv, AbortCause
      <3> QED BY <1>1, <1>2, <2>1, <2>3, <3>1, <3>2, MainParts
    <2>5. CASE replicas' # <<>>
      <3>1. Machines' = 1..n /\ n >= 1 /\ mpc' = "start" /\ mi' = 1 /\ replicas' = conf.replicas
        BY <1>1, <1>5, <2>1, <2>2, <2>5 DEF Machines, MainTo
      <3>2. Machines' \subseteq Ids
        <4>1. Machines' \in {DOMAIN c.replicas : c \in Scenarios}
          BY <1>1, <3>1 DEF Machines, TypeOK
        <4> QED BY <4>1 DEF Ids
      <3>3. ConfigInv' /\ BarrierInv' /\ JoinInv' /\ AbortCause'
        BY <1>1, <2>5, <3>1 DEF ConfigInv, BarrierInv, JoinInv, AbortCause
      <3>4. StartInv'
        BY <1>1, <3>1, <3>2 DEF StartInv
      <3> QED BY <1>1, <1>2, <2>1, <2>3, <3>1, <3>3, <3>4, MainParts
    <2> QED BY <2>4, <2>5
  <1> QED BY <1>3, <1>4, <1>5 DEF Parse

\* A step of main that changes nothing of the machines.
LEMMA MainAloneInv ==
  ASSUME Inv, Alive, UNCHANGED <<config, guest, w, pid>>, current' \in [Ids -> BOOLEAN],
         mpc' \in {"start", "barrier", "asleep", "assign", "join", "kill", "send",
                   "return", "destroyed", "exited", "aborted"},
         mi' \in Machines \cup {1},
         bar' \in [arrived : {0, 1}, released : BOOLEAN, alive : BOOLEAN],
         ConfigInv', StartInv', BarrierInv', JoinInv', AbortCause'
  PROVE  Inv'
  <1>1. /\ \A r \in Ids : Fine(guest[r], w[r], pid[r])
        /\ guest \in [Ids -> Guest] /\ w \in [Ids -> Pcs] /\ pid \in [Ids -> BOOLEAN]
    BY DEF Inv, MachineInv, TypeOK, Pcs, Fine
  <1>2. UNCHANGED <<conf, replicas, prime>> /\ Machines' = Machines
    BY DEF config, Machines
  <1>3. replicas \in {<<>>, conf.replicas} /\ prime \in Machines \cup {0}
    BY DEF Inv, TypeOK
  <1> QED BY <1>1, <1>2, <1>3, MainParts

\* main starts a tracer.
LEMMA StartStepInv ==
  ASSUME Inv, Start
  PROVE  Inv'
  <1>1. /\ mpc = "start" /\ mpc' = "barrier" /\ mi' = mi /\ UNCHANGED <<conf, replicas, prime>>
        /\ UNCHANGED <<guest, pid, current>> /\ w' = [w EXCEPT ![mi] = "spawn"]
        /\ bar' = [arrived |-> 0, released |-> FALSE, alive |-> TRUE]
        /\ Machines' = Machines /\ mi \in Machines /\ replicas = conf.replicas
    BY DEF Start, Main, MainTo, Go, config, Machines, Inv, ConfigInv
  <1>2. /\ \A r \in Ids : Fine(guest[r], w[r], pid[r])
        /\ guest \in [Ids -> Guest] /\ w \in [Ids -> Pcs] /\ pid \in [Ids -> BOOLEAN]
        /\ current \in [Ids -> BOOLEAN] /\ Machines \subseteq Ids
        /\ N \in Nat /\ Machines = 1..N
        /\ replicas \in {<<>>, conf.replicas} /\ prime \in Machines \cup {0}
    BY <1>1, MachineFacts DEF Inv, MachineInv, TypeOK, Pcs, Fine, Alive
  <1>3. w'[mi] = "spawn" /\ w[mi] = "none" /\ \A r \in Ids : r # mi => w'[r] = w[r]
    BY <1>1, <1>2 DEF Inv, StartInv
  <1>4. ASSUME NEW r \in Ids PROVE Fine(guest'[r], w'[r], pid'[r])
    <2>1. CASE r = mi
      <3>1. Fine(guest[mi], "spawn", pid[mi])
        BY <1>2, <1>3, <2>1, Moved
      <3> QED BY <1>1, <1>3, <2>1, <3>1
    <2>2. CASE r # mi
      BY <1>1, <1>2, <1>3, <2>2
    <2> QED BY <2>1, <2>2
  <1>5. w' \in [Ids -> Pcs]
    BY <1>1, <1>2 DEF Pcs
  <1>6. ConfigInv' /\ JoinInv' /\ AbortCause'
    BY <1>1 DEF Inv, ConfigInv, JoinInv, AbortCause
  <1>7. StartInv'
    BY <1>1, <1>2, <1>3 DEF Inv, StartInv
  <1>8. BarrierInv'
    <2>1. w'[mi'] = "spawn" /\ mpc' = "barrier"
      BY <1>1, <1>3
    <2>2. bar'.arrived = 0 /\ ~bar'.released /\ bar'.alive
      BY <1>1
    <2> QED BY <2>1, <2>2 DEF BarrierInv, Before
  <1> QED BY <1>1, <1>2, <1>4, <1>5, <1>6, <1>7, <1>8, MainParts

\* main's side of the barrier, and the start of the next machine or of the
\* waiting.
LEMMA StartedInv ==
  ASSUME Inv, BarrierMain \/ Assign
  PROVE  Inv'
  <1>1. /\ mpc \in {"barrier", "asleep", "assign"} /\ Alive /\ UNCHANGED <<conf, replicas, prime>>
        /\ UNCHANGED <<config, guest, w, pid>>
        /\ Machines' = Machines /\ mi \in Machines /\ replicas = conf.replicas
    BY DEF BarrierMain, Assign, Main, Alive, config, Machines, Inv, ConfigInv
  <1>2. /\ current \in [Ids -> BOOLEAN] /\ Machines \subseteq Ids
        /\ N \in Nat /\ Machines = 1..N /\ prime \in Machines \cup {0}
        /\ bar \in [arrived : {0, 1}, released : BOOLEAN, alive : BOOLEAN]
    BY MachineFacts DEF Inv, TypeOK
  <1>3. CASE /\ mpc = "barrier" /\ bar.arrived = 1
             /\ MainTo("assign", mi) /\ bar' = [Release EXCEPT !.alive = FALSE]
             /\ UNCHANGED current
    <2>1. bar' \in [arrived : {0, 1}, released : BOOLEAN, alive : BOOLEAN]
      BY <1>2, <1>3 DEF Release
    <2>2. w[mi] = "asleep" /\ mpc' = "assign" /\ mi' = mi
      BY <1>3 DEF Inv, BarrierInv, MainTo
    <2>3. ConfigInv' /\ StartInv' /\ BarrierInv' /\ JoinInv' /\ AbortCause'
      BY <1>1, <1>3, <2>2 DEF Inv, ConfigInv, StartInv, BarrierInv, JoinInv, AbortCause, Before
    <2> QED BY <1>1, <1>2, <1>3, <2>1, <2>2, <2>3, MainAloneInv
  <1>4. CASE /\ mpc = "barrier" /\ bar.arrived # 1
             /\ MainTo("asleep", mi) /\ bar' = [bar EXCEPT !.arrived = 1]
             /\ UNCHANGED current
    <2>1. /\ bar' \in [arrived : {0, 1}, released : BOOLEAN, alive : BOOLEAN]
          /\ bar'.arrived = 1 /\ bar'.alive = bar.alive /\ bar'.released = bar.released
      BY <1>2, <1>4
    <2>2. w[mi] \in Before \cup {"returned"} /\ bar.alive /\ ~bar.released
          /\ mpc' = "asleep" /\ mi' = mi
      BY <1>4 DEF Inv, BarrierInv, MainTo
    <2>3. BarrierInv'
      BY <1>1, <2>1, <2>2 DEF BarrierInv
    <2>4. ConfigInv' /\ StartInv' /\ JoinInv' /\ AbortCause'
      BY <1>1, <1>4, <2>2 DEF Inv, ConfigInv, StartInv, JoinInv, AbortCause
    <2> QED BY <1>1, <1>2, <1>4, <2>1, <2>2, <2>3, <2>4, MainAloneInv
  <1>5. CASE /\ mpc = "asleep" /\ bar.released
             /\ MainTo("assign", mi) /\ bar' = [bar EXCEPT !.alive = FALSE]
             /\ UNCHANGED current
    <2>1. bar' \in [arrived : {0, 1}, released : BOOLEAN, alive : BOOLEAN]
      BY <1>2, <1>5
    <2>2. w[mi] \notin Before /\ mpc' = "assign" /\ mi' = mi
      BY <1>5 DEF Inv, BarrierInv, MainTo
    <2>3. ConfigInv' /\ StartInv' /\ BarrierInv' /\ JoinInv' /\ AbortCause'
      BY <1>1, <1>5, <2>2 DEF Inv, ConfigInv, StartInv, BarrierInv, JoinInv, AbortCause
    <2> QED BY <1>1, <1>2, <1>5, <2>1, <2>2, <2>3, MainAloneInv
  <1>6. CASE Assign
    <2>1. /\ mpc = "assign" /\ w[mi] \notin Before /\ bar' = bar
          /\ current' = [current EXCEPT ![mi] = TRUE] /\ current' \in [Ids -> BOOLEAN]
      BY <1>2, <1>6 DEF Assign, Main, Inv, BarrierInv
    <2>2. \A r \in Machines : r <= mi => w[r] \notin Before
      BY <1>1, <1>2, <2>1 DEF Inv, StartInv
    <2>3. CASE More
      <3>1. mpc' = "start" /\ mi' = mi + 1 /\ mi + 1 \in Machines
        BY <1>1, <1>2, <1>6, <2>3 DEF Assign, MainTo, More
      <3>2. StartInv'
        BY <1>1, <1>2, <2>1, <2>2, <3>1 DEF Inv, StartInv
      <3>3. ConfigInv' /\ BarrierInv' /\ JoinInv' /\ AbortCause'
        BY <1>1, <2>1, <3>1 DEF Inv, ConfigInv, BarrierInv, JoinInv, AbortCause
      <3> QED BY <1>1, <1>2, <2>1, <3>1, <3>2, <3>3, MainAloneInv
    <2>4. CASE ~More
      <3>1. mpc' = "join" /\ mi' = (IF prime = 0 THEN 1 ELSE prime) /\ mi' \in Machines
        BY <1>1, <1>2, <1>6, <2>4 DEF Assign, MainTo, More
      <3>2. mi = N
        BY <1>1, <1>2, <2>4 DEF More
      <3>3. StartInv'
        BY <1>1, <1>2, <2>1, <2>2, <3>1, <3>2 DEF Inv, StartInv
      <3>4. ConfigInv' /\ BarrierInv' /\ AbortCause'
        BY <1>1, <2>1, <3>1 DEF Inv, ConfigInv, BarrierInv, AbortCause
      <3>5. JoinInv'
        BY <1>1, <1>2, <3>1 DEF JoinInv
      <3> QED BY <1>1, <1>2, <2>1, <3>1, <3>3, <3>4, <3>5, MainAloneInv
    <2> QED BY <2>3, <2>4
  <1> QED BY <1>3, <1>4, <1>5, <1>6 DEF BarrierMain, Main

\* main joins, and decides whom it sends SIGTERM.
LEMMA JoinedInv ==
  ASSUME Inv, Join \/ KillCheck
  PROVE  Inv'
  <1>1. /\ mpc \in {"join", "kill"} /\ Alive /\ UNCHANGED <<conf, replicas, prime>>
        /\ UNCHANGED <<config, guest, w, pid>> /\ UNCHANGED <<current, bar>>
        /\ Machines' = Machines /\ Joined' = Joined /\ mi \in Machines /\ replicas = conf.replicas
    BY DEF Join, KillCheck, Main, Alive, config, Machines, Joined, Inv, ConfigInv
  <1>2. /\ current \in [Ids -> BOOLEAN] /\ Machines \subseteq Ids
        /\ N \in Nat /\ Machines = 1..N /\ prime \in Machines \cup {0}
        /\ bar \in [arrived : {0, 1}, released : BOOLEAN, alive : BOOLEAN]
        /\ \A r \in Machines : w[r] \notin Before
    BY <1>1, MachineFacts DEF Inv, TypeOK, StartInv
  <1>3. ASSUME mpc' \in {"join", "kill", "send", "return"}, mi' \in Machines, JoinInv'
        PROVE  Inv'
    <2>1. ConfigInv' /\ StartInv' /\ BarrierInv' /\ AbortCause'
      BY <1>1, <1>2, <1>3 DEF Inv, ConfigInv, StartInv, BarrierInv, AbortCause
    <2> QED BY <1>1, <1>2, <1>3, <2>1, MainAloneInv
  <1>4. CASE Join
    <2>1. mpc = "join" /\ (mi \in Joined => w[mi] = "returned")
      BY <1>4 DEF Join, Main
    <2>2. CASE prime = 0
      <3>1. \A r \in Machines : r <= mi => w[r] = "returned"
        BY <1>1, <1>2, <2>1, <2>2 DEF Inv, JoinInv, Joined
      <3>2. CASE More
        <4>1. mpc' = "join" /\ mi' = mi + 1 /\ mi' \in Machines
          BY <1>1, <1>2, <1>4, <2>2, <3>2 DEF Join, MainTo, More
        <4>2. JoinInv'
          BY <1>1, <1>2, <2>2, <3>1, <4>1 DEF JoinInv
        <4> QED BY <1>3, <4>1, <4>2
      <3>3. CASE ~More
        <4>1. mpc' = "return" /\ mi' = mi /\ mi = N
          BY <1>1, <1>2, <1>4, <2>2, <3>3 DEF Join, MainTo, More
        <4>2. JoinInv'
          BY <1>1, <1>2, <2>2, <3>1, <4>1 DEF JoinInv, Joined
        <4> QED BY <1>1, <1>3, <4>1, <4>2
      <3> QED BY <3>2, <3>3
    <2>3. CASE prime # 0
      <3>1. mpc' = "kill" /\ mi' = 1 /\ mi' \in Machines /\ mi = prime
        BY <1>1, <1>2, <1>4, <2>1, <2>3 DEF Join, MainTo, Inv, JoinInv
      <3>2. JoinInv'
        BY <1>1, <1>2, <2>1, <2>3, <3>1 DEF JoinInv, Joined
      <3> QED BY <1>3, <3>1, <3>2
    <2> QED BY <2>2, <2>3
  <1>5. CASE KillCheck
    <2>1. mpc = "kill" /\ prime # 0 /\ w[prime] = "returned"
      BY <1>5 DEF KillCheck, Main, Inv, JoinInv
    <2>2. CASE Spared /\ More
      <3>1. mpc' = "kill" /\ mi' = mi + 1 /\ mi' \in Machines
        BY <1>1, <1>2, <1>5, <2>2 DEF KillCheck, NextKill, MainTo, More
      <3>2. JoinInv'
        BY <1>1, <2>1, <3>1 DEF JoinInv
      <3> QED BY <1>3, <3>1, <3>2
    <2>3. CASE Spared /\ ~More
      <3>1. mpc' = "return" /\ mi' = mi
        BY <1>5, <2>3 DEF KillCheck, NextKill, MainTo
      <3>2. JoinInv'
        BY <1>1, <2>1, <3>1 DEF JoinInv, Joined
      <3> QED BY <1>1, <1>3, <3>1, <3>2
    <2>4. CASE ~Spared /\ pid[mi]
      <3>1. mpc' = "send" /\ mi' = mi /\ mi # prime
        BY <1>5, <2>4 DEF KillCheck, MainTo, Spared
      <3>2. JoinInv'
        BY <1>1, <2>1, <3>1 DEF JoinInv
      <3> QED BY <1>1, <1>3, <3>1, <3>2
    <2>5. CASE ~Spared /\ ~pid[mi]
      <3>1. mpc' = "aborted" /\ mi' = mi /\ mi # prime
        BY <1>5, <2>5 DEF KillCheck, MainTo, Spared
      <3>2. guest[mi].end # "none"
        <4>1. Fine(guest[mi], w[mi], pid[mi]) /\ w[mi] \notin Before
          BY <1>1, <1>2, InvOfMachine
        <4> QED BY <2>5, <4>1 DEF Fine, TracerInv, PidInv, EndInv, Before
      <3>3. AbortCause'
        BY <1>1, <2>1, <3>1, <3>2 DEF AbortCause
      <3>4. ConfigInv' /\ StartInv' /\ BarrierInv' /\ JoinInv'
        BY <1>1, <1>2, <3>1 DEF Inv, ConfigInv, StartInv, BarrierInv, JoinInv
      <3> QED BY <1>1, <1>2, <3>1, <3>3, <3>4, MainAloneInv
    <2> QED BY <2>2, <2>3, <2>4, <2>5
  <1> QED BY <1>4, <1>5

\* main sends SIGTERM: to one guest, or to every process of the system.
LEMMA SentInv ==
  ASSUME Inv, KillSend
  PROVE  Inv'
  <1>1. /\ mpc = "send" /\ Alive /\ UNCHANGED <<conf, replicas, prime>>
        /\ UNCHANGED <<config, w, pid, current, bar>>
        /\ Machines' = Machines /\ Joined' = Joined /\ mi \in Machines /\ replicas = conf.replicas
        /\ prime # 0 /\ mi # prime /\ w[prime] = "returned"
    BY DEF KillSend, Main, Alive, config, Machines, Joined, Inv, ConfigInv, JoinInv
  <1>2. /\ current \in [Ids -> BOOLEAN] /\ Machines \subseteq Ids
        /\ N \in Nat /\ Machines = 1..N /\ prime \in Machines \cup {0}
        /\ bar \in [arrived : {0, 1}, released : BOOLEAN, alive : BOOLEAN]
        /\ \A r \in Machines : w[r] \notin Before
        /\ \A r \in Ids : Fine(guest[r], w[r], pid[r])
        /\ guest \in [Ids -> Guest] /\ w \in [Ids -> Pcs] /\ pid \in [Ids -> BOOLEAN]
    BY <1>1, MachineFacts DEF Inv, MachineInv, TypeOK, StartInv, Pcs, Fine
  <1>3. CASE guest[mi].proc = "gone" /\ MainTo("aborted", mi) /\ UNCHANGED guest
    <2>1. mpc' = "aborted" /\ mi' = mi
      BY <1>3 DEF MainTo
    <2>2. guest[mi].end # "none"
      BY <1>1, <1>2, <1>3 DEF Fine, TracerInv, EndInv
    <2>3. AbortCause'
      BY <1>1, <1>3, <2>1, <2>2 DEF AbortCause
    <2>4. ConfigInv' /\ StartInv' /\ BarrierInv' /\ JoinInv'
      BY <1>1, <1>2, <2>1 DEF Inv, ConfigInv, StartInv, BarrierInv, JoinInv
    <2> QED BY <1>1, <1>2, <1>3, <2>1, <2>3, <2>4, MainAloneInv
  <1>4. ASSUME NextKill, \A r \in Ids : guest'[r] \in {guest[r], [guest[r] EXCEPT !.sig = TRUE]},
               guest' \in [Ids -> Guest]
        PROVE  Inv'
    <2>1. mpc' \in {"kill", "return"} /\ mi' \in Machines
      BY <1>1, <1>2, <1>4 DEF NextKill, MainTo, More
    <2>2. ASSUME NEW r \in Ids PROVE Fine(guest'[r], w'[r], pid'[r])
      <3>1. Fine(guest[r], w[r], pid[r]) /\ Fine([guest[r] EXCEPT !.sig = TRUE], w[r], pid[r])
        BY <1>2, Moved
      <3> QED BY <1>1, <1>4, <3>1
    <2>3. ConfigInv' /\ StartInv' /\ BarrierInv' /\ AbortCause'
      BY <1>1, <1>2, <2>1 DEF Inv, ConfigInv, StartInv, BarrierInv, AbortCause
    <2>4. JoinInv'
      BY <1>1, <2>1 DEF JoinInv, Joined
    <2> QED BY <1>1, <1>2, <1>4, <2>1, <2>2, <2>3, <2>4, MainParts
  <1>5. \A r \in Ids : [guest[r] EXCEPT !.sig = TRUE] \in Guest
    BY <1>2, Moved DEF Fine
  <1>6. CASE NextKill /\ guest' = [guest EXCEPT ![mi].sig = TRUE]
    <2>1. guest' = [guest EXCEPT ![mi] = [guest[mi] EXCEPT !.sig = TRUE]]
      BY <1>6
    <2>2. guest' \in [Ids -> Guest]
      BY <1>1, <1>2, <1>5, <2>1
    <2>3. \A r \in Ids : guest'[r] \in {guest[r], [guest[r] EXCEPT !.sig = TRUE]}
      BY <1>1, <1>2, <2>1
    <2> QED BY <1>4, <1>6, <2>2, <2>3
  <1>7. CASE NextKill /\ guest' = [r \in Ids |-> [guest[r] EXCEPT !.sig = TRUE]]
    <2>1. guest' \in [Ids -> Guest]
      BY <1>5, <1>7
    <2> QED BY <1>4, <1>7, <2>1
  <1> QED BY <1>3, <1>6, <1>7 DEF KillSend

\* main returns and the process exits.
LEMMA DestroyedInv ==
  ASSUME Inv, Destroy \/ Exit
  PROVE  Inv'
  <1>1. /\ mpc \in {"return", "destroyed"} /\ Alive /\ UNCHANGED <<conf, replicas, prime>> /\ mi' = mi
        /\ UNCHANGED <<config, guest, w, pid>> /\ UNCHANGED <<current, bar>>
        /\ mpc' \in {"destroyed", "exited", "aborted"}
        /\ Machines' = Machines /\ Joined' = Joined
    BY DEF Destroy, Exit, Main, MainTo, Alive, config, Machines, Joined
  <1>2. /\ current \in [Ids -> BOOLEAN] /\ Machines \subseteq Ids /\ mi \in Machines \cup {1}
        /\ bar \in [arrived : {0, 1}, released : BOOLEAN, alive : BOOLEAN]
        /\ \A r \in Machines : w[r] \notin Before
    BY <1>1, MachineFacts DEF Inv, TypeOK, StartInv
  <1>3. AbortCause'
    <2>1. CASE mpc' # "aborted"
      BY <2>1 DEF AbortCause
    <2>2. CASE mpc' = "aborted"
      <3>1. PICK r \in Machines \ Joined : w[r] = "returned"
        BY <2>2 DEF Destroy, Exit, MainTo
      <3>2. guest[r].end # "none"
        <4>1. Fine(guest[r], w[r], pid[r])
          BY <1>1, <1>2, InvOfMachine
        <4> QED BY <3>1, <4>1 DEF Fine, TracerInv, ProcInv, EndInv
      <3>3. prime \notin {0, r}
        BY <3>1 DEF Joined
      <3> QED BY <1>1, <3>1, <3>2, <3>3 DEF AbortCause
    <2> QED BY <2>1, <2>2
  <1>4. ConfigInv' /\ StartInv' /\ BarrierInv' /\ JoinInv'
    BY <1>1, <1>2 DEF Inv, ConfigInv, StartInv, BarrierInv, JoinInv
  <1> QED BY <1>1, <1>2, <1>3, <1>4, MainAloneInv

-----------------------------------------------------------------------------
\* A guest that outlives the simulator ends.  If a SIGTERM ends it, then main
\* has waited for the prime machine, which this guest is therefore not.
LEMMA OrphanedInv ==
  ASSUME Inv, SignalInv, NEW r \in Ids, Orphaned(r)
  PROVE  Inv' /\ SignalInv'
  <1>1. PICK end \in {"exit", "kill", "term"} :
          /\ end = "term" => guest[r].sig \/ guest[r].stop = "signal"
          /\ guest' = [guest EXCEPT ![r] = [@ EXCEPT !.proc = "gone", !.end = end]]
    BY DEF Orphaned
  <1>2. /\ ~Alive /\ Live(guest[r]) /\ UNCHANGED <<config, w, pid, current, mpc, mi, bar>>
        /\ UNCHANGED <<conf, replicas, prime>> /\ ~Alive'
    BY DEF Orphaned, config, Alive
  <1>3. /\ guest \in [Ids -> Guest] /\ guest[r] \in Guest
        /\ UNCHANGED <<Machines, Joined, NullPath>> /\ Machines \subseteq Ids
    BY <1>2, InvOfMachine, MachineFacts
    DEF Inv, Machines, Joined, NullPath, Malformed, FirstMalformed
  <1> DEFINE h == [guest[r] EXCEPT !.proc = "gone", !.end = end]
  <1>4. h \in Guest
    <2> DEFINE z == [guest[r] EXCEPT !.proc = "gone"]
    <2>1. z \in Guest
      BY <1>3 DEF Guest
    <2>2. h = [z EXCEPT !.end = end]
      OBVIOUS
    <2> HIDE DEF z, h
    <2> QED BY <2>1, <2>2 DEF Guest
  <1>5. /\ h.proc = "gone" /\ h.end = end /\ h.stop = guest[r].stop /\ h.sig = guest[r].sig
    BY <1>3 DEF Guest
  <1>6. /\ guest' = [guest EXCEPT ![r] = h] /\ guest' \in [Ids -> Guest] /\ guest'[r] = h
        /\ \A q \in Ids : q # r => guest'[q] = guest[q]
    BY <1>1, <1>3, <1>4
  <1>7. TracerInv(guest[r], w[r], pid[r]) /\ w[r] # "returned"
    BY <1>2 DEF Inv, MachineInv, Orphan, TracerInv, ProcInv, Live
  <1> HIDE DEF h
  <1>8. TypeOK'
    BY <1>2, <1>3, <1>6 DEF Inv, TypeOK
  <1>9. Orphan(r)'
    BY <1>1, <1>2, <1>5, <1>6, <1>7 DEF Orphan, SignalInv, Signalled
  <1>10. ASSUME NEW q \in Ids PROVE MachineInv(q)'
    <2>1. CASE q = r
      BY <1>2, <1>9, <2>1 DEF MachineInv
    <2>2. CASE q # r
      BY <1>2, <1>6, <2>2 DEF Inv, MachineInv, Orphan
    <2> QED BY <2>1, <2>2
  <1>11. ConfigInv' /\ StartInv' /\ BarrierInv' /\ JoinInv'
    BY <1>2, <1>3 DEF Inv, ConfigInv, StartInv, BarrierInv, JoinInv
  <1>12. AbortCause'
    <2> SUFFICES ASSUME mpc = "aborted", conf.valid, ~NullPath PROVE AbortCause'
      BY <1>2, <1>3 DEF AbortCause
    <2>1. PICK q \in Machines : \/ w[q] = "mem" /\ guest[q].end = "kill"
                                \/ prime \notin {0, q} /\ (guest[q].end # "none" \/ Uses(q))
      BY DEF Inv, AbortCause
    <2>2. q \in Ids /\ q \in Machines'
      BY <1>3
    <2>3. CASE q # r
      <3>1. guest'[q] = guest[q] /\ w'[q] = w[q] /\ Uses(q)' = Uses(q)
        BY <1>2, <1>6, <2>2, <2>3 DEF Uses
      <3> QED BY <1>2, <2>1, <2>2, <3>1 DEF AbortCause
    <2>4. CASE q = r
      <3>1. guest[r].end = "none" /\ guest'[r].end # "none"
        BY <1>1, <1>2, <1>5, <1>6, <1>7 DEF TracerInv, EndInv, Live
      <3> QED BY <1>2, <2>1, <2>2, <2>4, <3>1 DEF AbortCause
    <2> QED BY <2>3, <2>4
  <1>13. SignalInv'
    BY <1>2, <1>5, <1>6 DEF SignalInv, Signalled
  <1> QED BY <1>8, <1>10, <1>11, <1>12, <1>13 DEF Inv

\* A tracer that has returned takes no further step.
LEMMA ReturnedStays ==
  ASSUME Inv, [Next]_vars, NEW r \in Ids, w[r] = "returned"
  PROVE  w'[r] = "returned"
  <1>1. w \in [Ids -> Pcs]
    BY InvOfMachine
  <1>2. ASSUME NEW q \in Ids, w[q] # "returned", w' = [w EXCEPT ![q] = w'[q]]
        PROVE  w'[r] = "returned"
    BY <1>1, <1>2
  <1>3. CASE UNCHANGED w
    BY <1>3
  <1>4. ASSUME NEW q \in Ids, Tracer(q) \/ HookReturns(q) PROVE w'[r] = "returned"
    <2>1. CASE \/ Spawn(q) \/ ClearPid(q) \/ RequestOnDead(q) \/ SetOptions(q)
               \/ WaitUntilExecve(q) \/ GetReplica(q) \/ Resume(q) \/ WaitStop(q)
               \/ HandleTrapped(q) \/ ReplaceSyscall(q) \/ HookReturns(q)
      BY <1>2, <2>1, TracerOnly DEF Only, Passes
    <2>2. CASE BarrierWorker(q) \/ BarrierWakes(q)
      BY <1>2, <2>2, BarrierOnly DEF Only, BarrierWorker, BarrierWakes, Step
    <2>3. CASE OpenMem(q)
      BY <1>1, <1>2, <2>3 DEF OpenMem, Step, Return, Go
    <2> QED BY <1>4, <2>1, <2>2, <2>3 DEF Tracer
  <1>5. CASE MainStep
    <2>1. CASE Start
      <3>1. mi \in Ids /\ w[mi] = "none" /\ w' = [w EXCEPT ![mi] = "spawn"]
        BY <2>1, MachineFacts DEF Start, Main, Go, Inv, ConfigInv, StartInv
      <3> QED BY <1>1, <3>1
    <2>2. CASE UNCHANGED w
      BY <1>3, <2>2
    <2> QED BY <1>5, <2>1, <2>2
            DEF MainStep, Parse, BarrierMain, Assign, Join, KillCheck, KillSend, Destroy, Exit
  <1> QED BY <1>3, <1>4, <1>5
          DEF Next, Kernel, Killed, ChildStops, ChildExecs, ExecEvent, GuestCalls, KernelRuns,
              SignalStops, GuestStep, UseAfterDestroy, Orphaned, Ended, vars

\* No step of a guest or a tracer makes a SIGTERM pending.
LEMMA NoNewSignal ==
  ASSUME Inv, NEW r \in Ids, Kernel(r) \/ Killed(r) \/ Tracer(r) \/ HookReturns(r)
  PROVE  \A q \in Ids : Signalled(guest'[q]) => Signalled(guest[q])
  <1> DEFINE Goal == \A q \in Ids : Signalled(guest'[q]) => Signalled(guest[q])
             g == guest[r]
  <1>1. guest \in [Ids -> Guest] /\ g \in Guest
    BY InvOfMachine
  <1>2. ASSUME NEW h, guest' = [guest EXCEPT ![r] = h], Signalled(h) => Signalled(g) PROVE Goal
    BY <1>1, <1>2
  <1>3. ASSUME UNCHANGED guest PROVE Goal
    BY <1>3
  <1> HIDE DEF Goal
  <1>4. ASSUME ChildStops(r) PROVE Goal
    <2> DEFINE h == [Stopped(g, "sigstop") EXCEPT !.at = "pre"]
    <2>1. h.sig = g.sig /\ h.stop = "sigstop"
      BY <1>1 DEF Stopped, Guest
    <2>2. guest' = [guest EXCEPT ![r] = h]
      BY <1>4 DEF ChildStops, GuestStep
    <2> HIDE DEF h
    <2> QED BY <1>2, <2>1, <2>2 DEF Signalled
  <1>5. ASSUME ChildExecs(r) PROVE Goal
    <2> DEFINE h == IF r \in BadPath THEN Stopped(g, "abort")
                    ELSE [Stopped(g, "entry") EXCEPT !.at = "exec"]
    <2>1. h.sig = g.sig /\ h.stop # "signal"
      BY <1>1 DEF Stopped, Guest
    <2>2. guest' = [guest EXCEPT ![r] = h]
      BY <1>5 DEF ChildExecs, GuestStep
    <2> HIDE DEF h
    <2> QED BY <1>2, <2>1, <2>2 DEF Signalled
  <1>6. ASSUME ExecEvent(r) PROVE Goal
    <2> DEFINE h == [Stopped(g, "exec") EXCEPT !.at = "execed"]
               z == [Stopped(g, "exit") EXCEPT !.at = "user"]
    <2>1. h.sig = g.sig /\ h.stop = "exec" /\ z.sig = g.sig /\ z.stop = "exit"
      BY <1>1 DEF Stopped, Guest
    <2>2. guest' = [guest EXCEPT ![r] = h] \/ guest' = [guest EXCEPT ![r] = z]
      BY <1>6 DEF ExecEvent, GuestStep
    <2> HIDE DEF h, z
    <2> QED BY <1>2, <2>1, <2>2 DEF Signalled
  <1>7. ASSUME SignalStops(r) PROVE Goal
    <2>1. g.sig /\ guest' = [guest EXCEPT ![r] = [Stopped(g, "signal") EXCEPT !.sig = FALSE]]
      BY <1>7 DEF SignalStops, GuestStep
    <2> QED BY <1>2, <2>1 DEF Signalled
  <1>8. ASSUME NEW c \in {"real", "exit"} \cup Hooked, GuestCalls(r, c) PROVE Goal
    <2> DEFINE h == [Stopped(g, "entry") EXCEPT
                       !.at = "kernel", !.call = c, !.nr = "own", !.ran = FALSE,
                       !.calls = IF c = "exit" THEN @ ELSE @ + 1]
    <2>1. h.sig = g.sig /\ h.stop = "entry"
      BY <1>1 DEF Stopped, Guest
    <2>2. guest' = [guest EXCEPT ![r] = h]
      BY <1>8 DEF GuestCalls, GuestStep
    <2> HIDE DEF h
    <2> QED BY <1>2, <2>1, <2>2 DEF Signalled
  <1>9. ASSUME KernelRuns(r) PROVE Goal
    <2> DEFINE z == [g EXCEPT !.proc = "zombie", !.end = "exit"]
               h == [Stopped(g, "exit") EXCEPT
                       !.at = "user",
                       !.ran = g.nr = "own",
                       !.rax = IF g.nr = "own" THEN "real" ELSE "gettid"]
    <2>1. z.sig = g.sig /\ z.stop = g.stop /\ h.sig = g.sig /\ h.stop = "exit"
      BY <1>1 DEF Stopped, Guest
    <2>2. guest' = [guest EXCEPT ![r] = z] \/ guest' = [guest EXCEPT ![r] = h]
      BY <1>9 DEF KernelRuns, GuestStep
    <2> HIDE DEF z, h
    <2>3. CASE guest' = [guest EXCEPT ![r] = z]
      BY <1>2, <2>1, <2>3 DEF Signalled
    <2>4. CASE guest' = [guest EXCEPT ![r] = h]
      BY <1>2, <2>1, <2>4 DEF Signalled
    <2> QED BY <2>2, <2>3, <2>4
  <1>10. ASSUME Killed(r) PROVE Goal
    <2> DEFINE z == [g EXCEPT !.proc = "zombie", !.end = "kill"]
    <2>1. z.sig = g.sig /\ z.stop = g.stop /\ guest' = [guest EXCEPT ![r] = z]
      BY <1>1, <1>10 DEF Guest, Killed, GuestStep
    <2> HIDE DEF z
    <2> QED BY <1>2, <2>1 DEF Signalled
  <1>11. ASSUME NEW p \in {"running", "held", "gone"}, guest' = [guest EXCEPT ![r].proc = p] PROVE Goal
    <2> DEFINE z == [g EXCEPT !.proc = p]
    <2>1. z.sig = g.sig /\ z.stop = g.stop /\ guest' = [guest EXCEPT ![r] = z]
      BY <1>1, <1>11 DEF Guest
    <2> HIDE DEF z
    <2> QED BY <1>2, <2>1 DEF Signalled
  <1>12. ASSUME NEW to, NEW dead, Wait(r, to, dead) PROVE Goal
    BY <1>11, <1>12 DEF Wait
  <1>13. ASSUME NEW h \in {g, Resumed(g), WithGettid(g), WithResult(g)}, NEW to, Request(r, h, to)
         PROVE  Goal
    <2>1. Signalled(h) => Signalled(g)
      BY <1>1 DEF Resumed, WithGettid, WithResult, Guest, Signalled
    <2> QED BY <1>2, <1>3, <1>13, <2>1 DEF Request, Crash
  <1>14. ASSUME Spawn(r) PROVE Goal
    BY <1>11, <1>12, <1>14 DEF Spawn
  <1>15. ASSUME SetOptions(r) \/ Resume(r) \/ HandleTrapped(r) PROVE Goal
    <2>1. CASE SetOptions(r)
      BY <1>13, <2>1 DEF SetOptions
    <2>2. CASE Resume(r)
      BY <1>13, <2>2 DEF Resume
    <2>3. CASE HandleTrapped(r)
      BY <1>13, <2>3 DEF HandleTrapped
    <2> QED BY <1>15, <2>1, <2>2, <2>3
  <1>16. ASSUME WaitUntilExecve(r) \/ WaitStop(r) \/ ReplaceSyscall(r) PROVE Goal
    <2>1. CASE WaitUntilExecve(r)
      BY <1>12, <1>13, <2>1 DEF WaitUntilExecve
    <2>2. CASE WaitStop(r)
      BY <1>12, <2>2 DEF WaitStop
    <2>3. CASE ReplaceSyscall(r)
      BY <1>12, <1>13, <2>3 DEF ReplaceSyscall
    <2> QED BY <1>16, <2>1, <2>2, <2>3
  <1>17. ASSUME \/ ClearPid(r) \/ RequestOnDead(r) \/ OpenMem(r) \/ BarrierWorker(r)
                \/ BarrierWakes(r) \/ GetReplica(r) \/ HookReturns(r)
         PROVE  Goal
    BY <1>3, <1>17 DEF ClearPid, RequestOnDead, Crash, OpenMem, BarrierWorker, BarrierWakes,
                       GetReplica, HookReturns
  <1>18. Goal
    BY <1>8, <1>9, <1>10, <1>14, <1>15, <1>16, <1>17, <1>4, <1>5, <1>6, <1>7 DEF Kernel, Tracer
  <1> QED BY <1>18 DEF Goal

\* main sends SIGTERM only after the prime machine's tracer has returned.
LEMMA SignalsInv ==
  ASSUME Inv, SignalInv, [Next]_vars
  PROVE  SignalInv'
  <1>1. prime \in Ids \cup {0} /\ (prime # 0 /\ w[prime] = "returned" => w'[prime] = "returned")
    BY MachineFacts, ReturnedStays DEF Inv, TypeOK
  <1>2. ASSUME UNCHANGED prime, \A q \in Ids : Signalled(guest'[q]) => Signalled(guest[q])
        PROVE  SignalInv'
    BY <1>1, <1>2 DEF SignalInv
  <1>3. ASSUME NEW r \in Ids, Kernel(r) \/ Killed(r) \/ Tracer(r) \/ HookReturns(r)
        PROVE  SignalInv'
    <2>1. CASE Kernel(r) \/ Killed(r)
      BY <1>2, <2>1, KernelOnly, NoNewSignal DEF config
    <2>2. CASE Tracer(r) \/ HookReturns(r)
      <3>1. CASE OpenMem(r) \/ BarrierWorker(r) \/ BarrierWakes(r)
        BY <1>2, <3>1 DEF OpenMem, BarrierWorker, BarrierWakes, config
      <3>2. CASE ~(OpenMem(r) \/ BarrierWorker(r) \/ BarrierWakes(r))
        BY <1>2, <2>2, <3>2, TracerOnly, NoNewSignal DEF Tracer, MainAside, config
      <3> QED BY <3>1, <3>2
    <2> QED BY <1>3, <2>1, <2>2
  <1>4. CASE Parse
    BY <1>4 DEF Parse, Main, Inv, ConfigInv, SignalInv
  <1>5. CASE KillSend
    BY <1>5 DEF KillSend, Main, config, Inv, JoinInv, SignalInv
  <1>6. CASE MainStep /\ ~Parse /\ ~KillSend
    BY <1>2, <1>6 DEF MainStep, Start, BarrierMain, Assign, Join, KillCheck, Destroy, Exit, config
  <1>7. ASSUME NEW r \in Ids, Orphaned(r) PROVE SignalInv'
    BY <1>7, OrphanedInv
  <1>8. ASSUME NEW r \in Ids, UseAfterDestroy(r) PROVE SignalInv'
    BY <1>2, <1>8 DEF UseAfterDestroy, config
  <1>9. CASE UNCHANGED vars
    BY <1>2, <1>9 DEF vars, config
  <1> QED BY <1>3, <1>4, <1>5, <1>6, <1>7, <1>8, <1>9 DEF Next, Ended

-----------------------------------------------------------------------------
\* The inductive invariant holds of every reachable state, for every set of
\* scenarios: every step of a guest, a tracer or main preserves it.
THEOREM InvHolds == Spec => [](Inv /\ SignalInv)
  <1>1. Init => Inv /\ SignalInv
    <2> SUFFICES ASSUME Init PROVE Inv /\ SignalInv
      OBVIOUS
    <2>1. /\ conf \in Scenarios /\ replicas = <<>> /\ prime = 0 /\ mpc = "parse" /\ mi = 1
          /\ Machines = {} /\ bar = [arrived |-> 0, released |-> FALSE, alive |-> FALSE]
          /\ \A r \in Ids : guest[r] = NoGuest /\ w[r] = "none" /\ pid[r] = FALSE
      BY DEF Init, Machines
    <2>2. NoGuest \in Guest
      BY DEF NoGuest, Guest
    <2>3. TypeOK
      BY <2>1, <2>2 DEF Init, TypeOK
    <2>4. TracerInv(NoGuest, "none", FALSE)
      BY DEF TracerInv, EndInv, ProcInv, PidInv, Live, NoGuest, AtRequest, Waiting, Reaped
    <2>5. ConfigInv /\ StartInv /\ BarrierInv /\ JoinInv /\ AbortCause
      BY <2>1 DEF ConfigInv, StartInv, BarrierInv, JoinInv, AbortCause
    <2>6. SignalInv
      BY <2>1 DEF SignalInv, Signalled, NoGuest
    <2> QED BY <2>1, <2>3, <2>4, <2>5, <2>6 DEF Inv, MachineInv
  <1>2. Inv /\ SignalInv /\ [Next]_vars => (Inv /\ SignalInv)'
    <2> SUFFICES ASSUME Inv, SignalInv, [Next]_vars PROVE Inv' /\ SignalInv'
      OBVIOUS
    <2>0. SignalInv'
      BY SignalsInv
    <2>1. CASE UNCHANGED vars
      <3>1. UNCHANGED <<conf, replicas, prime, guest, w, pid, current, mpc, mi, bar>>
        BY <2>1 DEF vars, config
      <3>2. UNCHANGED <<Machines, Joined, NullPath>>
        BY <3>1 DEF Machines, Joined, NullPath, Malformed, FirstMalformed
      <3>3. TypeOK' /\ \A r \in Ids : MachineInv(r)'
        BY <3>1, <3>2 DEF Inv, TypeOK, MachineInv, Orphan, Alive
      <3>4. ConfigInv' /\ StartInv'
        BY <3>1, <3>2 DEF Inv, ConfigInv, StartInv
      <3>5. BarrierInv'
        BY <3>1 DEF Inv, BarrierInv
      <3>6. JoinInv' /\ AbortCause'
        BY <3>1, <3>2 DEF Inv, JoinInv, AbortCause, Uses
      <3> QED BY <2>0, <3>3, <3>4, <3>5, <3>6 DEF Inv
    <2>2. CASE \E r \in Ids :
                 Kernel(r) \/ Killed(r) \/ Tracer(r) \/ HookReturns(r) \/ UseAfterDestroy(r)
      BY <2>0, <2>2, MachineStep
    <2>4. CASE \E r \in Ids : Orphaned(r)
      BY <2>4, OrphanedInv
    <2>3. CASE MainStep
      BY <2>0, <2>3, ParseInv, StartStepInv, StartedInv, JoinedInv, SentInv, DestroyedInv DEF MainStep
    <2> QED BY <2>1, <2>2, <2>3, <2>4 DEF Next, Ended
  <1> QED BY <1>1, <1>2, PTL DEF Spec

\* Values stay in range: main is at a machine that exists, and the prime
\* machine is one of the file's.
THEOREM TypeCorrect == Spec => []TypeOK
  <1>1. Inv => TypeOK
    BY DEF Inv
  <1> QED BY <1>1, InvHolds, PTL

\* A guest that runs on after a system call sees the hook's result exactly when
\* a hook answers the call, however SIGTERM, SIGKILL and main interleave with
\* handle_trapped and replace_syscall_with_result.
THEOREM GuestsSeeResults == Spec => []GuestSeesResult
  <1>1. Inv => GuestSeesResult
    <2> SUFFICES ASSUME Inv, NEW r \in Machines, Alive, Running(r, "user") PROVE Answered(guest[r])
      BY DEF GuestSeesResult, Answered
    <2>1. r \in Ids
      BY MachineFacts DEF Inv
    <2>2. Fine(guest[r], w[r], pid[r])
      BY <2>1, InvOfMachine
    <2>3. w[r] \in Waiting /\ CallInv(guest[r], w[r])
      BY <2>2, TracerOfRunning DEF Running
    <2> QED BY <2>3 DEF Running, CallInv, Waiting
  <1> QED BY <1>1, InvHolds, PTL

\* The SIGTERM of runner_handle::kill ends no guest while the simulator runs, and
\* later only guests other than the prime one, of a file that has one.
THEOREM SigtermIsHeldBack == Spec => []SigtermHeldBack
  <1>1. Inv => SigtermHeldBack
    <2> SUFFICES ASSUME Inv, NEW r \in Machines, guest[r].end = "term"
                 PROVE  ~Alive /\ prime \notin {0, r}
      BY DEF SigtermHeldBack
    <2>1. MachineInv(r)
      BY MachineFacts DEF Inv
    <2> QED BY <2>1 DEF MachineInv, TracerInv, EndInv, Orphan
  <1> QED BY <1>1, InvHolds, PTL

\* When main waits or has ended, it has started every replica of the file, or
\* none because an element of the file is not a table.
THEOREM FileRunAsAWhole == Spec => []AllOrNothing
  <1>1. Inv => AllOrNothing
    <2> SUFFICES ASSUME Inv,
                        mpc \in {"join", "kill", "send", "return", "destroyed", "exited"}
                 PROVE  \/ Machines = DOMAIN conf.replicas /\ \A r \in Machines : w[r] # "none"
                        \/ /\ \A r \in Machines : w[r] = "none"
                           /\ conf.given => \E i \in DOMAIN conf.replicas : ~conf.replicas[i].table
      BY DEF AllOrNothing
    <2>1. CASE replicas = conf.replicas
      BY <2>1 DEF Inv, StartInv, Before, Machines
    <2>2. CASE replicas # conf.replicas
      BY <2>2 DEF Inv, ConfigInv, Machines
    <2> QED BY <2>1, <2>2
  <1> QED BY <1>1, InvHolds, PTL

\* Without a prime machine main returns only when every tracer has, and every
\* guest that nobody killed has exited and was waited for.
THEOREM RunsComplete == Spec => []RunComplete
  <1>1. Inv => RunComplete
    <2> SUFFICES ASSUME Inv, prime = 0, mpc \in {"return", "destroyed", "exited"},
                        NEW r \in Machines
                 PROVE  /\ w[r] = "returned"
                        /\ \/ guest[r].end = "kill"
                           \/ guest[r].proc = "gone" /\ guest[r].end = "exit" /\ ~pid[r]
      BY DEF RunComplete
    <2>1. r \in Ids /\ r # 0 /\ r \in Joined
      BY MachineFacts DEF Inv, Joined
    <2>2. w[r] = "returned"
      BY <2>1 DEF Inv, JoinInv
    <2>3. Fine(guest[r], w[r], pid[r])
      BY <2>1, <2>2, InvOfMachine DEF Inv, MachineInv, Orphan, Fine
    <2>4. guest[r].end \in {"exit", "kill"}
      BY <2>2, <2>3 DEF Fine, TracerInv, EndInv, ProcInv, Guest
    <2> QED BY <2>2, <2>3, <2>4 DEF Fine, TracerInv, ProcInv, PidInv
  <1> QED BY <1>1, InvHolds, PTL

\* The simulator ends abnormally for the causes that AbortCause lists only.
THEOREM AbortsExplained == Spec => []AbortCause
  <1>1. Inv => AbortCause
    BY DEF Inv
  <1> QED BY <1>1, InvHolds, PTL
=============================================================================
