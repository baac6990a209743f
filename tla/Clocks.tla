------------------------------- MODULE Clocks -------------------------------
(***************************************************************************)
(* Simulated time: the clocks that guests read (clock_gettime) and sleep   *)
(* by (clock_nanosleep), which run faster or slower than the simulator's   *)
(* own by a factor, counted from the moment at which main has started the  *)
(* guest's machine.                                                        *)
(*                                                                         *)
(* The factor is a fraction and computed with exactly; the code uses       *)
(* floating point and truncates, as \div does, where it returns to whole   *)
(* nanoseconds.  Which clock a guest asks for, the flags of its sleep and  *)
(* where to put the remaining time are ignored, as in the code.            *)
(*                                                                         *)
(* An operator named Fault... is a variant, with a mistake in it, of the   *)
(* operator that follows; the runs of the project detect each of them.     *)
(***************************************************************************)
EXTENDS Vdso

CONSTANTS
  N,           \* the number of machines
  Scales,      \* values of time_scale, as pairs of numerator and denominator
  Images,      \* programs, as the kernel executes them
  Image,       \* the one of each machine
  Gap,         \* how long main sleeps after it has started a machine
  Second,      \* nanoseconds of a second
  Durations,   \* what guests ask to sleep
  MaxTime      \* bound: where steady_clock stops; no sleep begins late

Machines == 1..N

ASSUME NAssumption == N \in Nat
ASSUME ImageAssumption ==
  /\ Image \in [Machines -> Images]
  /\ \A image \in Images : KernelImage(image)
ASSUME ScalesAssumption == Scales \subseteq (Nat \ {0}) \X (Nat \ {0})
ASSUME TimesAssumption ==
  /\ Gap \in Nat /\ Second \in Nat \ {0} /\ MaxTime \in Nat
  /\ Durations \subseteq Nat

VARIABLES
  scale,     \* options::time_scale
  now,       \* steady_clock
  started,   \* how many machines main has started
  wake,      \* until when main sleeps
  epoch,     \* replica::epoch_
  until,     \* until when the guest's clock_nanosleep sleeps, 0 for none
  reading,   \* what the guest's last clock_gettime has returned
  asked      \* what the guest has asked to sleep since

vars == <<scale, now, started, wake, epoch, until, reading, asked>>

Started == 1..started
Num == scale[1]
Den == scale[2]

Init ==
  /\ scale \in Scales
  /\ now = 0
  /\ started = 0
  /\ wake = 0
  /\ epoch = [r \in Machines |-> 0]
  /\ until = [r \in Machines |-> 0]
  /\ reading = [r \in Machines |-> [tv_sec |-> 0, tv_nsec |-> 0]]
  /\ asked = [r \in Machines |-> 0]

-----------------------------------------------------------------------------
\* The machines with the key of the vDSO still on the guest's stack.
WithVdso ==
  {r \in Machines : \E i \in DOMAIN Image[r].aux :
     RemoveVdso(Layout(Image[r]))[KeyAt(Image[r], i)] = AT_SYSINFO_EHDR}

\* since_epoch / time_scale.  Mistake: multiplied.
FaultMultiplied(since) == (since * Num) \div Den
Scaled(since) == (since * Den) \div Num

\* The time that the guest of r sees; with the vDSO it is the kernel's.
GuestTime(r) == IF r \in WithVdso THEN now ELSE epoch[r] + Scaled(now - epoch[r])

\* The duration_casts.  Mistake: the seconds are not subtracted.
FaultNotSubtracted(t) == [tv_sec |-> t \div Second, tv_nsec |-> t]
Timespec(t) == [tv_sec |-> t \div Second, tv_nsec |-> t % Second]

Nanoseconds(tm) == tm.tv_sec * Second + tm.tv_nsec

\* duration * time_scale.  Mistake: divided.
FaultDivided(d) == (d * Den) \div Num
SleepFor(d) == (d * Num) \div Den

\* sleep_for has slept at least so long.
Slept(r) == now >= until[r]

Tick ==
  /\ now < MaxTime
  /\ now' = now + 1
  /\ UNCHANGED <<scale, started, wake, epoch, until, reading, asked>>

\* main's loop: machine::start, which makes the replica, and sleep_for.
Start ==
  LET r == started + 1
  IN /\ r \in Machines
     /\ wake <= now
     /\ started' = r
     /\ epoch' = [epoch EXCEPT ![r] = now]
     /\ wake' = now + Gap
     /\ UNCHANGED <<scale, now, until, reading, asked>>

Runs(r) == r \in Started /\ until[r] = 0

ClockGettime(r) ==
  /\ Runs(r)
  /\ reading' = [reading EXCEPT ![r] = Timespec(GuestTime(r))]
  /\ asked' = [asked EXCEPT ![r] = 0]
  /\ UNCHANGED <<scale, now, started, wake, epoch, until>>

ClockNanosleep(r, d) ==
  /\ Runs(r) /\ asked[r] = 0
  /\ now + SleepFor(d) <= MaxTime
  /\ until' = [until EXCEPT ![r] = now + SleepFor(d)]
  /\ asked' = [asked EXCEPT ![r] = d]
  /\ UNCHANGED <<scale, now, started, wake, epoch, reading>>

SleepReturns(r) ==
  /\ until[r] # 0
  /\ Slept(r)
  /\ until' = [until EXCEPT ![r] = 0]
  /\ UNCHANGED <<scale, now, started, wake, epoch, reading, asked>>

Next ==
  \/ Tick \/ Start
  \/ \E r \in Machines :
       \/ ClockGettime(r) \/ SleepReturns(r)
       \/ \E d \in Durations : ClockNanosleep(r, d)

Spec == Init /\ [][Next]_vars

-----------------------------------------------------------------------------
\* Values stay in range; a timespec's nanoseconds are less than a second (the
\* duration_casts of clock_gettime, which a guest's C library relies on).
TypeOK ==
  /\ scale \in Scales
  /\ now \in 0..MaxTime
  /\ started \in 0..N
  /\ wake \in Nat
  /\ epoch \in [Machines -> 0..MaxTime]
  /\ until \in [Machines -> 0..MaxTime]
  /\ reading \in [Machines -> [tv_sec : Nat, tv_nsec : 0..(Second - 1)]]
  /\ asked \in [Machines -> Durations \cup {0}]

\* remove_vdso changes the key of the vDSO's entry, and nothing else: neither
\* a pointer nor another key or value, however many arguments and strings of
\* the environment there are.  This is about no variable: its first line has
\* TLC evaluate it in the initial states only.
VdsoRemoved ==
  started = 0 /\ now = 0 => \A image \in Images :
    RemoveVdso(Layout(image)) = Layout([image EXCEPT !.aux =
      [i \in DOMAIN @ |-> <<IF @[i][1] = AT_SYSINFO_EHDR THEN AT_IGNORE ELSE @[i][1], @[i][2]>>]])

\* No guest sees its clock go back; and what a guest reads is never further
\* behind what another has read before than the time between their starts,
\* scaled, differs from that time: guests that exchange times see each other's
\* clocks apart by a constant, which is 0 only if the factor is 1
\* (clock_gettime and replica::epoch_).
ClocksAgree ==
  \A r, q \in Started :
    LET behind == Nanoseconds(reading[r]) - GuestTime(q)
    IN behind > 0 => Num * (behind - 1) < (epoch[q] - epoch[r]) * (Den - Num)

\* By its own clock a guest sleeps as long as it has asked for, but for what
\* the two truncations take: less than a nanosecond of the clock that it reads
\* and one of the real clock (clock_nanosleep and clock_gettime).
SleepsLongEnough ==
  \A r \in Started :
    asked[r] > 0 /\ until[r] = 0 =>
      Num * (GuestTime(r) - Nanoseconds(reading[r]) + 1) + Den > Num * asked[r]

=============================================================================
