------------------------------- MODULE Seeds --------------------------------
(***************************************************************************)
(* Where the faults of the network come from.  The simulator makes one     *)
(* generator from the configuration's seed, and each datagram socket, when *)
(* it is created, takes the seed of a generator of its own from it, by     *)
(* SeedWords calls of next.  From then on the fates of the datagrams that  *)
(* the socket is given (dropped or not, latencies, replays) depend on that *)
(* seed and their order alone: they are drawn under the socket's mutex.    *)
(*                                                                         *)
(* Sockets are created by the tracer threads, one per replica, and nothing *)
(* protects the simulator's generator.  next reads its state and then      *)
(* writes it: two tracers in it at once are a data race, after which the   *)
(* state may be the one that either of them wrote, or a mixture of both.   *)
(*                                                                         *)
(* The numbers are abstract: the state of the simulator's generator is how *)
(* often it was advanced, or Torn, and what is drawn from a state is the   *)
(* state itself, so that equal numbers are equal draws.                    *)
(*                                                                         *)
(* The properties compare executions of the program with the same seed and *)
(* the same guests: the module has several, that know nothing of each      *)
(* other.                                                                  *)
(***************************************************************************)
EXTENDS Integers, Sequences

CONSTANTS
  Runs,         \* the executions
  Replicas,     \* replicas, each with a tracer thread
  MaxSockets,   \* bound: datagram sockets that a guest creates
  SeedWords,    \* words of state of a generator: 4 in the code
  Torn          \* a state that a race left behind

ASSUME BoundsAssumption == MaxSockets \in Nat /\ SeedWords \in Nat \ {0}
ASSUME TornAssumption == Torn \notin Nat

VARIABLES
  rng,        \* simulator::rng_
  creating,   \* what each tracer has drawn for the socket it creates
  reading,    \* the state that each tracer read in next: none or one
  seeds,      \* the seeds of each replica's sockets, in order of creation
  order,      \* whose sockets were created, in order
  overlap,    \* executions in which sockets were created at the same time
  raced       \* executions in which next was called at the same time

vars == <<rng, creating, reading, seeds, order, overlap, raced>>

\* The state of rng_ that the seed of the configuration gives: 0 here.
\* Mistake: a seed drawn anew in each execution.
FaultRandomSeed(e) == 10 * e
ConfiguredSeed(e) == 0

\* The constructor of simulator seeds rng_ from the options' seed.
Init ==
  /\ rng = [e \in Runs |-> ConfiguredSeed(e)]
  /\ creating = [e \in Runs |-> [r \in Replicas |-> {}]]
  /\ reading = [e \in Runs |-> [r \in Replicas |-> {}]]
  /\ seeds = [e \in Runs |-> [r \in Replicas |-> <<>>]]
  /\ order = [e \in Runs |-> <<>>]
  /\ overlap = {}
  /\ raced = {}

-----------------------------------------------------------------------------
\* Others than r that create a socket, or are in next.
Creating(e, r) == {p \in Replicas \ {r} : creating[e][p] # {}}
Reading(e, r) == {p \in Replicas \ {r} : reading[e][p] # {}}

\* sys_socket, SOCK_DGRAM: the constructor of datagram_socket.
Create(e, r) ==
  /\ creating[e][r] = {} /\ Len(seeds[e][r]) < MaxSockets
  /\ creating' = [creating EXCEPT ![e][r] = {<<>>}]
  /\ order' = [order EXCEPT ![e] = Append(@, r)]
  /\ overlap' = IF Creating(e, r) # {} THEN overlap \cup {e} ELSE overlap
  /\ UNCHANGED <<rng, reading, seeds, raced>>

\* next reads the state of the generator ...
NextReads(e, r) ==
  /\ reading[e][r] = {}
  /\ \E words \in creating[e][r] : Len(words) < SeedWords
  /\ reading' = [reading EXCEPT ![e][r] = {rng[e]}]
  /\ raced' = IF Reading(e, r) # {} THEN raced \cup {e} ELSE raced
  /\ UNCHANGED <<rng, creating, seeds, order, overlap>>

\* ... and writes the following one.  Mistake: it does so once per seed.
FaultOncePerSeed(state, words) == IF words = <<>> /\ state # Torn THEN state + 1 ELSE state
Advanced(state, words) == IF state = Torn THEN Torn ELSE state + 1

NextWrites(e, r) ==
  /\ \E state \in reading[e][r], words \in creating[e][r] :
       /\ \/ rng' = [rng EXCEPT ![e] = Advanced(state, words)]
          \/ /\ Reading(e, r) # {} \/ rng[e] # state
             /\ rng' = [rng EXCEPT ![e] = Torn]
       /\ creating' = [creating EXCEPT ![e][r] = {Append(words, state)}]
  /\ reading' = [reading EXCEPT ![e][r] = {}]
  /\ UNCHANGED <<seeds, order, overlap, raced>>

\* seed_from has all its words, and the socket exists.
Seeded(e, r) ==
  /\ \E words \in creating[e][r] :
       /\ Len(words) = SeedWords
       /\ seeds' = [seeds EXCEPT ![e][r] = Append(@, words)]
  /\ creating' = [creating EXCEPT ![e][r] = {}]
  /\ UNCHANGED <<rng, reading, order, overlap, raced>>

Next ==
  \E e \in Runs, r \in Replicas :
    Create(e, r) \/ NextReads(e, r) \/ NextWrites(e, r) \/ Seeded(e, r)

Spec == Init /\ [][Next]_vars

-----------------------------------------------------------------------------
SocketsOf(e) == {s \in Replicas \X (1..MaxSockets) : s[2] \in DOMAIN seeds[e][s[1]]}

\* As long as no two tracers were in next at once, no number was drawn twice:
\* the generators of different sockets have no word of their seeds in common,
\* even when the sockets are created at the same time (seed_from and next).
DrawnOnce ==
  \A e \in Runs \ raced : \A s, t \in SocketsOf(e) : \A i, j \in 1..SeedWords :
    seeds[e][s[1]][s[2]][i] = seeds[e][t[1]][t[2]][j] => s = t /\ i = j

\* Two executions that create the same sockets in the same order, one after
\* the other, give each the same seed: the order in which tracers come to
\* sys_socket is all that the seeds depend on (datagram_socket's constructor).
OrderDecides ==
  \A e, f \in Runs \ overlap :
    order[e] = order[f] =>
      \A s \in SocketsOf(e) \cap SocketsOf(f) : seeds[e][s[1]][s[2]] = seeds[f][s[1]][s[2]]

\* What determinism.py expects of a configuration with a seed: a socket has
\* the same seed, and so the same faults, in every execution.
SameEveryTime ==
  \A e, f \in Runs :
    \A s \in SocketsOf(e) \cap SocketsOf(f) : seeds[e][s[1]][s[2]] = seeds[f][s[1]][s[2]]
=============================================================================
