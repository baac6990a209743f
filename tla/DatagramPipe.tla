---------------------------- MODULE DatagramPipe ----------------------------
(***************************************************************************)
(* A datagram socket's inbound queue: datagram_socket::deliver and         *)
(* datagram_pipe::send, called by the tracer threads of the sending        *)
(* replicas, and datagram_pipe::recv, called by the tracer thread of the   *)
(* replica that owns the socket.                                           *)
(*                                                                         *)
(* There are two locks.  deliver holds the socket's mutex while send       *)
(* draws the random choices, reads the clock and pushes; writer is the     *)
(* datagram whose deliver holds it.  The pipe's mutex protects the queue;  *)
(* each of its critical sections is one step here: send's push with its    *)
(* notify_one, and one round of recv's loop up to where it waits (which    *)
(* releases the mutex) or returns.  Taking the socket's mutex is one step  *)
(* with the draw that follows, and giving it back is one step with the     *)
(* push before it: in between, a thread does nothing that another sees.    *)
(*                                                                         *)
(* Each call of deliver is identified with the datagram that it delivers.  *)
(***************************************************************************)
EXTENDS NetFaults, Sequences, FiniteSets

CONSTANTS
  Datagrams,    \* the datagrams that other replicas send here
  Nobody,       \* no datagram: the socket's mutex is free
  MayDrop,      \* p_drop is positive
  MaxReplays,   \* bound: replay_count, 0 if p_replay is 0
  Draws,        \* values of rng.next() that latencies are made of
  MaxTime       \* bound: where steady_clock stops; nothing is sent late

ASSUME NobodyAssumption == Nobody \notin Datagrams
ASSUME MayDropAssumption == MayDrop \in BOOLEAN
ASSUME MaxReplaysAssumption == MaxReplays \in Nat
ASSUME DrawsAssumption == Draws \in SUBSET Nat
ASSUME MaxTimeAssumption == MaxTime \in Nat

VARIABLES
  clock,      \* steady_clock
  writer,     \* datagram_socket::mutex_: the deliver call that holds it
  pc,         \* where each deliver call is
  pending,    \* the packets p and replays of each deliver call
  sentAt,     \* send's local now, kept after it returned
  packets,    \* datagram_pipe::packets_
  rpc,        \* where recv is; "idle": not called
  deadline,   \* time that recv waits for in "timed", else 0
  received    \* what recv has returned

vars == <<clock, writer, pc, pending, sentAt, packets, rpc, deadline, received>>

Packet == [dgram : Datagrams, copy : 0..MaxReplays, arrival : 0..MaxTime]

Init ==
  /\ clock = 0
  /\ writer = Nobody
  /\ pc = [d \in Datagrams |-> "idle"]
  /\ pending = [d \in Datagrams |-> {}]
  /\ sentAt = [d \in Datagrams |-> 0]
  /\ packets = {}
  /\ rpc = "idle"
  /\ deadline = 0
  /\ received = <<>>

-----------------------------------------------------------------------------
\* What send makes of datagram d: the packet itself, copy 0, and replays
\* 1..n, which take a latency of their own, doubled.
Copies(d, now, v, n, r) ==
  {[dgram |-> d, copy |-> 0, arrival |-> now + Latency(v)]} \cup
  {[dgram |-> d, copy |-> i, arrival |-> now + Latency(r[i]) * 2] : i \in 1..n}

\* deliver can take the socket's mutex.  Mistake: it does not take it.
FaultNotLocked == TRUE
Unlocked == writer = Nobody

\* deliver locks, and send decides to drop.
Drop(d) ==
  /\ MayDrop
  /\ pc[d] = "idle"
  /\ Unlocked
  /\ pc' = [pc EXCEPT ![d] = "dropped"]
  /\ UNCHANGED <<clock, writer, pending, sentAt, packets, rpc, deadline, received>>

\* deliver locks, and send makes the packets.
Draw(d) ==
  /\ pc[d] = "idle"
  /\ Unlocked
  /\ clock + 2 * MaxLatency <= MaxTime
  /\ \E v \in Draws, n \in 0..MaxReplays : \E r \in [1..n -> Draws] :
       pending' = [pending EXCEPT ![d] = Copies(d, clock, v, n, r)]
  /\ sentAt' = [sentAt EXCEPT ![d] = clock]
  /\ pc' = [pc EXCEPT ![d] = "drawn"]
  /\ writer' = d
  /\ UNCHANGED <<clock, packets, rpc, deadline, received>>

Waiting == rpc \in {"wait", "timed"}

\* cond_.notify_one(): only the receiver ever waits on cond_.  Mistakes: no
\* notification at all, or only one for a queue that was empty.
FaultNoNotify == UNCHANGED <<rpc, deadline>>
FaultNotifyIfEmpty ==
  /\ rpc' = IF Waiting /\ packets = {} THEN "check" ELSE rpc
  /\ deadline' = IF packets = {} THEN 0 ELSE deadline
Notify ==
  /\ rpc' = IF Waiting THEN "check" ELSE rpc
  /\ deadline' = 0

\* send pushes the packet and its replays, and deliver returns.
Push(d) ==
  /\ pc[d] = "drawn"
  /\ packets' = packets \cup pending[d]
  /\ pending' = [pending EXCEPT ![d] = {}]
  /\ pc' = [pc EXCEPT ![d] = "done"]
  /\ writer' = Nobody
  /\ Notify
  /\ UNCHANGED <<clock, sentAt, received>>

-----------------------------------------------------------------------------
\* The packets that can be on top of the priority queue.
Top == {p \in packets : \A q \in packets : p.arrival <= q.arrival}

\* The guest calls recvfrom.
RecvCall ==
  /\ rpc = "idle"
  /\ rpc' = "check"
  /\ UNCHANGED <<clock, writer, pc, pending, sentAt, packets, deadline, received>>

\* recv finds the queue empty: cond_.wait.
RecvEmpty ==
  /\ rpc = "check"
  /\ packets = {}
  /\ rpc' = "wait"
  /\ UNCHANGED <<clock, writer, pc, pending, sentAt, packets, deadline, received>>

\* The packet on top has not arrived: cond_.wait_until(p.arrival).
RecvEarly ==
  /\ rpc = "check"
  /\ \E p \in Top : p.arrival > clock /\ deadline' = p.arrival
  /\ rpc' = "timed"
  /\ UNCHANGED <<clock, writer, pc, pending, sentAt, packets, received>>

\* packets_.pop().  Mistake: the packet returned stays in the queue.
FaultNotPopped(p) == packets' = packets
Pop(p) == packets' = packets \ {p}

\* recv pops the packet on top and returns it.
RecvTake ==
  /\ rpc = "check"
  /\ \E p \in Top :
       /\ p.arrival <= clock
       /\ Pop(p)
       /\ received' = Append(received, p)
  /\ rpc' = "idle"
  /\ UNCHANGED <<clock, writer, pc, pending, sentAt, deadline>>

\* wait_until returns at its deadline ...
Timeout ==
  /\ rpc = "timed"
  /\ deadline <= clock
  /\ rpc' = "check"
  /\ deadline' = 0
  /\ UNCHANGED <<clock, writer, pc, pending, sentAt, packets, received>>

\* ... and either wait may return for no reason.
Spurious ==
  /\ Waiting
  /\ rpc' = "check"
  /\ deadline' = 0
  /\ UNCHANGED <<clock, writer, pc, pending, sentAt, packets, received>>

Tick ==
  /\ clock < MaxTime
  /\ clock' = clock + 1
  /\ UNCHANGED <<writer, pc, pending, sentAt, packets, rpc, deadline, received>>

RecvRound == RecvEmpty \/ RecvEarly \/ RecvTake

Next ==
  \/ \E d \in Datagrams : Drop(d) \/ Draw(d) \/ Push(d)
  \/ RecvCall
  \/ RecvEmpty \/ RecvEarly \/ RecvTake
  \/ Timeout
  \/ Spurious
  \/ Tick

Spec == Init /\ [][Next]_vars

\* Threads that can run do, time passes, and a wait ends at its deadline.
\* Nothing makes the guest call recvfrom, and nothing ends a wait early.
Fairness ==
  /\ \A d \in Datagrams : WF_vars(Push(d))
  /\ WF_vars(RecvRound)
  /\ WF_vars(Timeout)
  /\ WF_vars(Tick)

FairSpec == Spec /\ Fairness

-----------------------------------------------------------------------------
\* Values stay in range: in particular no packet arrives later than twice the
\* largest latency after it was sent (latency and the replays of send).
TypeOK ==
  /\ clock \in 0..MaxTime
  /\ writer \in Datagrams \cup {Nobody}
  /\ pc \in [Datagrams -> {"idle", "drawn", "done", "dropped"}]
  /\ pending \in [Datagrams -> SUBSET Packet]
  /\ sentAt \in [Datagrams -> 0..MaxTime]
  /\ packets \in SUBSET Packet
  /\ rpc \in {"idle", "check", "wait", "timed"}
  /\ deadline \in 0..MaxTime
  /\ received \in Seq(Packet)

\* No wake-up is lost: recv sleeps without a deadline only while the queue is
\* empty, and with one only while no packet is due before it (the notify_one
\* of send reaches a recv that is waiting for an older, later packet).
NoLostWakeup ==
  /\ rpc = "wait" => packets = {}
  /\ rpc = "timed" => \A p \in packets : deadline <= p.arrival

\* A datagram overtakes only datagrams sent less than the spread of latencies
\* before it.  With min_latency = max_latency the guest receives datagrams in
\* the order of the times at which they were sent.  It depends on deliver
\* holding the socket's mutex from the reading of the clock to the push.
ReorderBounded ==
  \A i, j \in DOMAIN received :
    i < j /\ received[i].copy = 0 /\ received[j].copy = 0 =>
      sentAt[received[i].dgram] <=
        sentAt[received[j].dgram] + (MaxLatency - MinLatency)

\* A guest that is in recvfrom while the queue is not empty gets a datagram.
RecvReturns == (rpc # "idle" /\ packets # {}) ~> (rpc = "idle")

-----------------------------------------------------------------------------
\* The refinement mapping.
CopyOf(p) == <<p.dgram, p.copy>>
Returned == {d \in Datagrams : pc[d] \in {"done", "dropped"}}
Queued == {CopyOf(p) : p \in packets}
Receipts == [i \in DOMAIN received |-> CopyOf(received[i])]

Channel == INSTANCE LossyChannel WITH
  MaxCopies <- MaxReplays + 1,
  sent <- Returned,
  inFlight <- Queued,
  received <- Receipts

\* The socket implements the lossy channel: what recv returns was sent, and
\* each copy made of it by send is returned at most once.
ImplementsChannel == Channel!Spec
=============================================================================
