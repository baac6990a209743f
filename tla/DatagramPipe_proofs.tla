------------------------ MODULE DatagramPipe_proofs -------------------------
(***************************************************************************)
(* Theorems about DatagramPipe, for every set of datagrams, every range of *)
(* latencies and every bound on replays and time.                          *)
(***************************************************************************)
EXTENDS DatagramPipe, TLAPS

\* gen_range returns a value of its half-open interval.
LEMMA SampleRange ==
  ASSUME NEW v \in Nat, NEW first \in Nat, NEW last \in Nat, first < last
  PROVE  SampleUniform(v, first, last) \in first..(last - 1)
  <1>1. PICK w \in Nat : w = last - first /\ w > 0
    OBVIOUS
  <1>2. v % w \in 0..(w - 1)
    BY <1>1
  <1>3. SampleUniform(v, first, last) = first + (v % w)
    BY <1>1 DEF SampleUniform
  <1> QED BY <1>1, <1>2, <1>3

\* net_fault_options::latency stays within the configured range.
LEMMA LatencyRange ==
  ASSUME NEW v \in Nat
  PROVE  Latency(v) \in MinLatency..MaxLatency
  <1>1. PICK last \in Nat : last = MaxLatency + 1 /\ MinLatency < last
    BY LatencyAssumption
  <1>2. SampleUniform(v, MinLatency, last) \in MinLatency..(last - 1)
    BY <1>1, SampleRange, LatencyAssumption
  <1>3. Latency(v) = SampleUniform(v, MinLatency, last)
    BY <1>1 DEF Latency
  <1> QED BY <1>1, <1>2, <1>3, LatencyAssumption

\* What send makes of one datagram: copies of that datagram only, each number
\* once, the original within the range of latencies.
LEMMA CopiesFacts ==
  ASSUME NEW d \in Datagrams, NEW now \in Nat, now + 2 * MaxLatency <= MaxTime,
         NEW v \in Draws, NEW n \in 0..MaxReplays, NEW r \in [1..n -> Draws]
  PROVE  /\ Copies(d, now, v, n, r) \in SUBSET Packet
         /\ \A p \in Copies(d, now, v, n, r) :
              p.dgram = d /\ (p.copy = 0 => p.arrival \in (now + MinLatency)..(now + MaxLatency))
         /\ \A p, q \in Copies(d, now, v, n, r) : p.copy = q.copy => p = q
         /\ {p.copy : p \in Copies(d, now, v, n, r)} = 0..n
  <1> USE LatencyAssumption, MaxReplaysAssumption, MaxTimeAssumption
  <1> DEFINE l == Latency(v)
             s(i) == Latency(r[i])
             C == Copies(d, now, v, n, r)
  <1>1. l \in MinLatency..MaxLatency
    BY LatencyRange, DrawsAssumption
  <1>2. ASSUME NEW i \in 1..n PROVE s(i) \in MinLatency..MaxLatency
    BY LatencyRange, DrawsAssumption
  <1>3. C = {[dgram |-> d, copy |-> 0, arrival |-> now + l]} \cup
            {[dgram |-> d, copy |-> i, arrival |-> now + s(i) * 2] : i \in 1..n}
    BY DEF Copies
  <1> HIDE DEF C, l, s
  <1>4. now + l \in 0..MaxTime /\ \A i \in 1..n : now + s(i) * 2 \in 0..MaxTime
    BY <1>1, <1>2
  <1>5. C \in SUBSET Packet
    BY <1>3, <1>4 DEF Packet
  <1>6. \A p \in C : p.dgram = d /\ (p.copy = 0 => p.arrival \in (now + MinLatency)..(now + MaxLatency))
    BY <1>1, <1>3
  <1>7. \A p, q \in C : p.copy = q.copy => p = q
    BY <1>3
  <1>8. {p.copy : p \in C} = 0..n
    <2>1. ASSUME NEW p \in C PROVE p.copy \in 0..n
      BY <1>3
    <2>2. ASSUME NEW i \in 0..n PROVE \E p \in C : p.copy = i
      <3>1. CASE i = 0
        <4> DEFINE p == [dgram |-> d, copy |-> 0, arrival |-> now + l]
        <4>1. p \in C /\ p.copy = 0
          BY <1>3
        <4> QED BY <3>1, <4>1
      <3>2. CASE i \in 1..n
        <4> DEFINE p == [dgram |-> d, copy |-> i, arrival |-> now + s(i) * 2]
        <4>1. p \in C /\ p.copy = i
          BY <1>3, <3>2
        <4> QED BY <4>1
      <3> QED BY <3>1, <3>2
    <2> QED BY <2>1, <2>2
  <1> QED BY <1>5, <1>6, <1>7, <1>8 DEF C

-----------------------------------------------------------------------------
\* What a step of send that makes packets does.
LEMMA DrawEffect ==
  ASSUME TypeOK, NEW d \in Datagrams, Draw(d)
  PROVE  /\ pending' = [pending EXCEPT ![d] = pending'[d]]
         /\ pending'[d] \in SUBSET Packet
         /\ \A p \in pending'[d] :
              p.dgram = d /\ (p.copy = 0 => p.arrival \in (clock + MinLatency)..(clock + MaxLatency))
         /\ \A p, q \in pending'[d] : p.copy = q.copy => p = q
         /\ \E n \in 0..MaxReplays : {p.copy : p \in pending'[d]} = 0..n
  <1>1. PICK v \in Draws, n \in 0..MaxReplays :
          \E r \in [1..n -> Draws] :
            pending' = [pending EXCEPT ![d] = Copies(d, clock, v, n, r)]
    BY DEF Draw
  <1>2. PICK r \in [1..n -> Draws] :
          pending' = [pending EXCEPT ![d] = Copies(d, clock, v, n, r)]
    BY <1>1
  <1>3. pending'[d] = Copies(d, clock, v, n, r)
    BY <1>2 DEF TypeOK
  <1>4. clock \in Nat /\ clock + 2 * MaxLatency <= MaxTime
    BY MaxTimeAssumption DEF Draw, TypeOK
  <1> DEFINE C == Copies(d, clock, v, n, r)
  <1>5. /\ C \in SUBSET Packet
        /\ \A p \in C :
             p.dgram = d /\ (p.copy = 0 => p.arrival \in (clock + MinLatency)..(clock + MaxLatency))
        /\ \A p, q \in C : p.copy = q.copy => p = q
        /\ {p.copy : p \in C} = 0..n
    BY <1>4, CopiesFacts
  <1> HIDE DEF C
  <1>6. pending'[d] = C /\ pending' = [pending EXCEPT ![d] = C]
    BY <1>2, <1>3 DEF C
  <1> QED BY <1>5, <1>6

\* TypeOK is preserved by every step.
LEMMA TypeStep == TypeOK /\ [Next]_vars => TypeOK'
  <1> SUFFICES ASSUME TypeOK, [Next]_vars PROVE TypeOK'
    OBVIOUS
  <1> USE MaxTimeAssumption
  <1>1. ASSUME NEW d \in Datagrams, Drop(d) PROVE TypeOK'
    BY <1>1 DEF Drop, TypeOK
  <1>2. ASSUME NEW d \in Datagrams, Draw(d) PROVE TypeOK'
    <2>1. pending' \in [Datagrams -> SUBSET Packet]
      BY <1>2, DrawEffect DEF TypeOK
    <2> QED BY <1>2, <2>1 DEF Draw, TypeOK
  <1>3. ASSUME NEW d \in Datagrams, Push(d) PROVE TypeOK'
    BY <1>3 DEF Push, Notify, TypeOK
  <1>4. CASE RecvCall \/ RecvEmpty
    BY <1>4 DEF RecvCall, RecvEmpty, TypeOK
  <1>5. CASE RecvEarly
    <2>1. deadline' \in 0..MaxTime
      BY <1>5 DEF RecvEarly, Top, TypeOK, Packet
    <2> QED BY <1>5, <2>1 DEF RecvEarly, TypeOK
  <1>6. CASE RecvTake
    <2>1. packets' \in SUBSET Packet /\ received' \in Seq(Packet)
      BY <1>6 DEF RecvTake, Pop, Top, TypeOK
    <2> QED BY <1>6, <2>1 DEF RecvTake, TypeOK
  <1>7. CASE Timeout \/ Spurious \/ Tick
    BY <1>7 DEF Timeout, Spurious, Tick, TypeOK
  <1>8. CASE UNCHANGED vars
    BY <1>8 DEF vars, TypeOK
  <1> QED
    BY <1>1, <1>2, <1>3, <1>4, <1>5, <1>6, <1>7, <1>8 DEF Next

\* The state of the socket and of the calls on it is well typed; packets
\* arrive at most twice the largest latency after they are sent.
THEOREM TypeCorrect == Spec => []TypeOK
  <1>1. Init => TypeOK
    BY MaxTimeAssumption DEF Init, TypeOK
  <1> QED BY <1>1, TypeStep, PTL DEF Spec

-----------------------------------------------------------------------------
\* NoLostWakeup is inductive on its own, given types.
LEMMA WakeupStep == TypeOK /\ NoLostWakeup /\ [Next]_vars => NoLostWakeup'
  <1> SUFFICES ASSUME TypeOK, NoLostWakeup, [Next]_vars PROVE NoLostWakeup'
    OBVIOUS
  <1>1. ASSUME NEW d \in Datagrams, Drop(d) \/ Draw(d) PROVE NoLostWakeup'
    BY <1>1 DEF Drop, Draw, NoLostWakeup
  <1>2. ASSUME NEW d \in Datagrams, Push(d) PROVE NoLostWakeup'
    BY <1>2 DEF Push, Notify, Waiting, NoLostWakeup
  <1>3. CASE RecvCall \/ RecvEmpty
    BY <1>3 DEF RecvCall, RecvEmpty, NoLostWakeup
  <1>4. CASE RecvEarly
    BY <1>4 DEF RecvEarly, Top, NoLostWakeup
  <1>5. CASE RecvTake \/ Timeout \/ Spurious
    BY <1>5 DEF RecvTake, Timeout, Spurious, NoLostWakeup
  <1>6. CASE Tick
    BY <1>6 DEF Tick, NoLostWakeup
  <1>7. CASE UNCHANGED vars
    BY <1>7 DEF vars, NoLostWakeup
  <1> QED
    BY <1>1, <1>2, <1>3, <1>4, <1>5, <1>6, <1>7 DEF Next

\* A recv that sleeps has nothing that it should have woken up for.
THEOREM WakeupsNotLost == Spec => []NoLostWakeup
  <1>1. Init => NoLostWakeup
    BY DEF Init, NoLostWakeup
  <1> QED BY <1>1, WakeupStep, TypeCorrect, PTL DEF Spec
-----------------------------------------------------------------------------
\* A packet's copy number and arrival, given when it was sent.
Timely(p, at) ==
  p.copy = 0 => p.arrival \in (at + MinLatency)..(at + MaxLatency)

\* Each copy of a datagram is made once.
AllDistinct(S) == \A p, q \in S : p.dgram = q.dgram /\ p.copy = q.copy => p = q

\* The socket's mutex is held by the one call that has drawn and not pushed.
LockInv == \A d \in Datagrams : pc[d] = "drawn" <=> writer = d

\* What that call is about to push; other calls have nothing pending.
PendingInv ==
  \A d \in Datagrams :
    IF pc[d] = "drawn"
    THEN /\ \A p \in pending[d] : p.dgram = d /\ Timely(p, sentAt[d])
         /\ AllDistinct(pending[d])
         /\ \E n \in 0..MaxReplays : {p.copy : p \in pending[d]} = 0..n
    ELSE pending[d] = {}

\* The queue and the receipts hold packets of calls that have returned.
PacketsInv ==
  /\ \A p \in packets : pc[p.dgram] = "done" /\ Timely(p, sentAt[p.dgram])
  /\ AllDistinct(packets)
  /\ \A i \in DOMAIN received : pc[received[i].dgram] = "done"

\* Calls read the clock in the order in which they hold the mutex.
TimeInv ==
  /\ \A d \in Datagrams : sentAt[d] <= clock
  /\ \A d, e \in Datagrams :
       pc[d] = "drawn" /\ pc[e] = "done" => sentAt[e] <= sentAt[d]

Spread == MaxLatency - MinLatency

\* What is still queued was not sent much before what was received.
OrderInv ==
  \A i \in DOMAIN received : \A q \in packets :
    received[i].copy = 0 /\ q.copy = 0 =>
      sentAt[received[i].dgram] <= sentAt[q.dgram] + Spread

PipeInv ==
  TypeOK /\ LockInv /\ PendingInv /\ PacketsInv /\ TimeInv /\ OrderInv /\ ReorderBounded

\* Every packet, queued or received, is of some datagram.
LEMMA PacketTypes ==
  ASSUME TypeOK
  PROVE  /\ \A p \in packets : p.dgram \in Datagrams /\ sentAt[p.dgram] \in Nat
         /\ \A i \in DOMAIN received :
              received[i].dgram \in Datagrams /\ sentAt[received[i].dgram] \in Nat
  <1>1. \A p \in Packet : p.dgram \in Datagrams
    BY DEF Packet
  <1>2. packets \subseteq Packet /\ \A i \in DOMAIN received : received[i] \in Packet
    BY DEF TypeOK
  <1>3. \A d \in Datagrams : sentAt[d] \in Nat
    BY MaxTimeAssumption DEF TypeOK
  <1> QED BY <1>1, <1>2, <1>3

\* Steps that leave the calls, the queue and the receipts alone.
LEMMA QuietStep ==
  ASSUME PipeInv, TypeOK',
         UNCHANGED <<writer, pc, pending, sentAt, packets, received>>,
         clock' = clock \/ clock' = clock + 1
  PROVE  PipeInv'
  <1>1. (LockInv /\ PendingInv /\ PacketsInv /\ OrderInv /\ ReorderBounded)'
    BY DEF PipeInv, LockInv, PendingInv, PacketsInv, OrderInv, ReorderBounded, AllDistinct, Timely
  <1>2. TimeInv'
    BY MaxTimeAssumption DEF PipeInv, TimeInv, TypeOK
  <1> QED BY <1>1, <1>2 DEF PipeInv

\* send makes the packets: the call's time is the latest so far.
LEMMA DrawStep ==
  ASSUME PipeInv, TypeOK', NEW d \in Datagrams, Draw(d)
  PROVE  PipeInv'
  <1> USE MaxTimeAssumption, LatencyAssumption
  <1>1. /\ pc[d] = "idle" /\ pc' = [pc EXCEPT ![d] = "drawn"]
        /\ writer = Nobody /\ writer' = d
        /\ sentAt' = [sentAt EXCEPT ![d] = clock]
        /\ UNCHANGED <<clock, packets, received>>
    BY DEF Draw, Unlocked
  <1>2. TypeOK
    BY DEF PipeInv
  <1>3. /\ \A e \in Datagrams : pc'[e] = IF e = d THEN "drawn" ELSE pc[e]
        /\ \A e \in Datagrams : sentAt'[e] = IF e = d THEN clock ELSE sentAt[e]
    BY <1>1, <1>2 DEF TypeOK
  <1>4. \A e \in Datagrams : pc[e] # "drawn"
    BY <1>1, NobodyAssumption DEF PipeInv, LockInv
  <1>5. LockInv'
    BY <1>1, <1>3, <1>4 DEF LockInv
  <1>6. PendingInv'
    <2>1. \A e \in Datagrams \ {d} : pending'[e] = pending[e] /\ pending[e] = {}
      BY <1>2, <1>4, DrawEffect DEF PipeInv, PendingInv, TypeOK
    <2>2. /\ \A p \in pending'[d] : p.dgram = d /\ Timely(p, clock)
          /\ AllDistinct(pending'[d])
          /\ \E n \in 0..MaxReplays : {p.copy : p \in pending'[d]} = 0..n
      BY <1>2, DrawEffect DEF AllDistinct, Timely
    <2> QED BY <1>3, <1>4, <2>1, <2>2 DEF PendingInv
  <1>7. /\ \A p \in packets : pc[p.dgram] = "done" /\ p.dgram \in Datagrams /\ p.dgram # d
        /\ \A i \in DOMAIN received :
             received[i].dgram \in Datagrams /\ received[i].dgram # d
    BY <1>1, <1>2, PacketTypes DEF PipeInv, PacketsInv
  <1>8. PacketsInv'
    BY <1>1, <1>3, <1>7 DEF PipeInv, PacketsInv
  <1>9. TimeInv'
    BY <1>1, <1>2, <1>3, <1>4 DEF PipeInv, TimeInv, TypeOK
  <1>10. OrderInv' /\ ReorderBounded'
    BY <1>1, <1>3, <1>7 DEF PipeInv, OrderInv, ReorderBounded
  <1> QED BY <1>5, <1>6, <1>8, <1>9, <1>10 DEF PipeInv

\* send pushes: everything received so far was sent before.
LEMMA PushStep ==
  ASSUME PipeInv, TypeOK', NEW d \in Datagrams, Push(d)
  PROVE  PipeInv'
  <1> USE MaxTimeAssumption, LatencyAssumption
  <1>1. /\ pc[d] = "drawn" /\ pc' = [pc EXCEPT ![d] = "done"]
        /\ writer' = Nobody
        /\ pending' = [pending EXCEPT ![d] = {}]
        /\ packets' = packets \cup pending[d]
        /\ UNCHANGED <<clock, sentAt, received>>
    BY DEF Push
  <1>2. TypeOK
    BY DEF PipeInv
  <1>3. /\ \A e \in Datagrams : pc'[e] = IF e = d THEN "done" ELSE pc[e]
        /\ \A e \in Datagrams : pending'[e] = IF e = d THEN {} ELSE pending[e]
    BY <1>1, <1>2 DEF TypeOK
  <1>4. \A e \in Datagrams : pc'[e] # "drawn"
    BY <1>1, <1>3 DEF PipeInv, LockInv
  <1>5. LockInv'
    BY <1>1, <1>4, NobodyAssumption DEF LockInv
  <1>6. PendingInv'
    BY <1>3, <1>4 DEF PipeInv, PendingInv
  <1>7. \A p \in pending[d] : p.dgram = d /\ Timely(p, sentAt[d])
    BY <1>1 DEF PipeInv, PendingInv
  <1>8. /\ \A p \in packets : p.dgram \in Datagrams /\ p.dgram # d
        /\ \A i \in DOMAIN received :
             received[i].dgram \in Datagrams /\ pc[received[i].dgram] = "done"
    BY <1>1, <1>2, PacketTypes DEF PipeInv, PacketsInv
  <1>9. PacketsInv'
    <2>1. AllDistinct(pending[d]) /\ AllDistinct(packets)
      BY <1>1 DEF PipeInv, PendingInv, PacketsInv
    <2>2. AllDistinct(packets')
      BY <1>1, <1>7, <1>8, <2>1 DEF AllDistinct
    <2>3. \A p \in packets' : pc'[p.dgram] = "done" /\ Timely(p, sentAt'[p.dgram])
      BY <1>1, <1>3, <1>7, <1>8 DEF PipeInv, PacketsInv
    <2> QED BY <1>1, <1>3, <1>8, <2>2, <2>3 DEF PacketsInv
  <1>10. TimeInv'
    BY <1>1, <1>4 DEF PipeInv, TimeInv
  <1>11. OrderInv'
    <2> SUFFICES ASSUME NEW i \in DOMAIN received, NEW q \in packets',
                        received[i].copy = 0, q.copy = 0
                 PROVE  sentAt[received[i].dgram] <= sentAt[q.dgram] + Spread
      BY <1>1 DEF OrderInv
    <2>1. CASE q \in packets
      BY <2>1 DEF PipeInv, OrderInv
    <2>2. CASE q \in pending[d]
      <3>1. q.dgram = d /\ sentAt[received[i].dgram] <= sentAt[d]
        BY <1>1, <1>7, <1>8, <2>2 DEF PipeInv, TimeInv
      <3>2. sentAt[received[i].dgram] \in Nat /\ sentAt[d] \in Nat
        BY <1>2, <1>8 DEF TypeOK
      <3> QED BY <3>1, <3>2 DEF Spread
    <2> QED BY <1>1, <2>1, <2>2
  <1>12. ReorderBounded'
    BY <1>1 DEF PipeInv, ReorderBounded
  <1> QED BY <1>5, <1>6, <1>9, <1>10, <1>11, <1>12 DEF PipeInv

\* recv returns the packet on top: whatever is left arrives no earlier.
LEMMA TakeStep ==
  ASSUME PipeInv, TypeOK', RecvTake
  PROVE  PipeInv'
  <1> USE MaxTimeAssumption, LatencyAssumption
  <1>1. PICK p \in Top : packets' = packets \ {p} /\ received' = Append(received, p)
    BY DEF RecvTake, Pop
  <1>2. UNCHANGED <<clock, writer, pc, pending, sentAt>>
    BY DEF RecvTake
  <1>3. TypeOK
    BY DEF PipeInv
  <1>4. p \in packets /\ \A q \in packets : p.arrival <= q.arrival
    BY DEF Top
  <1> DEFINE m == Len(received)
  <1>5. /\ m \in Nat /\ DOMAIN received = 1..m
        /\ DOMAIN received' = 1..(m + 1)
        /\ received'[m + 1] = p
        /\ \A i \in 1..m : received'[i] = received[i] /\ received[i] \in Packet
    BY <1>1, <1>3 DEF TypeOK
  <1> HIDE DEF m
  <1>6. \A i \in DOMAIN received' : i \in 1..m \/ i = m + 1
    BY <1>5
  <1>7. LockInv' /\ PendingInv' /\ TimeInv'
    BY <1>2 DEF PipeInv, LockInv, PendingInv, TimeInv
  <1>8. PacketsInv'
    <2>1. \A i \in DOMAIN received' : pc[received'[i].dgram] = "done"
      BY <1>4, <1>5, <1>6 DEF PipeInv, PacketsInv
    <2> QED BY <1>1, <1>2, <2>1 DEF PipeInv, PacketsInv, AllDistinct
  <1>9. OrderInv'
    <2> SUFFICES ASSUME NEW i \in DOMAIN received', NEW q \in packets',
                        received'[i].copy = 0, q.copy = 0
                 PROVE  sentAt[received'[i].dgram] <= sentAt[q.dgram] + Spread
      BY <1>2 DEF OrderInv
    <2>1. q \in packets
      BY <1>1
    <2>2. CASE i \in 1..m
      BY <1>5, <2>1, <2>2 DEF PipeInv, OrderInv
    <2>3. CASE i = m + 1
      <3>1. Timely(p, sentAt[p.dgram]) /\ Timely(q, sentAt[q.dgram])
        BY <1>4, <2>1 DEF PipeInv, PacketsInv
      <3>2. p.copy = 0 /\ p.arrival <= q.arrival
        BY <1>4, <1>5, <2>1, <2>3
      <3>3. sentAt[p.dgram] \in Nat /\ sentAt[q.dgram] \in Nat
        BY <1>3, <1>4, <2>1, PacketTypes
      <3>4. sentAt[p.dgram] + MinLatency <= sentAt[q.dgram] + MaxLatency
        BY <3>1, <3>2, <3>3 DEF Timely
      <3> QED BY <1>5, <2>3, <3>3, <3>4 DEF Spread
    <2> QED BY <1>6, <2>2, <2>3
  <1>10. ReorderBounded'
    <2> SUFFICES ASSUME NEW i \in DOMAIN received', NEW j \in DOMAIN received',
                        i < j, received'[i].copy = 0, received'[j].copy = 0
                 PROVE  sentAt[received'[i].dgram] <= sentAt[received'[j].dgram] + Spread
      BY <1>2 DEF ReorderBounded, Spread
    <2>1. i \in 1..m
      BY <1>5
    <2>2. CASE j \in 1..m
      BY <1>5, <2>1, <2>2 DEF PipeInv, ReorderBounded, Spread
    <2>3. CASE j = m + 1
      BY <1>4, <1>5, <2>1, <2>3 DEF PipeInv, OrderInv
    <2> QED BY <1>6, <2>2, <2>3
  <1> QED BY <1>7, <1>8, <1>9, <1>10 DEF PipeInv

\* A datagram that is dropped leaves no trace but its call's return.
LEMMA DropStep ==
  ASSUME PipeInv, TypeOK', NEW d \in Datagrams, Drop(d)
  PROVE  PipeInv'
  <1>1. /\ pc[d] = "idle" /\ pc' = [pc EXCEPT ![d] = "dropped"]
        /\ UNCHANGED <<clock, writer, pending, sentAt, packets, received>>
    BY DEF Drop
  <1>2. TypeOK
    BY DEF PipeInv
  <1>3. \A e \in Datagrams : pc'[e] = IF e = d THEN "dropped" ELSE pc[e]
    BY <1>1, <1>2 DEF TypeOK
  <1>4. LockInv' /\ PendingInv' /\ TimeInv'
    <2>1. LockInv'
      BY <1>1, <1>3 DEF PipeInv, LockInv
    <2>2. PendingInv'
      BY <1>1, <1>3 DEF PipeInv, PendingInv
    <2>3. TimeInv'
      BY <1>1, <1>3 DEF PipeInv, TimeInv
    <2> QED BY <2>1, <2>2, <2>3
  <1>5. PacketsInv'
    <2>1. /\ \A p \in packets : p.dgram \in Datagrams
          /\ \A i \in DOMAIN received : received[i].dgram \in Datagrams
      BY <1>2, PacketTypes
    <2> QED BY <1>1, <1>3, <2>1 DEF PipeInv, PacketsInv
  <1>6. OrderInv' /\ ReorderBounded'
    BY <1>1 DEF PipeInv, OrderInv, ReorderBounded
  <1> QED BY <1>4, <1>5, <1>6 DEF PipeInv

\* The invariant is inductive.
LEMMA PipeInvStep == PipeInv /\ [Next]_vars => PipeInv'
  <1> SUFFICES ASSUME PipeInv, [Next]_vars PROVE PipeInv'
    OBVIOUS
  <1>1. TypeOK'
    BY TypeStep DEF PipeInv
  <1>2. CASE RecvCall \/ RecvEmpty \/ RecvEarly \/ Timeout \/ Spurious \/ Tick \/ UNCHANGED vars
    <2>1. /\ UNCHANGED <<writer, pc, pending, sentAt, packets, received>>
          /\ clock' = clock \/ clock' = clock + 1
      BY <1>2 DEF RecvCall, RecvEmpty, RecvEarly, Timeout, Spurious, Tick, vars
    <2> QED BY <1>1, <2>1, QuietStep
  <1> QED
    BY <1>1, <1>2, DropStep, DrawStep, PushStep, TakeStep DEF Next

\* The invariant holds initially.
LEMMA PipeInvInit == Init => PipeInv
  <1> SUFFICES ASSUME Init PROVE PipeInv
    OBVIOUS
  <1>1. TypeOK
    BY MaxTimeAssumption DEF Init, TypeOK
  <1>2. DOMAIN received = {}
    BY DEF Init
  <1>3. LockInv /\ PendingInv /\ PacketsInv /\ TimeInv
    BY <1>2, NobodyAssumption DEF Init, LockInv, PendingInv, PacketsInv, TimeInv, AllDistinct
  <1> QED BY <1>1, <1>2, <1>3 DEF PipeInv, OrderInv, ReorderBounded

\* A datagram overtakes only datagrams sent less than the spread of latencies
\* before it (deliver's mutex around send).
THEOREM ReorderingBounded == Spec => []ReorderBounded
  <1>1. PipeInv => ReorderBounded
    BY DEF PipeInv
  <1> QED BY <1>1, PipeInvInit, PipeInvStep, PTL DEF Spec
-----------------------------------------------------------------------------
\* The initial state is the channel's.
LEMMA ChannelInit == Init => Channel!Init
  <1> SUFFICES ASSUME Init PROVE Channel!Init
    OBVIOUS
  <1>1. Returned = {} /\ Queued = {}
    BY DEF Init, Returned, Queued
  <1>2. Receipts = <<>>
    BY DEF Init, Receipts
  <1> QED BY <1>1, <1>2 DEF Channel!Init

\* A dropped datagram is sent as no copies.
LEMMA DropSends ==
  ASSUME TypeOK, NEW d \in Datagrams, Drop(d)
  PROVE  Channel!Next
  <1>1. /\ pc[d] = "idle" /\ pc' = [pc EXCEPT ![d] = "dropped"]
        /\ UNCHANGED <<packets, received>>
    BY DEF Drop
  <1>2. d \notin Returned /\ Returned' = Returned \cup {d}
    BY <1>1 DEF TypeOK, Returned
  <1>3. Queued' = Queued /\ Receipts' = Receipts
    BY <1>1 DEF Queued, Receipts
  <1>4. 0 \in 0..(MaxReplays + 1) /\ {d} \X (0..(0 - 1)) = {}
    BY MaxReplaysAssumption
  <1>5. Queued' = Queued \cup ({d} \X (0..(0 - 1)))
    BY <1>3, <1>4
  <1> QED BY <1>2, <1>3, <1>4, <1>5 DEF Channel!Next, Channel!Send

\* A push sends the packet and its replays as copies 0..n of the datagram.
LEMMA PushSends ==
  ASSUME PipeInv, NEW d \in Datagrams, Push(d)
  PROVE  Channel!Next
  <1>1. /\ pc[d] = "drawn" /\ pc' = [pc EXCEPT ![d] = "done"]
        /\ packets' = packets \cup pending[d]
        /\ UNCHANGED received
    BY DEF Push
  <1>2. d \notin Returned /\ Returned' = Returned \cup {d}
    BY <1>1 DEF PipeInv, TypeOK, Returned
  <1>3. Receipts' = Receipts
    BY <1>1 DEF Receipts
  <1>4. PICK n \in 0..MaxReplays :
          /\ {p.copy : p \in pending[d]} = 0..n
          /\ \A p \in pending[d] : p.dgram = d
    BY <1>1 DEF PipeInv, PendingInv
  <1>5. {CopyOf(p) : p \in pending[d]} = {d} \X (0..n)
    BY <1>4 DEF CopyOf
  <1>6. PICK m \in 0..(MaxReplays + 1) : m = n + 1 /\ m - 1 = n
    BY MaxReplaysAssumption
  <1>7. Queued' = Queued \cup ({d} \X (0..(m - 1)))
    BY <1>1, <1>5, <1>6 DEF Queued
  <1> QED BY <1>2, <1>3, <1>6, <1>7 DEF Channel!Next, Channel!Send

\* recv receives the one copy that it takes off the queue.
LEMMA TakeReceives ==
  ASSUME PipeInv, RecvTake
  PROVE  Channel!Next
  <1>1. PICK p \in packets : packets' = packets \ {p} /\ received' = Append(received, p)
    BY DEF RecvTake, Pop, Top
  <1>2. Returned' = Returned
    BY DEF RecvTake, Returned
  <1>3. CopyOf(p) \in Queued
    BY <1>1 DEF Queued
  <1>4. \A q \in packets : CopyOf(q) = CopyOf(p) => q = p
    BY DEF PipeInv, PacketsInv, AllDistinct, CopyOf
  <1>5. Queued' = Queued \ {CopyOf(p)}
    BY <1>1, <1>4 DEF Queued
  <1>6. received \in Seq(Packet)
    BY DEF PipeInv, TypeOK
  <1>7. Receipts' = Append(Receipts, CopyOf(p))
    BY <1>1, <1>6 DEF Receipts
  <1> QED BY <1>2, <1>3, <1>5, <1>7 DEF Channel!Next, Channel!Receive

\* Every step of the socket is a step of the channel or leaves it unchanged.
LEMMA ChannelStep == PipeInv /\ [Next]_vars => [Channel!Next]_(Channel!vars)
  <1> SUFFICES ASSUME PipeInv, [Next]_vars PROVE [Channel!Next]_(Channel!vars)
    OBVIOUS
  <1>1. CASE RecvCall \/ RecvEmpty \/ RecvEarly \/ Timeout \/ Spurious \/ Tick \/ UNCHANGED vars
    <2>1. UNCHANGED <<pc, packets, received>>
      BY <1>1 DEF RecvCall, RecvEmpty, RecvEarly, Timeout, Spurious, Tick, vars
    <2>2. Returned' = Returned /\ Queued' = Queued /\ Receipts' = Receipts
      BY <2>1 DEF Returned, Queued, Receipts
    <2> QED BY <2>2 DEF Channel!vars
  <1>2. ASSUME NEW d \in Datagrams, Draw(d) PROVE UNCHANGED Channel!vars
    <2>1. /\ pc[d] = "idle" /\ pc' = [pc EXCEPT ![d] = "drawn"]
          /\ UNCHANGED <<packets, received>>
      BY <1>2 DEF Draw
    <2>2. Returned' = Returned
      BY <2>1 DEF PipeInv, TypeOK, Returned
    <2>3. Queued' = Queued /\ Receipts' = Receipts
      BY <2>1 DEF Queued, Receipts
    <2> QED BY <2>2, <2>3 DEF Channel!vars
  <1>3. ASSUME NEW d \in Datagrams, Drop(d) PROVE Channel!Next
    BY <1>3, DropSends DEF PipeInv
  <1>4. ASSUME NEW d \in Datagrams, Push(d) PROVE Channel!Next
    BY <1>4, PushSends
  <1>5. CASE RecvTake
    BY <1>5, TakeReceives
  <1> QED
    BY <1>1, <1>2, <1>3, <1>4, <1>5 DEF Next

\* A datagram socket implements the lossy channel.
THEOREM Refinement == Spec => ImplementsChannel
  <1>1. Spec => []PipeInv
    BY PipeInvInit, PipeInvStep, PTL DEF Spec
  <1> QED BY <1>1, ChannelInit, ChannelStep, PTL DEF Spec, ImplementsChannel, Channel!Spec
=============================================================================
