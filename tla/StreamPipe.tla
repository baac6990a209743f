----------------------------- MODULE StreamPipe -----------------------------
(***************************************************************************)
(* A stream socket's buffer: stream_socket::send, called by the tracer     *)
(* threads of the replicas whose sockets are connected to it, and          *)
(* stream_socket::recv, called by the tracer thread of the replica that    *)
(* owns it, with the guests' memories that they read and write.            *)
(*                                                                         *)
(* Both hold the socket's mutex_ while they copy: a sender reads its       *)
(* guest's memory word by word and then pushes byte after byte, a receiver *)
(* pops byte after byte and then writes its guest's memory.  A guest may   *)
(* be killed at any point; the copying goes on and nobody notices.         *)
(*                                                                         *)
(* A sender refers to the socket by a weak pointer, and by a shared one    *)
(* from where send begins; it uses the pointer without a test.             *)
(***************************************************************************)
EXTENDS GuestMemory, FiniteSets

CONSTANTS
  Sends,      \* the calls of send
  Size,       \* how many bytes each is to send
  Room,       \* how many are mapped in its guest, from the first byte on
  Receiver,   \* the receiving guest, or its tracer
  Asked,      \* how many bytes a recv may ask for
  Space,      \* how many bytes the receiving guest has, from its buffer on
  Old,        \* what they are at first
  Nobody      \* mutex_ is free

ASSUME SizeAssumption ==
  /\ Size \in [Sends -> Nat] /\ Room \in [Sends -> Nat]
  /\ \A s \in Sends : Size[s] <= Room[s]
ASSUME ReceiverAssumption ==
  Receiver \notin Sends /\ Nobody \notin Sends \cup {Receiver}
ASSUME AskedAssumption == Asked \subseteq Nat /\ Space \in Nat

VARIABLES
  open,       \* the socket's owner has not closed it
  mutex,      \* stream_socket::mutex_, who holds it
  pc,         \* where each send is
  buf,        \* send's buf
  pushed,     \* how many bytes of it the loop has pushed
  buffer,     \* stream_socket::buffer_
  rpc,        \* where recv is; "idle": not called
  n,          \* bytes, then n of recv
  tmp,        \* tmp of recv
  received,   \* what the calls of recv that have returned took
  memory,     \* the receiving guest's memory
  dead,       \* guests that have ended
  crashed     \* send has used a null pointer

vars == <<open, mutex, pc, buf, pushed, buffer, rpc, n, tmp, received, memory, dead, crashed>>
sending == <<pc, buf, pushed>>
receiving == <<rpc, n, tmp, received, memory>>

Init ==
  /\ open = TRUE
  /\ mutex = Nobody
  /\ pc = [s \in Sends |-> "idle"]
  /\ buf = [s \in Sends |-> <<>>]
  /\ pushed = [s \in Sends |-> 0]
  /\ buffer = <<>>
  /\ rpc = "idle"
  /\ n = 0
  /\ tmp = <<>>
  /\ received = <<>>
  /\ memory = [a \in 1..Space |-> Old]
  /\ dead = {}
  /\ crashed = FALSE

-----------------------------------------------------------------------------
\* The memory of the guest that sends s.
SenderMemory(s) == IF s \in dead THEN <<>> ELSE [a \in 1..Room[s] |-> <<s, a>>]

\* The socket exists for its owner and for the sends that have locked peer_.
Exists == open \/ \E s \in Sends : pc[s] \in {"held", "read", "push"}

Goes(s, to) == pc' = [pc EXCEPT ![s] = to]

\* send: peer_.lock(), and the first use of what it returns.
SendCall(s) ==
  /\ pc[s] = "idle" /\ s \notin dead
  /\ IF Exists THEN Goes(s, "held") /\ UNCHANGED crashed
               ELSE crashed' = TRUE /\ UNCHANGED pc
  /\ UNCHANGED <<open, mutex, buf, pushed, buffer, receiving, dead>>

\* send locks the mutex.  Mistake: it does not.
FaultNotLocked == TRUE
Unlocked == mutex = Nobody

SendLocks(s) ==
  /\ pc[s] = "held"
  /\ Unlocked
  /\ mutex' = s
  /\ Goes(s, "read")
  /\ UNCHANGED <<open, buf, pushed, buffer, receiving, dead, crashed>>

\* read_data_callback: one word, or the end of the loop.
SendReads(s) ==
  LET k == Len(buf[s]) \div WordSize + 1
  IN /\ pc[s] = "read"
     /\ IF Len(buf[s]) < Size[s]
        THEN /\ buf' = [buf EXCEPT ![s] = @ \o ReadWord(SenderMemory(s), 1, Size[s], k)]
             /\ UNCHANGED pc
        ELSE Goes(s, "push") /\ UNCHANGED buf
     /\ UNCHANGED <<open, mutex, pushed, buffer, receiving, dead, crashed>>

SendPushes(s) ==
  /\ pc[s] = "push"
  /\ pushed[s] < Len(buf[s])
  /\ buffer' = Append(buffer, buf[s][pushed[s] + 1])
  /\ pushed' = [pushed EXCEPT ![s] = @ + 1]
  /\ UNCHANGED <<open, mutex, pc, buf, receiving, dead, crashed>>

\* cond_.notify_all().  Mistake: there is none.
FaultNoNotify == rpc
Notified == IF rpc = "wait" THEN "ready" ELSE rpc

\* send notifies, unlocks the mutex and returns.
SendReturn(s) ==
  /\ pc[s] = "push"
  /\ pushed[s] = Len(buf[s])
  /\ rpc' = Notified
  /\ mutex' = Nobody
  /\ Goes(s, "done")
  /\ UNCHANGED <<open, buf, pushed, buffer, n, tmp, received, memory, dead, crashed>>

-----------------------------------------------------------------------------
\* The receiving guest asks for bytes, to be put after those that it has.
RecvCall(bytes) ==
  /\ open /\ rpc = "idle" /\ Receiver \notin dead
  /\ rpc' = "ready"
  /\ n' = bytes
  /\ UNCHANGED <<open, mutex, sending, buffer, tmp, received, memory, dead, crashed>>

\* cond_.wait(lock) unlocks the mutex.  Mistake: it does not.
FaultKeepsLock == Receiver
AfterWait == Nobody

\* recv locks the mutex, at its beginning or when it wakes up.  It waits if
\* there is nothing; otherwise n is the number of bytes to take.
RecvRound ==
  /\ rpc = "ready"
  /\ Unlocked
  /\ IF buffer = <<>>
     THEN rpc' = "wait" /\ mutex' = AfterWait /\ UNCHANGED n
     ELSE /\ rpc' = "pop"
          /\ mutex' = Receiver
          /\ n' = IF n < Len(buffer) THEN n ELSE Len(buffer)
  /\ UNCHANGED <<open, sending, buffer, tmp, received, memory, dead, crashed>>

\* A condition variable may wake up by itself.
Spurious ==
  /\ rpc = "wait"
  /\ rpc' = "ready"
  /\ UNCHANGED <<open, mutex, sending, buffer, n, tmp, received, memory, dead, crashed>>

RecvPops ==
  /\ rpc = "pop"
  /\ Len(tmp) < n
  /\ tmp' = Append(tmp, Head(buffer))
  /\ buffer' = Tail(buffer)
  /\ UNCHANGED <<open, mutex, sending, rpc, n, received, memory, dead, crashed>>

\* write_data_callback; then recv unlocks the mutex and returns n.
RecvReturn ==
  /\ rpc = "pop"
  /\ Len(tmp) = n
  /\ memory' = WriteMemory(memory, Len(received) + 1, tmp)
  /\ received' = received \o tmp
  /\ tmp' = <<>>
  /\ n' = 0
  /\ rpc' = "idle"
  /\ mutex' = Nobody
  /\ UNCHANGED <<open, sending, buffer, dead, crashed>>

-----------------------------------------------------------------------------
\* The receiving guest closes its socket.
Close ==
  /\ open /\ rpc = "idle" /\ Receiver \notin dead
  /\ open' = FALSE
  /\ UNCHANGED <<mutex, sending, buffer, receiving, dead, crashed>>

\* A guest is killed, and its memory is gone.
Killed(g) ==
  /\ g \notin dead
  /\ dead' = dead \cup {g}
  /\ memory' = IF g = Receiver THEN <<>> ELSE memory
  /\ UNCHANGED <<open, mutex, sending, buffer, rpc, n, tmp, received, crashed>>

SendStep(s) == SendReads(s) \/ SendPushes(s) \/ SendReturn(s)

RecvStep == RecvPops \/ RecvReturn

Next ==
  /\ ~crashed
  /\ \/ \E s \in Sends : SendCall(s) \/ SendLocks(s) \/ SendStep(s)
     \/ \E bytes \in Asked : RecvCall(bytes)
     \/ RecvRound \/ Spurious \/ RecvStep
     \/ Close
     \/ \E g \in Sends \cup {Receiver} : Killed(g)

Spec == Init /\ [][Next]_vars

\* A thread that can run does, and one that waits for the mutex gets it if it
\* is free again and again; guests need not call, and need not die.
Fairness ==
  /\ \A s \in Sends :
       SF_vars(~crashed /\ SendLocks(s)) /\ WF_vars(~crashed /\ SendStep(s))
  /\ SF_vars(~crashed /\ RecvRound)
  /\ WF_vars(~crashed /\ RecvStep)

FairSpec == Spec /\ Fairness

-----------------------------------------------------------------------------
Bytes == (Sends \X Nat) \cup {AllOnes}

\* Values stay in range (the members of stream_socket and the calls' locals).
TypeOK ==
  /\ open \in BOOLEAN /\ crashed \in BOOLEAN
  /\ mutex \in Sends \cup {Receiver, Nobody}
  /\ pc \in [Sends -> {"idle", "held", "read", "push", "done"}]
  /\ buf \in [Sends -> Seq(Bytes)]
  /\ \A s \in Sends : Len(buf[s]) <= Size[s]
  /\ pushed \in [Sends -> Nat]
  /\ buffer \in Seq(Bytes) /\ tmp \in Seq(Bytes) /\ received \in Seq(Bytes)
  /\ rpc \in {"idle", "ready", "wait", "pop"}
  /\ n \in Nat
  /\ Range(memory) \subseteq Bytes \cup {Old}
  /\ dead \subseteq Sends \cup {Receiver}

\* The receiver does not sleep while there are bytes, but for the time that a
\* sender which has pushed some of them still holds the mutex (the wait in
\* recv and notify_all in send).
NoLostWakeup ==
  rpc = "wait" /\ buffer # <<>> => mutex \in Sends /\ pc[mutex] = "push"

\* The word that byte i of send s is read with lies within what is mapped.
WordMapped(s, i) == Words(i) * WordSize <= Room[s]

\* A send passes on its guest's bytes, in their order.  A byte is replaced by
\* one of ones only if the guest was killed, or if the word that the byte is
\* read with goes beyond what the guest has mapped, though the byte does not
\* (read_memory, which reports no error).
SentAsRead ==
  \A s \in Sends : \A i \in DOMAIN buf[s] :
    \/ buf[s][i] = <<s, i>>
    \/ buf[s][i] = AllOnes /\ (s \in dead \/ ~WordMapped(s, i))

\* A guest that is alive has in its memory what its calls of recv returned,
\* one after the other, and what lies behind is as it was: but for bytes that
\* share a word with unmapped ones (write_memory, which restores the rest of
\* the last word).
ReceivedIntact ==
  Receiver \notin dead =>
    \A a \in 1..Space :
      \/ memory[a] = IF a <= Len(received) THEN received[a] ELSE Old
      \/ a > Len(received) /\ a > Space - WordSize /\ memory[a] = AllOnes

\* The calls, with their locks and loops, implement a stream.  What a send has
\* pushed joins it when the send returns, what a recv has popped leaves it when
\* the recv returns.
Partial == IF mutex \in Sends THEN pushed[mutex] ELSE 0
Stream == INSTANCE ByteStream WITH
  sent <- {s \in Sends : pc[s] = "done"},
  stream <- tmp \o SubSeq(buffer, 1, Len(buffer) - Partial),
  received <- received
ImplementsStream == Stream!Spec

\* A send that found its peer returns, whatever the others do: whoever is
\* killed, and though the peer is closed meanwhile.  Another send, later, that
\* finds its peer gone is the end of the program.  A recv returns when there is
\* something for it; there is no end of the stream, and it waits for ever when
\* there is nothing (send, recv and the mutex that both hold).
CallsReturn ==
  /\ \A s \in Sends : pc[s] = "held" ~> (pc[s] = "done" \/ crashed)
  /\ (rpc # "idle" /\ buffer # <<>>) ~> (rpc = "idle" \/ crashed)
=============================================================================
