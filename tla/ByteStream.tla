----------------------------- MODULE ByteStream -----------------------------
(***************************************************************************)
(* What a stream socket promises: the bytes of a send follow each other in *)
(* the stream, whoever else sends, and the receiver takes bytes from its   *)
(* front, each once and in order.  A sender that dies on the way sends the *)
(* first part of its bytes and as many bytes of ones as are missing.       *)
(***************************************************************************)
EXTENDS Integers, Sequences

CONSTANTS
  Sends,     \* the calls of send
  Size,      \* the number of bytes of each
  AllOnes    \* a byte that was not the sender's

VARIABLES
  sent,       \* calls that have returned
  stream,     \* bytes sent and not received
  received    \* bytes received

vars == <<sent, stream, received>>

Init ==
  /\ sent = {}
  /\ stream = <<>>
  /\ received = <<>>

Block(s, n) == [i \in 1..Size[s] |-> IF i <= n THEN <<s, i>> ELSE AllOnes]

Send(s) ==
  /\ s \notin sent
  /\ sent' = sent \cup {s}
  /\ \E n \in 0..Size[s] : stream' = stream \o Block(s, n)
  /\ UNCHANGED received

Receive ==
  \E n \in 1..Len(stream) :
    /\ received' = received \o SubSeq(stream, 1, n)
    /\ stream' = SubSeq(stream, n + 1, Len(stream))
    /\ UNCHANGED sent

Next == (\E s \in Sends : Send(s)) \/ Receive

Spec == Init /\ [][Next]_vars
=============================================================================
