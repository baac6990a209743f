---------------------------- MODULE LossyChannel ----------------------------
(***************************************************************************)
(* What a datagram socket promises to the guests that send to it and to    *)
(* the guest that receives from it, with time, locks and waiting left out: *)
(* a datagram that is sent becomes a number of copies, none if it is       *)
(* dropped, and each copy is received at most once, in any order.          *)
(***************************************************************************)
EXTENDS Integers, Sequences

CONSTANTS
  Datagrams,   \* the datagrams sent, each by one call
  MaxCopies    \* bound on the copies of one datagram

VARIABLES
  sent,       \* datagrams whose send has returned
  inFlight,   \* copies sent and not received, <<datagram, number>>
  received    \* copies received, in order of receipt

vars == <<sent, inFlight, received>>

Init ==
  /\ sent = {}
  /\ inFlight = {}
  /\ received = <<>>

Send(d) ==
  /\ d \notin sent
  /\ sent' = sent \cup {d}
  /\ \E n \in 0..MaxCopies : inFlight' = inFlight \cup ({d} \X (0..(n - 1)))
  /\ UNCHANGED received

Receive ==
  \E c \in inFlight :
    /\ inFlight' = inFlight \ {c}
    /\ received' = Append(received, c)
    /\ UNCHANGED sent

Next == (\E d \in Datagrams : Send(d)) \/ Receive

Spec == Init /\ [][Next]_vars
=============================================================================
