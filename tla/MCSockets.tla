------------------------------ MODULE MCSockets ------------------------------
(* Sockets with bounds for TLC: two paths that parse_addr takes for one       *)
(* another, one so short that what it is taken for depends on the stack, and  *)
(* sockaddrs that parse_addr refuses.                                         *)
EXTENDS Sockets, TLC

Unix(bytes) == [len |-> Len(bytes) + 2, family |-> "unix", bytes |-> bytes]
Inet(bytes) == [Unix(bytes) EXCEPT !.family = "inet"]

MCNames == {Unix(<<1, 1, 3, 0>>), Unix(<<1, 2, 3, 0>>), Unix(<<1, 0>>),
            [Unix(<<>>) EXCEPT !.len = 1], [Unix(<<>>) EXCEPT !.family = "inet6"]}

MCStale == {<<3, 0, 0, 0, 0, 0>>, <<3, 3, 3, 3, 3, 3>>}

\* Paths of up to 4 characters with or without something behind their null,
\* and some addresses of the other family.
MCSamples ==
  {Unix(bytes) : bytes \in UNION {[1..k -> 0..2] : k \in 0..5}}
  \cup {Inet(<<0, p, 1, a, 0, 1>> \o rest) : p, a \in 1..2, rest \in {<<>>, <<0, 0>>}}

\* The family of a datagram socket makes no difference to what it does.
MCSorts == {
  [kind |-> "dgram", af |-> "unix"],
  [kind |-> "stream", af |-> "unix"],
  [kind |-> "stream", af |-> "inet"]}

MCSymmetry == Permutations(Replicas)
=============================================================================
