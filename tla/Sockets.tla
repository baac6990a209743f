------------------------------ MODULE Sockets -------------------------------
(***************************************************************************)
(* The sockets of all replicas: the hooks of the socket calls (socket,     *)
(* close, bind, connect, sendto, recvfrom, read, write), each replica's    *)
(* file descriptor table, and the network, which maps addresses to weak    *)
(* pointers to sockets.                                                    *)
(*                                                                         *)
(* A socket is owned by shared pointers: one in the table of the replica   *)
(* that opened it, and one in each sendto that has looked its address up   *)
(* and not yet delivered.  It is destroyed when the last of them goes, and *)
(* the network's weak pointer expires.  No hook tells the network that a   *)
(* socket was closed (network::clear is not called).                       *)
(*                                                                         *)
(* The hooks of one replica run in its one tracer thread, one after the    *)
(* other.  A hook is one step where it uses what other threads see once;   *)
(* sendto is two, since it holds its target while it reads the guest's     *)
(* memory, and recvfrom two, since it waits.  A guest that dies makes no   *)
(* more calls and leaves its table, and so its sockets and addresses, as   *)
(* they are; a hook that is running goes on.  For the model it is like one *)
(* that idles.  A socket's inbound queue is the channel that               *)
(* DatagramPipe implements: it drops, copies and reorders.                 *)
(***************************************************************************)
EXTENDS FdTableOps, SockAddr

CONSTANTS
  Replicas,     \* the machines' replicas
  Names,        \* sockaddrs that guests pass
  Stale,        \* what the stack may hold behind them
  Samples,      \* sockaddrs to check parse_addr with
  Sorts,        \* types and address families of the sockets guests open
  MaxSockets,   \* bound: sockets created
  MaxSends,     \* bound: datagrams sent
  MaxCopies     \* bound: copies of a datagram, 1 + replay_count

ASSUME NamesAssumption ==
  \A name \in Names \cup Samples :
    /\ name.len \in Nat /\ name.bytes \in Seq(Nat)
    /\ name.len >= 2 => Len(name.bytes) = name.len - 2
ASSUME StaleAssumption == \A stale \in Stale : stale \in Seq(Nat) /\ Len(stale) >= 6
ASSUME SortsAssumption ==
  \A sort \in Sorts : sort.kind \in {"dgram", "stream"} /\ sort = [kind |-> sort.kind, af |-> sort.af]
ASSUME NoSocketAssumption == NoObject \notin Nat
ASSUME BoundsAssumption == MaxSockets \in Nat /\ MaxSends \in Nat /\ MaxCopies \in Nat

VARIABLES
  table,       \* file_descriptor_table::table_ of each replica
  unused,      \* file_descriptor_table::unused_ of each replica
  sockets,     \* the sockets ever created, in order
  destroyed,   \* those that no longer exist
  map,         \* network::map_, NoObject for an address without an entry
  inbox,       \* datagram_socket::inbound_
  call,        \* the hook that each replica is in
  open,        \* each guest's view: socket it has open |-> descriptor
  sends,       \* datagrams sent so far
  got          \* what guests received, and which open socket they did it from

vars == <<table, unused, sockets, destroyed, map, inbox, call, open, sends, got>>

SocketIds == 1..MaxSockets

\* What parse_addr can make of the sockaddrs.
Parsed == {ParseAddr(name, stale) : name \in Names, stale \in Stale}
Addrs == Parsed \ {BadAddr}

Message == [id : 1..MaxSends, addr : Addrs]

NotInCall == [at |-> "guest", sock |-> NoObject, msg |-> {}, fd |-> 0]

Init ==
  /\ table = [r \in Replicas |-> <<>>]
  /\ unused = [r \in Replicas |-> <<>>]
  /\ sockets = <<>>
  /\ destroyed = {}
  /\ map = [a \in Addrs |-> NoObject]
  /\ inbox = <<>>
  /\ call = [r \in Replicas |-> NotInCall]
  /\ open = [r \in Replicas |-> <<>>]
  /\ sends = 0
  /\ got = {}

-----------------------------------------------------------------------------
\* network::get locks the weak pointer that it has for a.
Get(a) ==
  IF a \in Addrs /\ map[a] \notin destroyed THEN map[a] ELSE NoObject

\* dynamic_pointer_cast.  Mistake: static_pointer_cast.
FaultNotCast(s, kind) == s # NoObject
Is(s, kind) == s # NoObject /\ sockets[s].kind = kind

\* The sendto calls that hold a shared pointer to s.
Holders(s) == {r \in Replicas : call[r].at = "deliver" /\ call[r].sock = s}

Opened(s) == \E r \in Replicas : s \in Range(table[r])

\* Descriptors that the guest of r was handed: its sockets', open or closed.
Handed(r) == DOMAIN table[r] \cup Range(unused[r])

\* The guest of r is not in a call and makes one with descriptor fd, that
\* the hook looks up.
Calls(r) == call[r].at = "guest"
LooksUp(r, fd) == Calls(r) /\ table' = [table EXCEPT ![r] = AfterGet(@, fd)]

-----------------------------------------------------------------------------
\* sys_socket.  On EMFILE the new socket is destroyed at once.
Socket(r, sort) ==
  LET s == Len(sockets) + 1
      full == IsFull(table[r], unused[r])
  IN /\ Calls(r)
     /\ Len(sockets) < MaxSockets
     /\ sockets' = Append(sockets, [kind |-> sort.kind, af |-> sort.af, bound |-> {}, peer |-> NoObject])
     /\ inbox' = Append(inbox, {})
     /\ destroyed' = IF full THEN destroyed \cup {s} ELSE destroyed
     /\ table' = IF full THEN table
                 ELSE [table EXCEPT ![r] = AfterInsertTable(@, unused[r], s)]
     /\ unused' = IF full THEN unused
                  ELSE [unused EXCEPT ![r] = AfterInsertUnused(@)]
     /\ open' = IF full THEN open
                ELSE [open EXCEPT ![r] = Put(@, s, InsertFd(table[r], unused[r]))]
     /\ UNCHANGED <<map, call, sends, got>>

\* A shared pointer to s goes, and with the last one s.  Others are those of
\* the sendto calls left and, if inTable, the table's.  Mistake: the calls do
\* not count.
FaultHoldersIgnored(s, inTable, left) == IF inTable THEN {} ELSE {s}
Dropped(s, inTable, left) == IF inTable \/ left # {} THEN {} ELSE {s}

\* sys_close of a descriptor that has a socket.
Close(r, fd) ==
  LET s == Slot(table[r], fd)
  IN /\ Calls(r)
     /\ CanClose(table[r], fd)
     /\ table' = [table EXCEPT ![r] = AfterCloseTable(@, fd)]
     /\ unused' = [unused EXCEPT ![r] = AfterCloseUnused(@, fd)]
     /\ destroyed' = destroyed \cup Dropped(s, FALSE, Holders(s))
     /\ open' = [open EXCEPT ![r] = Restrict(@, {h \in DOMAIN @ : @[h] # fd})]
     /\ UNCHANGED <<sockets, map, inbox, call, sends, got>>

\* sys_read and sys_write: EBADF, or EINVAL from the base class.
ReadWrite(r, fd) ==
  /\ LooksUp(r, fd)
  /\ UNCHANGED <<unused, sockets, destroyed, map, inbox, call, open, sends, got>>

\* network::bind refuses an address whose socket exists, be it the same one.
\* Mistake: it does not.
FaultAlwaysFree(a) == TRUE
Free(a) == Get(a) = NoObject

\* sys_bind: EBADF, a bad address, EADDRNOTAVAIL, or success.
Bind(r, fd, a) ==
  LET s == Slot(table[r], fd)
  IN /\ LooksUp(r, fd)
     /\ IF s # NoObject /\ a \in Addrs /\ Free(a)
        THEN /\ map' = [map EXCEPT ![a] = s]
             /\ sockets' = [sockets EXCEPT ![s].bound = @ \cup {a}]
        ELSE UNCHANGED <<map, sockets>>
     /\ UNCHANGED <<unused, destroyed, inbox, call, open, sends, got>>

\* stream_socket::connect.
SameFamily(s, p) == sockets[s].af = sockets[p].af

\* sys_connect: a bad address, EBADF, ECONNREFUSED, EOPNOTSUPP, EAFNOSUPPORT,
\* or success, which sets peer_, a weak pointer.  No socket is listening.
Connect(r, fd, a) ==
  LET s == Slot(table[r], fd)
      p == Get(a)
  IN /\ IF a \in Addrs THEN LooksUp(r, fd) ELSE Calls(r) /\ UNCHANGED table
     /\ sockets' = IF Is(s, "stream") /\ Is(p, "stream") /\ SameFamily(s, p)
                   THEN [sockets EXCEPT ![s].peer = p]
                   ELSE sockets
     /\ UNCHANGED <<unused, destroyed, map, inbox, call, open, sends, got>>

\* sys_sendto: a bad address, EBADF, ENOTSOCK, EHOSTUNREACH, ECONNREFUSED, or
\* it holds the target ...
Sendto(r, fd, a) ==
  LET s == Slot(table[r], fd)
      t == Get(a)
  IN /\ sends < MaxSends
     /\ IF a \in Addrs THEN LooksUp(r, fd) ELSE Calls(r) /\ UNCHANGED table
     /\ IF Is(s, "dgram") /\ Is(t, "dgram")
        THEN /\ call' = [call EXCEPT ![r] = [NotInCall EXCEPT
                  !.at = "deliver", !.sock = t, !.msg = {[id |-> sends + 1, addr |-> a]}]]
             /\ sends' = sends + 1
        ELSE UNCHANGED <<call, sends>>
     /\ UNCHANGED <<unused, sockets, destroyed, map, inbox, open, got>>

\* ... reads the guest's memory, and delivers to the target: its queue takes
\* copies of the datagram, or none.  Then sendto returns, and if its pointer
\* was the last the target is destroyed, with all that it has queued.
Deliver(r) ==
  LET t == call[r].sock
      gone == Dropped(t, Opened(t), Holders(t) \ {r})
  IN /\ call[r].at = "deliver"
     /\ \E n \in 0..MaxCopies :
          inbox' = [inbox EXCEPT ![t] =
                      IF gone = {} THEN @ \cup (call[r].msg \X (1..n)) ELSE {}]
     /\ destroyed' = destroyed \cup gone
     /\ call' = [call EXCEPT ![r] = NotInCall]
     /\ UNCHANGED <<table, unused, sockets, map, open, sends, got>>

\* sys_recvfrom: EBADF, ENOTSOCK, or it waits ...
Recvfrom(r, fd) ==
  LET s == Slot(table[r], fd)
  IN /\ LooksUp(r, fd)
     /\ IF Is(s, "dgram")
        THEN call' = [call EXCEPT ![r] = [NotInCall EXCEPT !.at = "recv", !.sock = s, !.fd = fd]]
        ELSE UNCHANGED call
     /\ UNCHANGED <<unused, sockets, destroyed, map, inbox, open, sends, got>>

\* ... for the queue to return a datagram.
RecvReturns(r) ==
  LET s == call[r].sock
  IN /\ call[r].at = "recv"
     /\ \E mc \in inbox[s] :
          /\ inbox' = [inbox EXCEPT ![s] = @ \ {mc}]
          /\ got' = got \cup {<<h, mc[1]>> : h \in
                              {h \in DOMAIN open[r] : open[r][h] = call[r].fd}}
     /\ call' = [call EXCEPT ![r] = NotInCall]
     /\ UNCHANGED <<table, unused, sockets, destroyed, map, open, sends>>

Next ==
  \E r \in Replicas :
    \/ \E sort \in Sorts : Socket(r, sort)
    \/ \E fd \in Handed(r) :
         \/ Close(r, fd) \/ ReadWrite(r, fd) \/ Recvfrom(r, fd)
         \/ \E a \in Parsed :
              Bind(r, fd, a) \/ Connect(r, fd, a) \/ Sendto(r, fd, a)
    \/ Deliver(r) \/ RecvReturns(r)

Spec == Init /\ [][Next]_vars

-----------------------------------------------------------------------------
\* Values stay in range (the state of the replicas, the network and hooks), and
\* sockets meet their own kind: datagrams are queued at datagram sockets, and a
\* connected socket and its peer are streams of one address family, the peer
\* having been bound (send_to, sys_connect and stream_socket::connect).
TypeOK ==
  /\ \A r \in Replicas :
       /\ DOMAIN table[r] \subseteq Nat
       /\ Range(table[r]) \subseteq SocketIds \cup {NoObject}
       /\ unused[r] \in Seq(Nat)
       /\ DOMAIN open[r] \subseteq SocketIds
       /\ Range(open[r]) \subseteq Nat
  /\ \A s \in DOMAIN sockets :
       /\ [kind |-> sockets[s].kind, af |-> sockets[s].af] \in Sorts
       /\ sockets[s].bound \subseteq Addrs
       /\ inbox[s] # {} => sockets[s].kind = "dgram"
       /\ LET p == sockets[s].peer
          IN p # NoObject =>
               /\ p \in DOMAIN sockets /\ SameFamily(s, p)
               /\ sockets[s].kind = "stream" /\ sockets[p].kind = "stream"
               /\ sockets[p].bound # {}
  /\ Len(sockets) <= MaxSockets
  /\ destroyed \subseteq DOMAIN sockets
  /\ map \in [Addrs -> DOMAIN sockets \cup {NoObject}]
  /\ DOMAIN inbox = DOMAIN sockets
  /\ \A s \in DOMAIN inbox : inbox[s] \subseteq Message \X (1..MaxCopies)
  /\ call \in [Replicas -> [at : {"guest", "deliver", "recv"},
                            sock : DOMAIN sockets \cup {NoObject},
                            msg : SUBSET Message, fd : Nat]]
  /\ sends \in 0..MaxSends
  /\ got \subseteq (DOMAIN sockets) \X Message

\* A socket exists exactly as long as a descriptor or a running call refers to
\* it: no hook uses a destroyed socket, whoever closes it meanwhile, and no
\* socket stays when the last sendto to a closed one has returned (the shared
\* pointers of the tables and of send_to).
DestroyedWhenUnreferenced ==
  \A s \in DOMAIN sockets :
    s \in destroyed <=>
      ~Opened(s) /\ \A r \in Replicas : call[r].sock # s

\* As long as a guest has a socket open, each address that it bound it to
\* leads there: nobody else can bind it (network::bind and get).
BoundAddressReaches ==
  \A r \in Replicas : \A h \in DOMAIN open[r] : \A a \in sockets[h].bound : Get(a) = h

\* A guest receives from a descriptor only datagrams sent to an address that
\* it bound the socket to which it opened as that descriptor.  Descriptors and
\* addresses are reused while datagrams for their former sockets are under way
\* (sys_sendto, sys_recvfrom and the descriptor table).
ReceivedByBinder ==
  \A hm \in got : hm[2].addr \in sockets[hm[1]].bound

\* Two sockaddrs as programs make them lead to the same socket exactly if
\* they are the same address and port, or the same path but for its first two
\* characters, whatever the stack held when each was parsed (parse_addr).  This
\* is about no variable: its first line has TLC evaluate it in the initial
\* state only.
NamesApart ==
  sockets = <<>> => \A m, name \in {name \in Samples : Proper(name)} : \A s, t \in Stale :
    (ParseAddr(m, s) = ParseAddr(name, t)) <=> SameName(m, name)

=============================================================================
