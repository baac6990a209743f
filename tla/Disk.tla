-------------------------------- MODULE Disk --------------------------------
(***************************************************************************)
(* One simulated file (disk::disk_file) and the open files that use it     *)
(* (disk::open_file).  An open file that is not direct keeps its writes in *)
(* a backlog; fsync, and every read, first writes the backlog to the file. *)
(*                                                                         *)
(* The methods of one open file exclude each other by its mutex.  The file *)
(* has a mutex of its own, which each access takes anew: between two       *)
(* writes of a backlog, and before the read that follows them, other open  *)
(* files get at the file.  So a method is one step per access to the file. *)
(* get_size does not take that mutex: when another open file is in an      *)
(* access, what it returns is undefined.                                   *)
(*                                                                         *)
(* buffer_.resize may throw, in a direct write or between two entries of a *)
(* backlog, which then is not cleared.  Nothing catches the exception: the *)
(* program ends, as the specification allows it to at any point.           *)
(*                                                                         *)
(* Nothing in the sources makes an open_file yet.  The model starts with   *)
(* any number of open files, direct or not, at position 0 of an empty      *)
(* file.                                                                   *)
(***************************************************************************)
EXTENDS FileOps, SequencesExt

CONSTANTS
  Openers,     \* open files
  MaxWrites    \* bound: write calls

ASSUME MaxWritesAssumption == MaxWrites \in Nat

VARIABLES
  users,       \* the open files that use the file
  direct,      \* those of them with direct_ set
  writes,      \* how many write calls there were
  buffer,      \* disk_file::buffer_
  backlog,     \* open_file::write_backlog_
  pos,         \* open_file::pos_
  op,          \* the method that each open file is in
  result,      \* what its last method returned
  acked,       \* how many of its writes have returned
  applied      \* the order in which its writes came to disk_file::write

vars == <<users, direct, writes, buffer, backlog, pos, op, result, acked, applied>>

\* A method that begins; next is the entry of the backlog that a flush has come
\* to.
Method(at, then, off, n, bytes, moves) ==
  [at |-> at, then |-> then, next |-> 1, off |-> off, n |-> n, bytes |-> bytes,
   moves |-> moves]
Idle == Method("idle", "none", 0, 0, <<>>, FALSE)

\* A write, numbered among those of o.
Req(o, off, bytes) == [pos |-> off, bytes |-> bytes, number |-> acked[o] + 1]

Init ==
  /\ users \in SUBSET Openers \ {{}}
  /\ direct \in SUBSET users
  /\ writes = 0
  /\ buffer = <<>>
  /\ backlog = [o \in Openers |-> <<>>]
  /\ pos = [o \in Openers |-> 0]
  /\ op = [o \in Openers |-> Idle]
  /\ result = [o \in Openers |-> Returned(0, <<>>)]
  /\ acked = [o \in Openers |-> 0]
  /\ applied = [o \in Openers |-> <<>>]

-----------------------------------------------------------------------------
\* write and read move pos_ by what they return; pwrite and pread do not.
Finish(o, res, moves) ==
  /\ UNCHANGED <<users, direct>>
  /\ result' = [result EXCEPT ![o] = res]
  /\ pos' = [pos EXCEPT ![o] =
               IF res.ok /\ moves THEN (@ + res.n) % Modulus ELSE @]

\* disk_file::write, which a position past the limit leaves without effect ...
Written(bytes, req) ==
  IF CanWrite(req.pos) THEN WriteAt(bytes, req.pos, req.bytes) ELSE bytes

\* ... of what o wrote.
Apply(o, req) ==
  /\ buffer' = Written(buffer, req)
  /\ applied' = [applied EXCEPT ![o] = Append(@, req.number)]

Ack(o) == acked' = [acked EXCEPT ![o] = @ + 1]

\* write and pwrite of an open file that is not direct: a new backlog entry.
\* The file's refusal comes too late to be returned.
WriteBuffered(o, off, bytes, moves) ==
  /\ op[o].at = "idle" /\ o \notin direct
  /\ writes < MaxWrites /\ writes' = writes + 1
  /\ backlog' = [backlog EXCEPT ![o] = Append(@, Req(o, off, bytes))]
  /\ Ack(o)
  /\ Finish(o, Returned(Len(bytes), <<>>), moves)
  /\ UNCHANGED <<buffer, op, applied>>

\* write and pwrite of a direct one.
WriteDirect(o, off, bytes, moves) ==
  /\ op[o].at = "idle" /\ o \in direct
  /\ writes < MaxWrites /\ writes' = writes + 1
  /\ op' = [op EXCEPT ![o] = Method("direct", "none", off, 0, bytes, moves)]
  /\ UNCHANGED <<users, direct, buffer, backlog, pos, result, acked, applied>>

WriteThrough(o) ==
  LET off == op[o].off
      bytes == op[o].bytes
  IN /\ op[o].at = "direct"
     /\ Apply(o, Req(o, off, bytes))
     /\ Ack(o)
     /\ Finish(o, IF CanWrite(off) THEN Returned(Len(bytes), <<>>) ELSE Einval, op[o].moves)
     /\ op' = [op EXCEPT ![o] = Idle]
     /\ UNCHANGED <<writes, backlog>>

\* fsync, read and pread begin: a flush, then the end of the method.
Start(o, then, off, n, moves) ==
  /\ op[o].at = "idle"
  /\ op' = [op EXCEPT ![o] = Method("flush", then, off, n, <<>>, moves)]
  /\ UNCHANGED <<users, direct, writes, buffer, backlog, pos, result, acked, applied>>

\* fsync_unlocked: the next entry of the backlog.
FlushOne(o) ==
  /\ op[o].at = "flush" /\ op[o].next <= Len(backlog[o])
  /\ Apply(o, backlog[o][op[o].next])
  /\ op' = [op EXCEPT ![o].next = @ + 1]
  /\ UNCHANGED <<users, direct, writes, backlog, pos, result, acked>>

\* write_backlog_.clear().  Mistake: the entries stay.
FaultNotCleared(o) == UNCHANGED backlog
Clear(o) == backlog' = [backlog EXCEPT ![o] = <<>>]

\* The flush is over.  Mistake: it is as soon as it has begun.
FaultNoFlush(o) == op[o].at = "flush"
Flushed(o) == op[o].at = "flush" /\ op[o].next > Len(backlog[o])

FsyncReturns(o) ==
  /\ Flushed(o) /\ op[o].then = "fsync"
  /\ Clear(o)
  /\ Finish(o, Returned(0, <<>>), FALSE)
  /\ op' = [op EXCEPT ![o] = Idle]
  /\ UNCHANGED <<writes, buffer, acked, applied>>

ReadReturns(o) ==
  LET bytes == ReadAt(buffer, op[o].off, op[o].n)
  IN /\ Flushed(o) /\ op[o].then = "read"
     /\ Clear(o)
     /\ Finish(o, IF CanRead(buffer, op[o].off)
                  THEN Returned(Len(bytes), bytes) ELSE Einval, op[o].moves)
     /\ op' = [op EXCEPT ![o] = Idle]
     /\ UNCHANGED <<writes, buffer, acked, applied>>

\* disk_file::get_size.
Sizes(o) ==
  {Len(buffer)} \cup
  (IF \E p \in users \ {o} : op[p].at # "idle" THEN 0..(Modulus - 1) ELSE {})

\* lseek: SEEK_SET, SEEK_CUR, SEEK_END, or another whence.
Lseek(o, off) ==
  /\ op[o].at = "idle"
  /\ \/ \E base \in {0, pos[o]} \cup Sizes(o) :
          /\ pos' = [pos EXCEPT ![o] = (base + off) % Modulus]
          /\ result' = [result EXCEPT ![o] = Returned((base + off) % Modulus, <<>>)]
     \/ pos' = pos /\ result' = [result EXCEPT ![o] = Einval]
  /\ UNCHANGED <<users, direct, writes, buffer, backlog, op, acked, applied>>

\* The offset of a call: that of pwrite and pread, or pos_ for write and read.
Call(o, off, moves) == moves => off = pos[o]

Next ==
  \E o \in users :
    \/ \E off \in 0..(Modulus - 1), moves \in BOOLEAN :
         /\ Call(o, off, moves)
         /\ \/ \E bytes \in Data :
                 WriteBuffered(o, off, bytes, moves) \/ WriteDirect(o, off, bytes, moves)
            \/ \E n \in 0..MaxLen : Start(o, "read", off, n, moves)
    \/ Start(o, "fsync", 0, 0, FALSE)
    \/ WriteThrough(o) \/ FlushOne(o) \/ FsyncReturns(o) \/ ReadReturns(o)
    \/ \E off \in 0..(Modulus - 1) : Lseek(o, off)

Spec == Init /\ [][Next]_vars

-----------------------------------------------------------------------------
Reqs == [pos : 0..(Modulus - 1), bytes : Data, number : 1..MaxWrites]

\* Values stay in range; the file never grows past the largest position and
\* one write (the members of disk_file and open_file).
TypeOK ==
  /\ users \subseteq Openers /\ direct \subseteq users /\ writes \in 0..MaxWrites
  /\ buffer \in Seq(Bytes) /\ Len(buffer) < MaxFile + MaxLen
  /\ backlog \in [Openers -> Seq(Reqs)]
  /\ pos \in [Openers -> 0..(Modulus - 1)]
  /\ acked \in [Openers -> 0..MaxWrites]
  /\ \A o \in Openers :
       /\ op[o].at \in {"idle", "direct", "flush"}
       /\ op[o].next \in 1..(Len(backlog[o]) + 1)
       /\ result[o].ok \in BOOLEAN /\ result[o].bytes \in Seq(Bytes)
  /\ applied \in [Openers -> Seq(1..MaxWrites)]

\* The writes of o that have yet to reach the file.
Waiting(o) == SubSeq(backlog[o], op[o].next, Len(backlog[o]))

\* Each write that has returned reaches the file once and in the order of its
\* open file, though backlogs are written entry by entry and in between other
\* open files read and write (pwrite_unlocked, fsync_unlocked).
OnceAndInOrder ==
  \A o \in Openers :
    LET coming == Waiting(o)
    IN applied[o] \o [i \in DOMAIN coming |-> coming[i].number] = [i \in 1..acked[o] |-> i]

-----------------------------------------------------------------------------
\* An open file that no other competes with implements File, direct or not.
\* Its contents are the file's with the backlog written to it.  Where there
\* are several, nothing is claimed: the mapping stays at File's start.
Alone == \E o \in Openers : users = {o}
User == CHOOSE o \in users : TRUE

WriteAll(bytes, reqs) == FoldLeft(Written, bytes, reqs)

Content == IF Alone THEN WriteAll(buffer, Waiting(User)) ELSE <<>>

AbstractFile == INSTANCE File WITH
  content <- Content,
  pos <- IF Alone THEN pos[User] ELSE 0,
  result <- IF Alone THEN result[User] ELSE Returned(0, <<>>)

\* A single open file behaves like a file whose writes take effect at once
\* (write, read, pwrite, pread, lseek and fsync of open_file).
ImplementsFile == AbstractFile!Spec
=============================================================================
