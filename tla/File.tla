-------------------------------- MODULE File --------------------------------
(***************************************************************************)
(* What an open file promises the one who uses it alone: a sequence of     *)
(* bytes and a position, where a write takes effect at once and a read     *)
(* returns what was written last, however the implementation delays the    *)
(* writes.  Two things are weaker than one might expect: a write past the  *)
(* largest file size may be acknowledged and have no effect, and a seek    *)
(* relative to the end may take some earlier end for the end.              *)
(***************************************************************************)
EXTENDS FileOps

VARIABLES
  content,    \* the bytes
  pos,        \* the position
  result      \* what the last call returned

vars == <<content, pos, result>>

\* A call that works at the position moves it by what it did; one that is
\* given an offset leaves it alone.
Moves(off, n) ==
  \/ off = pos /\ pos' = (pos + n) % Modulus
  \/ pos' = pos

Init == content = <<>> /\ pos = 0 /\ result = Returned(0, <<>>)

Write(off, data) ==
  \/ /\ CanWrite(off)
     /\ content' = WriteAt(content, off, data)
     /\ result' = Returned(Len(data), <<>>)
     /\ Moves(off, Len(data))
  \/ /\ ~CanWrite(off)
     /\ \/ result' = Returned(Len(data), <<>>) /\ Moves(off, Len(data))
        \/ result' = Einval /\ pos' = pos
     /\ content' = content

Read(off, n) ==
  /\ IF CanRead(content, off)
     THEN LET bytes == ReadAt(content, off, n)
          IN result' = Returned(Len(bytes), bytes) /\ Moves(off, Len(bytes))
     ELSE result' = Einval /\ pos' = pos
  /\ content' = content

Seek(off) ==
  /\ \/ /\ \E base \in {0, pos} \cup 0..Len(content) : pos' = (base + off) % Modulus
        /\ result' = Returned(pos', <<>>)
     \/ pos' = pos /\ result' = Einval
  /\ content' = content

Sync == result' = Returned(0, <<>>) /\ UNCHANGED <<content, pos>>

Next ==
  \/ \E off \in 0..(Modulus - 1) :
       \/ \E data \in Data : Write(off, data)
       \/ \E n \in 0..MaxLen : Read(off, n)
       \/ Seek(off)
  \/ Sync

Spec == Init /\ [][Next]_vars
=============================================================================
