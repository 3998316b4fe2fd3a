---------------------------- MODULE AbstractPipe ----------------------------
(* What a pipe promises: a bounded queue of bytes that gives out what was  *)
(* put in, in order, and takes and gives as much as fits without waiting.  *)
EXTENDS Naturals, Sequences

CONSTANTS
  Cap,     \* how many bytes the pipe holds
  Chunks,  \* what writers write
  Closed   \* no pipe

VARIABLES
  queue,   \* the bytes in the pipe, or Closed
  got      \* what the last read returned

Least(a, b) == IF a < b THEN a ELSE b

Init == queue = Closed /\ got = << >>

Open == queue = Closed /\ queue' = << >> /\ UNCHANGED got

Write(d) ==
  /\ queue # Closed
  /\ queue' = queue \o SubSeq(d, 1, Least(Len(d), Cap - Len(queue)))
  /\ UNCHANGED got

Read(n) ==
  /\ queue # Closed
  /\ got' = SubSeq(queue, 1, Least(n, Len(queue)))
  /\ queue' = SubSeq(queue, Least(n, Len(queue)) + 1, Len(queue))

Close == queue # Closed /\ queue' = Closed /\ UNCHANGED got

Next ==
  \/ Open
  \/ Close
  \/ \E d \in Chunks : Write(d)
  \/ \E n \in 0..Cap : Read(n)

Spec == Init /\ [][Next]_<<queue, got>>

=============================================================================
