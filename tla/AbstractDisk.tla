---------------------------- MODULE AbstractDisk ----------------------------
(***************************************************************************)
(* What an open file of a block device promises: the device is a row of    *)
(* bytes, the file has a position in it, a transfer moves the bytes at the *)
(* position and advances it, and nothing outside the part of the disk that *)
(* the file was opened on is touched.  A transfer moves several chunks and *)
(* may stop after any of them; whatever made it stop, the position is then *)
(* the byte behind the last chunk that was moved.  How the row is cut into *)
(* blocks shows in one place only: a write whose block cannot be read      *)
(* first leaves zeroes in the rest of that block.                          *)
(***************************************************************************)
EXTENDS Integers, Sequences

CONSTANTS
  Blk,      \* bytes of a block
  Size,     \* bytes of the disk
  Byte,     \* the values a byte takes
  Files     \* file objects

VARIABLES
  bytes,    \* the disk's contents
  at,       \* the position of each file, counted from the start of the disk
  window,   \* the part of the disk a file may touch: first byte, one past the last
  out,      \* what the last chunk delivered
  busy      \* the file a transfer is under way on, if any

diskvars == <<bytes, at, window, out, busy>>

DiskInit ==
  /\ bytes \in [0..(Size - 1) -> Byte]
  /\ at = [f \in Files |-> 0]
  /\ window = [f \in Files |-> <<0, 0>>]
  /\ out = <<>>
  /\ busy = {}

\* A file is opened on some part of the disk, at its start, or closed.
Open(f) ==
  /\ busy = {} /\ busy' = {}
  /\ window' = [window EXCEPT ![f] = window'[f]]
  /\ at' = [at EXCEPT ![f] = window'[f][1]]
  /\ out' = <<>>
  /\ UNCHANGED bytes

\* A file is moved, forwards or backwards, but not to before its part of the disk.
Seek(f) ==
  /\ busy = {} /\ busy' = {}
  /\ at' = [at EXCEPT ![f] = at'[f]] /\ at'[f] >= window[f][1]
  /\ out' = <<>>
  /\ UNCHANGED <<bytes, window>>

\* A transfer begins, or stops; or a call that has nothing to do with the disk.
Turn ==
  /\ busy = {} \/ busy' = {}
  /\ busy' = {} \/ \E f \in Files : busy' = {f}
  /\ out' = <<>>
  /\ UNCHANGED <<bytes, at, window>>

\* The transfer on f goes on after this chunk, or was its last.
Under(f) == busy = {f} /\ (busy' = busy \/ busy' = {})

Within(f, n) == window[f][1] <= at[f] /\ at[f] + n <= window[f][2]

Get(f, n) ==
  /\ Under(f) /\ Within(f, n)
  /\ out' = [i \in 1..n |-> bytes[at[f] + i - 1]]
  /\ at' = [at EXCEPT ![f] = @ + n]
  /\ UNCHANGED <<bytes, window>>

Put(f, n, v) ==
  /\ Under(f) /\ Within(f, n)
  /\ \E rest \in {[i \in DOMAIN bytes |-> bytes[i]],
                  [i \in DOMAIN bytes |-> IF i \div Blk = at[f] \div Blk THEN 0 ELSE bytes[i]]} :
       bytes' = [i \in DOMAIN bytes |-> IF i \in at[f]..(at[f] + n - 1) THEN v ELSE rest[i]]
  /\ at' = [at EXCEPT ![f] = @ + n]
  /\ out' = <<>>
  /\ UNCHANGED window

DiskNext ==
  \/ Turn
  \/ \E f \in Files :
       \/ Open(f) \/ Seek(f)
       \/ \E n \in 1..Blk : Get(f, n)
       \/ \E n \in 1..Blk, v \in Byte : Put(f, n, v)

DiskSpec == DiskInit /\ [][DiskNext]_diskvars
=============================================================================
