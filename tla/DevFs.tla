------------------------------- MODULE DevFs -------------------------------
(***************************************************************************)
(* /dev: the registry of devices (DevFS/DevFS.c), the files open on them   *)
(* and the stream of bytes that a block device shows, with the disk and    *)
(* partition shims of BlocksDevs/BlockDev.c and the character bus of       *)
(* CharsDevs/Bus.c below it.                                               *)
(*                                                                         *)
(* The calls arrive through the VFS, which holds VfsLock around each, so   *)
(* calls do not overlap; a transfer of several blocks is one step per      *)
(* block because each block can fail on its own.  A driver may answer any  *)
(* transfer with an error.  The bytes of one write are alike: what the     *)
(* properties tell apart is which bytes change.                            *)
(***************************************************************************)
EXTENDS Integers, Sequences, FiniteSets, SequencesExt, FiniteSetsExt

CONSTANTS
  Blk,          \* BlockSize
  TotalBlocks,  \* blocks of the disk
  Byte,         \* the values a byte takes, 0 among them
  Lens,         \* the lengths callers pass
  Offsets,      \* the offsets callers pass to lseek
  MaxPos,       \* bound on the file offset
  MaxDevices,   \* __MaxDevices__
  Names,        \* the names a device may have
  Removable,    \* the devices that callers of DevFsUnregisterDevice name
  Files,        \* File objects
  NoFile,       \* the file object is not in use
  NoCall        \* no transfer is under way

Records == [Name : Names, Type : {"char", "block"}, Start : Nat, Blocks : Nat]

\* What drivers register: a partition lies on its disk, which nothing here checks.
Devices == {d \in Records : d.Start + d.Blocks <= TotalBlocks}

ASSUME DevFsAssumption ==
  /\ Blk \in Nat \ {0} /\ TotalBlocks \in Nat \ {0} /\ MaxDevices \in Nat
  /\ {"null", "zero", "tty1"} \subseteq Names
  /\ 0 \in Byte /\ Lens \subseteq Nat \ {0} /\ Offsets \subseteq Int
  /\ NoFile \notin [entry : [dev : Records, owner : Nat], Lba : Nat, Off : Nat, Pos : Nat]
  /\ NoCall \notin [f : Files, op : {"read", "write"}, left : Nat, total : Nat, val : Byte]

VARIABLES
  DevTable,     \* __DevTable__[0 .. __DevCount__ - 1]
  file,         \* File and DevFsFileCtx of every open file
  call,         \* the read or write of a block device that is under way
  bytes,        \* the contents of the disk
  out,          \* what the last round of a read has put into the caller's buffer
  loaded,       \* the owners of devices whose code is mapped: the kernel and modules
  down          \* a call went through freed memory or unmapped code

devvars == <<DevTable, file, call, bytes, out, loaded, down>>

-----------------------------------------------------------------------------
(* The registry *)

\* A character device has no blocks; a partition starts at Start on its parent disk.
CharDevice(n) == [Name |-> n, Type |-> "char", Start |-> 0, Blocks |-> 0]
BlockDisk(n) == [Name |-> n, Type |-> "block", Start |-> 0, Blocks |-> TotalBlocks]
BlockPart(n, s, b) == [Name |-> n, Type |-> "block", Start |-> s, Blocks |-> b]

KernelOwner == 0

Entry(d, o) == [dev |-> d, owner |-> o]

dev_find(tab, n) == \E i \in DOMAIN tab : tab[i].dev.Name = n

\* DevFsRegisterCharDevice and DevFsRegisterBlockDevice with memory for the
\* entry: the table that results.  Without memory it stays as it is.
Register(tab, d, o) ==
  IF Len(tab) >= MaxDevices \/ dev_find(tab, d.Name) THEN tab ELSE Append(tab, Entry(d, o))

DevFsRegisterSeedDevices ==
  Register(Register(<<>>, CharDevice("null"), KernelOwner), CharDevice("zero"), KernelOwner)

DevInit ==
  /\ DevTable = DevFsRegisterSeedDevices
  /\ file = [f \in Files |-> NoFile]
  /\ call = NoCall
  /\ bytes \in {[i \in 0..(TotalBlocks * Blk - 1) |-> 0]}
  /\ out = <<>>
  /\ loaded = {KernelOwner}
  /\ down = FALSE

Idle == ~down /\ call = NoCall

\* The first entry of that name goes and those behind it move down.
DevFsUnregisterDevice(n) ==
  /\ Idle
  /\ \E i \in DOMAIN DevTable :
       /\ DevTable[i].dev.Name = n /\ \A j \in 1..(i - 1) : DevTable[j].dev.Name # n
       /\ DevTable' = RemoveAt(DevTable, i)
  /\ out' = <<>>
  /\ UNCHANGED <<file, call, bytes, loaded, down>>

-----------------------------------------------------------------------------
(* Files.  A file keeps a pointer to the entry it was opened on.  If the   *)
(* entry was freed since, its memory still holds the device or is somebody *)
(* else's by now; a call into a module that was removed always faults,     *)
(* because ModMem never hands out an address twice (KMods).                *)

Open(f) == file[f] # NoFile
Freed(f) == file[f].entry \notin Range(DevTable)
CodeOf(f) == file[f].entry.owner \in loaded
Dev(f) == file[f].entry.dev
IsBlock(f) == Dev(f).Type = "block"

Fault(f) ==
  /\ Idle /\ Open(f) /\ (Freed(f) \/ ~CodeOf(f))
  /\ down' = TRUE
  /\ out' = <<>>
  /\ UNCHANGED <<DevTable, file, call, bytes, loaded>>

\* An operation of the device is reached: its code is there.
Reaches(f) == Idle /\ Open(f) /\ CodeOf(f)

\* DevVfsLookup and DevVfsOpen.  The device's own Open may refuse, which changes nothing here.
DevVfsOpen(f, n) ==
  /\ Idle /\ ~Open(f)
  /\ \E i \in DOMAIN DevTable :
       /\ DevTable[i].dev.Name = n
       /\ IF DevTable[i].owner \in loaded
          THEN file' = [file EXCEPT ![f] = [entry |-> DevTable[i], Lba |-> 0, Off |-> 0, Pos |-> 0]]
               /\ UNCHANGED down
          ELSE down' = TRUE /\ UNCHANGED file
  /\ out' = <<>>
  /\ UNCHANGED <<DevTable, call, bytes, loaded>>

DevVfsClose(f) ==
  /\ Reaches(f)
  /\ file' = [file EXCEPT ![f] = NoFile]
  /\ out' = <<>>
  /\ UNCHANGED <<DevTable, call, bytes, loaded, down>>

\* DevVfsIoctl down to TtyIoctl: command 1 registers one more terminal of the
\* same driver, if there is memory for it.
DevVfsIoctl(f, d) ==
  /\ Reaches(f) /\ Dev(f).Name = "tty0"
  /\ DevTable' \in {DevTable, Register(DevTable, d, file[f].entry.owner)}
  /\ out' = <<>>
  /\ UNCHANGED <<file, call, bytes, loaded, down>>

\* What a character device answers to a transfer of n bytes.
CharAnswers(f, op, n) ==
  CASE Dev(f).Name = "null" /\ op = "read" -> {0}
    [] Dev(f).Name \in {"null", "zero"} -> {n}
    [] OTHER -> {0, n}

\* DevVfsRead and DevVfsWrite of a character device.  The file offset is
\* advanced here and once more by VfsRead and VfsWrite.
CharTransfer(f, op, n) ==
  /\ Reaches(f) /\ ~IsBlock(f) /\ file[f].Pos + 2 * n <= MaxPos
  /\ \E got \in CharAnswers(f, op, n) : file' = [file EXCEPT ![f].Pos = @ + 2 * got]
  /\ out' = <<>>
  /\ UNCHANGED <<DevTable, call, bytes, loaded, down>>

-----------------------------------------------------------------------------
(* Block devices as streams *)

BlockTransfer(f, op, n, v) ==
  /\ Reaches(f) /\ IsBlock(f) /\ file[f].Pos + 2 * n <= MaxPos
  /\ call' = [f |-> f, op |-> op, left |-> n, total |-> 0, val |-> v]
  /\ out' = <<>>
  /\ UNCHANGED <<DevTable, file, bytes, loaded, down>>

\* Bytes of the current block that this round of the loop moves.
Chunk(c) == Min({c.left, Blk - file[c.f].Off})

\* BlkDiskReadBlocks, BlkPartReadBlocks and the two for writing: whether the
\* block exists, and where on the disk it lies.
BlockExists(d, lba) == lba < d.Blocks
DiskLba(d, lba) == d.Start + lba

Here(c) == DiskLba(Dev(c.f), file[c.f].Lba) * Blk
InRange(c) == BlockExists(Dev(c.f), file[c.f].Lba)

\* FC->Offset and FC->Lba after n bytes.
Advance(fl, n) ==
  IF fl.Off + n >= Blk THEN [fl EXCEPT !.Off = 0, !.Lba = @ + 1] ELSE [fl EXCEPT !.Off = @ + n]

\* The call returns: the file offset moves by what DevVfsRead or DevVfsWrite
\* added and by what VfsRead or VfsWrite adds on top.
Return(c, fl, moved) ==
  /\ file' = [file EXCEPT ![c.f] = [fl EXCEPT !.Pos = @ + moved]]
  /\ call' = NoCall

\* One round went well.
Continue(c) ==
  LET n == Chunk(c)
      rest == [c EXCEPT !.left = @ - n, !.total = @ + n]
  IN IF rest.left = 0
     THEN Return(rest, Advance(file[c.f], n), 2 * rest.total)
     ELSE /\ file' = [file EXCEPT ![c.f] = Advance(@, n)]
          /\ call' = rest

\* No memory for the block's buffer: the early return skips File->Offset += Total.
BufferFails ==
  /\ call # NoCall
  /\ Return(call, file[call.f], call.total)
  /\ out' = <<>>
  /\ UNCHANGED <<DevTable, bytes, loaded, down>>

\* The cursor moved on before the driver's answer was looked at.
TransferFails_Moved ==
  /\ call # NoCall
  /\ Return(call, Advance(file[call.f], Chunk(call)), 2 * call.total)
  /\ out' = <<>>
  /\ UNCHANGED <<DevTable, bytes, loaded, down>>

\* The block is not there or the driver fails: the loop is left.
TransferFails ==
  /\ call # NoCall
  /\ Return(call, file[call.f], 2 * call.total)
  /\ out' = <<>>
  /\ UNCHANGED <<DevTable, bytes, loaded, down>>

ReadBlock ==
  /\ call # NoCall /\ call.op = "read" /\ InRange(call)
  /\ out' = [i \in 1..Chunk(call) |-> bytes[Here(call) + file[call.f].Off + i - 1]]
  /\ Continue(call)
  /\ UNCHANGED <<DevTable, bytes, loaded, down>>

\* The block that is written back: the old one, or zeroes if it could not be
\* read, with the caller's bytes laid over it.
Patched(c, old) ==
  [i \in 0..(Blk - 1) |->
     IF i \in file[c.f].Off..(file[c.f].Off + Chunk(c) - 1) THEN c.val ELSE old[i]]

WriteBlock ==
  /\ call # NoCall /\ call.op = "write" /\ InRange(call)
  /\ \E old \in {[i \in 0..(Blk - 1) |-> bytes[Here(call) + i]], [i \in 0..(Blk - 1) |-> 0]} :
       bytes' = [b \in DOMAIN bytes |->
                   IF b \in Here(call)..(Here(call) + Blk - 1)
                   THEN Patched(call, old)[b - Here(call)] ELSE bytes[b]]
  /\ Continue(call)
  /\ out' = <<>>
  /\ UNCHANGED <<DevTable, loaded, down>>

\* DevVfsLseek; the end of a block device is taken to be its next block boundary.
SeekBase(f, whence) ==
  CASE whence = "set" -> 0
    [] whence = "cur" -> file[f].Pos
    [] whence = "end" -> file[f].Pos - (file[f].Pos % Blk) + Blk

DevVfsLseek(f, off, whence) ==
  /\ Idle /\ Open(f) /\ (whence = "end" => IsBlock(f))
  /\ LET new == Max({0, SeekBase(f, whence) + off})
     IN /\ new <= MaxPos
        /\ file' = [file EXCEPT ![f] =
             IF IsBlock(f) THEN [@ EXCEPT !.Pos = new, !.Lba = new \div Blk, !.Off = new % Blk]
                           ELSE [@ EXCEPT !.Pos = new, !.Off = new]]
  /\ out' = <<>>
  /\ UNCHANGED <<DevTable, call, bytes, loaded, down>>

FileStep(f) ==
  \/ Fault(f)
  \/ \E i \in DOMAIN DevTable : DevVfsOpen(f, DevTable[i].dev.Name)
  \/ DevVfsClose(f)
  \/ DevVfsIoctl(f, CharDevice("tty1"))
  \/ \E n \in Lens, op \in {"read", "write"} : CharTransfer(f, op, n)
  \/ \E n \in Lens : BlockTransfer(f, "read", n, 0)
  \/ \E n \in Lens, v \in Byte : BlockTransfer(f, "write", n, v)
  \/ \E o \in Offsets, w \in {"set", "cur", "end"} : DevVfsLseek(f, o, w)

DevNext ==
  \/ \E f \in Files : FileStep(f)
  \/ \E n \in Removable : DevFsUnregisterDevice(n)
  \/ BufferFails \/ TransferFails \/ ReadBlock \/ WriteBlock

-----------------------------------------------------------------------------
\* A file of a character device has no place on the disk.
OnDisk(f) == Open(f) /\ IsBlock(f)

Place(f) == IF OnDisk(f) THEN (Dev(f).Start + file[f].Lba) * Blk + file[f].Off ELSE 0

Window(f) ==
  IF OnDisk(f) THEN <<Dev(f).Start * Blk, (Dev(f).Start + Dev(f).Blocks) * Blk>> ELSE <<0, 0>>

InTransfer == {f \in Files : call # NoCall /\ call.f = f}

Stream == INSTANCE AbstractDisk WITH
  Size <- TotalBlocks * Blk,
  at <- [f \in Files |-> Place(f)],
  window <- [f \in Files |-> Window(f)],
  busy <- InTransfer

(***************************************************************************)
(* DevVfsRead and DevVfsWrite show a disk, or a partition, as a stream of  *)
(* bytes: across block boundaries, seeks, short transfers and failing      *)
(* buffers a file delivers the bytes at its position, changes only those   *)
(* (or zeroes the rest of a block it could not read), and a partition's    *)
(* file never leaves the partition.  A transfer that fails in any round    *)
(* leaves FC->Lba and FC->Offset together at the first byte not moved.     *)
(***************************************************************************)
ImplementsStream == Stream!DiskSpec
=============================================================================
