------------------------------ MODULE MCKMods ------------------------------
(* An instance of KMods for TLC: a block driver, the terminal and a file    *)
(* without module_init.                                                     *)
EXTENDS KMods, TLC

MCMods == {"blk", "tty", "lib"}

MCOffsets == {-1, 1}

MCSeq0 == [m \in MCMods |-> CASE m = "blk" -> 2 [] m = "tty" -> 1 [] OTHER -> -1]

Text(n) == [text |-> TRUE, pages |-> n, bss |-> FALSE]
Bss(n) == [text |-> FALSE, pages |-> n, bss |-> TRUE]

MCSections == [m \in MCMods |->
  CASE m = "blk" -> <<Text(1), Bss(2)>>
    [] m = "tty" -> <<Text(2)>>
    [] OTHER -> <<Text(1)>>]

\* The partition is the second block of the disk.
MCRegisters == [m \in MCMods |->
  CASE m = "blk" -> <<BlockDisk("sda"), BlockPart("sda1", 1, 1)>>
    [] m = "tty" -> <<CharDevice("tty0")>>
    [] OTHER -> <<>>]

=============================================================================
