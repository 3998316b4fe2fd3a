------------------------------- MODULE MCPmm -------------------------------
(* Memory maps for model checking Pmm: pages of two bytes, words of eight  *)
(* bits.                                                                   *)
EXTENDS Pmm

Entry(b, l, t) == [base |-> b, length |-> l, type |-> t]

\* Two usable regions around a kernel image, an unaligned reserved tail, and
\* a bitmap that spills into a second word.
SplitMap == << Entry(0, 4, "other"), Entry(4, 8, "usable"), Entry(12, 2, "kernel"),
               Entry(14, 4, "usable"), Entry(18, 3, "other") >>

\* More entries than the kernel keeps: the last usable region is cut off.
TruncatedMap == << Entry(0, 2, "other"), Entry(2, 4, "usable"), Entry(6, 2, "kernel"),
                   Entry(8, 2, "other"), Entry(10, 8, "usable"), Entry(18, 4, "usable") >>

\* The first usable region cannot hold the bitmap, which takes two pages of
\* the second.
TallMap == << Entry(0, 2, "other"), Entry(2, 2, "usable"), Entry(4, 22, "other"),
              Entry(26, 8, "usable") >>

\* Maps the manager cannot start from.
EmptyMap == << >>
NoRoomMap == << Entry(0, 2, "other"), Entry(2, 2, "usable"), Entry(4, 30, "other") >>

MCMemoryMaps == {SplitMap, TruncatedMap, TallMap, EmptyMap, NoRoomMap}
============================================================================
