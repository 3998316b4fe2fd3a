------------------------------ MODULE MCKHeap ------------------------------
(* Memory for model checking KHeap: pages of eight bytes, slabs with a     *)
(* header of two bytes and objects of three and of six bytes.              *)
EXTENDS KHeap

Entry(b, l, t) == [base |-> b, length |-> l, type |-> t]

\* Page 0 is reserved, the bitmap takes page 1, and a kernel page splits what
\* is left.
HeapMap == << Entry(0, 8, "other"), Entry(8, 24, "usable"), Entry(32, 8, "kernel"),
              Entry(40, 8, "usable") >>

MCMemoryMaps == {HeapMap}
MCSlabSizes == <<3, 6>>
============================================================================
