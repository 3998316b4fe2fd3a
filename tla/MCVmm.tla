------------------------------- MODULE MCVmm -------------------------------
(* Small address spaces for TLC. *)
EXTENDS Vmm, TLC

MCMmapPages == {0}
MCMunmapPages == {5}
MCBrkWants == {4, 7}
MCStorePages == {5}
MCSymmetry == Permutations(Pids)
\* Two segments that share page 1, the second one from its middle on.
MCImage == <<<<2, 1>>, <<3, 1>>>>
MCStackArea == <<2, 1>>
MCArgArea == <<3, 1>>
=============================================================================
