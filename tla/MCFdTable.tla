----------------------------- MODULE MCFdTable -----------------------------
(* Instances of FdTable for TLC. *)
EXTENDS FdTable, TLC

Symmetry == Permutations(Cpus)

MCDests == {}

\* "/x", a file of two bytes, and "/y", which does not exist
MCPaths == {<<<<"x">>>>, <<<<"y">>>>}
MCArchive == << <<<<<<"x">>>>, "file", <<7, 8>>>> >>

MCChunks == {<<1>>, <<2, 3>>}

=============================================================================
