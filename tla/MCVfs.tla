------------------------------- MODULE MCVfs -------------------------------
(* Instances of Vfs for TLC. *)
EXTENDS Vfs, TLC

\* "m" is a string prefix of the sibling "mx".
M == <<"m">>
MX == <<"m", "x">>
X == <<"x">>

\* "/", "/m", "/mx", "/m/x"
MCPaths == {<< >>, <<M>>, <<MX>>, <<M, X>>}
MCDests == {<< >>, <<M, X>>}

\* CPUs are interchangeable.
Symmetry == Permutations(Cpus)

\* Two files, one of them in a directory that the archive does not list.
MCArchive == << <<<<X>>, "file", <<3>>>>, <<<<M, X>>, "file", <<1, 2>>>> >>

=============================================================================
